---------------------- MODULE DocumentRequestsProofs ----------------------
(***************************************************************************)
(* Theorems about DocumentRequests, for any number of workers, documents,  *)
(* identifiers and requests, with and without failing calls.               *)
(***************************************************************************)
EXTENDS DocumentRequests, TLAPS

-----------------------------------------------------------------------------
(***************************************************************************)
(* The shape of a step.                                                    *)
(***************************************************************************)

\* How worker w goes on after a call that is not an invalidation.
Continues(w) ==
    \/ \E c \in EditCall \cup StubCall : GoOn(w, c)
    \/ \E out \in Answers : InvalidateCaches(w, out) \/ Answer(w, out)

\* A call that writes a document, or fails to.
WriteStep(w) ==
    /\ pc[w] \in FlagCall \cup EditCall \cup StubCall
    /\ \/ \E doc \in Document : Apply(w, doc)
       \/ UNCHANGED <<store, rev>>
    /\ Continues(w)
    /\ UNCHANGED <<cdn, pending, pdf, acked, served>>

\* A handler loads u and starts, or refuses.
Opens(w, u, op) ==
    \/ \E i \in Identifiers \cup {NoNcn} \cup Texts, dated \in BOOLEAN, out \in Answers,
          c \in FlagCall \cup EditCall \cup {"insert", "put_pdf", "inv_public"} :
          Start(w, op, u, i, dated, out, c)
    \/ \E out \in Answers : Refuse(w, op, u, out)

\* A handler that begins.
BeginStep(w) ==
    /\ pc[w] = "idle"
    /\ \E u \in Uris, op \in Handler : Opens(w, u, op)
    /\ served' = served + 1
    /\ UNCHANGED <<rev, cdn, pending, store, pdf, acked>>

USE DEF Document, Handler, FlagCall, EditCall, StubCall, InvalidationCall, Call,
        Answers, Identifiers

LEMMA PlainTexts ==
    ASSUME NEW n \in Ncns \cup {NoNcn}
    PROVE  Plain(n) \in Texts /\ Strip(Plain(n)) = n
BY DEF Plain, Strip, Texts

LEMMA AbsentType == AbsentDocument \in Document
BY PlainTexts DEF AbsentDocument

LEMMA NoTaskType == NoTask \in Task
BY UrisAssumption, AbsentType DEF NoTask, Task

LEMMA BeginShape ==
    ASSUME TypeOK, NEW w \in Workers, Begin(w)
    PROVE  BeginStep(w)
<1>1. PICK u \in Uris :
        \/ \E op \in FlagCall \ {"delete"} : BeginFlag(w, op, u)
        \/ BeginDelete(w, u)
        \/ \E n \in Ncns \cup {NoNcn}, dated \in BOOLEAN : BeginEdit(w, u, n, dated)
        \/ \E i \in Identifiers : BeginAddIdentifier(w, u, i)
        \/ \E i \in Identifiers : BeginDeleteIdentifier(w, u, i)
        \/ BeginUpload(w, u)
        \/ \E text \in Texts : BeginStub(w, u, text)
  BY DEF Begin
<1> USE DEF Accept, LoadFails, distributionVars
<1>2. ASSUME NEW op \in FlagCall \ {"delete"}, BeginFlag(w, op, u)
      PROVE  BeginStep(w)
  BY <1>2 DEF BeginFlag, BeginStep, Opens
<1>3. ASSUME BeginDelete(w, u)
      PROVE  BeginStep(w)
  BY <1>3 DEF BeginDelete, BeginStep, Opens
<1>4. ASSUME NEW n \in Ncns \cup {NoNcn}, NEW dated \in BOOLEAN,
             BeginEdit(w, u, n, dated)
      PROVE  BeginStep(w)
  BY <1>4 DEF BeginEdit, BeginStep, Opens
<1>5. ASSUME NEW i \in Identifiers,
             BeginAddIdentifier(w, u, i) \/ BeginDeleteIdentifier(w, u, i)
      PROVE  BeginStep(w)
  BY <1>5 DEF BeginAddIdentifier, BeginDeleteIdentifier, BeginStep, Opens
<1>6. ASSUME BeginUpload(w, u)
      PROVE  BeginStep(w)
  BY <1>6 DEF BeginUpload, BeginStep, Opens
<1>7. ASSUME NEW text \in Texts, BeginStub(w, u, text)
      PROVE  BeginStep(w)
  BY <1>7 DEF BeginStub, BeginStep, Opens
<1> QED BY <1>1, <1>2, <1>3, <1>4, <1>5, <1>6, <1>7

\* A write goes on in one of the three ways whatever becomes of the call.
LEMMA RaiseContinues ==
    ASSUME NEW w \in Workers, Raise(w)
    PROVE  Continues(w)
BY DEF Raise, Continues

\* The handlers that save the identifiers, and the identifier each is about.
SavesIdentifiers(t) ==
    /\ t.op \in {"edit", "add_identifier", "delete_identifier", "stub"}
    /\ IF t.op = "stub" THEN t.ident \in Texts /\ Strip(t.ident) \in Ncns
                        ELSE t.ident \in Identifiers

LEMMA CollectionType ==
    ASSUME NEW t \in Task, SavesIdentifiers(t)
    PROVE  Collection(t) \in SUBSET Identifiers
BY DEF SavesIdentifiers, Collection, ReplaceNcn, Task

\* What a handler whose next call is c has made sure of.
Fits(c, t) ==
    /\ c = "delete" => ~t.snap.published
    /\ c = "save_identifiers" =>
          /\ SavesIdentifiers(t)
          /\ t.op = "edit" => t.ident \in Ncns
          /\ t.op = "delete_identifier" => ~t.snap.ever
    /\ c = "set_citation" => t.ident \in Ncns
    /\ c \in StubCall => t.ident \in Texts
    /\ c = "reload" => Strip(t.ident) \in Ncns
    /\ c \in StubCall => t.op = "stub"

CallsFit == \A w \in Workers : Fits(pc[w], task[w])

LEMMA WriteShape ==
    ASSUME TypeOK, CallsFit, NEW w \in Workers, Step(w),
           pc[w] \in FlagCall \cup EditCall \cup (StubCall \ {"reload"})
    PROVE  WriteStep(w)
<1> DEFINE doc == store[task[w].uri]
<1>1. doc \in Document /\ task[w] \in Task /\ task[w].uri \in Uris
  BY DEF TypeOK, Task
<1>2. ASSUME NEW call \in FlagCall \cup EditCall \cup StubCall, NEW d \in Document,
             NEW possible \in BOOLEAN,
             \/ \E c \in EditCall \cup StubCall :
                   Write(w, call, possible, d, GoOn(w, c))
             \/ \E out \in Answers : Write(w, call, possible, d, InvalidateCaches(w, out))
             \/ \E out \in Answers : Write(w, call, possible, d, Answer(w, out))
      PROVE  WriteStep(w)
  <2>1. pc[w] = call /\ UNCHANGED <<cdn, pending, pdf, acked, served>>
    BY <1>2 DEF Write
  <2>2. Apply(w, d) \/ UNCHANGED <<store, rev>>
    BY <1>2 DEF Write
  <2>3. Continues(w)
    BY <1>2, RaiseContinues DEF Write, Continues
  <2> QED BY <2>1, <2>2, <2>3 DEF WriteStep
<1> USE DEF Update, Stored
<1>3. CASE Publish(w)
  <2>1. [doc EXCEPT !.published = TRUE, !.ever = TRUE] \in Document
    BY <1>1
  <2> QED BY <2>1, <1>2, <1>3 DEF Publish, Exists
<1>4. CASE Unpublish(w)
  <2>1. [doc EXCEPT !.published = FALSE] \in Document
    BY <1>1
  <2> QED BY <2>1, <1>2, <1>4 DEF Unpublish, Exists
<1>5. CASE Hold(w)
  <2>1. [doc EXCEPT !.held = TRUE] \in Document
    BY <1>1
  <2> QED BY <2>1, <1>2, <1>5 DEF Hold, Exists
<1>6. CASE Unhold(w)
  <2>1. [doc EXCEPT !.held = FALSE] \in Document
    BY <1>1
  <2> QED BY <2>1, <1>2, <1>6 DEF Unhold, Exists
<1>7. CASE Delete(w)
  <2>1. [doc EXCEPT !.status = "deleted"] \in Document
    BY <1>1
  <2> QED BY <2>1, <1>2, <1>7 DEF Delete, Exists
<1>8. CASE SaveIdentifiers(w)
  <2>1. pc[w] = "save_identifiers"
    BY <1>8 DEF SaveIdentifiers, Write
  <2>2. Collection(task[w]) \in SUBSET Identifiers
    BY <2>1, <1>1, CollectionType DEF CallsFit, Fits
  <2>3. [doc EXCEPT !.ids = Collection(task[w])] \in Document
    BY <1>1, <2>2
  <2> QED BY <2>3, <1>2, <1>8 DEF SaveIdentifiers, Exists
<1>9. CASE SetCitation(w)
  <2>1. task[w].ident \in Ncns
    BY <1>9 DEF SetCitation, Write, CallsFit, Fits
  <2>2. [doc EXCEPT !.cite = Plain(task[w].ident)] \in Document
    BY <1>1, <2>1, PlainTexts
  <2> QED BY <2>2, <1>2, <1>9 DEF SetCitation, Exists
<1>10. CASE SetName(w)
  <2>1. [doc EXCEPT !.name = task[w].form] \in Document
    BY <1>1 DEF Task
  <2> QED BY <2>1, <1>2, <1>10 DEF SetName, Exists
<1>11. CASE SetCourt(w)
  <2>1. [doc EXCEPT !.court = task[w].form] \in Document
    BY <1>1 DEF Task
  <2> QED BY <2>1, <1>2, <1>11 DEF SetCourt, Exists
<1>12. CASE SetDate(w)
  <2>1. [doc EXCEPT !.date = task[w].form] \in Document
    BY <1>1 DEF Task
  <2> QED BY <2>1, <1>2, <1>12 DEF SetDate, Exists
<1>13. CASE InsertStub(w)
  <2>1. task[w].ident \in Texts
    BY <1>13 DEF InsertStub, Write, CallsFit, Fits
  <2>2. NewDocument(task[w].ident) \in Document
    BY <2>1, AbsentType DEF NewDocument
  <2> QED BY <2>2, <1>2, <1>13 DEF InsertStub
<1>14. CASE SetSourceName(w) \/ SetSourceEmail(w) \/ SetReceivedAt(w)
  BY <1>1, <1>2, <1>14 DEF SetSourceName, SetSourceEmail, SetReceivedAt, Exists
<1>15. CASE PutPdf(w) \/ ReloadStub(w) \/ InvalidatePublic(w) \/ InvalidateAssets(w)
            \/ InvalidateEditor(w)
  BY <1>15 DEF PutPdf, ReloadStub, InvalidatePublic, InvalidateAssets,
               InvalidateEditor, Invalidate
<1> QED BY <1>3, <1>4, <1>5, <1>6, <1>7, <1>8, <1>9, <1>10, <1>11, <1>12, <1>13,
           <1>14, <1>15 DEF Step

\* The other steps of a worker: the file upload, the reload and the three
\* invalidations.
LEMMA OtherShape ==
    ASSUME TypeOK, NEW w \in Workers, Step(w),
           pc[w] \notin FlagCall \cup EditCall \cup (StubCall \ {"reload"})
    PROVE  PutPdf(w) \/ ReloadStub(w) \/ InvalidatePublic(w) \/ InvalidateAssets(w)
              \/ InvalidateEditor(w)
BY DEF Step, Publish, Unpublish, Hold, Unhold, Delete, SaveIdentifiers, SetCitation,
       SetName, SetCourt, SetDate, InsertStub, SetSourceName, SetSourceEmail,
       SetReceivedAt, Update, Write

\* A step of w leaves the program counters and the locals of the others alone.
LEMMA OthersUntouched ==
    ASSUME TypeOK, CallsFit, NEW w \in Workers, Begin(w) \/ Step(w),
           NEW v \in Workers, v # w
    PROVE  pc'[v] = pc[v] /\ task'[v] = task[v]
<1>1. CASE Begin(w)
  <2>1. PICK u \in Uris, op \in Handler : Opens(w, u, op)
    BY <1>1, BeginShape DEF BeginStep
  <2> QED BY <2>1 DEF Opens, Start, Refuse, TypeOK
<1>2. CASE Step(w) /\ pc[w] \in FlagCall \cup EditCall \cup (StubCall \ {"reload"})
  <2>1. Continues(w)
    BY <1>2, WriteShape DEF WriteStep
  <2>2. CASE \E out \in Answers : InvalidateCaches(w, out)
    BY <2>2 DEF InvalidateCaches, TypeOK
  <2>3. CASE \E c \in EditCall \cup StubCall : GoOn(w, c)
    BY <2>3 DEF GoOn, TypeOK
  <2>4. CASE \E out \in Answers : Answer(w, out)
    BY <2>4 DEF Answer, TypeOK
  <2> QED BY <2>1, <2>2, <2>3, <2>4 DEF Continues
<1>3. CASE Step(w) /\ pc[w] \notin FlagCall \cup EditCall \cup (StubCall \ {"reload"})
  BY <1>3, OtherShape
     DEF PutPdf, ReloadStub, InvalidatePublic, InvalidateAssets, InvalidateEditor,
         Invalidate, Acknowledge, GoOn, Answer, TypeOK
<1> QED BY <1>1, <1>2, <1>3

-----------------------------------------------------------------------------
(***************************************************************************)
(* Type correctness.                                                       *)
(***************************************************************************)

TypeInv == TypeOK /\ CallsFit

\* Where a worker can be after Continues, Start or Refuse.
LEMMA ContinuesType ==
    ASSUME TypeOK, rev' \in [Uris -> Nat], NEW w \in Workers, Continues(w)
    PROVE  pc' \in [Workers -> Call] /\ task' \in [Workers -> Task]
<1>0. task[w] \in Task /\ task[w].uri \in Uris
  BY DEF TypeOK, Task
<1>1. ASSUME NEW c \in EditCall \cup StubCall, GoOn(w, c)
      PROVE  pc' \in [Workers -> Call] /\ task' \in [Workers -> Task]
  BY <1>1 DEF GoOn, TypeOK
<1>2. ASSUME NEW out \in Answers, InvalidateCaches(w, out)
      PROVE  pc' \in [Workers -> Call] /\ task' \in [Workers -> Task]
  <2>1. rev'[task[w].uri] \in Nat
    BY <1>0
  <2>2. [task[w] EXCEPT !.mark = rev'[task[w].uri], !.out = out] \in Task
    BY <1>0, <2>1 DEF Task
  <2>3. task' = [task EXCEPT ![w] =
                   [task[w] EXCEPT !.mark = rev'[task[w].uri], !.out = out]]
    BY <1>2 DEF InvalidateCaches, TypeOK
  <2> QED BY <1>2, <2>2, <2>3 DEF InvalidateCaches, TypeOK
<1>3. ASSUME NEW out \in Answers, Answer(w, out)
      PROVE  pc' \in [Workers -> Call] /\ task' \in [Workers -> Task]
  <2>1. [NoTask EXCEPT !.op = task[w].op, !.uri = task[w].uri, !.ident = task[w].ident,
                       !.out = out] \in Task
    BY <1>0, NoTaskType DEF Task
  <2> QED BY <1>3, <2>1 DEF Answer, TypeOK
<1> QED BY <1>1, <1>2, <1>3 DEF Continues

LEMMA BeginType ==
    ASSUME TypeInv, NEW w \in Workers, Begin(w)
    PROVE  TypeOK'
<1>1. BeginStep(w)
  BY BeginShape DEF TypeInv
<1>2. pc' \in [Workers -> Call] /\ task' \in [Workers -> Task]
  <2>1. ASSUME NEW u \in Uris, NEW op \in Handler,
               NEW i \in Identifiers \cup {NoNcn} \cup Texts,
               NEW dated \in BOOLEAN, NEW out \in Answers,
               NEW c \in FlagCall \cup EditCall \cup {"insert", "put_pdf", "inv_public"},
               Start(w, op, u, i, dated, out, c)
        PROVE  pc' \in [Workers -> Call] /\ task' \in [Workers -> Task]
    <3>1. [op |-> op, uri |-> u, ident |-> i, form |-> served + 1, dated |-> dated,
           snap |-> store[u], seen |-> rev[u], mark |-> rev[u], out |-> out] \in Task
      BY DEF TypeInv, TypeOK, Task, DistributionsTypeOK
    <3> QED BY <2>1, <3>1 DEF Start, TypeInv, TypeOK
  <2>2. ASSUME NEW u \in Uris, NEW op \in Handler, NEW out \in Answers,
               Refuse(w, op, u, out)
        PROVE  pc' \in [Workers -> Call] /\ task' \in [Workers -> Task]
    <3>1. [NoTask EXCEPT !.op = op, !.uri = u, !.out = out] \in Task
      BY NoTaskType DEF Task
    <3> QED BY <2>2, <3>1 DEF Refuse, TypeInv, TypeOK
  <2>3. PICK u \in Uris, op \in Handler : Opens(w, u, op)
    BY <1>1 DEF BeginStep
  <2>4. CASE \E out \in Answers : Refuse(w, op, u, out)
    BY <2>2, <2>4
  <2>5. CASE \E i \in Identifiers \cup {NoNcn} \cup Texts, dated \in BOOLEAN, out \in Answers,
                c \in FlagCall \cup EditCall \cup {"insert", "put_pdf", "inv_public"} :
                Start(w, op, u, i, dated, out, c)
    <3>1. PICK i \in Identifiers \cup {NoNcn} \cup Texts, dated \in BOOLEAN, out \in Answers,
               c \in FlagCall \cup EditCall \cup {"insert", "put_pdf", "inv_public"} :
                Start(w, op, u, i, dated, out, c)
      BY <2>5
    <3> HIDE DEF FlagCall, EditCall, Answers, Identifiers, Call, Handler
    <3> QED BY <2>1, <3>1
  <2> QED BY <2>3, <2>4, <2>5 DEF Opens
<1> QED BY <1>1, <1>2 DEF BeginStep, TypeInv, TypeOK, DistributionsTypeOK

LEMMA StepType ==
    ASSUME TypeInv, NEW w \in Workers, Step(w)
    PROVE  TypeOK'
<1> USE DEF TypeInv, DistributionsTypeOK
<1>0. task[w] \in Task /\ task[w].uri \in Uris
  BY DEF TypeOK, Task
<1>1. CASE pc[w] \in FlagCall \cup EditCall \cup (StubCall \ {"reload"})
  <2>1. WriteStep(w)
    BY <1>1, WriteShape
  <2>2. store' \in [Uris -> Document] /\ rev' \in [Uris -> Nat]
    <3> HIDE DEF Document
    <3> QED BY <2>1, <1>0 DEF WriteStep, Apply, TypeOK
  <2>3. pc' \in [Workers -> Call] /\ task' \in [Workers -> Task]
    BY <2>1, <2>2, ContinuesType DEF WriteStep
  <2> QED BY <2>1, <2>2, <2>3 DEF WriteStep, TypeOK
<1>2. CASE PutPdf(w)
  <2>1. Continues(w) /\ rev' = rev
    BY <1>2 DEF PutPdf, Continues, distributionVars
  <2>2. pc' \in [Workers -> Call] /\ task' \in [Workers -> Task]
    BY <2>1, ContinuesType DEF TypeOK
  <2>3. pdf' \in [Uris -> Nat]
    <3>1. [pdf EXCEPT ![task[w].uri] = @ + 1] \in [Uris -> Nat]
      BY <1>0 DEF TypeOK
    <3> QED BY <1>2, <3>1 DEF PutPdf, TypeOK
  <2> QED BY <1>2, <2>2, <2>3 DEF PutPdf, TypeOK, distributionVars
<1>3. CASE ReloadStub(w)
  <2>1. ASSUME task' = [task EXCEPT ![w].snap = Stored(w), ![w].seen = rev[task[w].uri]]
        PROVE  task' \in [Workers -> Task]
    <3>1. [task[w] EXCEPT !.snap = Stored(w), !.seen = rev[task[w].uri]] \in Task
      BY <1>0 DEF TypeOK, Task, Stored
    <3>2. task' = [task EXCEPT ![w] =
                     [task[w] EXCEPT !.snap = Stored(w), !.seen = rev[task[w].uri]]]
      BY <2>1 DEF TypeOK
    <3> QED BY <3>1, <3>2 DEF TypeOK
  <2>2. ASSUME Answer(w, "http_500")
        PROVE  pc' \in [Workers -> Call] /\ task' \in [Workers -> Task]
    <3>1. Continues(w) /\ rev' = rev
      BY <1>3, <2>2 DEF ReloadStub, Continues, distributionVars
    <3> QED BY <3>1, ContinuesType DEF TypeOK
  <2> QED BY <1>3, <2>1, <2>2 DEF ReloadStub, TypeOK, distributionVars
<1>4. CASE InvalidatePublic(w) \/ InvalidateAssets(w) \/ InvalidateEditor(w)
  <2>1. rev' = rev /\ cdn' = cdn /\ UNCHANGED <<store, pdf, served>>
    BY <1>4 DEF InvalidatePublic, InvalidateAssets, InvalidateEditor, Invalidate,
                CreateInvalidation, distributionVars
  <2>2. pending' \in [Distribution -> SUBSET Uris]
    BY <1>4, <1>0 DEF InvalidatePublic, InvalidateAssets, InvalidateEditor, Invalidate,
                CreateInvalidation, distributionVars, InvalidationPaths, TypeOK,
                Distribution
  <2>3. acked' \in [Uris -> Nat]
    BY <1>4, <1>0 DEF InvalidatePublic, InvalidateAssets, InvalidateEditor, Invalidate,
                Acknowledge, TypeOK, Task
  <2>4. pc' \in [Workers -> Call] /\ task' \in [Workers -> Task]
    <3>1. CASE \E out \in Answers : Answer(w, out)
      BY <3>1, <2>1, ContinuesType DEF Continues, TypeOK
    <3>2. CASE GoOn(w, "inv_assets") \/ GoOn(w, "inv_editor")
      BY <3>2 DEF GoOn, TypeOK
    <3> QED BY <1>4, <1>0, <3>1, <3>2
            DEF InvalidatePublic, InvalidateAssets, InvalidateEditor, Invalidate,
                Acknowledge, Task
  <2> QED BY <2>1, <2>2, <2>3, <2>4 DEF TypeOK
<1> QED BY <1>1, <1>2, <1>3, <1>4, OtherShape

LEMMA BeginFits ==
    ASSUME TypeInv, NEW w \in Workers, Begin(w)
    PROVE  CallsFit'
<1> USE DEF Accept, LoadFails, TypeInv
<1>1. ASSUME Fits(pc'[w], task'[w])
      PROVE  CallsFit'
  BY <1>1, OthersUntouched DEF CallsFit
<1>2. ASSUME NEW op, NEW u, NEW i, NEW dated, NEW out, NEW c,
             Start(w, op, u, i, dated, out, c),
             \/ c \in (FlagCall \ {"delete"}) \cup {"put_pdf", "inv_public", "set_name"}
             \/ c = "delete" /\ ~store[u].published
             \/ /\ c = "save_identifiers" /\ i \in Identifiers
                /\ op \in {"edit", "add_identifier", "delete_identifier"}
                /\ op = "edit" => i \in Ncns
                /\ op = "delete_identifier" => ~store[u].ever
             \/ c = "insert" /\ i \in Texts /\ op = "stub"
      PROVE  CallsFit'
  <2>1. pc'[w] = c /\ task'[w].op = op /\ task'[w].ident = i
         /\ task'[w].snap = store[u]
    BY <1>2 DEF Start, TypeOK
  <2> QED BY <2>1, <1>1, <1>2 DEF Fits, SavesIdentifiers
<1>3. ASSUME NEW op, NEW u, NEW out, Refuse(w, op, u, out), pc[w] = "idle"
      PROVE  CallsFit'
  BY <1>3, <1>1 DEF Refuse, TypeOK, Fits
<1>4. pc[w] = "idle"
  BY BeginShape DEF BeginStep
<1>5. PICK u \in Uris :
        \/ \E op \in FlagCall \ {"delete"} : BeginFlag(w, op, u)
        \/ BeginDelete(w, u)
        \/ \E n \in Ncns \cup {NoNcn}, dated \in BOOLEAN : BeginEdit(w, u, n, dated)
        \/ \E i \in Identifiers : BeginAddIdentifier(w, u, i)
        \/ \E i \in Identifiers : BeginDeleteIdentifier(w, u, i)
        \/ BeginUpload(w, u)
        \/ \E text \in Texts : BeginStub(w, u, text)
  BY DEF Begin
<1>6. ASSUME NEW op \in FlagCall \ {"delete"}, BeginFlag(w, op, u)
      PROVE  CallsFit'
  BY <1>2, <1>3, <1>4, <1>6 DEF BeginFlag
<1>7. CASE BeginDelete(w, u)
  BY <1>2, <1>3, <1>4, <1>7 DEF BeginDelete, SafeToDelete
<1>8. ASSUME NEW n \in Ncns \cup {NoNcn}, NEW dated \in BOOLEAN,
             BeginEdit(w, u, n, dated)
      PROVE  CallsFit'
  BY <1>2, <1>3, <1>4, <1>8 DEF BeginEdit
<1>9. ASSUME NEW i \in Identifiers, BeginAddIdentifier(w, u, i)
      PROVE  CallsFit'
  BY <1>2, <1>3, <1>4, <1>9 DEF BeginAddIdentifier
<1>10. ASSUME NEW i \in Identifiers, BeginDeleteIdentifier(w, u, i)
      PROVE  CallsFit'
  BY <1>2, <1>3, <1>4, <1>10 DEF BeginDeleteIdentifier
<1>11. CASE BeginUpload(w, u)
  BY <1>2, <1>3, <1>4, <1>11 DEF BeginUpload
<1>12. ASSUME NEW text \in Texts, BeginStub(w, u, text)
      PROVE  CallsFit'
  BY <1>2, <1>3, <1>4, <1>12 DEF BeginStub
<1> QED BY <1>5, <1>6, <1>7, <1>8, <1>9, <1>10, <1>11, <1>12

LEMMA StepFits ==
    ASSUME TypeInv, NEW w \in Workers, Step(w)
    PROVE  CallsFit'
<1> USE DEF TypeInv, Fits
<1>1. ASSUME Fits(pc'[w], task'[w])
      PROVE  CallsFit'
  BY <1>1, OthersUntouched DEF CallsFit
<1>2. ASSUME NEW out, Answer(w, out) \/ InvalidateCaches(w, out)
      PROVE  CallsFit'
  BY <1>1, <1>2 DEF Answer, InvalidateCaches, TypeOK
<1>3. ASSUME Raise(w)
      PROVE  CallsFit'
  BY <1>2, <1>3 DEF Raise
<1>4. ASSUME NEW c, GoOn(w, c), Fits(c, task[w])
      PROVE  CallsFit'
  BY <1>1, <1>4 DEF GoOn, TypeOK
<1>5. Fits(pc[w], task[w])
  BY DEF CallsFit, Fits
<1>6. CASE Publish(w) \/ Unpublish(w) \/ Hold(w) \/ Unhold(w) \/ Delete(w)
          \/ SetDate(w)
  BY <1>2, <1>3, <1>6 DEF Publish, Unpublish, Hold, Unhold, Delete, SetDate, Update, Write
<1>7. CASE SaveIdentifiers(w)
  BY <1>2, <1>3, <1>4, <1>5, <1>7 DEF SaveIdentifiers, Update, Write
<1>8. CASE SetCitation(w) \/ SetName(w) \/ SetCourt(w)
  BY <1>2, <1>3, <1>4, <1>8 DEF SetCitation, SetName, SetCourt, Update, Write
<1>9. CASE InsertStub(w) \/ SetSourceName(w) \/ SetSourceEmail(w)
  BY <1>2, <1>3, <1>4, <1>5, <1>9
     DEF InsertStub, SetSourceName, SetSourceEmail, Update, Write
<1>10. CASE SetReceivedAt(w)
  <2>1. task[w].ident \in Texts /\ task[w].op = "stub"
    BY <1>5, <1>10 DEF SetReceivedAt, Update, Write
  <2>2. Strip(task[w].ident) # NoNcn => Strip(task[w].ident) \in Ncns
    BY <2>1 DEF Strip, Texts
  <2>3. Strip(task[w].ident) # NoNcn => Fits("reload", task[w])
    BY <2>1, <2>2
  <2> QED BY <1>2, <1>3, <1>4, <1>10, <2>3 DEF SetReceivedAt, Update, Write
<1>11. CASE ReloadStub(w)
  <2>1. CASE /\ pc' = [pc EXCEPT ![w] = "save_identifiers"]
             /\ task' = [task EXCEPT ![w].snap = Stored(w),
                                     ![w].seen = rev[task[w].uri]]
    <3>1. pc'[w] = "save_identifiers" /\ task'[w].ident = task[w].ident
         /\ task'[w].op = task[w].op
      BY <2>1 DEF TypeOK, Task
    <3>2. task[w].ident \in Texts /\ Strip(task[w].ident) \in Ncns
            /\ task[w].op = "stub"
      BY <1>5, <1>11 DEF ReloadStub
    <3> QED BY <1>1, <3>1, <3>2 DEF SavesIdentifiers
  <2> QED BY <2>1, <1>2, <1>11 DEF ReloadStub
<1>12. CASE PutPdf(w)
  BY <1>2, <1>12 DEF PutPdf
<1>13. CASE InvalidatePublic(w) \/ InvalidateAssets(w) \/ InvalidateEditor(w)
  BY <1>2, <1>4, <1>13
     DEF InvalidatePublic, InvalidateAssets, InvalidateEditor, Invalidate, Acknowledge
<1> QED BY <1>6, <1>7, <1>8, <1>9, <1>10, <1>11, <1>12, <1>13 DEF Step

LEMMA EdgeType ==
    ASSUME TypeInv, Edge
    PROVE  TypeInv'
<1> USE DEF TypeInv, TypeOK, DistributionsTypeOK
<1>1. UNCHANGED <<rev, store, pdf, acked, pc, task, served>>
  BY DEF Edge, FillCopy, CompleteInvalidation
<1>2. CallsFit'
  BY <1>1 DEF CallsFit, Fits
<1>3. ASSUME NEW d \in Distribution, NEW u \in Uris, FillCopy(d, u)
      PROVE  TypeInv'
  BY <1>1, <1>2, <1>3 DEF FillCopy
<1>4. ASSUME NEW d \in Distribution, CompleteInvalidation(d)
      PROVE  TypeInv'
  <2>1. [u \in Uris |-> IF u \in pending[d] THEN NoCopy ELSE cdn[d][u]]
           \in [Uris -> Nat \cup {NoCopy}]
    OBVIOUS
  <2>2. cdn' \in [Distribution -> [Uris -> Nat \cup {NoCopy}]]
    BY <1>4, <2>1 DEF CompleteInvalidation
  <2> QED BY <1>1, <1>2, <1>4, <2>2 DEF CompleteInvalidation
<1> QED BY <1>3, <1>4, ReadersAssumption DEF Edge

LEMMA TypeInvariant == Spec => []TypeInv
<1>1. Init => TypeInv
  <2> SUFFICES ASSUME Init PROVE TypeInv
    OBVIOUS
  <2>1. store \in [Uris -> Document]
    <3>1. IngestedDocuments \subseteq Document
      BY PlainTexts DEF IngestedDocuments
    <3> QED BY <3>1, AbsentType DEF Init
  <2>2. task \in [Workers -> Task]
    BY NoTaskType DEF Init
  <2>3. DistributionsTypeOK
    BY DEF Init, DistributionsInit, DistributionsTypeOK
  <2> QED BY <2>1, <2>2, <2>3 DEF Init, TypeInv, TypeOK, CallsFit, Fits
<1>2. TypeInv /\ [Next]_vars => TypeInv'
  <2> SUFFICES ASSUME TypeInv, [Next]_vars PROVE TypeInv'
    OBVIOUS
  <2>1. ASSUME NEW w \in Workers, Begin(w) PROVE TypeInv'
    BY <2>1, BeginType, BeginFits DEF TypeInv
  <2>2. ASSUME NEW w \in Workers, Step(w) PROVE TypeInv'
    BY <2>2, StepType, StepFits DEF TypeInv
  <2>3. CASE UNCHANGED vars
    BY <2>3 DEF vars, TypeInv, TypeOK, DistributionsTypeOK, CallsFit, Fits
  <2> QED BY <2>1, <2>2, <2>3, EdgeType DEF Next
<1> QED BY <1>1, <1>2, PTL DEF Spec

\* The state of every part of the model stays in its type: no handler writes
\* the empty citation as an identifier, whatever is submitted.
THEOREM TypeCorrect == Spec => []TypeOK
<1>1. TypeInv => TypeOK
  BY DEF TypeInv
<1> QED BY <1>1, TypeInvariant, PTL

-----------------------------------------------------------------------------
(***************************************************************************)
(* Cache invalidation.                                                     *)
(***************************************************************************)

\* Copies of u older than r are gone from d, or are about to be removed.
Covered(d, u, r) == ServesOlder(d, u, r) => u \in pending[d]

\* AckedWritesCovered says nothing of a handler between two invalidations; the
\* inductive invariant says which distributions it has dealt with so far, and
\* that a new copy is never older than a mark or an acknowledged write.
TaskCovered(w) ==
    LET t == task[w]
    IN  /\ pc[w] \in InvalidationCall => t.mark <= rev[t.uri]
        /\ pc[w] \in {"inv_assets", "inv_editor"} => Covered("public", t.uri, t.mark)
        /\ pc[w] = "inv_editor" => Covered("assets", t.uri, t.mark)

CoverInv ==
    /\ \A u \in Uris : acked[u] <= rev[u]
    /\ \A w \in Workers : TaskCovered(w)
    /\ AckedWritesCovered

\* A step that changes neither copies nor pending invalidations, and no
\* acknowledgement, keeps everything but the part about its own worker.
LEMMA CoverFrame ==
    ASSUME TypeInv, CoverInv, NEW w \in Workers, Begin(w) \/ Step(w),
           UNCHANGED <<cdn, pending, acked>>,
           \A u \in Uris : rev'[u] \in Nat /\ rev[u] <= rev'[u],
           TaskCovered(w)'
    PROVE  CoverInv'
<1> USE DEF TypeInv, TypeOK, DistributionsTypeOK
<1>1. (\A u \in Uris : acked[u] <= rev[u])'
  BY DEF CoverInv
<1>2. ASSUME NEW v \in Workers, v # w
      PROVE  TaskCovered(v)'
  <2>1. pc'[v] = pc[v] /\ task'[v] = task[v]
    BY <1>2, OthersUntouched
  <2>2. TaskCovered(v) /\ task[v].uri \in Uris /\ task[v].mark \in Nat
    BY DEF CoverInv, Task
  <2> QED BY <2>1, <2>2 DEF TaskCovered, Covered, ServesOlder
<1>3. AckedWritesCovered'
  BY DEF CoverInv, AckedWritesCovered, ServesOlder
<1> QED BY <1>1, <1>2, <1>3 DEF CoverInv

LEMMA CoverBegin ==
    ASSUME TypeInv, CoverInv, NEW w \in Workers, Begin(w)
    PROVE  CoverInv'
<1> USE DEF TypeInv, TypeOK, DistributionsTypeOK
<1>1. BeginStep(w)
  BY BeginShape
<1>2. PICK u \in Uris, op \in Handler : Opens(w, u, op)
  BY <1>1 DEF BeginStep
<1>3. TaskCovered(w)'
  <2>1. CASE \E out \in Answers : Refuse(w, op, u, out)
    BY <1>1, <2>1 DEF Refuse, BeginStep, TaskCovered
  <2>2. CASE \E i \in Identifiers \cup {NoNcn} \cup Texts, dated \in BOOLEAN, out \in Answers,
              c \in FlagCall \cup EditCall \cup {"insert", "put_pdf", "inv_public"} :
              Start(w, op, u, i, dated, out, c)
    <3>1. pc'[w] \notin {"inv_assets", "inv_editor"} /\ task'[w].uri = u
            /\ task'[w].mark = rev[u]
      BY <2>2 DEF Start
    <3> QED BY <1>1, <3>1 DEF TaskCovered, BeginStep
  <2> QED BY <1>2, <2>1, <2>2 DEF Opens
<1> QED BY <1>1, <1>3, CoverFrame DEF BeginStep

LEMMA CoverWrite ==
    ASSUME TypeInv, CoverInv, NEW w \in Workers, Step(w),
           pc[w] \in FlagCall \cup EditCall \cup (StubCall \ {"reload"})
    PROVE  CoverInv'
<1> USE DEF TypeInv, TypeOK, DistributionsTypeOK
<1>1. WriteStep(w)
  BY WriteShape
<1>2. task[w] \in Task /\ task[w].uri \in Uris
  BY DEF Task
<1>3. \A u \in Uris : rev'[u] \in Nat /\ rev[u] <= rev'[u]
  BY <1>1, <1>2 DEF WriteStep, Apply
<1>4. TaskCovered(w)'
  <2>1. CASE \E c \in EditCall \cup StubCall : GoOn(w, c)
    BY <2>1 DEF GoOn, TaskCovered
  <2>2. CASE \E out \in Answers : Answer(w, out)
    BY <2>2 DEF Answer, TaskCovered
  <2>3. CASE \E out \in Answers : InvalidateCaches(w, out)
    <3>1. pc'[w] = "inv_public" /\ task'[w].uri = task[w].uri
            /\ task'[w].mark = rev'[task[w].uri]
      BY <2>3, <1>2 DEF InvalidateCaches, Task
    <3> QED BY <1>2, <1>3, <3>1 DEF TaskCovered
  <2> QED BY <1>1, <2>1, <2>2, <2>3 DEF WriteStep, Continues
<1> QED BY <1>1, <1>3, <1>4, CoverFrame DEF WriteStep

LEMMA CoverPdfReload ==
    ASSUME TypeInv, CoverInv, NEW w \in Workers, PutPdf(w) \/ ReloadStub(w)
    PROVE  CoverInv'
<1> USE DEF TypeInv, TypeOK, DistributionsTypeOK
<1>1. UNCHANGED <<rev, cdn, pending, acked>> /\ pc'[w] \in {"idle", "save_identifiers"}
  BY DEF PutPdf, ReloadStub, Answer, distributionVars
<1>2. TaskCovered(w)'
  BY <1>1 DEF TaskCovered
<1> QED BY <1>1, <1>2, CoverFrame DEF Step

\* What an invalidation call does to the copies and the pending invalidations:
\* nothing is forgotten, and when it is accepted the document is covered.
LEMMA InvalidateCovers ==
    ASSUME TypeInv, NEW d \in Distribution, NEW u \in Uris, CreateInvalidation(d, u)
    PROVE  /\ UNCHANGED <<rev, cdn>>
           /\ \A e \in Distribution : pending[e] \subseteq pending'[e]
           /\ u \in pending'[d]
BY DEF CreateInvalidation, InvalidationPaths, TypeInv, TypeOK, DistributionsTypeOK

LEMMA CoverInvalidate ==
    ASSUME TypeInv, CoverInv, NEW w \in Workers,
           InvalidatePublic(w) \/ InvalidateAssets(w) \/ InvalidateEditor(w)
    PROVE  CoverInv'
<1> USE DEF TypeInv, TypeOK, DistributionsTypeOK
<1> DEFINE u == task[w].uri
           r == task[w].mark
<1>1. task[w] \in Task /\ u \in Uris /\ r \in Nat
  BY DEF Task
<1>2. TaskCovered(w)
  BY DEF CoverInv
<1>3. UNCHANGED <<rev, cdn>> /\ \A e \in Distribution : pending[e] \subseteq pending'[e]
  BY <1>1, InvalidateCovers
     DEF InvalidatePublic, InvalidateAssets, InvalidateEditor, Invalidate,
         distributionVars, Distribution
<1>4. ASSUME NEW d \in Distribution, NEW x \in Uris, NEW y \in Nat, Covered(d, x, y)
      PROVE  Covered(d, x, y)'
  BY <1>3, <1>4 DEF Covered, ServesOlder
<1>5. ASSUME NEW v \in Workers, v # w
      PROVE  TaskCovered(v)'
  <2>1. pc'[v] = pc[v] /\ task'[v] = task[v]
    BY <1>5, OthersUntouched DEF Step
  <2>2. TaskCovered(v) /\ task[v].uri \in Uris /\ task[v].mark \in Nat
    BY DEF CoverInv, Task
  <2>3. Covered("public", task[v].uri, task[v].mark)
          => Covered("public", task[v].uri, task[v].mark)'
    BY <1>4, <2>1, <2>2 DEF Distribution, Covered, ServesOlder
  <2>4. Covered("assets", task[v].uri, task[v].mark)
          => Covered("assets", task[v].uri, task[v].mark)'
    BY <1>4, <2>1, <2>2 DEF Distribution, Covered, ServesOlder
  <2> QED BY <1>3, <2>1, <2>2, <2>3, <2>4 DEF TaskCovered
<1>6. ASSUME UNCHANGED acked, TaskCovered(w)'
      PROVE  CoverInv'
  <2>1. AckedWritesCovered'
    BY <1>3, <1>6 DEF CoverInv, AckedWritesCovered, ServesOlder
  <2> QED BY <1>3, <1>5, <1>6, <2>1 DEF CoverInv
<1>7. ASSUME UNCHANGED acked, NEW out, Answer(w, out)
      PROVE  CoverInv'
  BY <1>6, <1>7 DEF Answer, TaskCovered
<1>8. CASE InvalidatePublic(w)
  <2>1. CASE CreateInvalidation("public", u) /\ GoOn(w, "inv_assets") /\ acked' = acked
    <3>1. pc[w] = "inv_public" /\ pc'[w] = "inv_assets" /\ task' = task
      BY <1>8, <2>1 DEF InvalidatePublic, Invalidate, GoOn
    <3>2. u \in pending'["public"]
      BY <1>1, <2>1, InvalidateCovers DEF Distribution
    <3>3. TaskCovered(w)'
      BY <1>2, <1>3, <3>1, <3>2 DEF TaskCovered, Covered
    <3> QED BY <1>6, <2>1, <3>3
  <2> QED BY <1>7, <1>8, <2>1 DEF InvalidatePublic, Invalidate
<1>9. CASE InvalidateAssets(w)
  <2>1. CASE CreateInvalidation("assets", u) /\ GoOn(w, "inv_editor") /\ acked' = acked
    <3>1. pc[w] = "inv_assets" /\ pc'[w] = "inv_editor" /\ task' = task
      BY <1>9, <2>1 DEF InvalidateAssets, Invalidate, GoOn
    <3>2. u \in pending'["assets"]
      BY <1>1, <2>1, InvalidateCovers DEF Distribution
    <3>3. Covered("public", u, r)'
      BY <1>1, <1>2, <1>4, <3>1 DEF TaskCovered, Distribution, Covered, ServesOlder
    <3>4. TaskCovered(w)'
      BY <1>2, <1>3, <3>1, <3>2, <3>3 DEF TaskCovered, Covered
    <3> QED BY <1>6, <2>1, <3>4
  <2> QED BY <1>7, <1>9, <2>1 DEF InvalidateAssets, Invalidate
<1>10. CASE InvalidateEditor(w)
  <2>1. CASE CreateInvalidation("editor", u) /\ Acknowledge(w)
    <3>1. pc[w] = "inv_editor" /\ pc'[w] = "idle"
      BY <1>10, <2>1 DEF InvalidateEditor, Invalidate, Acknowledge, Answer
    <3>2. u \in pending'["editor"]
      BY <1>1, <2>1, InvalidateCovers DEF Distribution
    <3>3. ASSUME NEW d \in Distribution, cdn'[d][u] # NoCopy, cdn'[d][u] < r
          PROVE  u \in pending'[d]
      <4>1. d = "editor" \/ Covered(d, u, r)
        BY <1>2, <3>1 DEF TaskCovered, Distribution
      <4> QED BY <1>3, <3>2, <3>3, <4>1 DEF Covered, ServesOlder
    <3>4. \A x \in Uris : acked'[x] = acked[x] \/ (x = u /\ acked'[x] = r)
      <4>1. acked' = [acked EXCEPT ![u] = IF acked[u] < r THEN r ELSE acked[u]]
        BY <2>1 DEF Acknowledge
      <4> QED BY <1>1, <4>1
    <3>5. AckedWritesCovered'
      <4> SUFFICES ASSUME NEW d \in Distribution, NEW x \in Uris
                   PROVE  (ServesOlder(d, x, acked[x]) => x \in pending[d])'
        BY DEF AckedWritesCovered
      <4>1. CASE acked'[x] = acked[x]
        BY <1>3, <4>1 DEF CoverInv, AckedWritesCovered, ServesOlder
      <4>2. CASE x = u /\ acked'[x] = r
        BY <3>3, <4>2 DEF ServesOlder
      <4> QED BY <3>4, <4>1, <4>2
    <3>6. (\A x \in Uris : acked[x] <= rev[x])'
      BY <1>1, <1>2, <1>3, <3>1, <3>4 DEF CoverInv, TaskCovered
    <3>7. TaskCovered(w)'
      BY <3>1 DEF TaskCovered
    <3> QED BY <1>5, <3>5, <3>6, <3>7 DEF CoverInv
  <2> QED BY <1>7, <1>10, <2>1 DEF InvalidateEditor, Invalidate
<1> QED BY <1>8, <1>9, <1>10

LEMMA CoverEdge ==
    ASSUME TypeInv, CoverInv, Edge
    PROVE  CoverInv'
<1> USE DEF TypeInv, TypeOK, DistributionsTypeOK
<1>1. UNCHANGED <<rev, acked, pc, task>>
  BY DEF Edge, FillCopy, CompleteInvalidation
<1>2. ASSUME NEW d \in Distribution, NEW x \in Uris, NEW y \in Nat, y <= rev[x],
             Covered(d, x, y)
      PROVE  ServesOlder(d, x, y)' => x \in pending'[d]
  <2>1. ASSUME NEW e \in Distribution, NEW u \in Uris, FillCopy(e, u)
        PROVE  ServesOlder(d, x, y)' => x \in pending'[d]
    BY <1>2, <2>1 DEF FillCopy, Covered, ServesOlder
  <2>2. ASSUME NEW e \in Distribution, CompleteInvalidation(e)
        PROVE  ServesOlder(d, x, y)' => x \in pending'[d]
    <3>1. CASE e = d
      BY <1>2, <2>2, <3>1 DEF CompleteInvalidation, Covered, ServesOlder
    <3>2. CASE e # d
      <4>1. cdn'[d] = cdn[d] /\ pending'[d] = pending[d]
        BY <2>2, <3>2 DEF CompleteInvalidation
      <4> QED BY <1>2, <4>1 DEF Covered, ServesOlder
    <3> QED BY <3>1, <3>2
  <2> QED BY <2>1, <2>2, ReadersAssumption DEF Edge
<1>3. AckedWritesCovered'
  BY <1>1, <1>2 DEF CoverInv, AckedWritesCovered, Covered, ServesOlder
<1>4. ASSUME NEW w \in Workers
      PROVE  TaskCovered(w)'
  <2>1. TaskCovered(w) /\ task[w].uri \in Uris /\ task[w].mark \in Nat
    BY DEF CoverInv, Task
  <2> QED BY <1>1, <1>2, <2>1 DEF TaskCovered, Covered, ServesOlder, Distribution
<1> QED BY <1>1, <1>3, <1>4 DEF CoverInv

LEMMA CoverInvariant == Spec => []CoverInv
<1>1. Init => CoverInv
  BY DEF Init, DistributionsInit, CoverInv, TaskCovered, AckedWritesCovered, ServesOlder
<1>2. TypeInv /\ CoverInv /\ [Next]_vars => CoverInv'
  <2> SUFFICES ASSUME TypeInv, CoverInv, [Next]_vars PROVE CoverInv'
    OBVIOUS
  <2>1. ASSUME NEW w \in Workers, Begin(w) PROVE CoverInv'
    BY <2>1, CoverBegin
  <2>2. ASSUME NEW w \in Workers, Step(w) PROVE CoverInv'
    BY <2>2, CoverWrite, CoverPdfReload, CoverInvalidate, OtherShape DEF TypeInv
  <2>3. CASE UNCHANGED vars
    BY <2>3 DEF vars, CoverInv, TaskCovered, Covered, AckedWritesCovered, ServesOlder
  <2> QED BY <2>1, <2>2, <2>3, CoverEdge DEF Next
<1> QED BY <1>1, <1>2, TypeInvariant, PTL DEF Spec

\* After invalidate_caches has returned, no distribution keeps a copy older than
\* the writes before it, except copies an accepted invalidation will remove:
\* for any interleaving of handlers, fills and completions, and any failures.
THEOREM CachesCovered == Spec => []AckedWritesCovered
<1>1. CoverInv => AckedWritesCovered
  BY DEF CoverInv
<1> QED BY <1>1, CoverInvariant, PTL

-----------------------------------------------------------------------------
(***************************************************************************)
(* Loaded copies and guards.                                               *)
(***************************************************************************)

\* SnapshotCoherence, with what it needs to be inductive: rev never falls
\* below what a task has seen.
Coherent(c, t) ==
    c # "idle" => /\ t.seen <= rev[t.uri]
                  /\ t.seen = rev[t.uri] => t.snap = store[t.uri]

SnapInv == \A w \in Workers : Coherent(pc[w], task[w])

\* A write to one document leaves the others' copies of it coherent: it makes
\* them older than the document.
LEMMA SnapFrame ==
    ASSUME TypeInv, SnapInv, NEW w \in Workers, Begin(w) \/ Step(w),
           \/ UNCHANGED <<store, rev>>
           \/ \E doc \in Document : Apply(w, doc),
           Coherent(pc[w], task[w])'
    PROVE  SnapInv'
<1> USE DEF TypeInv, TypeOK, DistributionsTypeOK
<1> SUFFICES ASSUME NEW v \in Workers, v # w
             PROVE  Coherent(pc[v], task[v])'
  BY DEF SnapInv
<1>1. pc'[v] = pc[v] /\ task'[v] = task[v]
  BY OthersUntouched
<1>2. Coherent(pc[v], task[v]) /\ task[v] \in Task /\ task[w] \in Task
  BY DEF SnapInv
<1>3. task[v].uri \in Uris /\ task[v].seen \in Nat /\ task[w].uri \in Uris
  BY <1>2 DEF Task
<1> HIDE DEF Document
<1>4. CASE UNCHANGED <<store, rev>>
  BY <1>1, <1>2, <1>4 DEF Coherent
<1>5. ASSUME NEW doc \in Document, Apply(w, doc)
      PROVE  Coherent(pc[v], task[v])'
  BY <1>1, <1>2, <1>3, <1>5 DEF Coherent, Apply
<1> QED BY <1>4, <1>5

LEMMA SnapBegin ==
    ASSUME TypeInv, SnapInv, NEW w \in Workers, Begin(w)
    PROVE  SnapInv'
<1> USE DEF TypeInv, TypeOK, DistributionsTypeOK
<1>1. BeginStep(w)
  BY BeginShape
<1>2. PICK u \in Uris, op \in Handler : Opens(w, u, op)
  BY <1>1 DEF BeginStep
<1>3. UNCHANGED <<store, rev>>
  BY <1>1 DEF BeginStep
<1>4. CASE \E out \in Answers : Refuse(w, op, u, out)
  BY <1>1, <1>3, <1>4, SnapFrame DEF Refuse, BeginStep, Coherent
<1>5. CASE \E i \in Identifiers \cup {NoNcn} \cup Texts, dated \in BOOLEAN, out \in Answers,
              c \in FlagCall \cup EditCall \cup {"insert", "put_pdf", "inv_public"} :
              Start(w, op, u, i, dated, out, c)
  <2>1. /\ task'[w].uri = u /\ task'[w].seen = rev[u] /\ task'[w].snap = store[u]
    BY <1>5 DEF Start
  <2> QED BY <1>3, <2>1, SnapFrame DEF Coherent
<1> QED BY <1>2, <1>4, <1>5 DEF Opens

LEMMA SnapStep ==
    ASSUME TypeInv, SnapInv, NEW w \in Workers, Step(w)
    PROVE  SnapInv'
<1> USE DEF TypeInv, TypeOK, DistributionsTypeOK
<1>1. task[w] \in Task /\ task[w].uri \in Uris /\ task[w].seen \in Nat
  BY DEF Task
<1>2. Coherent(pc[w], task[w])
  BY DEF SnapInv
<1>3. ASSUME pc[w] # "idle", UNCHANGED <<store, rev>> \/ \E doc \in Document : Apply(w, doc),
             /\ task'[w].uri = task[w].uri /\ task'[w].seen = task[w].seen
             /\ task'[w].snap = task[w].snap
      PROVE  SnapInv'
  <2>1. Coherent(pc[w], task[w])'
    BY <1>1, <1>2, <1>3 DEF Coherent, Apply
  <2> QED BY <1>3, <2>1, SnapFrame
<1>4. ASSUME UNCHANGED <<store, rev>> \/ \E doc \in Document : Apply(w, doc), pc'[w] = "idle"
      PROVE  SnapInv'
  BY <1>4, SnapFrame DEF Coherent
<1>5. CASE pc[w] \in FlagCall \cup EditCall \cup (StubCall \ {"reload"})
  <2>1. WriteStep(w)
    BY <1>5, WriteShape
  <2>2. CASE \E c \in EditCall \cup StubCall : GoOn(w, c)
    BY <1>3, <2>1, <2>2 DEF GoOn, WriteStep
  <2>3. CASE \E out \in Answers : InvalidateCaches(w, out)
    <3>1. /\ task'[w].uri = task[w].uri /\ task'[w].seen = task[w].seen
          /\ task'[w].snap = task[w].snap
      BY <2>3, <1>1 DEF InvalidateCaches, Task
    <3> QED BY <1>3, <1>5, <2>1, <3>1 DEF WriteStep
  <2>4. CASE \E out \in Answers : Answer(w, out)
    BY <1>4, <2>1, <2>4 DEF Answer, WriteStep
  <2> QED BY <2>1, <2>2, <2>3, <2>4 DEF WriteStep, Continues
<1>6. CASE PutPdf(w)
  BY <1>4, <1>6 DEF PutPdf, Answer, distributionVars
<1>7. CASE ReloadStub(w)
  <2>1. UNCHANGED <<store, rev>>
    BY <1>7 DEF ReloadStub, distributionVars
  <2>2. CASE Answer(w, "http_500")
    BY <1>4, <2>1, <2>2 DEF Answer
  <2>3. CASE task' = [task EXCEPT ![w].snap = Stored(w), ![w].seen = rev[task[w].uri]]
    <3>1. /\ task'[w].uri = task[w].uri /\ task'[w].seen = rev[task[w].uri]
          /\ task'[w].snap = store[task[w].uri]
      BY <1>1, <2>3 DEF Task, Stored
    <3>2. Coherent(pc[w], task[w])'
      BY <1>1, <2>1, <3>1 DEF Coherent
    <3> QED BY <2>1, <3>2, SnapFrame
  <2> QED BY <1>7, <2>2, <2>3 DEF ReloadStub
<1>8. CASE InvalidatePublic(w) \/ InvalidateAssets(w) \/ InvalidateEditor(w)
  <2>1. pc[w] # "idle" /\ UNCHANGED <<store, rev>>
    BY <1>8 DEF InvalidatePublic, InvalidateAssets, InvalidateEditor, Invalidate,
                CreateInvalidation, distributionVars
  <2>2. (\E out : Answer(w, out)) \/ task' = task
    BY <1>8 DEF InvalidatePublic, InvalidateAssets, InvalidateEditor, Invalidate,
                Acknowledge, GoOn
  <2> QED BY <1>3, <1>4, <2>1, <2>2 DEF Answer
<1> QED BY <1>5, <1>6, <1>7, <1>8, OtherShape

LEMMA SnapInvariant == Spec => []SnapInv
<1>1. Init => SnapInv
  BY DEF Init, SnapInv, Coherent
<1>2. TypeInv /\ SnapInv /\ [Next]_vars => SnapInv'
  <2> SUFFICES ASSUME TypeInv, SnapInv, [Next]_vars PROVE SnapInv'
    OBVIOUS
  <2>1. CASE Edge
    <3>1. UNCHANGED <<store, rev, pc, task>>
      BY <2>1 DEF Edge, FillCopy, CompleteInvalidation
    <3> QED BY <3>1 DEF SnapInv, Coherent
  <2>2. CASE UNCHANGED vars
    BY <2>2 DEF vars, SnapInv, Coherent
  <2> QED BY <2>1, <2>2, SnapBegin, SnapStep DEF Next
<1> QED BY <1>1, <1>2, TypeInvariant, PTL DEF Spec

\* A loaded copy that is out of date has been overtaken by a write; there is no
\* other way in which a handler can decide from something that is not stored.
THEOREM SnapshotsCoherent == Spec => []SnapshotCoherence
<1>1. SnapInv => SnapshotCoherence
  BY DEF SnapInv, Coherent, SnapshotCoherence, Unwritten
<1> QED BY <1>1, SnapInvariant, PTL

-----------------------------------------------------------------------------
(***************************************************************************)
(* What a step may do to a published document and to identifiers.          *)
(***************************************************************************)

\* Stub creation only ever writes where there is no document.
StubInv ==
    /\ \A u \in Uris : store[u].status = "absent" => store[u].ids = {}
    /\ \A w \in Workers : pc[w] = "insert" => store[task[w].uri].status = "absent"
    /\ \A v, w \in Workers :
          pc[v] = "insert" /\ pc[w] = "insert" /\ task[v].uri = task[w].uri => v = w

\* Every call that writes an existing document leaves it existing or deleted,
\* and only an insertion writes where there is none.
LEMMA WriteEffect ==
    ASSUME TypeInv, NEW w \in Workers, Step(w)
    PROVE  \/ store' = store
           \/ /\ pc[w] = "insert"
              /\ store' = [store EXCEPT ![task[w].uri] = NewDocument(task[w].ident)]
           \/ /\ Exists(Stored(w)) /\ pc[w] = "delete"
              /\ store' = [store EXCEPT ![task[w].uri] =
                              [Stored(w) EXCEPT !.status = "deleted"]]
           \/ /\ Exists(Stored(w)) /\ pc[w] = "save_identifiers"
              /\ store' = [store EXCEPT ![task[w].uri] =
                              [Stored(w) EXCEPT !.ids = Collection(task[w])]]
           \/ /\ Exists(Stored(w))
              /\ \E doc \in Document :
                    /\ doc.ids = Stored(w).ids /\ doc.status = Stored(w).status
                    /\ store' = [store EXCEPT ![task[w].uri] = doc]
<1>1. Stored(w) \in Document /\ task[w] \in Task
  BY DEF Task, Stored, TypeInv, TypeOK
<1>2. task[w].form \in Nat /\ (pc[w] = "set_citation" => task[w].ident \in Ncns)
  BY <1>1 DEF Task, TypeInv, CallsFit, Fits
<1>3. ASSUME NEW d \in Document, d.ids = Stored(w).ids, d.status = Stored(w).status,
             store' = store \/ (Exists(Stored(w)) /\ Apply(w, d))
      PROVE  \/ store' = store
             \/ /\ Exists(Stored(w))
                /\ \E doc \in Document :
                      /\ doc.ids = Stored(w).ids /\ doc.status = Stored(w).status
                      /\ store' = [store EXCEPT ![task[w].uri] = doc]
  BY <1>3 DEF Apply
<1>4. CASE Publish(w)
  <2> DEFINE d == [Stored(w) EXCEPT !.published = TRUE, !.ever = TRUE]
  <2>1. d \in Document /\ d.ids = Stored(w).ids /\ d.status = Stored(w).status
    BY <1>1, <1>2
  <2>2. store' = store \/ (Exists(Stored(w)) /\ Apply(w, d))
    BY <1>4 DEF Publish, Update, Write
  <2> QED BY <1>3, <2>1, <2>2
<1>5. CASE Unpublish(w)
  <2> DEFINE d == [Stored(w) EXCEPT !.published = FALSE]
  <2>1. d \in Document /\ d.ids = Stored(w).ids /\ d.status = Stored(w).status
    BY <1>1, <1>2
  <2>2. store' = store \/ (Exists(Stored(w)) /\ Apply(w, d))
    BY <1>5 DEF Unpublish, Update, Write
  <2> QED BY <1>3, <2>1, <2>2
<1>6. CASE Hold(w)
  <2> DEFINE d == [Stored(w) EXCEPT !.held = TRUE]
  <2>1. d \in Document /\ d.ids = Stored(w).ids /\ d.status = Stored(w).status
    BY <1>1, <1>2
  <2>2. store' = store \/ (Exists(Stored(w)) /\ Apply(w, d))
    BY <1>6 DEF Hold, Update, Write
  <2> QED BY <1>3, <2>1, <2>2
<1>7. CASE Unhold(w)
  <2> DEFINE d == [Stored(w) EXCEPT !.held = FALSE]
  <2>1. d \in Document /\ d.ids = Stored(w).ids /\ d.status = Stored(w).status
    BY <1>1, <1>2
  <2>2. store' = store \/ (Exists(Stored(w)) /\ Apply(w, d))
    BY <1>7 DEF Unhold, Update, Write
  <2> QED BY <1>3, <2>1, <2>2
<1>8. CASE SetName(w)
  <2> DEFINE d == [Stored(w) EXCEPT !.name = task[w].form]
  <2>1. d \in Document /\ d.ids = Stored(w).ids /\ d.status = Stored(w).status
    BY <1>1, <1>2
  <2>2. store' = store \/ (Exists(Stored(w)) /\ Apply(w, d))
    BY <1>8 DEF SetName, Update, Write
  <2> QED BY <1>3, <2>1, <2>2
<1>9. CASE SetCourt(w)
  <2> DEFINE d == [Stored(w) EXCEPT !.court = task[w].form]
  <2>1. d \in Document /\ d.ids = Stored(w).ids /\ d.status = Stored(w).status
    BY <1>1, <1>2
  <2>2. store' = store \/ (Exists(Stored(w)) /\ Apply(w, d))
    BY <1>9 DEF SetCourt, Update, Write
  <2> QED BY <1>3, <2>1, <2>2
<1>10. CASE SetDate(w)
  <2> DEFINE d == [Stored(w) EXCEPT !.date = task[w].form]
  <2>1. d \in Document /\ d.ids = Stored(w).ids /\ d.status = Stored(w).status
    BY <1>1, <1>2
  <2>2. store' = store \/ (Exists(Stored(w)) /\ Apply(w, d))
    BY <1>10 DEF SetDate, Update, Write
  <2> QED BY <1>3, <2>1, <2>2
<1>11. CASE SetCitation(w)
  <2> DEFINE d == [Stored(w) EXCEPT !.cite = Plain(task[w].ident)]
  <2>1. pc[w] = "set_citation"
    BY <1>11 DEF SetCitation, Update, Write
  <2>2. d \in Document /\ d.ids = Stored(w).ids /\ d.status = Stored(w).status
    BY <1>1, <1>2, <2>1, PlainTexts
  <2>3. store' = store \/ (Exists(Stored(w)) /\ Apply(w, d))
    BY <1>11 DEF SetCitation, Update, Write
  <2> QED BY <1>3, <2>2, <2>3
<1>12. CASE SetSourceName(w) \/ SetSourceEmail(w) \/ SetReceivedAt(w)
  <2>1. store' = store \/ (Exists(Stored(w)) /\ Apply(w, Stored(w)))
    BY <1>12 DEF SetSourceName, SetSourceEmail, SetReceivedAt, Update, Write
  <2> QED BY <1>1, <1>3, <2>1
<1>13. CASE Delete(w)
  BY <1>13 DEF Delete, Update, Write, Apply
<1>14. CASE SaveIdentifiers(w)
  BY <1>14 DEF SaveIdentifiers, Update, Write, Apply
<1>15. CASE InsertStub(w)
  BY <1>15 DEF InsertStub, Write, Apply
<1>16. CASE PutPdf(w) \/ ReloadStub(w) \/ InvalidatePublic(w) \/ InvalidateAssets(w)
            \/ InvalidateEditor(w)
  BY <1>16 DEF PutPdf, ReloadStub, InvalidatePublic, InvalidateAssets,
               InvalidateEditor, Invalidate
<1> QED BY <1>4, <1>5, <1>6, <1>7, <1>8, <1>9, <1>10, <1>11, <1>12, <1>13, <1>14,
           <1>15, <1>16 DEF Step

\* A new stub is about to be inserted only by a request that has just begun.
LEMMA InsertBegins ==
    ASSUME TypeInv, NEW w \in Workers, Begin(w), pc'[w] = "insert"
    PROVE  Fresh(task'[w].uri)
<1> USE DEF Accept, LoadFails, Refuse, Start, TypeInv, TypeOK
<1>1. PICK u \in Uris :
        \/ \E op \in FlagCall \ {"delete"} : BeginFlag(w, op, u)
        \/ BeginDelete(w, u)
        \/ \E n \in Ncns \cup {NoNcn}, dated \in BOOLEAN : BeginEdit(w, u, n, dated)
        \/ \E i \in Identifiers : BeginAddIdentifier(w, u, i)
        \/ \E i \in Identifiers : BeginDeleteIdentifier(w, u, i)
        \/ BeginUpload(w, u)
        \/ \E text \in Texts : BeginStub(w, u, text)
  BY DEF Begin
<1>2. ASSUME NEW op \in FlagCall \ {"delete"}, BeginFlag(w, op, u)
      PROVE  FALSE
  BY <1>2 DEF BeginFlag
<1>3. ASSUME BeginDelete(w, u) PROVE FALSE
  BY <1>3 DEF BeginDelete
<1>4. ASSUME NEW n \in Ncns \cup {NoNcn}, NEW dated \in BOOLEAN,
             BeginEdit(w, u, n, dated)
      PROVE  FALSE
  BY <1>4 DEF BeginEdit
<1>5. ASSUME NEW i \in Identifiers,
             BeginAddIdentifier(w, u, i) \/ BeginDeleteIdentifier(w, u, i)
      PROVE  FALSE
  BY <1>5 DEF BeginAddIdentifier, BeginDeleteIdentifier
<1>6. ASSUME BeginUpload(w, u) PROVE FALSE
  BY <1>6 DEF BeginUpload
<1>7. ASSUME NEW text \in Texts, BeginStub(w, u, text)
      PROVE  Fresh(task'[w].uri)
  BY <1>7 DEF BeginStub
<1> QED BY <1>1, <1>2, <1>3, <1>4, <1>5, <1>6, <1>7

LEMMA InsertNeverNext ==
    ASSUME TypeInv, NEW w \in Workers, Step(w)
    PROVE  pc'[w] # "insert"
<1> USE DEF TypeInv, TypeOK
<1>1. ASSUME NEW c \in Call \ {"insert"}, GoOn(w, c)
      PROVE  pc'[w] # "insert"
  BY <1>1 DEF GoOn
<1>2. ASSUME NEW out, InvalidateCaches(w, out) \/ Answer(w, out)
      PROVE  pc'[w] # "insert"
  BY <1>2 DEF InvalidateCaches, Answer
<1>3. ASSUME Raise(w)
      PROVE  pc'[w] # "insert"
  BY <1>2, <1>3 DEF Raise
<1> HIDE DEF Call, TypeInv, TypeOK
<1>4. "set_name" \in Call \ {"insert"} /\ "set_citation" \in Call \ {"insert"}
        /\ "set_court" \in Call \ {"insert"} /\ "set_date" \in Call \ {"insert"}
        /\ "source_name" \in Call \ {"insert"} /\ "source_email" \in Call \ {"insert"}
        /\ "received_at" \in Call \ {"insert"} /\ "reload" \in Call \ {"insert"}
        /\ "inv_assets" \in Call \ {"insert"} /\ "inv_editor" \in Call \ {"insert"}
  BY DEF Call
<1>5. CASE Publish(w) \/ Unpublish(w) \/ Hold(w) \/ Unhold(w) \/ Delete(w) \/ SetDate(w)
  BY <1>2, <1>3, <1>5 DEF Publish, Unpublish, Hold, Unhold, Delete, SetDate, Update, Write
<1>6. CASE SaveIdentifiers(w) \/ SetCitation(w) \/ SetName(w) \/ SetCourt(w)
  BY <1>1, <1>2, <1>3, <1>4, <1>6
     DEF SaveIdentifiers, SetCitation, SetName, SetCourt, Update, Write
<1>7. CASE InsertStub(w) \/ SetSourceName(w) \/ SetSourceEmail(w) \/ SetReceivedAt(w)
  BY <1>1, <1>2, <1>3, <1>4, <1>7
     DEF InsertStub, SetSourceName, SetSourceEmail, SetReceivedAt, Update, Write
<1>8. CASE PutPdf(w)
  BY <1>2, <1>8 DEF PutPdf
<1>9. CASE ReloadStub(w)
  BY <1>2, <1>9 DEF ReloadStub, TypeInv, TypeOK
<1>10. CASE InvalidatePublic(w) \/ InvalidateAssets(w) \/ InvalidateEditor(w)
  BY <1>1, <1>2, <1>4, <1>10
     DEF InvalidatePublic, InvalidateAssets, InvalidateEditor, Invalidate, Acknowledge
<1> QED BY <1>5, <1>6, <1>7, <1>8, <1>9, <1>10 DEF Step

LEMMA StubBegin ==
    ASSUME TypeInv, StubInv, NEW w \in Workers, Begin(w)
    PROVE  StubInv'
<1>1. store' = store
  BY BeginShape DEF BeginStep, TypeInv
<1>2. \A v \in Workers : v # w => pc'[v] = pc[v] /\ task'[v] = task[v]
  BY OthersUntouched DEF TypeInv
<1>3. ASSUME pc'[w] = "insert"
      PROVE  /\ store[task'[w].uri].status = "absent"
             /\ \A v \in Workers : pc[v] = "insert" => task[v].uri # task'[w].uri
  BY <1>3, InsertBegins DEF Fresh
<1> QED BY <1>1, <1>2, <1>3 DEF StubInv

LEMMA StubStep ==
    ASSUME TypeInv, StubInv, NEW w \in Workers, Step(w)
    PROVE  StubInv'
<1> USE DEF TypeInv, TypeOK
<1> DEFINE x == task[w].uri
<1>1. x \in Uris /\ store[x] \in Document
  BY DEF Task
<1>2. /\ pc'[w] # "insert"
      /\ \A v \in Workers : v # w => pc'[v] = pc[v] /\ task'[v] = task[v]
  BY InsertNeverNext, OthersUntouched
<1>3. \A v \in Workers : task[v].uri \in Uris
  BY DEF Task
<1>4. /\ \A u \in Uris : u # x => store'[u] = store[u]
      /\ store'[x] = store[x]
            \/ (store'[x].status # "absent"
                  /\ (pc[w] = "insert" \/ store[x].status # "absent"))
  <2>1. CASE store' = store
    BY <2>1
  <2>2. CASE pc[w] = "insert"
               /\ store' = [store EXCEPT ![x] = NewDocument(task[w].ident)]
    BY <1>1, <2>2 DEF NewDocument, AbsentDocument
  <2>3. CASE \E doc : /\ doc.status # "absent" /\ store[x].status # "absent"
                      /\ store' = [store EXCEPT ![x] = doc]
    BY <1>1, <2>3
  <2>4. Exists(store[x]) =>
           /\ store[x].status # "absent"
           /\ [store[x] EXCEPT !.status = "deleted"].status # "absent"
           /\ [store[x] EXCEPT !.ids = Collection(task[w])].status # "absent"
    BY <1>1 DEF Exists
  <2> QED BY <2>1, <2>2, <2>3, <2>4, WriteEffect DEF Stored
<1>5. \A u \in Uris : store'[u].status = "absent" => store'[u] = store[u]
  BY <1>4
<1>6. ASSUME NEW v \in Workers, pc'[v] = "insert"
      PROVE  store'[task'[v].uri].status = "absent"
  <2>1. v # w /\ pc[v] = "insert" /\ task'[v] = task[v]
    BY <1>2, <1>6
  <2>2. store[task[v].uri].status = "absent"
    BY <2>1 DEF StubInv
  <2>3. task[v].uri = x => pc[w] # "insert"
    BY <2>1 DEF StubInv
  <2> QED BY <1>3, <1>4, <2>1, <2>2, <2>3
<1>7. \A u, v \in Workers :
          pc'[u] = "insert" /\ pc'[v] = "insert" /\ task'[u].uri = task'[v].uri => u = v
  BY <1>2 DEF StubInv
<1> QED BY <1>5, <1>6, <1>7 DEF StubInv

LEMMA StubInvariant == Spec => []StubInv
<1>1. Init => StubInv
  BY DEF Init, StubInv, AbsentDocument, IngestedDocuments
<1>2. TypeInv /\ StubInv /\ [Next]_vars => StubInv'
  <2> SUFFICES ASSUME TypeInv, StubInv, [Next]_vars PROVE StubInv'
    OBVIOUS
  <2>1. CASE Edge
    BY <2>1 DEF Edge, FillCopy, CompleteInvalidation, StubInv
  <2>2. CASE UNCHANGED vars
    BY <2>2 DEF vars, StubInv
  <2> QED BY <2>1, <2>2, StubBegin, StubStep DEF Next
<1> QED BY <1>1, <1>2, TypeInvariant, PTL DEF Spec

\* A request that is in its last call before deleting u found it unpublished,
\* whatever has happened to u since: for any number of concurrent handlers.
THEOREM DeletionsExplained == Spec => PublishedDeletedOnlyIfStale
<1> DEFINE Explained ==
      \A u \in Uris :
          store[u].published /\ store'[u].status = "deleted" /\ Exists(store[u])
            => \E w \in Workers :
                  /\ pc[w] = "delete" /\ task[w].uri = u
                  /\ ~Unwritten(w) /\ ~task[w].snap.published
<1>1. TypeInv /\ SnapInv /\ [Next]_vars => [Explained]_vars
  <2> SUFFICES ASSUME TypeInv, SnapInv, Next PROVE Explained
    OBVIOUS
  <2> SUFFICES ASSUME NEW u \in Uris, store[u].published, store'[u].status = "deleted",
                      Exists(store[u])
               PROVE  \E w \in Workers :
                         /\ pc[w] = "delete" /\ task[w].uri = u
                         /\ ~Unwritten(w) /\ ~task[w].snap.published
    OBVIOUS
  <2>1. store' # store
    BY DEF Exists
  <2>2. PICK w \in Workers : Step(w)
    <3>1. ASSUME NEW v \in Workers, Begin(v) PROVE FALSE
      BY <2>1, <3>1, BeginShape DEF BeginStep, TypeInv
    <3> QED BY <2>1, <3>1 DEF Next, Edge
  <2>3. task[w].uri \in Uris /\ store[u] \in Document
    BY DEF TypeInv, TypeOK, Task
  <2>4. pc[w] = "delete" /\ task[w].uri = u
    <3>1. ASSUME NEW doc,
                 store' = [store EXCEPT ![task[w].uri] = doc],
                 doc.status = "live" \/ (doc.status = Stored(w).status /\ Exists(Stored(w)))
          PROVE  FALSE
      BY <2>3, <3>1 DEF Exists, Stored, TypeInv, TypeOK
    <3>2. NewDocument(task[w].ident).status = "live"
      BY DEF NewDocument, AbsentDocument
    <3>3. Exists(Stored(w)) =>
             [Stored(w) EXCEPT !.ids = Collection(task[w])].status = "live"
      BY <2>3 DEF Exists, Stored, TypeInv, TypeOK
    <3> QED BY <2>1, <2>2, <2>3, <3>1, <3>2, <3>3, WriteEffect
            DEF Exists, Stored, TypeInv, TypeOK
  <2>5. ~task[w].snap.published
    BY <2>4 DEF TypeInv, CallsFit, Fits
  <2>6. ~Unwritten(w)
    BY <2>4, <2>5 DEF SnapInv, Coherent, Unwritten
  <2> QED BY <2>4, <2>5, <2>6
<1> QED BY <1>1, TypeInvariant, SnapInvariant, PTL DEF Spec, PublishedDeletedOnlyIfStale

\* An identifier disappears only for one of the reasons IdentifierLossExplained
\* names: for any number of concurrent handlers, identifiers and failures.
THEOREM IdentifierLossesExplained == Spec => IdentifierLossExplained
<1> DEFINE Explained ==
      \A u \in Uris : \A i \in store[u].ids \ store'[u].ids :
          \E w \in Workers :
             /\ pc[w] = "save_identifiers" /\ task[w].uri = u
             /\ \/ ~Unwritten(w)
                \/ task[w].op = "delete_identifier" /\ task[w].ident = i /\ ~store[u].ever
                \/ task[w].op = "edit" /\ i \in Ncns
<1>1. TypeInv /\ SnapInv /\ StubInv /\ [Next]_vars => [Explained]_vars
  <2> SUFFICES ASSUME TypeInv, SnapInv, StubInv, Next PROVE Explained
    OBVIOUS
  <2> SUFFICES ASSUME NEW u \in Uris, NEW i \in store[u].ids \ store'[u].ids
               PROVE  \E w \in Workers :
                         /\ pc[w] = "save_identifiers" /\ task[w].uri = u
                         /\ \/ ~Unwritten(w)
                            \/ /\ task[w].op = "delete_identifier" /\ task[w].ident = i
                               /\ ~store[u].ever
                            \/ task[w].op = "edit" /\ i \in Ncns
    OBVIOUS
  <2>1. store' # store
    OBVIOUS
  <2>2. PICK w \in Workers : Step(w)
    <3>1. ASSUME NEW v \in Workers, Begin(v) PROVE FALSE
      BY <2>1, <3>1, BeginShape DEF BeginStep, TypeInv
    <3> QED BY <2>1, <3>1 DEF Next, Edge
  <2>3. task[w].uri \in Uris /\ store[u] \in Document /\ task[w] \in Task
    BY DEF TypeInv, TypeOK, Task
  <2>4. /\ pc[w] = "save_identifiers" /\ task[w].uri = u
        /\ store'[u].ids = Collection(task[w])
    <3>1. ASSUME NEW doc, store' = [store EXCEPT ![task[w].uri] = doc],
                 doc.ids = Stored(w).ids
          PROVE  FALSE
      BY <2>3, <3>1 DEF Stored, TypeInv, TypeOK
    <3>2. CASE pc[w] = "insert"
                 /\ store' = [store EXCEPT ![task[w].uri] = NewDocument(task[w].ident)]
      <4>1. store[task[w].uri].ids = {}
        BY <2>3, <3>2 DEF StubInv
      <4> QED BY <2>3, <3>2, <4>1 DEF TypeInv, TypeOK
    <3>3. [Stored(w) EXCEPT !.status = "deleted"].ids = Stored(w).ids
      BY <2>3 DEF Stored, TypeInv, TypeOK
    <3>4. CASE /\ pc[w] = "save_identifiers"
               /\ store' = [store EXCEPT ![task[w].uri] =
                               [Stored(w) EXCEPT !.ids = Collection(task[w])]]
      BY <2>3, <3>4 DEF Stored, TypeInv, TypeOK
    <3> QED BY <2>1, <2>2, <3>1, <3>2, <3>3, <3>4, WriteEffect
  <2>5. CASE ~Unwritten(w)
    BY <2>4, <2>5
  <2>6. CASE Unwritten(w)
    <3>1. task[w].snap = store[u]
      BY <2>4, <2>6 DEF SnapInv, Coherent, Unwritten
    <3>2. i \in store[u].ids /\ i \notin Collection(task[w])
      BY <2>4
    <3>3. CASE task[w].op = "edit"
      BY <2>4, <3>1, <3>2, <3>3 DEF Collection, ReplaceNcn
    <3>4. CASE task[w].op = "delete_identifier"
      <4>1. task[w].ident = i
        BY <3>1, <3>2, <3>4 DEF Collection
      <4>2. ~task[w].snap.ever
        BY <2>4, <3>4 DEF TypeInv, CallsFit, Fits
      <4> QED BY <2>4, <3>1, <3>4, <4>1, <4>2
    <3>5. CASE task[w].op \in {"add_identifier", "stub"}
      BY <3>1, <3>2, <3>5 DEF Collection
    <3> QED BY <2>4, <3>3, <3>4, <3>5
            DEF TypeInv, CallsFit, Fits, SavesIdentifiers
  <2> QED BY <2>5, <2>6
<1> QED BY <1>1, TypeInvariant, SnapInvariant, StubInvariant, PTL
        DEF Spec, IdentifierLossExplained

=============================================================================
