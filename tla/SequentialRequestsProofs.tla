---------------------- MODULE SequentialRequestsProofs ----------------------
(***************************************************************************)
(* Theorems about SequentialRequests: what one worker keeps true of the    *)
(* documents, for any documents, citations and number of requests.         *)
(***************************************************************************)
EXTENDS SequentialRequests, DocumentRequestsProofs

-----------------------------------------------------------------------------
(***************************************************************************)
(* The invariants.                                                         *)
(***************************************************************************)
\* No document has a field of a form that was not sent, and the fields written
\* before the next call are those of the form.
PrefixInv ==
    /\ \A u \in Uris : /\ served >= store[u].name
                       /\ store[u].name >= store[u].court
                       /\ store[u].court >= store[u].date
    /\ \A w \in Workers :
         LET t == task[w]
             doc == store[t.uri] IN
         /\ pc[w] # "idle" => t.form = served
         /\ pc[w] = "set_court" => doc.name = t.form
         /\ pc[w] = "set_date" => doc.name = t.form /\ doc.court = t.form

\* The identifiers and the body name the same neutral citation, or none.
Agree(doc) == doc.ids \cap Ncns = {Strip(doc.cite)} \ {NoNcn}

\* A stub that has its citation in the body, and not yet among the identifiers.
Making(w) ==
    \/ pc[w] \in {"source_name", "source_email", "received_at", "reload"}
    \/ pc[w] = "save_identifiers" /\ task[w].op = "stub"

\* Worker w has written one of the two places, and not the other one.
HalfWay(w) == Making(w) \/ pc[w] = "set_citation"

\* A handler is going to answer "ok" until it has begun to invalidate the caches.
OutFits(w) ==
    pc[w] # "idle" => /\ task[w].out \in {"ok", "error"}
                      /\ pc[w] \notin InvalidationCall => task[w].out = "ok"

\* What the two writes have left, as long as no handler was cut off between them.
CiteFits(w) ==
    LET t == task[w]
        doc == store[t.uri] IN
    /\ pc[w] = "save_identifiers" => t.op \in {"edit", "stub"}
    /\ pc[w] = "save_identifiers" /\ t.op = "stub" => t.snap.ids = {}
    /\ pc[w] = "set_citation" => doc.ids \cap Ncns = {t.ident}
    /\ Making(w) => doc.cite = t.ident /\ doc.ids = {}
    /\ t.op = "edit" /\ t.out = "ok" /\ t.ident # NoNcn
         /\ pc[w] \notin {"save_identifiers", "set_citation"}
       => Strip(doc.cite) = t.ident /\ t.ident \in doc.ids

CiteInv ==
    /\ \A w \in Workers : OutFits(w) /\ (task[w].uri \in cut \/ CiteFits(w))
    /\ \A u \in Uris \ cut :
         Exists(store[u]) /\ (\A w \in Workers : HalfWay(w) => task[w].uri # u)
           => Agree(store[u])

\* What a step does to cut: it keeps what was cut, and adds the document of a
\* handler that it cuts off.
CutGrows == cut \subseteq cut' /\ \A w \in Workers : CutOff(w) => task[w].uri \in cut'

-----------------------------------------------------------------------------
(***************************************************************************)
(* The shape of a step.                                                    *)
(***************************************************************************)
USE DEF Document, Handler, FlagCall, EditCall, StubCall, InvalidationCall, Call,
        Answers, Identifiers

LEMMA HistoryIsSpec == HistorySpec => Spec
<1>1. HistoryInit => Init
  BY DEF HistoryInit
<1>2. [HistoryNext]_<<vars, cut>> => [Next]_vars
  BY DEF HistoryNext, vars
<1> QED BY <1>1, <1>2, PTL DEF HistorySpec, Spec

\* Where a handler goes when it has not been through the fields of the form.
LEMMA GoesElsewhere ==
    ASSUME TypeInv, NEW w \in Workers,
           \/ Raise(w)
           \/ \E out : InvalidateCaches(w, out) \/ Answer(w, out)
           \/ \E c \in Call \ {"set_court", "set_date"} : GoOn(w, c)
    PROVE  /\ pc'[w] \notin {"set_court", "set_date"}
           /\ pc'[w] # "idle" => task'[w].form = task[w].form
<1> HIDE DEF Document, Call
<1> USE DEF TypeInv, TypeOK
<1>1. ASSUME NEW out, InvalidateCaches(w, out) \/ Answer(w, out)
      PROVE  /\ pc'[w] \notin {"set_court", "set_date"}
             /\ pc'[w] # "idle" => task'[w].form = task[w].form
  <2>1. CASE Answer(w, out)
    BY <2>1 DEF Answer
  <2>2. CASE InvalidateCaches(w, out)
    <3>1. task[w] \in Task /\ task' = [task EXCEPT ![w] =
            [task[w] EXCEPT !.mark = rev'[task[w].uri], !.out = out]]
      BY <2>2 DEF InvalidateCaches
    <3>2. task'[w].form = task[w].form
      BY <3>1 DEF Task
    <3> QED BY <2>2, <3>2 DEF InvalidateCaches
  <2> QED BY <1>1, <2>1, <2>2
<1>2. ASSUME NEW c \in Call \ {"set_court", "set_date"}, GoOn(w, c)
      PROVE  /\ pc'[w] \notin {"set_court", "set_date"}
             /\ pc'[w] # "idle" => task'[w].form = task[w].form
  BY <1>2 DEF GoOn
<1> HIDE DEF TypeInv, TypeOK
<1>3. Raise(w) => \E out : InvalidateCaches(w, out) \/ Answer(w, out)
  BY DEF Raise
<1> QED BY <1>1, <1>2, <1>3

\* The calls that handlers start with, when there are no identifier forms.
Opening(op, u, i, out, c) ==
    \/ op # "edit" /\ out = "ok" /\ c \in FlagCall \cup {"put_pdf"}
    \/ op = "stub" /\ out = "ok" /\ c = "insert"
    \/ op = "edit" /\ out = "error" /\ c = "inv_public"
    \/ op = "edit" /\ out = "ok" /\ c = "save_identifiers" /\ i \in Ncns
    \/ /\ op = "edit" /\ out = "ok" /\ c = "set_name"
       /\ Exists(store[u]) /\ i \in PreferredNcns(store[u])

LEMMA BeginOpens ==
    ASSUME NEW w \in Workers, Begin(w)
    PROVE  \E op \in Handler, u \in Uris :
             \/ \E out : Refuse(w, op, u, out)
             \/ \E i, dated, out, c : Start(w, op, u, i, dated, out, c) /\ Opening(op, u, i, out, c)
<1> DEFINE Opened ==
      \E op \in Handler, u \in Uris :
         \/ \E out : Refuse(w, op, u, out)
         \/ \E i, dated, out, c : Start(w, op, u, i, dated, out, c) /\ Opening(op, u, i, out, c)
<1>1. ASSUME NEW op \in Handler, NEW u \in Uris, NEW out, Refuse(w, op, u, out)
      PROVE  Opened
  BY <1>1
<1>2. ASSUME NEW op \in Handler, NEW u \in Uris, NEW i, NEW dated, NEW out, NEW c,
             Start(w, op, u, i, dated, out, c), Opening(op, u, i, out, c)
      PROVE  Opened
  BY <1>2
<1> HIDE DEF Opened
<1>3. PICK u \in Uris :
        \/ \E op \in FlagCall \ {"delete"} : BeginFlag(w, op, u)
        \/ BeginDelete(w, u)
        \/ \E n \in Ncns \cup {NoNcn}, dated \in BOOLEAN : BeginEdit(w, u, n, dated)
        \/ \E i \in Identifiers : BeginAddIdentifier(w, u, i)
        \/ \E i \in Identifiers : BeginDeleteIdentifier(w, u, i)
        \/ BeginUpload(w, u)
        \/ \E text \in Texts : BeginStub(w, u, text)
  BY DEF Begin
<1> USE DEF LoadFails
<1>4. ASSUME NEW op \in FlagCall \ {"delete"}, BeginFlag(w, op, u)
      PROVE  Opened
  BY <1>1, <1>2, <1>4 DEF BeginFlag, Opening
<1>5. CASE BeginDelete(w, u)
  BY <1>1, <1>2, <1>5 DEF BeginDelete, Opening
<1>6. ASSUME NEW n \in Ncns \cup {NoNcn}, NEW dated \in BOOLEAN, BeginEdit(w, u, n, dated)
      PROVE  Opened
  BY <1>1, <1>2, <1>6 DEF BeginEdit, Opening
<1>7. ASSUME NEW i \in Identifiers, BeginAddIdentifier(w, u, i) \/ BeginDeleteIdentifier(w, u, i)
      PROVE  Opened
  BY <1>7, NoIdentifierFormsAssumption DEF BeginAddIdentifier, BeginDeleteIdentifier, Accept
<1>8. CASE BeginUpload(w, u)
  BY <1>1, <1>2, <1>8 DEF BeginUpload, Opening
<1>9. ASSUME NEW text \in Texts, BeginStub(w, u, text)
      PROVE  Opened
  BY <1>1, <1>2, <1>9 DEF BeginStub, Opening
<1> QED BY <1>3, <1>4, <1>5, <1>6, <1>7, <1>8, <1>9 DEF Opened

-----------------------------------------------------------------------------
(***************************************************************************)
(* The fields of the edit form.                                            *)
(***************************************************************************)
\* A step that leaves the fields of every document alone, or empties those of x.
LEMMA PrefixFrame ==
    ASSUME TypeInv, PrefixInv, NEW w \in Workers, Workers = {w}, served' = served,
           \A u \in Uris :
              \/ /\ store'[u].name = store[u].name
                 /\ store'[u].court = store[u].court
                 /\ store'[u].date = store[u].date
              \/ store'[u].name = 0 /\ store'[u].court = 0 /\ store'[u].date = 0,
           pc'[w] \notin {"set_court", "set_date"},
           pc'[w] # "idle" => task'[w].form = task[w].form /\ pc[w] # "idle"
    PROVE  PrefixInv'
<1>1. served \in Nat
  BY DEF TypeInv, TypeOK
<1>2. \A u \in Uris : /\ served' >= store'[u].name
                       /\ store'[u].name >= store'[u].court
                       /\ store'[u].court >= store'[u].date
  BY <1>1 DEF PrefixInv
<1>3. ASSUME NEW v \in Workers
      PROVE  /\ pc'[v] # "idle" => task'[v].form = served'
             /\ pc'[v] \notin {"set_court", "set_date"}
  BY DEF PrefixInv
<1> QED BY <1>2, <1>3 DEF PrefixInv

LEMMA PrefixBegin ==
    ASSUME TypeInv, PrefixInv, NEW w \in Workers, Workers = {w}, Begin(w)
    PROVE  PrefixInv'
<1>1. /\ served' = served + 1 /\ served \in Nat /\ store' = store
      /\ \A u \in Uris : store[u] \in Document
  BY BeginShape DEF BeginStep, TypeInv, TypeOK
<1>2. \A u \in Uris : /\ served' >= store'[u].name
                       /\ store'[u].name >= store'[u].court
                       /\ store'[u].court >= store'[u].date
  BY <1>1 DEF PrefixInv
<1>3. /\ pc'[w] # "idle" => task'[w].form = served'
      /\ pc'[w] \notin {"set_court", "set_date"}
  <2>1. PICK op \in Handler, u \in Uris :
          \/ \E out : Refuse(w, op, u, out)
          \/ \E i, dated, out, c : Start(w, op, u, i, dated, out, c) /\ Opening(op, u, i, out, c)
    BY BeginOpens
  <2>2. ASSUME NEW out, Refuse(w, op, u, out)
        PROVE  pc'[w] = "idle"
    BY <2>2, BeginShape DEF Refuse, BeginStep, TypeInv
  <2>3. ASSUME NEW i, NEW dated, NEW out, NEW c,
               Start(w, op, u, i, dated, out, c), Opening(op, u, i, out, c)
        PROVE  task'[w].form = served' /\ pc'[w] \notin {"set_court", "set_date"}
    BY <1>1, <2>3 DEF Start, Opening, TypeInv, TypeOK
  <2> QED BY <2>1, <2>2, <2>3
<1>4. \A v \in Workers : v = w
  OBVIOUS
<1> QED BY <1>2, <1>3, <1>4 DEF PrefixInv

\* The steps that write no field.
LEMMA PrefixOther ==
    ASSUME TypeInv, PrefixInv, NEW w \in Workers, Workers = {w}, Step(w),
           pc[w] \notin {"set_name", "set_court", "set_date"}
    PROVE  PrefixInv'
<1> DEFINE x == task[w].uri
           Elsewhere == /\ pc'[w] \notin {"set_court", "set_date"}
                        /\ pc'[w] # "idle" => task'[w].form = task[w].form
<1>0. x \in Uris /\ store[x] \in Document /\ task[w] \in Task /\ DOMAIN store = Uris
  BY DEF TypeInv, TypeOK, Task
<1>1. ASSUME NEW d, d.name = store[x].name, d.court = store[x].court, d.date = store[x].date,
             store' = store \/ store' = [store EXCEPT ![x] = d]
      PROVE  \A u \in Uris : /\ store'[u].name = store[u].name
                              /\ store'[u].court = store[u].court
                              /\ store'[u].date = store[u].date
  BY <1>0, <1>1
<1>2. "set_name" \in Call \ {"set_court", "set_date"}
      /\ "set_citation" \in Call \ {"set_court", "set_date"}
      /\ "source_name" \in Call \ {"set_court", "set_date"}
      /\ "source_email" \in Call \ {"set_court", "set_date"}
      /\ "received_at" \in Call \ {"set_court", "set_date"}
      /\ "reload" \in Call \ {"set_court", "set_date"}
      /\ "inv_assets" \in Call \ {"set_court", "set_date"}
      /\ "inv_editor" \in Call \ {"set_court", "set_date"}
  OBVIOUS
<1> HIDE DEF Call, Document, x
<1>3. ASSUME served' = served, Elsewhere, pc[w] # "idle",
             \/ \A u \in Uris : /\ store'[u].name = store[u].name
                                 /\ store'[u].court = store[u].court
                                 /\ store'[u].date = store[u].date
             \/ \A u \in Uris : store'[u] = store[u]
                   \/ (store'[u].name = 0 /\ store'[u].court = 0 /\ store'[u].date = 0)
      PROVE  PrefixInv'
  BY <1>3, PrefixFrame
<1> HIDE DEF Elsewhere
<1>4. Raise(w) \/ (\E out : InvalidateCaches(w, out) \/ Answer(w, out)) => Elsewhere
  BY GoesElsewhere DEF Elsewhere
<1>5. \A c \in Call \ {"set_court", "set_date"} : GoOn(w, c) => Elsewhere
  BY GoesElsewhere DEF Elsewhere
<1>6. ASSUME NEW d, d.name = store[x].name, d.court = store[x].court, d.date = store[x].date,
             NEW call, NEW possible, call # "idle",
             \/ \E out : Write(w, call, possible, d, InvalidateCaches(w, out))
             \/ \E out : Write(w, call, possible, d, Answer(w, out))
             \/ \E c \in Call \ {"set_court", "set_date"} : Write(w, call, possible, d, GoOn(w, c))
      PROVE  PrefixInv'
  <2>1. served' = served /\ pc[w] # "idle" /\ (store' = store \/ store' = [store EXCEPT ![x] = d])
    BY <1>6 DEF Write, Apply, x
  <2>2. Elsewhere
    BY <1>4, <1>5, <1>6 DEF Write
  <2> QED BY <1>1, <1>3, <1>6, <2>1, <2>2
<1> USE DEF Update, Stored
<1>7. CASE Publish(w) \/ Unpublish(w) \/ Hold(w) \/ Unhold(w) \/ Delete(w)
  <2> DEFINE d1 == [store[x] EXCEPT !.published = TRUE, !.ever = TRUE]
             d2 == [store[x] EXCEPT !.published = FALSE]
             d3 == [store[x] EXCEPT !.held = TRUE]
             d4 == [store[x] EXCEPT !.held = FALSE]
             d5 == [store[x] EXCEPT !.status = "deleted"]
  <2>1. \A d \in {d1, d2, d3, d4, d5} :
          d.name = store[x].name /\ d.court = store[x].court /\ d.date = store[x].date
    BY <1>0 DEF Document
  <2>2. /\ Publish(w) => Write(w, "publish", Exists(store[x]), d1, InvalidateCaches(w, "ok"))
        /\ Unpublish(w) => Write(w, "unpublish", Exists(store[x]), d2, InvalidateCaches(w, "ok"))
        /\ Hold(w) => Write(w, "hold", Exists(store[x]), d3, InvalidateCaches(w, "ok"))
        /\ Unhold(w) => Write(w, "unhold", Exists(store[x]), d4, InvalidateCaches(w, "ok"))
        /\ Delete(w) => Write(w, "delete", Exists(store[x]), d5, InvalidateCaches(w, "ok"))
    BY DEF Publish, Unpublish, Hold, Unhold, Delete, x
  <2> HIDE DEF d1, d2, d3, d4, d5
  <2> QED BY <1>6, <1>7, <2>1, <2>2
<1>8. CASE SaveIdentifiers(w) \/ SetCitation(w)
  <2> DEFINE d1 == [store[x] EXCEPT !.ids = Collection(task[w])]
             d2 == [store[x] EXCEPT !.cite = Plain(task[w].ident)]
  <2>1. \A d \in {d1, d2} :
          d.name = store[x].name /\ d.court = store[x].court /\ d.date = store[x].date
    BY <1>0 DEF Document
  <2>2. /\ SaveIdentifiers(w) =>
             \/ Write(w, "save_identifiers", Exists(store[x]), d1, GoOn(w, "set_citation"))
             \/ Write(w, "save_identifiers", Exists(store[x]), d1, Answer(w, "ok"))
        /\ SetCitation(w) => Write(w, "set_citation", Exists(store[x]), d2, GoOn(w, "set_name"))
    BY DEF SaveIdentifiers, SetCitation, Write, x
  <2> HIDE DEF d1, d2
  <2> QED BY <1>2, <1>6, <1>8, <2>1, <2>2
<1>9. CASE SetSourceName(w) \/ SetSourceEmail(w) \/ SetReceivedAt(w)
  <2>1. /\ SetSourceName(w) =>
             Write(w, "source_name", Exists(store[x]), store[x], GoOn(w, "source_email"))
        /\ SetSourceEmail(w) =>
             Write(w, "source_email", Exists(store[x]), store[x], GoOn(w, "received_at"))
        /\ SetReceivedAt(w) =>
             \/ Write(w, "received_at", Exists(store[x]), store[x], GoOn(w, "reload"))
             \/ Write(w, "received_at", Exists(store[x]), store[x], Answer(w, "ok"))
    BY DEF SetSourceName, SetSourceEmail, SetReceivedAt, Write, x
  <2> QED BY <1>2, <1>6, <1>9, <2>1
<1>10. CASE InsertStub(w)
  <2> DEFINE d == NewDocument(task[w].ident)
  <2>1. d.name = 0 /\ d.court = 0 /\ d.date = 0
    BY DEF NewDocument, AbsentDocument
  <2> HIDE DEF d
  <2>2. served' = served /\ pc[w] # "idle" /\ (store' = store \/ store' = [store EXCEPT ![x] = d])
    BY <1>10 DEF InsertStub, Write, Apply, x, d
  <2>3. Elsewhere
    BY <1>2, <1>4, <1>5, <1>10 DEF InsertStub, Write
  <2>4. \A u \in Uris : store'[u] = store[u]
           \/ (store'[u].name = 0 /\ store'[u].court = 0 /\ store'[u].date = 0)
    BY <1>0, <2>1, <2>2
  <2> QED BY <1>3, <2>2, <2>3, <2>4
<1>11. CASE PutPdf(w)
  <2>1. served' = served /\ pc[w] # "idle" /\ store' = store
    BY <1>11 DEF PutPdf
  <2>2. Elsewhere
    BY <1>4, <1>11 DEF PutPdf
  <2> QED BY <1>3, <2>1, <2>2
<1>12. CASE ReloadStub(w)
  <2>1. served' = served /\ pc[w] # "idle" /\ store' = store
    BY <1>12 DEF ReloadStub
  <2>2. Elsewhere
    <3>1. CASE Answer(w, "http_500")
      BY <1>4, <3>1
    <3>2. CASE /\ pc' = [pc EXCEPT ![w] = "save_identifiers"]
               /\ task' = [task EXCEPT ![w].snap = Stored(w), ![w].seen = rev[task[w].uri]]
      <4>1. task'[w] = [task[w] EXCEPT !.snap = Stored(w), !.seen = rev[task[w].uri]]
        BY <3>2 DEF TypeInv, TypeOK
      <4>2. task'[w].form = task[w].form
        BY <1>0, <4>1 DEF Task
      <4> QED BY <3>2, <4>2 DEF Elsewhere, TypeInv, TypeOK
    <3> QED BY <1>12, <3>1, <3>2 DEF ReloadStub
  <2> QED BY <1>3, <2>1, <2>2
<1>13. CASE InvalidatePublic(w) \/ InvalidateAssets(w) \/ InvalidateEditor(w)
  <2>1. served' = served /\ pc[w] # "idle" /\ store' = store
    BY <1>13 DEF InvalidatePublic, InvalidateAssets, InvalidateEditor, Invalidate
  <2>2. Elsewhere
    BY <1>2, <1>4, <1>5, <1>13
       DEF InvalidatePublic, InvalidateAssets, InvalidateEditor, Invalidate, Acknowledge
  <2> QED BY <1>3, <2>1, <2>2
<1>14. ~SetName(w) /\ ~SetCourt(w) /\ ~SetDate(w)
  BY DEF SetName, SetCourt, SetDate, Write
<1> QED BY <1>7, <1>8, <1>9, <1>10, <1>11, <1>12, <1>13, <1>14 DEF Step

LEMMA PrefixStep ==
    ASSUME TypeInv, PrefixInv, NEW w \in Workers, Workers = {w}, Step(w)
    PROVE  PrefixInv'
<1> DEFINE x == task[w].uri
           n == task[w].form
<1>0. /\ x \in Uris /\ store \in [Uris -> Document] /\ served \in Nat /\ n \in Nat
      /\ \A u \in Uris : /\ store[u].name \in Nat /\ store[u].court \in Nat
                          /\ store[u].date \in Nat
  BY DEF TypeInv, TypeOK, Task
<1>1. /\ \A v \in Workers : v = w
      /\ \A u \in Uris : /\ served >= store[u].name
                         /\ store[u].name >= store[u].court
                         /\ store[u].court >= store[u].date
      /\ pc[w] # "idle" => n = served
      /\ pc[w] = "set_court" => store[x].name = n
      /\ pc[w] = "set_date" => store[x].name = n /\ store[x].court = n
  BY DEF PrefixInv
<1> HIDE DEF Document, Call
<1>2. ASSUME served' = served,
             \A u \in Uris : /\ served >= store'[u].name
                             /\ store'[u].name >= store'[u].court
                             /\ store'[u].court >= store'[u].date,
             pc'[w] # "idle" => task'[w].form = served,
             pc'[w] = "set_court" => store'[task'[w].uri].name = task'[w].form,
             pc'[w] = "set_date" =>
                store'[task'[w].uri].name = task'[w].form
                /\ store'[task'[w].uri].court = task'[w].form
      PROVE  PrefixInv'
  BY <1>1, <1>2 DEF PrefixInv
<1>3. Raise(w) => /\ pc'[w] \notin {"set_court", "set_date"}
                  /\ pc'[w] # "idle" => task'[w].form = n
  BY GoesElsewhere
<1>4. \A c : GoOn(w, c) => pc'[w] = c /\ task' = task
  BY DEF GoOn, TypeInv, TypeOK
<1> HIDE DEF x, n
<1>5. CASE SetName(w)
  <2> DEFINE d == [store[x] EXCEPT !.name = n]
  <2>1. /\ pc[w] = "set_name" /\ served' = served
        /\ \/ store' = store /\ Raise(w)
           \/ store' = [store EXCEPT ![x] = d] /\ (GoOn(w, "set_court") \/ Raise(w))
    BY <1>5 DEF SetName, Update, Write, Apply, Stored, x, n
  <2>2. d.name = n /\ d.court = store[x].court /\ d.date = store[x].date
    BY <1>0 DEF Document
  <2> HIDE DEF d
  <2>3. \A u \in Uris : /\ served >= store'[u].name
                         /\ store'[u].name >= store'[u].court
                         /\ store'[u].court >= store'[u].date
    BY <1>0, <1>1, <2>1, <2>2
  <2>4. CASE Raise(w)
    BY <1>1, <1>2, <1>3, <2>1, <2>3, <2>4
  <2>5. CASE store' = [store EXCEPT ![x] = d] /\ GoOn(w, "set_court")
    <3>1. pc'[w] = "set_court" /\ task'[w].form = n /\ task'[w].uri = x
      BY <1>4, <2>5 DEF x, n
    <3>2. store'[x].name = n
      BY <1>0, <2>2, <2>5
    <3> QED BY <1>1, <1>2, <2>1, <2>3, <3>1, <3>2
  <2> QED BY <2>1, <2>4, <2>5
<1>6. CASE SetCourt(w)
  <2> DEFINE d == [store[x] EXCEPT !.court = n]
  <2>1. /\ pc[w] = "set_court" /\ served' = served
        /\ \/ store' = store /\ Raise(w)
           \/ /\ store' = [store EXCEPT ![x] = d]
              /\ GoOn(w, "set_date") \/ Answer(w, "error") \/ Raise(w)
    BY <1>6 DEF SetCourt, Update, Write, Apply, Stored, x, n
  <2>2. d.name = store[x].name /\ d.court = n /\ d.date = store[x].date
    BY <1>0 DEF Document
  <2> HIDE DEF d
  <2>3. \A u \in Uris : /\ served >= store'[u].name
                         /\ store'[u].name >= store'[u].court
                         /\ store'[u].court >= store'[u].date
    BY <1>0, <1>1, <2>1, <2>2
  <2>4. CASE Raise(w)
    BY <1>1, <1>2, <1>3, <2>1, <2>3, <2>4
  <2>5. CASE Answer(w, "error")
    <3>1. pc'[w] = "idle"
      BY <2>5 DEF Answer, TypeInv, TypeOK
    <3> QED BY <1>2, <2>1, <2>3, <3>1
  <2>6. CASE store' = [store EXCEPT ![x] = d] /\ GoOn(w, "set_date")
    <3>1. pc'[w] = "set_date" /\ task'[w].form = n /\ task'[w].uri = x
      BY <1>4, <2>6 DEF x, n
    <3>2. store'[x].name = n /\ store'[x].court = n
      BY <1>0, <1>1, <2>1, <2>2, <2>6
    <3> QED BY <1>1, <1>2, <2>1, <2>3, <3>1, <3>2
  <2> QED BY <2>1, <2>4, <2>5, <2>6
<1>7. CASE SetDate(w)
  <2> DEFINE d == [store[x] EXCEPT !.date = n]
  <2>1. /\ pc[w] = "set_date" /\ served' = served
        /\ store' = store \/ store' = [store EXCEPT ![x] = d]
        /\ InvalidateCaches(w, "ok") \/ Raise(w)
    BY <1>7 DEF SetDate, Update, Write, Apply, Stored, x, n
  <2>2. d.name = store[x].name /\ d.court = store[x].court /\ d.date = n
    BY <1>0 DEF Document
  <2> HIDE DEF d
  <2>3. \A u \in Uris : /\ served >= store'[u].name
                         /\ store'[u].name >= store'[u].court
                         /\ store'[u].court >= store'[u].date
    BY <1>0, <1>1, <2>1, <2>2
  <2>4. /\ pc'[w] \notin {"set_court", "set_date"}
        /\ pc'[w] # "idle" => task'[w].form = n
    BY <2>1, GoesElsewhere DEF n
  <2> QED BY <1>1, <1>2, <2>1, <2>3, <2>4
<1>8. CASE ~SetName(w) /\ ~SetCourt(w) /\ ~SetDate(w)
  <2>1. pc[w] \notin {"set_name", "set_court", "set_date"}
    BY <1>8 DEF Step, Publish, Unpublish, Hold, Unhold, Delete, SaveIdentifiers, SetCitation,
          PutPdf, InsertStub, SetSourceName, SetSourceEmail, SetReceivedAt, ReloadStub,
          InvalidatePublic, InvalidateAssets, InvalidateEditor, Invalidate, Update, Write
  <2> QED BY <2>1, PrefixOther
<1> QED BY <1>5, <1>6, <1>7, <1>8

LEMMA PrefixInvariant == HistorySpec => []PrefixInv
<1>1. Init => PrefixInv
  BY DEF Init, PrefixInv, AbsentDocument, IngestedDocuments
<1>2. TypeInv /\ PrefixInv /\ [Next]_vars => PrefixInv'
  <2> SUFFICES ASSUME TypeInv, PrefixInv, [Next]_vars PROVE PrefixInv'
    OBVIOUS
  <2>1. PICK w \in Workers : Workers = {w}
    BY OneWorkerAssumption
  <2>2. CASE Begin(w)
    BY <2>1, <2>2, PrefixBegin
  <2>3. CASE Step(w)
    BY <2>1, <2>3, PrefixStep
  <2>4. CASE Edge
    BY <2>4 DEF Edge, PrefixInv
  <2>5. CASE UNCHANGED vars
    BY <2>5 DEF vars, PrefixInv
  <2> QED BY <2>1, <2>2, <2>3, <2>4, <2>5 DEF Next
<1> QED BY <1>1, <1>2, HistoryIsSpec, TypeInvariant, PTL DEF Spec

\* With one worker, whatever fails and however often a form is sent again, a form
\* that did not get through has left a prefix of its fields, never a later field
\* without the earlier ones (edit_judgment writes name, court, date in this order).
THEOREM SequentialFormsPrefix == HistorySpec => []SequentialFormPrefix
<1>1. PrefixInv => SequentialFormPrefix
  BY DEF PrefixInv, SequentialFormPrefix
<1> QED BY <1>1, PrefixInvariant, PTL

-----------------------------------------------------------------------------
(***************************************************************************)
(* The neutral citation.                                                   *)
(***************************************************************************)
\* What the ways of going on leave in the local variables.
LEMMA GoingOn ==
    ASSUME TypeInv, NEW w \in Workers
    PROVE  /\ \A c : GoOn(w, c) => pc'[w] = c /\ task' = task
           /\ \A out : InvalidateCaches(w, out) =>
                 /\ pc'[w] = "inv_public" /\ task'[w].out = out
                 /\ task'[w].op = task[w].op /\ task'[w].uri = task[w].uri
                 /\ task'[w].ident = task[w].ident
           /\ \A out : Answer(w, out) =>
                 /\ pc'[w] = "idle" /\ task'[w].out = out
                 /\ task'[w].op = task[w].op /\ task'[w].uri = task[w].uri
                 /\ task'[w].ident = task[w].ident
<1> USE DEF TypeInv, TypeOK
<1> HIDE DEF Document, Call
<1>1. ASSUME NEW out, InvalidateCaches(w, out)
      PROVE  /\ pc'[w] = "inv_public" /\ task'[w].out = out
             /\ task'[w].op = task[w].op /\ task'[w].uri = task[w].uri
             /\ task'[w].ident = task[w].ident
  <2>1. task[w] \in Task /\ task' = [task EXCEPT ![w] =
          [task[w] EXCEPT !.mark = rev'[task[w].uri], !.out = out]]
    BY <1>1 DEF InvalidateCaches
  <2> QED BY <1>1, <2>1 DEF InvalidateCaches, Task
<1>2. ASSUME NEW out, Answer(w, out)
      PROVE  /\ pc'[w] = "idle" /\ task'[w].out = out
             /\ task'[w].op = task[w].op /\ task'[w].uri = task[w].uri
             /\ task'[w].ident = task[w].ident
  BY <1>2, NoTaskType DEF Answer, Task
<1>3. \A c : GoOn(w, c) => pc'[w] = c /\ task' = task
  BY DEF GoOn
<1> HIDE DEF TypeInv, TypeOK
<1> QED BY <1>1, <1>2, <1>3

\* An exception between the two writes is one that cut remembers.
LEMMA ExceptionsCut ==
    ASSUME TypeInv, NEW w \in Workers, pc[w] \in CitationCall,
           Answer(w, "http_500") \/ Raise(w)
    PROVE  CutOff(w)
<1>1. Answer(w, "http_500") \/ InvalidateCaches(w, "error")
  BY DEF Raise
<1> QED BY <1>1, GoingOn DEF CutOff

\* The steps of a handler, by what they are going on to: every step writes at most
\* its own document and ends in one of these ways.
LEMMA OutStep ==
    ASSUME TypeInv, NEW w \in Workers, OutFits(w), Step(w)
    PROVE  OutFits(w)' /\ task'[w].uri = task[w].uri
<1> HIDE DEF Document, Call
<1> DEFINE Fine == OutFits(w)' /\ task'[w].uri = task[w].uri
<1>1. ASSUME NEW out, Answer(w, out)
      PROVE  Fine
  BY <1>1, GoingOn DEF OutFits
<1>2. ASSUME NEW out \in {"ok", "error"}, InvalidateCaches(w, out)
      PROVE  Fine
  BY <1>2, GoingOn DEF OutFits
<1>3. ASSUME pc[w] # "idle", NEW c, GoOn(w, c),
             c \in InvalidationCall \/ pc[w] \notin InvalidationCall
      PROVE  Fine
  BY <1>3, GoingOn DEF OutFits
<1>4. ASSUME Raise(w)
      PROVE  Fine
  BY <1>1, <1>2, <1>4 DEF Raise
<1> SUFFICES Fine
  OBVIOUS
<1> HIDE DEF Fine
<1>5. CASE Publish(w) \/ Unpublish(w) \/ Hold(w) \/ Unhold(w) \/ Delete(w) \/ SetDate(w)
  BY <1>2, <1>4, <1>5
     DEF Publish, Unpublish, Hold, Unhold, Delete, SetDate, Update, Write
<1>6. CASE SaveIdentifiers(w) \/ SetCitation(w) \/ SetName(w) \/ SetCourt(w)
             \/ InsertStub(w) \/ SetSourceName(w) \/ SetSourceEmail(w) \/ SetReceivedAt(w)
  BY <1>1, <1>3, <1>4, <1>6
     DEF SaveIdentifiers, SetCitation, SetName, SetCourt, InsertStub, SetSourceName,
         SetSourceEmail, SetReceivedAt, Update, Write
<1>7. CASE PutPdf(w)
  BY <1>1, <1>7 DEF PutPdf
<1>8. CASE ReloadStub(w)
  <2>1. CASE Answer(w, "http_500")
    BY <1>1, <2>1
  <2>2. CASE /\ pc' = [pc EXCEPT ![w] = "save_identifiers"]
             /\ task' = [task EXCEPT ![w].snap = Stored(w), ![w].seen = rev[task[w].uri]]
    <3>1. /\ pc[w] = "reload" /\ pc'[w] = "save_identifiers" /\ task[w] \in Task
          /\ task'[w] = [task[w] EXCEPT !.snap = Stored(w), !.seen = rev[task[w].uri]]
      BY <1>8, <2>2 DEF ReloadStub, TypeInv, TypeOK
    <3>2. task'[w].out = task[w].out /\ task'[w].uri = task[w].uri
      BY <3>1 DEF Task
    <3> QED BY <3>1, <3>2 DEF OutFits, Fine
  <2> QED BY <1>8, <2>1, <2>2 DEF ReloadStub
<1>9. CASE InvalidatePublic(w) \/ InvalidateAssets(w) \/ InvalidateEditor(w)
  BY <1>1, <1>3, <1>9
     DEF InvalidatePublic, InvalidateAssets, InvalidateEditor, Invalidate, Acknowledge
<1> QED BY <1>5, <1>6, <1>7, <1>8, <1>9 DEF Step

\* A step of the handler at one document; what it does to one that a handler was
\* cut off on does not matter.
LEMMA CiteNext ==
    ASSUME TypeInv, CiteInv, CutGrows, NEW w \in Workers, Workers = {w},
           \A u \in Uris : u # task[w].uri => store'[u] = store[u],
           task'[w].uri = task[w].uri, OutFits(w)',
           \/ task[w].uri \in cut'
           \/ /\ CiteFits(w)'
              /\ Exists(store'[task[w].uri]) => HalfWay(w)' \/ Agree(store'[task[w].uri])
    PROVE  CiteInv'
<1>1. \A v \in Workers : v = w
  OBVIOUS
<1>2. ASSUME NEW u \in Uris, u \notin cut', Exists(store'[u]),
             HalfWay(w)' => task'[w].uri # u
      PROVE  Agree(store'[u])
  <2>1. CASE u = task[w].uri
    <3> HIDE DEF Agree, HalfWay, CiteFits
    <3> QED BY <1>2, <2>1
  <2>2. CASE u # task[w].uri
    <3>1. \A v \in Workers : HalfWay(v) => task[v].uri # u
      BY <1>1, <2>2
    <3> HIDE DEF Agree, HalfWay
    <3>2. store'[u] = store[u] /\ Agree(store[u])
      BY <1>2, <2>2, <3>1 DEF CiteInv, CutGrows
    <3> QED BY <3>2
  <2> QED BY <2>1, <2>2
<1> HIDE DEF Agree, HalfWay, OutFits, CiteFits
<1>3. \A v \in Workers : OutFits(v)' /\ (task'[v].uri \in cut' \/ CiteFits(v)')
  BY <1>1
<1>4. ASSUME NEW u \in Uris \ cut', Exists(store'[u]),
             \A v \in Workers : HalfWay(v)' => task'[v].uri # u
      PROVE  Agree(store'[u])
  BY <1>2, <1>4
<1> QED BY <1>3, <1>4 DEF CiteInv

\* A step that keeps the citation and the identifiers of its document, by a
\* handler that has neither of them half-written.
LEMMA CiteKeeps ==
    ASSUME TypeInv, CiteInv, CutGrows, NEW w \in Workers, Workers = {w},
           task[w].uri \notin cut',
           ~HalfWay(w), pc[w] \notin {"idle", "save_identifiers"},
           \A u \in Uris : u # task[w].uri => store'[u] = store[u],
           /\ store'[task[w].uri].ids = store[task[w].uri].ids
           /\ store'[task[w].uri].cite = store[task[w].uri].cite
           /\ Exists(store'[task[w].uri]) => Exists(store[task[w].uri]),
           /\ task'[w].op = task[w].op /\ task'[w].uri = task[w].uri
           /\ task'[w].ident = task[w].ident
           /\ task'[w].out = "ok" => task[w].out = "ok",
           OutFits(w)', ~HalfWay(w)', pc'[w] # "save_identifiers"
    PROVE  CiteInv'
<1> DEFINE x == task[w].uri
<1>1. /\ \A v \in Workers : v = w
      /\ x \notin cut
  BY DEF CutGrows
<1>2. CiteFits(w)'
  BY <1>1 DEF CiteInv, CiteFits, HalfWay, Making
<1>3. ASSUME Exists(store'[x])
      PROVE  Agree(store'[x])
  <2>1. Exists(store[x]) /\ x \in Uris
    BY <1>3 DEF TypeInv, TypeOK, Task
  <2>2. \A v \in Workers : ~HalfWay(v)
    BY <1>1
  <2> HIDE DEF HalfWay, OutFits, CiteFits
  <2>3. Agree(store[x])
    BY <1>1, <2>1, <2>2 DEF CiteInv
  <2> QED BY <2>3 DEF Agree
<1> HIDE DEF HalfWay, OutFits, CiteFits
<1> QED BY <1>2, <1>3, CiteNext

\* The steps that write neither the citation nor the identifiers, whether the call
\* succeeds or not.
LEMMA CiteAside ==
    ASSUME TypeInv, CiteInv, CutGrows, NEW w \in Workers, Workers = {w}, Step(w),
           task[w].uri \notin cut', pc[w] \notin CitationCall, pc[w] # "idle"
    PROVE  CiteInv'
<1> DEFINE x == task[w].uri
<1>1. /\ pc[w] # "save_identifiers" /\ ~HalfWay(w) /\ OutFits(w)'
      /\ pc[w] \notin InvalidationCall => task[w].out = "ok"
  BY OutStep DEF CiteInv, OutFits, CitationCall, HalfWay, Making
<1>2. /\ x \in Uris /\ store[x] \in Document /\ store \in [Uris -> Document]
      /\ pc[w] \in Call
  BY DEF TypeInv, TypeOK, Task
<1>0. pc[w] \in FlagCall \cup InvalidationCall
                  \cup {"set_name", "set_court", "set_date", "put_pdf"}
  BY <1>2 DEF CitationCall
<1> HIDE DEF Document, Call
<1> DEFINE Onward ==
      /\ task'[w].op = task[w].op /\ task'[w].uri = x
      /\ task'[w].ident = task[w].ident
      /\ task'[w].out = "ok" => task[w].out = "ok"
      /\ ~HalfWay(w)' /\ pc'[w] # "save_identifiers"
<1>3. ASSUME NEW c \in {"set_court", "set_date", "inv_assets", "inv_editor"}, GoOn(w, c)
      PROVE  Onward
  BY <1>3, GoingOn DEF HalfWay, Making
<1>4. ASSUME NEW out, out = "ok" => task[w].out = "ok",
             Answer(w, out) \/ InvalidateCaches(w, out)
      PROVE  Onward
  BY <1>4, GoingOn DEF HalfWay, Making
<1>5. ASSUME Onward,
             \A u \in Uris : u # x => store'[u] = store[u],
             store'[x].ids = store[x].ids, store'[x].cite = store[x].cite,
             Exists(store'[x]) => Exists(store[x])
      PROVE  CiteInv'
  BY <1>1, <1>5, CiteKeeps
<1> HIDE DEF Onward
<1>6. ASSUME NEW d, d.ids = store[x].ids, d.cite = store[x].cite,
             \/ store' = store
             \/ store' = [store EXCEPT ![x] = d] /\ Exists(store[x]),
             Onward
      PROVE  CiteInv'
  BY <1>2, <1>5, <1>6
<1>7. Raise(w) => Onward
  BY <1>4 DEF Raise
<1>8. CASE pc[w] \in FlagCall
  <2> DEFINE d1 == [store[x] EXCEPT !.published = TRUE, !.ever = TRUE]
             d2 == [store[x] EXCEPT !.published = FALSE]
             d3 == [store[x] EXCEPT !.held = TRUE]
             d4 == [store[x] EXCEPT !.held = FALSE]
             d5 == [store[x] EXCEPT !.status = "deleted"]
  <2>1. \A d \in {d1, d2, d3, d4, d5} : d.ids = store[x].ids /\ d.cite = store[x].cite
    BY <1>2 DEF Document
  <2> HIDE DEF x
  <2>2. \E d \in {d1, d2, d3, d4, d5} :
           /\ \/ store' = store
              \/ store' = [store EXCEPT ![x] = d] /\ Exists(store[x])
           /\ InvalidateCaches(w, "ok") \/ Raise(w)
    BY <1>8 DEF Step, Publish, Unpublish, Hold, Unhold, Delete, SaveIdentifiers,
          SetCitation, SetName, SetCourt, SetDate, PutPdf, InsertStub, SetSourceName,
          SetSourceEmail, SetReceivedAt, ReloadStub, InvalidatePublic, InvalidateAssets,
          InvalidateEditor, Invalidate, Update, Write, Apply, Stored, x
  <2> HIDE DEF d1, d2, d3, d4, d5
  <2> QED BY <1>1, <1>4, <1>6, <1>7, <1>8, <2>1, <2>2
<1>9. CASE pc[w] \in {"set_name", "set_court", "set_date"}
  <2> DEFINE d1 == [store[x] EXCEPT !.name = task[w].form]
             d2 == [store[x] EXCEPT !.court = task[w].form]
             d3 == [store[x] EXCEPT !.date = task[w].form]
  <2>1. \A d \in {d1, d2, d3} : d.ids = store[x].ids /\ d.cite = store[x].cite
    BY <1>2 DEF Document
  <2> HIDE DEF x
  <2>2. /\ \E d \in {d1, d2, d3} :
              \/ store' = store
              \/ store' = [store EXCEPT ![x] = d] /\ Exists(store[x])
        /\ \/ GoOn(w, "set_court") \/ GoOn(w, "set_date") \/ Raise(w)
           \/ Answer(w, "error") \/ InvalidateCaches(w, "ok")
    BY <1>9 DEF Step, Publish, Unpublish, Hold, Unhold, Delete, SaveIdentifiers,
          SetCitation, SetName, SetCourt, SetDate, PutPdf, InsertStub, SetSourceName,
          SetSourceEmail, SetReceivedAt, ReloadStub, InvalidatePublic, InvalidateAssets,
          InvalidateEditor, Invalidate, Update, Write, Apply, Stored, x
  <2> HIDE DEF d1, d2, d3
  <2>3. Onward
    BY <1>1, <1>3, <1>4, <1>7, <1>9, <2>2
  <2> QED BY <1>6, <2>1, <2>2, <2>3
<1>10. CASE pc[w] = "put_pdf"
  <2>1. store' = store /\ (Answer(w, "ok") \/ Answer(w, "http_500"))
    BY <1>10 DEF Step, Publish, Unpublish, Hold, Unhold, Delete, SaveIdentifiers,
          SetCitation, SetName, SetCourt, SetDate, PutPdf, InsertStub, SetSourceName,
          SetSourceEmail, SetReceivedAt, ReloadStub, InvalidatePublic, InvalidateAssets,
          InvalidateEditor, Invalidate, Update, Write
  <2> QED BY <1>1, <1>4, <1>5, <1>10, <2>1
<1>11. CASE pc[w] \in InvalidationCall
  <2>1. /\ store' = store
        /\ \/ GoOn(w, "inv_assets") \/ GoOn(w, "inv_editor")
           \/ Answer(w, task[w].out) \/ Answer(w, "http_500")
    BY <1>11 DEF Step, Publish, Unpublish, Hold, Unhold, Delete, SaveIdentifiers,
          SetCitation, SetName, SetCourt, SetDate, PutPdf, InsertStub, SetSourceName,
          SetSourceEmail, SetReceivedAt, ReloadStub, InvalidatePublic, InvalidateAssets,
          InvalidateEditor, Invalidate, Acknowledge, Update, Write
  <2>2. Onward
    BY <1>3, <1>4, <2>1
  <2> QED BY <1>5, <2>1, <2>2
<1> QED BY <1>0, <1>8, <1>9, <1>10, <1>11

\* The edit form and the stub write the one place and then the other.
LEMMA CiteWritten ==
    ASSUME TypeInv, CiteInv, CutGrows, NEW w \in Workers, Workers = {w}, Step(w),
           task[w].uri \notin cut', pc[w] \in {"save_identifiers", "set_citation"}
    PROVE  CiteInv'
<1> DEFINE x == task[w].uri
           i == task[w].ident
<1>1. /\ task[w].out = "ok" /\ ~Answer(w, "http_500") /\ ~Raise(w) /\ OutFits(w)'
  BY ExceptionsCut, OutStep DEF CiteInv, CutGrows, CitationCall, OutFits
<1>2. /\ x \in Uris /\ store[x] \in Document /\ store \in [Uris -> Document]
      /\ store[x].ids \subseteq Identifiers /\ Ncns \cap OtherIds = {} /\ NoNcn \notin Ncns
  BY NcnsAssumption DEF TypeInv, TypeOK, Task
<1>3. CiteFits(w)
  BY DEF CiteInv, CutGrows
<1>4. Fits(pc[w], task[w])
  BY DEF TypeInv, CallsFit
<1> HIDE DEF Document, Call
<1>5. CASE pc[w] = "save_identifiers"
  <2> DEFINE d == [store[x] EXCEPT !.ids = Collection(task[w])]
  <2>1. d.ids = Collection(task[w]) /\ d.cite = store[x].cite
    BY <1>2 DEF Document
  <2> HIDE DEF x
  <2>2. SaveIdentifiers(w)
    BY <1>5 DEF Step, Publish, Unpublish, Hold, Unhold, Delete, SetCitation, SetName,
          SetCourt, SetDate, PutPdf, InsertStub, SetSourceName, SetSourceEmail,
          SetReceivedAt, ReloadStub, InvalidatePublic, InvalidateAssets,
          InvalidateEditor, Invalidate, Update, Write
  <2>3. /\ store' = [store EXCEPT ![x] = d] /\ Exists(store[x])
        /\ \/ task[w].op = "edit" /\ GoOn(w, "set_citation")
           \/ task[w].op # "edit" /\ Answer(w, "ok")
    BY <1>1, <2>2 DEF SaveIdentifiers, Update, Write, Apply, Stored, x
  <2> HIDE DEF d
  <2>4. /\ \A u \in Uris : u # x => store'[u] = store[u]
        /\ store'[x].ids = Collection(task[w]) /\ store'[x].cite = store[x].cite
    BY <1>2, <2>1, <2>3
  <2>5. task'[w].uri = x /\ task'[w].ident = i /\ task'[w].op = task[w].op
    BY <2>3, GoingOn DEF x
  <2>6. CASE task[w].op = "edit"
    <3>1. pc'[w] = "set_citation" /\ i \in Ncns
      BY <1>4, <1>5, <2>3, <2>6, GoingOn DEF Fits
    <3>2. store'[x].ids \cap Ncns = {i}
      BY <1>2, <2>4, <2>6, <3>1 DEF Collection, ReplaceNcn
    <3>3. CiteFits(w)' /\ HalfWay(w)'
      BY <2>5, <3>1, <3>2 DEF CiteFits, HalfWay, Making
    <3> QED BY <1>1, <2>4, <2>5, <3>3, CiteNext DEF x
  <2>7. CASE task[w].op # "edit"
    <3>1. pc'[w] = "idle"
      BY <2>3, <2>7, GoingOn
    <3>2. task[w].op = "stub" /\ task[w].snap.ids = {} /\ store[x].cite = i
            /\ Strip(i) \in Ncns
      BY <1>3, <1>4, <1>5, <2>7 DEF CiteFits, Making, Fits, SavesIdentifiers, x
    <3>3. Agree(store'[x])
      BY <1>2, <2>4, <3>2 DEF Collection, Agree
    <3>4. CiteFits(w)'
      BY <2>5, <2>7, <3>1 DEF CiteFits, Making
    <3> QED BY <1>1, <2>4, <2>5, <3>3, <3>4, CiteNext DEF x
  <2> QED BY <2>6, <2>7
<1>6. CASE pc[w] = "set_citation"
  <2> DEFINE d == [store[x] EXCEPT !.cite = Plain(i)]
  <2>1. d.cite = Plain(i) /\ d.ids = store[x].ids
    BY <1>2 DEF Document
  <2> HIDE DEF x
  <2>2. store' = [store EXCEPT ![x] = d] /\ GoOn(w, "set_name")
    BY <1>1, <1>6 DEF Step, Publish, Unpublish, Hold, Unhold, Delete, SaveIdentifiers,
          SetCitation, SetName, SetCourt, SetDate, PutPdf, InsertStub, SetSourceName,
          SetSourceEmail, SetReceivedAt, ReloadStub, InvalidatePublic, InvalidateAssets,
          InvalidateEditor, Invalidate, Update, Write, Apply, Stored, x
  <2> HIDE DEF d
  <2>3. /\ \A u \in Uris : u # x => store'[u] = store[u]
        /\ store'[x].ids = store[x].ids /\ store'[x].cite = Plain(i)
    BY <1>2, <2>1, <2>2
  <2>4. task' = task /\ pc'[w] = "set_name"
    BY <2>2, GoingOn
  <2>5. store[x].ids \cap Ncns = {i} /\ i \in Ncns /\ Strip(Plain(i)) = i
    BY <1>3, <1>6, PlainTexts DEF CiteFits, x
  <2>6. Agree(store'[x])
    BY <1>2, <2>3, <2>5 DEF Agree
  <2>7. i \in store'[x].ids /\ Strip(store'[x].cite) = i
    BY <2>3, <2>5
  <2>8. CiteFits(w)'
    BY <2>4, <2>7 DEF CiteFits, Making, x
  <2> QED BY <1>1, <2>3, <2>4, <2>6, <2>8, CiteNext DEF x
<1> QED BY <1>5, <1>6

\* The stub, from its first call until its citation is loaded to be saved.
LEMMA CiteMaking ==
    ASSUME TypeInv, CiteInv, CutGrows, NEW w \in Workers, Workers = {w}, Step(w),
           task[w].uri \notin cut', pc[w] \in StubCall
    PROVE  CiteInv'
<1> DEFINE x == task[w].uri
           i == task[w].ident
<1>1. /\ task[w].op = "stub" /\ ~Answer(w, "http_500") /\ ~Raise(w) /\ OutFits(w)'
  BY ExceptionsCut, OutStep
     DEF CiteInv, CutGrows, CitationCall, TypeInv, CallsFit, Fits
<1>2. x \in Uris /\ store[x] \in Document /\ store \in [Uris -> Document]
  BY DEF TypeInv, TypeOK, Task
<1>3. pc[w] # "insert" => store[x].cite = i /\ store[x].ids = {}
  BY DEF CiteInv, CutGrows, CiteFits, Making
<1> HIDE DEF Document, Call
<1> HIDE DEF x
<1>4. CASE pc[w] = "insert"
  <2> DEFINE d == NewDocument(i)
  <2>1. d.cite = i /\ d.ids = {}
    BY DEF NewDocument, AbsentDocument
  <2>2. store' = [store EXCEPT ![x] = d] /\ GoOn(w, "source_name")
    BY <1>1, <1>4 DEF Step, Publish, Unpublish, Hold, Unhold, Delete, SaveIdentifiers,
          SetCitation, SetName, SetCourt, SetDate, PutPdf, InsertStub, SetSourceName,
          SetSourceEmail, SetReceivedAt, ReloadStub, InvalidatePublic, InvalidateAssets,
          InvalidateEditor, Invalidate, Update, Write, Apply, Stored, x
  <2> HIDE DEF d
  <2>3. /\ \A u \in Uris : u # x => store'[u] = store[u]
        /\ store'[x].ids = {} /\ store'[x].cite = i
    BY <1>2, <2>1, <2>2
  <2>4. task' = task /\ pc'[w] = "source_name"
    BY <2>2, GoingOn
  <2>5. CiteFits(w)' /\ HalfWay(w)'
    BY <1>1, <2>3, <2>4 DEF CiteFits, HalfWay, Making, x
  <2> QED BY <1>1, <2>3, <2>4, <2>5, CiteNext DEF x
<1>5. CASE pc[w] \in {"source_name", "source_email", "received_at"}
  <2>1. /\ store' = [store EXCEPT ![x] = store[x]]
        /\ \/ Strip(i) = NoNcn /\ Answer(w, "ok")
           \/ \E c \in {"source_email", "received_at", "reload"} : GoOn(w, c)
    BY <1>1, <1>5 DEF Step, Publish, Unpublish, Hold, Unhold, Delete, SaveIdentifiers,
          SetCitation, SetName, SetCourt, SetDate, PutPdf, InsertStub, SetSourceName,
          SetSourceEmail, SetReceivedAt, ReloadStub, InvalidatePublic, InvalidateAssets,
          InvalidateEditor, Invalidate, Update, Write, Apply, Stored, x
  <2>2. store' = store
    BY <1>2, <2>1
  <2>3. CASE Strip(i) = NoNcn /\ Answer(w, "ok")
    <3>1. pc'[w] = "idle" /\ task'[w].op = "stub" /\ task'[w].uri = x
      BY <1>1, <2>3, GoingOn DEF x
    <3>2. CiteFits(w)'
      BY <3>1 DEF CiteFits, Making
    <3>3. Agree(store'[x])
      BY <1>3, <1>5, <2>2, <2>3 DEF Agree
    <3> QED BY <1>1, <2>2, <3>1, <3>2, <3>3, CiteNext DEF x
  <2>4. ASSUME NEW c \in {"source_email", "received_at", "reload"}, GoOn(w, c)
        PROVE  CiteInv'
    <3>1. task' = task /\ pc'[w] = c
      BY <2>4, GoingOn
    <3>2. CiteFits(w)' /\ HalfWay(w)'
      BY <1>1, <1>3, <1>5, <2>2, <3>1 DEF CiteFits, HalfWay, Making, x
    <3> QED BY <1>1, <2>2, <3>1, <3>2, CiteNext DEF x
  <2> QED BY <2>1, <2>3, <2>4
<1>6. CASE pc[w] = "reload"
  <2>1. /\ store' = store /\ pc' = [pc EXCEPT ![w] = "save_identifiers"]
        /\ task' = [task EXCEPT ![w].snap = Stored(w), ![w].seen = rev[task[w].uri]]
    BY <1>1, <1>6 DEF Step, Publish, Unpublish, Hold, Unhold, Delete, SaveIdentifiers,
          SetCitation, SetName, SetCourt, SetDate, PutPdf, InsertStub, SetSourceName,
          SetSourceEmail, SetReceivedAt, ReloadStub, InvalidatePublic, InvalidateAssets,
          InvalidateEditor, Invalidate, Update, Write
  <2>2. task[w] \in Task
        /\ task'[w] = [task[w] EXCEPT !.snap = Stored(w), !.seen = rev[task[w].uri]]
    BY <2>1 DEF TypeInv, TypeOK
  <2>3. /\ task'[w].uri = x /\ task'[w].op = "stub" /\ task'[w].ident = i
        /\ task'[w].snap = store[x]
    BY <1>1, <2>2 DEF Task, Stored, x
  <2>4. pc'[w] = "save_identifiers"
    BY <2>1 DEF TypeInv, TypeOK
  <2>5. CiteFits(w)' /\ HalfWay(w)'
    BY <1>3, <1>6, <2>1, <2>3, <2>4 DEF CiteFits, HalfWay, Making
  <2> QED BY <1>1, <2>1, <2>3, <2>5, CiteNext DEF x
<1> QED BY <1>4, <1>5, <1>6

LEMMA CiteStep ==
    ASSUME TypeInv, CiteInv, CutGrows, NEW w \in Workers, Workers = {w}, Step(w)
    PROVE  CiteInv'
<1>1. pc[w] # "idle"
  BY DEF Step, Publish, Unpublish, Hold, Unhold, Delete, SaveIdentifiers,
         SetCitation, SetName, SetCourt, SetDate, PutPdf, InsertStub, SetSourceName,
         SetSourceEmail, SetReceivedAt, ReloadStub, InvalidatePublic, InvalidateAssets,
         InvalidateEditor, Invalidate, Update, Write
<1>2. CASE task[w].uri \notin cut'
  BY <1>1, <1>2, CiteAside, CiteWritten, CiteMaking DEF CitationCall
<1>3. CASE task[w].uri \in cut'
  <2>1. OutFits(w)' /\ task'[w].uri = task[w].uri
    BY OutStep DEF CiteInv
  <2>2. \A u \in Uris : u # task[w].uri => store'[u] = store[u]
    <3>1. \/ store' = store
          \/ \E doc : store' = [store EXCEPT ![task[w].uri] = doc]
      BY WriteEffect
    <3> QED BY <3>1 DEF TypeInv, TypeOK
  <2> HIDE DEF OutFits
  <2> QED BY <1>3, <2>1, <2>2, CiteNext
<1> QED BY <1>2, <1>3

\* A request begins, and nobody is in the middle of another one.
LEMMA CiteBegin ==
    ASSUME TypeInv, CiteInv, CutGrows, NEW w \in Workers, Workers = {w}, Begin(w)
    PROVE  CiteInv'
<1>1. /\ pc[w] = "idle" /\ store' = store /\ \A v \in Workers : v = w
  BY BeginShape DEF BeginStep, TypeInv
<1>2. \A u \in Uris \ cut' : Exists(store'[u]) => Agree(store'[u])
  <2>1. \A v \in Workers : ~HalfWay(v)
    BY <1>1 DEF HalfWay, Making
  <2> HIDE DEF HalfWay, Agree, OutFits, CiteFits
  <2> QED BY <1>1, <2>1 DEF CiteInv, CutGrows
<1>3. OutFits(w)' /\ (task'[w].uri \in cut' \/ CiteFits(w)')
  <2>1. PICK op \in Handler, u \in Uris :
          \/ \E out : Refuse(w, op, u, out)
          \/ \E i, dated, out, c : Start(w, op, u, i, dated, out, c) /\ Opening(op, u, i, out, c)
    BY BeginOpens
  <2>2. ASSUME NEW out, Refuse(w, op, u, out)
        PROVE  OutFits(w)' /\ CiteFits(w)'
    <3>1. pc'[w] = "idle" /\ task'[w].ident = NoNcn
      BY <1>1, <2>2 DEF Refuse, NoTask, TypeInv, TypeOK
    <3> QED BY <3>1 DEF OutFits, CiteFits, HalfWay, Making
  <2>3. ASSUME NEW i, NEW dated, NEW out, NEW c,
               Start(w, op, u, i, dated, out, c), Opening(op, u, i, out, c)
        PROVE  OutFits(w)' /\ (task'[w].uri \in cut' \/ CiteFits(w)')
    <3>1. /\ pc'[w] = c /\ task'[w].op = op /\ task'[w].uri = u /\ task'[w].ident = i
          /\ task'[w].out = out
      BY <2>3 DEF Start, TypeInv, TypeOK
    <3>2. out \in {"ok", "error"} /\ c \notin {"idle", "set_citation"} /\ ~Making(w)'
          /\ (c \notin InvalidationCall => out = "ok")
          /\ (c = "save_identifiers" => op = "edit")
      BY <2>3, <3>1 DEF Opening, Making
    <3>3. u \notin cut' /\ op = "edit" /\ out = "ok" /\ i # NoNcn /\ c # "save_identifiers"
            => Strip(store'[u].cite) = i /\ i \in store'[u].ids
      <4> SUFFICES ASSUME u \notin cut', op = "edit", out = "ok", i # NoNcn,
                          c # "save_identifiers"
                   PROVE  Strip(store'[u].cite) = i /\ i \in store'[u].ids
        OBVIOUS
      <4>1. Exists(store[u]) /\ i \in PreferredNcns(store[u])
        BY <2>3 DEF Opening
      <4> QED BY <1>1, <1>2, <4>1 DEF PreferredNcns, Agree
    <3> QED BY <3>1, <3>2, <3>3 DEF OutFits, CiteFits
  <2> QED BY <2>1, <2>2, <2>3
<1> HIDE DEF OutFits, CiteFits, Agree, HalfWay
<1> QED BY <1>1, <1>2, <1>3 DEF CiteInv

LEMMA CiteInvariant == HistorySpec => []CiteInv
<1>1. HistoryInit => CiteInv
  <2> SUFFICES ASSUME Init PROVE CiteInv
    BY DEF HistoryInit
  <2>1. ASSUME NEW w \in Workers
        PROVE  OutFits(w) /\ CiteFits(w)
    <3>1. pc[w] = "idle" /\ task[w].ident = NoNcn
      BY DEF Init, NoTask
    <3> QED BY <3>1 DEF OutFits, CiteFits, Making
  <2>2. ASSUME NEW u \in Uris, Exists(store[u])
        PROVE  Agree(store[u])
    <3>1. store[u].ids = {Strip(store[u].cite)} \ {NoNcn} /\ store[u].ids \subseteq Ncns
      BY <2>2 DEF Init, AbsentDocument, IngestedDocuments, Exists
    <3> QED BY <3>1 DEF Agree
  <2> HIDE DEF OutFits, CiteFits, Agree
  <2> QED BY <2>1, <2>2 DEF CiteInv
<1>2. TypeInv /\ CiteInv /\ [HistoryNext]_<<vars, cut>> => CiteInv'
  <2> SUFFICES ASSUME TypeInv, CiteInv, [HistoryNext]_<<vars, cut>>
               PROVE  CiteInv'
    OBVIOUS
  <2>1. PICK w \in Workers : Workers = {w}
    BY OneWorkerAssumption
  <2>2. CASE HistoryNext
    <3>1. CutGrows
      BY <2>2 DEF HistoryNext, CutGrows
    <3>2. CASE Begin(w)
      BY <2>1, <3>1, <3>2, CiteBegin
    <3>3. CASE Step(w)
      BY <2>1, <3>1, <3>3, CiteStep
    <3>4. CASE Edge
      <4>1. UNCHANGED <<store, pc, task>> /\ cut \subseteq cut'
        BY <3>1, <3>4 DEF Edge, CutGrows
      <4> QED BY <4>1 DEF CiteInv, OutFits, CiteFits, HalfWay, Making, Agree
    <3> QED BY <2>1, <2>2, <3>2, <3>3, <3>4 DEF HistoryNext, Next
  <2>3. CASE UNCHANGED <<vars, cut>>
    BY <2>3 DEF vars, CiteInv, OutFits, CiteFits, HalfWay, Making, Agree
  <2> QED BY <2>2, <2>3
<1> QED BY <1>1, <1>2, HistoryIsSpec, TypeInvariant, PTL DEF HistorySpec

\* An edit form that was answered with "Document successfully updated" has left
\* its neutral citation in the body and among the identifiers, whatever was sent
\* before it and whatever failed, unless an exception once cut a handler off between
\* the two writes on that document (update_ncn_of_document).
THEOREM CitationsStored == HistorySpec => []CitationStoredUnlessCut
<1>1. CiteInv => CitationStoredUnlessCut
  BY DEF CiteInv, CiteFits, CitationStoredUnlessCut
<1> QED BY <1>1, CiteInvariant, PTL

\* A document that nobody is working on has the citation of its body, without the
\* spaces it was typed with, as its one neutral citation, and none when the body has
\* none, unless an exception once cut a handler off between the two writes
\* (create_stub stores ncn.strip(), update_ncn_of_document writes both places).
THEOREM CitationsIdentified == HistorySpec => []CitationIdentifiedUnlessCut
<1>1. CiteInv => CitationIdentifiedUnlessCut
  <2> SUFFICES ASSUME CiteInv, NEW u \in Uris, Exists(store[u]), u \notin cut,
                      \A w \in Workers : pc[w] # "idle" => task[w].uri # u
               PROVE  store[u].ids \cap Ncns = {Strip(store[u].cite)} \ {NoNcn}
    BY DEF CitationIdentifiedUnlessCut
  <2>1. \A w \in Workers : HalfWay(w) => task[w].uri # u
    BY DEF HalfWay, Making
  <2>2. Agree(store[u])
    BY <2>1 DEF CiteInv
  <2> QED BY <2>2 DEF Agree
<1> QED BY <1>1, CiteInvariant, PTL

=============================================================================
