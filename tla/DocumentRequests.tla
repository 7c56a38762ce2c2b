-------------------------- MODULE DocumentRequests --------------------------
(***************************************************************************)
(* The request handlers that write a document: publish, unpublish, hold,   *)
(* unhold, delete, the edit form, the two identifier forms, upload and     *)
(* stub creation.                                                          *)
(*                                                                         *)
(* gunicorn runs several synchronous workers (docker start script, -w 5),  *)
(* so handlers of different requests interleave.  A handler loads a        *)
(* document, decides from the copy it holds, and then makes one external   *)
(* call after another; nothing locks the document between them.  pc[w] is  *)
(* the next external call of worker w and task[w] its local variables.     *)
(* Every call may raise, before or after it has taken effect.              *)
(***************************************************************************)
EXTENDS Distributions

CONSTANTS
    Workers,     \* gunicorn worker processes
    Handlers,    \* the handlers that are exercised, a subset of Handler
    Failures,    \* TRUE when external calls may raise
    Readers,     \* the distributions that have readers
    MaxRequests, \* bound on the number of requests served
    MaxRevision  \* bound on the writes that WritesReachReaders follows

Handler == {"publish", "unpublish", "hold", "unhold", "delete", "edit",
            "add_identifier", "delete_identifier", "upload", "stub"}

ASSUME HandlersAssumption == Handlers \subseteq Handler
ASSUME FailuresAssumption == Failures \in BOOLEAN
ASSUME ReadersAssumption == Readers \subseteq Distribution
ASSUME BoundsAssumption == MaxRequests \in Nat /\ MaxRevision \in Nat

VARIABLES
    store,   \* store[u]: the document at u in MarkLogic
    pdf,     \* pdf[u]: how many times a PDF has been put at u in S3
    acked,   \* acked[u]: newest write of u whose handler has invalidated caches
    pc,      \* pc[w]: the next external call of worker w
    task,    \* task[w]: the local variables of worker w, the answer once idle
    served   \* the number of requests begun

distributionVars == <<rev, cdn, pending>>
vars == <<rev, cdn, pending, store, pdf, acked, pc, task, served>>

FlagCall == {"publish", "unpublish", "hold", "unhold", "delete"}
EditCall == {"save_identifiers", "set_citation", "set_name", "set_court", "set_date"}
StubCall == {"insert", "source_name", "source_email", "received_at", "reload"}
InvalidationCall == {"inv_public", "inv_assets", "inv_editor"}
Call == FlagCall \cup EditCall \cup StubCall \cup InvalidationCall
            \cup {"idle", "put_pdf"}

Answers == {"none", "ok", "error", "http_403", "http_404", "http_500"}

Task ==
    [op     : Handler \cup {"none"},
     uri    : Uris,
     ident  : Identifiers \cup {NoNcn} \cup Texts,  \* the identifier that the form
                            \* is about; a stub's citation is kept as it was typed
     form   : Nat,          \* the number of the request
     dated  : BOOLEAN,      \* the form's date parses
     snap   : Document,     \* the document as loaded
     seen   : Nat,          \* rev[uri] when it was loaded
     mark   : Nat,          \* rev[uri] when invalidation began
     out    : Answers]      \* what it will answer, or answered

NoTask ==
    [op |-> "none", uri |-> CHOOSE u \in Uris : TRUE, ident |-> NoNcn,
     form |-> 0, dated |-> TRUE, snap |-> AbsentDocument, seen |-> 0,
     mark |-> 0, out |-> "none"]

TypeOK ==
    /\ DistributionsTypeOK
    /\ store \in [Uris -> Document]
    /\ pdf \in [Uris -> Nat]
    /\ acked \in [Uris -> Nat]
    /\ pc \in [Workers -> Call]
    /\ task \in [Workers -> Task]
    /\ served \in Nat

Init ==
    /\ DistributionsInit
    /\ store \in [Uris -> {AbsentDocument} \cup IngestedDocuments]
    /\ pdf = [u \in Uris |-> 0]
    /\ acked = [u \in Uris |-> 0]
    /\ pc = [w \in Workers |-> "idle"]
    /\ task = [w \in Workers |-> NoTask]
    /\ served = 0

-----------------------------------------------------------------------------
(***************************************************************************)
(* How a handler begins, moves on and ends.                                *)
(***************************************************************************)

\* A free worker takes the next request.
Accept(w, op) ==
    /\ op \in Handlers
    /\ pc[w] = "idle"
    /\ served < MaxRequests
    /\ served' = served + 1
    /\ UNCHANGED <<distributionVars, store, pdf, acked>>

\* The handler has loaded u and goes on to its first external call.
Start(w, op, u, i, dated, out, call) ==
    /\ pc' = [pc EXCEPT ![w] = call]
    /\ task' = [task EXCEPT ![w] =
           [op |-> op, uri |-> u, ident |-> i, form |-> served + 1,
            dated |-> dated, snap |-> store[u], seen |-> rev[u],
            mark |-> rev[u], out |-> out]]

\* The handler answers without having changed anything.
Refuse(w, op, u, out) ==
    /\ pc' = pc
    /\ task' = [task EXCEPT ![w] = [NoTask EXCEPT !.op = op, !.uri = u, !.out = out]]

\* get_document_by_uri_or_404 finds no document, or the call itself raises.
LoadFails(w, op, u) ==
    \/ ~Exists(store[u]) /\ Refuse(w, op, u, "http_404")
    \/ Failures /\ Refuse(w, op, u, "http_500")

\* The handler goes on to its next external call.
GoOn(w, call) ==
    /\ pc' = [pc EXCEPT ![w] = call]
    /\ task' = task

\* The handler has made its writes and calls invalidate_caches.
InvalidateCaches(w, out) ==
    /\ pc' = [pc EXCEPT ![w] = "inv_public"]
    /\ task' = [task EXCEPT ![w].mark = rev'[task[w].uri], ![w].out = out]

\* The handler returns; its local variables are gone.
Answer(w, out) ==
    /\ pc' = [pc EXCEPT ![w] = "idle"]
    /\ task' = [task EXCEPT ![w] =
           [NoTask EXCEPT !.op = task[w].op, !.uri = task[w].uri,
                          !.ident = task[w].ident, !.out = out]]

\* An exception: the edit form catches MarklogicAPIError and still goes on to
\* invalidate the caches; everything else leaves the handler.
Raise(w) ==
    \/ /\ task[w].op = "edit"
       /\ pc[w] \in EditCall
       /\ InvalidateCaches(w, "error")
    \/ Answer(w, "http_500")

\* The store takes doc as the new content of the task's document.
Apply(w, doc) ==
    /\ store' = [store EXCEPT ![task[w].uri] = doc]
    /\ rev' = [rev EXCEPT ![task[w].uri] = @ + 1]

\* One external call that writes doc, and after which the handler does Then.
\* The call raises when it is not possible, and otherwise may raise before or
\* after it has taken effect.
Write(w, call, possible, doc, Then) ==
    /\ pc[w] = call
    /\ \/ possible /\ Apply(w, doc) /\ Then
       \/ possible /\ Failures /\ Apply(w, doc) /\ Raise(w)
       \/ (~possible \/ Failures) /\ UNCHANGED <<store, rev>> /\ Raise(w)
    /\ UNCHANGED <<cdn, pending, pdf, acked, served>>

\* The document as it is now, which the copy in task[w].snap need not be.
Stored(w) == store[task[w].uri]

\* A write to a document that has to be there.
Update(w, call, doc, Then) == Write(w, call, Exists(Stored(w)), doc, Then)

-----------------------------------------------------------------------------
(***************************************************************************)
(* publish, unpublish, hold, unhold.                                       *)
(***************************************************************************)

BeginFlag(w, op, u) ==
    /\ Accept(w, op)
    /\ \/ LoadFails(w, op, u)
       \/ Exists(store[u]) /\ Start(w, op, u, NoNcn, TRUE, "ok", op)

Publish(w) ==
    Update(w, "publish", [Stored(w) EXCEPT !.published = TRUE, !.ever = TRUE],
           InvalidateCaches(w, "ok"))

Unpublish(w) ==
    Update(w, "unpublish", [Stored(w) EXCEPT !.published = FALSE],
           InvalidateCaches(w, "ok"))

Hold(w) ==
    Update(w, "hold", [Stored(w) EXCEPT !.held = TRUE], InvalidateCaches(w, "ok"))

Unhold(w) ==
    Update(w, "unhold", [Stored(w) EXCEPT !.held = FALSE], InvalidateCaches(w, "ok"))

-----------------------------------------------------------------------------
(***************************************************************************)
(* delete: users who are neither superuser nor editor, and documents that  *)
(* are not safe to delete, are refused.                                    *)
(***************************************************************************)

\* Seeded fault: safe_to_delete is not consulted.
UnguardedBeginDelete(w, u) ==
    /\ Accept(w, "delete")
    /\ \/ LoadFails(w, "delete", u)
       \/ Exists(store[u]) /\ Start(w, "delete", u, NoNcn, TRUE, "ok", "delete")

BeginDelete(w, u) ==
    /\ Accept(w, "delete")
    /\ \/ Refuse(w, "delete", u, "http_403")
       \/ LoadFails(w, "delete", u)
       \/ /\ Exists(store[u])
          /\ ~SafeToDelete(store[u])
          /\ Refuse(w, "delete", u, "http_403")
       \/ /\ Exists(store[u])
          /\ SafeToDelete(store[u])
          /\ Start(w, "delete", u, NoNcn, TRUE, "ok", "delete")

Delete(w) ==
    Update(w, "delete", [Stored(w) EXCEPT !.status = "deleted"],
           InvalidateCaches(w, "ok"))

-----------------------------------------------------------------------------
(***************************************************************************)
(* The edit form.  An empty neutral citation is refused when the document  *)
(* has one; a new one is validated and written to the identifiers and then *)
(* to the body; name, court and date follow.  A date that does not parse   *)
(* returns at once: name and court stay written, no cache is invalidated.  *)
(***************************************************************************)

\* The neutral citation n was submitted and p is the preferred one.
BeginEdit(w, u, n, dated) ==
    /\ Accept(w, "edit")
    /\ \/ LoadFails(w, "edit", u)
       \/ /\ Exists(store[u])
          /\ \E p \in PreferredNcns(store[u]) :
                \/ /\ n = NoNcn /\ p # NoNcn
                   /\ Start(w, "edit", u, n, dated, "error", "inv_public")
                \/ /\ n # NoNcn /\ n # p     \* not a judgment, or not valid
                   /\ Start(w, "edit", u, n, dated, "error", "inv_public")
                \/ /\ n # NoNcn /\ n # p
                   /\ Start(w, "edit", u, n, dated, "ok", "save_identifiers")
                \/ /\ n = p
                   /\ Start(w, "edit", u, n, dated, "ok", "set_name")

SetCitation(w) ==
    Update(w, "set_citation", [Stored(w) EXCEPT !.cite = Plain(task[w].ident)],
           GoOn(w, "set_name"))

\* Seeded fault: the date is saved before the court.
DateFirstSetName(w) ==
    Update(w, "set_name", [Stored(w) EXCEPT !.name = task[w].form],
           GoOn(w, IF task[w].dated THEN "set_date" ELSE "set_court"))

SetName(w) ==
    Update(w, "set_name", [Stored(w) EXCEPT !.name = task[w].form],
           GoOn(w, "set_court"))

SetCourt(w) ==
    Update(w, "set_court", [Stored(w) EXCEPT !.court = task[w].form],
           IF task[w].dated THEN GoOn(w, "set_date") ELSE Answer(w, "error"))

SetDate(w) ==
    Update(w, "set_date", [Stored(w) EXCEPT !.date = task[w].form],
           InvalidateCaches(w, "ok"))

-----------------------------------------------------------------------------
(***************************************************************************)
(* The identifier forms, and save_identifiers, which replaces the whole    *)
(* stored collection by the one held in memory.                            *)
(***************************************************************************)

\* The second disjunct is a form that does not validate.
BeginAddIdentifier(w, u, i) ==
    /\ Accept(w, "add_identifier")
    /\ \/ LoadFails(w, "add_identifier", u)
       \/ Exists(store[u]) /\ Refuse(w, "add_identifier", u, "error")
       \/ /\ Exists(store[u])
          /\ Start(w, "add_identifier", u, i, TRUE, "ok", "save_identifiers")

\* Seeded fault: has_ever_been_published is not consulted.
UnguardedBeginDeleteIdentifier(w, u, i) ==
    /\ Accept(w, "delete_identifier")
    /\ Exists(store[u]) /\ i \in store[u].ids
    /\ Start(w, "delete_identifier", u, i, TRUE, "ok", "save_identifiers")

\* check_safe_to_delete_identifier
BeginDeleteIdentifier(w, u, i) ==
    /\ Accept(w, "delete_identifier")
    /\ \/ LoadFails(w, "delete_identifier", u)
       \/ /\ Exists(store[u]) /\ store[u].ever
          /\ Refuse(w, "delete_identifier", u, "http_403")
       \/ /\ Exists(store[u]) /\ ~store[u].ever /\ i \notin store[u].ids
          /\ Refuse(w, "delete_identifier", u, "http_404")
       \/ /\ Exists(store[u]) /\ ~store[u].ever /\ i \in store[u].ids
          /\ Start(w, "delete_identifier", u, i, TRUE, "ok", "save_identifiers")

\* The collection in memory when a handler comes to save it.
Collection(t) ==
    CASE t.op = "edit"              -> ReplaceNcn(t.snap, t.ident)
      [] t.op = "delete_identifier" -> t.snap.ids \ {t.ident}
      [] t.op = "add_identifier"    -> t.snap.ids \cup {t.ident}
      [] t.op = "stub"              -> t.snap.ids \cup {Strip(t.ident)}

\* Seeded fault: the body is not told of the new citation.
IdentifiersOnlySaveIdentifiers(w) ==
    Update(w, "save_identifiers", [Stored(w) EXCEPT !.ids = Collection(task[w])],
           IF task[w].op = "edit" THEN GoOn(w, "set_name") ELSE Answer(w, "ok"))

SaveIdentifiers(w) ==
    Update(w, "save_identifiers", [Stored(w) EXCEPT !.ids = Collection(task[w])],
           IF task[w].op = "edit" THEN GoOn(w, "set_citation") ELSE Answer(w, "ok"))

-----------------------------------------------------------------------------
(***************************************************************************)
(* upload: the file replaces the document's PDF in the private bucket.     *)
(***************************************************************************)

\* The second disjunct is a file that is not a PDF, or too large.
BeginUpload(w, u) ==
    /\ Accept(w, "upload")
    /\ \/ LoadFails(w, "upload", u)
       \/ Exists(store[u]) /\ Refuse(w, "upload", u, "error")
       \/ Exists(store[u]) /\ Start(w, "upload", u, NoNcn, TRUE, "ok", "put_pdf")

PutPdf(w) ==
    /\ pc[w] = "put_pdf"
    /\ \/ pdf' = [pdf EXCEPT ![task[w].uri] = @ + 1] /\ Answer(w, "ok")
       \/ /\ Failures
          /\ pdf' \in {pdf, [pdf EXCEPT ![task[w].uri] = @ + 1]}
          /\ Answer(w, "http_500")
    /\ UNCHANGED <<distributionVars, store, acked, served>>

-----------------------------------------------------------------------------
(***************************************************************************)
(* create_stub: a document at a fresh URI with the neutral citation in its *)
(* body as it was typed, three properties, and, when it is more than       *)
(* spaces, the identifier without the spaces around it, added to a copy    *)
(* loaded for the purpose.                                                 *)
(***************************************************************************)

\* uuid4: u names no document, and no other stub in the making.
Fresh(u) ==
    /\ store[u].status = "absent"
    /\ \A w \in Workers : pc[w] = "insert" => task[w].uri # u

BeginStub(w, u, text) ==
    /\ Accept(w, "stub")
    /\ \/ \E out \in {"http_403", "error"} : Refuse(w, "stub", u, out)
       \/ Fresh(u) /\ Start(w, "stub", u, text, TRUE, "ok", "insert")

InsertStub(w) ==
    Write(w, "insert", TRUE, NewDocument(task[w].ident), GoOn(w, "source_name"))

SetSourceName(w) == Update(w, "source_name", Stored(w), GoOn(w, "source_email"))

SetSourceEmail(w) == Update(w, "source_email", Stored(w), GoOn(w, "received_at"))

\* Seeded fault: the citation is tested as it was typed, "if ncn".
UnstrippedSetReceivedAt(w) ==
    Update(w, "received_at", Stored(w),
           IF task[w].ident = Plain(NoNcn) THEN Answer(w, "ok") ELSE GoOn(w, "reload"))

\* Seeded fault: the citation never becomes an identifier.
ShortSetReceivedAt(w) == Update(w, "received_at", Stored(w), Answer(w, "ok"))

SetReceivedAt(w) ==
    Update(w, "received_at", Stored(w),
           IF Strip(task[w].ident) = NoNcn THEN Answer(w, "ok") ELSE GoOn(w, "reload"))

ReloadStub(w) ==
    /\ pc[w] = "reload"
    /\ \/ /\ Exists(Stored(w))
          /\ pc' = [pc EXCEPT ![w] = "save_identifiers"]
          /\ task' = [task EXCEPT ![w].snap = Stored(w),
                                  ![w].seen = rev[task[w].uri]]
       \/ (~Exists(Stored(w)) \/ Failures) /\ Answer(w, "http_500")
    /\ UNCHANGED <<distributionVars, store, pdf, acked, served>>

-----------------------------------------------------------------------------
(***************************************************************************)
(* invalidate_caches: three calls in a row; the request is answered after  *)
(* the last of them.                                                       *)
(***************************************************************************)

Invalidate(w, d, call, Then) ==
    /\ pc[w] = call
    /\ \/ CreateInvalidation(d, task[w].uri) /\ Then
       \/ /\ Failures
          /\ CreateInvalidation(d, task[w].uri) \/ UNCHANGED distributionVars
          /\ Answer(w, "http_500") /\ acked' = acked
    /\ UNCHANGED <<store, pdf, served>>

Acknowledge(w) ==
    /\ Answer(w, task[w].out)
    /\ acked' = [acked EXCEPT ![task[w].uri] =
                    IF @ < task[w].mark THEN task[w].mark ELSE @]

\* Seeded fault: the assets distribution is left out.
NoAssetsInvalidatePublic(w) ==
    Invalidate(w, "public", "inv_public", GoOn(w, "inv_editor") /\ acked' = acked)

\* Seeded fault: the editor distribution is left out.
NoEditorInvalidateAssets(w) == Invalidate(w, "assets", "inv_assets", Acknowledge(w))

InvalidatePublic(w) ==
    Invalidate(w, "public", "inv_public", GoOn(w, "inv_assets") /\ acked' = acked)

InvalidateAssets(w) ==
    Invalidate(w, "assets", "inv_assets", GoOn(w, "inv_editor") /\ acked' = acked)

InvalidateEditor(w) == Invalidate(w, "editor", "inv_editor", Acknowledge(w))

-----------------------------------------------------------------------------
(***************************************************************************)
(* The specification.                                                      *)
(***************************************************************************)

Begin(w) ==
    \E u \in Uris :
        \/ \E op \in FlagCall \ {"delete"} : BeginFlag(w, op, u)
        \/ BeginDelete(w, u)
        \/ \E n \in Ncns \cup {NoNcn}, dated \in BOOLEAN : BeginEdit(w, u, n, dated)
        \/ \E i \in Identifiers : BeginAddIdentifier(w, u, i)
        \/ \E i \in Identifiers : BeginDeleteIdentifier(w, u, i)
        \/ BeginUpload(w, u)
        \/ \E text \in Texts : BeginStub(w, u, text)

Step(w) ==
    \/ Publish(w)          \/ Unpublish(w)       \/ Hold(w)         \/ Unhold(w)
    \/ Delete(w)           \/ SaveIdentifiers(w) \/ SetCitation(w)
    \/ SetName(w)          \/ SetCourt(w)        \/ SetDate(w)
    \/ PutPdf(w)           \/ InsertStub(w)      \/ SetSourceName(w)
    \/ SetSourceEmail(w)   \/ SetReceivedAt(w)   \/ ReloadStub(w)
    \/ InvalidatePublic(w) \/ InvalidateAssets(w) \/ InvalidateEditor(w)

\* What the distributions do on their own leaves the handlers alone.
Edge ==
    /\ \/ \E d \in Readers, u \in Uris : FillCopy(d, u)
       \/ \E d \in Readers : CompleteInvalidation(d)
    /\ UNCHANGED <<store, pdf, acked, pc, task, served>>

Next == (\E w \in Workers : Begin(w) \/ Step(w)) \/ Edge

Spec == Init /\ [][Next]_vars

\* CloudFront completes the invalidations it has accepted.  Nothing is asked of
\* workers, which may stop in the middle of a request, nor of those who send it.
Fairness ==
    \A d \in Readers :
        WF_vars(CompleteInvalidation(d) /\ UNCHANGED <<store, pdf, acked, pc, task, served>>)

FairSpec == Spec /\ Fairness

-----------------------------------------------------------------------------
(***************************************************************************)
(* What must hold although the handlers interleave and fail.               *)
(***************************************************************************)

\* Once a handler has returned from invalidate_caches, no distribution keeps a
\* copy older than the handler's writes except one that an accepted
\* invalidation is still going to remove: the three calls in utils/aws.py come
\* after the writes, and between them reach every distribution.
AckedWritesCovered ==
    \A d \in Distribution, u \in Uris :
        ServesOlder(d, u, acked[u]) => u \in pending[d]

\* A copy of a document that was loaded and has not been written since is the
\* stored document: the guards the handlers evaluate on their copy can only be
\* wrong when somebody else has written the document in between.
Unwritten(w) == task[w].seen = rev[task[w].uri]

SnapshotCoherence ==
    \A w \in Workers :
        pc[w] # "idle" /\ Unwritten(w) => task[w].snap = store[task[w].uri]

\* A published document is deleted only by a delete request that loaded it when
\* it was not published, and only if the document was written in between:
\* the safe_to_delete check in views/delete.py fails in no other way.
PublishedDeletedOnlyIfStale ==
    [][\A u \in Uris :
          store[u].published /\ store'[u].status = "deleted" /\ Exists(store[u])
            => \E w \in Workers :
                  /\ pc[w] = "delete" /\ task[w].uri = u
                  /\ ~Unwritten(w) /\ ~task[w].snap.published]_vars

\* An identifier leaves a document only when a request to delete that very
\* identifier finds the document never published, when the edit form replaces
\* a neutral citation, or when a collection loaded before another write is
\* saved over it (save_identifiers writes the whole collection).
IdentifierLossExplained ==
    [][\A u \in Uris : \A i \in store[u].ids \ store'[u].ids :
          \E w \in Workers :
             /\ pc[w] = "save_identifiers" /\ task[w].uri = u
             /\ \/ ~Unwritten(w)
                \/ task[w].op = "delete_identifier" /\ task[w].ident = i /\ ~store[u].ever
                \/ task[w].op = "edit" /\ i \in Ncns]_vars

\* With one worker, whatever fails and however often the form is sent again,
\* the stored fields never mix forms against the order in which the handler
\* writes them: a failed edit leaves a prefix of the new form.
SequentialFormPrefix ==
    \A u \in Uris : store[u].name >= store[u].court /\ store[u].court >= store[u].date

\* An edit form that was answered with "Document successfully updated" has left
\* the neutral citation it submitted in the body as well as in the identifiers
\* (update_ncn_of_document writes both); the body may have it with the spaces
\* that a stub's form had, since it is the identifier that the form is compared to.
EditedCitationStored ==
    \A w \in Workers :
        LET t == task[w]
        IN  pc[w] = "idle" /\ t.op = "edit" /\ t.out = "ok" /\ t.ident # NoNcn
              => Strip(store[t.uri].cite) = t.ident /\ t.ident \in store[t.uri].ids

\* No identifier of a document that has ever been published is deleted
\* (the publish and the identifiers pages say so).
PublishedIdentifiersKept ==
    [][\A u \in Uris : store[u].ever => store[u].ids \subseteq store'[u].ids]_vars

\* No PDF is replaced while its document is published (the upload page says so).
UploadsOnlyUnpublished ==
    [][\A u \in Uris : pdf'[u] # pdf[u] => ~store[u].published]_vars

\* Every write that a handler has invalidated the caches for eventually reaches
\* the readers of every distribution: copies older than it disappear for good
\* (what the three calls in utils/aws.py are made for).
WritesReachReaders ==
    \A u \in Uris, r \in 1..MaxRevision :
        acked[u] >= r ~> [](\A d \in Distribution : ~ServesOlder(d, u, r))

=============================================================================
