------------------------- MODULE SequentialRequests -------------------------
(***************************************************************************)
(* DocumentRequests with a history variable that remembers on which        *)
(* documents a handler was cut off by an exception while it had written    *)
(* the neutral citation to the body or to the identifiers, and not yet to  *)
(* both.                                                                   *)
(***************************************************************************)
EXTENDS MCDocumentRequests

\* One request at a time, and the identifier forms are not used: they may leave
\* the body and the identifiers in disagreement on purpose.
ASSUME OneWorkerAssumption == \E w \in Workers : Workers = {w}
ASSUME NoIdentifierFormsAssumption ==
    Handlers \cap {"add_identifier", "delete_identifier"} = {}

VARIABLE cut  \* the documents on which a handler was cut off

\* The calls from the first to the last of the two writes: the identifiers and
\* then the body (update_ncn_of_document), or the body, the properties and then
\* the identifiers (create_stub).
CitationCall == StubCall \cup {"save_identifiers", "set_citation"}

\* Worker w meets an exception in one of these calls: it leaves the handler, or
\* the edit form catches it and turns to the caches.
CutOff(w) ==
    /\ pc[w] \in CitationCall
    /\ \/ pc'[w] = "idle" /\ task'[w].out = "http_500"
       \/ pc'[w] = "inv_public"

HistoryInit == Init /\ cut = {}

HistoryNext ==
    Next /\ cut' = cut \cup {task[w].uri : w \in {v \in Workers : CutOff(v)}}

HistorySpec == HistoryInit /\ [][HistoryNext]_<<vars, cut>>

\* An edit form that was answered with "Document successfully updated" has left
\* its neutral citation in the body and among the identifiers, unless a handler
\* was cut off between the two on that document (update_ncn_of_document).
CitationStoredUnlessCut ==
    \A w \in Workers :
        LET t == task[w]
        IN  pc[w] = "idle" /\ t.op = "edit" /\ t.out = "ok" /\ t.ident # NoNcn
              => \/ t.uri \in cut
                 \/ Strip(store[t.uri].cite) = t.ident /\ t.ident \in store[t.uri].ids

\* A document that nobody is working on has the citation in its body, without
\* the spaces around it, as its one neutral citation among the identifiers, and
\* none when the body has none.  What a stub, an edit or a repeated edit leaves
\* undone elsewhere does not change this: only an exception between the write of
\* the one place and the write of the other does (create_stub,
\* update_ncn_of_document), and a stub without its identifier is one of those.
CitationIdentifiedUnlessCut ==
    \A u \in Uris :
        Exists(store[u]) /\ (\A w \in Workers : pc[w] # "idle" => task[w].uri # u)
          => \/ u \in cut
             \/ store[u].ids \cap Ncns = {Strip(store[u].cite)} \ {NoNcn}

=============================================================================
