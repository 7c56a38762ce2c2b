------------------------------- MODULE RunLog -------------------------------
(***************************************************************************)
(* What a row of BulkReparseRunLog (models/telemetry.py) promises to the   *)
(* reader of the reports: the abstract specification of one bulk reparse,  *)
(* told by its row alone.                                                  *)
(***************************************************************************)
EXTENDS Integers

VARIABLES
    row,    \* the row in the database, or NoRow
    limit   \* max_parse, an option of the command

Null == -1  \* documents_selected, until the documents are selected

RunStatus == {"started", "failed", "finished"}

Row == [status : RunStatus, ended : BOOLEAN, selected : Nat \cup {Null},
        attempted : Nat, skipped : Nat, failed : Nat]

NoRow == [status |-> "none"]

Created == [status |-> "started", ended |-> FALSE, selected |-> Null,
            attempted |-> 0, skipped |-> 0, failed |-> 0]

\* The documents that are dealt with.
Total(r) == r.attempted + r.skipped + r.failed

\* The documents of r are selected, and there is one more to deal with: the
\* limit is looked at after a document, so the first is always dealt with.
More(r) ==
    /\ r.selected # Null
    /\ Total(r) < r.selected
    /\ Total(r) = 0 \/ r.attempted < limit

Complete(r) == r.selected # Null /\ ~More(r)

\* The command makes one more call, and row r becomes row s.
Progress(r, s) ==
    \/ /\ r.selected = Null /\ s.selected \in Nat
       /\ s = [r EXCEPT !.selected = s.selected]
    \/ /\ More(r)
       /\ s \in {[r EXCEPT !.attempted = @ + 1], [r EXCEPT !.skipped = @ + 1],
                 [r EXCEPT !.failed = @ + 1]}

Running == row \in Row /\ ~row.ended

Init == row = NoRow /\ limit \in Nat

Create == row = NoRow /\ row' = Created

Advance == Running /\ Progress(row, row')

\* Only a complete run is reported as finished.
Finish ==
    /\ Running /\ Complete(row)
    /\ row' = [row EXCEPT !.status = "finished", !.ended = TRUE]

\* A run that is cut short reports what it did, the last call included.
Abandon ==
    /\ Running
    /\ row'.ended /\ row'.status # "finished"
    /\ LET last == [row' EXCEPT !.status = row.status, !.ended = FALSE] IN
       last = row \/ Progress(row, last)

Next == (Create \/ Advance \/ Finish \/ Abandon) /\ UNCHANGED limit

Spec == Init /\ [][Next]_<<row, limit>>

=============================================================================
