---------------------------- MODULE EnrichmentQueue ----------------------------
(***************************************************************************)
(* The command enrich_next_in_reenrichment_queue, run again and again by a *)
(* schedule.  Documents are numbered in the order of the queue; MarkLogic  *)
(* lists those that wait, and those that enrichment has dealt with leave.  *)
(***************************************************************************)
EXTENDS Integers, FiniteSets, SequencesExt

CONSTANTS
    NumberToEnrich,  \* NUMBER_TO_ENRICH
    MaxQueue         \* bound on the documents that wait

ASSUME QueueAssumption == NumberToEnrich \in Nat \ {0} /\ MaxQueue \in Nat

VARIABLES
    raising,  \* the documents that cannot be read, or whose enrich() raises
    refused,  \* those whose enrich() returns False and asks for nothing
    waiting,  \* the documents that MarkLogic lists
    taken,    \* the documents that the run is still to send; Idle between runs
    requested \* the documents that enrichment has been asked for

queueVars == <<raising, refused, waiting, taken, requested>>

Idle == <<0>>

Queue == 1..MaxQueue

EnrichInit ==
    /\ raising \in SUBSET Queue
    /\ refused \in SUBSET (Queue \ raising)
    /\ waiting \in SUBSET Queue
    /\ taken = Idle
    /\ requested = {}

\* The answer of MarkLogic: the names of the columns, alone when nothing waits
\* and otherwise the first of the rows.
Header == [columns |-> TRUE]

Result == <<Header>> \o SetToSortSeq(waiting, <)

\* Seeded fault: one row too many is taken for the names of the columns.
HastyRows(result) == IF Len(result) > 1 THEN SubSeq(result, 3, Len(result)) ELSE <<>>

\* get_rows_from_result
Rows(result) == IF Len(result) > 1 THEN Tail(result) ELSE <<>>

\* handle, up to its loop: document_details_to_enrich[:NUMBER_TO_ENRICH].
TakeBatch ==
    /\ taken = Idle
    /\ LET rows == Rows(Result) IN
       taken' = SubSeq(rows, 1, IF Len(rows) < NumberToEnrich THEN Len(rows) ELSE NumberToEnrich)
    /\ UNCHANGED <<raising, refused, waiting, requested>>

\* Nothing is caught: a document that raises ends the run.  What enrich()
\* returns is not looked at.
SendNext ==
    /\ taken # Idle
    /\ IF taken = <<>> \/ Head(taken) \in raising
       THEN taken' = Idle /\ UNCHANGED requested
       ELSE taken' = Tail(taken) /\ requested' = requested \cup ({Head(taken)} \ refused)
    /\ UNCHANGED <<raising, refused, waiting>>

\* Enrichment is over: the document is no longer out of date.
Enriched(d) ==
    /\ d \in requested \cap waiting
    /\ waiting' = waiting \ {d}
    /\ requested' = requested \ {d}
    /\ UNCHANGED <<raising, refused, taken>>

\* A document falls out of date, behind those that already wait.
Join ==
    /\ \E d \in Queue :
         /\ \A other \in waiting : other < d
         /\ waiting' = waiting \cup {d}
    /\ UNCHANGED <<raising, refused, taken, requested>>

KillEnrichment ==
    /\ taken # Idle
    /\ taken' = Idle
    /\ UNCHANGED <<raising, refused, waiting, requested>>

EnrichNext == TakeBatch \/ SendNext \/ (\E d \in Queue : Enriched(d)) \/ Join \/ KillEnrichment

\* The command is run on a schedule, and not killed every time that it comes to
\* the same document; enrichment deals with what it is sent.
EnrichFairness ==
    /\ WF_queueVars(TakeBatch) /\ WF_queueVars(SendNext)
    /\ \A d \in Queue : SF_queueVars(SendNext /\ taken # <<>> /\ Head(taken) = d) /\ WF_queueVars(Enriched(d))

-----------------------------------------------------------------------------

\* A document that waits is dealt with at last, however often the command is
\* killed, as long as no document before it raises, and fewer than a batch of
\* them are refused: these stay at the head of the queue, where one that raises
\* stops every run, and a batch that are refused fill every run, and all that is
\* behind them waits for ever (the loop of handle).
HeadEnriched ==
    \A d \in Queue :
        (/\ d \in waiting \ (raising \cup refused)
         /\ \A b \in raising \cap waiting : d < b
         /\ Cardinality({b \in refused \cap waiting : b < d}) < NumberToEnrich)
            ~> d \notin waiting

=============================================================================
