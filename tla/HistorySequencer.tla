-------------------------- MODULE HistorySequencer --------------------------
(***************************************************************************)
(* DocumentHistorySequencer (views/document_history.py): the MarkLogic     *)
(* versions of a document, taken in the order of their numbers, become a   *)
(* list of submissions.  A version is abstracted to the kind of its        *)
(* annotation, an event to its two numbers.                                *)
(***************************************************************************)
EXTENDS Naturals, Sequences

CONSTANTS
    MaxVersion,  \* bound on version numbers
    Kinds        \* the kinds of annotation that occur, a subset of Kind

(***************************************************************************)
(* "submission" and "event" are structured annotations.  "legacy" stands   *)
(* for no annotation and for one that is not a JSON object: reading its    *)
(* type raises TypeError or JSONDecodeError.  The annotation of a          *)
(* "bad_submission" or "bad_event" is a JSON object with a type, but       *)
(* build_event_object raises TypeError on its payload (payload or          *)
(* submitter is null).  "keyless" has no type, or its submitter has no     *)
(* name: KeyError.                                                         *)
(***************************************************************************)
Kind == {"submission", "event", "legacy", "bad_submission", "bad_event", "keyless"}

ASSUME MaxVersionAssumption == MaxVersion \in Nat
ASSUME KindsAssumption == Kinds \subseteq Kind

VARIABLES
    annotation,                 \* annotation[v]: the kind of version v
    remaining,                  \* the versions still to come
    structured_history,         \* the submissions that are closed
    submission,                 \* the open submission, or NoSubmission
    event_sequence_number,
    submission_sequence_number,
    phase                       \* "loop", "closed" or "raised"

vars == <<annotation, remaining, structured_history, submission,
          event_sequence_number, submission_sequence_number, phase>>

Event == [event : Nat, version : Nat]

\* An orphan has an identifier of its own (uuid4) in place of a number.
Submission ==
    [type : {"structured", "orphan", "legacy"}, number : Nat, events : Seq(Event)]

NoSubmission == [type |-> "none"]

Open == submission # NoSubmission

TypeOK ==
    /\ annotation \in UNION {[S -> Kinds] : S \in SUBSET (1..MaxVersion)}
    /\ remaining \in SUBSET DOMAIN annotation
    /\ structured_history \in Seq(Submission)
    /\ submission \in Submission \cup {NoSubmission}
    /\ event_sequence_number \in Nat
    /\ submission_sequence_number \in Nat
    /\ phase \in {"loop", "closed", "raised"}

Init ==
    /\ annotation \in UNION {[S -> Kinds] : S \in SUBSET (1..MaxVersion)}
    /\ remaining = DOMAIN annotation
    /\ structured_history = <<>>
    /\ submission = NoSubmission
    /\ event_sequence_number = 0
    /\ submission_sequence_number = 0
    /\ phase = "loop"

-----------------------------------------------------------------------------

\* Seeded fault: a submission is pushed without asking whether one is open.
UnguardedClosed == Append(structured_history, submission)

\* append_current_submission_to_structured_history, the new list.
Closed == IF Open THEN Append(structured_history, submission) ELSE structured_history

\* The object built for version v, when its turn comes.
EventOf(v) == [event |-> event_sequence_number + 1, version |-> v]

\* A submission that is opened, or pushed, with the next number.
Numbered(type, k, events) ==
    [type |-> type, number |-> submission_sequence_number + k, events |-> events]

Orphan(events) == [type |-> "orphan", number |-> 0, events |-> events]

\* v is the next version in order, and an annotation of this kind.
Turn(v, kind) ==
    /\ phase = "loop"
    /\ v \in remaining
    /\ \A x \in remaining : v <= x
    /\ annotation[v] = kind
    /\ remaining' = remaining \ {v}
    /\ event_sequence_number' = event_sequence_number + 1
    /\ UNCHANGED annotation

\* Seeded fault: the submission that is open is not pushed.
DroppingAddSubmission(v) ==
    /\ Turn(v, "submission")
    /\ submission' = Numbered("structured", 1, <<EventOf(v)>>)
    /\ submission_sequence_number' = submission_sequence_number + 1
    /\ UNCHANGED <<structured_history, phase>>

AddSubmission(v) ==
    /\ Turn(v, "submission")
    /\ structured_history' = Closed
    /\ submission' = Numbered("structured", 1, <<EventOf(v)>>)
    /\ submission_sequence_number' = submission_sequence_number + 1
    /\ UNCHANGED phase

\* Seeded fault: every event without a submission of its own is an orphan.
OrphaningAddEvent(v) ==
    /\ Turn(v, "event")
    /\ structured_history' = Closed
    /\ submission' = Orphan(<<EventOf(v)>>)
    /\ UNCHANGED <<submission_sequence_number, phase>>

AddEvent(v) ==
    /\ Turn(v, "event")
    /\ submission' = IF Open THEN [submission EXCEPT !.events = Append(@, EventOf(v))]
                             ELSE Orphan(<<EventOf(v)>>)
    /\ UNCHANGED <<structured_history, submission_sequence_number, phase>>

\* Seeded fault: the legacy version leaves the submission open.
KeepingAddLegacy(v) ==
    /\ Turn(v, "legacy")
    /\ structured_history' = Append(Closed, Numbered("legacy", 1, <<EventOf(v)>>))
    /\ submission_sequence_number' = submission_sequence_number + 1
    /\ UNCHANGED <<submission, phase>>

\* Seeded fault: legacy versions do not count as submissions.
UncountedAddLegacy(v) ==
    /\ Turn(v, "legacy")
    /\ structured_history' = Append(Closed, Numbered("legacy", 1, <<EventOf(v)>>))
    /\ submission' = NoSubmission
    /\ UNCHANGED <<submission_sequence_number, phase>>

AddLegacy(v) ==
    /\ Turn(v, "legacy")
    /\ structured_history' = Append(Closed, Numbered("legacy", 1, <<EventOf(v)>>))
    /\ submission' = NoSubmission
    /\ submission_sequence_number' = submission_sequence_number + 1
    /\ UNCHANGED phase

\* The submission is opened, then its own event cannot be built: the handler
\* of TypeError pushes it without events and adds a legacy entry.
AddBadSubmission(v) ==
    /\ Turn(v, "bad_submission")
    /\ structured_history' = Closed \o <<Numbered("structured", 1, <<>>),
                                         Numbered("legacy", 2, <<EventOf(v)>>)>>
    /\ submission' = NoSubmission
    /\ submission_sequence_number' = submission_sequence_number + 2
    /\ UNCHANGED phase

\* The same for an event: the submission it belongs to, or a new orphan
\* without events, is pushed.
AddBadEvent(v) ==
    /\ Turn(v, "bad_event")
    /\ structured_history' =
          (IF Open THEN Closed ELSE Append(structured_history, Orphan(<<>>)))
             \o <<Numbered("legacy", 1, <<EventOf(v)>>)>>
    /\ submission' = NoSubmission
    /\ submission_sequence_number' = submission_sequence_number + 1
    /\ UNCHANGED phase

\* KeyError is not caught.
AddKeyless(v) ==
    /\ Turn(v, "keyless")
    /\ phase' = "raised"
    /\ UNCHANGED <<structured_history, submission, submission_sequence_number>>

\* The constructor has seen every version.
Finish ==
    /\ phase = "loop" /\ remaining = {}
    /\ phase' = "closed"
    /\ structured_history' = Closed
    /\ submission' = NoSubmission
    /\ UNCHANGED <<annotation, remaining, event_sequence_number,
                   submission_sequence_number>>

Next ==
    \/ \E v \in remaining :
          \/ AddSubmission(v) \/ AddEvent(v) \/ AddLegacy(v)
          \/ AddBadSubmission(v) \/ AddBadEvent(v) \/ AddKeyless(v)
    \/ Finish

Spec == Init /\ [][Next]_vars

-----------------------------------------------------------------------------
(***************************************************************************)
(* What the page must show.                                                *)
(***************************************************************************)

Count == Len(structured_history) + (IF Open THEN 1 ELSE 0)

\* The k-th submission, the open one last.
Entry(k) == IF k <= Len(structured_history) THEN structured_history[k] ELSE submission

\* The versions that have been taken in.
Taken == DOMAIN annotation \ remaining

\* Every version that has been taken in is shown in exactly one place, and
\* reading the submissions and their events from top to bottom is reading the
\* versions by number and the events by sequence number
\* (add_event_to_structured_history loses and repeats nothing).
EventsInOrder ==
    /\ \A j, k \in 1..Count :
          \A m \in 1..Len(Entry(j).events), n \in 1..Len(Entry(k).events) :
             j < k \/ (j = k /\ m < n) =>
                /\ Entry(j).events[m].event < Entry(k).events[n].event
                /\ Entry(j).events[m].version < Entry(k).events[n].version
    /\ phase # "raised" =>
          /\ \A v \in Taken : \E k \in 1..Count : \E n \in 1..Len(Entry(k).events) :
                Entry(k).events[n].version = v
          /\ \A e \in 1..event_sequence_number :
                \E k \in 1..Count : \E n \in 1..Len(Entry(k).events) :
                   Entry(k).events[n].event = e

\* The submissions that are not orphans carry the numbers 1, 2, 3 and so on
\* from top to bottom, whichever branch opened them.
SubmissionsNumbered ==
    /\ \A j, k \in 1..Count :
          j < k /\ Entry(j).type # "orphan" /\ Entry(k).type # "orphan"
             => Entry(j).number < Entry(k).number
    /\ \A i \in 1..submission_sequence_number :
          \E k \in 1..Count : Entry(k).type # "orphan" /\ Entry(k).number = i

\* Two versions are under the same submission exactly when neither a submission
\* nor a version shown as legacy comes between them, the first version's being
\* a submission apart: the declarative reading of the comments in
\* add_event_to_structured_history.
ShownAsLegacy(v) == annotation[v] \in {"legacy", "bad_submission", "bad_event"}

Together(a, b) ==
    \E k \in 1..Count : \E m, n \in 1..Len(Entry(k).events) :
        Entry(k).events[m].version = a /\ Entry(k).events[n].version = b

GroupedBySubmission ==
    \A a, b \in Taken :
        a < b /\ phase # "raised" =>
           (Together(a, b) <=>
               /\ \A x \in Taken : a <= x /\ x <= b => ~ShownAsLegacy(x)
               /\ \A x \in Taken : a < x /\ x <= b => annotation[x] # "submission")

\* Orphaned events only follow a break in the structured history: an orphan is
\* the first submission or comes after a legacy one, and holds no submission.
OrphansFollowBreak ==
    \A k \in 1..Count :
        Entry(k).type = "orphan" =>
           /\ k = 1 \/ Entry(k - 1).type = "legacy"
           /\ \A n \in 1..Len(Entry(k).events) :
                 annotation[Entry(k).events[n].version] # "submission"

\* An entry is shown as legacy only when its version has no structured
\* annotation (the comment on the except clause says so).
LegacyOnlyUnstructured ==
    \A k \in 1..Count :
        Entry(k).type = "legacy" =>
           \A n \in 1..Len(Entry(k).events) :
              annotation[Entry(k).events[n].version] = "legacy"

=============================================================================
