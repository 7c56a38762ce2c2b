---------------------- MODULE HistorySequencerProofs ----------------------
(***************************************************************************)
(* Theorems about HistorySequencer, for any number of versions and any     *)
(* mixture of annotations.                                                 *)
(***************************************************************************)
EXTENDS HistorySequencer, TLAPS

USE DEF Kind

-----------------------------------------------------------------------------
(***************************************************************************)
(* Type correctness.                                                       *)
(***************************************************************************)

\* The annotations never change.
AnnotationOK == annotation \in UNION {[S -> Kinds] : S \in SUBSET (1..MaxVersion)}

LEMMA VersionType ==
    ASSUME TypeOK, NEW v \in remaining
    PROVE  v \in 1..MaxVersion /\ v \in Nat /\ EventOf(v) \in Event
<1>1. v \in 1..MaxVersion
  BY DEF TypeOK
<1> QED BY <1>1, MaxVersionAssumption DEF TypeOK, EventOf, Event

LEMMA ClosedType ==
    ASSUME TypeOK
    PROVE  Closed \in Seq(Submission)
BY DEF TypeOK, Closed, Open

LEMMA NewEntries ==
    ASSUME TypeOK, NEW v \in remaining, NEW type \in {"structured", "legacy"},
           NEW k \in Nat, NEW events \in Seq(Event)
    PROVE  /\ Numbered(type, k, events) \in Submission
           /\ Orphan(events) \in Submission
           /\ Numbered(type, k, events) # NoSubmission
           /\ Orphan(events) # NoSubmission
BY DEF TypeOK, Numbered, Orphan, Submission, NoSubmission

LEMMA TurnType ==
    ASSUME TypeOK, NEW v \in remaining, NEW kind, Turn(v, kind)
    PROVE  /\ AnnotationOK'
           /\ remaining' \in SUBSET DOMAIN annotation'
           /\ event_sequence_number' \in Nat
BY DEF Turn, TypeOK, AnnotationOK

LEMMA ExtendedType ==
    ASSUME TypeOK, Open, NEW v \in remaining
    PROVE  /\ [submission EXCEPT !.events = Append(@, EventOf(v))] \in Submission
           /\ [submission EXCEPT !.events = Append(@, EventOf(v))] # NoSubmission
<1>1. submission \in Submission /\ EventOf(v) \in Event
  BY VersionType DEF TypeOK, Open
<1>2. Append(submission.events, EventOf(v)) \in Seq(Event)
  BY <1>1 DEF Submission
<1>3. [submission EXCEPT !.events = Append(@, EventOf(v))] =
        [type |-> submission.type, number |-> submission.number,
         events |-> Append(submission.events, EventOf(v))]
  BY <1>1 DEF Submission
<1>4. submission.type # "none"
  BY <1>1 DEF Submission
<1> QED BY <1>1, <1>2, <1>3, <1>4 DEF Submission, NoSubmission

LEMMA TypeInvariant == Spec => []TypeOK
<1>1. Init => TypeOK
  BY DEF Init, TypeOK
<1>2. TypeOK /\ [Next]_vars => TypeOK'
  <2> SUFFICES ASSUME TypeOK, [Next]_vars PROVE TypeOK'
    OBVIOUS
  <2>1. \A v \in remaining : <<EventOf(v)>> \in Seq(Event) /\ <<>> \in Seq(Event)
    BY VersionType
  <2>2. ASSUME NEW v \in remaining, AddSubmission(v) PROVE TypeOK'
    <3>1. Numbered("structured", 1, <<EventOf(v)>>) \in Submission
      BY <2>1, NewEntries
    <3> QED BY <2>2, <3>1, ClosedType, TurnType DEF AddSubmission, TypeOK, AnnotationOK
  <2>3. ASSUME NEW v \in remaining, AddEvent(v) PROVE TypeOK'
    <3>1. Orphan(<<EventOf(v)>>) \in Submission
      BY <2>1, NewEntries
    <3> QED BY <2>3, <3>1, ExtendedType, TurnType DEF AddEvent, TypeOK, AnnotationOK
  <2>4. ASSUME NEW v \in remaining, AddLegacy(v) PROVE TypeOK'
    <3>1. Numbered("legacy", 1, <<EventOf(v)>>) \in Submission
      BY <2>1, NewEntries
    <3> QED BY <2>4, <3>1, ClosedType, TurnType DEF AddLegacy, TypeOK, AnnotationOK
  <2>5. ASSUME NEW v \in remaining, AddBadSubmission(v) PROVE TypeOK'
    <3>1. /\ Numbered("structured", 1, <<>>) \in Submission
          /\ Numbered("legacy", 2, <<EventOf(v)>>) \in Submission
      BY <2>1, NewEntries
    <3>2. structured_history' \in Seq(Submission)
      BY <2>5, <3>1, ClosedType DEF AddBadSubmission
    <3> QED BY <2>5, <3>2, TurnType DEF AddBadSubmission, TypeOK, AnnotationOK
  <2>6. ASSUME NEW v \in remaining, AddBadEvent(v) PROVE TypeOK'
    <3>1. /\ Orphan(<<>>) \in Submission
          /\ Numbered("legacy", 1, <<EventOf(v)>>) \in Submission
      BY <2>1, NewEntries
    <3>2. Append(structured_history, Orphan(<<>>)) \in Seq(Submission)
      BY <3>1 DEF TypeOK
    <3>3. structured_history' \in Seq(Submission)
      BY <2>6, <3>1, <3>2, ClosedType DEF AddBadEvent
    <3> QED BY <2>6, <3>3, TurnType DEF AddBadEvent, TypeOK, AnnotationOK
  <2>7. ASSUME NEW v \in remaining, AddKeyless(v) PROVE TypeOK'
    BY <2>7, TurnType DEF AddKeyless, TypeOK, AnnotationOK
  <2>8. CASE Finish
    BY <2>8, ClosedType DEF Finish, TypeOK
  <2>9. CASE UNCHANGED vars
    BY <2>9 DEF vars, TypeOK
  <2> QED BY <2>2, <2>3, <2>4, <2>5, <2>6, <2>7, <2>8, <2>9 DEF Next
<1> QED BY <1>1, <1>2, PTL DEF Spec

\* Every reachable list of submissions is well formed.
THEOREM TypeCorrect == Spec => []TypeOK
BY TypeInvariant

-----------------------------------------------------------------------------
(***************************************************************************)
(* What a step does to the submissions the page would show.                *)
(***************************************************************************)

\* The submissions of s follow those already there.
Pushes(s) ==
    /\ Count' = Count + Len(s)
    /\ \A k \in 1..Count : Entry(k)' = Entry(k)
    /\ \A k \in (Count + 1)..(Count + Len(s)) : Entry(k)' = s[k - Count]

\* The last submission, which is open, receives one more event.
Extends(ev) ==
    /\ Count >= 1 /\ Count' = Count
    /\ \A k \in 1..(Count - 1) : Entry(k)' = Entry(k)
    /\ Entry(Count) = submission
    /\ Entry(Count)' = [submission EXCEPT !.events = Append(@, ev)]

LEMMA CountType ==
    ASSUME TypeOK
    PROVE  /\ Count \in Nat
           /\ \A k \in 1..Count : Entry(k) \in Submission
<1> USE DEF TypeOK
<1>1. Len(structured_history) \in Nat
  OBVIOUS
<1>2. \A k \in 1..Len(structured_history) : structured_history[k] \in Submission
  OBVIOUS
<1> QED BY <1>1, <1>2 DEF Count, Entry, Open

\* Closing the open submission changes nothing that is shown.
LEMMA PushClosed ==
    ASSUME TypeOK, structured_history' = Closed, submission' = NoSubmission
    PROVE  Pushes(<<>>)
BY DEF TypeOK, Closed, Pushes, Count, Entry, Open

LEMMA PushOpen ==
    ASSUME TypeOK, NEW e \in Submission, e # NoSubmission,
           structured_history' = Closed, submission' = e
    PROVE  Pushes(<<e>>)
BY DEF TypeOK, Closed, Pushes, Count, Entry, Open

LEMMA PushOne ==
    ASSUME TypeOK, NEW e \in Submission,
           structured_history' = Append(Closed, e), submission' = NoSubmission
    PROVE  Pushes(<<e>>)
<1>1. Closed \in Seq(Submission) /\ Len(Closed) = Count /\ ~(Open')
  BY ClosedType DEF TypeOK, Closed, Count, Open
<1>2. \A k \in 1..Count : Entry(k) = Closed[k]
  BY DEF TypeOK, Closed, Count, Entry, Open
<1>3. Len(structured_history') = Count + 1 /\ Count \in Nat
  BY <1>1
<1>4. Count' = Count + 1
  BY <1>1, <1>3 DEF Count
<1>5. \A k \in 1..Count + 1 : Entry(k)' = structured_history'[k]
  BY <1>3 DEF Entry
<1>6. \A k \in 1..Count : structured_history'[k] = Closed[k]
  BY <1>1, <1>3
<1>7. structured_history'[Count + 1] = e
  BY <1>1, <1>3
<1>8. Len(<<e>>) = 1 /\ <<e>>[1] = e
  OBVIOUS
<1>9. \A k \in 1..Count : Entry(k)' = Entry(k)
  BY <1>2, <1>3, <1>5, <1>6
<1>10. \A k \in (Count + 1)..(Count + 1) : Entry(k)' = <<e>>[k - Count]
  BY <1>3, <1>5, <1>7, <1>8
<1> QED BY <1>4, <1>8, <1>9, <1>10 DEF Pushes

LEMMA PushTwo ==
    ASSUME TypeOK, NEW e \in Submission, NEW f \in Submission,
           structured_history' = Append(Append(Closed, e), f),
           submission' = NoSubmission
    PROVE  Pushes(<<e, f>>)
<1>1. Closed \in Seq(Submission) /\ Len(Closed) = Count /\ ~(Open')
  BY ClosedType DEF TypeOK, Closed, Count, Open
<1>2. \A k \in 1..Count : Entry(k) = Closed[k]
  BY DEF TypeOK, Closed, Count, Entry, Open
<1>3. Len(structured_history') = Count + 2 /\ Count \in Nat
  BY <1>1
<1>4. Count' = Count + 2
  BY <1>1, <1>3 DEF Count
<1>5. \A k \in 1..Count + 2 : Entry(k)' = structured_history'[k]
  BY <1>3 DEF Entry
<1>6. \A k \in 1..Count : structured_history'[k] = Closed[k]
  BY <1>1, <1>3
<1>7. structured_history'[Count + 1] = e /\ structured_history'[Count + 2] = f
  BY <1>1, <1>3
<1>8. Len(<<e, f>>) = 2 /\ <<e, f>>[1] = e /\ <<e, f>>[2] = f
  OBVIOUS
<1>9. \A k \in 1..Count : Entry(k)' = Entry(k)
  BY <1>2, <1>3, <1>5, <1>6
<1>10. \A k \in (Count + 1)..(Count + 2) : Entry(k)' = <<e, f>>[k - Count]
  BY <1>3, <1>5, <1>7, <1>8
<1> QED BY <1>4, <1>8, <1>9, <1>10 DEF Pushes

LEMMA ExtendOpen ==
    ASSUME TypeOK, Open, NEW ev, structured_history' = structured_history,
           submission' = [submission EXCEPT !.events = Append(@, ev)],
           submission' # NoSubmission
    PROVE  Extends(ev)
BY DEF TypeOK, Extends, Count, Entry, Open

\* The steps that take version v in.
LEMMA StepShape ==
    ASSUME TypeOK, NEW v \in remaining,
           \/ AddSubmission(v) \/ AddEvent(v) \/ AddLegacy(v)
           \/ AddBadSubmission(v) \/ AddBadEvent(v)
    PROVE  \/ AddSubmission(v)
                /\ Pushes(<<Numbered("structured", 1, <<EventOf(v)>>)>>)
           \/ AddEvent(v) /\ ~Open /\ Pushes(<<Orphan(<<EventOf(v)>>)>>)
           \/ AddEvent(v) /\ Open /\ Extends(EventOf(v))
           \/ AddLegacy(v) /\ Pushes(<<Numbered("legacy", 1, <<EventOf(v)>>)>>)
           \/ AddBadSubmission(v)
                /\ Pushes(<<Numbered("structured", 1, <<>>),
                            Numbered("legacy", 2, <<EventOf(v)>>)>>)
           \/ AddBadEvent(v) /\ Open
                /\ Pushes(<<Numbered("legacy", 1, <<EventOf(v)>>)>>)
           \/ AddBadEvent(v) /\ ~Open
                /\ Pushes(<<Orphan(<<>>), Numbered("legacy", 1, <<EventOf(v)>>)>>)
<1>0. <<EventOf(v)>> \in Seq(Event) /\ <<>> \in Seq(Event)
  BY VersionType
<1>1. CASE AddSubmission(v)
  BY <1>0, <1>1, NewEntries, PushOpen DEF AddSubmission
<1>2. CASE AddEvent(v) /\ ~Open
  <2>1. Orphan(<<EventOf(v)>>) \in Submission /\ Orphan(<<EventOf(v)>>) # NoSubmission
    BY <1>0, NewEntries
  <2>2. structured_history' = Closed /\ submission' = Orphan(<<EventOf(v)>>)
    BY <1>2 DEF AddEvent, Closed
  <2> QED BY <1>2, <2>1, <2>2, PushOpen
<1>3. CASE AddEvent(v) /\ Open
  <2>1. submission' # NoSubmission
    BY <1>3, ExtendedType DEF AddEvent
  <2> QED BY <1>3, <2>1, ExtendOpen DEF AddEvent
<1>4. CASE AddLegacy(v)
  BY <1>0, <1>4, NewEntries, PushOne DEF AddLegacy
<1>5. CASE AddBadSubmission(v)
  <2> DEFINE e == Numbered("structured", 1, <<>>)
             f == Numbered("legacy", 2, <<EventOf(v)>>)
  <2>1. e \in Submission /\ f \in Submission
    BY <1>0, NewEntries
  <2> HIDE DEF e, f
  <2>2. Closed \o <<e, f>> = Append(Append(Closed, e), f)
    BY <2>1, ClosedType
  <2>3. Pushes(<<e, f>>)
    BY <1>5, <2>1, <2>2, PushTwo DEF AddBadSubmission, e, f
  <2> QED BY <1>5, <2>3 DEF e, f
<1>6. CASE AddBadEvent(v) /\ Open
  <2> DEFINE f == Numbered("legacy", 1, <<EventOf(v)>>)
  <2>1. f \in Submission
    BY <1>0, NewEntries
  <2>2. structured_history' = Closed \o <<f>> /\ submission' = NoSubmission
    BY <1>6 DEF AddBadEvent
  <2> HIDE DEF f
  <2>3. Closed \o <<f>> = Append(Closed, f)
    BY <2>1, ClosedType
  <2>4. Pushes(<<f>>)
    BY <2>1, <2>2, <2>3, PushOne
  <2> QED BY <1>6, <2>4 DEF f
<1>7. CASE AddBadEvent(v) /\ ~Open
  <2> DEFINE e == Orphan(<<>>)
             f == Numbered("legacy", 1, <<EventOf(v)>>)
  <2>1. e \in Submission /\ f \in Submission
    BY <1>0, NewEntries
  <2>2. structured_history' = Append(Closed, e) \o <<f>> /\ submission' = NoSubmission
    BY <1>7 DEF AddBadEvent, Closed
  <2> HIDE DEF e, f
  <2>3. Append(Closed, e) \o <<f>> = Append(Append(Closed, e), f)
    BY <2>1, ClosedType
  <2>4. Pushes(<<e, f>>)
    BY <2>1, <2>2, <2>3, PushTwo
  <2> QED BY <1>7, <2>4 DEF e, f
<1> QED BY <1>1, <1>2, <1>3, <1>4, <1>5, <1>6, <1>7

-----------------------------------------------------------------------------
(***************************************************************************)
(* The events, in the order in which the page shows them.                  *)
(***************************************************************************)

\* There is an n-th event under the k-th submission.
Position(k, n) == k \in 1..Count /\ n \in 1..Len(Entry(k).events)

Shown(k, n) == Entry(k).events[n]

\* One more event is shown, after all the others, which stay where they are.
AddsAt(K, N, ev) ==
    /\ \A k, n \in Nat : Position(k, n)' <=> Position(k, n) \/ (k = K /\ n = N)
    /\ \A k, n \in Nat : Position(k, n) => k < K \/ (k = K /\ n < N)
    /\ \A k, n \in Nat : Position(k, n) => Shown(k, n)' = Shown(k, n)
    /\ \A k, n \in Nat : k = K /\ n = N => Shown(k, n)' = ev

Adds(ev) == \E K, N \in Nat : AddsAt(K, N, ev)

LEMMA PushAdds ==
    ASSUME TypeOK, NEW ev, NEW e \in Submission, e.events = <<ev>>, Pushes(<<e>>)
    PROVE  AddsAt(Count + 1, 1, ev)
<1>1. Count \in Nat /\ \A k \in 1..Count : Entry(k) \in Submission
  BY CountType
<1>2. Len(<<e>>) = 1 /\ <<e>>[1] = e /\ Len(e.events) = 1 /\ e.events[1] = ev
  OBVIOUS
<1>3. Count' = Count + 1 /\ \A k \in 1..Count : Entry(k)' = Entry(k)
  BY <1>2 DEF Pushes
<1>4. \A k \in Nat : k = Count + 1 => Entry(k)' = e
  BY <1>1, <1>2 DEF Pushes
<1>5. \A k, n \in Nat : Position(k, n)' <=> Position(k, n) \/ (k = Count + 1 /\ n = 1)
  <2> SUFFICES ASSUME NEW k \in Nat, NEW n \in Nat
               PROVE  Position(k, n)' <=> Position(k, n) \/ (k = Count + 1 /\ n = 1)
    OBVIOUS
  <2>1. CASE k \in 1..Count
    BY <1>1, <1>3, <2>1 DEF Position
  <2>2. CASE k = Count + 1
    <3>1. (Entry(k).events)' = e.events
      BY <1>4, <2>2
    <3>2. Position(k, n)' <=> n = 1
      <4>1. (Len(Entry(k).events))' = 1
        BY <1>2, <3>1
      <4>2. (k \in 1..Count)'
        BY <1>1, <1>3, <2>2
      <4>3. n \in 1..1 <=> n = 1
        OBVIOUS
      <4> QED BY <4>1, <4>2, <4>3 DEF Position
    <3>3. ~Position(k, n)
      BY <1>1, <2>2 DEF Position
    <3> QED BY <2>2, <3>2, <3>3
  <2>3. CASE k \notin 1..(Count + 1)
    BY <1>1, <1>3, <2>3 DEF Position
  <2> QED BY <1>1, <2>1, <2>2, <2>3
<1>6. \A k, n \in Nat : Position(k, n) => k < Count + 1
  BY <1>1 DEF Position
<1>7. \A k, n \in Nat : Position(k, n) => Shown(k, n)' = Shown(k, n)
  BY <1>3 DEF Position, Shown
<1>8. \A k, n \in Nat : k = Count + 1 /\ n = 1 => Shown(k, n)' = ev
  BY <1>2, <1>4 DEF Shown
<1> QED BY <1>5, <1>6, <1>7, <1>8 DEF AddsAt

LEMMA PushTwoAdds ==
    ASSUME TypeOK, NEW ev, NEW e \in Submission, NEW f \in Submission,
           e.events = <<>>, f.events = <<ev>>, Pushes(<<e, f>>)
    PROVE  AddsAt(Count + 2, 1, ev)
<1>1. Count \in Nat /\ \A k \in 1..Count : Entry(k) \in Submission
  BY CountType
<1>2. /\ Len(<<e, f>>) = 2 /\ <<e, f>>[1] = e /\ <<e, f>>[2] = f
      /\ Len(e.events) = 0 /\ Len(f.events) = 1 /\ f.events[1] = ev
  OBVIOUS
<1>3. Count' = Count + 2 /\ \A k \in 1..Count : Entry(k)' = Entry(k)
  BY <1>2 DEF Pushes
<1>4. \A k \in Nat : /\ k = Count + 1 => Entry(k)' = e
                     /\ k = Count + 2 => Entry(k)' = f
  BY <1>1, <1>2 DEF Pushes
<1>5. \A k, n \in Nat : Position(k, n)' <=> Position(k, n) \/ (k = Count + 2 /\ n = 1)
  <2> SUFFICES ASSUME NEW k \in Nat, NEW n \in Nat
               PROVE  Position(k, n)' <=> Position(k, n) \/ (k = Count + 2 /\ n = 1)
    OBVIOUS
  <2>1. CASE k \in 1..Count
    BY <1>1, <1>3, <2>1 DEF Position
  <2>2. CASE k = Count + 1
    <3>1. (Len(Entry(k).events))' = 0
      BY <1>2, <1>4, <2>2
    <3>2. n \notin 1..0
      OBVIOUS
    <3>3. ~Position(k, n)'
      BY <3>1, <3>2 DEF Position
    <3> QED BY <1>1, <2>2, <3>3 DEF Position
  <2>3. CASE k = Count + 2
    <3>1. (Len(Entry(k).events))' = 1
      BY <1>2, <1>4, <2>3
    <3>2. (k \in 1..Count)'
      BY <1>1, <1>3, <2>3
    <3>3. n \in 1..1 <=> n = 1
      OBVIOUS
    <3>4. Position(k, n)' <=> n = 1
      BY <3>1, <3>2, <3>3 DEF Position
    <3>5. ~Position(k, n)
      BY <1>1, <2>3 DEF Position
    <3> QED BY <2>3, <3>4, <3>5
  <2>4. CASE k \notin 1..(Count + 2)
    BY <1>1, <1>3, <2>4 DEF Position
  <2> QED BY <1>1, <2>1, <2>2, <2>3, <2>4
<1>6. \A k, n \in Nat : Position(k, n) => k < Count + 2
  BY <1>1 DEF Position
<1>7. \A k, n \in Nat : Position(k, n) => Shown(k, n)' = Shown(k, n)
  BY <1>3 DEF Position, Shown
<1>8. \A k, n \in Nat : k = Count + 2 /\ n = 1 => Shown(k, n)' = ev
  BY <1>2, <1>4 DEF Shown
<1> QED BY <1>5, <1>6, <1>7, <1>8 DEF AddsAt

LEMMA ExtendAdds ==
    ASSUME TypeOK, Open, NEW ev \in Event, Extends(ev)
    PROVE  AddsAt(Count, Len(submission.events) + 1, ev)
<1> DEFINE L == Len(submission.events)
<1>1. Count \in Nat /\ \A k \in 1..Count : Entry(k) \in Submission
  BY CountType
<1>2. /\ submission.events \in Seq(Event) /\ L \in Nat
      /\ Count >= 1 /\ Count' = Count /\ Entry(Count) = submission
  BY DEF TypeOK, Open, Submission, Extends
<1>3. \A k \in 1..(Count - 1) : Entry(k)' = Entry(k)
  BY DEF Extends
<1>4. \A k \in Nat : k = Count => (Entry(k).events)' = Append(submission.events, ev)
  BY <1>2 DEF Extends, TypeOK, Open, Submission
<1>5. \A k, n \in Nat : Position(k, n)' <=> Position(k, n) \/ (k = Count /\ n = L + 1)
  <2> SUFFICES ASSUME NEW k \in Nat, NEW n \in Nat
               PROVE  Position(k, n)' <=> Position(k, n) \/ (k = Count /\ n = L + 1)
    OBVIOUS
  <2>1. CASE k # Count
    <3>1. k \in 1..Count => k \in 1..(Count - 1)
      BY <1>1, <2>1
    <3> QED BY <1>2, <1>3, <2>1, <3>1 DEF Position
  <2>2. CASE k = Count
    <3>1. (Len(Entry(k).events))' = L + 1
      BY <1>2, <1>4, <2>2
    <3>2. (k \in 1..Count)'
      BY <1>1, <1>2, <2>2
    <3>3. Position(k, n)' <=> n \in 1..(L + 1)
      BY <3>1, <3>2 DEF Position
    <3>4. Position(k, n) <=> n \in 1..L
      BY <1>1, <1>2, <2>2 DEF Position
    <3> QED BY <1>2, <2>2, <3>3, <3>4
  <2> QED BY <2>1, <2>2
<1>6. \A k, n \in Nat : Position(k, n) => k < Count \/ (k = Count /\ n < L + 1)
  <2> SUFFICES ASSUME NEW k \in Nat, NEW n \in Nat, Position(k, n), ~(k < Count)
               PROVE  k = Count /\ n < L + 1
    OBVIOUS
  <2>1. k = Count
    BY <1>1 DEF Position
  <2>2. n \in 1..L
    BY <1>2, <2>1 DEF Position
  <2> QED BY <1>2, <2>1, <2>2
<1>7. \A k, n \in Nat : Position(k, n) => Shown(k, n)' = Shown(k, n)
  <2> SUFFICES ASSUME NEW k \in Nat, NEW n \in Nat, Position(k, n)
               PROVE  Shown(k, n)' = Shown(k, n)
    OBVIOUS
  <2>1. CASE k # Count
    <3>1. k \in 1..(Count - 1)
      BY <1>1, <2>1 DEF Position
    <3> QED BY <1>3, <3>1 DEF Shown
  <2>2. CASE k = Count
    <3>1. n \in 1..L
      BY <1>2, <2>2 DEF Position
    <3>2. Append(submission.events, ev)[n] = submission.events[n]
      BY <1>2, <3>1
    <3> QED BY <1>2, <1>4, <2>2, <3>2 DEF Shown
  <2> QED BY <2>1, <2>2
<1>8. \A k, n \in Nat : k = Count /\ n = L + 1 => Shown(k, n)' = ev
  BY <1>2, <1>4 DEF Shown
<1> QED BY <1>5, <1>6, <1>7, <1>8 DEF AddsAt

\* Version v is shown under the last submission, which is a new one unless v is
\* an event and a submission is open.
PlacesLast(v) ==
    \E K, N \in Nat :
        /\ AddsAt(K, N, EventOf(v)) /\ Count' = K
        /\ AddEvent(v) /\ Open => K = Count
        /\ ~(AddEvent(v) /\ Open) => K > Count

LEMMA StepPlaces ==
    ASSUME TypeOK, NEW v \in remaining,
           \/ AddSubmission(v) \/ AddEvent(v) \/ AddLegacy(v)
           \/ AddBadSubmission(v) \/ AddBadEvent(v)
    PROVE  PlacesLast(v)
<1> DEFINE ev == EventOf(v)
<1>1. ev \in Event /\ <<ev>> \in Seq(Event) /\ <<>> \in Seq(Event)
  BY VersionType
<1>2. \A type \in {"structured", "legacy"}, k \in {1, 2}, events \in Seq(Event) :
         /\ Numbered(type, k, events) \in Submission
         /\ Numbered(type, k, events).events = events
  BY NewEntries DEF Numbered
<1>3. \A events \in Seq(Event) :
         Orphan(events) \in Submission /\ Orphan(events).events = events
  BY NewEntries DEF Orphan
<1>4. Count \in Nat
  BY CountType
<1> HIDE DEF ev
<1> DEFINE extends == AddEvent(v) /\ Open
           Placed == \E K, N \in Nat : /\ AddsAt(K, N, ev) /\ Count' = K
                                       /\ extends => K = Count
                                       /\ ~extends => K > Count
<1>5. ASSUME NEW e \in Submission, e.events = <<ev>>, Pushes(<<e>>), ~extends
      PROVE  Placed
  <2>1. AddsAt(Count + 1, 1, ev)
    BY <1>5, PushAdds
  <2>2. Count + 1 \in Nat /\ Count + 1 > Count /\ Count' = Count + 1
    BY <1>4, <1>5 DEF Pushes
  <2> QED BY <1>5, <2>1, <2>2
<1>6. ASSUME NEW e \in Submission, NEW f \in Submission, e.events = <<>>,
             f.events = <<ev>>, Pushes(<<e, f>>), ~extends
      PROVE  Placed
  <2>1. AddsAt(Count + 2, 1, ev)
    BY <1>6, PushTwoAdds
  <2>2. Count + 2 \in Nat /\ Count + 2 > Count /\ Count' = Count + 2
    BY <1>4, <1>6 DEF Pushes
  <2> QED BY <1>6, <2>1, <2>2
<1>7. ASSUME extends, Extends(ev)
      PROVE  Placed
  <2>1. AddsAt(Count, Len(submission.events) + 1, ev)
    BY <1>1, <1>7, ExtendAdds
  <2>2. Len(submission.events) + 1 \in Nat
    BY <1>7 DEF TypeOK, Open, Submission
  <2>3. Count' = Count
    BY <1>7 DEF Extends
  <2> QED BY <1>4, <1>7, <2>1, <2>2, <2>3
<1>8. /\ Numbered("structured", 1, <<ev>>) \in Submission
      /\ Numbered("structured", 1, <<ev>>).events = <<ev>>
      /\ Numbered("structured", 1, <<>>) \in Submission
      /\ Numbered("structured", 1, <<>>).events = <<>>
      /\ Numbered("legacy", 1, <<ev>>) \in Submission
      /\ Numbered("legacy", 1, <<ev>>).events = <<ev>>
      /\ Numbered("legacy", 2, <<ev>>) \in Submission
      /\ Numbered("legacy", 2, <<ev>>).events = <<ev>>
  BY <1>1, <1>2
<1>9. /\ Orphan(<<ev>>) \in Submission /\ Orphan(<<ev>>).events = <<ev>>
      /\ Orphan(<<>>) \in Submission /\ Orphan(<<>>).events = <<>>
  BY <1>1, <1>3
<1>10. ev = EventOf(v)
  BY DEF ev
<1>11. extends => ~AddSubmission(v) /\ ~AddLegacy(v) /\ ~AddBadSubmission(v) /\ ~AddBadEvent(v)
  BY DEF AddEvent, AddSubmission, AddLegacy, AddBadSubmission, AddBadEvent, Turn
<1> HIDE DEF Placed
<1>12. Placed
  BY <1>5, <1>6, <1>7, <1>8, <1>9, <1>10, <1>11, StepShape
<1> QED BY <1>10, <1>12 DEF Placed, PlacesLast

LEMMA StepAdds ==
    ASSUME TypeOK, NEW v \in remaining,
           \/ AddSubmission(v) \/ AddEvent(v) \/ AddLegacy(v)
           \/ AddBadSubmission(v) \/ AddBadEvent(v)
    PROVE  Adds(EventOf(v))
BY StepPlaces DEF PlacesLast, Adds

-----------------------------------------------------------------------------
(***************************************************************************)
(* The order of the events.                                                *)
(***************************************************************************)

\* What is shown has been taken in, and what remains comes later.
BoundsInv ==
    /\ \A k, n \in Nat : Position(k, n) =>
          /\ Shown(k, n).event \in 1..event_sequence_number
          /\ Shown(k, n).version \in Taken
    /\ \A t \in Taken, x \in remaining : t < x

\* The two halves of EventsInOrder.
Ordered ==
    \A j, k, m, n \in Nat :
        Position(j, m) /\ Position(k, n) /\ (j < k \/ (j = k /\ m < n)) =>
           /\ Shown(j, m).event < Shown(k, n).event
           /\ Shown(j, m).version < Shown(k, n).version

Complete ==
    phase # "raised" =>
       /\ \A v \in Taken : \E k, n \in Nat : Position(k, n) /\ Shown(k, n).version = v
       /\ \A e \in 1..event_sequence_number :
             \E k, n \in Nat : Position(k, n) /\ Shown(k, n).event = e

OrderInv == BoundsInv /\ Ordered /\ Complete

\* Taking a version in.
LEMMA TurnFacts ==
    ASSUME TypeOK, BoundsInv, NEW v \in remaining, NEW kind, Turn(v, kind)
    PROVE  /\ v \in Nat /\ v \notin Taken
           /\ Taken' = Taken \cup {v}
           /\ \A t \in Taken : t \in Nat /\ t < v
           /\ \A x \in remaining' : x \in Nat /\ v < x
           /\ phase = "loop"
           /\ event_sequence_number \in Nat
           /\ event_sequence_number' = event_sequence_number + 1
<1>1. /\ remaining \subseteq DOMAIN annotation /\ DOMAIN annotation \subseteq Nat
      /\ event_sequence_number \in Nat
  BY MaxVersionAssumption DEF TypeOK
<1>2. annotation' = annotation /\ remaining' = remaining \ {v}
  BY DEF Turn
<1>3. Taken' = Taken \cup {v}
  BY <1>1, <1>2 DEF Taken
<1>4. v \in Nat /\ v \notin Taken
  BY <1>1 DEF Taken
<1>5. \A t \in Taken : t \in Nat /\ t < v
  BY <1>1 DEF Taken, BoundsInv
<1>6. \A x \in remaining' : x \in Nat /\ v < x
  BY <1>1, <1>2, <1>4 DEF Turn
<1> QED BY <1>1, <1>3, <1>4, <1>5, <1>6 DEF Turn

LEMMA OrderStep ==
    ASSUME TypeOK, OrderInv, NEW v \in remaining, NEW kind, Turn(v, kind),
           Adds(EventOf(v)), phase' = phase
    PROVE  OrderInv'
<1>1. /\ v \in Nat /\ v \notin Taken
      /\ Taken' = Taken \cup {v}
      /\ \A t \in Taken : t \in Nat /\ t < v
      /\ \A x \in remaining' : x \in Nat /\ v < x
      /\ phase = "loop"
      /\ event_sequence_number \in Nat
      /\ event_sequence_number' = event_sequence_number + 1
  BY TurnFacts DEF OrderInv
<1>2. PICK K \in Nat, N \in Nat : AddsAt(K, N, EventOf(v))
  BY DEF Adds
<1>3. \A k, n \in Nat : k = K /\ n = N =>
         Shown(k, n)' = [event |-> event_sequence_number + 1, version |-> v]
  BY <1>2 DEF AddsAt, EventOf
<1>4. \A k, n \in Nat : Position(k, n)' <=> Position(k, n) \/ (k = K /\ n = N)
  BY <1>2 DEF AddsAt
<1>5. \A k, n \in Nat : Position(k, n) =>
         (k < K \/ (k = K /\ n < N)) /\ Shown(k, n)' = Shown(k, n)
  BY <1>2 DEF AddsAt
<1>6. BoundsInv'
  <2>1. ASSUME NEW k \in Nat, NEW n \in Nat, Position(k, n)'
        PROVE  /\ (Shown(k, n).event \in 1..event_sequence_number)'
               /\ (Shown(k, n).version \in Taken)'
    <3>1. CASE k = K /\ n = N
      <4>1. Shown(k, n)' = [event |-> event_sequence_number + 1, version |-> v]
        BY <1>3, <3>1
      <4>2. (Shown(k, n).event)' = event_sequence_number + 1
               /\ (Shown(k, n).version)' = v
        BY <4>1
      <4> QED BY <1>1, <4>2
    <3>2. CASE Position(k, n)
      <4>1. Shown(k, n)' = Shown(k, n)
        BY <1>5, <3>2
      <4>2. Shown(k, n).event \in 1..event_sequence_number /\ Shown(k, n).version \in Taken
        BY <3>2 DEF OrderInv, BoundsInv
      <4> QED BY <1>1, <4>1, <4>2
    <3> QED BY <1>4, <2>1, <3>1, <3>2
  <2>2. \A t \in Taken', x \in remaining' : t < x
    BY <1>1
  <2> QED BY <2>1, <2>2 DEF BoundsInv
<1>7. Ordered'
  <2> SUFFICES ASSUME NEW j \in Nat, NEW k \in Nat, NEW m \in Nat, NEW n \in Nat,
                      Position(j, m)', Position(k, n)', j < k \/ (j = k /\ m < n)
               PROVE  /\ (Shown(j, m).event)' < (Shown(k, n).event)'
                      /\ (Shown(j, m).version)' < (Shown(k, n).version)'
    BY DEF Ordered
  <2>1. CASE Position(j, m) /\ Position(k, n)
    <3>1. Shown(j, m)' = Shown(j, m) /\ Shown(k, n)' = Shown(k, n)
      BY <1>5, <2>1
    <3>2. Shown(j, m).event < Shown(k, n).event /\ Shown(j, m).version < Shown(k, n).version
      BY <2>1 DEF OrderInv, Ordered
    <3> QED BY <3>1, <3>2
  <2>2. CASE Position(j, m) /\ k = K /\ n = N
    <3>1. Shown(j, m)' = Shown(j, m)
             /\ Shown(k, n)' = [event |-> event_sequence_number + 1, version |-> v]
      BY <1>3, <1>5, <2>2
    <3>2. Shown(j, m).event \in 1..event_sequence_number /\ Shown(j, m).version \in Taken
      BY <2>2 DEF OrderInv, BoundsInv
    <3>3. (Shown(k, n).event)' = event_sequence_number + 1 /\ (Shown(k, n).version)' = v
      BY <3>1
    <3>4. (Shown(j, m).event)' = Shown(j, m).event
             /\ (Shown(j, m).version)' = Shown(j, m).version
      BY <3>1
    <3> QED BY <1>1, <3>2, <3>3, <3>4
  <2>3. CASE j = K /\ m = N
    <3>1. ~Position(k, n)
      BY <1>5, <2>3
    <3>2. k = K /\ n = N
      BY <1>4, <3>1
    <3> QED BY <2>3, <3>2
  <2> QED BY <1>4, <2>1, <2>2, <2>3
<1>8. Complete'
  <2>1. Complete /\ phase # "raised"
    BY <1>1 DEF OrderInv
  <2>2. ASSUME NEW t \in Taken'
        PROVE  \E k, n \in Nat : Position(k, n)' /\ (Shown(k, n).version)' = t
    <3>1. CASE t = v
      <4>1. Position(K, N)' /\ Shown(K, N)' = [event |-> event_sequence_number + 1, version |-> v]
        BY <1>3, <1>4
      <4> QED BY <3>1, <4>1
    <3>2. CASE t \in Taken
      <4>1. PICK k \in Nat, n \in Nat : Position(k, n) /\ Shown(k, n).version = t
        BY <2>1, <3>2 DEF Complete
      <4>2. Position(k, n)' /\ Shown(k, n)' = Shown(k, n)
        BY <1>4, <1>5, <4>1
      <4> QED BY <4>1, <4>2
    <3> QED BY <1>1, <2>2, <3>1, <3>2
  <2>3. ASSUME NEW e \in 1..event_sequence_number'
        PROVE  \E k, n \in Nat : Position(k, n)' /\ (Shown(k, n).event)' = e
    <3>1. CASE e = event_sequence_number + 1
      <4>1. Position(K, N)' /\ Shown(K, N)' = [event |-> event_sequence_number + 1, version |-> v]
        BY <1>3, <1>4
      <4> QED BY <3>1, <4>1
    <3>2. CASE e \in 1..event_sequence_number
      <4>1. PICK k \in Nat, n \in Nat : Position(k, n) /\ Shown(k, n).event = e
        BY <2>1, <3>2 DEF Complete
      <4>2. Position(k, n)' /\ Shown(k, n)' = Shown(k, n)
        BY <1>4, <1>5, <4>1
      <4> QED BY <4>1, <4>2
    <3> QED BY <1>1, <2>3, <3>1, <3>2
  <2> QED BY <2>2, <2>3 DEF Complete
<1> QED BY <1>6, <1>7, <1>8 DEF OrderInv

\* Steps after which the page would show just what it showed.
LEMMA SameShown ==
    ASSUME TypeOK, Pushes(<<>>) \/ UNCHANGED <<structured_history, submission>>
    PROVE  \A k, n \in Nat :
              /\ Position(k, n)' <=> Position(k, n)
              /\ Position(k, n) => Shown(k, n)' = Shown(k, n)
<1>1. CASE Pushes(<<>>)
  <2>1. Count' = Count /\ \A k \in 1..Count : Entry(k)' = Entry(k)
    BY <1>1, CountType DEF Pushes
  <2> QED BY <2>1 DEF Position, Shown
<1>2. CASE UNCHANGED <<structured_history, submission>>
  BY <1>2 DEF Position, Shown, Count, Entry, Open
<1> QED BY <1>1, <1>2

LEMMA OrderFinish ==
    ASSUME TypeOK, OrderInv, Finish
    PROVE  OrderInv'
<1>1. \A k, n \in Nat : /\ Position(k, n)' <=> Position(k, n)
                        /\ Position(k, n) => Shown(k, n)' = Shown(k, n)
  BY PushClosed, SameShown DEF Finish
<1>2. /\ Taken' = Taken /\ remaining' = remaining
      /\ event_sequence_number' = event_sequence_number /\ phase # "raised"
  BY DEF Finish, Taken
<1>3. BoundsInv' /\ Ordered'
  BY <1>1, <1>2 DEF OrderInv, BoundsInv, Ordered
<1>4. Complete'
  BY <1>1, <1>2 DEF OrderInv, Complete
<1> QED BY <1>3, <1>4 DEF OrderInv

LEMMA OrderKeyless ==
    ASSUME TypeOK, OrderInv, NEW v \in remaining, AddKeyless(v)
    PROVE  OrderInv'
<1>1. \A k, n \in Nat : /\ Position(k, n)' <=> Position(k, n)
                        /\ Position(k, n) => Shown(k, n)' = Shown(k, n)
  BY SameShown DEF AddKeyless
<1>2. /\ v \in Nat /\ Taken' = Taken \cup {v}
      /\ \A t \in Taken : t \in Nat /\ t < v
      /\ \A x \in remaining' : x \in Nat /\ v < x
      /\ event_sequence_number \in Nat
      /\ event_sequence_number' = event_sequence_number + 1
  BY TurnFacts DEF AddKeyless, OrderInv
<1>3. phase' = "raised"
  BY DEF AddKeyless
<1>4. ASSUME NEW k \in Nat, NEW n \in Nat, Position(k, n)'
      PROVE  /\ (Shown(k, n).event \in 1..event_sequence_number)'
             /\ (Shown(k, n).version \in Taken)'
  BY <1>1, <1>2, <1>4 DEF OrderInv, BoundsInv
<1>5. \A t \in Taken', x \in remaining' : t < x
  BY <1>2
<1>6. Ordered'
  BY <1>1 DEF OrderInv, Ordered
<1> QED BY <1>3, <1>4, <1>5, <1>6 DEF OrderInv, BoundsInv, Complete

LEMMA OrderInvariant == Spec => []OrderInv
<1>1. Init => OrderInv
  <2> SUFFICES ASSUME Init PROVE OrderInv
    OBVIOUS
  <2>1. Count = 0
    BY DEF Init, Count, Open
  <2>2. \A k, n \in Nat : ~Position(k, n)
    BY <2>1 DEF Position
  <2>3. Taken = {} /\ event_sequence_number = 0
    BY DEF Init, Taken
  <2> QED BY <2>2, <2>3 DEF OrderInv, BoundsInv, Ordered, Complete
<1>2. TypeOK /\ OrderInv /\ [Next]_vars => OrderInv'
  <2> SUFFICES ASSUME TypeOK, OrderInv, [Next]_vars PROVE OrderInv'
    OBVIOUS
  <2>1. ASSUME NEW v \in remaining,
               \/ AddSubmission(v) \/ AddEvent(v) \/ AddLegacy(v)
               \/ AddBadSubmission(v) \/ AddBadEvent(v)
        PROVE  OrderInv'
    <3>1. phase' = phase
      BY <2>1 DEF AddSubmission, AddEvent, AddLegacy, AddBadSubmission, AddBadEvent
    <3>2. \E kind : Turn(v, kind)
      BY <2>1 DEF AddSubmission, AddEvent, AddLegacy, AddBadSubmission, AddBadEvent
    <3> QED BY <2>1, <3>1, <3>2, StepAdds, OrderStep
  <2>2. CASE UNCHANGED vars
    <3>1. \A k, n \in Nat : /\ Position(k, n)' <=> Position(k, n)
                            /\ Position(k, n) => Shown(k, n)' = Shown(k, n)
      BY <2>2, SameShown DEF vars
    <3> QED BY <2>2, <3>1 DEF vars, OrderInv, BoundsInv, Ordered, Complete, Taken
  <2> QED BY <2>1, <2>2, OrderFinish, OrderKeyless DEF Next
<1> QED BY <1>1, <1>2, TypeInvariant, PTL DEF Spec

\* The history page shows every version once, in order, for any number of
\* versions and any mixture of annotations.
THEOREM VersionsInOrder == Spec => []EventsInOrder
<1>1. TypeOK /\ OrderInv => EventsInOrder
  <2> SUFFICES ASSUME TypeOK, OrderInv PROVE EventsInOrder
    OBVIOUS
  <2>1. \A k : k \in 1..Count => /\ k \in Nat
                                 /\ \A n : n \in 1..Len(Entry(k).events) => n \in Nat
    OBVIOUS
  <2>2. \A j, k \in 1..Count :
          \A m \in 1..Len(Entry(j).events), n \in 1..Len(Entry(k).events) :
             j < k \/ (j = k /\ m < n) =>
                /\ Entry(j).events[m].event < Entry(k).events[n].event
                /\ Entry(j).events[m].version < Entry(k).events[n].version
    BY <2>1 DEF OrderInv, Ordered, Position, Shown
  <2>3. phase # "raised" =>
          /\ \A v \in Taken : \E k \in 1..Count : \E n \in 1..Len(Entry(k).events) :
                Entry(k).events[n].version = v
          /\ \A e \in 1..event_sequence_number :
                \E k \in 1..Count : \E n \in 1..Len(Entry(k).events) :
                   Entry(k).events[n].event = e
    BY DEF OrderInv, Complete, Position, Shown
  <2> QED BY <2>2, <2>3 DEF EventsInOrder
<1> QED BY <1>1, TypeInvariant, OrderInvariant, PTL

-----------------------------------------------------------------------------
(***************************************************************************)
(* The grouping of versions under submissions.                             *)
(***************************************************************************)

\* No submission ends between version a and the versions of S that follow it.
Unbroken(a, S) ==
    /\ \A x \in S : a <= x => ~ShownAsLegacy(x)
    /\ \A x \in S : a < x => annotation[x] # "submission"

\* Version a is under the submission that is open.
InOpen(a) == Open /\ \E n \in Nat : Position(Count, n) /\ Shown(Count, n).version = a

\* While versions are taken in, the open submission holds exactly the versions
\* after which nothing has broken the history.
OpenHoldsUnbroken ==
    phase = "loop" => \A a \in Taken : InOpen(a) <=> Unbroken(a, Taken)

Grouped ==
    phase # "raised" =>
       \A a, b \in Taken : a < b =>
          ((\E k, m, n \in Nat : /\ Position(k, m) /\ Shown(k, m).version = a
                                 /\ Position(k, n) /\ Shown(k, n).version = b)
              <=> Unbroken(a, {x \in Taken : x <= b}))

GroupInv == OpenHoldsUnbroken /\ Grouped

\* Whether a submission is open after version v.
LEMMA OpenAfter ==
    ASSUME TypeOK, NEW v \in remaining,
           \/ AddSubmission(v) \/ AddEvent(v) \/ AddLegacy(v)
           \/ AddBadSubmission(v) \/ AddBadEvent(v)
    PROVE  /\ annotation' = annotation /\ phase' = "loop" /\ phase = "loop"
           /\ Open' <=> ~ShownAsLegacy(v)
           /\ AddEvent(v) => annotation[v] = "event"
           /\ ~AddEvent(v) => ShownAsLegacy(v) \/ annotation[v] = "submission"
<1>0. <<EventOf(v)>> \in Seq(Event)
  BY VersionType
<1>1. CASE AddSubmission(v)
  BY <1>0, <1>1, NewEntries DEF AddSubmission, AddEvent, Turn, Open, ShownAsLegacy
<1>2. CASE AddEvent(v)
  BY <1>0, <1>2, NewEntries, ExtendedType DEF AddEvent, Turn, Open, ShownAsLegacy
<1>3. CASE AddLegacy(v) \/ AddBadSubmission(v) \/ AddBadEvent(v)
  BY <1>3 DEF AddLegacy, AddBadSubmission, AddBadEvent, AddEvent, Turn, Open, ShownAsLegacy
<1> QED BY <1>1, <1>2, <1>3

LEMMA GroupStep ==
    ASSUME TypeOK, OrderInv, GroupInv, NEW v \in remaining,
           \/ AddSubmission(v) \/ AddEvent(v) \/ AddLegacy(v)
           \/ AddBadSubmission(v) \/ AddBadEvent(v)
    PROVE  GroupInv'
<1>1. /\ v \in Nat /\ v \notin Taken
      /\ Taken' = Taken \cup {v}
      /\ \A t \in Taken : t \in Nat /\ t < v
  <2>1. \E kind : Turn(v, kind)
    BY DEF AddSubmission, AddEvent, AddLegacy, AddBadSubmission, AddBadEvent
  <2> QED BY <2>1, TurnFacts DEF OrderInv
<1>2. /\ annotation' = annotation /\ phase' = "loop" /\ phase = "loop"
      /\ Open' <=> ~ShownAsLegacy(v)
      /\ AddEvent(v) => annotation[v] = "event"
      /\ ~AddEvent(v) => ShownAsLegacy(v) \/ annotation[v] = "submission"
  BY OpenAfter
<1>3. PICK K \in Nat, N \in Nat :
        /\ AddsAt(K, N, EventOf(v)) /\ Count' = K
        /\ AddEvent(v) /\ Open => K = Count
        /\ ~(AddEvent(v) /\ Open) => K > Count
  BY StepPlaces DEF PlacesLast
<1>4. \A k, n \in Nat : Position(k, n)' <=> Position(k, n) \/ (k = K /\ n = N)
  BY <1>3 DEF AddsAt
<1>5. \A k, n \in Nat : Position(k, n) =>
         /\ (Shown(k, n).version)' = Shown(k, n).version
         /\ Shown(k, n).version \in Taken
         /\ k <= Count
  BY <1>3, CountType DEF AddsAt, OrderInv, BoundsInv, Position
<1>6. \A k, n \in Nat : k = K /\ n = N => (Shown(k, n).version)' = v
  <2>1. \A k, n \in Nat : k = K /\ n = N => Shown(k, n)' = EventOf(v)
    BY <1>3 DEF AddsAt
  <2> QED BY <2>1 DEF EventOf
<1>7. \A a : ShownAsLegacy(a)' <=> ShownAsLegacy(a)
  BY <1>2 DEF ShownAsLegacy
<1>8. \A a \in Taken : InOpen(a) <=> Unbroken(a, Taken)
  BY <1>2 DEF GroupInv, OpenHoldsUnbroken
\* Older versions stay unbroken when v is an event.
<1>9. \A a \in Taken : Unbroken(a, Taken') <=> Unbroken(a, Taken) /\ AddEvent(v)
  <2> SUFFICES ASSUME NEW a \in Taken
               PROVE  Unbroken(a, Taken') <=> Unbroken(a, Taken) /\ AddEvent(v)
    OBVIOUS
  <2>1. a < v /\ a <= v
    BY <1>1
  <2>2. CASE AddEvent(v)
    <3>1. ~ShownAsLegacy(v) /\ annotation[v] # "submission"
      BY <1>2, <2>2 DEF ShownAsLegacy
    <3> QED BY <1>1, <2>1, <2>2, <3>1 DEF Unbroken
  <2>3. CASE ~AddEvent(v)
    <3>1. ShownAsLegacy(v) \/ annotation[v] = "submission"
      BY <1>2, <2>3
    <3> QED BY <1>1, <2>1, <2>3, <3>1 DEF Unbroken
  <2> QED BY <2>2, <2>3
<1>10. Unbroken(v, Taken') <=> ~ShownAsLegacy(v)
  <2>1. \A x \in Taken' : (v <= x <=> x = v) /\ ~(v < x)
    BY <1>1
  <2> QED BY <1>1, <2>1 DEF Unbroken
\* Older versions under the last submission.
<1>11. \A a \in Taken :
          (\E n \in Nat : Position(K, n)' /\ (Shown(K, n).version)' = a)
             <=> AddEvent(v) /\ InOpen(a)
  <2> SUFFICES ASSUME NEW a \in Taken
               PROVE  (\E n \in Nat : Position(K, n)' /\ (Shown(K, n).version)' = a)
                         <=> AddEvent(v) /\ InOpen(a)
    OBVIOUS
  <2>1. CASE AddEvent(v) /\ Open
    BY <1>1, <1>3, <1>4, <1>5, <1>6, <2>1 DEF InOpen
  <2>2. CASE ~(AddEvent(v) /\ Open)
    <3>1. \A n \in Nat : ~Position(K, n)
      BY <1>3, <1>5, <2>2, CountType
    <3>2. ~(AddEvent(v) /\ InOpen(a))
      BY <2>2 DEF InOpen
    <3> QED BY <1>1, <1>4, <1>6, <3>1, <3>2
  <2> QED BY <2>1, <2>2
<1>12. OpenHoldsUnbroken'
  <2> SUFFICES ASSUME NEW a \in Taken'
               PROVE  InOpen(a)' <=> Unbroken(a, Taken')
    BY <1>2, <1>7 DEF OpenHoldsUnbroken, Unbroken
  <2>1. InOpen(a)' <=> /\ ~ShownAsLegacy(v)
                       /\ \E n \in Nat : Position(K, n)' /\ (Shown(K, n).version)' = a
    BY <1>2, <1>3 DEF InOpen
  <2>2. CASE a = v
    BY <1>4, <1>6, <1>10, <2>1, <2>2
  <2>3. CASE a \in Taken
    <3>1. AddEvent(v) => ~ShownAsLegacy(v)
      BY <1>2 DEF ShownAsLegacy
    <3> QED BY <1>8, <1>9, <1>11, <2>1, <2>3, <3>1
  <2> QED BY <1>1, <2>2, <2>3
<1>13. Grouped'
  <2> SUFFICES ASSUME NEW a \in Taken', NEW b \in Taken', a < b
               PROVE  (\E k, m, n \in Nat :
                          /\ Position(k, m)' /\ (Shown(k, m).version)' = a
                          /\ Position(k, n)' /\ (Shown(k, n).version)' = b)
                       <=> Unbroken(a, {x \in Taken' : x <= b})
    BY <1>2, <1>7 DEF Grouped, Unbroken
  <2>1. a \in Taken
    BY <1>1
  <2>2. CASE b = v
    <3>0. \A x \in Taken' : x <= b
      BY <1>1, <2>2
    <3>1. {x \in Taken' : x <= b} = Taken'
      BY <3>0
    <3>2. (\E k, m, n \in Nat : /\ Position(k, m)' /\ (Shown(k, m).version)' = a
                                /\ Position(k, n)' /\ (Shown(k, n).version)' = b)
             <=> \E m \in Nat : Position(K, m)' /\ (Shown(K, m).version)' = a
      BY <1>1, <1>4, <1>5, <1>6, <2>2
    <3> QED BY <1>8, <1>9, <1>11, <2>1, <3>1, <3>2
  <2>3. CASE b \in Taken
    <3>1. {x \in Taken' : x <= b} = {x \in Taken : x <= b}
      BY <1>1, <2>3
    <3>2. \A k, m, n \in Nat :
             /\ Position(k, m)' /\ (Shown(k, m).version)' = a
             /\ Position(k, n)' /\ (Shown(k, n).version)' = b
             <=> /\ Position(k, m) /\ Shown(k, m).version = a
                 /\ Position(k, n) /\ Shown(k, n).version = b
      BY <1>1, <1>4, <1>5, <1>6, <2>1, <2>3
    <3>3. (\E k, m, n \in Nat : /\ Position(k, m) /\ Shown(k, m).version = a
                                /\ Position(k, n) /\ Shown(k, n).version = b)
             <=> Unbroken(a, {x \in Taken : x <= b})
      BY <1>2, <2>1, <2>3 DEF GroupInv, Grouped
    <3> QED BY <3>1, <3>2, <3>3
  <2> QED BY <1>1, <2>2, <2>3
<1> QED BY <1>12, <1>13 DEF GroupInv

LEMMA GroupInvariant == Spec => []GroupInv
<1>1. Init => GroupInv
  <2> SUFFICES ASSUME Init PROVE GroupInv
    OBVIOUS
  <2>1. Taken = {}
    BY DEF Init, Taken
  <2> QED BY <2>1 DEF GroupInv, OpenHoldsUnbroken, Grouped
<1>2. TypeOK /\ OrderInv /\ GroupInv /\ [Next]_vars => GroupInv'
  <2> SUFFICES ASSUME TypeOK, OrderInv, GroupInv, [Next]_vars PROVE GroupInv'
    OBVIOUS
  <2>1. ASSUME NEW v \in remaining, AddKeyless(v)
        PROVE  GroupInv'
    BY <2>1 DEF AddKeyless, GroupInv, OpenHoldsUnbroken, Grouped
  <2>2. CASE Finish
    <3>1. \A k, n \in Nat : /\ Position(k, n)' <=> Position(k, n)
                            /\ Position(k, n) => Shown(k, n)' = Shown(k, n)
      BY <2>2, PushClosed, SameShown DEF Finish
    <3>2. /\ Taken' = Taken /\ annotation' = annotation
          /\ phase = "loop" /\ phase' = "closed"
      BY <2>2 DEF Finish, Taken
    <3>3. Grouped'
      BY <3>1, <3>2 DEF GroupInv, Grouped, Unbroken, ShownAsLegacy
    <3> QED BY <3>2, <3>3 DEF GroupInv, OpenHoldsUnbroken
  <2>3. CASE UNCHANGED vars
    <3>1. /\ Taken' = Taken /\ annotation' = annotation /\ phase' = phase
          /\ Count' = Count /\ Open' = Open
      BY <2>3 DEF vars, Taken, Count, Open
    <3>2. \A k, n \in Nat : /\ Position(k, n)' <=> Position(k, n)
                            /\ Position(k, n) => Shown(k, n)' = Shown(k, n)
      BY <2>3, SameShown DEF vars
    <3>3. Grouped'
      BY <3>1, <3>2 DEF GroupInv, Grouped, Unbroken, ShownAsLegacy
    <3>4. \A a : InOpen(a)' <=> InOpen(a)
      BY <2>3 DEF vars, InOpen, Open, Count, Position, Shown, Entry
    <3>5. OpenHoldsUnbroken'
      BY <3>1, <3>4 DEF GroupInv, OpenHoldsUnbroken, Unbroken, ShownAsLegacy
    <3> QED BY <3>3, <3>5 DEF GroupInv
  <2> QED BY <2>1, <2>2, <2>3, GroupStep DEF Next
<1> QED BY <1>1, <1>2, TypeInvariant, OrderInvariant, PTL DEF Spec

\* Two versions share a submission on the history page exactly when nothing
\* that closes a submission lies between them, for any number of versions.
THEOREM VersionsGrouped == Spec => []GroupedBySubmission
<1>1. TypeOK /\ GroupInv => GroupedBySubmission
  <2> SUFFICES ASSUME TypeOK, GroupInv, phase # "raised",
                      NEW a \in Taken, NEW b \in Taken, a < b
               PROVE  Together(a, b) <=>
                        /\ \A x \in Taken : a <= x /\ x <= b => ~ShownAsLegacy(x)
                        /\ \A x \in Taken : a < x /\ x <= b => annotation[x] # "submission"
    BY DEF GroupedBySubmission
  <2>1. \A k : k \in 1..Count => /\ k \in Nat
                                 /\ \A n : n \in 1..Len(Entry(k).events) => n \in Nat
    OBVIOUS
  <2>2. Together(a, b) <=>
          \E k, m, n \in Nat : /\ Position(k, m) /\ Shown(k, m).version = a
                               /\ Position(k, n) /\ Shown(k, n).version = b
    BY <2>1 DEF Together, Position, Shown
  <2>3. Together(a, b) <=> Unbroken(a, {x \in Taken : x <= b})
    BY <2>2 DEF GroupInv, Grouped
  <2> QED BY <2>3 DEF Unbroken
<1> QED BY <1>1, TypeInvariant, GroupInvariant, PTL

-----------------------------------------------------------------------------
(***************************************************************************)
(* The numbers of the submissions.                                         *)
(***************************************************************************)

\* The k-th submission carries a number.
HasNumber(k) == Entry(k).type # "orphan"

NumberInv ==
    /\ \A k \in 1..Count : HasNumber(k) => Entry(k).number \in 1..submission_sequence_number
    /\ SubmissionsNumbered

\* A submission that carries the next number, or an orphan that leaves it.
Follows(e) ==
    \/ e.type = "orphan" /\ submission_sequence_number' = submission_sequence_number
    \/ /\ e.type # "orphan" /\ e.number = submission_sequence_number + 1
       /\ submission_sequence_number' = submission_sequence_number + 1

LEMMA NumberOne ==
    ASSUME TypeOK, NumberInv, NEW e \in Submission, Pushes(<<e>>), Follows(e)
    PROVE  NumberInv'
<1>1. Count \in Nat /\ submission_sequence_number \in Nat
  BY CountType DEF TypeOK
<1>2. \A k \in 1..Count : Entry(k) \in Submission /\ Entry(k)' = Entry(k)
  BY CountType DEF Pushes
<1>3. Len(<<e>>) = 1 /\ <<e>>[1] = e
  OBVIOUS
<1>4. Count' = Count + 1 /\ \A k \in {Count + 1} : Entry(k)' = e
  BY <1>1, <1>3 DEF Pushes
<1>5. \A k \in 1..Count' : k \in 1..Count \/ k = Count + 1
  BY <1>1, <1>4
<1>6. \A k \in 1..Count' : HasNumber(k)' =>
         /\ (Entry(k).number \in 1..submission_sequence_number)'
         /\ k \in 1..Count => HasNumber(k) /\ (Entry(k).number)' = Entry(k).number
         /\ k \notin 1..Count => (Entry(k).number)' = submission_sequence_number + 1
  BY <1>1, <1>2, <1>4, <1>5 DEF NumberInv, HasNumber, Follows
<1>7. \A j, k \in 1..Count' : j < k /\ HasNumber(j)' /\ HasNumber(k)'
         => (Entry(j).number)' < (Entry(k).number)'
  BY <1>1, <1>5, <1>6, <1>2, SMTT(60) DEF NumberInv, SubmissionsNumbered, HasNumber, Submission
<1>8. ASSUME NEW i \in 1..submission_sequence_number'
      PROVE  \E k \in 1..Count' : HasNumber(k)' /\ (Entry(k).number)' = i
  <2>1. CASE i \in 1..submission_sequence_number
    <3>1. PICK k \in 1..Count : HasNumber(k) /\ Entry(k).number = i
      BY <2>1 DEF NumberInv, SubmissionsNumbered, HasNumber
    <3> QED BY <1>1, <1>2, <1>4, <3>1 DEF HasNumber
  <2>2. CASE i \notin 1..submission_sequence_number
    <3>1. /\ i = submission_sequence_number + 1
          /\ e.type # "orphan" /\ e.number = submission_sequence_number + 1
      BY <1>1, <1>8, <2>2 DEF Follows
    <3>2. Count + 1 \in 1..Count'
      BY <1>1, <1>4
    <3> QED BY <1>4, <3>1, <3>2 DEF HasNumber
  <2> QED BY <2>1, <2>2
<1> QED BY <1>6, <1>7, <1>8 DEF NumberInv, SubmissionsNumbered, HasNumber

\* The two submissions of a version whose annotation cannot be read: the second
\* follows the first as if they had come one by one.
LEMMA NumberTwo ==
    ASSUME TypeOK, NumberInv, NEW e \in Submission, NEW f \in Submission, Pushes(<<e, f>>),
           NEW n \in Nat, n = submission_sequence_number + (IF e.type = "orphan" THEN 0 ELSE 1),
           e.type # "orphan" => e.number = n,
           f.type # "orphan" /\ f.number = n + 1 /\ submission_sequence_number' = n + 1
    PROVE  NumberInv'
<1>1. Count \in Nat /\ submission_sequence_number \in Nat
  BY CountType DEF TypeOK
<1>2. \A k \in 1..Count : Entry(k) \in Submission /\ Entry(k)' = Entry(k)
  BY CountType DEF Pushes
<1>3. Len(<<e, f>>) = 2 /\ <<e, f>>[1] = e /\ <<e, f>>[2] = f
  OBVIOUS
<1>4. Count' = Count + 2 /\ \A k \in {Count + 1} : Entry(k)' = e
  BY <1>1, <1>3 DEF Pushes
<1>5. \A k \in {Count + 2} : Entry(k)' = f
  BY <1>1, <1>3 DEF Pushes
<1>6. \A k \in 1..Count' : k \in 1..Count \/ k = Count + 1 \/ k = Count + 2
  BY <1>1, <1>4
<1>7. \A k \in 1..Count' : HasNumber(k)' =>
         /\ (Entry(k).number \in 1..submission_sequence_number)'
         /\ k \in 1..Count => HasNumber(k) /\ (Entry(k).number)' = Entry(k).number
         /\ k = Count + 1 => (Entry(k).number)' = submission_sequence_number + 1
         /\ k = Count + 2 => (Entry(k).number)' = n + 1
         /\ k = Count + 1 => n = submission_sequence_number + 1
  <2> SUFFICES ASSUME NEW k \in 1..Count', HasNumber(k)'
               PROVE  /\ (Entry(k).number)' \in 1..(n + 1)
                      /\ k \in 1..Count => HasNumber(k) /\ (Entry(k).number)' = Entry(k).number
                      /\ k = Count + 1 => (Entry(k).number)' = submission_sequence_number + 1
                      /\ k = Count + 2 => (Entry(k).number)' = n + 1
                      /\ k = Count + 1 => n = submission_sequence_number + 1
    OBVIOUS
  <2>1. CASE k \in 1..Count
    <3>1. Entry(k)' = Entry(k) /\ HasNumber(k)
      BY <1>2, <2>1 DEF HasNumber
    <3>2. Entry(k).number \in 1..submission_sequence_number
      BY <2>1, <3>1 DEF NumberInv
    <3>3. submission_sequence_number <= n
      BY <1>1
    <3> QED BY <1>1, <2>1, <3>1, <3>2, <3>3
  <2>2. CASE k = Count + 1
    <3>1. Entry(k)' = e /\ e.type # "orphan"
      BY <1>4, <2>2 DEF HasNumber
    <3> QED BY <1>1, <2>2, <3>1
  <2>3. CASE k = Count + 2
    BY <1>1, <1>5, <2>3
  <2> QED BY <1>6, <2>1, <2>2, <2>3
<1>8. \A j, k \in 1..Count' : j < k /\ HasNumber(j)' /\ HasNumber(k)'
         => (Entry(j).number)' < (Entry(k).number)'
  <2> SUFFICES ASSUME NEW j \in 1..Count', NEW k \in 1..Count', j < k,
                      HasNumber(j)', HasNumber(k)'
               PROVE  (Entry(j).number)' < (Entry(k).number)'
    OBVIOUS
  <2>1. CASE k \in 1..Count
    <3>1. j \in 1..Count /\ Entry(j)' = Entry(j) /\ Entry(k)' = Entry(k)
      BY <1>1, <1>2, <1>4, <2>1
    <3>2. Entry(j).type # "orphan" /\ Entry(k).type # "orphan"
      BY <3>1 DEF HasNumber
    <3>3. Entry(j).number < Entry(k).number
      BY <2>1, <3>1, <3>2 DEF NumberInv, SubmissionsNumbered
    <3> QED BY <3>1, <3>3
  <2>2. CASE k \notin 1..Count /\ j \in 1..Count
    <3>1. (Entry(j).number)' \in 1..submission_sequence_number
      BY <1>7, <2>2 DEF NumberInv
    <3>2. (Entry(k).number)' \in {submission_sequence_number + 1, n + 1}
      BY <1>6, <1>7, <2>2
    <3>3. submission_sequence_number <= n
      BY <1>1
    <3> QED BY <1>1, <3>1, <3>2, <3>3
  <2>3. CASE j \notin 1..Count
    <3>1. j = Count + 1 /\ k = Count + 2
      BY <1>1, <1>6, <2>3
    <3> QED BY <1>1, <1>7, <3>1
  <2> QED BY <1>1, <1>4, <2>1, <2>2, <2>3
<1>9. ASSUME NEW i \in 1..submission_sequence_number'
      PROVE  \E k \in 1..Count' : HasNumber(k)' /\ (Entry(k).number)' = i
  <2>1. CASE i \in 1..submission_sequence_number
    <3>1. PICK k \in 1..Count : HasNumber(k) /\ Entry(k).number = i
      BY <2>1 DEF NumberInv, SubmissionsNumbered, HasNumber
    <3> QED BY <1>1, <1>2, <1>4, <3>1 DEF HasNumber
  <2>2. CASE i \notin 1..submission_sequence_number
    <3>1. i = n + 1 \/ (i = n /\ e.type # "orphan" /\ e.number = n)
      BY <1>1, <1>9, <2>2
    <3>2. Count + 1 \in 1..Count' /\ Count + 2 \in 1..Count'
      BY <1>1, <1>4
    <3> QED BY <1>4, <1>5, <3>1, <3>2 DEF HasNumber
  <2> QED BY <2>1, <2>2
<1> QED BY <1>7, <1>8, <1>9 DEF NumberInv, SubmissionsNumbered, HasNumber

\* What neither adds a submission nor renames one.
LEMMA NumberSame ==
    ASSUME NumberInv, Count' = Count,
           submission_sequence_number' = submission_sequence_number,
           \A k \in 1..Count : /\ (Entry(k).type)' = Entry(k).type
                               /\ (Entry(k).number)' = Entry(k).number
    PROVE  NumberInv'
BY DEF NumberInv, SubmissionsNumbered, HasNumber

LEMMA ExtendKeeps ==
    ASSUME TypeOK, NEW ev, Extends(ev)
    PROVE  \A k \in 1..Count : /\ (Entry(k).type)' = Entry(k).type
                               /\ (Entry(k).number)' = Entry(k).number
<1>1. Count \in Nat /\ \A k \in 1..Count : Entry(k) \in Submission
  BY CountType
<1>2. \A k \in {Count} : /\ Entry(k) = submission
                         /\ Entry(k)' = [submission EXCEPT !.events = Append(@, ev)]
  BY DEF Extends
<1>3. submission \in Submission
  BY <1>1, <1>2 DEF Extends
<1>4. \A k \in {Count} : /\ (Entry(k).type)' = Entry(k).type
                         /\ (Entry(k).number)' = Entry(k).number
  BY <1>2, <1>3 DEF Submission
<1> QED BY <1>1, <1>4 DEF Extends

LEMMA NumberStep ==
    ASSUME TypeOK, NumberInv, NEW v \in remaining,
           \/ AddSubmission(v) \/ AddEvent(v) \/ AddLegacy(v)
           \/ AddBadSubmission(v) \/ AddBadEvent(v)
    PROVE  NumberInv'
<1> DEFINE n == submission_sequence_number
           Own == Numbered("structured", 1, <<EventOf(v)>>)
           Legacy == Numbered("legacy", 1, <<EventOf(v)>>)
<1>0. n \in Nat /\ <<EventOf(v)>> \in Seq(Event) /\ <<>> \in Seq(Event)
  BY VersionType DEF TypeOK
<1>1. CASE AddSubmission(v) /\ Pushes(<<Own>>)
  <2>1. Own \in Submission
    BY <1>0, NewEntries
  <2>2. Follows(Own)
    BY <1>1 DEF AddSubmission, Follows, Numbered
  <2> HIDE DEF Own
  <2> QED BY <1>1, <2>1, <2>2, NumberOne
<1>2. CASE AddEvent(v) /\ Pushes(<<Orphan(<<EventOf(v)>>)>>)
  <2>1. Orphan(<<EventOf(v)>>) \in Submission /\ Follows(Orphan(<<EventOf(v)>>))
    BY <1>0, <1>2, NewEntries DEF AddEvent, Follows, Orphan
  <2> QED BY <1>2, <2>1, NumberOne
<1>3. CASE AddEvent(v) /\ Extends(EventOf(v))
  BY <1>3, ExtendKeeps, NumberSame DEF AddEvent, Extends
<1>4. CASE (AddLegacy(v) \/ AddBadEvent(v)) /\ Pushes(<<Legacy>>)
  <2>1. Legacy \in Submission
    BY <1>0, NewEntries
  <2>2. Follows(Legacy)
    BY <1>4 DEF AddLegacy, AddBadEvent, Follows, Numbered
  <2> HIDE DEF Legacy
  <2> QED BY <1>4, <2>1, <2>2, NumberOne
<1>5. CASE /\ AddBadSubmission(v)
           /\ Pushes(<<Numbered("structured", 1, <<>>), Numbered("legacy", 2, <<EventOf(v)>>)>>)
  <2> DEFINE e == Numbered("structured", 1, <<>>)
             f == Numbered("legacy", 2, <<EventOf(v)>>)
  <2>1. e \in Submission /\ f \in Submission
    BY <1>0, NewEntries
  <2>2. /\ e.type # "orphan" /\ e.number = n + 1 /\ f.type # "orphan" /\ f.number = n + 2
        /\ submission_sequence_number' = n + 2 /\ Pushes(<<e, f>>)
    BY <1>5 DEF AddBadSubmission, Numbered
  <2> HIDE DEF e, f
  <2>3. n + 1 \in Nat /\ n + 2 = (n + 1) + 1
    BY <1>0
  <2> QED BY <2>1, <2>2, <2>3, NumberTwo
<1>6. CASE AddBadEvent(v) /\ Pushes(<<Orphan(<<>>), Legacy>>)
  <2> DEFINE e == Orphan(<<>>)
  <2>1. e \in Submission /\ Legacy \in Submission
    BY <1>0, NewEntries
  <2>2. /\ e.type = "orphan" /\ Legacy.type # "orphan" /\ Legacy.number = n + 1
        /\ submission_sequence_number' = n + 1 /\ Pushes(<<e, Legacy>>)
    BY <1>6 DEF AddBadEvent, Numbered, Orphan
  <2> HIDE DEF e, Legacy
  <2>3. n = n + 0
    BY <1>0
  <2> QED BY <1>0, <2>1, <2>2, <2>3, NumberTwo
<1> QED BY <1>1, <1>2, <1>3, <1>4, <1>5, <1>6, StepShape

LEMMA NumberInvariant == Spec => []NumberInv
<1>1. Init => NumberInv
  BY DEF Init, NumberInv, SubmissionsNumbered, Count, Open
<1>2. TypeOK /\ NumberInv /\ [Next]_vars => NumberInv'
  <2> SUFFICES ASSUME TypeOK, NumberInv, [Next]_vars PROVE NumberInv'
    OBVIOUS
  <2>1. ASSUME NEW v \in remaining, AddKeyless(v) PROVE NumberInv'
    <3>1. UNCHANGED <<structured_history, submission, submission_sequence_number>>
      BY <2>1 DEF AddKeyless
    <3> QED BY <3>1, NumberSame DEF Count, Open, Entry
  <2>2. CASE Finish
    <3>1. Pushes(<<>>)
      BY <2>2, PushClosed DEF Finish
    <3>2. Len(<<>>) = 0 /\ Count \in Nat
      BY CountType
    <3>3. Count' = Count /\ \A k \in 1..Count : Entry(k)' = Entry(k)
      BY <3>1, <3>2 DEF Pushes
    <3> QED BY <2>2, <3>3, NumberSame DEF Finish
  <2>3. CASE UNCHANGED vars
    BY <2>3, NumberSame DEF vars, Count, Open, Entry
  <2> QED BY <2>1, <2>2, <2>3, NumberStep DEF Next
<1> QED BY <1>1, <1>2, TypeInvariant, PTL DEF Spec

\* The submissions that the page shows are numbered 1, 2, 3 and so on from top
\* to bottom, for any number of versions and whichever branches opened them.
THEOREM Numbering == Spec => []SubmissionsNumbered
<1>1. NumberInv => SubmissionsNumbered
  BY DEF NumberInv
<1> QED BY <1>1, NumberInvariant, PTL

-----------------------------------------------------------------------------
(***************************************************************************)
(* The orphans.                                                            *)
(***************************************************************************)

HoldsNoSubmission(e) ==
    \A n \in 1..Len(e.events) : annotation[e.events[n].version] # "submission"

\* The list may go on with e.
Fits(e) ==
    e.type = "orphan" =>
       /\ \A k \in 1..Count : k = Count => Entry(k).type = "legacy"
       /\ HoldsNoSubmission(e)

\* While versions are taken in and no submission is open, the last one shown is
\* a legacy version.
BreakBefore ==
    phase = "loop" /\ ~Open => \A k \in 1..Count : k = Count => Entry(k).type = "legacy"

OrphanInv == BreakBefore /\ OrphansFollowBreak

LEMMA OrphanPush ==
    ASSUME TypeOK, OrphansFollowBreak, annotation' = annotation,
           NEW K \in Nat, K = Count + 1, Count' >= K,
           \A k \in 1..Count : Entry(k)' = Entry(k),
           Entry(K)' \in Submission, Fits(Entry(K)'),
           \A k \in 1..Count' : k > K => (Entry(k).type)' # "orphan"
    PROVE  OrphansFollowBreak'
<1>1. Count \in Nat
  BY CountType
<1> SUFFICES ASSUME NEW k \in 1..Count', (Entry(k).type)' = "orphan"
             PROVE  /\ k = 1 \/ (Entry(k - 1).type)' = "legacy"
                    /\ HoldsNoSubmission(Entry(k))'
  BY DEF OrphansFollowBreak, HoldsNoSubmission
<1>2. CASE k \in 1..Count
  <2>1. Entry(k)' = Entry(k) /\ (k # 1 => Entry(k - 1)' = Entry(k - 1))
    BY <1>1, <1>2
  <2>2. /\ k = 1 \/ Entry(k - 1).type = "legacy"
        /\ HoldsNoSubmission(Entry(k))
    BY <1>2, <2>1 DEF OrphansFollowBreak, HoldsNoSubmission
  <2> QED BY <2>1, <2>2 DEF HoldsNoSubmission
<1>3. CASE k = K
  <2>1. /\ \A j \in 1..Count : j = Count => Entry(j).type = "legacy"
        /\ HoldsNoSubmission(Entry(k)')
    BY <1>3 DEF Fits
  <2>2. k # 1 => Count \in 1..Count /\ k - 1 = Count
    BY <1>1, <1>3
  <2>3. k # 1 => (Entry(k - 1).type)' = "legacy"
    BY <2>1, <2>2
  <2> QED BY <2>1, <2>3 DEF HoldsNoSubmission
<1> QED BY <1>1, <1>2, <1>3

LEMMA OrphanOne ==
    ASSUME TypeOK, OrphansFollowBreak, annotation' = annotation,
           NEW e \in Submission, Pushes(<<e>>), Fits(e)
    PROVE  /\ OrphansFollowBreak'
           /\ \A k \in 1..Count' : k = Count' => Entry(k)' = e
<1>1. Count \in Nat /\ Len(<<e>>) = 1 /\ <<e>>[1] = e
  BY CountType
<1>2. /\ Count' = Count + 1 /\ \A k \in 1..Count : Entry(k)' = Entry(k)
      /\ \A k \in {Count + 1} : Entry(k)' = e
  BY <1>1 DEF Pushes
<1>3. \A K \in Nat : K = Count + 1 => Entry(K)' = e
  BY <1>2
<1>4. ASSUME NEW K \in Nat, K = Count + 1 PROVE OrphansFollowBreak'
  BY <1>1, <1>2, <1>3, <1>4, OrphanPush
<1> QED BY <1>1, <1>2, <1>4

LEMMA OrphanTwo ==
    ASSUME TypeOK, OrphansFollowBreak, annotation' = annotation,
           NEW e \in Submission, NEW f \in Submission, Pushes(<<e, f>>),
           Fits(e), f.type # "orphan"
    PROVE  /\ OrphansFollowBreak'
           /\ \A k \in 1..Count' : k = Count' => Entry(k)' = f
<1>1. Count \in Nat /\ Len(<<e, f>>) = 2 /\ <<e, f>>[1] = e /\ <<e, f>>[2] = f
  BY CountType
<1>2. /\ Count' = Count + 2 /\ \A k \in 1..Count : Entry(k)' = Entry(k)
      /\ \A k \in {Count + 1} : Entry(k)' = e
  BY <1>1 DEF Pushes
<1>3. \A k \in {Count + 2} : Entry(k)' = f
  BY <1>1 DEF Pushes
<1>4. ASSUME NEW K \in Nat, K = Count + 1 PROVE OrphansFollowBreak'
  <2>1. Entry(K)' = e /\ Count' >= K
    BY <1>1, <1>2, <1>4
  <2>2. \A k \in 1..Count' : k > K => (Entry(k).type)' # "orphan"
    BY <1>1, <1>2, <1>3, <1>4
  <2> QED BY <1>2, <1>4, <2>1, <2>2, OrphanPush
<1> QED BY <1>1, <1>2, <1>3, <1>4

LEMMA OrphanExtend ==
    ASSUME TypeOK, OrphansFollowBreak, annotation' = annotation,
           NEW ev \in Event, Extends(ev), annotation[ev.version] # "submission"
    PROVE  OrphansFollowBreak'
<1>1. Count \in Nat /\ \A k \in 1..Count : Entry(k) \in Submission
  BY CountType
<1>2. Count' = Count /\ \A k \in 1..Count : (Entry(k).type)' = Entry(k).type
  BY ExtendKeeps DEF Extends
<1>3. \A k \in 1..Count : k # Count => Entry(k)' = Entry(k)
  BY <1>1 DEF Extends
<1>4. \A k \in 1..Count : k = Count => (Entry(k).events)' = Append(Entry(k).events, ev)
  <2>1. \A k \in {Count} : /\ Entry(k) = submission
                           /\ Entry(k)' = [submission EXCEPT !.events = Append(@, ev)]
    BY DEF Extends
  <2> QED BY <1>1, <2>1 DEF Submission
<1>5. \A k \in 1..Count : HoldsNoSubmission(Entry(k)) => HoldsNoSubmission(Entry(k))'
  <2> SUFFICES ASSUME NEW k \in 1..Count, HoldsNoSubmission(Entry(k)),
                      NEW n \in 1..Len((Entry(k).events)')
               PROVE  annotation[(Entry(k).events)'[n].version] # "submission"
    BY DEF HoldsNoSubmission
  <2>1. CASE k = Count
    <3> DEFINE events == Entry(k).events
    <3>1. events \in Seq(Event) /\ (Entry(k).events)' = Append(events, ev)
      BY <1>1, <1>4, <2>1 DEF Submission
    <3>2. n \in 1..(Len(events) + 1)
      BY <3>1
    <3>3. Append(events, ev)[n] = IF n = Len(events) + 1 THEN ev ELSE events[n]
      BY <3>1, <3>2
    <3>4. n # Len(events) + 1 => n \in 1..Len(events)
      BY <3>1, <3>2
    <3> QED BY <3>1, <3>3, <3>4 DEF HoldsNoSubmission
  <2>2. CASE k # Count
    BY <1>3, <2>2 DEF HoldsNoSubmission
  <2> QED BY <2>1, <2>2
<1>6. \A k \in 1..Count : k # 1 => k - 1 \in 1..Count
  BY <1>1
<1> QED BY <1>2, <1>5, <1>6 DEF OrphansFollowBreak, HoldsNoSubmission

LEMMA OrphanStep ==
    ASSUME TypeOK, OrphanInv, NEW v \in remaining,
           \/ AddSubmission(v) \/ AddEvent(v) \/ AddLegacy(v)
           \/ AddBadSubmission(v) \/ AddBadEvent(v)
    PROVE  OrphanInv'
<1> DEFINE Own == Numbered("structured", 1, <<EventOf(v)>>)
           Legacy == Numbered("legacy", 1, <<EventOf(v)>>)
<1>0. /\ <<EventOf(v)>> \in Seq(Event) /\ <<>> \in Seq(Event) /\ EventOf(v) \in Event
      /\ OrphansFollowBreak
  BY VersionType DEF OrphanInv
<1>1. /\ annotation' = annotation /\ phase' = "loop" /\ phase = "loop"
      /\ Open' <=> ~ShownAsLegacy(v)
      /\ AddEvent(v) => annotation[v] = "event"
  BY OpenAfter
<1>2. ~Open => \A k \in 1..Count : k = Count => Entry(k).type = "legacy"
  BY <1>1 DEF OrphanInv, BreakBefore
<1>3. CASE AddSubmission(v) /\ Pushes(<<Own>>)
  <2>1. Own \in Submission /\ Fits(Own)
    BY <1>0, NewEntries DEF Fits, Numbered
  <2>2. Open'
    BY <1>1, <1>3 DEF AddSubmission, Turn, ShownAsLegacy
  <2> HIDE DEF Own
  <2> QED BY <1>0, <1>1, <1>3, <2>1, <2>2, OrphanOne DEF OrphanInv, BreakBefore
<1>4. CASE AddEvent(v) /\ ~Open /\ Pushes(<<Orphan(<<EventOf(v)>>)>>)
  <2> DEFINE e == Orphan(<<EventOf(v)>>)
  <2>1. e \in Submission
    BY <1>0, NewEntries
  <2>2. HoldsNoSubmission(e)
    BY <1>1, <1>4 DEF HoldsNoSubmission, Orphan, EventOf
  <2>3. Fits(e)
    BY <1>2, <1>4, <2>2 DEF Fits
  <2>4. Open'
    BY <1>1, <1>4 DEF ShownAsLegacy
  <2> HIDE DEF e
  <2>5. Pushes(<<e>>)
    BY <1>4 DEF e
  <2> QED BY <1>0, <1>1, <2>1, <2>3, <2>4, <2>5, OrphanOne DEF OrphanInv, BreakBefore
<1>5. CASE AddEvent(v) /\ Open /\ Extends(EventOf(v))
  <2>1. Open' /\ annotation[EventOf(v).version] # "submission"
    BY <1>1, <1>5 DEF ShownAsLegacy, EventOf
  <2> QED BY <1>0, <1>1, <1>5, <2>1, OrphanExtend DEF OrphanInv, BreakBefore
<1>6. CASE Pushes(<<Legacy>>)
  <2>1. Legacy \in Submission /\ Fits(Legacy) /\ Legacy.type = "legacy"
    BY <1>0, NewEntries DEF Fits, Numbered
  <2> HIDE DEF Legacy
  <2> QED BY <1>0, <1>1, <1>6, <2>1, OrphanOne DEF OrphanInv, BreakBefore
<1>7. CASE Pushes(<<Numbered("structured", 1, <<>>), Numbered("legacy", 2, <<EventOf(v)>>)>>)
  <2> DEFINE e == Numbered("structured", 1, <<>>)
             f == Numbered("legacy", 2, <<EventOf(v)>>)
  <2>1. e \in Submission /\ f \in Submission /\ Fits(e) /\ f.type = "legacy"
    BY <1>0, NewEntries DEF Fits, Numbered
  <2>2. Pushes(<<e, f>>)
    BY <1>7
  <2> HIDE DEF e, f
  <2> QED BY <1>0, <1>1, <2>1, <2>2, OrphanTwo DEF OrphanInv, BreakBefore
<1>8. CASE ~Open /\ Pushes(<<Orphan(<<>>), Legacy>>)
  <2> DEFINE e == Orphan(<<>>)
  <2>1. e \in Submission /\ Legacy \in Submission /\ Legacy.type = "legacy"
    BY <1>0, NewEntries DEF Numbered
  <2>2. HoldsNoSubmission(e)
    BY DEF HoldsNoSubmission, Orphan
  <2>3. Fits(e) /\ Pushes(<<e, Legacy>>)
    BY <1>2, <1>8, <2>2 DEF Fits
  <2> HIDE DEF e, Legacy
  <2> QED BY <1>0, <1>1, <2>1, <2>3, OrphanTwo DEF OrphanInv, BreakBefore
<1> QED BY <1>3, <1>4, <1>5, <1>6, <1>7, <1>8, StepShape

\* What is shown stays as it is.
LEMMA OrphanSame ==
    ASSUME OrphansFollowBreak, annotation' = annotation, Count' = Count, Count \in Nat,
           \A k \in 1..Count : Entry(k)' = Entry(k)
    PROVE  OrphansFollowBreak'
<1>1. \A k \in 1..Count : k # 1 => k - 1 \in 1..Count
  OBVIOUS
<1> QED BY <1>1 DEF OrphansFollowBreak

LEMMA OrphanInvariant == Spec => []OrphanInv
<1>1. Init => OrphanInv
  BY DEF Init, OrphanInv, BreakBefore, OrphansFollowBreak, Count, Open
<1>2. TypeOK /\ OrphanInv /\ [Next]_vars => OrphanInv'
  <2> SUFFICES ASSUME TypeOK, OrphanInv, [Next]_vars PROVE OrphanInv'
    OBVIOUS
  <2>0. Count \in Nat /\ OrphansFollowBreak
    BY CountType DEF OrphanInv
  <2>1. ASSUME NEW v \in remaining, AddKeyless(v) PROVE OrphanInv'
    <3>1. UNCHANGED <<structured_history, submission, annotation>> /\ phase' = "raised"
      BY <2>1 DEF AddKeyless, Turn
    <3>2. Count' = Count /\ \A k \in 1..Count : Entry(k)' = Entry(k)
      BY <3>1 DEF Count, Open, Entry
    <3> QED BY <2>0, <3>1, <3>2, OrphanSame DEF OrphanInv, BreakBefore
  <2>2. CASE Finish
    <3>1. Pushes(<<>>) /\ phase' = "closed" /\ annotation' = annotation
      BY <2>2, PushClosed DEF Finish
    <3>2. Len(<<>>) = 0
      OBVIOUS
    <3>3. Count' = Count /\ \A k \in 1..Count : Entry(k)' = Entry(k)
      BY <2>0, <3>1, <3>2 DEF Pushes
    <3> QED BY <2>0, <3>1, <3>3, OrphanSame DEF OrphanInv, BreakBefore
  <2>3. CASE UNCHANGED vars
    BY <2>3 DEF vars, OrphanInv, BreakBefore, OrphansFollowBreak, Count, Open, Entry
  <2> QED BY <2>1, <2>2, <2>3, OrphanStep DEF Next
<1> QED BY <1>1, <1>2, TypeInvariant, PTL DEF Spec

\* An event becomes an orphan only after a break in the structured history, and
\* no orphan holds a submission, for any number of versions.
THEOREM OrphansExplained == Spec => []OrphansFollowBreak
<1>1. OrphanInv => OrphansFollowBreak
  BY DEF OrphanInv
<1> QED BY <1>1, OrphanInvariant, PTL

=============================================================================
