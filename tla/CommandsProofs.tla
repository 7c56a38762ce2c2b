---------------------------- MODULE CommandsProofs ----------------------------
(***************************************************************************)
(* What a bulk reparse run promises, for every max_try and max_parse; what *)
(* the end of assign_missing_fclids tells, for every number of documents   *)
(* and whichever are refused; and that neither depends on the other        *)
(* commands.                                                               *)
(***************************************************************************)
EXTENDS Commands, FiniteSetTheorems, TLAPS

-----------------------------------------------------------------------------
(***************************************************************************)
(* The bulk reparse.                                                       *)
(***************************************************************************)

\* The row, or the log, of a run that goes on.
Open(r) == r \in Log!Row /\ r.status = "started" /\ ~r.ended

\* No more documents are dealt with than were selected, nor than the limit
\* allows: the first, and then max_parse in all.
Within(r) ==
    /\ IF r.selected = Log!Null THEN Log!Total(r) = 0 ELSE Log!Total(r) <= r.selected
    /\ IF max_parse = 0 THEN Log!Total(r) <= 1 ELSE r.attempted <= max_parse

\* The documents that were sent, against a row: one may have been missed.
Told(r) == r.attempted <= sent /\ sent <= r.attempted + 1

\* The row is the log, or one call behind it.
Behind(r, log) == r = log \/ Log!Progress(r, log)

StartInv == pc = "start" => saved = Log!NoRow /\ run_log = Log!Created

SelectInv == pc = "select" => saved = run_log /\ run_log = Log!Created /\ sent = 0

NextInv ==
    pc = "next" =>
        /\ saved = run_log
        /\ Open(run_log)
        /\ run_log.selected # Log!Null
        /\ batch = run_log.selected - Log!Total(run_log)
        /\ Log!Total(run_log) = 0 \/ run_log.attempted < max_parse
        /\ sent = run_log.attempted

RecordInv ==
    pc = "record" =>
        /\ Open(saved) /\ Open(run_log)
        /\ run_log.selected # Log!Null
        /\ saved.selected = run_log.selected
        /\ Behind(saved, run_log)
        /\ Log!Total(run_log) > 0
        /\ batch = run_log.selected - Log!Total(run_log)
        /\ sent = run_log.attempted

CloseInv ==
    pc = "close" =>
        /\ Open(saved)
        /\ ~run_log.ended
        /\ Behind(saved, [run_log EXCEPT !.status = "started"])
        /\ run_log.status = "finished" =>
              /\ saved = [run_log EXCEPT !.status = "started"]
              /\ Log!Complete(saved)
              /\ sent = run_log.attempted
        /\ Told(run_log)

RowInv ==
    /\ Within(run_log)
    /\ saved = Log!NoRow => sent = 0
    /\ saved # Log!NoRow =>
          /\ Within(saved)
          /\ Told(saved)
          /\ saved.status = "finished" =>
                saved.ended /\ Log!Complete(saved) /\ sent = saved.attempted

Inv ==
    /\ StartInv /\ SelectInv /\ NextInv /\ RecordInv /\ CloseInv
    /\ RowInv
    /\ SendsBounded

-----------------------------------------------------------------------------
(***************************************************************************)
(* Types.                                                                  *)
(***************************************************************************)

LEMMA CreatedType == Log!Created \in Log!Row /\ Log!Created # Log!NoRow
BY DEF Log!Created, Log!Row, Log!RunStatus, Log!Null, Log!NoRow

\* What the command does to its log keeps it a log.
LEMMA LogTypes ==
    ASSUME NEW r \in Log!Row
    PROVE  /\ \A n \in Nat : [r EXCEPT !.selected = n] \in Log!Row
           /\ [r EXCEPT !.attempted = @ + 1] \in Log!Row
           /\ [r EXCEPT !.skipped = @ + 1] \in Log!Row
           /\ [r EXCEPT !.failed = @ + 1] \in Log!Row
           /\ \A st \in Log!RunStatus : [r EXCEPT !.status = st] \in Log!Row
           /\ [r EXCEPT !.ended = TRUE] \in Log!Row
           /\ r # Log!NoRow
<1>0. /\ r = [status |-> r.status, ended |-> r.ended, selected |-> r.selected,
               attempted |-> r.attempted, skipped |-> r.skipped, failed |-> r.failed]
      /\ r.status \in Log!RunStatus /\ r.ended \in BOOLEAN
      /\ r.selected \in Nat \cup {Log!Null}
      /\ r.attempted \in Nat /\ r.skipped \in Nat /\ r.failed \in Nat
  BY DEF Log!Row
<1>1. /\ \A n \in Nat : [r EXCEPT !.selected = n] \in Log!Row
      /\ \A st \in Log!RunStatus : [r EXCEPT !.status = st] \in Log!Row
      /\ [r EXCEPT !.ended = TRUE] \in Log!Row
  BY <1>0 DEF Log!Row
<1>2. /\ [r EXCEPT !.attempted = r.attempted + 1] \in Log!Row
      /\ [r EXCEPT !.skipped = r.skipped + 1] \in Log!Row
      /\ [r EXCEPT !.failed = r.failed + 1] \in Log!Row
  BY <1>0 DEF Log!Row
<1>3. r # Log!NoRow
  BY DEF Log!Row, Log!NoRow
<1> QED BY <1>1, <1>2, <1>3

LEMMA FailType ==
    ASSUME TypeOK, NEW log \in Log!Row, NEW rows \in SUBSET (Log!Row \cup {Log!NoRow}),
           Fail(log, rows)
    PROVE  /\ run_log' \in Log!Row /\ saved' \in Log!Row \cup {Log!NoRow}
           /\ pc' \in Place /\ max_parse' \in 0..MaxParse
<1>1. [log EXCEPT !.status = "failed"] \in Log!Row
  BY LogTypes DEF Log!RunStatus
<1> QED BY <1>1 DEF Fail, Go, Place, TypeOK

\* Every variable of the run keeps its type.
THEOREM TypeCorrect == Spec => []TypeOK
<1>1. Init => TypeOK
  BY CreatedType, LimitsAssumption DEF Init, TypeOK, Place
<1>2. TypeOK /\ [Next]_vars => TypeOK'
  <2> SUFFICES ASSUME TypeOK, [Next]_vars PROVE TypeOK'
    OBVIOUS
  <2>0. MaxTry \in Nat /\ MaxParse \in Nat
    BY LimitsAssumption
  <2>1. CASE CreateLog
    BY <2>1 DEF CreateLog, Go, TypeOK, Place
  <2>2. CASE Select
    <3>1. \A n \in 0..MaxTry : [run_log EXCEPT !.selected = n] \in Log!Row
      BY <2>0, LogTypes, 0..MaxTry \subseteq Nat DEF TypeOK
    <3>2. CASE \E n \in 0..MaxTry : Fail([run_log EXCEPT !.selected = n],
                                         {saved, [run_log EXCEPT !.selected = n]})
                                    /\ batch' = n /\ UNCHANGED sent
      BY <3>1, <3>2, FailType DEF TypeOK
    <3>3. CASE Fail(run_log, {saved}) /\ UNCHANGED <<batch, sent>>
      BY <3>3, FailType DEF TypeOK
    <3>4. CASE \E n \in 0..MaxTry : /\ run_log' = [run_log EXCEPT !.selected = n]
                                    /\ saved' = [run_log EXCEPT !.selected = n]
                                    /\ batch' = n /\ Go("next") /\ UNCHANGED sent
      BY <3>1, <3>4 DEF TypeOK, Go, Place
    <3> QED BY <2>2, <3>2, <3>3, <3>4 DEF Select, BatchOf
  <2>3. CASE Reparse
    <3>1. batch' \in 0..MaxTry
      BY <2>0, <2>3 DEF Reparse, TypeOK
    <3>2. CASE Counted
      <4>1. run_log \in Log!Row /\ sent \in Nat
        BY DEF TypeOK
      <4>2. run_log' \in {[run_log EXCEPT !.attempted = @ + 1],
                          [run_log EXCEPT !.skipped = @ + 1],
                          [run_log EXCEPT !.failed = @ + 1]}
        BY <3>2, Zenon DEF Counted
      <4>3. run_log' \in Log!Row
        BY <4>1, <4>2, LogTypes, Zenon
      <4>4. sent' \in Nat /\ saved' = saved /\ pc' = "record" /\ max_parse' = max_parse
        BY <3>2, <4>1 DEF Counted, Go
      <4> QED BY <3>1, <4>3, <4>4 DEF TypeOK, Place
    <3>3. CASE Uncounted
      BY <3>1, <3>3, FailType DEF Uncounted, TypeOK
    <3> QED BY <2>3, <3>2, <3>3 DEF Reparse
  <2>4. CASE Record
    <3>1. CASE Fail(run_log, {saved, run_log}) /\ UNCHANGED <<batch, sent>>
      BY <3>1, FailType DEF TypeOK
    <3>2. CASE /\ saved' = run_log /\ UNCHANGED <<batch, sent>>
               /\ Finished \/ (UNCHANGED run_log /\ Go("next"))
      BY <3>2, LogTypes DEF Finished, Go, TypeOK, Place, Log!RunStatus
    <3> QED BY <2>4, <3>1, <3>2 DEF Record
  <2>5. CASE Exhausted
    BY <2>5, LogTypes DEF Exhausted, Finished, Go, TypeOK, Place, Log!RunStatus
  <2>6. CASE Close
    BY <2>6, LogTypes DEF Close, Go, TypeOK, Place
  <2>7. CASE Interrupt \/ Kill
    BY <2>7 DEF Interrupt, Kill, Go, TypeOK, Place
  <2>8. CASE UNCHANGED vars
    BY <2>8 DEF vars, TypeOK
  <2> QED BY <2>1, <2>2, <2>3, <2>4, <2>5, <2>6, <2>7, <2>8 DEF Next
<1> QED BY <1>1, <1>2, PTL DEF Spec

-----------------------------------------------------------------------------
(***************************************************************************)
(* The inductive invariant.                                                *)
(***************************************************************************)

\* The fields of a log, after what the command does to it.
LEMMA LogFields ==
    ASSUME NEW r \in Log!Row, NEW s
    PROVE  /\ \A n \in Nat : s = [r EXCEPT !.selected = n] =>
                 /\ s.selected = n
                 /\ s.status = r.status /\ s.ended = r.ended
                 /\ s.attempted = r.attempted /\ s.skipped = r.skipped /\ s.failed = r.failed
           /\ \A st : s = [r EXCEPT !.status = st] =>
                 /\ s.status = st
                 /\ s.ended = r.ended /\ s.selected = r.selected
                 /\ s.attempted = r.attempted /\ s.skipped = r.skipped /\ s.failed = r.failed
           /\ s = [r EXCEPT !.ended = TRUE] =>
                 /\ s.ended
                 /\ s.status = r.status /\ s.selected = r.selected
                 /\ s.attempted = r.attempted /\ s.skipped = r.skipped /\ s.failed = r.failed
BY DEF Log!Row

LEMMA CountFields ==
    ASSUME NEW r \in Log!Row, NEW s,
           s \in {[r EXCEPT !.attempted = @ + 1], [r EXCEPT !.skipped = @ + 1],
                  [r EXCEPT !.failed = @ + 1]}
    PROVE  /\ s.status = r.status /\ s.ended = r.ended /\ s.selected = r.selected
           /\ Log!Total(s) = Log!Total(r) + 1
           /\ s.attempted = IF s = [r EXCEPT !.attempted = @ + 1] THEN r.attempted + 1
                                                                  ELSE r.attempted
<1>0. /\ r.attempted \in Nat /\ r.skipped \in Nat /\ r.failed \in Nat
      /\ r.selected \in Nat \cup {Log!Null}
  BY DEF Log!Row
<1>1. CASE s = [r EXCEPT !.attempted = @ + 1]
  BY <1>0, <1>1 DEF Log!Row, Log!Total
<1>2. CASE s = [r EXCEPT !.skipped = @ + 1]
  <2>1. s.attempted = r.attempted
    BY <1>2 DEF Log!Row
  <2>2. s # [r EXCEPT !.attempted = @ + 1]
    BY <1>0, <2>1 DEF Log!Row
  <2> QED BY <1>0, <1>2, <2>1, <2>2 DEF Log!Row, Log!Total
<1>3. CASE s = [r EXCEPT !.failed = @ + 1]
  <2>1. s.attempted = r.attempted
    BY <1>3 DEF Log!Row
  <2>2. s # [r EXCEPT !.attempted = @ + 1]
    BY <1>0, <2>1 DEF Log!Row
  <2> QED BY <1>0, <1>3, <2>1, <2>2 DEF Log!Row, Log!Total
<1> QED BY <1>1, <1>2, <1>3

\* Writing an exempt field back gives the log back.
LEMMA Restart ==
    ASSUME NEW r \in Log!Row, r.status = "started", NEW st
    PROVE  [[r EXCEPT !.status = st] EXCEPT !.status = "started"] = r
BY DEF Log!Row

LEMMA InitInv == Init => Inv
BY LimitsAssumption DEF Init, Inv, StartInv, SelectInv, NextInv, RecordInv, CloseInv, RowInv,
       SendsBounded, Within, Log!Created, Log!NoRow, Log!Null, Log!Total

LEMMA CreateLogInv == TypeOK /\ Inv /\ CreateLog => Inv'
<1> SUFFICES ASSUME TypeOK, Inv, CreateLog PROVE Inv'
  OBVIOUS
<1>1. /\ run_log' = Log!Created /\ run_log = Log!Created
      /\ saved' \in {Log!Created, Log!NoRow} /\ saved = Log!NoRow
      /\ sent' = 0 /\ max_parse' = max_parse
      /\ pc' = "select" => saved' = Log!Created
      /\ pc' \in {"select", "dead"}
  BY DEF CreateLog, Go, Inv, StartInv, RowInv
<1>2. /\ Log!Created.attempted = 0 /\ Log!Created.status = "started"
      /\ Log!Created.selected = Log!Null /\ Log!Total(Log!Created) = 0
  BY DEF Log!Created, Log!Total
<1>3. max_parse \in Nat
  BY LimitsAssumption DEF TypeOK
<1>4. Within(run_log)' /\ (saved' # Log!NoRow => Within(saved)')
  BY <1>1, <1>2, <1>3 DEF Within
<1> QED BY <1>1, <1>2, <1>3, <1>4 DEF Inv, StartInv, SelectInv, NextInv, RecordInv, CloseInv,
       RowInv, SendsBounded, Told

LEMMA InterruptInv == TypeOK /\ Inv /\ Interrupt => Inv'
<1> SUFFICES ASSUME TypeOK, Inv, Interrupt PROVE Inv'
  OBVIOUS
<1>1. /\ pc \in {"select", "next", "record"} /\ pc' = "close"
      /\ UNCHANGED <<max_parse, batch, run_log, saved, sent>>
  BY DEF Interrupt, Go
<1>2. /\ Open(saved) /\ Open(run_log) /\ Behind(saved, run_log)
      /\ Told(run_log)
  <2>1. CASE pc = "select"
    <3>1. Log!Created.status = "started" /\ ~Log!Created.ended
      BY DEF Log!Created
    <3> QED BY <2>1, <3>1, CreatedType DEF Inv, SelectInv, RowInv, Open, Behind, Told
  <2>2. CASE pc = "next"
    BY <2>2 DEF Inv, NextInv, RowInv, Open, Behind, Told, Log!Row
  <2>3. CASE pc = "record"
    BY <2>3 DEF Inv, RecordInv, RowInv, Open, Behind, Told, Log!Row
  <2> QED BY <1>1, <2>1, <2>2, <2>3
<1>3. [run_log EXCEPT !.status = "started"] = run_log
  BY <1>2 DEF Open, Log!Row
<1>4. CloseInv'
  BY <1>1, <1>2, <1>3 DEF CloseInv, Open, Behind, Told, Log!Progress, Log!More
<1> QED BY <1>1, <1>4 DEF Inv, StartInv, SelectInv, NextInv, RecordInv, RowInv,
       SendsBounded, Within, Told, Log!Complete, Log!More

LEMMA KillInv == TypeOK /\ Inv /\ Kill => Inv'
BY DEF Kill, Go, Inv, StartInv, SelectInv, NextInv, RecordInv, CloseInv, RowInv,
       SendsBounded, Within, Told, Log!Complete, Log!More

\* An exception that the command catches, with a row that may be behind.
LEMMA FailStep ==
    ASSUME TypeOK, NEW log \in Log!Row, NEW rows, Fail(log, rows),
           Open(log), Within(log),
           log.attempted <= sent', sent' <= log.attempted + 1,
           \A r \in rows : /\ Open(r) /\ Within(r) /\ Behind(r, log)
                           /\ r.attempted <= sent' /\ sent' <= r.attempted + 1,
           SendsBounded'
    PROVE  Inv'
<1>1. /\ run_log' = [log EXCEPT !.status = "failed"]
      /\ pc' = "close" /\ max_parse' = max_parse /\ saved' \in rows
  BY DEF Fail, Go
<1>2. /\ run_log'.status = "failed" /\ run_log'.ended = log.ended
      /\ run_log'.selected = log.selected /\ run_log'.attempted = log.attempted
      /\ run_log'.skipped = log.skipped /\ run_log'.failed = log.failed
  BY <1>1, LogFields
<1>3. [run_log' EXCEPT !.status = "started"] = log
  BY <1>1, Restart DEF Open
<1>4. /\ Open(saved') /\ Within(saved') /\ Behind(saved', log)
      /\ saved'.attempted <= sent' /\ sent' <= saved'.attempted + 1
      /\ saved' # Log!NoRow
  BY <1>1, LogTypes DEF Open
<1>5. Within(run_log)' /\ Within(saved)'
  BY <1>1, <1>2, <1>4 DEF Within, Log!Total
<1>6. CloseInv'
  BY <1>1, <1>2, <1>3, <1>4 DEF CloseInv, Open, Behind, Told, Log!Progress, Log!More
<1>7. RowInv'
  BY <1>4, <1>5 DEF RowInv, Told, Open
<1> QED BY <1>1, <1>6, <1>7 DEF Inv, StartInv, SelectInv, NextInv, RecordInv

LEMMA SelectStep == TypeOK /\ Inv /\ Select => Inv'
<1> SUFFICES ASSUME TypeOK, Inv, Select PROVE Inv'
  OBVIOUS
<1>1. /\ run_log = Log!Created /\ saved = run_log /\ pc = "select"
      /\ sent = 0 /\ sent' = 0 /\ max_parse' = max_parse
      /\ run_log \in Log!Row /\ max_parse \in Nat
  <2>1. pc = "select" /\ sent' = sent
    BY DEF Select, BatchOf
  <2>2. max_parse' = max_parse
    BY DEF Select, BatchOf, Go, Fail
  <2>3. max_parse \in Nat
    BY LimitsAssumption DEF TypeOK
  <2> QED BY <2>1, <2>2, <2>3 DEF Inv, SelectInv, TypeOK
<1>2. /\ run_log.status = "started" /\ ~run_log.ended /\ run_log.selected = Log!Null
      /\ run_log.attempted = 0 /\ run_log.skipped = 0 /\ run_log.failed = 0
  BY <1>1 DEF Log!Created
<1>3. SendsBounded'
  BY <1>1 DEF SendsBounded
<1>4. Open(run_log) /\ Within(run_log) /\ Log!Total(run_log) = 0
  BY <1>1, <1>2 DEF Open, Within, Log!Total
<1>5. ASSUME NEW n \in 0..MaxTry, NEW log, log = [run_log EXCEPT !.selected = n]
      PROVE  /\ log \in Log!Row /\ log.selected = n /\ log.selected # Log!Null
             /\ log.attempted = 0 /\ Log!Total(log) = 0
             /\ Open(log) /\ Within(log) /\ Behind(run_log, log)
  <2>1. n \in Nat
    BY <1>5, LimitsAssumption
  <2>2. log \in Log!Row
    BY <1>1, <1>5, <2>1, LogTypes
  <2>3. /\ log.selected = n /\ log.status = "started" /\ ~log.ended
        /\ log.attempted = 0 /\ log.skipped = 0 /\ log.failed = 0
    BY <1>1, <1>2, <1>5, <2>1, LogFields
  <2>4. log.selected # Log!Null
    BY <2>1, <2>3 DEF Log!Null
  <2>5. Behind(run_log, log)
    BY <1>2, <1>5, <2>1, <2>3 DEF Behind, Log!Progress
  <2> QED BY <1>1, <2>1, <2>2, <2>3, <2>4, <2>5 DEF Open, Within, Log!Total
<1>6. CASE \E n \in 0..MaxTry : /\ run_log' = [run_log EXCEPT !.selected = n]
                                /\ saved' = [run_log EXCEPT !.selected = n]
                                /\ batch' = n /\ Go("next")
  <2>1. PICK n \in 0..MaxTry : /\ run_log' = [run_log EXCEPT !.selected = n]
                               /\ saved' = [run_log EXCEPT !.selected = n]
                               /\ batch' = n /\ Go("next")
    BY <1>6
  <2>2. /\ run_log' \in Log!Row /\ run_log'.selected = n /\ run_log'.selected # Log!Null
        /\ run_log'.attempted = 0 /\ Log!Total(run_log') = 0
        /\ Open(run_log') /\ Within(run_log')
        /\ run_log' # Log!NoRow
    BY <1>5, <2>1, LogTypes
  <2>3. saved' = run_log' /\ pc' = "next" /\ batch' = n
    BY <2>1 DEF Go
  <2>4. Within(run_log)' /\ Within(saved)'
    BY <1>1, <2>2, <2>3 DEF Within, Log!Total
  <2>5. NextInv'
    BY <1>1, <2>2, <2>3, LimitsAssumption DEF NextInv, Open
  <2>6. RowInv'
    BY <1>1, <2>2, <2>3, <2>4 DEF RowInv, Told, Open
  <2> QED BY <1>3, <2>3, <2>5, <2>6 DEF Inv, StartInv, SelectInv, RecordInv, CloseInv
<1>7. CASE \E n \in 0..MaxTry : Fail([run_log EXCEPT !.selected = n],
                                     {saved, [run_log EXCEPT !.selected = n]})
  <2>1. PICK n \in 0..MaxTry : Fail([run_log EXCEPT !.selected = n],
                                    {saved, [run_log EXCEPT !.selected = n]})
    BY <1>7
  <2> DEFINE log == [run_log EXCEPT !.selected = n]
  <2>2. /\ log \in Log!Row /\ log.attempted = 0
        /\ Open(log) /\ Within(log) /\ Behind(run_log, log)
    BY <1>5
  <2>3. Behind(log, log)
    BY DEF Behind
  <2> HIDE DEF log
  <2>4. Fail(log, {saved, log})
    BY <2>1 DEF log
  <2> QED BY <1>1, <1>2, <1>3, <1>4, <2>2, <2>3, <2>4, FailStep
<1>8. CASE Fail(run_log, {saved})
  BY <1>1, <1>2, <1>3, <1>4, <1>8, FailStep DEF Behind
<1> QED BY <1>6, <1>7, <1>8 DEF Select, BatchOf

LEMMA ReparseStep == TypeOK /\ Inv /\ Reparse => Inv'
<1> SUFFICES ASSUME TypeOK, Inv, Reparse PROVE Inv'
  OBVIOUS
<1>1. /\ pc = "next" /\ saved = run_log /\ Open(run_log) /\ Within(run_log)
      /\ run_log.selected # Log!Null
      /\ batch = run_log.selected - Log!Total(run_log)
      /\ Log!Total(run_log) = 0 \/ run_log.attempted < max_parse
      /\ sent = run_log.attempted /\ SendsBounded
  BY DEF Reparse, Inv, NextInv, RowInv
<1>2. /\ run_log \in Log!Row /\ run_log # Log!NoRow
      /\ run_log.selected \in Nat /\ Log!Total(run_log) \in Nat
      /\ run_log.attempted \in Nat /\ run_log.attempted <= Log!Total(run_log)
      /\ max_parse \in Nat /\ batch \in Nat
  <2>1. run_log \in Log!Row /\ run_log # Log!NoRow
    BY <1>1, LogTypes DEF Open
  <2>2. /\ run_log.selected \in Nat
        /\ run_log.attempted \in Nat /\ run_log.skipped \in Nat /\ run_log.failed \in Nat
    BY <1>1, <2>1 DEF Log!Row
  <2>3. max_parse \in Nat /\ batch \in Nat
    BY LimitsAssumption DEF TypeOK
  <2> QED BY <2>1, <2>2, <2>3 DEF Log!Total
<1>3. /\ batch > 0 /\ batch' = batch - 1 /\ max_parse' = max_parse
      /\ Log!More(run_log)
  BY <1>1, <1>2 DEF Reparse, Counted, Uncounted, Fail, Go, Log!More
<1>4. CASE Counted
  <2>1. /\ run_log' \in {[run_log EXCEPT !.attempted = @ + 1],
                         [run_log EXCEPT !.skipped = @ + 1],
                         [run_log EXCEPT !.failed = @ + 1]}
        /\ saved' = saved /\ pc' = "record"
    BY <1>4, Zenon DEF Counted, Go
  <2>2. /\ run_log'.status = run_log.status /\ run_log'.ended = run_log.ended
        /\ run_log'.selected = run_log.selected
        /\ Log!Total(run_log') = Log!Total(run_log) + 1
        /\ run_log'.attempted = IF run_log' = [run_log EXCEPT !.attempted = @ + 1]
                                THEN run_log.attempted + 1 ELSE run_log.attempted
    BY <1>2, <2>1, CountFields
  <2>3. run_log' \in Log!Row
    BY <1>2, <2>1, LogTypes, Zenon
  <2>4. sent' = run_log'.attempted
    <3>1. CASE run_log' = [run_log EXCEPT !.attempted = @ + 1] /\ sent' = sent + 1
      BY <1>1, <2>2, <3>1
    <3>2. CASE /\ run_log' \in {[run_log EXCEPT !.skipped = @ + 1],
                                [run_log EXCEPT !.failed = @ + 1]}
               /\ sent' = sent
      <4>1. run_log'.attempted = run_log.attempted
        BY <1>2, <3>2 DEF Log!Row
      <4> QED BY <1>1, <3>2, <4>1
    <3> QED BY <1>4, <3>1, <3>2 DEF Counted
  <2>5. Behind(saved, run_log)'
    BY <1>1, <1>3, <2>1 DEF Behind, Log!Progress, Log!More
  <2>6. Within(run_log)' /\ Within(saved)'
    <3>1. Log!Total(run_log) + 1 <= run_log.selected
      BY <1>1, <1>2, <1>3
    <3>2. IF max_parse = 0 THEN Log!Total(run_log') <= 1
                           ELSE run_log'.attempted <= max_parse
      BY <1>1, <1>2, <2>2 DEF Within
    <3> QED BY <1>1, <1>3, <2>1, <2>2, <3>1, <3>2 DEF Within, Log!Total
  <2>7. SendsBounded'
    BY <1>1, <1>2, <1>3, <2>2, <2>4 DEF SendsBounded
  <2>8. RowInv'
    BY <1>1, <1>2, <2>1, <2>2, <2>4, <2>6 DEF RowInv, Told, Open
  <2>9. RecordInv'
    BY <1>1, <1>2, <1>3, <2>1, <2>2, <2>3, <2>4, <2>5 DEF RecordInv, Open
  <2> QED BY <2>1, <2>7, <2>8, <2>9 DEF Inv, StartInv, SelectInv, NextInv, CloseInv
<1>5. CASE Uncounted
  <2>1. sent' \in {sent, sent + 1} /\ Fail(run_log, {saved})
    BY <1>5 DEF Uncounted
  <2>2. SendsBounded'
    BY <1>1, <1>2, <1>3, <2>1 DEF SendsBounded
  <2> QED BY <1>1, <1>2, <2>1, <2>2, FailStep DEF Behind
<1> QED BY <1>4, <1>5 DEF Reparse

\* The run ends well, with the row up to date.
LEMMA FinishStep ==
    ASSUME TypeOK, Inv, Finished, sent' = sent,
           saved' = run_log, Open(run_log), Log!Complete(run_log),
           sent = run_log.attempted
    PROVE  Inv'
<1>1. /\ run_log' = [run_log EXCEPT !.status = "finished"]
      /\ pc' = "close" /\ max_parse' = max_parse /\ run_log \in Log!Row
  BY DEF Finished, Go, TypeOK
<1>2. /\ run_log'.status = "finished" /\ run_log'.ended = run_log.ended
      /\ run_log'.selected = run_log.selected /\ run_log'.attempted = run_log.attempted
      /\ run_log'.skipped = run_log.skipped /\ run_log'.failed = run_log.failed
      /\ run_log.attempted \in Nat /\ run_log # Log!NoRow
  BY <1>1, LogFields, LogTypes DEF Log!Row
<1>3. [run_log' EXCEPT !.status = "started"] = run_log
  BY <1>1, Restart DEF Open
<1>4. Within(run_log)' /\ Within(saved)'
  BY <1>1, <1>2 DEF Within, Log!Total, Inv, RowInv
<1>5. CloseInv'
  BY <1>1, <1>2, <1>3 DEF CloseInv, Open, Behind, Told, Log!Complete, Log!More
<1>6. RowInv' /\ SendsBounded'
  BY <1>1, <1>2, <1>4 DEF RowInv, Told, Open, Inv, SendsBounded
<1> QED BY <1>1, <1>5, <1>6 DEF Inv, StartInv, SelectInv, NextInv, RecordInv

LEMMA RecordStep == TypeOK /\ Inv /\ Record => Inv'
<1> SUFFICES ASSUME TypeOK, Inv, Record PROVE Inv'
  OBVIOUS
<1>1. /\ pc = "record" /\ Open(saved) /\ Open(run_log) /\ Behind(saved, run_log)
      /\ run_log.selected # Log!Null /\ Log!Total(run_log) > 0
      /\ batch = run_log.selected - Log!Total(run_log)
      /\ sent = run_log.attempted /\ SendsBounded
      /\ Within(run_log) /\ Within(saved)
      /\ UNCHANGED <<batch, sent>>
  BY LogTypes DEF Record, Inv, RecordInv, RowInv, Open
<1>2. /\ run_log \in Log!Row /\ run_log # Log!NoRow /\ saved # Log!NoRow
      /\ run_log.attempted \in Nat
      /\ max_parse' = max_parse /\ max_parse \in Nat
      /\ Told(saved)
  <2>1. max_parse' = max_parse
    BY DEF Record, Finished, Fail, Go
  <2>2. max_parse \in Nat
    BY LimitsAssumption DEF TypeOK
  <2>3. run_log \in Log!Row /\ run_log # Log!NoRow /\ saved # Log!NoRow
    BY <1>1, LogTypes DEF Open
  <2>4. run_log.attempted \in Nat
    BY <2>3 DEF Log!Row
  <2> QED BY <2>1, <2>2, <2>3, <2>4 DEF Inv, RowInv
<1>3. CASE saved' = run_log /\ run_log.attempted >= max_parse /\ Finished
  <2>1. Log!Complete(run_log)
    BY <1>1, <1>2, <1>3 DEF Log!Complete, Log!More
  <2> QED BY <1>1, <1>2, <1>3, <2>1, FinishStep
<1>4. CASE /\ saved' = run_log /\ ~(run_log.attempted >= max_parse)
           /\ UNCHANGED run_log /\ Go("next")
  <2>1. Within(run_log)' /\ Within(saved)'
    BY <1>1, <1>2, <1>4 DEF Within, Log!Total
  <2>2. NextInv'
    BY <1>1, <1>2, <1>4 DEF NextInv, Open, Go
  <2>3. RowInv' /\ SendsBounded'
    BY <1>1, <1>2, <1>4, <2>1 DEF RowInv, Told, Open, SendsBounded
  <2> QED BY <1>4, <2>2, <2>3 DEF Go, Inv, StartInv, SelectInv, RecordInv, CloseInv
<1>5. CASE Fail(run_log, {saved, run_log})
  <2>1. SendsBounded'
    BY <1>1, <1>2 DEF SendsBounded
  <2>2. Told(run_log) /\ Behind(run_log, run_log)
    BY <1>1, <1>2 DEF Told, Behind
  <2>3. \A r \in {saved, run_log} :
           /\ Open(r) /\ Within(r) /\ Behind(r, run_log)
           /\ r.attempted <= sent' /\ sent' <= r.attempted + 1
    BY <1>1, <1>2, <2>2 DEF Told
  <2>4. run_log.attempted <= sent' /\ sent' <= run_log.attempted + 1
    BY <2>3
  <2> HIDE DEF Told
  <2> QED BY <1>1, <1>2, <1>5, <2>1, <2>3, <2>4, FailStep
<1> QED BY <1>3, <1>4, <1>5 DEF Record

LEMMA ExhaustedStep == TypeOK /\ Inv /\ Exhausted => Inv'
<1> SUFFICES ASSUME TypeOK, Inv, Exhausted PROVE Inv'
  OBVIOUS
<1>1. /\ saved = run_log /\ Open(run_log) /\ run_log.selected # Log!Null
      /\ batch = 0 /\ batch = run_log.selected - Log!Total(run_log)
      /\ sent = run_log.attempted
      /\ Finished /\ saved' = saved /\ sent' = sent
  BY DEF Exhausted, Inv, NextInv
<1>2. run_log.selected \in Nat /\ Log!Total(run_log) \in Nat
  <2>1. /\ run_log.selected \in Nat
        /\ run_log.attempted \in Nat /\ run_log.skipped \in Nat /\ run_log.failed \in Nat
    BY <1>1 DEF Open, Log!Row
  <2> QED BY <2>1 DEF Log!Total
<1>3. Log!Complete(run_log)
  BY <1>1, <1>2 DEF Log!Complete, Log!More
<1> QED BY <1>1, <1>3, FinishStep

LEMMA CloseStep == TypeOK /\ Inv /\ Close => Inv'
<1> SUFFICES ASSUME TypeOK, Inv, Close PROVE Inv'
  OBVIOUS
<1>1. /\ pc = "close" /\ pc' \in {"done", "dead"}
      /\ run_log' = [run_log EXCEPT !.ended = TRUE]
      /\ saved' \in {saved, run_log'}
      /\ max_parse' = max_parse /\ sent' = sent
      /\ run_log \in Log!Row
  BY DEF Close, Go, TypeOK
<1>2. /\ run_log'.ended
      /\ run_log'.status = run_log.status
      /\ run_log'.selected = run_log.selected /\ run_log'.attempted = run_log.attempted
      /\ run_log'.skipped = run_log.skipped /\ run_log'.failed = run_log.failed
      /\ run_log' # Log!NoRow
  BY <1>1, LogFields, LogTypes
<1>3. Told(run_log) /\ Told(saved) /\ Within(run_log) /\ Within(saved) /\ Open(saved)
  BY <1>1, LogTypes DEF Inv, CloseInv, RowInv, Open
<1>4. Within(run_log)' /\ Within(saved)'
  BY <1>1, <1>2, <1>3 DEF Within, Log!Total
<1>5. run_log.status = "finished" => Log!Complete(run_log) /\ sent = run_log.attempted
  <2>1. CASE run_log.status = "finished"
    <3>1. saved = [run_log EXCEPT !.status = "started"] /\ Log!Complete(saved)
      BY <1>1, <2>1 DEF Inv, CloseInv
    <3>2. /\ saved.selected = run_log.selected /\ saved.attempted = run_log.attempted
          /\ saved.skipped = run_log.skipped /\ saved.failed = run_log.failed
      BY <1>1, <3>1, LogFields
    <3> QED BY <1>1, <2>1, <3>1, <3>2
        DEF Inv, CloseInv, Log!Complete, Log!More, Log!Total
  <2> QED BY <2>1
<1>6. Log!Complete(run_log)' <=> Log!Complete(run_log)
  BY <1>1, <1>2 DEF Log!Complete, Log!More, Log!Total
<1>7. RowInv'
  <2>1. CASE saved' = saved
    <3>1. saved # Log!NoRow
      BY <1>3, LogTypes DEF Open
    <3> QED BY <1>1, <1>3, <1>4, <2>1, <3>1 DEF RowInv, Told, Open
  <2>2. CASE saved' = run_log'
    BY <1>1, <1>2, <1>3, <1>4, <1>5, <1>6, <2>2
       DEF RowInv, Told, Log!Complete, Log!More, Log!Total
  <2> QED BY <1>1, <2>1, <2>2
<1> QED BY <1>1, <1>7 DEF Inv, StartInv, SelectInv, NextInv, RecordInv, CloseInv, SendsBounded

LEMMA Invariant == Spec => []Inv
<1>1. TypeOK /\ Inv /\ [Next]_vars => Inv'
  <2>1. TypeOK /\ Inv /\ UNCHANGED vars => Inv'
    BY DEF vars, Inv, StartInv, SelectInv, NextInv, RecordInv, CloseInv, RowInv,
           SendsBounded, Within, Told, Open, Behind, Log!Complete, Log!More, Log!Progress
  <2> QED BY <2>1, CreateLogInv, SelectStep, ReparseStep, RecordStep, ExhaustedStep,
             InterruptInv, CloseStep, KillInv DEF Next
<1> QED BY <1>1, InitInv, TypeCorrect, PTL DEF Spec

-----------------------------------------------------------------------------
(***************************************************************************)
(* The properties.                                                         *)
(***************************************************************************)

\* The row of a run never misses more than one document that was sent, at
\* whatever call the run was cut short, for every batch and every limit.
THEOREM RowTellsSends == Spec => []RowMatchesSends
<1>1. Inv => RowMatchesSends
  BY DEF Inv, RowInv, Told, RowMatchesSends
<1> QED BY <1>1, Invariant, PTL

\* The limit holds for every value of the option and every batch.
THEOREM LimitHolds == Spec => []SendsBounded
<1>1. Inv => SendsBounded
  BY DEF Inv
<1> QED BY <1>1, Invariant, PTL

\* "Finished" is only said of a run that accounts for its whole batch or has
\* reached the limit.
THEOREM FinishedRunsComplete == Spec => []FinishedAccountsForAll
<1>1. TypeOK /\ Inv => FinishedAccountsForAll
  <2> SUFFICES ASSUME TypeOK, Inv, saved # Log!NoRow, saved.status = "finished"
               PROVE  /\ saved.ended /\ saved.selected # Log!Null
                      /\ Log!Total(saved) <= saved.selected
                      /\ \/ Log!Total(saved) = saved.selected
                         \/ saved.attempted = max_parse
                         \/ max_parse = 0 /\ Log!Total(saved) = 1
    BY DEF FinishedAccountsForAll
  <2>1. /\ saved.ended /\ Log!Complete(saved) /\ Within(saved)
    BY DEF Inv, RowInv
  <2>2. /\ saved.selected \in Nat \cup {Log!Null}
        /\ saved.attempted \in Nat /\ saved.skipped \in Nat /\ saved.failed \in Nat
        /\ max_parse \in Nat
    BY LimitsAssumption DEF TypeOK, Log!Row
  <2> QED BY <2>1, <2>2 DEF Within, Log!Complete, Log!More, Log!Total
<1> QED BY <1>1, TypeCorrect, Invariant, PTL

\* The command implements RunLog: its row goes through the states that RunLog
\* allows and no others.
THEOREM ImplementsRunLog == Spec => RunLogImplemented
<1>1. Init => Log!Init
  BY LimitsAssumption DEF Init, Log!Init
<1>2. TypeOK /\ Inv /\ [Next]_vars => [Log!Next]_<<saved, max_parse>>
  <2> SUFFICES ASSUME TypeOK, Inv, [Next]_vars
               PROVE  Log!Next \/ UNCHANGED <<saved, max_parse>>
    OBVIOUS
  <2>1. max_parse' = max_parse
    BY DEF Next, vars, CreateLog, Select, BatchOf, Reparse, Counted, Uncounted, Record,
           Exhausted, Finished, Interrupt, Close, Kill, Fail, Go
  <2>2. CASE CreateLog
    BY <2>1, <2>2 DEF CreateLog, Inv, StartInv, Log!Next, Log!Create
  <2>3. CASE Select
    <3>1. /\ saved = run_log /\ run_log = Log!Created /\ run_log \in Log!Row
      BY <2>3 DEF Select, BatchOf, Inv, SelectInv, TypeOK
    <3>2. Log!Running /\ run_log.selected = Log!Null
      BY <3>1 DEF Log!Running, Log!Created
    <3>3. \/ saved' = saved
          \/ \E n \in 0..MaxTry : saved' = [run_log EXCEPT !.selected = n]
      BY <2>3 DEF Select, BatchOf, Fail
    <3>4. ASSUME NEW n \in 0..MaxTry, saved' = [run_log EXCEPT !.selected = n]
          PROVE  Log!Progress(saved, saved')
      <4>1. n \in Nat
        BY LimitsAssumption
      <4>2. saved'.selected = n
        BY <3>1, <3>4, <4>1, LogFields
      <4> QED BY <3>1, <3>2, <3>4, <4>1, <4>2 DEF Log!Progress
    <3> QED BY <2>1, <3>2, <3>3, <3>4 DEF Log!Next, Log!Advance
  <2>4. CASE Reparse \/ Interrupt \/ Kill \/ Exhausted \/ UNCHANGED vars
    BY <2>1, <2>4 DEF Reparse, Counted, Uncounted, Fail, Interrupt, Kill, Exhausted, vars, Inv
  <2>5. CASE Record
    <3>1. /\ Open(saved) /\ Behind(saved, run_log)
          /\ saved' \in {saved, run_log}
      BY <2>5 DEF Record, Fail, Inv, RecordInv
    <3> QED BY <2>1, <3>1 DEF Open, Behind, Log!Next, Log!Advance, Log!Running
  <2>6. CASE Close
    <3>1. /\ Open(saved) /\ run_log \in Log!Row /\ ~run_log.ended
          /\ Behind(saved, [run_log EXCEPT !.status = "started"])
          /\ run_log.status = "finished" =>
                saved = [run_log EXCEPT !.status = "started"] /\ Log!Complete(saved)
          /\ saved' \in {saved, [run_log EXCEPT !.ended = TRUE]}
      BY <2>6 DEF Close, Inv, CloseInv, TypeOK
    <3>2. CASE saved' = [run_log EXCEPT !.ended = TRUE]
      <4>1. saved'.ended /\ saved'.status = run_log.status
        BY <3>1, <3>2, LogFields
      <4>2. Log!Running /\ saved.status = "started"
        BY <3>1 DEF Log!Running, Open
      <4>3. CASE run_log.status = "finished"
        <5>1. saved' = [saved EXCEPT !.status = "finished", !.ended = TRUE]
          BY <3>1, <3>2, <4>3 DEF Log!Row
        <5> QED BY <2>1, <3>1, <4>2, <4>3, <5>1 DEF Log!Next, Log!Finish
      <4>4. CASE run_log.status # "finished"
        <5>1. [saved' EXCEPT !.status = saved.status, !.ended = FALSE]
                = [run_log EXCEPT !.status = "started"]
          BY <3>1, <3>2, <4>2 DEF Log!Row
        <5> QED BY <2>1, <3>1, <4>1, <4>2, <4>4, <5>1
            DEF Behind, Log!Next, Log!Abandon
      <4> QED BY <4>3, <4>4
    <3> QED BY <2>1, <3>1, <3>2
  <2> QED BY <2>2, <2>3, <2>4, <2>5, <2>6 DEF Next
<1> QED BY <1>1, <1>2, TypeCorrect, Invariant, PTL DEF Spec, RunLogImplemented, Log!Spec

-----------------------------------------------------------------------------
(***************************************************************************)
(* The assignment of FCLIDs.                                               *)
(***************************************************************************)
\* The inductive invariant: once the command has ended nobody changes the
\* documents any more, and until then missing stays a finite set, so that its
\* size tells whether it is empty.
EndInv ==
    /\ missing \subseteq Unidentified
    /\ EndsWhenAllAssigned

\* Fetched is never empty, and the empty page is fetched only when no document
\* is missing (get_missing_fclid).
LEMMA EmptyPage ==
    ASSUME IsFiniteSet(missing), {} \in Fetched
    PROVE  missing = {}
<1>1. Cardinality(missing) \in Nat
  BY FS_CardinalityType
<1>2. NumberPerLoop \in Nat \ {0}
  BY FclidAssumption
<1>3. Cardinality({}) = 0
  BY FS_EmptySet
<1>4. Cardinality(missing) = 0
  BY <1>1, <1>2, <1>3, SMT DEF Fetched, kSubset
<1> QED
  BY <1>4, FS_EmptySet

LEMMA EndInit == FclidInit => EndInv
BY DEF FclidInit, EndInv, EndsWhenAllAssigned

LEMMA EndStep == EndInv /\ [FclidNext]_fclidVars => EndInv'
<1> SUFFICES ASSUME EndInv, [FclidNext]_fclidVars PROVE EndInv'
  OBVIOUS
<1> USE DEF EndInv, EndsWhenAllAssigned
<1>1. CASE Fetch
  <2>1. IsFiniteSet(missing)
    BY FclidAssumption, FS_Subset
  <2>2. PICK page \in Fetched :
          loop' = [at |-> IF page = {} THEN "ended" ELSE "assign", page |-> page]
    BY <1>1 DEF Fetch
  <2>3. CASE page = {}
    BY <1>1, <2>1, <2>2, <2>3, EmptyPage DEF Fetch
  <2>4. CASE page # {}
    BY <1>1, <2>2, <2>4 DEF Fetch
  <2> QED
    BY <2>3, <2>4
<1>2. CASE Assign
  <2>1. missing' \subseteq missing
    BY <1>2 DEF Assign
  <2>2. loop'.at # "ended"
    BY <1>2 DEF Assign, Went
  <2> QED
    BY <2>1, <2>2
<1>3. CASE Raise
  BY <1>3 DEF Raise
<1>4. CASE Identify
  BY <1>4 DEF Identify
<1>5. CASE UNCHANGED fclidVars
  BY <1>5 DEF fclidVars
<1> QED
  BY <1>1, <1>2, <1>3, <1>4, <1>5 DEF FclidNext

\* The command assign_missing_fclids ends of itself only when every document
\* has its identifier: no page that is short, or full of refused documents, is
\* taken for the last one.
THEOREM EndsComplete == FclidInit /\ [][FclidNext]_fclidVars => []EndsWhenAllAssigned
<1>1. EndInv => EndsWhenAllAssigned
  BY DEF EndInv
<1> QED
  BY EndInit, EndStep, <1>1, PTL

-----------------------------------------------------------------------------
(***************************************************************************)
(* The three commands together.                                            *)
(***************************************************************************)
\* Whichever command is run, the reparse goes on as by itself, or does nothing.
LEMMA ReparseGoesOn == CommandSpec => Spec
<1>1. CommandInit => Init
  BY DEF CommandInit, NoReparse
<1>2. [CommandNext]_commandVars => [Next]_vars
  BY DEF CommandNext, commandVars, ReparseCommand, EnrichCommand, FclidCommand
<1> QED BY <1>1, <1>2, PTL DEF CommandSpec, Spec

\* What holds of each command by itself holds whichever is run: the row of the
\* reparse matches what was sent and its limit, and the assignment of FCLIDs ends
\* of itself only when nothing is missing.
THEOREM CommandsKeepPromises ==
    CommandSpec => [](/\ TypeOK /\ RowMatchesSends /\ FinishedAccountsForAll /\ SendsBounded
                      /\ EndsWhenAllAssigned)
<1>1. CommandInit => EndInv
  <2>1. FclidInit => EndInv
    BY EndInit
  <2>2. NoAssignment => EndInv
    BY DEF NoAssignment, EndInv, EndsWhenAllAssigned
  <2> QED BY <2>1, <2>2 DEF CommandInit
<1>2. EndInv /\ [CommandNext]_commandVars => EndInv'
  <2>1. [CommandNext]_commandVars => [FclidNext]_fclidVars
    BY DEF CommandNext, commandVars, ReparseCommand, EnrichCommand, FclidCommand
  <2> QED BY <2>1, EndStep
<1>3. EndInv => EndsWhenAllAssigned
  BY DEF EndInv
<1> QED BY <1>1, <1>2, <1>3, ReparseGoesOn, TypeCorrect, RowTellsSends, FinishedRunsComplete,
           LimitHolds, PTL DEF CommandSpec

\* Beside the other commands the reparse still implements the row that RunLog
\* describes: none of them writes to the run log.
THEOREM CommandsImplementRunLog == CommandSpec => RunLogImplemented
BY ReparseGoesOn, ImplementsRunLog, PTL

=============================================================================
