----------------------------- MODULE BulkReparse -----------------------------
(***************************************************************************)
(* One run of the command reparse_next_in_reparse_queue.  The documents of *)
(* the batch are told apart only by their place in it.  Every call to      *)
(* MarkLogic, to the parser's queue and to the database may raise, before  *)
(* or after its effect, and the process may be killed between any two.     *)
(***************************************************************************)
EXTENDS Integers

CONSTANTS
    MaxTry,    \* the option max_try
    MaxParse   \* bound on the option max_parse

ASSUME LimitsAssumption == MaxTry \in Nat /\ MaxParse \in Nat

VARIABLES
    max_parse,
    pc,        \* the call that comes next
    batch,     \* the documents that are still to be dealt with
    run_log,   \* the object in memory
    saved,     \* its row
    sent       \* the documents that the parser has been sent

vars == <<max_parse, pc, batch, run_log, saved, sent>>

Log == INSTANCE RunLog WITH row <- saved, limit <- max_parse

\* "start": before the run log exists; "select"; "next": at the head of the
\* loop; "record": before the save that ends a document; "close": in the
\* finally clause; "done": closed; "dead": killed, or ended by an exception
\* that leaves the command.
Place == {"start", "select", "next", "record", "close", "done", "dead"}

TypeOK ==
    /\ max_parse \in 0..MaxParse
    /\ pc \in Place
    /\ batch \in 0..MaxTry
    /\ run_log \in Log!Row
    /\ saved \in Log!Row \cup {Log!NoRow}
    /\ sent \in Nat

Init ==
    /\ max_parse \in 0..MaxParse
    /\ pc = "start"
    /\ batch = 0
    /\ run_log = Log!Created
    /\ saved = Log!NoRow
    /\ sent = 0

-----------------------------------------------------------------------------

Go(place) == pc' = place /\ UNCHANGED max_parse

\* The except clause, with this log in memory and one of these rows stored.
Fail(log, rows) ==
    /\ run_log' = [log EXCEPT !.status = "failed"]
    /\ saved' \in rows
    /\ Go("close")

\* The log is only created once the queue has been counted.
CreateLog ==
    /\ pc = "start"
    /\ \/ saved' = run_log /\ Go("select")
       \/ saved' \in {run_log, saved} /\ Go("dead")
    /\ UNCHANGED <<batch, run_log, sent>>

\* The query is asked for at most this many documents.
BatchOf(most) ==
    /\ pc = "select"
    /\ \/ \E n \in 0..most :
             LET log == [run_log EXCEPT !.selected = n] IN
             /\ batch' = n
             /\ \/ run_log' = log /\ saved' = log /\ Go("next")
                \/ Fail(log, {saved, log})
       \/ Fail(run_log, {saved}) /\ UNCHANGED batch
    /\ UNCHANGED sent

\* Seeded fault: the query is asked for one document more than max_try.
GreedySelect == BatchOf(MaxTry + 1)

Select == BatchOf(MaxTry)

\* reparse() answers True once the parser has been sent the document, False
\* when the document cannot be reparsed; two exceptions are caught and counted.
Counted ==
    /\ \/ /\ run_log' = [run_log EXCEPT !.attempted = @ + 1]
          /\ sent' = sent + 1
       \/ /\ run_log' \in {[run_log EXCEPT !.skipped = @ + 1],
                           [run_log EXCEPT !.failed = @ + 1]}
          /\ sent' = sent
    /\ UNCHANGED saved
    /\ Go("record")

\* The document cannot be read, or reparse() raises another exception.
Uncounted ==
    /\ Fail(run_log, {saved})
    /\ sent' \in {sent, sent + 1}

\* Seeded fault: a document that raises is left behind and the loop goes on.
ForgivingReparse ==
    /\ pc = "next" /\ batch > 0
    /\ batch' = batch - 1
    /\ \/ Go("next") /\ sent' \in {sent, sent + 1} /\ UNCHANGED <<run_log, saved>>
       \/ Counted

Reparse ==
    /\ pc = "next" /\ batch > 0
    /\ batch' = batch - 1
    /\ Counted \/ Uncounted

\* The else clause.
Finished == run_log' = [run_log EXCEPT !.status = "finished"] /\ Go("close")

\* Seeded fault: what is looked at is the limit before this document.
LateRecord ==
    /\ pc = "record"
    /\ saved' = run_log
    /\ IF saved.attempted >= max_parse THEN Finished
                                       ELSE UNCHANGED run_log /\ Go("next")
    /\ UNCHANGED <<batch, sent>>

\* Seeded fault: every document counts towards the limit.
GreedyRecord ==
    /\ pc = "record"
    /\ saved' = run_log
    /\ IF Log!Total(run_log) >= max_parse THEN Finished
                                          ELSE UNCHANGED run_log /\ Go("next")
    /\ UNCHANGED <<batch, sent>>

Record ==
    /\ pc = "record"
    /\ \/ /\ saved' = run_log
          /\ IF run_log.attempted >= max_parse THEN Finished
                                               ELSE UNCHANGED run_log /\ Go("next")
       \/ Fail(run_log, {saved, run_log})
    /\ UNCHANGED <<batch, sent>>

Exhausted ==
    /\ pc = "next" /\ batch = 0
    /\ Finished
    /\ UNCHANGED <<batch, saved, sent>>

\* Ctrl-C and SystemExit pass the except clause, not the finally clause.
Interrupt ==
    /\ pc \in {"select", "next", "record"}
    /\ Go("close")
    /\ UNCHANGED <<batch, run_log, saved, sent>>

\* Seeded fault: the finally clause sets the status too.
FinishingClose ==
    LET log == [run_log EXCEPT !.ended = TRUE, !.status = "finished"] IN
    /\ pc = "close"
    /\ run_log' = log /\ saved' = log
    /\ Go("done")
    /\ UNCHANGED <<batch, sent>>

Close ==
    LET log == [run_log EXCEPT !.ended = TRUE] IN
    /\ pc = "close"
    /\ run_log' = log
    /\ \/ saved' = log /\ Go("done")
       \/ saved' \in {saved, log} /\ Go("dead")
    /\ UNCHANGED <<batch, sent>>

Kill ==
    /\ pc \notin {"done", "dead"}
    /\ Go("dead")
    /\ UNCHANGED <<batch, run_log, saved, sent>>

Next ==
    \/ CreateLog \/ Select \/ Reparse \/ Record \/ Exhausted
    \/ Interrupt \/ Close \/ Kill

Spec == Init /\ [][Next]_vars

-----------------------------------------------------------------------------

\* However the run ends, its row misses at most one document that was sent to
\* the parser, and counts none that was not; the row of a finished run counts
\* all of them (run_log.save in _reparse_selected_document and in handle).
RowMatchesSends ==
    IF saved = Log!NoRow THEN sent = 0
    ELSE /\ saved.attempted <= sent /\ sent <= saved.attempted + 1
         /\ saved.status = "finished" => sent = saved.attempted

\* A run is reported as finished only if every document that it selected is
\* accounted for, or as many as max_parse were sent, or it is the first one
\* that max_parse = 0 lets through (the break in the loop of handle).
FinishedAccountsForAll ==
    saved # Log!NoRow /\ saved.status = "finished" =>
        /\ saved.ended /\ saved.selected # Log!Null
        /\ Log!Total(saved) <= saved.selected
        /\ \/ Log!Total(saved) = saved.selected
           \/ saved.attempted = max_parse
           \/ max_parse = 0 /\ Log!Total(saved) = 1

\* No run sends more documents than its limit, the first apart, failures and
\* exceptions included (documents_attempted against max_parse).
SendsBounded == sent <= max_parse \/ sent = 1

\* The row goes through the states that RunLog allows, in its order: it counts
\* up one document at a time, is closed once, and is "finished" only when
\* complete.
RunLogImplemented == Log!Spec

=============================================================================
