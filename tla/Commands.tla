------------------------------- MODULE Commands -------------------------------
(***************************************************************************)
(* The management commands, one of them chosen at the start.  What the     *)
(* others, and editors, do meanwhile to the documents that it reads is     *)
(* among the actions of its module (Join, Identify).                       *)
(***************************************************************************)
EXTENDS BulkReparse, EnrichmentQueue, FclidAssignment

VARIABLE command

commandVars == <<command, vars, queueVars, fclidVars>>

\* A command that is not run has nothing to do.
NoReparse    == Init /\ max_parse = 0
NoEnrichment == EnrichInit /\ raising = {} /\ refused = {} /\ waiting = {}
NoAssignment == refusing = {} /\ missing = {} /\ loop = [at |-> "ended", page |-> {}]

CommandInit ==
    \/ command = "reparse" /\ Init /\ NoEnrichment /\ NoAssignment
    \/ command = "enrich" /\ NoReparse /\ EnrichInit /\ NoAssignment
    \/ command = "fclid" /\ NoReparse /\ NoEnrichment /\ FclidInit

ReparseCommand == command = "reparse" /\ Next /\ UNCHANGED <<command, queueVars, fclidVars>>

EnrichCommand == command = "enrich" /\ EnrichNext /\ UNCHANGED <<command, vars, fclidVars>>

FclidCommand == command = "fclid" /\ FclidNext /\ UNCHANGED <<command, vars, queueVars>>

CommandNext == ReparseCommand \/ EnrichCommand \/ FclidCommand

CommandSpec ==
    /\ CommandInit /\ [][CommandNext]_commandVars
    /\ command = "enrich" => EnrichFairness
    /\ command = "fclid" => FclidFairness

=============================================================================
