---------------------------- MODULE FclidAssignment ----------------------------
(***************************************************************************)
(* One run of the command assign_missing_fclids: page after page of the    *)
(* documents without a Find Case Law identifier, until a page is empty.    *)
(***************************************************************************)
EXTENDS Integers, FiniteSets, FiniteSetsExt

CONSTANTS
    NumberPerLoop,  \* NUMBER_PER_LOOP
    Unidentified    \* the documents that may lack an identifier

ASSUME FclidAssumption == NumberPerLoop \in Nat \ {0} /\ IsFiniteSet(Unidentified)

VARIABLES
    refusing,  \* the documents whose identifiers do not validate, or that get none
    missing,   \* the documents without an identifier
    loop       \* the page in hand, and whether the command goes on

fclidVars == <<refusing, missing, loop>>

FclidInit ==
    /\ refusing \in SUBSET Unidentified
    /\ missing \in SUBSET Unidentified
    /\ loop = [at |-> "fetch", page |-> {}]

\* get_missing_fclid: as many as fit a page, in no order that is relied on.
Fetched == kSubset(IF Cardinality(missing) < NumberPerLoop THEN Cardinality(missing)
                                                            ELSE NumberPerLoop, missing)

\* Seeded fault: the last page is told by its being short.
HastyFetch ==
    /\ loop.at = "fetch"
    /\ \E page \in Fetched :
         loop' = [at |-> IF Cardinality(page) < NumberPerLoop THEN "ended" ELSE "assign",
                  page |-> page]
    /\ UNCHANGED <<refusing, missing>>

\* The head of the while loop, total being the size of the page.
Fetch ==
    /\ loop.at = "fetch"
    /\ \E page \in Fetched :
         loop' = [at |-> IF page = {} THEN "ended" ELSE "assign", page |-> page]
    /\ UNCHANGED <<refusing, missing>>

Went(page) == loop' = [at |-> IF page = {} THEN "fetch" ELSE "assign", page |-> page]

\* Seeded fault: the command returns at the first document that is refused.
FatalAssign ==
    /\ loop.at = "assign"
    /\ \E d \in loop.page :
         IF d \in refusing
         THEN loop' = [at |-> "ended", page |-> {}] /\ UNCHANGED missing
         ELSE Went(loop.page \ {d}) /\ missing' = missing \ {d}
    /\ UNCHANGED refusing

\* assign_fclid_if_missing: a document that gets no identifier, or whose
\* identifiers do not validate, is reported and left.
Assign ==
    /\ loop.at = "assign"
    /\ \E d \in loop.page :
         /\ Went(loop.page \ {d})
         /\ missing' = IF d \in refusing THEN missing ELSE missing \ {d}
    /\ UNCHANGED refusing

\* Any other exception ends the command, and so does Ctrl-C.
Raise ==
    /\ loop.at \in {"fetch", "assign"}
    /\ loop' = [at |-> "raised", page |-> {}]
    /\ UNCHANGED <<refusing, missing>>

\* An editor gives a document its identifier meanwhile.
Identify ==
    /\ loop.at \in {"fetch", "assign"}
    /\ \E d \in missing : missing' = missing \ {d}
    /\ UNCHANGED <<refusing, loop>>

FclidNext == Fetch \/ Assign \/ Raise \/ Identify

FclidFairness == WF_fclidVars(Fetch \/ Assign)

-----------------------------------------------------------------------------

\* The command ends of itself only when every document has its identifier.
EndsWhenAllAssigned == loop.at = "ended" => missing = {}

\* Unless an exception ends it, the command gives every document that takes one
\* its identifier, as long as those that do not are fewer than a page, and
\* whatever the order of the pages; and it ends if there are none of these.  They
\* are fetched again with every page (the while loop of handle).
OthersAssigned ==
    /\ Cardinality(refusing) < NumberPerLoop =>
         <>(loop.at = "raised" \/ missing \subseteq refusing)
    /\ refusing = {} => <>(loop.at \in {"raised", "ended"})

=============================================================================
