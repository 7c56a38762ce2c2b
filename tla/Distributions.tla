--------------------------- MODULE Distributions ---------------------------
(***************************************************************************)
(* The three CloudFront distributions in front of the service, and the     *)
(* invalidations that utils/aws.py issues to them.  An invalidation is     *)
(* asynchronous: create_invalidation returns when the request is accepted, *)
(* and the copies leave the edge some time later.                          *)
(*                                                                         *)
(* A copy is abstracted to the revision of the document it was made from.  *)
(* A fill is atomic: what CloudFront does with a fetch that is in flight   *)
(* when an invalidation completes is not modelled.                         *)
(***************************************************************************)
EXTENDS DocumentStore, Integers

VARIABLES
    rev,      \* rev[u]: how many writes document u has received
    cdn,      \* cdn[d][u]: the revision distribution d serves for u, or NoCopy
    pending   \* pending[d]: URIs covered by invalidations d has yet to complete

Distribution == {"public", "assets", "editor"}

NoCopy == -1

DistributionsTypeOK ==
    /\ rev \in [Uris -> Nat]
    /\ cdn \in [Distribution -> [Uris -> Nat \cup {NoCopy}]]
    /\ pending \in [Distribution -> SUBSET Uris]

DistributionsInit ==
    /\ rev = [u \in Uris |-> 0]
    /\ cdn = [d \in Distribution |-> [u \in Uris |-> NoCopy]]
    /\ pending = [d \in Distribution |-> {}]

\* The paths of each invalidation batch: everything, except that the assets
\* distribution is only asked for the document's own files.
InvalidationPaths(d, u) == IF d = "assets" THEN {u} ELSE Uris

\* create_invalidation is accepted.
CreateInvalidation(d, u) ==
    /\ pending' = [pending EXCEPT ![d] = @ \cup InvalidationPaths(d, u)]
    /\ UNCHANGED <<rev, cdn>>

\* A reader misses the cache and the distribution keeps what the origin serves.
FillCopy(d, u) ==
    /\ cdn[d][u] = NoCopy
    /\ cdn' = [cdn EXCEPT ![d][u] = rev[u]]
    /\ UNCHANGED <<rev, pending>>

\* The accepted invalidations take effect at the edge.
CompleteInvalidation(d) ==
    /\ pending[d] # {}
    /\ cdn' = [cdn EXCEPT ![d] =
                 [u \in Uris |-> IF u \in pending[d] THEN NoCopy ELSE @[u]]]
    /\ pending' = [pending EXCEPT ![d] = {}]
    /\ UNCHANGED rev

\* Distribution d still serves a copy of u older than revision r.
ServesOlder(d, u, r) == cdn[d][u] # NoCopy /\ cdn[d][u] < r

=============================================================================
