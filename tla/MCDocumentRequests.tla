------------------------ MODULE MCDocumentRequests ------------------------
(***************************************************************************)
(* Small instances of DocumentRequests for TLC.                            *)
(***************************************************************************)
EXTENDS DocumentRequests, TLC

\* Workers are interchangeable, and so are neutral citations.
WorkerSymmetry == Permutations(Workers)
Symmetry == WorkerSymmetry \cup Permutations(Ncns)

=============================================================================
