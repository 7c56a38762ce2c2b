-------------------------------- MODULE MCSite --------------------------------
(* A judgment of the Administrative Court, whose address has a word of the     *)
(* site's own within it, its press summary, a press summary at an address of   *)
(* its own, and one identifier.                                                *)
EXTENDS Site, MCDocumentLists

MCJudgments == {<<"ewhc", "admin", "1">>}

MCPressSummaries == {<<"ewhc", "admin", "1", "press-summary", "1">>, <<"d-1">>}

MCOpened == {CHOOSE store \in MCCollections : Cardinality(store) = 15}

MCUuids == {<<"id-1">>}

=============================================================================
