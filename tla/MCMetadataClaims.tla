--------------------------- MODULE MCMetadataClaims ---------------------------
(* The court, and the judges, of whom editors may add one again.  Forms have   *)
(* new claims of either field and of both, and two for one field.              *)
EXTENDS MetadataClaims, TLC

MCBody == [f \in Fields |-> IF f = "judges" THEN {"j1", "j2"} ELSE {"c1"}]

MCAdditions == {
    <<>>,
    <<<<"court", "c2">>>>,
    <<<<"judges", "j1">>>>,
    <<<<"court", "c2">>, <<"court", "c1">>>>,
    <<<<"court", "c2">>, <<"judges", "j1">>>>,
    <<<<"court", "c2">>, <<"court", "c1">>, <<"judges", "j1">>>>}

Symmetry == Permutations(Workers)

=============================================================================
