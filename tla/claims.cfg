\* Two workers, one document: forms of any age interleave and fail.
SPECIFICATION Spec
CONSTANTS
    Workers = {w1, w2}
    Single = {"court"}
    Multiple = {"judges"}
    Values = {"c1", "c2", "j1", "j2"}
    Body <- MCBody
    Additions <- MCAdditions
    MaxClaims = 3
INVARIANTS
    TypeOK
    OneCurrent
PROPERTIES
    FormAppliedWhole
    NothingComesBack
SYMMETRY Symmetry
