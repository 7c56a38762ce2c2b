\* One worker, failing calls: the forms in any order, and sent again.
SPECIFICATION HistorySpec
CONSTANTS
    Uris = {u1}
    Ncns = {n1, n2}
    OtherIds = {}
    NoNcn = NoNcn
    Workers = {w1}
    Handlers = {"edit", "hold", "unhold", "publish", "unpublish", "stub", "upload"}
    Failures = TRUE
    Readers = {}
    MaxRequests = 3
    MaxRevision = 3
INVARIANTS
    TypeOK
    SequentialFormPrefix
    CitationStoredUnlessCut
    CitationIdentifiedUnlessCut
SYMMETRY Symmetry
CHECK_DEADLOCK FALSE
