\* Two workers, one document: every handler, interleaving and failing.
SPECIFICATION Spec
CONSTANTS
    Uris = {u1}
    Ncns = {n1, n2}
    OtherIds = {f1}
    NoNcn = NoNcn
    Workers = {w1, w2}
    Handlers = {"publish", "unpublish", "hold", "unhold", "delete", "edit", "add_identifier", "delete_identifier", "stub", "upload"}
    Failures = TRUE
    Readers = {}
    MaxRequests = 2
    MaxRevision = 2
PROPERTIES
    PublishedDeletedOnlyIfStale
    IdentifierLossExplained
SYMMETRY Symmetry
CHECK_DEADLOCK FALSE
