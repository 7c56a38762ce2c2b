\* One worker, failing calls: the edit form is sent again.
SPECIFICATION Spec
CONSTANTS
    Uris = {u1}
    Ncns = {n1, n2}
    OtherIds = {}
    NoNcn = NoNcn
    Workers = {w1}
    Handlers = {"edit"}
    Failures = TRUE
    Readers = {}
    MaxRequests = 2
    MaxRevision = 2
INVARIANT EditedCitationStored
CHECK_DEADLOCK FALSE
