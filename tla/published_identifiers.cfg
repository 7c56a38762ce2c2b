\* One worker: the edit form on a published document.
SPECIFICATION Spec
CONSTANTS
    Uris = {u1}
    Ncns = {n1, n2}
    OtherIds = {}
    NoNcn = NoNcn
    Workers = {w1}
    Handlers = {"edit"}
    Failures = FALSE
    Readers = {}
    MaxRequests = 1
    MaxRevision = 1
PROPERTY PublishedIdentifiersKept
CHECK_DEADLOCK FALSE
