\* Two workers, one document, every distribution, failing calls: writes reach readers.
SPECIFICATION FairSpec
CONSTANTS
    Uris = {u1}
    Ncns = {}
    OtherIds = {}
    NoNcn = NoNcn
    Workers = {w1, w2}
    Handlers = {"publish"}
    Failures = TRUE
    Readers = {"public", "assets", "editor"}
    MaxRequests = 2
    MaxRevision = 2
INVARIANT AckedWritesCovered
PROPERTY WritesReachReaders
CHECK_DEADLOCK FALSE
