\* One worker: the upload form on a published document.
SPECIFICATION Spec
CONSTANTS
    Uris = {u1}
    Ncns = {n1}
    OtherIds = {}
    NoNcn = NoNcn
    Workers = {w1}
    Handlers = {"upload", "publish"}
    Failures = FALSE
    Readers = {}
    MaxRequests = 2
    MaxRevision = 2
PROPERTY UploadsOnlyUnpublished
CHECK_DEADLOCK FALSE
