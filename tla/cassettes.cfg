\* Three pages, two users, up to three recorded answers.
SPECIFICATION Spec
CONSTANTS
    results = results
    page2 = page2
    document = document
    Address <- MCAddress
    Question <- MCQuestion
    Asks <- MCAsks
    User = {"alice", "bob"}
    MaxRevision = 1
    MaxInteractions = 3
    Unknown = Unknown
INVARIANT TypeOK
PROPERTY PlaysWhatWasRecorded
