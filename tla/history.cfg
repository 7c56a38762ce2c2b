\* Up to five versions of any kind.
SPECIFICATION Spec
CONSTANTS
    MaxVersion = 5
    Kinds = {"submission", "event", "legacy", "bad_submission", "bad_event", "keyless"}
INVARIANTS
    TypeOK
    EventsInOrder
    SubmissionsNumbered
    GroupedBySubmission
    OrphansFollowBreak
CHECK_DEADLOCK FALSE
