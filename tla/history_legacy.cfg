\* Two versions, one of them with a payload that cannot be read.
SPECIFICATION Spec
CONSTANTS
    MaxVersion = 2
    Kinds = {"submission", "bad_event"}
INVARIANT LegacyOnlyUnstructured
CHECK_DEADLOCK FALSE
