\* The three commands, each by itself.
SPECIFICATION CommandSpec
CONSTANTS
    MaxTry = 4
    MaxParse = 3
    NumberToEnrich = 2
    MaxQueue = 4
    NumberPerLoop = 2
    Unidentified = {d1, d2, d3}
INVARIANTS
    TypeOK
    RowMatchesSends
    FinishedAccountsForAll
    SendsBounded
    EndsWhenAllAssigned
PROPERTIES
    RunLogImplemented
    HeadEnriched
    OthersAssigned
CHECK_DEADLOCK FALSE
