\* Up to eight pages of a list, and every request of a reader; then a judgment
\* and two press summaries, in every state.
SPECIFICATION SiteSpec
CONSTANTS
    PerPage = 2
    Years = {2020, 2021}
    Collections <- MCCollections
    MaxPage = 9
    Judgments <- MCJudgments
    PressSummaries <- MCPressSummaries
    Uuids <- MCUuids
    MetadataFlag = TRUE
    Opened <- MCOpened
INVARIANTS
    TypeOK
    BarComplete
    WalkShowsList
    ListIsAsAsked
    LinksResolve
    ItemSelected
    ErrorsComeOfChanges
PROPERTY RedirectsEnd
