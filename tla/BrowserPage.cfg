\* The page with message handling, users careful or not.
SPECIFICATION Spec
CONSTANTS
    Files <- MCFiles
    Buttons <- MCButtons
    NotifyIDs = {"GameStart", "GameStop"}
    NoID = "NoID"
    Notify <- MCNotify
    Starters <- MCStarters
    Movers <- MCMovers
    MessageID = "SYS__GLOBAL_MSG"
    MessageHandling = TRUE
    MaxRequests = 3
    MaxItems = 3
    MaxBatch = 2
INVARIANTS
    TypeOK
    LevelCountsOpen
    ShowsOwnAnswer
PROPERTIES
    PageStarts
    PollingGoesOn
CHECK_DEADLOCK FALSE
