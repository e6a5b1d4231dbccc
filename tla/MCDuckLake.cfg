SPECIFICATION LakeSpec
CONSTANTS
    CatalogTypes <- AllTypes
    Clients = {1, 2}
    Retention <- TwoRetentions
    StoredOptions <- EarlierOptions
    MaxCommits = 3
    MaxAge = 3
INVARIANTS
    OpenIsComplete
    HistoryKept
PROPERTIES
    MaintenanceCreatesNothing
    SuccessExpires
