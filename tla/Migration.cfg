SPECIFICATION Spec
CONSTANTS
    Databases <- MCDatabases
    Clients <- MCClients
    MaxFeedId = 4
    MaxCrashes = 2
    Now = 3
    Retention = 1
INVARIANTS
    TypeOK
    StampedMeansMigrated
    HistoryReachable
PROPERTIES
    UrlsFixedOnceMigrated
    SweepSparesRecent
