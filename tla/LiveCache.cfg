SPECIFICATION FairSpec
CONSTANTS
    Channels = {c1}
    Requests = {r1, r2, r3}
    VideoIds = {v1}
    Pages <- MCPages
    LiveTTL = 2
    StaleTTL = 5
    MaxTime = 7
    None = None
INVARIANTS
    TypeOK
    NoResurrection
    AnswersAreRecent
PROPERTIES
    RateCeiling
    AnsweredUnlessHung
CHECK_DEADLOCK FALSE
