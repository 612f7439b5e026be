SPECIFICATION FairSpec
CONSTANTS
    u1 = u1
    u2 = u2
    None = None
    Urls = {u1, u2}
    Guids = {}
    Validators = {}
    MaxFeedId = 2
    Frames <- MCFrames
    KnownHosts = {u1}
    Concurrency = 1
    MaxAdded = 1
    MaxRestarts = 1
INVARIANTS
    TypeOK
    IconOfAnOwner
    EveryRowAsked
PROPERTIES
    KnownIconKept
    PassEnds
