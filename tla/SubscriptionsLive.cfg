SPECIFICATION FairSpec
CONSTANTS
    s1 = s1
    s2 = s2
    u1 = u1
    u2 = u2
    None = None
    Urls = {u1}
    Guids = {}
    Validators = {}
    MaxFeedId = 2
    Sockets = {s1, s2}
    Frames <- MCFramesOne
    MaxRestarts = 1
    MaxFaults = 0
PROPERTIES
    OverflowEndsHandler
    IdleFeedReclaimed
