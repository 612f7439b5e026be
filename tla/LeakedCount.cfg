SPECIFICATION Spec
CONSTANTS
    s1 = s1
    s2 = s2
    u1 = u1
    u2 = u2
    None = None
    Urls = {u1, u2}
    Guids = {}
    Validators = {}
    MaxFeedId = 3
    Sockets = {s1, s2}
    Frames <- MCFrames
    MaxRestarts = 1
    MaxFaults = 0
INVARIANT CountsFromOpenSockets
