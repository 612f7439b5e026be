SPECIFICATION FairSpec
CONSTANTS
    u1 = u1
    u2 = u2
    a1 = a1
    a2 = a2
    b1 = b1
    None = None
    Urls = {u1, u2}
    Guids = {a1}
    Validators <- Bodies
    Publisher <- MCPublisher
    Dates <- MCOneDate
    MaxFeedId = 2
    BaseInterval = 2
    MaxBackoff = 4
    MinRetryAfter = 1
    RetryAfters = {0, 3}
    Grace = 1
    Retention = 4
    MaxPolls = 2
    MaxTickTime = 1
    MaxTime = 1
    MaxEdits = 1
    MaxRestarts = 0
INVARIANT OnePollPerFeed
PROPERTIES
    SuccessMovesForward
    DueIsPolled
