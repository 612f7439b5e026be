SPECIFICATION Spec
CONSTANTS
    u1 = u1
    u2 = u2
    a1 = a1
    a2 = a2
    b1 = b1
    None = None
    Urls = {u1, u2}
    Guids = {a1, a2}
    Validators <- Bodies
    Publisher <- MCPublisher
    Dates <- MCDates
    MaxFeedId = 1
    BaseInterval = 2
    MaxBackoff = 4
    MinRetryAfter = 1
    RetryAfters = {3}
    Grace = 1
    Retention = 4
    MaxPolls = 1
    MaxTickTime = 1
    MaxTime = 6
    MaxEdits = 2
    MaxRestarts = 1
INVARIANT StoredUnderOwnFeed
