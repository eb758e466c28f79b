SPECIFICATION FairSpec
CONSTANTS
    Node = {a, b, c, d}
    Link = {{a, b}, {b, c}, {a, c}, {c, d}}
    Ttl = 2
    SEEN_CAP = 2
    STORE_CAP = 2
    MaxMessages = 2
    MaxRestarts = 0
INVARIANT ProcessedOnceWithinCap
PROPERTY ReachesRecipient
CHECK_DEADLOCK FALSE
