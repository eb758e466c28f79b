SPECIFICATION Spec
CONSTANTS
    Node = {a, b, c, d}
    Link = {{a, b}, {b, c}, {c, d}}
    Ttl = 2
    SEEN_CAP = 1
    STORE_CAP = 1
    MaxMessages = 2
    MaxRestarts = 1
INVARIANTS IndicesAgree TtlBoundsReach
CHECK_DEADLOCK FALSE
