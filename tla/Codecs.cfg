SPECIFICATION Spec
CONSTANTS
    LenModulus = 32
    MIN_BUCKET = 4
    MAX_POW2_BUCKET = 8
    Account = {0, 1, 2}
    MaxPayload = 17
    MaxBuffer = 5
    None = None
INVARIANTS DeliveredIntact LengthIsLeastSize FramingExact
CHECK_DEADLOCK FALSE
