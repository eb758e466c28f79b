SPECIFICATION Spec
CONSTANTS
    MAX_SKIP = 2
    MAX_SKIPPED_CACHE = 3
    None = None
    Initiator = Alice
    Responder = Bob
    MaxInitiatorSends = 6
    MaxResponderSends = 1
    MaxDuplicates = 0
INVARIANT ForwardSecrecyAlways
CHECK_DEADLOCK FALSE
