SPECIFICATION Spec
CONSTANTS
    MAX_SKIP = 2
    MAX_SKIPPED_CACHE = 2
    None = None
    Initiator = Alice
    Responder = Bob
    MaxInitiatorSends = 5
    MaxResponderSends = 3
    MaxDuplicates = 1
INVARIANTS TypeOK KeysUnique CacheBounded NoReplay ForwardSecrecy
PROPERTIES RefusedOnlyByLimits ImplementsChannel
CHECK_DEADLOCK FALSE
