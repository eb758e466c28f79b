SPECIFICATION StoredSpec
CONSTANTS
    MAX_SKIP = 2
    MAX_SKIPPED_CACHE = 1
    None = None
    Initiator = Alice
    Responder = Bob
    MaxInitiatorSends = 3
    MaxResponderSends = 1
    MaxDuplicates = 1
    MaxCrashes = 1
INVARIANTS KeysReusedOnlyIfLost OneMessagePerKey StoredForwardSecrecy
PROPERTIES StoredNeverReplayed ImplementsChannelUnlessLost RestartIsInvisible EnclaveErrorsUndone
CHECK_DEADLOCK FALSE
