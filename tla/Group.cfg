SPECIFICATION FairSpec
CONSTANTS
    Client = {a, b, c}
    Creator = a
    None = None
    MaxCalls = 7
    MaxMessages = 1
INVARIANTS SplitOnlyByRace MembersAsAsked ReadOnlyByAudience
PROPERTY EveryoneCatchesUp
CHECK_DEADLOCK FALSE
