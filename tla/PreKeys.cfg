SPECIFICATION FairSpec
CONSTANTS
    Peer = {Alice, Carol}
    Minted = 1
    LowWater = 1
    Target = 2
    None = None
    MaxFaults = 3
    MaxWrites = 1
INVARIANTS OneSessionPerPrekey PublishedSurvive RefusedOnlyIfTaken MismatchOnlyIfExposed
PROPERTY ReplenishEnds
CHECK_DEADLOCK FALSE
