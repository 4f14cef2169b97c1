SPECIFICATION MCSpec
CONSTANTS
    MaxDistance = 4
    Short <- MCShort
    MaxSize = 2
    Capacities = {0, 2, 3}
    BeaconLimit = 3
    Root = {1}
    LastPeriod = 2
    LastUpdateSlot = 2
    Blob = {1, 2}
    None = None
    Failed = Failed
    EPOCH_SIZE = 2
    MERGE_BLOCK_NUMBER = 2
    TreeDepth = 3
    Validator = {"v1", "v2"}
    Asked <- MCAsked
INVARIANTS
    StoredWithinRadius
    TreeIsItsLeaves
    ValidIsOfItsKey
PROPERTIES
    RadiusShrinks
    PruneKeepsFull
    PruneEnds
    KeepsPromise
    BeaconKeepsPromise
    ValidationsEnd
CHECK_DEADLOCK FALSE
