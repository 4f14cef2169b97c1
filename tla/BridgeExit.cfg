SPECIFICATION HistorySpec
CONSTANTS
    None = None
    Failed = Failed
    EPOCH_SIZE = 2
    MERGE_BLOCK_NUMBER = 2
    GOSSIP_LIMIT = 2
    MaxBlock = 4
    Uncled = {1}
    MAX_NODE_COUNT = 16
    BATCH_LIMIT = 3
    RETRY_ATTEMPTS = 3
    MERGE_TIMESTAMP = 2
    SHANGHAI_TIMESTAMP = 3
    GOSSIP_RETRY_COUNT = 3
    MaxPeriod = 2
    SLOTS_PER_PERIOD = 1
    MaxRounds = 2
    MaxPartial = 1
    SlotsPerPeriod = 3
    SlotsPerEpoch = 2
    CommitteeSize = 2
    MaxSlot = 5
    MaxUpdates = 2
INVARIANT
    BackfillFinishesBlocks
CHECK_DEADLOCK FALSE
