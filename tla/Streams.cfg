SPECIFICATION MCSpec
CONSTANTS
    NSubs = 2
    QueueCapacity = 2
    CheckpointEvery = 2
    MaxTip = 3
    LateSlots = {2}
    MaxCrashes = 1
    MaxFaults = 1
    StreamRequests = {r1, r2}
    RecentCapacity = 2
    BaseDelay = 1
    MaxDelay = 3
    MaxTx = 3
    MaxDrops = 3
    PageSize = 2
    Chunk = 2
    MaxChain = 3
    MaxSlot = 2
    MaxNulls = 1
CHECK_DEADLOCK FALSE
INVARIANTS
    StreamsSafe
    HistoryIsExact
    RebuiltLotsAreTrue
PROPERTIES
    
    StreamsRecover
