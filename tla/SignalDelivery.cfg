SPECIFICATION MCSpec
CONSTANTS
    None = None
    Signals = {s1, s2}
    Names = {c1, c2}
    Capacity = 2
    DedupWindow = 1
    DedupTtl = 1
    MaxTime = 1
    MaxPushes = 3
    MaxSubscribes = 3
    MaxDrains = 1
    p1 = p1
    p2 = p2
    c1 = c1
    c2 = c2
    Producers = {p1, p2}
    Consumers = {c1, c2}
    BusSignals = {s1, s2}
    IdOf <- MCIdOf
    Accepts <- MCAccepts
    BusDedupWindow = 1
    BusDedupTtl = 1
    Absent = Absent
    MaxBusTime = 1
    MaxEmits = 2
    MaxRegisters = 3
    Blocks <- MCBlocks
    Skipped <- MCSkipped
    MaxSlot = 3
    BatchSize = 2
    MaxReplays = 1
CHECK_DEADLOCK FALSE
INVARIANTS
    QueueSafe
    BusSafe
    SourcesSafe
PROPERTIES
    StoppedStaysQuiet
    DeliveryEnds
