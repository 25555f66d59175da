SPECIFICATION FairSpec
CONSTANTS
    a = a
    b = b
    None = None
    Ids = {a, b}
    Kind <- SomeUnmappable
    Events <- EventsOf
    Deliveries <- TwoRows
    Requests = {r1}
    MaxConcurrent = 1
    MaxAttempts = 2
    BatchSize = 1
    RetryDelay = 1
    Loops = {l1, l2}
    MaxTime = 1
    MaxSent = 1
    MaxStarts = 2
    MaxManual = 1
    MaxCrashes = 0
    MaxDbFaults = 0
CHECK_DEADLOCK FALSE
INVARIANTS
    ProcessedWasEmitted
PROPERTIES
    ProcessedIsFinal
    OutboxProgresses
