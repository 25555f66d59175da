SPECIFICATION Spec
CONSTANTS
    a = a
    b = b
    None = None
    Ids = {a, b}
    Kind <- SomeCorrupt
    Events <- EventsOf
    Deliveries <- Bodies
    Requests = {r1, r2, r3}
    MaxConcurrent = 2
    MaxAttempts = 2
    BatchSize = 2
    RetryDelay = 1
    Loops = {l1}
    MaxTime = 1
    MaxSent = 3
    MaxStarts = 1
    MaxManual = 0
    MaxCrashes = 1
    MaxDbFaults = 1
SYMMETRY RequestSymmetry
CHECK_DEADLOCK FALSE
INVARIANTS
    TypeOK
    AckedIsPersisted
    ServiceIsSound
PROPERTIES
    ImplementsDelivery
