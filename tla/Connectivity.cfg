SPECIFICATION MCSpec
CONSTANTS
    Requests = {r1, r2, r3}
    HttpAttempts = 2
    FailureThreshold = 2
    HttpRecovery = 1
    NoRequest = NoRequest
    EndpointCount = 2
    Calls = {c1, c2}
    PoolAttempts = 2
    DegradeThreshold = 1
    UnhealthyThreshold = 2
    BaseCooldown = 1
    MaxCooldown = 2
CHECK_DEADLOCK FALSE
INVARIANTS
    ConnectivitySafe
PROPERTIES
    ProbesAreSpaced
    CallsSettle
