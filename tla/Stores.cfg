SPECIFICATION MCSpec
CONSTANTS
    Mints = {m1}
    MaxOps = 2
    Passes = {p1, p2}
    MaxAmount = 1
    MaxLandings = 2
    MaxFaults = 1
    k1 = k1
    k2 = k2
    Keys = {k1, k2}
    Values = {v1, v2}
    PathOf <- OwnPath
    MaxSaves = 2
    MaxIoErrors = 1
    Missing = Missing
    Torn = Torn
    MaxSignals = 3
    TradeLists <- Landings
CHECK_DEADLOCK FALSE
INVARIANTS
    StoresSafe
    BacktestSafe
PROPERTIES
    StoreIsAtomic
    StoresSettle
