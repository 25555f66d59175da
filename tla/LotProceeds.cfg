SPECIFICATION LotsSpec
CONSTANTS
    MaxBuy = 2
    MaxCost = 9
    MaxTrades = 2
INVARIANTS
    ProceedsAreCounted
CHECK_DEADLOCK FALSE
