SPECIFICATION MCFairSpec
CONSTANTS
    c1 = c1
    c2 = c2
    i1 = i1
    i2 = i2
    rpcA = rpcA
    rpcB = rpcB
    jitoA = jitoA
    jitoB = jitoB
    g1 = g1
    None = None
    Calls = {c1, c2}
    Intent <- OwnIntent
    Intents <- BundledIntents
    Submitters = {rpcA, rpcB, jitoA, jitoB}
    Jito = {jitoA, jitoB}
    JitoOrder <- JitoPair
    MaxPerBundle = 2
    Cooldown = 1
    MaxTime = 2
    a = a
    b = b
    ra = ra
    rb = rb
    wa = wa
    wb = wb
    NoRecord = NoRecord
    Ids = {a}
    Records = {ra}
    Id <- OneId
    Wallet <- OneWallet
    Hooks <- QuietHooks
    Matches <- OneMatches
    MaxDecisions = 2
    DecisionWindow = 1
    MaxErrors = 0
    ErrorWindow = 2
    MaxLoss = 1
    MaxDrawdown = 5
    MaxOpen = 1
    DayLength = 5
    Pnl <- Losses
    MaxTrades = 1
    MaxSignals = 3
    MaxTicks = 0
    MaxStarts = 1
    MaxPauses = 1
    MaxFaults = 1
    MaxInstant = 1
    Deregs = {d1}
CHECK_DEADLOCK FALSE
INVARIANTS
    BundlesAreSound
    RuntimeSafe
PROPERTIES
    EveryCallSettles
    RuntimeDrains
