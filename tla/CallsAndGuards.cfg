SPECIFICATION MCSpec
CONSTANTS
    c1 = c1
    c2 = c2
    i1 = i1
    i2 = i2
    rpcA = rpcA
    rpcB = rpcB
    jitoA = jitoA
    jitoB = jitoB
    g1 = g1
    None = None
    Calls = {c1, c2}
    Intent <- SharedIntent
    Intents <- RetriedIntents
    Submitters = {rpcA, rpcB, jitoA, jitoB}
    Jito = {jitoA, jitoB}
    JitoOrder <- JitoPair
    MaxPerBundle = 2
    Cooldown = 1
    MaxTime = 2
    a = a
    b = b
    ra = ra
    rb = rb
    wa = wa
    wb = wb
    NoRecord = NoRecord
    Ids = {a, b}
    Records = {ra, rb}
    Id <- TwoIds
    Wallet <- TwoWallets
    Hooks <- ChangeHooks
    Matches <- TwoMatches
    MaxDecisions = 2
    DecisionWindow = 2
    MaxErrors = 0
    ErrorWindow = 2
    MaxLoss = 1
    MaxDrawdown = 5
    MaxOpen = 1
    DayLength = 5
    Pnl <- Swings
    MaxTrades = 2
    MaxSignals = 1
    MaxTicks = 1
    MaxStarts = 1
    MaxPauses = 0
    MaxFaults = 0
    MaxInstant = 0
    Deregs = {}
CHECK_DEADLOCK FALSE
INVARIANTS
    CallsShareTheTruth
    DoubleLandingIsAmbiguous
    GuardsAreTrue
