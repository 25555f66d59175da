SPECIFICATION MCSpec
CONSTANTS
    Foci = {"assembly"}
    VaultCalls = {u1, u2}
    SignCalls = {}
    Seeds = {s1, s2}
    Phrases = {old, new, weak}
    ValidPhrases = {old, new}
    Balance0 = 2
    ReserveLamports = 1
    Spend = 1
    MaxAuditErrors = 1
    Nobody = Nobody
    ZeroKey = ZeroKey
    Procs = {"p", "q"}
    Rows = {"r"}
    PgBatchSize = 2
    MaxAttempts = 2
    MaxTries = 3
    MaxPools = 2
    MaxBuy = 3
    MaxCost = 2
    MaxTrades = 4
    startCapital = 16
    tradeSize = 8
    maxConcurrent = 2
    hold = 1
    hardStopPct = 50
    takeProfitMultiple = 4
    trailingStopPct = 50
    trailingActivationMultiple = 2
    exitSlippagePct = 50
    dayLength = 2
    days = 2
    Prices = {1, 2, 4}
    MaxPoints = 3
    MaxHistory = 2
    Mints = {"m"}
    Wallets = {"w1", "w2"}
    Tiers5 = {"S", "A"}
    None = "none"
    Times = {1, 2, 3}
    MaxRows = 2
    MaxInits = 2
    BpsScale = 10000
    FeeBps = 3000
    VerifiedPrograms <- TwoPrograms
    BatchSize = 1
    PageLimit = 2
    Recipients = {"r1"}
    Amounts = {0, 1}
    MaxMoves = 3
    Keys = {"p", "a", "b", "c"}
    Programs = {"prog"}
    Payer = "p"
    TableSet <- CrossedTables
    MaxMentions = 3
    MaxInstructions = 1
    DecoderOf <- Decoders
    MaxInvocations = 2
    MaxWrites = 2
    MaxLate = 1
    Scalars = {0, 1, 2, 3, 4, 5, 6, 7, 8, 9}
    Noise = {0, 5}
    Extensions <- TokenExtensions
    Names <- TokenNames
    TokenHolders = {a1, a2}
    FastLimit = 1
    Radix = 4
    Layouts <- IdlLayouts
    EventFields <- IdlEventFields
    windowSlots = 2
    warmupSlots = 2
    Rates = {1, 4}
    MaxSlot = 3
    MaxUpdates = 4
    Uris = {"u", "v", "w"}
    cap = 2
    fileCacheDir = TRUE
    MaxFetches = 3
    MaxRestarts = 1
    Calls = {"c", "d"}
    Addresses = {"x"}
    WebhookBodies <- HeliusBodies
    Headers <- AuthHeaders
    Secret <- AuthSecret
    Threshold = 1
    MaxEdits = 1
    MaxAdminNow = 2
    MaxReceived = 1
CHECK_DEADLOCK FALSE
INVARIANTS
    LookupsReadBack
