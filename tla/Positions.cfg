SPECIFICATION MCFairSpec
CONSTANTS
    v1 = v1
    p1 = p1
    p2 = p2
    m1 = m1
    m2 = m2
    xch = xch
    kra = kra
    Venues = {v1}
    Pairs = {p1, p2}
    Kinds = {"cex", "gemini", "dex"}
    MaxCrashes = 1
    MaxUserMoves = 1
    NumCoins = 2
    MaxCoins = 1
    IntervalTime = 4
    PollTime = 2
    FlushTimes = {0}
    LastTime = 8
    MaxDcaSlips = 1
    Mints = {m1, m2}
    MaxPositions = 1
    Throttles = {TRUE, FALSE}
    MaxPumpSlips = 1
    MaxRequests = 1
    TradingEnvs = {TRUE, FALSE}
    Exchanges = {xch, kra}
    Kraken = kra
    Assuming = {kra}
    ArbPairs = {p1, p2}
    SeedPerPair = 30
    SeedGlobal = 40
    SeedMin = 10
    SeedCooldown = 2
    SeedEvalWindow = 2
    SeedPause = 5
    LiquidateSlice = 30
    LiquidateMin = 15
    LiquidateCooldown = 2
    WantUsd = 15
    MinExecutable = 5
    MaxPosition = 100
    FetchTime = 1
    RateLimitWait = 1
    LockoutWait = 1
    MaxLockoutWait = 2
    ArbFlushTime = 2
    Accounts <- MCAccounts
    ArbLastTime = 4
    MaxArbSlips = 1
    ScanOrder <- TwoPairs
    BarsOf <- MCBars
    Gaps = {1, 15}
    FirstMinute = 1420
    MaxBars = 4
    BtLastDay = 1
    SlipTicks = 1
    RoundFee = 6
    DayLossLimit = 10
INVARIANTS MCTypeOK OneHoldingPerVenue WorkersSafe
PROPERTY MCHoldingsManaged
CHECK_DEADLOCK FALSE
