SPECIFICATION MCSpec
CONSTANTS
    None = None
    d1 = d1
    d2 = d2
    d3 = d3
    Rows = {q1, q2}
    Daemons = {d1, d2, d3}
    Slots = {s1}
    Backend = "supabase"
    Mode <- TwoLiveOnePaper
    HasInventory = TRUE
    Kinds = {"good"}
    TTLs = {1}
    BatchSize = 1
    MaxTime = 0
    DayLength = 2
    MaxConsecutiveFailures = 1
    MaxDailyLossUsd = 2
    PnLs <- NoPnL
    Faults = {"crash", "db", "external_trip"}
    MaxResets = 1
    Focuses = {"daemons"}
    Users = {u1}  ScanPairs = {p1}  Adapters = {x1}
    Rates = {1}  Cost = 1  MinNet = 0
    StaleQuote = 1  QueueTtl = 1
    ScanSlots = {s1}
    Routes = 1  PerTick = 1
    MaxScans = 0  MaxVisits = 0  MaxLate = 0
    Apis = {"kraken"}  OrderCalls = {c1}  Costs = {60}
    MAX_POSITION_USD = 100
    Retries = 1
    MaxApiFaults = 0
SYMMETRY Symm
INVARIANTS AtMostOnce LateExecutionsBounded
PROPERTY ImplementsQueue
CHECK_DEADLOCK FALSE
