SPECIFICATION MCFairSpec
CONSTANTS
    None = None
    d1 = d1
    d2 = d2
    d3 = d3
    Rows = {q1, q2}
    Daemons = {d1}
    Slots = {s1, s2}
    Backend = "memory"
    Mode <- AllLive
    HasInventory = FALSE
    Kinds = {"good", "escalated", "unroutable"}
    TTLs = {1}
    BatchSize = 1
    MaxTime = 1
    DayLength = 1
    MaxConsecutiveFailures = 2
    MaxDailyLossUsd = 2
    PnLs <- LossOrNothing
    Faults = {}
    MaxResets = 1
    Focuses = {"daemons", "orders", "observer", "triangles"}
    Users = {u1, u2}
    ScanPairs = {p1, p2}
    Adapters = {x1, x2}
    Rates = {1, 3}
    Cost = 1  MinNet = 0
    StaleQuote = 1  QueueTtl = 1
    ScanSlots = {s1, s2}
    Routes = 3  PerTick = 2
    MaxScans = 1  MaxVisits = 2  MaxLate = 2
    Apis = {"kraken", "coinbase", "binance-us", "gemini"}
    OrderCalls = {c1, c2}
    Costs = {60, 101}
    MAX_POSITION_USD = 100
    Retries = 2
    MaxApiFaults = 2
INVARIANTS Ownership AuditTruthful ClosedBelowLimits EdgesSafe
PROPERTIES RowsOnlyAdvance DeadRowsSwept ClaimedIsResolved OrdersAnswered
CHECK_DEADLOCK FALSE
