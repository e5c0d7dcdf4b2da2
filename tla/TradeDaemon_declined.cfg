SPECIFICATION Spec
CONSTANTS
    None = None
    d1 = d1
    d2 = d2
    d3 = d3
    Rows = {q1, q2, q3}
    Daemons = {d1}
    Slots = {s1, s2}
    Backend = "memory"
    Mode <- AllLive
    HasInventory = FALSE
    Kinds = {"good"}
    TTLs = {1}
    BatchSize = 2
    MaxTime = 0
    DayLength = 1
    MaxConsecutiveFailures = 2
    MaxDailyLossUsd = 2
    PnLs <- NoPnL
    Faults = {}
    MaxResets = 0
PROPERTIES DeclinedSparesCircuit
CHECK_DEADLOCK FALSE
