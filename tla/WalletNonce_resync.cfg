SPECIFICATION MCSpec
CONSTANTS
    s1 = s1
    None = None
    Calls = {c1, c2, c3}
    Services = {s1}
    Regimes <- OverlapWithReverts
    MaxCrashes = 0
    Opps = {o1}
    Sizes = {1}
    Unmet = Unmet
    Balance = 0
    MaxOutside = 0
    MaxOverrun = 0
    NoRead = NoRead
    DexVenues = {"jupiter"}
    MaxSwaps = 1
    DexSizes = {2}
    DexMaxUsd = 2
    DexSlippage = 1
    MaxDexFaults = 0
    Untold = Untold
INVARIANTS NoDoubleUse
CHECK_DEADLOCK FALSE
