SPECIFICATION MCFairSpec
CONSTANTS
    s1 = s1
    None = None
    Calls = {c1, c2, c3}
    Services = {s1, s2}
    Regimes <- AllRegimes
    MaxCrashes = 1
    Opps = {o1, o2}
    Sizes = {1, 2}
    Unmet = Unmet
    Balance = 3
    MaxOutside = 1
    MaxOverrun = 1
    NoRead = NoRead
    DexVenues = {"uniswap-v3", "jupiter", "pumpfun"}
    MaxSwaps = 2
    DexSizes = {2, 3}
    DexMaxUsd = 2
    DexSlippage = 1
    MaxDexFaults = 2
    Untold = Untold
INVARIANTS MCTypeOK NoncesSound LedgerHonest ExecutorsHonest
PROPERTIES SubmittedIsMined CallsReturn
CHECK_DEADLOCK FALSE
