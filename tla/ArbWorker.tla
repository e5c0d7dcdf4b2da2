---- MODULE ArbWorker ----
(***************************************************************************)
(* The crypto-arb worker (apps/daemon/src/sources/crypto-arb.ts over       *)
(* packages/source-crypto-arb).  A tick reads the balances now and then,   *)
(* trades inventory it holds on two exchanges, and buys inventory on the   *)
(* sell side of a spread it cannot trade yet: seeding, within budgets it   *)
(* keeps in its payload.  Short of dollars it first liquidates something.  *)
(*                                                                         *)
(* Amounts are dollars at one constant price; which spreads pay is up to   *)
(* the environment, and an arb leg that is accepted counts as filled.  A   *)
(* tick takes no time; its orders are awaited in turn.  Gemini, whose      *)
(* balances executableInventorySize does not read, is not among the        *)
(* exchanges.                                                              *)
(***************************************************************************)
EXTENDS Integers, FiniteSets, FiniteSetsExt

CONSTANTS TradingEnvs,           \* what the environment says of trading
          Exchanges, Assuming,   \* those whose fills are assumed rather than reported
          Kraken,                \* the one that may lock its callers out
          ArbPairs,
          SeedPerPair, SeedGlobal, SeedMin, SeedCooldown, SeedEvalWindow, SeedPause,
          LiquidateSlice, LiquidateMin, LiquidateCooldown, WantUsd,
          MinExecutable, MaxPosition,
          FetchTime,             \* PRIVATE_FETCH_INTERVAL, in polls
          RateLimitWait, LockoutWait, MaxLockoutWait,   \* KRAKEN_LOCKOUT_BACKOFF_MS, ..._MAX_MS
          ArbFlushTime,          \* DB_SAVE_INTERVAL_MS, in polls
          Accounts,              \* what the exchanges may hold at first
          ArbLastTime, MaxArbSlips   \* bounds: polls; restarts, failed reads and orders

ASSUME ArbConstants ==
    /\ TradingEnvs \subseteq BOOLEAN
    /\ IsFiniteSet(Exchanges) /\ IsFiniteSet(ArbPairs)
    /\ Accounts \subseteq [Exchanges -> [stable : Nat, base : [ArbPairs -> Nat]]]
    /\ Assuming \subseteq Exchanges /\ Kraken \in Exchanges
    /\ {SeedPerPair, SeedGlobal, SeedMin, SeedCooldown, SeedEvalWindow, SeedPause,
        LiquidateSlice, LiquidateMin, LiquidateCooldown, WantUsd,
        MinExecutable, MaxPosition, FetchTime, ArbFlushTime,
        RateLimitWait, LockoutWait, MaxLockoutWait} \subseteq Nat \ {0}
    /\ FetchTime < SeedCooldown /\ FetchTime < LiquidateCooldown
    /\ RateLimitWait <= LockoutWait /\ LockoutWait <= MaxLockoutWait
    /\ {ArbLastTime, MaxArbSlips} \subseteq Nat

VARIABLES tradingEnabled,
          arbNow,
          account,     \* what each exchange holds: stable dollars, and base of each pair
          seen,        \* the cached balances
          fetched,     \* lastPrivateFetch, in the future after a lockout, or -1
          lockoutWait, \* krakenLockoutBackoffMs
          seeds, liquidated, loaded,   \* cachedSeedState, cachedLiqState, and whether they are
          arbRow, arbLive, arbFlushed,
          arbTick,     \* the tick under way
          spent, recent, forgotten,    \* history: seeds paid for; not in the row; lost to the ledger
          onReading,   \* history: seeds and liquidations since the balances were read
          arbBook,     \* history: what arbs left unhedged, and whether one was sized blindly
          arbSlips

arbVars == <<tradingEnabled, arbNow, account, seen, fetched, lockoutWait, seeds, liquidated, loaded, arbRow, arbLive, arbFlushed,
             arbTick, spent, recent, forgotten, onReading, arbBook, arbSlips>>

Payload == INSTANCE WorkerPayload WITH row <- arbRow, live <- arbLive

SeedKeys == Exchanges \X ArbPairs
NoFunds == [stable |-> 0, base |-> [p \in ArbPairs |-> 0]]
NoneSeen == [x \in Exchanges |-> NoFunds]
ZeroUsd == [k \in SeedKeys |-> 0]
NoOrders == [seeds |-> ZeroUsd, sales |-> [x \in Exchanges |-> 0], readAt |-> 0]
emptySeedState == [entries |-> <<>>, total |-> 0]
emptyLiquidatorState == <<>>
Idle == [pc |-> "idle", left |-> {}, sold |-> {}, raised |-> [x \in Exchanges |-> 0],
         payload |-> Payload!Nothing]

ArbInit ==
    /\ tradingEnabled \in TradingEnvs
    /\ arbNow = 0
    /\ account \in Accounts
    /\ seen = NoneSeen /\ fetched = -1 /\ lockoutWait = LockoutWait
    /\ seeds = emptySeedState /\ liquidated = emptyLiquidatorState /\ loaded = FALSE
    /\ arbRow = Payload!Nothing /\ arbLive = Payload!Nothing /\ arbFlushed = -1
    /\ arbTick = Idle
    /\ spent = ZeroUsd /\ recent = ZeroUsd /\ forgotten = ZeroUsd
    /\ onReading = NoOrders
    /\ arbBook = [unhedged |-> 0, blind |-> FALSE]
    /\ arbSlips = 0

ArbFlushes == arbFlushed = -1 \/ arbNow - arbFlushed >= ArbFlushTime

\* A save that reaches the row brings it up to date with the entry, which may have nothing of
\* the worker's: a status saved once the entry has expired replaces the row.
Durable == /\ arbFlushed' = IF ArbFlushes THEN arbNow ELSE arbFlushed
           /\ recent' = CASE ~ArbFlushes -> recent
                          [] ArbFlushes /\ "seeds" \in DOMAIN arbLive' -> ZeroUsd
                          [] OTHER -> [k \in SeedKeys |-> spent[k] - forgotten[k]]

\* What is not in the row is lost with the process that knew of it.
Forgets == /\ forgotten' = [k \in SeedKeys |-> forgotten[k] + recent[k]]
           /\ recent' = ZeroUsd

ArbSlip(n) == arbSlips + n <= MaxArbSlips /\ arbSlips' = arbSlips + n
----------------------------------------------------------------------------
\* A tick starts with the row's payload.  When the last fetch is old enough, every
\* exchange is asked; one that does not answer counts as empty.  When Kraken limits the
\* rate or locks its caller out, none is asked again before the wait is over.
FetchDue == fetched = -1 \/ arbNow - fetched > FetchTime

Waits(failed) ==
    IF Kraken \in failed
    THEN {<<0, lockoutWait>>, <<RateLimitWait, lockoutWait>>,
          <<lockoutWait, Min({2 * lockoutWait, MaxLockoutWait})>>}
    ELSE {<<0, LockoutWait>>}

ReadBalances(failed, wait) ==
    /\ seen' = [x \in Exchanges |-> IF x \in failed THEN NoFunds ELSE account[x]]
    /\ fetched' = arbNow + wait[1] /\ lockoutWait' = wait[2]
    /\ onReading' = [NoOrders EXCEPT !.readAt = arbNow]

ArbBegin ==
    /\ arbTick.pc = "due"
    /\ arbTick' = [Idle EXCEPT !.pc = "act", !.left = ArbPairs, !.payload = arbRow]
    /\ Payload!SaveStatus(ArbFlushes) /\ Durable
    /\ \/ /\ FetchDue
          /\ \E failed \in SUBSET Exchanges :
                ArbSlip(Cardinality(failed)) /\ \E wait \in Waits(failed) : ReadBalances(failed, wait)
       \/ ~FetchDue /\ UNCHANGED <<seen, fetched, lockoutWait, onReading, arbSlips>>
    /\ UNCHANGED <<tradingEnabled, arbNow, account, seeds, liquidated, loaded, spent, forgotten, arbBook>>

\* A feed that throws ends the tick: nothing was ordered, nothing is saved.  A new process
\* has not taken its state from the payload yet, and the next tick's may be without it.
ArbPollFails ==
    /\ arbTick.pc = "act" /\ arbTick.left = ArbPairs
    /\ ArbSlip(1)
    /\ arbTick' = Idle
    /\ IF loaded THEN UNCHANGED <<recent, forgotten>> ELSE Forgets
    /\ UNCHANGED <<tradingEnabled, arbNow, account, seen, fetched, lockoutWait, seeds, liquidated, loaded, arbRow, arbLive,
                   arbFlushed, spent, onReading, arbBook>>

\* executableInventorySize, from the cached balances.  A mutant: whatever can be paid for.
PayableSize(buy, sell, p) == Min({seen[buy].stable, MaxPosition})
executableInventorySize(buy, sell, p) == Min({seen[sell].base[p], seen[buy].stable, MaxPosition})
WorthIt(usd) == usd >= MinExecutable

Traded(purse, p, usd) == [stable |-> purse.stable - usd, base |-> [purse.base EXCEPT ![p] = @ + usd]]
Bought(funds, x, p, usd) == [funds EXCEPT ![x] = Traded(funds[x], p, usd)]
SoldFor(funds, x, p, usd) == [funds EXCEPT ![x] = Traded(funds[x], p, -usd)]

\* act(): the buy leg, then the sell leg.  A leg the exchange cannot cover is refused; one
\* may be refused, or filled without an answer, all the same.  Nothing undoes the first.
Answers == {"filled", "refused", "unanswered"}
Blind(buy, sell, p) == seen[buy].stable # account[buy].stable \/ seen[sell].base[p] # account[sell].base[p]

\* An order the exchange could cover goes wrong: one of the faults of a behavior.
Fault(answer, covered) == IF answer = "unanswered" \/ (answer = "refused" /\ covered) THEN 1 ELSE 0

InventoryArb(buy, sell, p, first, second) ==
    LET usd == executableInventorySize(buy, sell, p)
        payable == usd <= account[buy].stable
        deliverable == usd <= account[sell].base[p]
        paid == first # "refused"
        closed == first = "filled" /\ second # "refused"
        faults == Fault(first, payable) + IF first = "filled" THEN Fault(second, deliverable) ELSE 0
        after == IF paid THEN Bought(account, buy, p, usd) ELSE account
    IN  /\ arbTick.pc = "act" /\ p \in arbTick.left /\ buy # sell
        /\ WorthIt(usd)
        /\ paid => payable
        /\ closed => deliverable
        /\ first # "filled" => second = "refused"
        /\ ArbSlip(faults)
        /\ account' = IF closed THEN SoldFor(after, sell, p, usd) ELSE after
        /\ arbBook' = [unhedged |-> arbBook.unhedged + IF paid /\ ~closed THEN usd ELSE 0,
                       blind |-> arbBook.blind \/ faults > 0 \/ Blind(buy, sell, p)]
        /\ arbTick' = [arbTick EXCEPT !.left = @ \ {p}]
        /\ UNCHANGED <<tradingEnabled, arbNow, seen, fetched, lockoutWait, seeds, liquidated, loaded,
                       arbRow, arbLive, arbFlushed, spent, recent, forgotten, onReading>>
----------------------------------------------------------------------------
\* evaluateCircuitBreakers.  The trading source's payload does not reach this worker, so no
\* pair has earned anything: one seeded long enough ago is paused, over and over.
Judged(state) ==
    [state EXCEPT !.entries = [k \in DOMAIN @ |->
        IF @[k].pausedUntil <= arbNow /\ arbNow - @[k].at >= SeedEvalWindow /\ @[k].total > 0
        THEN [@[k] EXCEPT !.pausedUntil = arbNow + SeedPause] ELSE @[k]]]

\* The state is taken from the payload once per process, and judged on every tick.
ArbScan ==
    /\ arbTick.pc = "act"
    /\ loaded' = TRUE
    /\ seeds' = Judged(IF loaded THEN seeds ELSE Payload!Field(arbTick.payload, "seeds", emptySeedState))
    /\ liquidated' = IF loaded THEN liquidated ELSE Payload!Field(arbTick.payload, "liquidated", emptyLiquidatorState)
    /\ arbTick' = [Idle EXCEPT !.pc = "seed", !.left = ArbPairs]
    /\ UNCHANGED <<tradingEnabled, arbNow, account, seen, fetched, lockoutWait, arbRow, arbLive, arbFlushed, spent, recent,
                   forgotten, onReading, arbBook, arbSlips>>

TotalOf(k) == IF k \in DOMAIN seeds.entries THEN seeds.entries[k].total ELSE 0
baseInventoryOn(x, p) == seen[x].base[p]

\* decideSeed: nothing is in the way but, perhaps, a lack of dollars.  A mutant: the cooldown
\* is not looked at.
WithoutCooldown(k) ==
    /\ tradingEnabled
    /\ baseInventoryOn(k[1], k[2]) < MinExecutable
    /\ TotalOf(k) < SeedPerPair
    /\ seeds.total < SeedGlobal
MaySeed(k) ==
    /\ tradingEnabled
    /\ baseInventoryOn(k[1], k[2]) < MinExecutable
    /\ k \in DOMAIN seeds.entries => /\ seeds.entries[k].pausedUntil <= arbNow
                                     /\ seeds.entries[k].at + SeedCooldown <= arbNow
    /\ TotalOf(k) < SeedPerPair
    /\ seeds.total < SeedGlobal

stableByExchange(x) == seen[x].stable + arbTick.raised[x]
Usable(x) == stableByExchange(x) \div 2
SeedSize(k) == Min({SeedPerPair - TotalOf(k), SeedGlobal - seeds.total, Usable(k[1])})

With(map, key, value) == [y \in DOMAIN map \cup {key} |-> IF y = key THEN value ELSE map[y]]

\* A mutant: the totals start anew with every seed.
Restarted(k, usd) ==
    [entries |-> With(seeds.entries, k, [at |-> arbNow, total |-> usd, pausedUntil |-> 0]), total |-> usd]
recordSeed(k, usd) ==
    [entries |-> With(seeds.entries, k,
                      [at |-> arbNow, total |-> TotalOf(k) + usd,
                       pausedUntil |-> IF k \in DOMAIN seeds.entries THEN seeds.entries[k].pausedUntil ELSE 0]),
     total |-> seeds.total + usd]

\* An IOC order may fill or not; some exchanges do not say, and count as filled.
Reported(x, usd, answer, fill) ==
    IF answer = "filled" /\ (fill \/ x \in Assuming) THEN usd ELSE 0
placeSeedOrder(x, usd, answer, fill) == Reported(x, usd, answer, fill)
placeLiquidateOrder(x, usd, answer, fill) == Reported(x, usd, answer, fill)

\* The exchange fills what it can, if it takes the order.
Fills(answer, fill, covered) == fill => covered /\ answer # "refused"

\* A spread without inventory on its sell side is seeded.
Seed(k, answer, fill) ==
    LET x == k[1]
        usd == SeedSize(k)
        bought == IF fill THEN usd ELSE 0
        reported == placeSeedOrder(x, usd, answer, fill)
    IN  /\ arbTick.pc = "seed" /\ k[2] \in arbTick.left
        /\ MaySeed(k) /\ Usable(x) >= SeedMin /\ usd >= SeedMin
        /\ Fills(answer, fill, usd <= account[x].stable)
        /\ ArbSlip(Fault(answer, usd <= account[x].stable))
        /\ account' = Bought(account, x, k[2], bought)
        /\ seeds' = IF reported > 0 THEN recordSeed(k, reported) ELSE seeds
        /\ spent' = [spent EXCEPT ![k] = @ + bought]
        /\ onReading' = [onReading EXCEPT !.seeds[k] = @ + IF fill THEN 1 ELSE 0]
        /\ IF answer = "unanswered"
           THEN forgotten' = [forgotten EXCEPT ![k] = @ + bought] /\ UNCHANGED recent
           ELSE recent' = [recent EXCEPT ![k] = @ + bought] /\ UNCHANGED forgotten
        /\ arbTick' = [arbTick EXCEPT !.left = @ \ {k[2]}]
        /\ UNCHANGED <<tradingEnabled, arbNow, seen, fetched, lockoutWait, liquidated, loaded, arbRow,
                       arbLive, arbFlushed, arbBook>>

\* decideLiquidate: once a tick and cooldown an exchange sells the largest holding that will
\* do, of any pair but the one to be seeded; no position is known to be tracked, for the
\* trading source's payload does not reach this worker.
MayLiquidate(x) ==
    /\ stableByExchange(x) < WantUsd
    /\ x \in DOMAIN liquidated => liquidated[x] + LiquidateCooldown <= arbNow
holdingsOn(x) == seen[x].base
Slice(x, p) == Min({((WantUsd - stableByExchange(x)) * 21) \div 20, LiquidateSlice, holdingsOn(x)[p] \div 2})
Candidates(k) == {p \in ArbPairs \ {k[2]} : Slice(k[1], p) >= LiquidateMin}
recordLiquidation(x) == With(liquidated, x, arbNow)

Liquidation(k, p, answer, fill) ==
    LET x == k[1]
        usd == Slice(x, p)
        reported == placeLiquidateOrder(x, usd, answer, fill)
    IN  /\ arbTick.pc = "seed" /\ k[2] \in arbTick.left /\ x \notin arbTick.sold
        /\ MaySeed(k) /\ Usable(x) < SeedMin
        /\ MayLiquidate(x)
        /\ p \in Candidates(k) /\ \A o \in Candidates(k) : holdingsOn(x)[o] <= holdingsOn(x)[p]
        /\ Fills(answer, fill, usd <= account[x].base[p])
        /\ ArbSlip(Fault(answer, usd <= account[x].base[p]))
        /\ account' = SoldFor(account, x, p, IF fill THEN usd ELSE 0)
        /\ onReading' = [onReading EXCEPT !.sales[x] = @ + IF fill /\ answer = "filled" THEN 1 ELSE 0]
        /\ liquidated' = IF reported > 0 THEN recordLiquidation(x) ELSE liquidated
        /\ arbTick' = [arbTick EXCEPT !.left = @ \ {k[2]}, !.sold = @ \union {x}, !.raised[x] = @ + reported]
        /\ UNCHANGED <<tradingEnabled, arbNow, seen, fetched, lockoutWait, seeds, loaded, arbRow, arbLive,
                       arbFlushed, spent, recent, forgotten, arbBook>>

\* The rest of the spreads do not pay, or need no seed: the tick saves and ends.
ArbSave ==
    /\ arbTick.pc = "seed"
    /\ Payload!SavePayload([seeds |-> seeds, liquidated |-> liquidated], ArbFlushes) /\ Durable
    /\ arbTick' = Idle
    /\ UNCHANGED <<tradingEnabled, arbNow, account, seen, fetched, lockoutWait, seeds, liquidated, loaded, spent, forgotten,
                   onReading, arbBook, arbSlips>>
----------------------------------------------------------------------------
\* The timer of the worker; a poll that finds a tick under way is skipped.
NextPoll ==
    /\ arbTick.pc = "idle" /\ arbNow < ArbLastTime
    /\ arbNow' = arbNow + 1
    /\ arbTick' = [arbTick EXCEPT !.pc = "due"]
    /\ UNCHANGED <<tradingEnabled, account, seen, fetched, lockoutWait, seeds, liquidated, loaded, arbRow, arbLive,
                   arbFlushed, spent, recent, forgotten, onReading, arbBook, arbSlips>>

\* The trading source, or the user, sells what was seeded.
SoldOutside(x, p) ==
    /\ account[x].base[p] > 0 /\ ArbSlip(1)
    /\ account' = SoldFor(account, x, p, account[x].base[p])
    /\ UNCHANGED <<tradingEnabled, arbNow, seen, fetched, lockoutWait, seeds, liquidated, loaded, arbRow, arbLive, arbFlushed,
                   arbTick, spent, recent, forgotten, onReading, arbBook>>

\* A restart forgets what is not in the row, and the balances it had read.
ArbCrash ==
    /\ ArbSlip(1)
    /\ seen' = NoneSeen /\ fetched' = -1 /\ lockoutWait' = LockoutWait
    /\ seeds' = emptySeedState /\ liquidated' = emptyLiquidatorState /\ loaded' = FALSE
    /\ arbFlushed' = -1 /\ arbTick' = Idle
    /\ Payload!EntryAfterRestart /\ Forgets
    /\ onReading' = NoOrders
    /\ UNCHANGED <<tradingEnabled, arbNow, account, arbRow, spent, arbBook>>

ArbNext ==
    \/ ArbBegin
    \/ ArbPollFails
    \/ \E buy, sell \in Exchanges, p \in ArbPairs, first, second \in Answers : InventoryArb(buy, sell, p, first, second)
    \/ ArbScan
    \/ \E k \in SeedKeys, answer \in Answers, fill \in BOOLEAN : Seed(k, answer, fill)
    \/ \E k \in SeedKeys, p \in ArbPairs, answer \in Answers, fill \in BOOLEAN : Liquidation(k, p, answer, fill)
    \/ ArbSave
    \/ NextPoll
    \/ \E x \in Exchanges, p \in ArbPairs : SoldOutside(x, p)
    \/ ArbCrash

ArbSpec == ArbInit /\ [][ArbNext]_arbVars
----------------------------------------------------------------------------
Funds == [stable : Nat, base : [ArbPairs -> Nat]]

ArbTypeOK ==
    /\ tradingEnabled \in BOOLEAN
    /\ arbNow \in 0..ArbLastTime /\ fetched \in -1..ArbLastTime + MaxLockoutWait /\ arbFlushed \in -1..ArbLastTime
    /\ account \in [Exchanges -> Funds] /\ seen \in [Exchanges -> Funds]
    /\ DOMAIN seeds.entries \subseteq SeedKeys /\ seeds.total \in Nat
    /\ DOMAIN liquidated \subseteq Exchanges /\ loaded \in BOOLEAN
    /\ arbTick.pc \in {"idle", "due", "act", "seed"} /\ arbTick.left \subseteq ArbPairs
    /\ arbTick.sold \subseteq Exchanges /\ arbTick.raised \in [Exchanges -> Nat]
    /\ lockoutWait \in LockoutWait..MaxLockoutWait
    /\ {spent, recent, forgotten, onReading.seeds} \subseteq [SeedKeys -> Nat]
    /\ onReading.sales \in [Exchanges -> Nat] /\ onReading.readAt \in 0..ArbLastTime
    /\ arbBook \in [unhedged : Nat, blind : BOOLEAN]
    /\ arbSlips \in 0..MaxArbSlips

\* seeder.ts: "per-pair/global budget".  What seeding really cost stays within both budgets,
\* through restarts and exchanges that do not report fills, but for orders whose answer was
\* lost and seeds that the row lacked when a process, or its first tick, died.
BudgetsHold ==
    /\ \A k \in SeedKeys : spent[k] <= SeedPerPair + forgotten[k]
    /\ MapThenSumSet(LAMBDA k : spent[k], SeedKeys)
         <= SeedGlobal + MapThenSumSet(LAMBDA k : forgotten[k], SeedKeys)

\* seeder.ts: "the seeder places ONE market buy".  The cached balances do not show a seed
\* or a liquidation until they are read again; the cooldowns keep either from being repeated
\* on one reading, unless a lockout put off the next one for longer, or a lost answer let it
\* be forgotten.
Outlived(cooldown) == arbNow - onReading.readAt >= cooldown /\ fetched > onReading.readAt
OncePerReading ==
    /\ \A k \in SeedKeys : onReading.seeds[k] > 1 => forgotten[k] > 0 \/ Outlived(SeedCooldown)
    /\ \A x \in Exchanges : onReading.sales[x] > 1 => Outlived(LiquidateCooldown)

\* Both legs of an arb fit what the exchanges hold, unless they changed since they were read.
FreshArbsHedged == arbBook.blind \/ arbBook.unhedged = 0

ArbSafe == BudgetsHold /\ OncePerReading /\ FreshArbsHedged
====
