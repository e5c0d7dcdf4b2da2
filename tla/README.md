# A verification of b1dz in TLA+

b1dz is a multi-user trading system: observers look for price differences, a
queue carries what they find to trade daemons, executors place orders on
exchanges and chains, a scheduler runs every user's workers with that user's
keys, and a web application sells plugins, keeps settings and hands out
credits. Most of what is hard to get right in it is not arithmetic but order:
timers that overlap, state read before an `await` and used after it, two
statements where one transaction is meant, processes that die in between.
This directory models those parts, checks them with TLC, and proves with TLAPS,
for every value of the constants, most of what the runs check as an invariant.

Paths below are relative to `src/`, the root of the repository.

## 1. The system and its parts

| Part | State | Operations | Talks to |
|---|---|---|---|
| Event channel (`packages/event-channel`) | queue rows with status, claimer, deadline; in memory or in `opportunities_v2` | publish, claim, resolve, inspect | observers publish, trade daemons claim and resolve |
| Trade daemon (`packages/trade-daemon`) | ticks in flight, timer, circuit breaker | tick, start, stop; canExecute, recordExecution, trip, reset | channel, inventory check, executors |
| v2 pipeline, observer, triangular engine (`apps/daemon/src/v2`, `packages/observe-engine`, `packages/triangular-engine`, `packages/profitability`) | the pipeline's instance, ticks in flight, a cursor over routes | build, tick | adapters, channel |
| Executors (`apps/daemon/src/executors`) | none of their own | execute: two exchange legs, or approve and swap | exchanges, wallet service |
| Exchange clients (`source-crypto-arb/src/feeds/*-private.ts`) | nonce, lock and lockout of the process | place an order, read balances | exchanges |
| Wallet service (`packages/wallet-service`, `adapters-evm/src/receipts.ts`) | next nonce per address, the gate of the allocator | execute: preflight, nonce, sign, broadcast, track | RPC node, wallet provider |
| Inventory (`packages/inventory`) | balances, reservations | canAfford, reserve, commit, release, refresh | trade daemon, chain |
| Scheduler (`apps/daemon/src/runtime.ts`) | entries with timer and `running` flag, `process.env` while a source runs | discover, tick, stop | leases, settings, sources |
| Leases and payloads (`packages/core/src/runtime-cache.ts`) | one key per (user, source) in Redis; payload in the cache and in a row | acquire, refresh, release; load, save, flush | scheduler, workers, web |
| Sealed settings (`user-config.ts`, `unlock-store.ts`, `control-server.ts` of the daemon) | cached row, the user's data key in memory | load, merge, unlock, lock | `user_settings` |
| Vault (settings pages, `api/settings`, `apps/cli/src/vault.ts`) | the row, keys and secrets in tabs and shells | create, open, migrate, save, change the passphrase | `user_settings`, OAuth callback |
| crypto-trade source (`packages/source-crypto-trade`) | open positions, cooldowns, books of the day, charts | restore, hydrate, evaluate, enter, exit, save | exchanges, DEX executor, budget |
| Spend budget and agent trading (`spend-budget.ts`, `apps/web/src/lib/agent-trade.ts`) | counter and buffer of the engine, ledger rows, queue of orders | seed, roll, spend, drain; quote, order | database, payload |
| Other workers (`apps/daemon/src/sources`: DCA, pump.fun, arbitrage, equities) | payloads: times, positions, seeds, day trades | tick | exchanges, brokers, web buttons |
| Price streams (`ws-price-cache.ts`, `pair-discovery.ts`) | socket, subscriptions, reference counts, prices | retain, release, connect, watchdog | exchanges, workers |
| Backtests (`source-crypto-trade/src/backtest*.ts`) | one simulated book or several | run | candles |
| Plugin billing (`apps/web/src/lib/plugin-billing.ts`, webhook, poller) | invoices, `paid_until` of an install | settle, close, poll | CoinPay |
| Invites and credits (`apps/web/src/lib/credits.ts`, migrations) | invites, quota, codes, bonus rows, credit ledger | make, revoke, accept, redeem, settle | sign-in, invites page |
| Signing in (`coinpay-signin.ts`, auth routes, `apps/cli/src/auth.ts`) | identities, accounts, cookies; the command's token file | log in, connect, disconnect, refresh | CoinPay, auth server |
| Storage, runner, core, adapters' quotes, public feeds, projections, other sources, pages, SDK, CLI, extension | see section 6 | | |

### What is hard, and what correct means

* **Queue and trade daemon.** `start()` polls with `setInterval` and does not
  wait for the previous tick, so one daemon overlaps with itself, and several
  may share the Supabase queue, whose claim is a `SELECT` followed by an
  `UPDATE`. Correct: a row is executed at most once; what a daemon processes
  is its own; the audit trail repeats what the executors said; the breaker stops
  what it must; dead rows are swept and claimed ones get an answer.
* **Wallet and executors.** Nonces are allocated behind a gate of promises, and
  forgotten after failures without passing that gate; trades that were given up
  are mined later, in order. Correct: no two transactions share a nonce, none
  is skipped, a report is true, what is held is known and can be sold.
* **Orders.** A request whose answer was lost is sent again. Correct: a call
  places one order, and what it returns is so.
* **Scheduler.** Two daemons, a lease that expires, schedules that come and
  go, one `process.env` for all users. Correct: one tick per job; the
  environment is that of the user whose source runs inside its overlay; jobs
  keep running.
* **Settings and vault.** Key buffers are lent and zeroed; the daemon, tabs,
  commands and callbacks read, change and write one row without versions.
  Correct: the row stays readable, no secret or token is lost, no session is
  ended without cause.
* **Positions and money.** What a worker believes it holds survives a restart
  through a payload written now and then, next to an account others use too.
  Correct: one position a venue, nothing unmanaged, no coin bought too often,
  every buy accounted for, a loss limit that bites.
* **Billing, invites, credits.** Sequences of database calls without a
  transaction, repeated by webhooks, pollers and page visits. Correct: one
  period per payment and no less; one bonus per side, in the ledger whenever
  the row says so; quotas and limits hold.
* **Signing in.** Logins, connections and token renewals race. Correct: whoever
  comes in comes into his own account, keeps his way in, and is not logged out
  by his own process.

PROJECT.json lists every such place with its line under `hazards`.

## 2. Modules

| Module | Models | Uses |
|---|---|---|
| `EventChannel`, `CircuitBreaker` | the rows and both implementations of the channel; `circuit.ts` as operators on a record | |
| `TradeDaemon` | N daemons with overlapping ticks, the operator, crashes | `EventChannel`, `CircuitBreaker` |
| `OpportunityQueue` | abstract: what the queue and its daemons promise together | |
| `Observers` | pipeline, observer, triangular engine | |
| `VenueOrders` | placing an order over each private REST client | |
| `WalletNonce` | `execute()`, nonce manager, receipt tracker, node | |
| `Executors` | exchange trades and swaps of the trade daemon | |
| `InventoryLedger` | one balance of the inventory | |
| `DexSwaps` | swaps of the trading workers, on Base, Solana, pump.fun | |
| `DaemonRuntime` | scheduler, leases, environment overlay | |
| `SealedConfig` | sealed settings of one user in the daemon | |
| `PriceStream` | the connection to one exchange | |
| `Vault` | the row behind the settings, and its writers | |
| `CryptoTrade` | positions of the crypto-trade source | |
| `SpendBudget` | budget, ledger, agents' orders | |
| `TradeBooks` | the day's books, spendable dollars, sizes | |
| `Signals` | charts and the verdicts drawn from them | |
| `Backtest` | both backtests beside the live exits | |
| `WorkerPayload` | a payload, kept in row and cache | |
| `CryptoDca`, `PumpTrade`, `ArbWorker` | the other crypto workers | `WorkerPayload` |
| `Equities` | the equities worker, its brokers, linked accounts | |
| `PluginBilling`, `InviteBonus`, `Credits` | what the web settles | |
| `SignIn` | CoinPay logins; the command's session | |
| `MCTradeDaemon`, `MCTradeEdges`, `MCWalletNonce`, `MCDaemon`, `MCPositions`, `MCWeb` | bounded instances | the above |
| `Induction` | sums over finite sets, recursion over the first n numbers, induction on either | |
| `TradeDaemonProofs` | theorems about the queue and its daemons | `TradeDaemon`, `OpportunityQueue` |
| `EdgeProofs` | about observers and orders | `MCTradeEdges`, `Observers`, `VenueOrders` |
| `WalletProofs` | about wallet, executors, inventory, swaps, and their instance | `MCWalletNonce`, `Induction` |
| `DaemonProofs` | about scheduler, settings, streams | `MCDaemon` |
| `WorkerProofs` | about positions, bags, paced buys, arbs, backtests | `MCPositions`, `Induction` |
| `AccountProofs` | about budget, credits, bonuses, payments, logins, credentials, the vault and its recovery key | `SpendBudget`, `Credits`, `InviteBonus`, `PluginBilling`, `SignIn`, `Vault`, `Induction` |
| `ReckoningProofs` | about books, dollars, sizes, linked brokers, stocks, day trades, charts, candles, verdicts, and the instance of all web parts | `MCWeb`, `AccountProofs` |

Conventions. An action is the code between two awaits: JavaScript runs it
alone. A process that awaits is a record with a `pc`; its locals that survive
the await are its other fields. Where an await can be answered in several ways
(a database error, a lost acknowledgement, an executor's outcome), the action
is a disjunction or takes the outcome as a parameter. A failure that may
strike anywhere consumes one of a bounded number of faults. Operators marked
*(mutant)* are faulty variants of the definition that follows them; nothing
uses them, they document what each property rests on. Variables marked
*history* are not in the code.

Compositions. An MC module extends several modules that do not interact, whose
definitions therefore have distinct names (`SettingsInit`, `InvitesNext`, ...),
and adds a variable `focus`: one of them is chosen at the start and runs alone,
the others stand still. The state spaces add up instead of multiplying. What
does interact is in one module (`TradeDaemon` with its channel and breaker, the
engine and the agents in `SpendBudget`, tabs and commands in `Vault`).

### EventChannel, CircuitBreaker, TradeDaemon, OpportunityQueue

`row[q]` is a queue row. `claim()` in memory is one atomic walk over the
pending rows (`ClaimInMemory`), which also expires dead rows but stops as soon
as the batch is full (`WalkedDead`); on Supabase it is `SelectCandidates`
followed by `ClaimCandidates`, the update conditional on `pending`.
`resolve()` is unconditional in both. A payload is one of four kinds, what the
gates of `decideOpportunity()` can tell apart; `KeepsExecutionMeta` is the
fact that the Postgres table has no column for `opp.execution`.

`tick[<<d, s>>]` is one invocation of `tick()` in daemon `d`; the slots `s`
bound how many overlap. The phases follow its awaits: `claiming` (Supabase's
second statement), `deciding` (the head of the loop), `affording` (the
inventory check), `executing`, `resolving`. `DecideToExecute` and
`DecideToCheck` differ as the code does: without an inventory check nothing is
awaited between reading the breaker and calling the executor. `Executed` maps
the outcome with `FinalStatus` and feeds `RecordExecution`; since `runLive()`
sets `executorRan: true` on whatever the executor returned, every outcome
counts. `Afforded` starts the execution without a second look at the row's deadline,
as the code does. Restarts (`Crash`) lose the ticks, the breaker and, in memory, the
queue. A batch is processed in any order, which covers the code's.

`OpportunityQueue` knows only rows that are pending, taken or settled, and
whether they ran. `TradeDaemon` implements it under the refinement mapping in
its own text, which TLC checks (`ImplementsQueue`) and `TradeDaemonProofs` proves.

### Observers, VenueOrders

`Observers` has three parts: the ticks of several users that ask for the
pipeline while it is being built, the observer's overlapping ticks, whose quotes
age while other adapters answer, and the triangular engine, which prices a slice
of its routes a tick. In `VenueOrders`, `call[c]` is one `placeOrder`: what it
costs, how often it was tried, what was placed; requests are delivered late, out
of order or not at all, and answered or not.

### WalletNonce, Executors, InventoryLedger, DexSwaps

`call[c]` is one `execute()`. `line[s]` is the chain of promises in
`NonceManager.locks`, `cache[s]` the remembered next nonce (the in-memory
store behind it always agrees with it), `tx` and `mined` the node and the
chain. `ResyncNonce` drops the cache without passing the gate, as the code
does. A *regime* fixes, for a whole behavior, how many calls overlap, which
faults occur and which services are called, because what the allocator guarantees
depends on it: the daemon's factory builds several services for one address, each with
a cache of its own.

In `Executors`, `opp[o]` is one opportunity on its way through an executor:
two exchange legs with the base they leave behind, or approval and swap; `pool`
holds the wallet's transactions in the order they will be mined, given up or
not, and `allowance` what the router may take. `InventoryLedger` keeps one row
beside its callers' books and the chain; `refresh()` is two actions, with
everything else in between. A mined transaction takes less than it had reserved or
more ("if gas or slippage shifted", `inventory/src/index.ts:225-227`); `owing` is
what was taken in excess and is not settled yet. `DexSwaps` numbers a worker's swaps: quoted,
signed, sent once, followed; the chain may take one that was given up. `below` is the
set of swaps in the blocks its own came after: blocks are confirmed and final from the
oldest, and a fork drops the newest, which may undo what was reported.

### DaemonRuntime, SealedConfig, PriceStream

A job is a (user, source) pair, `entry` the `scheduled` map with its `running`
flags, `holder[j]` whose token is in the lease key (a *ghost* when nobody
runs under it any more), `overlay[d]` the queue behind `envOverlayMutex`,
`env[d]` whose settings `process.env` holds. `gen` tells a re-created entry
from the one a tick started with: without a lease the tick clears the flag of
the entry it started with, at its end that of whatever entry there is then. Only
what runs inside `applyEnvOverlay()` is modelled; the v2 pipeline's timers are not, and
read whatever environment is there.

In `SealedConfig`, `row` is the `user_settings` row, `cache` the daemon's copy,
`session` the number of the buffer the `UnlockStore` holds (0 when locked). A
job that was lent buffer n has the user's key while `n = session` and zeros
afterwards (`KeyIn`). Opening copies the key when the call starts
(`KeyImported`: Web Crypto imports the bytes), sealing reads the buffer when it
starts. Web requests read the row, then write columns of it. `outrun` (history) are the
tokens overwritten by a writer who had not read them.

`PriceStream` is one exchange's socket: what is watched (`refs`), what was asked
for (`subscribed`), what is cached (`priced`, as an age), the watchdog and its
silence. Delays are abstracted to their order.

### Vault

`stored` is the row; a tab or a shell holds what it read of it and, unlocked,
a key. The n-th seal has data key n, recovery key n and inbox pair n, so who can
open what is a comparison of numbers. The bytes and letters of a recovery key are
sequences of bits; what is regrouped waits in a buffer, of which the code only ever looks
at the bits that still wait. A *mishap* records that something happened
for which a property makes an exception: an overlap of a save with a change of
the passphrase, a vault made over another, a wiped key.

### CryptoTrade, SpendBudget, TradeBooks, Signals, Backtest

`CryptoTrade` follows a tick through its phases: agents' orders, restoring (first
tick only), hydrating venue by venue, evaluating the scanned markets one by one
with the order each signal leads to, saving. `held` is the truth on the venues,
`open` what the process tracks, `saved` what a restart finds, `own` (history)
what the strategy bought and never stopped tracking. `kind` tells exchanges,
Gemini and DEXes apart, which are hydrated differently. Orders are filled, refused or
unanswered; partial fills are not modelled.

`SpendBudget` has the counter of the engine with its window, the buffer of what
it bought and has not written, the ledger, and the queue of agents' orders, each
step of the worker and of the web's calls apart. `Delivered` tells whether the
storage honours the key it is asked for; the daemon's does not, so it is `FALSE`
where the budget is checked.

`TradeBooks` has three parts: the profit of the day with its baseline, the dollars
that may be spent while orders fill, and the sizes as functions. `Signals` has the
charts (fetched once, kept live, flushed, restored) and the verdicts (regime, setup,
scalp, composite), where what the indicators say of a chart is chosen among the
consistent readings. `Backtest` runs each pair by itself, the pairs together, and
beside them the exits the daemon would have decided, on the same candles.

### WorkerPayload, CryptoDca, PumpTrade, ArbWorker, Equities

`WorkerPayload` is what `makeContext()` does: a tick is given the database row,
`savePayload()` merges into the cached copy and reaches the row only every
`DB_SAVE_INTERVAL_MS`. The workers are modelled on top of it: planning and
buying coin by coin; bags, exits and the queue of the web's sell requests;
balances read now and then, arbs, seeds within budgets, liquidations. `ArbWorker`
has one user: in the code the balances and the ledgers of seeds and liquidations are
variables of the process (`crypto-arb.ts:44-53`, `:78-82`), which several users' ticks
share, and how those disturb each other is not modelled.
`Equities` has the worker over its brokers (shares in halves, orders queued,
filled and dropped around the ticks; time is a calendar day and a part of it, on some days
the market is closed, and the day-trade record counts the trades of each moment) and, apart
from it, the linked accounts whose tokens are renewed and rotated.

### PluginBilling, InviteBonus, Credits, SignIn

A billing request is `request[r]` with the database call it makes next; `due` are
events CoinPay delivers until answered 200, any number of times and in any
order. Time is counted in subscription periods. For invites, `settler[t]` is
one `settleInviteBonus()`: read the two rows, judge, then for each side look in
the ledger, insert the grant (the unique index refuses a second), and upsert
the row. `Credits` has the handlers of the invites page and the code redemption,
where each function of the database is one step. `SignIn` has the CoinPay
handlers cut at their awaits over `bindings` and `accounts`, and, apart from
them, processes of the command that share one token file.

## 3. What is checked

Six runs pass; together they fire every action of every module. Sizes are distinct
states.

| Run | Instance | Question |
|---|---|---|
| `trade_memory` (`MCTradeEdges`) | 1 live daemon, 2 overlapping ticks, memory, no inventory, 2 rows of 3 kinds, losses or nothing, 2 time units with a day change, 1 reset or restart of the timer; or 2 order calls on one of 4 exchanges; or the pipeline with one observer tick over 2 pairs and 2 venues; or 3 routes, 2 a tick | ownership, truth of the audit trail, limits of the breaker, rows only advance, dead rows are swept, claimed rows resolved; what orders return; what fills the queue |
| `trade_workers` (`MCTradeEdges`) | 2 live and 1 paper daemon, Supabase, inventory check, 2 rows, failed and half-failed writes, trips, 1 restart | at-most-once execution, few late executions, refinement of the abstract queue |
| `wallet` (`MCWalletNonce`, 250 k) | 3 calls, 4 regimes (one of them 2 services of one address), 1 restart; or 2 opportunities of sizes 1 and 2; or one balance of 3 with an excess of 1; or 2 swaps on one of 3 venues | nonces neither shared nor skipped, truth of reports, progress; the ledger promises too much by unsettled excesses at most; what executors report and hold |
| `daemon` (`MCDaemon`) | 2 daemons and 1 job on Redis with a stall; 1 daemon and 2 users' jobs without; or 2 settings jobs, 2 tokens, 3 events; or one price stream, 2 pairs | one tick per job, right environment, no wedged job; what tokens are lost, no needless lock, inbox merged; streams agree with what is watched, and resume |
| `web` (`MCWeb`, 860 k) | one of 14 foci, see the bounds below | one period per payment, bonuses once and backed, quotas, every buy accounted for with the storage the daemon has, and what is reckoned: books, sizes, vault, stocks, links, charts, verdicts, sign-in, command |
| `positions` (`MCPositions`) | 1 venue of each kind, 2 pairs, a restart or a user who trades; or 2 coins; or 2 mints; or 2 exchanges with 2 pairs; or 4 bars | one position a venue, nothing unmanaged; the workers' payloads and budgets; backtests agree |

### Properties worth reading

Queue:

* `AtMostOnce`: no row is executed twice by any workers, overlapping ticks,
  lost answers or restarts. It breaks if the update claims by id alone.
* `Ownership`: what a tick still holds is claimed, by its daemon, and held by
  no other tick. Together with unconditional `resolve()` it is the reason
  `RowsOnlyAdvance` holds: nothing in `resolve()` protects a terminal status.
* `LateExecutionsBounded`: with an awaited inventory check an execution may
  start after the breaker opened; never more than the ticks that were waiting.
* `AuditTruthful`: the trail repeats what the executors told the daemon. Where `stuck`
  belongs is left open, since code and comment differ (below), and what a throw hides
  is `aborted` here as in the code.
* `ImplementsQueue`: all this implements `OpportunityQueue`.
* `EdgesSafe`: `OnePipeline` (ticks of several users ask while it is built),
  `UnexpiredIsRecent` (however slowly some venues answer), `RoutesTakeTurns`;
  `CeilingHolds` (one call, one order: on Coinbase by its id and on Kraken by
  asking once, *not* on Binance.US and Gemini), `AnswersMeanIt`,
  `NoncesInOrder`. `OrdersAnswered`: every call returns, whoever has the lock.

Money that moves:

* `NoncesSound`: the calls of a service made one at a time keep nonces distinct and
  gap-free through every fault, also a lost answer to a broadcast, a restart and what other
  services of the address do; overlapping calls keep them distinct until one of them
  makes the service resync or the process restarts. Services of one address do hand
  out each other's nonces, and nothing is claimed of that. `SubmittedIsMined` needs, beyond that, that no restart leaves
  an allocated nonce unused.
* `ExecutorsHonest`: `ReportTruthful` of the service; `StuckMeansLong`,
  `SwapReported`, `SwapsAllowed` of the executors (a swap is disallowed only if
  its allowance was read behind transactions that were given up); `SwapsTold`,
  `DexCapHolds`, `ExitsFit` of the workers' swaps, each with the exceptions the
  code really has.
* `LedgerHonest`: what `canAfford()` calls free is on chain and promised to nobody but
  for excesses not settled yet, and what is reserved is covered up to all excesses, unless
  a refresh overlapped a settlement or the key was used elsewhere. So "never submits a tx
  that would fail on insufficient balance" (`inventory/src/index.ts:6`) holds only while
  gas and slippage stay within the estimate.
* `SpendAccounted`: whatever the storage answers, every buy of engine and agents is in
  the ledger or on its way there, once, and a seeded counter is not behind the day's buys,
  across restarts, window changes and queue races, unless a buy went missing between
  counter and ledger (`forgot`: a failed statement, a crash before the drain). That the
  sum stays below the budget is false in the daemon and run `web_budget`.

Positions and workers:

* `OneHoldingPerVenue`, `HoldingsManaged`: what the crypto-trade source bought stays
  one per venue and is managed until it is sold, however exits, liquidations and
  rotations fail; the exception (Gemini's hydration) is in the statement.
* `WorkersSafe`: `PacedWhenFlushed` (DCA, if every save reached the row; with the
  throttled flush it is false, see below), `BagsTracked`, `RequestsSurvive`,
  `BudgetsHold`, `OncePerReading`, `FreshArbsHedged`, and the backtests:
  `OnePairAgrees` (two simulators, written apart, agree where one pair has
  candles), `LiveExitsFirst`, `DayLossBounded`, `HaltIsTold`, `SkippedCounted`.

The daemon:

* `OneTickPerJob`: leases, `running` flags and re-created entries together
  keep a job single, except beside a tick whose lease ran out while its
  process stalled; that tick cannot free its successor's lease.
* `EnvIsTheUsers`: while a source runs inside its overlay the environment is its
  user's. Nothing is claimed of readers outside any overlay, which there are (below).
* `KeepsTokens`: what the database took is in the blob or the inbox, or entered the
  column between the read and the write of somebody who wrote it (`outrun`). Those
  losses are real, the callback holds the row across a token exchange; a write from an
  outdated row loses nothing else.
* `LocksForCause`: extending or ending a session under a running load never
  costs the next session, because the load opens with a copy of the key.
* `StreamsInStep`: an open socket was asked for exactly what is watched, and no
  price of an unwatched pair is kept (with Gemini's and Coinbase's exceptions).
  `StreamsResume` needs that a connection was heard from once.

The web:

* `PaymentsAddUp` bounds `paid_until` from both sides; the lower bound needs that
  no request failed and that no two settlements of the plugin overlapped.
* `BonusesHold`: the row says granted only when the ledger does, a side is credited
  once; the cap is for settlements that take turns, since it counts rows already
  written.
* `CreditsScarce`: quota, one use per invite, the sender on record, the code's limit.
* `MCBooksHonest`: `DayTruthful`, `LossLimitBites`, `QuoteHonest`, `SizesSound`;
  `MCVaultSound`: `VaultOpens`, `RecoveryWorks`, `PassphraseHolds`, `SecretsKept`;
  `MCSignalsSound`: `SnapshotsOnce`, `OwnCandles`, and three about verdicts;
  `MCSignInSound`: `EntersBound`, `WayInStays`, `NoStrays`; `OwnTokensGood`,
  `FileTokenGood`. Each names the mishaps it excuses; those are what the list below
  is about.
* `MCEquitiesSound`: `NeverShort` and `PositionCapHolds`, per stock, but for orders
  sent on top of unfilled ones (`crossed`); `LinkLives`; and `PdtHolds`. The guard counts
  trades within `PdtDays` times 24 hours, the rule those of as many days of the market:
  the property holds the first always and the second where the guard's days include
  no closed one (`Unbroken`). With that condition dropped, this run shows a trade of
  day 2 forgotten on day 4 although day 3 was closed.

### Where the code disagrees with its own text

Six runs check one statement each of the repository and find it violated.

* `trade_declined`: "reported with executorRan=false so the circuit breaker
  doesn't trip" (`executors/cex-cex.ts:43`). `runLive()` overwrites the flag.
* `wallet_resync`: "Force a resync so the next allocation doesn't double-use"
  (`wallet-service/src/index.ts:165-167`). Beside other calls the resync
  causes the double use.
* `seal_zero_key`: a merge "requires an unlocked session (the data key)"
  (`user-config.ts:302`). A lock between the read and the seal makes it seal
  under zeros, and the blob cannot be opened any more.
* `billing_retry`: a database failure "answers 500 so CoinPay retries"
  (`coinpay-webhook/route.ts:17-18`). If it strikes between claim and
  extension the retry is answered "already paid".
* `invite_final`: "'granted' is final" (`20261026200200_*.sql:11`). An older
  verdict written later replaces it; the grant stays in the ledger.
* `web_budget`: "The single safety primitive that every BUY ... is hard-capped
  against" (`spend-budget.ts:4`). `runnerStorageFor(ctx).get()` ignores what it is
  asked for (`runner-storage.ts:16`), so the user's budget never arrives.

Noted while modelling, without a run of their own. The models follow the code in
all of these, and the properties carry the exception.

* Storage adapter (`runner-storage.ts:16`): for the same reason the maximum
  position, the daily loss limit and the web's trading switch (`crypto-trade.ts:327-343`)
  do not reach the engine, the arbitrage worker does not see which keys the trading source protects,
  and its realized profits are empty, so seeded pairs pause after the evaluation
  window. `act()` of the arbitrage source does not look at the kill switch.
* Trade daemon: `mapExecutorStatus()` files `stuck` as `failed` where its comment
  says `rejected` (`trade-daemon/src/index.ts:381-385`); a trade whose executor threw after
  submitting is `rejected` (`:349-353`); a row may expire while `canAfford()` is awaited; a restart closes the breaker
  that only an operator should (`circuit.ts:15-17`); Supabase drops
  `opp.execution`, so its gates do not apply there (`supabase.ts:58`).
* Wallet: a broadcast whose answer is lost is reported `aborted` without a hash
  although "Null if we failed before submission" (`wallet-service/src/index.ts:47-49`);
  the daemon builds several wallet services for one key, each with a nonce cache of
  its own (`executors/factory.ts:89`, `:156`); a restart while calls overlap leaves a
  hole below a pending transaction, which later calls fill before they reuse the
  pending nonce.
* Executors report `aborted` when the service throws while polling although the swap
  is in the pool; the exchange executor checks the quote balance only and does not
  look at how much an IOC order filled.
* Exchange clients: Binance.US and Gemini retry orders on any error without a client
  order id, so one call can place three; the ceiling of `kraken-private.ts:17` is not
  applied to market orders.
* Inventory: see `LedgerHonest` above.
* crypto-trade: cooldowns are written under `exchange:pair` and read under `pair`;
  Gemini's hydration overwrites tracked positions (`index.ts:1495-1499`), although hydration "won't
  clobber the daemon's own in-memory state" (`:1540`), and takes a failed balance for an
  empty one; a tick asks for the halt once, so one that comes between signal and order
  waits for the next; the source's state is process-wide; agents' orders are executed again
  after a crash, or dropped by a failed re-read; a revoked token's order is executed;
  `tokenSpentThisWindow` is 0 on error.
* Spend budget: the seed is read before the buffer is inserted; a change from daily to
  weekly on a Monday resets the counter.
* Stale payloads (`runtime.ts:41`, `:287-305`): the row a tick is given is up to 30 s
  older than what the last tick saved, so DCA buys a coin twice in an interval
  (`PacedWhenFlushed` with `FlushTimes = {1}` instead), pump.fun positions reappear, and the
  web's sell button writes the whole payload back. `maxCoins` is not kept across ticks.
* Arbitrage: several seeds of a tick each count on the same balance; the lockout of
  Kraken delays the reading of every exchange's balances beyond the cooldowns, so seeds
  repeat on one reading (`seeder.ts:7`); liquidation raises less than seeding needs.
* DEX swaps: a buy is recorded with the quoted volume, so after slippage the exit asks
  for more than there is, and hydration skips the tracked pair; Jupiter's holdings are
  never restored with the default list; a swap given up after 60 s may land later.
* Books and sizes: the loss limit's baseline is what happened to answer; a BUY's
  pre-flight leaves out slippage and fees against the notional minimum
  (`sellability.ts:20-22`); limit prices are rounded to cents.
* Backtest: stops fill at the stop even when the bar opened below it; a stop closer than
  the hard stop is suppressed under the uptrend guard; losses are booked on the entry's
  day where the daemon uses the exit's.
* Streams: a substring test (`ws-price-cache.ts:170`) gives a pair the prices of another
  whose symbol contains it; a first handshake that hangs is never closed; refused
  subscriptions are only logged.
* v2 pipeline: built inside the first ticking user's overlay, so his keys and mode
  outlive his lock (`user-config.ts:5-6`); its daemon runs on timers outside any overlay
  (`v2/pipeline.ts:245-247`) while the exchange clients read `process.env` at each call
  (`kraken-private.ts:37-42`, `:70`), so its orders go out under the settings of whoever's
  source happens to run; triangles are published before slippage is
  counted.
* Vault: saving a section with plain and secret fields while locked sends nulls for
  the secrets; "Lock" while a passphrase change stretches its key wraps 32 zero bytes;
  a stale tab can make a second vault over the first; a PUT of plain settings writes back the
  seal it read; a lost answer hides the recovery key.
* Equities: five times 24 hours are not "a deliberately conservative proxy for 5
  business days"; "it never *under*-counts" (`pdt.ts:13-15`) is false over a weekend; orders are noted when accepted, so the next tick may
  sell again ("no shorting in v1"); a settings save replaces the payload and with it the
  day-trade record; a callback writes back the inbox it read before the token exchange.
* Signals: a chart still being fetched is flushed as ready and never fetched again; a fall
  below the hour's lows may be bought as a breakout; a suppressed scalp hides the other
  analysis ("takes whichever fires first").
* Credits and sign-in: `revokeInvite` may revoke a used invite; a crash in `createInvite`
  uses up quota; the CoinPay callback never settles the invite cookie; a crash between
  creating and linking leaves an account nobody enters; two tabs' logins fail each other;
  the command does not re-read its token file, contrary to `apps/cli/src/auth.ts:38-45`.

### Bounds

Two of everything that competes (rows, ticks, daemons, users, settlements) is
enough for one to overtake the other between any two of its steps, which is
the shape of every race above; a third is used where a third party matters
(nonces: one fails, one holds a nonce, one allocates; workers: the paper
daemon). What the proofs cover needs no larger instance.

* `trade_memory`: `MaxConsecutiveFailures` is 2, so the streak can grow, be cleared
  and reach its limit; it is 1 in `trade_workers`, so that the breaker opens while
  others are between gate and executor. Orders cost 60 or 101 against a ceiling of 100,
  and are tried twice. All rows have one TTL, and rows are claimed oldest first, so dead
  rows are in front of live ones (with two TTLs `DeadRowsSwept` holds too: 341 k states,
  near four minutes). A batch is of one row, so overlapping ticks are what ages rows.
  Restarts are left to `trade_workers`. One observer tick visits two pairs; triangles are a focus of
  their own (3 routes, 2 a tick, so that slices do not divide them).
* `trade_workers`: one tick a daemon, so one execution may be late; the theorem has any number.
* `wallet`: transactions take one unit beyond their reservations in all; two opportunities, so that one is mined after it was given up under the next
  (three: 975 k states locally, with the inductive invariant); two swaps, buy and exit.
* `daemon`: two ticks of a job on one daemon, so that one is skipped; one release of
  watched pairs and two faults of a feed.
* `web`: invoices, one of them legacy, one webhook request beside the poller (two:
  765 k states locally); two invites and two settlements with a cap of 1, so that they reach
  it (in the code 10); two invites under a quota of 1 with two redemptions (three under 2:
  376 k locally), as many as there are accounts, so that a code's own limit does not bind
  (in `CreditsStayScarce` it may); an agent's order and one buy over two days
  (two orders: 514 k; 3 days: 28 M locally); three sales, two days, three starts
  and a ring of 2; one tab and one shell, three seals, three moves (five: 4.9 M locally),
  recovery keys of 3 bytes; one stock, four days of two parts, the third of them closed, four ticks, one day trade in two
  days, records kept for three, so that trades leave the window and the record (days pass only while `PdtHolds` still claims something,
  `Ruling`; time within a tick stands still); candles of two polls, four polls, two charts, one
  restart, one flush (two frames, lagging snapshots, two users: 558 k locally); one browser,
  two handlers, two starts (two browsers: 157 k locally); two processes of the command with
  two calls each and two tokens (three tokens, two users: 1.1 M locally).
* `positions`: one restart or one move of the user, on each kind of venue; DCA over two
  intervals of two polls, where every save is flushed (`FlushTimes = {0}`, that is
  `DB_SAVE_INTERVAL_MS = 0`; with production's 30 s its pacing fails, see above); one restart or slip for every other worker; four bars with the
  kinds of candles that matter listed in `MCBars`, around midnight.

`MaxTime`, `MaxResets`, `MaxMoves`, `SettingsMoves`, `MaxFaults`, `MaxFailed`,
`MaxSlips`, `MaxCrashes` and their like bound the clock and what operators and
failures do; each run has at least one of every kind it allows. Rows, slots and the
two live daemons are interchangeable and used as a symmetry set in
`trade_workers`, which checks no liveness. Deadlock checking is off because every
bounded instance comes to rest.

### Fairness

* Trade daemon: every step of a tick, the timer included (`WF` per tick).
  `DeadRowsSwept` excuses stopped daemons. No fairness for publishing, time,
  operators and failures.
* Orders: a call proceeds, and what is under way is delivered or given up (`WF`);
  the clients have timeouts (Binance.US's has none
  without a proxy; its connection is taken to close).
* Wallet: every call proceeds (viem's requests time out, `trackReceipt` has a
  deadline) and the node mines what is executable.
* Scheduler: timers fire, awaits settle, unrenewed leases expire, `discover()`
  comes round. That `source.tick()` settles is an assumption: nothing in the
  code bounds it, and one that hangs holds up every user.
* Settings: ticks load them again and again, awaits settle, cached rows expire.
* Streams: closing, the reconnect timer, the watchdog and ageing are weakly fair.
  Opening is strongly fair (`SF`): a handshake takes far less than the ten seconds
  between two rounds of the watchdog, so a connection that is tried again and again
  opens some time.
* Positions: a tick's steps are weakly fair; that it begins a poll, and that a venue
  answers, strongly, for a venue that is asked again and again answers some time.
* Invites: in the counterexample run, a settlement's calls return. Nothing is
  assumed in `web`, which checks no liveness.

## 4. What is proved

55 theorems, for every value of the constants. Every safety property that the passing runs
check, 31 of 40, is stated by one; the other nine are liveness (section 5).

| Theorem | States | Argument |
|---|---|---|
| `TypeCorrect`, `OwnershipHolds`, `AtMostOnceExecution` | types, `Ownership`, `AtMostOnce` | `IInv`, below |
| `DaemonsImplementQueue` | `ImplementsQueue` | `IInv` makes every step one of the queue's or a stutter |
| `BreakerHoldsLimits` | `ClosedBelowLimits` | inductive with the types |
| `LateOnesAreBounded` | `LateExecutionsBounded` | `LateInv`: late executions and waiting ticks together do not grow while a breaker is open |
| `RowsAdvance` | `RowsOnlyAdvance` | `IInv`: only a claimed row is in hand |
| `AuditIsTruthful` | `AuditTruthful` | `Told`: a tick about to resolve believes what its executor answered |
| `QueueIsFilledWell`, `OrdersAreHonest`, `EdgesAreSafe` | `ObserversSafe`, `OrdersMeanIt`, together `EdgesSafe` | `ObserversInv`; `OrdersInv`: a nonce ties a call to its request and its answer |
| `NoncesAreSound` | `NoncesSound` | per service: `SInv` for calls that take turns, `GInv` for overlapping ones |
| `ReportsAreTrue` | `ReportTruthful` | `RInv`: what a call's place says of its transaction |
| `ExecutorsReport` | `StuckMeansLong`, `SwapReported`, `SwapsAllowed` | `XInv`: the pool ahead of a trade, and the allowance it will find |
| `LedgerIsHonest` | `LedgerHonest` | `LedgerInv`: row and callers' books match; what is free exceeds the chain by unsettled landings and their excess at most |
| `SpendIsAccounted` | `SpendAccounted` | `BudgetInv`: bought = ledger + buffer + carried, and the counter covers the day |
| `SwapsAreHonest`, `ExecutorsAreHonest` | `DexHonest`, all of `ExecutorsHonest` | `DexInv`: the wallet is the sum of what swaps brought, block by block |
| `WalletTypes` | `MCTypeOK` of `MCWalletNonce` | `LineOK`, `FlightOK`: a line is of calls in flight, each once; `FinalOK`: blocks become final from the oldest |
| `LeasesExclude`, `OverlaysDoNotMix` | `OneTickPerJob`, `EnvIsTheUsers` | `DaemonInv`: a tick in flight holds its lease; only the head of the overlay queue runs |
| `DaemonTypes` | `MCTypeOK` of `MCDaemon` | settings and streams keep their types action by action; the scheduler's are part of `DaemonInv` |
| `TokensAreKept`, `LocksHaveCause` | `KeepsTokens`, `LocksForCause` | `SettingsInv`: every copy of the row is the row, or older (`Known`), and what a writer of it can lose is `outrun` |
| `StreamsAgree` | `StreamsInStep` | `StreamInv`: subscribed implies watched, in every state of the connection |
| `TradeTypeCorrect`, `OneHolding` | types, `OneHoldingPerVenue` | `TradeIInv`: what was bought is marked; a buy is alone on its venue |
| `BagsAndRequestsKept`, lemma `PacedUpToSlips` | `BagsTracked`, `RequestsSurvive`, `PacedWhenFlushed` (parts of `WorkersSafe`) | `PumpInv`: a bag is a position of the row or of the tick; `DcaInv`: all but as many orders as there were slips are known |
| `ArbIsSafe`, `BacktestsAlwaysAgree` | `ArbSafe`, `BacktestsAgree` | `ArbInv`: what was paid is in the state, the row or forgotten; `BtInv`: the live position is the backtest's, its mark no lower |
| `WorkersAreSafe` | `WorkersSafe` | the five before, one worker at a time |
| `PositionTypes` | `MCTypeOK` of `MCPositions` | as far as the modules' invariants do not say so already |
| `CreditsStayScarce`, `BonusesAreHeld`, `PaymentsAreWorthTheirPeriod` | `CreditsScarce`, `BonusesHold`, `PaymentsAddUp` | `CInv`, `BInv`, `PInv` |
| `SignInIsSound`, `SessionsAreKept` | `SignInSound`, `SessionsKept` (parts of `MCSignInSound`) | `SignInv`: what a handler knows at each step; `CliInv`: one renewal a process |
| `VaultHoldsTrue` | `VaultOpens`, `RecoveryWorks`, `PassphraseHolds`, `SecretsKept` (`MCVaultSound`) | `VaultInv`: every row, key and put is of one seal |
| `KeyReadsBack` | `RecoveryKeyReadsBack`, for any bytes | `Carries`: letters and bytes are cut out of one stream of bits |
| `BooksAreTrue` | `DayTruthful`, `LossLimitBites` (parts of `MCBooksHonest`) | `BooksInv`: the ring holds the last sales, and the day's are among them |
| `DollarsAreThere` | `QuoteHonest` | `QuoteInv`: what is reserved is a sum that covers the orders seen |
| `SizesAreSound`, `AnySizeIsSound` | `SizesSound`; the same for any input | arithmetic; for entries, induction on the fills |
| `LinksLive`, `StocksAreCovered` | `LinkLives`, `NeverShort`, `PositionCapHolds` | `LinkInv`: whatever waits is the last token of its grant; `StockInv`: one order out a stock, but for crossed ones |
| `DayTradesAreFew` | `PdtHolds` (with the two before, `MCEquitiesSound`) | `PdtInv`: for each moment in the window, the record is no less than what was done and will be |
| `ChartsAreTheirOwn`, `VerdictsAreSound` | `OwnCandles`, `VerdictsSound` | `ChartInv`: a fetch knows its chart; the best candidate, case by case |
| `SnapshotsCountOnce` | `ChartsSound` (with `SnapshotsOnce`) | `SnapInv`: candles never run ahead of what was read, so what comes later is counted once |
| `BooksStayHonest`, `VaultStaysSound`, `EquitiesStaySound`, `SignalsStaySound`, `SignInStaysSound`, `WebTypes` | `MCBooksHonest`, `MCVaultSound`, `MCEquitiesSound`, `MCSignalsSound`, `MCSignInSound`, `MCTypeOK` of `MCWeb` | all of the above and the types of each part; a step is of one part |

### Assumptions

The `ASSUME`s on the constants say that sets the prover counts are finite, numbers are
numbers, and distinguished values are none of the others. Beyond these:

* `InMemoryIsOneProcess` ("Not suitable for multi-worker deployments"): the in-memory
  queue dies with its only daemon.
* `DexSlippage` is at most every size in `DexSizes`: what a buy gets is not negative.
* `RateLimitWait <= LockoutWait <= MaxLockoutWait`: a minute, 15 and 60 minutes in the code
  (`crypto-arb.ts:55-56`, `:181`). `PdtDays <= KeepDays`: five days are counted, more are kept.
* `Linkable` has names of `Priority` only: a user links brokers that there are.
* `AnySizeIsSound`: fees up to eight percent. (For buys the property itself asks for a price of
  a quarter of a dollar at least: below it it is false, as its comment says.)

What a statement excuses (an overlap, a lost answer, a failed request) is in the statement
itself, and the instances of the runs include those cases.

### The queue

`AtMostOnce` is not inductive: a state where a row that ran is pending again,
or in two batches, satisfies it. The invariant
`IInv == TypeOK /\ Ownership /\ Fresh /\ Shape /\ AtMostOnce` adds that a row
in hand is claimed by its holder and by nobody else (`Ownership`), that rows
still claimable, in a batch, or in front of the inventory check have not run
(`Fresh`), and that the row in hand has left its batch (`Shape`). The proof
has a lemma per pattern rather than per action: `ClaimStep` (some rows pass
from the queue to one idle tick), `MoveStep` (a tick gives up or moves on
with rows it holds), `RunStep` (a tick hands its row to an executor), and
`StepIInv` reduces every action of `Next` to one of them. The rest of the queue's
theorems reuse `IInv`: a terminal row is in nobody's hands, so `resolve()`, which asks
nothing, cannot overwrite it; the row of a tick that executes is claimed, so its
execution is the abstract queue's first; an outcome is recorded for rows in hand only,
so a tick still has before it what it was told (`Told`).

`LateExecutionsBounded` counts: `late[d]` and the ticks of d that wait for
`canAfford()` are together no more than the slots, as long as the breaker is open. A
tick that begins late leaves those that wait; opening starts from zero; no tick joins
them while it is open.

### Observers and orders

`ObserversInv`: whoever builds the pipeline is alone and there is none yet (`Pipeline`); an
edge's age and what it may still live add up to less than the two limits (`Published`), which
aging keeps, for it takes from one what it gives the other; and the routes before the cursor
are one visit ahead of the others (`Ahead`), so a slice that wraps around ends with the same
shape one visit later. The theorem's remainder is by case: a sum below twice the divisor.

In `OrdersInv` a nonce is given once (`Numbered`), an answer is to the attempt its caller
listens for and its request has gone (`Listened`), and a call that heard every answer has
nothing under way but that attempt, and nothing placed before an answer says so (`Heard`). On Kraken,
who is under way is the head of the line and has the last nonce (`InLine`), so only what
was given up on can be overtaken; and nobody asks twice (`Once`). Two lemmas carry every action:
`Settling`, for whatever ends an attempt, and `Arriving`, for whatever the exchange does.

### Wallet and executors

For calls that take turns, `SInv` says that the pool carries the nonces from `mined` on
without a hole (`PoolRuns`), so the count a node answers is the first free nonce
(`CountsToFrontier`). The one call in flight holds it or, when its service has not seen what
others sent, an earlier one, in any case beyond what the service gave before (`Turns`). A
lost answer or a restart empties the cache and leaves the pool as it is. For overlapping calls,
`GInv` says of a service that has not resynced that the nonces it gave away are distinct and
below the cache's, and that the node is asked before the first is given only (`Given`).

`XInv` follows a trade's own transactions: while nothing of earlier trades is
pending at the reading of the allowance (`~behind`), what its approval finds in the pool is
nothing, and its swap finds an allowance of its size (`Reserved`). One opportunity is
on its way at a time (`OneGoing`), and given-up ones stay in the pool in order.

### Ledger and budget

`RowIsThere` is the heart of `LedgerInv`: what the row calls available exceeds the
chain by at most what landed and is not settled yet, excesses included, unless a refresh overlapped a settlement
(`stale`); so does a read under way that no settlement has overtaken (`ReadIsThere`). In `BudgetInv`, what was bought is at every moment in
the ledger, in the engine's buffer or carried between them, day by day; unless the tick has
still to seed it, the counter is at least the day's buys (`Covered`), and a seed reads a
window that contains the day (`SinceCovers`: a sum from the start of a window on is no less than
what was bought on one of its days, for any number of days and weeks).

### Swaps

`DexInv` does the worker's and the chain's books at once. The wallet is the sum of what the
swaps brought, and so it was at every block (`WalletOK`); `below` makes the chain a line in which
only what is not confirmed can still leave, newest first (`ChainOK`); what was reported bought
adds up to no more than the position, and what is sure to at least the position, as long as
nothing is excused (`PositionOK`). One swap is live at a time (`InTurn`), so each step changes one
term of each sum (`Moves`). `WorkersAreSafe` and `ExecutorsAreHonest` then put the theorems of the
modules together: of the instance's parts one runs, and the others stand where they started.

### Scheduler, settings, streams

A tick in flight whose lease did not expire under it is the lease's holder (`Leased`); one key
names one tick. The overlay queue holds exactly the ticks that wait or run, each once, and
only its head runs. `Known(copy, row)` says of each copy (the cache, a job's, a web request's)
that it is older than the row, or is the row. A write takes from a column at most what was
not in the writer's copy, which is what `outrun` notes, and everything else that was linked
is in the row before and after it, through merges and acknowledgements. For
streams, `subscribed` within the watched pairs holds in every state of the socket; with it,
an open socket has been asked for all of them at each of `retain`, `release`, open and refresh.

### Positions

What the strategy bought is marked as its own, in memory or, before the first poll of a
process, in the saved state (`Marked`); a buy is under way only on a venue without such a
mark (`BuyAlone`), for nothing else runs between the signal and its booking (`Phases`).

### Pump.fun and paced buys

`PumpInv` follows a mint through a tick: a bag is a position of the row, then still to be
checked or kept (`BagsKept`); a request is in the queue, then drained by the tick that sees to
it, and what the tick is about to save of the queue is what it has not drained (`QueueKept`).

`DcaInv` counts from the end of a coin's orders: all but the last `slips` are no later than
what the row (between ticks) or the tick (during one) knows of the coin, or an interval ago if
it knows nothing (`Behind`, `KnownTo`). A coin is planned when its interval is over by what the tick
knows, so one order more comes an interval after all but the last `slips`; a slip moves the
count by one. A row that a tick overwrites from an empty cache entry knows nothing, which is why
the row is allowed one order more while a tick runs (`AsRead` says what it may have lost).

### Arbs and backtests

`SeedsKnown` compares what seeding paid with every copy of its state: the process's, the entry's,
the row's, and the one a tick was handed. Each lacks at most what is forgotten, and the row what
is not saved yet besides (`Covers`); the sums over pairs are compared with the lemmas of
`Induction`. `Remembered` says that a seed or a sale on the present reading is in the state with
a time no earlier than the reading, and that a tick that orders began while the reading was
young; a second one thus comes a cooldown after the first, and by then the balances were read
again. The first attempt at this proof did not go through: a status saved after the cache entry
expired replaces the row, and a process that has not had its first full tick finds nothing there.
The model now says so (`Durable`, `Forgets`); the behaviors with at most one fault are the same.

In `BtInv` a book holds a position only of a day that had not reached the limit (`SoundBook`), so
that what a day may lose beyond it is one stop. The live position is the backtest's and its mark
is no lower (`Follows`), so its stop is no lower either and the live exit comes no later. That the two
simulators agree on one pair is by the bar: what the second looks at besides is empty then.
Nothing is assumed of a candle but that its prices are numbers.

### Credits, bonuses, payments

`CInv` has what a request knows between its database calls: the invite it is about to
claim was shown, and by then its sender is on record (`RequestsKnow`). `BInv` has what a
settlement carries: what it is about to write as granted is in the ledger (`Backed`), and
while settlements take turns there is room under the cap for what was judged (`Alone`,
`Room`). `PInv` follows an invoice from payment to extension: rows say "paid" of what was
paid (`PaidIsPaid`), the conditional claim leaves an invoice in the hands of one request
(`OneClaim`), and `paid_until` is compared with the invoices whose period was added or lost:
at most that many periods (`NoneTwice`) and, if nothing failed or overlapped, that many
(`NoneLost`). Both count the base a request has read and not yet written back.

### Logins, credentials, the vault

`SignInv` keeps a user and a subject bound to each other alone (`BoundOnce`), says what each
step of a handler may still rely on after its awaits (`VisitsOK`), and that an account without
a binding is in the hands of a handler that will bind or delete it (`Tended`). In `CliInv` a
process has one renewal under way however many of its calls are waiting for it (`OneFlight`), a
token just issued is nobody's yet (`AnswersNew`), and a token in the file that was spent is being
renewed or was lost with its answer (`SpentKnown`): hence nobody is refused what he spent himself.

In `VaultInv` there is one vault unless it was made anew or its key wiped (`OneVault`): the row,
each row a client has read, each key in memory and each put under way are of the same seal, so
a late put changes what is stored but not what opens it. For secrets, a put that replaces the
row it was made from keeps what a user was told, step by step (`WriteKeeps`).

### Linked brokers, stocks, charts, verdicts

`LinkInv` says of the inbox, of a callback and of a renewal under way that each has the last
token of its grant, and that no grant is in two of these places; so whichever is drained last
is the one the provider takes. `StockInv` says that unless a sell was sent on top of another a
stock has at most one sell out, within what is held (`SellsCovered`), and that of a stock the
tick has still to take, and of which no order was out when it began, nothing has changed to
the worse since it was read (`Fresh`). `ChartInv` numbers the charts: a
fetch writes to the chart whose number it has. That a verdict is sound takes no induction: each
tick makes its own, and the theorem goes through the candidates that can be the best (a long
trend outscores a breakdown only with the hour and the EMAs on its side, `LongTrendIs`).

### Books, dollars, sizes

The ring of closed trades holds the last sales (`Recent`) and these are in the order of their
days, so a day's sales are all in it unless the day had more than it holds; the profit
restored after a restart, a sum over the ring, is then the sum over the sales. `BooksInv` says so
of the book, of the row and of what is not saved yet, each under the mishaps that do not concern it.

`QuoteInv` follows two answers and the cancellations after them. What is reserved is the sum of a
function that `Covers` the orders: what each was seen to hold until its cancellation was confirmed, and
exactly what is left of it as long as nothing moved. A cancellation takes one term out of the
sum, a fill makes a term smaller than the function says.

Sizes need no induction over states. `AnySizeIsSound` is stated for any natural inputs, the
listed values of the model being some of them. The entry of a holding goes through the fills one
by one, newest first (`Explained`): what is found costs between the least and the most
that was paid, and what is still to be found is never more than the fills that remain.

### Day trades, candles, recovery keys, types

`PdtInv` compares, for each moment of the window, the worker's count with the day trades made and
those that orders still out will be (`Noted`), and says that the worker knows on which day a position
was opened while no sell is out (`Opened`). The sum over the window is then no more than the
limit the worker keeps to; as time passes moments leave the window and empty ones come in. If none
of the window's days was closed, the days of the rule are among them (`RuleCounted`).

`SnapInv` says that no copy of the candles, in a chart, a fetch or the cache, holds a time later
than the poll it was read at; so of the times that come later, a chart holds what was applied to it and
nothing else, and each snapshot adds one to the volume of its candle.

The recovery key is a stream of bits. `Carries` says of the buffer and its output that they are the
stream so far, cut into units; regrouping goes on where it was, so the bytes cut out of the letters
are the bytes the letters were cut from, and what was filled up is less than a byte.

The types ask for more than types in three places: that a service's line is no longer
than the calls that may overlap (each entry is another call in flight), that what is final of a wallet
is never negative (blocks become final from the oldest, so it was once all the wallet had), and that
a plan of coins holds no more than `maxCoins` (counting the coins that are due before each).

What is proved of one module holds in the instance that runs it beside others: each step of
the instance is one of a single part's or leaves it as it is, so the instance implies each part's own
specification, and the composed theorems follow from those of the parts.

## 5. What is only model-checked

Liveness under fairness: `DeadRowsSwept`, `ClaimedIsResolved`, `OrdersAnswered`,
`SubmittedIsMined`, `CallsReturn`, `JobsKeepTicking`, `InboxDrains`, `StreamsResume`,
`MCHoldingsManaged`. Fairness needs ENABLED, which is outside the prover.

The prover cannot apply induction theorems that take an operator, and knows no recursive operators.
What is computed over data is therefore written with recursive functions and sums over finite sets;
`Induction` proves, by induction on a set of numbers, that the states of n steps exist, that what each
step keeps holds at the end, and what a sum does when a term is added, changed, renamed or compared.

TLC checked `XInv` and other inductive invariants on the runs' instances before they were
proved.

## 6. What is not modelled, and the plan

Not modelled: the arithmetic of prices, fees and indicators (floating point);
HTTP, RPC and rendering; cryptography (a blob opens exactly under the key that
sealed it); `inspect()`; key rotation; opening a checkout; signature checks; the ageing
of the invite cap; how adapters get their quotes and choose among aggregators (reading
them: stablecoin symbols are compared in upper case with a set that has mixed case, one
allowance target is Base's on every chain, and simulated slippage is charged twice by
the ranker). PROJECT.json lists each component with its status. The largest files outside
are presentation (the terminal dashboard, the web's pages and projections), catalogues and
types (`plugin-catalog.ts`, `venue-types`), the clients of public data, the DealDash and
strategy sources, which the daemon's trading does not use, and storage behind its
interface.

The plan, most important first. Done: the queue, its daemon and its refinement; wallet,
executors, inventory; scheduler, settings, streams; positions, workers, budget; billing,
invites, credits; vault, equities, signals, sign-in; theorems for every safety property
of the runs, the types included, and for the instances that put the modules together. Left:
the storage contract and the source runner, the projections of the web, and the price feeds that
only the dashboards use.

## 7. Running

    tlc -workers 2 -config TradeDaemon_memory.cfg MCTradeEdges
    tlc -workers 2 -config TradeDaemon_workers.cfg MCTradeEdges
    tlc -workers 2 -config WalletNonce.cfg MCWalletNonce
    tlc -workers 2 -config Daemon.cfg MCDaemon
    tlc -workers 2 -config Web.cfg MCWeb
    tlc -workers 2 -config Positions.cfg MCPositions

    tlc -workers 2 -config TradeDaemon_declined.cfg MCTradeDaemon
    tlc -workers 2 -config WalletNonce_resync.cfg MCWalletNonce
    tlc -workers 2 -config Daemon_zeros.cfg MCDaemon
    tlc -workers 2 -config Web_budget.cfg MCWeb
    tlc -workers 2 -config Web_retry.cfg MCWeb
    tlc -workers 2 -config Web_final.cfg MCWeb

    for m in Induction TradeDaemonProofs EdgeProofs WalletProofs \
             DaemonProofs WorkerProofs AccountProofs ReckoningProofs
    do tlapm $m.tla; done

The first six take between one and four minutes each on two cores, the next
six a few seconds and end with the counterexample they are about. The proofs take from
a minute to twenty minutes a module.
