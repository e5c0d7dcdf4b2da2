---- MODULE SpendBudget ----
(***************************************************************************)
(* One user's crypto spend budget: the counter of the engine, the ledger   *)
(* in the database it is seeded from and drained into, and the queue       *)
(* through which agents' orders reach it (source-crypto-trade/index.ts,    *)
(* daemon/sources/crypto-trade.ts, web/lib/agent-trade.ts).  Every buy is  *)
(* of one unit; one agent token.  Day 0 is a Monday.                       *)
(*                                                                         *)
(* The tick asks its storage for the user's crypto-ui-settings.  A storage *)
(* that honours its key delivers them; the daemon's runnerStorageFor(ctx)  *)
(* ignores it and answers with the worker's own payload, which has no      *)
(* budget in it.  Delivered tells the two apart.                           *)
(***************************************************************************)
EXTENDS Integers, FiniteSets

CONSTANTS AgentOrders,   \* idempotency keys agents may send
          WebCalls,      \* placeAgentOrder calls that may run at once
          Budget,        \* spendBudgetUsd
          TokenBudget,   \* budget_usd of the token
          Delivered,     \* what storage.get answers with is the row of its key
          LastDay,       \* days until the end of a behavior
          MaxBuys,       \* buys of the engine's own
          MaxSwitches,   \* changes of the budget's window by the user
          MaxSlips       \* failed statements, lost answers, restarts

ASSUME BudgetConstants ==
    /\ Delivered \in BOOLEAN
    /\ Budget \in Nat \ {0} /\ TokenBudget \in Nat \ {0} /\ LastDay \in Nat
    /\ MaxBuys \in Nat /\ MaxSwitches \in Nat /\ MaxSlips \in Nat

Days == 0..LastDay
Buyers == {"engine", "agent"}
Nothing == [d \in Days |-> [b \in Buyers |-> 0]]

VARIABLES day,
          setting,     \* budgetWindow of crypto-ui-settings
          counter,     \* spendBudgetState and spendBudgetWindow of the engine
          seededFor,   \* the window start of the last seeding, or -1
          buffer,      \* spendLedgerBuffer: buys by day and buyer
          carry,       \* drained and not yet inserted
          ledger,      \* crypto_spend_ledger
          filled,      \* history: the buys that were really made
          inbox,       \* the agent-orders queue
          worker,      \* the tick: where it is, the window start it took, the orders it read
          call,        \* [WebCalls -> a placeAgentOrder call]
          engineBuys, switches, slips,
          forgot       \* history: some buy went missing from the counter

budgetVars == <<day, setting, counter, seededFor, buffer, carry, ledger, filled, inbox, worker,
                call, engineBuys, switches, slips, forgot>>

\* windowStartFor
WindowStart(window, d) == IF window = "daily" THEN d ELSE d - (d % 7)

FreshCounter(window) == [spent |-> 0, start |-> WindowStart(window, day), window |-> window]

Asleep == [pc |-> "idle", start |-> 0, batch |-> {}, done |-> {}, current |-> {}]
NoCall == [pc |-> "free", order |-> CHOOSE o \in AgentOrders : TRUE, saw |-> {}]

BudgetInit ==
    /\ day = 0
    /\ setting \in {"daily", "weekly"}
    /\ counter = [spent |-> 0, start |-> 0, window |-> "daily"]
    /\ seededFor = -1
    /\ buffer = Nothing /\ carry = Nothing /\ ledger = Nothing /\ filled = Nothing
    /\ inbox = {}
    /\ worker = Asleep
    /\ call = [w \in WebCalls |-> NoCall]
    /\ engineBuys = 0 /\ switches = 0 /\ slips = 0
    /\ forgot = FALSE

Plus(f, g) == [d \in Days |-> [b \in Buyers |-> f[d][b] + g[d][b]]]
OfDay(f, d) == f[d]["engine"] + f[d]["agent"]
Since(f, start) == LET Sum[d \in -1..LastDay] == IF d < start THEN 0 ELSE Sum[d - 1] + OfDay(f, d)
                   IN Sum[LastDay]
AgentSince(f, start) ==
    LET Sum[d \in -1..LastDay] == IF d < start THEN 0 ELSE Sum[d - 1] + f[d]["agent"]
    IN Sum[LastDay]

agents == <<inbox, call>>
money == <<buffer, carry, ledger, filled>>
bounds == <<engineBuys, switches, slips>>

At(pc) == worker.pc = pc
Go(pc) == worker' = [worker EXCEPT !.pc = pc]
Slip == slips < MaxSlips /\ slips' = slips + 1

-----------------------------------------------------------------------------
(* The engine's counter.                                                    *)

Rolled == IF counter.start # WindowStart(counter.window, day)
          THEN FreshCounter(counter.window) ELSE counter

\* The window the tick resolves: a setting that was not delivered is the default.
Window == IF Delivered THEN setting ELSE "daily"

\* checkSpendBudget for an order of one unit; no budget at all lets everything pass.
Allowed == ~Delivered \/ Budget - Rolled.spent >= 1

Unit(b) == [Nothing EXCEPT ![day] = [@ EXCEPT ![b] = 1]]

\* A buy that fills and is answered (recordSpend).
Buy(b) ==
    /\ counter' = [Rolled EXCEPT !.spent = @ + 1]
    /\ buffer' = Plus(buffer, Unit(b))
    /\ filled' = Plus(filled, Unit(b))
    /\ UNCHANGED <<slips, forgot>>

\* It fills, and the answer is lost: nothing is recorded.
BuyUnanswered(b) ==
    /\ Slip
    /\ counter' = Rolled
    /\ filled' = Plus(filled, Unit(b))
    /\ forgot' = TRUE
    /\ UNCHANGED buffer

\* Blocked by the budget, without a price, or refused by the venue.
NoBuy ==
    /\ counter' \in {counter, Rolled}
    /\ UNCHANGED <<buffer, filled, slips, forgot>>

TryBuy(b) == (Allowed /\ (Buy(b) \/ BuyUnanswered(b))) \/ NoBuy

-----------------------------------------------------------------------------
(* The tick of the crypto-trade worker.                                     *)

\* setSpendBudget: another window starts a counter of its own.  It is seeded only if
\* its start, as of now, differs from that of the last seeding.
BeginTick ==
    /\ At("idle")
    /\ counter' = IF Window # counter.window THEN FreshCounter(Window) ELSE counter
    /\ forgot' = (forgot \/ (Window # counter.window /\ WindowStart(Window, day) = seededFor
                             /\ counter.spent > 0))
    /\ worker' = [worker EXCEPT !.pc = "seed", !.start = WindowStart(Window, day)]
    /\ UNCHANGED <<day, setting, seededFor, money, agents, bounds>>

NeedsSeed == seededFor # worker.start

\* A mutant: a new window starts from zero, whatever the ledger has of it.
Unseeded == FreshCounter(counter.window)
\* syncSpendLedger: the ledger's sum of the window replaces the count, whatever the
\* buffer still holds.
Seeded == [counter EXCEPT !.spent = Since(ledger, worker.start)]

Seed ==
    /\ At("seed")
    /\ IF NeedsSeed
       THEN /\ counter' = Seeded
            /\ seededFor' = worker.start
            /\ forgot' = (forgot \/ Since(buffer, worker.start) > 0)
       ELSE UNCHANGED <<counter, seededFor, forgot>>
    /\ Go("drain")
    /\ UNCHANGED <<day, setting, money, agents, bounds>>

SeedFails ==
    /\ At("seed") /\ NeedsSeed
    /\ Slip
    /\ forgot' = TRUE
    /\ Go("drain")
    /\ UNCHANGED <<day, setting, counter, seededFor, money, agents, engineBuys, switches>>

Drain ==
    /\ At("drain")
    /\ carry' = buffer /\ buffer' = Nothing
    /\ Go("insert")
    /\ UNCHANGED <<day, setting, counter, seededFor, ledger, filled, agents, bounds, forgot>>

\* A failed insert is not repeated.
InsertEntries ==
    /\ At("insert")
    /\ \/ ledger' = Plus(ledger, carry) /\ UNCHANGED <<slips, forgot>>
       \/ Slip /\ carry # Nothing /\ forgot' = TRUE /\ UNCHANGED ledger
    /\ carry' = Nothing
    /\ Go("read")
    /\ UNCHANGED <<day, setting, counter, seededFor, buffer, filled, agents, engineBuys, switches>>

\* What a read of the queue answers with: a failed one, with no orders.
AnsweredWith(orders) == IF orders = inbox THEN UNCHANGED slips ELSE orders = {} /\ Slip

\* reconcileAgentOrders
ReadOrders ==
    /\ At("read")
    /\ \E batch \in {inbox, {}} :
          /\ worker' = [worker EXCEPT !.pc = IF batch = {} THEN "trade" ELSE "execute", !.batch = batch]
          /\ AnsweredWith(batch)
    /\ UNCHANGED <<day, setting, counter, seededFor, money, agents, engineBuys, switches, forgot>>

Execute(o) ==
    /\ At("execute") /\ o \in worker.batch
    /\ TryBuy("agent")
    /\ worker' = [worker EXCEPT !.batch = @ \ {o}, !.done = @ \cup {o}]
    /\ UNCHANGED <<day, setting, seededFor, carry, ledger, agents, engineBuys, switches>>

ReadAgain ==
    /\ At("execute") /\ worker.batch = {}
    /\ \E current \in {inbox, {}} :
          /\ worker' = [worker EXCEPT !.pc = "rewrite", !.current = current]
          /\ AnsweredWith(current)
    /\ UNCHANGED <<day, setting, counter, seededFor, money, agents, engineBuys, switches, forgot>>

\* The orders of this batch leave the queue, and with them whatever was queued between
\* the two statements.
Rewrite ==
    /\ At("rewrite")
    /\ \/ inbox' = worker.current \ worker.done /\ UNCHANGED slips
       \/ Slip /\ UNCHANGED inbox
    /\ Go("trade")
    /\ UNCHANGED <<day, setting, counter, seededFor, money, call, engineBuys, switches, forgot>>

\* The strategy's own buys.
EngineBuys ==
    /\ At("trade") /\ engineBuys < MaxBuys
    /\ engineBuys' = engineBuys + 1
    /\ TryBuy("engine")
    /\ UNCHANGED <<day, setting, seededFor, carry, ledger, agents, worker, switches>>

EndBudgetTick ==
    /\ At("trade")
    /\ worker' = Asleep
    /\ UNCHANGED <<day, setting, counter, seededFor, money, agents, bounds, forgot>>

Restart ==
    /\ Slip
    /\ counter' = FreshCounter("daily")
    /\ seededFor' = -1
    /\ forgot' = (forgot \/ buffer # Nothing \/ carry # Nothing)
    /\ buffer' = Nothing /\ carry' = Nothing
    /\ worker' = Asleep
    /\ UNCHANGED <<day, setting, ledger, filled, agents, engineBuys, switches>>

-----------------------------------------------------------------------------
(* placeAgentOrder on the web server.                                       *)

ReadQueue(w, o) ==
    /\ call[w].pc = "free"
    /\ call' = [call EXCEPT ![w] = IF o \in inbox THEN NoCall     \* a duplicate: accepted as it is
                                   ELSE [pc |-> "check", order |-> o, saw |-> inbox]]
    /\ UNCHANGED <<day, setting, counter, seededFor, money, inbox, worker, bounds, forgot>>

\* What the ledger has of the token this day, and what the queue it read still holds.
Committed(w) == AgentSince(ledger, day) + Cardinality(call[w].saw)

CheckToken(w) ==
    /\ call[w].pc = "check"
    /\ call' = [call EXCEPT ![w] = IF Committed(w) + 1 > TokenBudget THEN NoCall
                                   ELSE [@ EXCEPT !.pc = "write"]]
    /\ UNCHANGED <<day, setting, counter, seededFor, money, inbox, worker, bounds, forgot>>

Enqueue(w) ==
    /\ call[w].pc = "write"
    /\ inbox' = call[w].saw \cup {call[w].order}
    /\ call' = [call EXCEPT ![w] = NoCall]
    /\ UNCHANGED <<day, setting, counter, seededFor, money, worker, bounds, forgot>>

-----------------------------------------------------------------------------
NextDay ==
    /\ day < LastDay
    /\ day' = day + 1
    /\ UNCHANGED <<setting, counter, seededFor, money, worker, agents, bounds, forgot>>

SwitchWindow ==
    /\ switches < MaxSwitches
    /\ switches' = switches + 1
    /\ setting' = IF setting = "daily" THEN "weekly" ELSE "daily"
    /\ UNCHANGED <<day, counter, seededFor, money, worker, agents, engineBuys, slips, forgot>>

WorkerStep == \/ BeginTick \/ Seed \/ SeedFails \/ Drain \/ InsertEntries \/ ReadOrders \/ ReadAgain
              \/ Rewrite \/ EngineBuys \/ EndBudgetTick
              \/ \E o \in AgentOrders : Execute(o)

WebStep == \E w \in WebCalls : CheckToken(w) \/ Enqueue(w) \/ \E o \in AgentOrders : ReadQueue(w, o)

BudgetNext == WorkerStep \/ WebStep \/ Restart \/ NextDay \/ SwitchWindow

BudgetSpec == BudgetInit /\ [][BudgetNext]_budgetVars

-----------------------------------------------------------------------------
(* Properties.                                                              *)

BudgetTypeOK ==
    /\ day \in Days
    /\ setting \in {"daily", "weekly"}
    /\ counter \in [spent : Nat, start : Days, window : {"daily", "weekly"}]
    /\ seededFor \in -1..LastDay
    /\ inbox \subseteq AgentOrders
    /\ \A f \in {buffer, carry, ledger, filled} : f \in [Days -> [Buyers -> Nat]]
    /\ engineBuys \in 0..MaxBuys /\ switches \in 0..MaxSwitches /\ slips \in 0..MaxSlips

\* "The single safety primitive that every BUY ... is hard-capped against"
\* (spend-budget.ts:4): no day's buys exceed the budget, of engine and agents together,
\* across restarts, changes of window and queue races, as long as no buy has gone
\* missing on the way between the counter and the ledger.
SpendWithinCap == ~forgot => \A d \in Days : OfDay(filled, d) <= Budget

\* What the counter counts: all of the day's buys, or the day is newer than the counter.
Covered == counter.start = WindowStart(counter.window, day) => OfDay(filled, day) <= counter.spent

\* The tick has still to seed it.
SeedDue == \/ worker.pc = "seed" /\ NeedsSeed
           \/ worker.pc = "idle" /\ seededFor = -1

\* Whatever the storage answers with, and though nothing is capped where it delivers no
\* budget, the buys are kept account of: while none has gone missing on the way, each of the
\* engine's and the agents' is in the ledger or on its way there, once, and once it is
\* seeded the counter is not behind the day's buys, across restarts, days, changes of
\* window and queue races (spend-budget.ts, syncSpendLedger).
SpendAccounted == ~forgot =>
    /\ \A d \in Days : OfDay(filled, d) = OfDay(ledger, d) + OfDay(buffer, d) + OfDay(carry, d)
    /\ SeedDue \/ Covered
====
