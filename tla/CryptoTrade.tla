---- MODULE CryptoTrade ----
(***************************************************************************)
(* The crypto-trade source of one user (packages/source-crypto-trade) as   *)
(* the daemon's worker drives it: what the account holds on the venues,    *)
(* what the process tracks of it, and what survives a restart.  A tick     *)
(* buys what agents ordered, restores the saved positions (first tick      *)
(* only), reconciles them with the venues, evaluates every scanned market  *)
(* and acts on each signal at once, and saves.  Whether a price, a score,  *)
(* a budget or a balance lets a signal through is nondeterministic.        *)
(***************************************************************************)
EXTENDS Integers, FiniteSets

CONSTANTS Venues, Pairs,
          Kinds,          \* the kinds of venue a behavior may have
          MaxCrashes,     \* restarts of the daemon
          MaxUserMoves    \* buys and sells of the user, outside the daemon

ASSUME TradeConstants ==
    /\ Venues # {} /\ Pairs # {}
    /\ Kinds \subseteq {"cex", "gemini", "dex"}
    /\ MaxCrashes \in Nat /\ MaxUserMoves \in Nat

Markets == Venues \X Pairs

VARIABLES kind,       \* [Venues -> Kinds]
          held,       \* markets whose base asset the account holds
          open,       \* openPositions: a market's position, bought (for the strategy or an
                      \* agent), restored from a holding, or none
          queued,     \* pendingLiquidations
          saved,      \* the positions of the tradeState in the database row
          cached,     \* those of the runtime cache, which every save reaches
          restored,   \* restoredTradeState
          fresh,      \* venues hydrated less than REHYDRATE_INTERVAL_MS ago
          tick,       \* the tick under way
          order,      \* the act() under way
          own,        \* history: holdings the strategy bought, tracked ever since
          crashes, moves

tradeVars == <<kind, held, open, queued, saved, cached, restored, fresh, tick, order, own, crashes, moves>>

Marks == {"none", "bought", "restored"}
NoPositions == [m \in Markets |-> "none"]
NoTick == [pc |-> "idle", halted |-> FALSE, payload |-> NoPositions, due |-> {}, asked |-> {}, seen |-> {}, todo |-> {}, tried |-> {}]
NoOrder == [do |-> "none", market |-> CHOOSE m \in Markets : TRUE, step |-> "none", filled |-> FALSE]

TradeInit ==
    /\ kind \in [Venues -> Kinds]
    /\ held \in SUBSET Markets
    /\ open = NoPositions
    /\ queued = {}
    /\ saved = NoPositions /\ cached = NoPositions
    /\ restored = FALSE
    /\ fresh = {}
    /\ tick = NoTick
    /\ order = NoOrder
    /\ own = {}
    /\ crashes \in 0..MaxCrashes      \* how many have been, before the behavior starts
    /\ moves \in 0..MaxUserMoves

On(v) == {m \in Markets : m[1] = v}
Open == {m \in Markets : open[m] # "none"}
\* hasManagedPositionOnExchange: positions restored from a holding do not count.
Managed(v) == {m \in On(v) : open[m] = "bought"}

world == <<kind, crashes, moves>>
venue == <<held, world>>
books == <<open, queued, own>>
saves == <<saved, cached>>
lasting == <<saves, restored, fresh>>

-----------------------------------------------------------------------------
(* The start of a tick, and the agents' orders.                             *)

\* savePayload() always writes the cache, and the row if the last time is 30 s ago.
\* (A bound: with no restart left to read them, the model keeps neither any more.)
RowMatters == ~restored \/ crashes < MaxCrashes
Save(positions) ==
    IF RowMatters THEN cached' = positions /\ saved' \in {saved, positions} ELSE UNCHANGED saves
Dropped == saved' = NoPositions /\ cached' = NoPositions

\* makeContext() reads the row and saves a status into what the cache has; the worker
\* resolves the user's trading switch.  Only the first tick needs the row.
StartTick ==
    /\ tick.pc = "idle"
    /\ \E h \in BOOLEAN :
          tick' = [NoTick EXCEPT !.pc = "agents", !.halted = h,
                                 !.payload = IF restored THEN NoPositions ELSE saved]
    /\ Save(cached)
    /\ UNCHANGED <<venue, books, restored, fresh, order>>

\* A tick of a locked user only saves its status.
LockedTick ==
    /\ tick.pc = "idle"
    /\ Save(cached)
    /\ own' = IF restored THEN own ELSE {m \in own : saved'[m] = "bought"}
    /\ UNCHANGED <<venue, open, queued, restored, fresh, tick, order>>

\* The trading switch, tradingOverride, as the tick has it.
TradingOn == ~tick.halted

\* executeAgentMarketBuy, up to the order: a live price needs an earlier scan.
AgentBuy(m) ==
    /\ tick.pc = "agents" /\ TradingOn /\ restored
    /\ kind[m[1]] # "dex"
    /\ order = NoOrder
    /\ order' = [NoOrder EXCEPT !.do = "agent", !.market = m, !.step = "send"]
    /\ UNCHANGED <<venue, books, lasting, tick>>

-----------------------------------------------------------------------------
(* poll(): restore the saved positions, then hydrate the venues due.        *)

\* Mutants: the mark of the strategy is not restored; a venue is hydrated once.
RestoreAsHoldings ==
    IF restored THEN open ELSE [m \in Markets |-> IF tick.payload[m] = "none" THEN "none" ELSE "restored"]
DueOnce == IF restored THEN {} ELSE Venues

RestorePersisted == IF restored THEN open ELSE tick.payload

Due == Venues \ fresh

BeginPoll ==
    /\ tick.pc = "agents" /\ order = NoOrder
    /\ open' = RestorePersisted
    /\ restored' = TRUE
    /\ tick' = [tick EXCEPT !.pc = "hydrate", !.due = Due, !.payload = NoPositions]
    /\ IF crashes < MaxCrashes THEN UNCHANGED saves ELSE Dropped
    /\ UNCHANGED <<venue, queued, own, fresh, order>>

\* The venue's answer, which what follows works on: the user may trade meanwhile.
ReadHoldings(v) ==
    /\ tick.pc = "hydrate" /\ v \in tick.due /\ tick.asked = {}
    /\ tick' = [tick EXCEPT !.asked = {v}, !.seen = held \cap On(v)]
    /\ UNCHANGED <<venue, books, lasting, order>>

\* A failed venue is asked again at the next tick; a failed balance of Gemini's is
\* swallowed, and counts as a hydration.
HydrationFails(v) ==
    /\ tick.pc = "hydrate" /\ v \in tick.due /\ tick.asked = {}
    /\ tick' = [tick EXCEPT !.due = @ \ {v}]
    /\ fresh' = IF kind[v] = "gemini" THEN fresh \cup {v} ELSE fresh
    /\ UNCHANGED <<venue, books, saves, restored, order>>

\* restoreOrMarkUntrackedHolding skips a tracked position; hydrateGeminiPositions
\* replaces it when it finds the purchase.
Untracked(m, known) == open[m] = "none" \/ (kind[m[1]] = "gemini" /\ m \in known)

\* The holdings hydration makes positions of: those with a purchase among the fills
\* (known), or with a bid to take as the entry (priced).  Others are queued for
\* liquidation, except a DEX holding, which is left out.
TrackHoldings(v, known, priced) ==
    /\ tick.asked = {v}
    /\ tick' = [tick EXCEPT !.due = @ \ {v}, !.asked = {}, !.seen = {}]
    /\ LET new == {m \in tick.seen : Untracked(m, known)}
           found == new \cap (known \cup priced)
       IN /\ open' = [m \in Markets |-> IF m \in found THEN "restored" ELSE open[m]]
          /\ queued' = (queued \ found) \cup (IF kind[v] = "dex" THEN {} ELSE new \ found)
          /\ own' = own \ found
    /\ fresh' = fresh \cup {v}
    /\ UNCHANGED <<venue, saves, restored, order>>

\* attemptedExchangeActions starts empty.  (A market without a snapshot gets no signal.)
Scan ==
    /\ tick.pc = "hydrate" /\ tick.due = {}
    /\ tick' = [tick EXCEPT !.pc = "evaluate", !.todo = Markets]
    /\ UNCHANGED <<venue, books, lasting, order>>

-----------------------------------------------------------------------------
(* evaluate(), one market at a time.                                        *)

Evaluating(m) == tick.pc = "evaluate" /\ order = NoOrder /\ m \in tick.todo

\* No signal for m: no snapshot, the trading switch is off, or nothing in the data asks.
NoSignal(m) ==
    /\ Evaluating(m)
    /\ tick' = [tick EXCEPT !.todo = @ \ {m}]
    /\ UNCHANGED <<venue, books, lasting, order>>

Signal(m, what, target, step) ==
    /\ tick' = [tick EXCEPT !.todo = @ \ {m}, !.tried = @ \cup {m[1]}]
    /\ order' = [NoOrder EXCEPT !.do = what, !.market = target, !.step = step]
    /\ UNCHANGED <<venue, books, lasting>>

\* A position is forgotten: too small to sell, nothing left of it, or sold.
Forget(m) ==
    /\ open' = [open EXCEPT ![m] = "none"]
    /\ own' = own \ {m}
    /\ UNCHANGED queued

Dequeue(m) == queued' = queued \ {m} /\ UNCHANGED <<open, own>>

\* A queued holding is sold only while its venue has no position.
Liquidates(m) == m \in queued /\ Open \cap On(m[1]) = {}

ClearDust(m) ==
    /\ Evaluating(m) /\ TradingOn
    /\ (m \in Open /\ Forget(m)) \/ (Liquidates(m) /\ Dequeue(m))
    /\ tick' = [tick EXCEPT !.todo = @ \ {m}]
    /\ UNCHANGED <<venue, lasting, order>>

SellStep(m) == IF kind[m[1]] = "dex" THEN "send" ELSE "balance"

Exit(m) ==
    /\ Evaluating(m) /\ TradingOn
    /\ m \in Open
    /\ Signal(m, "sell", m, SellStep(m))

Liquidate(m) ==
    /\ Evaluating(m) /\ TradingOn
    /\ Liquidates(m)
    /\ Signal(m, "liquidate", m, "balance")

\* The gates every entry passes, rotations included.
MayEnter(m) ==
    /\ m \notin Open
    /\ m[1] \notin tick.tried
    /\ queued \cap On(m[1]) = {}

\* maybeRotatePosition sells the first position of the venue, whoever opened it.
Rotate(m) ==
    /\ Evaluating(m) /\ TradingOn
    /\ MayEnter(m)
    /\ Managed(m[1]) # {}
    /\ \E current \in Open \cap On(m[1]) : Signal(m, "sell", current, SellStep(m))

Enter(m) ==
    /\ Evaluating(m) /\ TradingOn
    /\ MayEnter(m)
    /\ Managed(m[1]) = {}
    /\ Signal(m, "buy", m, IF kind[m[1]] = "dex" THEN "send" ELSE "funds")

-----------------------------------------------------------------------------
(* act(): what a signal does, from one await to the next.                   *)

\* actualBaseBalanceFor knows no Gemini balance: it answers zero.
Sellable(m) == m \in held /\ kind[m[1]] # "gemini"

\* With nothing to sell, the position or the queued holding is cleared as stale.
ReadBalance ==
    /\ order.step = "balance"
    /\ IF Sellable(order.market)
       THEN order' = [order EXCEPT !.step = "send"] /\ UNCHANGED books
       ELSE order' = NoOrder /\ IF order.do = "sell" THEN Forget(order.market) ELSE Dequeue(order.market)
    /\ UNCHANGED <<venue, lasting, tick>>

Funded == order' = [order EXCEPT !.step = "send"]

FundsReady ==
    /\ order.step = "funds"
    /\ Funded
    /\ UNCHANGED <<venue, books, lasting, tick>>

\* A buy without enough quote first sells an untracked holding of its venue, if the
\* venue has no position at all.
FreeFunds ==
    /\ order.step = "funds"
    /\ Open \cap On(order.market[1]) = {}
    /\ \E other \in (held \cap On(order.market[1])) \ {order.market} :
          /\ Sellable(other)
          /\ held' = held \ {other}
          /\ \/ Dequeue(other) /\ Funded
             \/ UNCHANGED books /\ order' = NoOrder     \* the sale's answer was lost
    /\ UNCHANGED <<world, lasting, tick>>

\* No funds, a spent budget, a position that could not be sold again, a failed call.
GiveUp ==
    /\ order.step \in {"balance", "funds"}
    /\ order' = NoOrder
    /\ UNCHANGED <<venue, books, lasting, tick>>

Buys == order.do \in {"buy", "agent"}

\* The order reaches the venue and fills.
Fill ==
    /\ order.step = "send"
    /\ Buys \/ order.market \in held
    /\ held' = IF Buys THEN held \cup {order.market} ELSE held \ {order.market}
    /\ own' = own \ (IF Buys THEN {} ELSE {order.market})
    /\ order' = [order EXCEPT !.step = "answer", !.filled = TRUE]
    /\ UNCHANGED <<world, open, queued, lasting, tick>>

\* It is refused, or never arrives; an immediate-or-cancel buy may just be cancelled.
NoFill ==
    /\ order.step = "send"
    /\ order' = [order EXCEPT !.step = "answer"]
    /\ UNCHANGED <<venue, books, lasting, tick>>

Held(filled) == IF filled THEN {order.market} \cap held ELSE {}

\* The venue answers without an error.  A buy is tracked whether or not it filled.
Booked ==
    /\ order.step = "answer"
    /\ \/ /\ Buys
          /\ open' = [open EXCEPT ![order.market] = "bought"]
          /\ own' = own \cup (IF order.do = "buy" THEN Held(order.filled) ELSE {})
          /\ UNCHANGED queued
       \/ order.do = "sell" /\ order.filled /\ Forget(order.market)
       \/ order.do = "liquidate" /\ order.filled /\ Dequeue(order.market)
    /\ order' = NoOrder
    /\ UNCHANGED <<venue, lasting, tick>>

\* An error, or no answer: nothing is booked, even of an order that was filled.
Unanswered ==
    /\ order.step = "answer"
    /\ order' = NoOrder
    /\ UNCHANGED <<venue, books, lasting, tick>>

\* A sale refused as too small: what could not be sold is forgotten.
TooSmall ==
    /\ order.step = "answer" /\ ~order.filled
    /\ kind[order.market[1]] # "dex"
    /\ (order.do = "sell" /\ Forget(order.market)) \/ (order.do = "liquidate" /\ Dequeue(order.market))
    /\ order' = NoOrder
    /\ UNCHANGED <<venue, lasting, tick>>

\* savePayload(tradeState), at the end of the tick.
EndTick ==
    /\ tick.pc = "evaluate" /\ tick.todo = {} /\ order = NoOrder
    /\ Save(open)
    /\ tick' = NoTick
    /\ UNCHANGED <<venue, books, restored, fresh, order>>

-----------------------------------------------------------------------------
(* The world outside: time, restarts, and the user at the venue.            *)

HydrationLapses(v) ==
    /\ v \in fresh
    /\ fresh' = fresh \ {v}
    /\ UNCHANGED <<venue, books, saves, restored, tick, order>>

\* What the process knew and had not flushed is gone; so is the cache, if the daemon
\* stays down longer than SOURCE_STATE_TTL_MS.
Crash ==
    /\ crashes < MaxCrashes
    /\ crashes' = crashes + 1
    /\ open' = NoPositions /\ queued' = {} /\ restored' = FALSE /\ fresh' = {}
    /\ cached' \in {cached, NoPositions}
    /\ tick' = NoTick /\ order' = NoOrder
    /\ own' = {m \in own : saved[m] = "bought"}
    /\ UNCHANGED <<kind, moves, held, saved>>

UserTrades(m) ==
    /\ moves < MaxUserMoves
    /\ moves' = moves + 1
    /\ held' = IF m \in held THEN held \ {m} ELSE held \cup {m}
    /\ own' = own \ {m}
    /\ UNCHANGED <<kind, crashes, open, queued, lasting, tick, order>>

-----------------------------------------------------------------------------
Evaluate(m) == NoSignal(m) \/ ClearDust(m) \/ Exit(m) \/ Liquidate(m) \/ Rotate(m) \/ Enter(m)
Act == ReadBalance \/ FundsReady \/ FreeFunds \/ GiveUp \/ Fill \/ NoFill \/ Booked \/ Unanswered \/ TooSmall
Track(v) == \E known \in SUBSET tick.seen : \E priced \in SUBSET tick.seen : TrackHoldings(v, known, priced)
Hydrate(v) == ReadHoldings(v) \/ HydrationFails(v) \/ Track(v)

TickStep == \/ StartTick \/ BeginPoll \/ Scan \/ EndTick \/ Act
            \/ \E v \in Venues : Hydrate(v)
            \/ \E m \in Markets : AgentBuy(m) \/ Evaluate(m)

TradeNext == \/ TickStep \/ LockedTick
             \/ \E v \in Venues : HydrationLapses(v)
             \/ Crash
             \/ \E m \in Markets : UserTrades(m)

TradeSpec == TradeInit /\ [][TradeNext]_tradeVars

-----------------------------------------------------------------------------
(* Properties.                                                              *)

TradeTypeOK ==
    /\ kind \in [Venues -> Kinds]
    /\ held \subseteq Markets /\ queued \subseteq Markets /\ own \subseteq Markets
    /\ open \in [Markets -> Marks]
    /\ saved \in [Markets -> Marks]
    /\ cached \in [Markets -> Marks]
    /\ restored \in BOOLEAN
    /\ fresh \subseteq Venues
    /\ tick \in [pc : {"idle", "agents", "hydrate", "evaluate"}, halted : BOOLEAN,
                  payload : [Markets -> Marks], due : SUBSET Venues, asked : SUBSET Venues, seen : SUBSET Markets,
                  todo : SUBSET Markets, tried : SUBSET Venues]
    /\ order \in [do : {"none", "buy", "agent", "sell", "liquidate"}, market : Markets,
                   step : {"none", "balance", "funds", "send", "answer"}, filled : BOOLEAN]
    /\ crashes \in 0..MaxCrashes /\ moves \in 0..MaxUserMoves

\* The strategy never builds a second position on a venue ("don't pyramid into the same
\* venue", index.ts:305): of what it bought and never stopped tracking, a venue holds
\* at most one market, whatever restarts, agents, hydrations and the user do in
\* between.  (Gemini's hydration takes the mark off the strategy's own positions.)
OneHoldingPerVenue ==
    \A m, n \in own : (m[1] = n[1] /\ kind[m[1]] # "gemini") => m = n

\* No holding stays unmanaged: hydration tracks it or queues it for liquidation, as
\* long as venues answer now and then.  (A DEX holding without a price is left out.)
HoldingsManaged ==
    \A m \in Markets :
        m \in held ~> (m \in Open \cup queued \/ m \notin held \/ kind[m[1]] = "dex")

\* Ticks go on, their agents' queues end, time passes, and a venue that is asked again
\* and again answers.
TradeFairness ==
    /\ WF_tradeVars(TickStep)
    /\ SF_tradeVars(BeginPoll)
    /\ \A v \in Venues : SF_tradeVars(ReadHoldings(v)) /\ WF_tradeVars(HydrationLapses(v))

TradeFairSpec == TradeSpec /\ TradeFairness
====
