---- MODULE WorkerProofs ----
(***************************************************************************)
(* Safety of the workers of the daemon, each for any values of its         *)
(* constants: the crypto-trade source, pump.fun, dollar-cost averaging,    *)
(* cross-exchange arbitrage, and the backtests beside them; and last the   *)
(* types of their variables.                                               *)
(***************************************************************************)
EXTENDS MCPositions, Induction, FiniteSetTheorems, TLAPS

-----------------------------------------------------------------------------
(* The crypto-trade source: what the strategy bought is marked as its own  *)
(* (Marked), in memory or, before the first poll of a process, in the      *)
(* saved state; a buy is under way only on a venue without such a mark     *)
(* (BuyAlone), for nothing else runs between the signal and its booking    *)
(* (Phases).                                                               *)

\* While the account is asked, no order is out; no order goes out before the restore,
\* or with trading switched off.
Phases ==
    /\ tick.asked # {} => tick.pc = "hydrate"
    /\ tick.asked \subseteq tick.due
    /\ tick.pc \in {"idle", "hydrate"} => order = NoOrder
    /\ order # NoOrder => ~tick.halted
    /\ ~restored => tick.pc \in {"idle", "agents"} /\ order = NoOrder

\* The strategy's own holdings are marked as bought, or will be restored so: from the
\* row, or from what the tick has read of it.
Marked ==
    \A m \in own : kind[m[1]] # "gemini" =>
        IF restored THEN open[m] = "bought"
        ELSE IF tick.pc = "idle" THEN saved[m] = "bought"
        ELSE tick.payload[m] = "bought"

\* A buy of the strategy is under way only on a venue without managed positions.
BuyAlone ==
    order.do = "buy" => tick.pc = "evaluate" /\ Managed(order.market[1]) = {}

TradeIInv == TradeTypeOK /\ Phases /\ Marked /\ BuyAlone /\ OneHoldingPerVenue

-----------------------------------------------------------------------------

\* Having no order under way is a value of the type of orders.
LEMMA NoOrderType ==
    /\ NoOrder \in [do : {"none", "buy", "agent", "sell", "liquidate"}, market : Markets,
                    step : {"none", "balance", "funds", "send", "answer"}, filled : BOOLEAN]
    /\ NoOrder.do = "none" /\ NoOrder.step = "none"
  <1>1. PICK v \in Venues, p \in Pairs : TRUE
    BY TradeConstants
  <1>2. <<v, p>> \in Markets
    BY DEF Markets
  <1>3. (CHOOSE m \in Markets : TRUE) \in Markets
    BY <1>2
  <1> QED BY <1>3 DEF NoOrder

\* The empty payload is a payload.
LEMMA NoPositionsType == NoPositions \in [Markets -> Marks]
  BY DEF NoPositions, Marks

\* A tick at rest has the type of one.
LEMMA NoTickType ==
    /\ NoTick \in [pc : {"idle", "agents", "hydrate", "evaluate"}, halted : BOOLEAN,
                   payload : [Markets -> Marks], due : SUBSET Venues, asked : SUBSET Venues, seen : SUBSET Markets,
                   todo : SUBSET Markets, tried : SUBSET Venues]
    /\ NoTick.pc = "idle" /\ NoTick.asked = {} /\ NoTick.due = {} /\ NoTick.halted = FALSE
  BY NoPositionsType DEF NoTick

\* A market names its venue.
LEMMA MarketParts == \A m \in Markets : m[1] \in Venues
  BY DEF Markets

\* Initially nothing is tracked, and nothing is the strategy's.
LEMMA InitIInv == TradeInit => TradeIInv
  <1> SUFFICES ASSUME TradeInit PROVE TradeIInv
    OBVIOUS
  <1>1. TradeTypeOK
    BY NoPositionsType, NoOrderType, NoTickType DEF TradeInit, TradeTypeOK
  <1>2. Phases
    BY NoTickType DEF TradeInit, Phases
  <1>3. Marked /\ OneHoldingPerVenue
    BY DEF TradeInit, Marked, OneHoldingPerVenue
  <1>4. BuyAlone
    BY NoOrderType DEF TradeInit, BuyAlone
  <1> QED BY <1>1, <1>2, <1>3, <1>4 DEF TradeIInv

-----------------------------------------------------------------------------
(* Type correctness, one action at a time.                                  *)

\* Every step preserves the types.
LEMMA TypeStep == TradeTypeOK /\ [TradeNext]_tradeVars => TradeTypeOK'
  <1> SUFFICES ASSUME TradeTypeOK, [TradeNext]_tradeVars PROVE TradeTypeOK'
    OBVIOUS
  <1> USE DEF TradeTypeOK, world, venue, books, lasting, saves
  <1>1. CASE StartTick
    <2>1. PICK h \in BOOLEAN : tick' = [NoTick EXCEPT !.pc = "agents", !.halted = h,
                                         !.payload = IF restored THEN NoPositions ELSE saved]
      BY <1>1 DEF StartTick
    <2>2. saved' \in [Markets -> Marks] /\ cached' \in [Markets -> Marks]
      BY <1>1 DEF StartTick, Save, saves
    <2> QED BY <1>1, <2>1, <2>2, NoTickType, NoPositionsType DEF StartTick
  <1>2. ASSUME NEW m \in Markets, AgentBuy(m) PROVE TradeTypeOK'
    BY <1>2, NoOrderType DEF AgentBuy
  <1>3. CASE BeginPoll
    BY <1>3, NoPositionsType DEF BeginPoll, RestorePersisted, Due, Dropped
  <1>4. ASSUME NEW v \in Venues, ReadHoldings(v) PROVE TradeTypeOK'
    BY <1>4 DEF ReadHoldings
  <1>5. ASSUME NEW v \in Venues, HydrationFails(v) PROVE TradeTypeOK'
    BY <1>5 DEF HydrationFails
  <1>6. ASSUME NEW v \in Venues, Track(v) PROVE TradeTypeOK'
    <2> DEFINE Found(known, priced) == {m \in tick.seen : Untracked(m, known)} \cap (known \cup priced)
    <2>1. PICK known \in SUBSET tick.seen, priced \in SUBSET tick.seen : TrackHoldings(v, known, priced)
      BY <1>6 DEF Track
    <2>2. open' = [m \in Markets |-> IF m \in Found(known, priced) THEN "restored" ELSE open[m]]
      BY <2>1 DEF TrackHoldings
    <2>3. queued' \subseteq Markets /\ own' \subseteq Markets /\ fresh' \subseteq Venues
      BY <2>1 DEF TrackHoldings
    <2>4. tick' = [tick EXCEPT !.due = @ \ {v}, !.asked = {}, !.seen = {}]
      BY <2>1 DEF TrackHoldings
    <2>5. UNCHANGED <<kind, held, saved, cached, restored, order, crashes, moves>>
      BY <2>1 DEF TrackHoldings
    <2> HIDE DEF Found
    <2> QED BY <2>2, <2>3, <2>4, <2>5 DEF Marks
  <1>7. CASE Scan
    BY <1>7 DEF Scan
  <1>8. CASE EndTick
    BY <1>8, NoTickType DEF EndTick, Save
  <1>9. ASSUME NEW m \in Markets, Evaluate(m) PROVE TradeTypeOK'
    <2>1. CASE NoSignal(m)
      BY <2>1 DEF NoSignal
    <2>2. CASE ClearDust(m)
      BY <2>2 DEF ClearDust, Forget, Dequeue, Marks
    <2>3. ASSUME NEW what \in {"buy", "sell", "liquidate"}, NEW target \in Markets,
                 NEW step \in {"balance", "funds", "send"}, Signal(m, what, target, step)
          PROVE  TradeTypeOK'
      BY <2>3, NoOrderType, MarketParts DEF Signal
    <2>4. CASE Exit(m)
      BY <2>3, <2>4 DEF Exit, SellStep
    <2>5. CASE Liquidate(m)
      BY <2>3, <2>5 DEF Liquidate
    <2>6. CASE Rotate(m)
      BY <2>3, <2>6 DEF Rotate, SellStep, On
    <2>7. CASE Enter(m)
      BY <2>3, <2>7 DEF Enter
    <2> QED BY <1>9, <2>1, <2>2, <2>4, <2>5, <2>6, <2>7 DEF Evaluate
  <1>10. CASE Act
    <2>1. CASE ReadBalance
      BY <2>1, NoOrderType DEF ReadBalance, Forget, Dequeue, Marks
    <2>2. CASE FundsReady
      BY <2>2 DEF FundsReady, Funded
    <2>3. CASE FreeFunds
      BY <2>3, NoOrderType DEF FreeFunds, Funded, Dequeue, On
    <2>4. CASE GiveUp
      BY <2>4, NoOrderType DEF GiveUp
    <2>5. CASE Fill
      BY <2>5 DEF Fill
    <2>6. CASE NoFill
      BY <2>6 DEF NoFill
    <2>7. CASE Booked
      BY <2>7, NoOrderType DEF Booked, Forget, Dequeue, Held, Marks
    <2>8. CASE Unanswered
      BY <2>8, NoOrderType DEF Unanswered
    <2>9. CASE TooSmall
      BY <2>9, NoOrderType DEF TooSmall, Forget, Dequeue, Marks
    <2> QED BY <1>10, <2>1, <2>2, <2>3, <2>4, <2>5, <2>6, <2>7, <2>8, <2>9 DEF Act
  <1>11. ASSUME NEW v \in Venues, HydrationLapses(v) PROVE TradeTypeOK'
    BY <1>11 DEF HydrationLapses
  <1>12. CASE Crash
    <2>1. crashes' \in 0..MaxCrashes
      BY <1>12, TradeConstants DEF Crash
    <2>2. open' \in [Markets -> Marks] /\ cached' \in [Markets -> Marks]
      BY <1>12, NoPositionsType DEF Crash
    <2>3. tick' = NoTick /\ order' = NoOrder
      BY <1>12 DEF Crash
    <2>4. own' \subseteq Markets /\ queued' = {} /\ fresh' = {} /\ restored' = FALSE
      BY <1>12 DEF Crash
    <2>5. UNCHANGED <<kind, moves, held, saved>>
      BY <1>12 DEF Crash
    <2> QED BY <2>1, <2>2, <2>3, <2>4, <2>5, NoOrderType, NoTickType
  <1>13. ASSUME NEW m \in Markets, UserTrades(m) PROVE TradeTypeOK'
    BY <1>13, TradeConstants DEF UserTrades
  <1>14. CASE UNCHANGED tradeVars
    BY <1>14 DEF tradeVars
  <1>15. CASE LockedTick
    BY <1>15 DEF LockedTick, Save
  <1> QED BY <1>1, <1>2, <1>3, <1>4, <1>5, <1>6, <1>7, <1>8, <1>9, <1>10, <1>11, <1>12,
             <1>13, <1>14, <1>15 DEF TradeNext, TickStep, Hydrate

-----------------------------------------------------------------------------
(* The phases of a tick.                                                    *)

\* Every step keeps the phases of a tick, its order and its lists in accord.
LEMMA PhasesStep == TradeTypeOK /\ Phases /\ [TradeNext]_tradeVars => Phases'
  <1> SUFFICES ASSUME TradeTypeOK, Phases, [TradeNext]_tradeVars PROVE Phases'
    OBVIOUS
  <1> USE DEF Phases, world, venue, books, lasting, saves
  <1>1. CASE StartTick
    BY <1>1, NoTickType DEF StartTick, NoTick
  <1>2. ASSUME NEW m \in Markets, AgentBuy(m) PROVE Phases'
    BY <1>2 DEF AgentBuy, TradingOn, TradeTypeOK
  <1>3. CASE BeginPoll
    BY <1>3 DEF BeginPoll, TradeTypeOK
  <1>4. ASSUME NEW v \in Venues, ReadHoldings(v) PROVE Phases'
    BY <1>4 DEF ReadHoldings, TradeTypeOK
  <1>5. ASSUME NEW v \in Venues, HydrationFails(v) PROVE Phases'
    BY <1>5 DEF HydrationFails, TradeTypeOK
  <1>6. ASSUME NEW v \in Venues, Track(v) PROVE Phases'
    BY <1>6 DEF Track, TrackHoldings, TradeTypeOK
  <1>7. CASE Scan
    <2>1. restored /\ order = NoOrder /\ tick.asked = {}
      BY <1>7 DEF Scan
    <2>2. UNCHANGED <<restored, order>> /\ tick'.asked = tick.asked /\ tick'.due = tick.due
      BY <1>7 DEF Scan, TradeTypeOK
    <2>3. tick'.pc = "evaluate" /\ restored'
      BY <1>7, <2>1 DEF Scan, TradeTypeOK
    <2> QED BY <2>1, <2>2, <2>3
  <1>8. CASE EndTick
    BY <1>8, NoTickType DEF EndTick
  <1>9. ASSUME NEW m \in Markets, Evaluate(m) PROVE Phases'
    <2>1. tick.pc = "evaluate"
      BY <1>9 DEF Evaluate, NoSignal, ClearDust, Exit, Liquidate, Rotate, Enter, Evaluating
    <2>2. /\ tick'.pc = tick.pc /\ tick'.asked = tick.asked /\ tick'.halted = tick.halted
          /\ tick'.due = tick.due
          /\ UNCHANGED restored
      BY <1>9 DEF Evaluate, NoSignal, ClearDust, Exit, Liquidate, Rotate, Enter, Signal, TradeTypeOK
    <2>3. order' # NoOrder => ~tick.halted
      BY <1>9 DEF Evaluate, NoSignal, ClearDust, Exit, Liquidate, Rotate, Enter, TradingOn
    <2> QED BY <2>1, <2>2, <2>3
  <1>10. CASE Act
    <2>1. order # NoOrder
      BY <1>10, NoOrderType DEF Act, ReadBalance, FundsReady, FreeFunds, GiveUp, Fill, NoFill, Booked,
                   Unanswered, TooSmall
    <2>2. UNCHANGED <<tick, restored>>
      BY <1>10 DEF Act, ReadBalance, FundsReady, FreeFunds, GiveUp, Fill, NoFill, Booked,
                   Unanswered, TooSmall
    <2> QED BY <2>1, <2>2
  <1>11. ASSUME NEW v \in Venues, HydrationLapses(v) PROVE Phases'
    BY <1>11 DEF HydrationLapses
  <1>12. CASE Crash
    BY <1>12, NoTickType DEF Crash
  <1>13. ASSUME NEW m \in Markets, UserTrades(m) PROVE Phases'
    BY <1>13 DEF UserTrades
  <1>14. CASE UNCHANGED tradeVars
    BY <1>14 DEF tradeVars
  <1>15. CASE LockedTick
    BY <1>15 DEF LockedTick, Save
  <1> QED BY <1>1, <1>2, <1>3, <1>4, <1>5, <1>6, <1>7, <1>8, <1>9, <1>10, <1>11, <1>12,
             <1>13, <1>14, <1>15 DEF TradeNext, TickStep, Hydrate

-----------------------------------------------------------------------------
(* The marks, and the buys under way.                                       *)

\* Steps that leave the marks, the orders and the phase alone keep the invariant.
LEMMA MarksKept ==
    ASSUME Marked, BuyAlone, OneHoldingPerVenue,
           UNCHANGED <<kind, open, saved, restored>>, own' \subseteq own,
           ~restored => UNCHANGED tick,
           order'.do = "buy" => /\ order.do = "buy" /\ order'.market = order.market
                                /\ tick'.pc = tick.pc
    PROVE  (Marked /\ BuyAlone /\ OneHoldingPerVenue)'
  BY DEF Marked, BuyAlone, OneHoldingPerVenue, Managed, On

\* Forgetting a position takes its mark and its holding together.
LEMMA ForgetKeeps ==
    ASSUME TradeTypeOK, Marked, OneHoldingPerVenue, NEW m \in Markets, Forget(m),
           UNCHANGED <<kind, saved, restored>>, restored, order'.do # "buy"
    PROVE  (Marked /\ BuyAlone /\ OneHoldingPerVenue)'
  BY DEF Marked, BuyAlone, OneHoldingPerVenue, Forget, TradeTypeOK

\* While a managed-free venue is bought on, the strategy owns nothing there.
LEMMA NothingOwned ==
    ASSUME TradeTypeOK, Marked, restored, NEW v \in Venues, Managed(v) = {}, NEW n \in own, n[1] = v,
           kind[v] # "gemini"
    PROVE  FALSE
  <1>1. open[n] = "bought"
    BY DEF Marked
  <1>2. n \in Managed(v)
    BY <1>1 DEF Managed, On, TradeTypeOK
  <1> QED BY <1>2

\* Every step keeps a venue at one holding, and a buy alone on it.
LEMMA SafetyStep ==
    ASSUME TradeIInv, [TradeNext]_tradeVars
    PROVE  (Marked /\ BuyAlone /\ OneHoldingPerVenue)'
  <1> DEFINE Goal == (Marked /\ BuyAlone /\ OneHoldingPerVenue)'
  <1> USE DEF TradeIInv, world, venue, books, lasting, saves
  <1>1. CASE StartTick
    <2>1. tick.pc = "idle" /\ UNCHANGED <<kind, open, own, restored, order>> /\ order = NoOrder
      BY <1>1 DEF StartTick, Phases
    <2>2. ~restored => tick'.payload = saved /\ tick'.pc = "agents"
      BY <1>1, NoTickType DEF StartTick
    <2> QED BY <2>1, <2>2, NoOrderType DEF Marked, BuyAlone, OneHoldingPerVenue
  <1>2. ASSUME NEW m \in Markets, AgentBuy(m) PROVE Goal
    BY <1>2, MarksKept, NoOrderType DEF AgentBuy
  <1>3. CASE BeginPoll
    <2>1. open' = (IF restored THEN open ELSE tick.payload) /\ restored' = TRUE
      BY <1>3 DEF BeginPoll, RestorePersisted
    <2>2. UNCHANGED <<kind, own, order>> /\ order = NoOrder /\ tick.pc # "idle"
      BY <1>3 DEF BeginPoll
    <2> QED BY <2>1, <2>2, NoOrderType DEF Marked, BuyAlone, OneHoldingPerVenue
  <1>4. ASSUME NEW v \in Venues, ReadHoldings(v) PROVE Goal
    BY <1>4, MarksKept, NoOrderType DEF ReadHoldings, Phases
  <1>5. ASSUME NEW v \in Venues, HydrationFails(v) PROVE Goal
    BY <1>5, MarksKept, NoOrderType DEF HydrationFails, Phases
  <1>6. ASSUME NEW v \in Venues, Track(v) PROVE Goal
    <2>1. PICK known \in SUBSET tick.seen, priced \in SUBSET tick.seen : TrackHoldings(v, known, priced)
      BY <1>6 DEF Track
    <2>2. restored /\ order = NoOrder
      BY <2>1 DEF TrackHoldings, Phases
    <2>3. UNCHANGED <<kind, saved, restored, order>> /\ own' \subseteq own
      BY <2>1 DEF TrackHoldings
    <2>4. ASSUME NEW m \in own', kind[m[1]] # "gemini" PROVE open'[m] = open[m]
      <3>1. m \in Markets /\ open[m] = "bought"
        BY <2>2, <2>3, <2>4 DEF Marked, TradeTypeOK
      <3>2. ~Untracked(m, known)
        BY <2>4, <3>1, <2>3 DEF Untracked
      <3> QED BY <2>1, <3>1, <3>2 DEF TrackHoldings
    <2>5. Marked'
      BY <2>2, <2>3, <2>4 DEF Marked
    <2>6. OneHoldingPerVenue' /\ BuyAlone'
      BY <2>2, <2>3, NoOrderType DEF OneHoldingPerVenue, BuyAlone
    <2> QED BY <2>5, <2>6
  <1>7. CASE Scan
    BY <1>7, MarksKept, NoOrderType DEF Scan, Phases
  <1>8. CASE EndTick
    <2>1. restored
      BY <1>8 DEF EndTick, Phases
    <2> QED BY <1>8, <2>1, NoOrderType DEF EndTick, Marked, BuyAlone, OneHoldingPerVenue
  <1>9. ASSUME NEW m \in Markets, Evaluate(m) PROVE Goal
    <2>1. restored /\ order = NoOrder /\ tick.pc = "evaluate"
      BY <1>9 DEF Phases, Evaluate, NoSignal, ClearDust, Exit, Liquidate, Rotate, Enter, Evaluating
    <2>2. CASE NoSignal(m)
      BY <2>1, <2>2, MarksKept, NoOrderType DEF NoSignal
    <2>3. CASE ClearDust(m)
      <3>1. CASE Forget(m)
        BY <2>1, <2>3, <3>1, ForgetKeeps, NoOrderType DEF ClearDust
      <3>2. CASE Dequeue(m)
        BY <2>1, <2>3, <3>2, MarksKept, NoOrderType DEF ClearDust, Dequeue
      <3> QED BY <2>3, <3>1, <3>2 DEF ClearDust
    <2>4. ASSUME NEW what \in {"sell", "liquidate"}, NEW target \in Markets,
                 NEW step \in {"balance", "funds", "send"}, Signal(m, what, target, step)
          PROVE  Goal
      <3>1. order'.do = what
        BY <2>4, NoOrderType DEF Signal
      <3> QED BY <2>1, <2>4, <3>1, MarksKept DEF Signal
    <2>5. CASE Exit(m)
      BY <2>4, <2>5 DEF Exit, SellStep
    <2>6. CASE Liquidate(m)
      BY <2>4, <2>6 DEF Liquidate
    <2>7. CASE Rotate(m)
      BY <2>4, <2>7 DEF Rotate, SellStep, On
    <2>8. CASE Enter(m)
      <3>1. Managed(m[1]) = {} /\ UNCHANGED <<kind, open, saved, restored, own>>
        BY <2>8 DEF Enter, Signal
      <3>2. order'.do = "buy" /\ order'.market = m /\ tick'.pc = "evaluate"
        BY <2>1, <2>8, NoOrderType DEF Enter, Signal, TradeTypeOK
      <3> QED BY <2>1, <3>1, <3>2 DEF Marked, BuyAlone, OneHoldingPerVenue, Managed, On
    <2> QED BY <1>9, <2>2, <2>3, <2>5, <2>6, <2>7, <2>8 DEF Evaluate
  <1>10. CASE Act
    <2>1. restored
      BY <1>10, NoOrderType DEF Phases, Act, ReadBalance, FundsReady, FreeFunds, GiveUp, Fill, NoFill,
         Booked, Unanswered, TooSmall
    <2>2. UNCHANGED <<kind, saved, restored, tick>> /\ order.market \in Markets
      BY <1>10 DEF Act, ReadBalance, FundsReady, FreeFunds, GiveUp, Fill, NoFill,
         Booked, Unanswered, TooSmall, TradeTypeOK
    <2>3. CASE ReadBalance
      <3>1. CASE Forget(order.market) /\ order' = NoOrder
        BY <2>1, <2>2, <3>1, ForgetKeeps, NoOrderType
      <3>2. CASE UNCHANGED <<open, own>> /\ (order' = NoOrder \/ order' = [order EXCEPT !.step = "send"])
        BY <2>2, <3>2, MarksKept, NoOrderType DEF TradeTypeOK
      <3> QED BY <2>3, <3>1, <3>2 DEF ReadBalance, Dequeue
    <2>4. CASE FundsReady \/ GiveUp \/ NoFill \/ Unanswered \/ Fill
      BY <2>2, <2>4, MarksKept, NoOrderType DEF FundsReady, GiveUp, NoFill, Unanswered, Funded, Fill, TradeTypeOK
    <2>5. CASE FreeFunds
      BY <2>2, <2>5, MarksKept, NoOrderType DEF FreeFunds, Funded, Dequeue, TradeTypeOK
    <2>6. CASE Booked
      <3>1. order' = NoOrder
        BY <2>6 DEF Booked
      <3>2. CASE Forget(order.market)
        BY <2>1, <2>2, <3>1, <3>2, ForgetKeeps, NoOrderType
      <3>3. CASE Dequeue(order.market)
        BY <2>2, <3>1, <3>3, MarksKept, NoOrderType DEF Dequeue
      <3>4. CASE order.do = "agent" /\ open' = [open EXCEPT ![order.market] = "bought"] /\ own' = own
        BY <2>1, <2>2, <3>1, <3>4, NoOrderType
        DEF Marked, BuyAlone, OneHoldingPerVenue, TradeTypeOK
      <3>5. CASE /\ order.do = "buy" /\ open' = [open EXCEPT ![order.market] = "bought"]
                 /\ own' \subseteq own \cup {order.market}
        <4>1. order.market[1] \in Venues /\ Managed(order.market[1]) = {}
          BY <2>2, <3>5, MarketParts DEF BuyAlone
        <4>2. \A n \in own : kind[n[1]] # "gemini" => n[1] # order.market[1]
          BY <2>1, <4>1, NothingOwned
        <4>3. OneHoldingPerVenue'
          BY <2>2, <3>5, <4>2 DEF OneHoldingPerVenue
        <4>4. Marked'
          BY <2>1, <2>2, <3>5, <4>2 DEF Marked, TradeTypeOK
        <4> QED BY <3>1, <4>3, <4>4, NoOrderType DEF BuyAlone
      <3> QED BY <2>6, <3>2, <3>3, <3>4, <3>5 DEF Booked, Buys, Held
    <2>7. CASE TooSmall
      <3>1. order' = NoOrder
        BY <2>7 DEF TooSmall
      <3>2. CASE Forget(order.market)
        BY <2>1, <2>2, <3>1, <3>2, ForgetKeeps, NoOrderType
      <3>3. CASE Dequeue(order.market)
        BY <2>2, <3>1, <3>3, MarksKept, NoOrderType DEF Dequeue
      <3> QED BY <2>7, <3>2, <3>3 DEF TooSmall
    <2> QED BY <1>10, <2>3, <2>4, <2>5, <2>6, <2>7 DEF Act
  <1>11. ASSUME NEW v \in Venues, HydrationLapses(v) PROVE Goal
    BY <1>11, MarksKept DEF HydrationLapses
  <1>12. CASE Crash
    <2>1. order'.do = "none" /\ UNCHANGED <<kind, saved>> /\ restored' = FALSE
      BY <1>12, NoOrderType DEF Crash
    <2>2. own' = {m \in own : saved[m] = "bought"} /\ tick'.pc = "idle"
      BY <1>12, NoTickType DEF Crash
    <2> QED BY <2>1, <2>2 DEF Marked, BuyAlone, OneHoldingPerVenue
  <1>13. ASSUME NEW m \in Markets, UserTrades(m) PROVE Goal
    BY <1>13, MarksKept DEF UserTrades
  <1>14. CASE UNCHANGED tradeVars
    BY <1>14, MarksKept DEF tradeVars
  <1>15. CASE LockedTick
    <2>1. tick.pc = "idle" /\ UNCHANGED <<kind, open, restored, tick, order>>
      BY <1>15 DEF LockedTick
    <2>2. own' = IF restored THEN own ELSE {m \in own : saved'[m] = "bought"}
      BY <1>15 DEF LockedTick
    <2> QED BY <2>1, <2>2 DEF Marked, BuyAlone, OneHoldingPerVenue, Managed, On
  <1> QED BY <1>1, <1>2, <1>3, <1>4, <1>5, <1>6, <1>7, <1>8, <1>9, <1>10, <1>11, <1>12,
             <1>13, <1>14, <1>15 DEF TradeNext, TickStep, Hydrate

-----------------------------------------------------------------------------

\* The inductive invariant holds throughout.
LEMMA InductiveTrade == TradeSpec => []TradeIInv
  <1>1. TradeIInv /\ [TradeNext]_tradeVars => TradeIInv'
    BY TypeStep, PhasesStep, SafetyStep DEF TradeIInv
  <1> QED BY InitIInv, <1>1, PTL DEF TradeSpec

\* Every variable of the source keeps its type, for any venues, pairs, restarts and moves.
THEOREM TradeTypeCorrect == TradeSpec => []TradeTypeOK
  <1>1. TradeIInv => TradeTypeOK
    BY DEF TradeIInv
  <1> QED BY InductiveTrade, <1>1, PTL

\* The strategy never holds two markets of one venue at once (index.ts:305).
THEOREM OneHolding == TradeSpec => []OneHoldingPerVenue
  <1>1. TradeIInv => OneHoldingPerVenue
    BY DEF TradeIInv
  <1> QED BY InductiveTrade, <1>1, PTL

-----------------------------------------------------------------------------
(* Pump.fun: every bag is a position of the row, or of the tick under way  *)
(* (BagsKept); every request to sell is in the queue, or drained by that   *)
(* tick (QueueKept).                                                       *)

\* What a merge says of a field: the patch's value, or what was there.
LEMMA MergedField ==
    ASSUME NEW patch, NEW onto, NEW name, NEW default
    PROVE  Worker!Field(Worker!Merge(patch, onto), name, default)
             = IF name \in DOMAIN patch THEN patch[name] ELSE Worker!Field(onto, name, default)
  BY DEF Worker!Field, Worker!Merge

\* What the worker's saves, and the web's, make of positions and requests.
LEMMA SavedFields ==
    ASSUME NEW onto, NEW x
    PROVE  /\ Positions(Worker!Merge(Worker!Nothing, onto)) = Positions(onto)
           /\ ManualSells(Worker!Merge(Worker!Nothing, onto)) = ManualSells(onto)
           /\ Positions(Worker!Merge([positions |-> x], onto)) = x
           /\ ManualSells(Worker!Merge([positions |-> x], onto)) = ManualSells(onto)
           /\ Positions(Worker!Merge([manualSellRequests |-> x], onto)) = Positions(onto)
           /\ ManualSells(Worker!Merge([manualSellRequests |-> x], onto)) = x
  <1>1. /\ Positions(Worker!Merge(Worker!Nothing, onto)) = Positions(onto)
        /\ ManualSells(Worker!Merge(Worker!Nothing, onto)) = ManualSells(onto)
    <2>1. DOMAIN Worker!Nothing = {}
      BY DEF Worker!Nothing
    <2> QED BY <2>1, MergedField DEF Positions, ManualSells
  <1>2. /\ Positions(Worker!Merge([positions |-> x], onto)) = x
        /\ ManualSells(Worker!Merge([positions |-> x], onto)) = ManualSells(onto)
    <2> DEFINE patch == [positions |-> x]
    <2>1. "positions" \in DOMAIN patch /\ "manualSellRequests" \notin DOMAIN patch /\ patch["positions"] = x
      OBVIOUS
    <2> HIDE DEF patch
    <2> QED BY <2>1, MergedField DEF Positions, ManualSells
  <1>3. /\ Positions(Worker!Merge([manualSellRequests |-> x], onto)) = Positions(onto)
        /\ ManualSells(Worker!Merge([manualSellRequests |-> x], onto)) = x
    <2> DEFINE patch == [manualSellRequests |-> x]
    <2>1. /\ "manualSellRequests" \in DOMAIN patch /\ "positions" \notin DOMAIN patch
          /\ patch["manualSellRequests"] = x
      OBVIOUS
    <2> HIDE DEF patch
    <2> QED BY <2>1, MergedField DEF Positions, ManualSells
  <1> QED BY <1>1, <1>2, <1>3

\* A tick's last save has both.
LEMMA SavedBoth ==
    ASSUME NEW onto, NEW x, NEW y
    PROVE  /\ Positions(Worker!Merge([positions |-> x, manualSellRequests |-> y], onto)) = x
           /\ ManualSells(Worker!Merge([positions |-> x, manualSellRequests |-> y], onto)) = y
  <1> DEFINE patch == [positions |-> x, manualSellRequests |-> y]
  <1>1. /\ "manualSellRequests" \in DOMAIN patch /\ "positions" \in DOMAIN patch
        /\ patch["positions"] = x /\ patch["manualSellRequests"] = y
    OBVIOUS
  <1> HIDE DEF patch
  <1> QED BY <1>1, MergedField DEF Positions, ManualSells

TickRec == [pc : {"idle", "exit", "enter", "save"}, todo : SUBSET Mints, left : SUBSET Mints,
            drained : SUBSET Mints, tried : SUBSET Mints, queue : SUBSET Mints]

\* Two fields of a tick changed at once: by its exits,
LEMMA ExitFields ==
    ASSUME NEW t \in TickRec, NEW x, NEW y
    PROVE  [t EXCEPT !.todo = x, !.left = y]
             = [pc |-> t.pc, todo |-> x, left |-> y, drained |-> t.drained, tried |-> t.tried, queue |-> t.queue]
  <1> DEFINE a == [pc |-> t.pc, todo |-> x, left |-> t.left, drained |-> t.drained, tried |-> t.tried, queue |-> t.queue]
  <1>1. [t EXCEPT !.todo = x] = a
    BY DEF TickRec
  <1>2. [t EXCEPT !.todo = x, !.left = y] = [a EXCEPT !.left = y]
    BY <1>1
  <1> QED BY <1>2

\* ...by its entries,
LEMMA EntryFields ==
    ASSUME NEW t \in TickRec, NEW x, NEW y
    PROVE  [t EXCEPT !.left = x, !.tried = y]
             = [pc |-> t.pc, todo |-> t.todo, left |-> x, drained |-> t.drained, tried |-> y, queue |-> t.queue]
  <1> DEFINE a == [pc |-> t.pc, todo |-> t.todo, left |-> x, drained |-> t.drained, tried |-> t.tried, queue |-> t.queue]
  <1>1. [t EXCEPT !.left = x] = a
    BY DEF TickRec
  <1>2. [t EXCEPT !.left = x, !.tried = y] = [a EXCEPT !.tried = y]
    BY <1>1
  <1> QED BY <1>2

\* ...and as it ends.
LEMMA EndFields ==
    ASSUME NEW t \in TickRec, NEW x, NEW y
    PROVE  [t EXCEPT !.pc = x, !.queue = y]
             = [pc |-> x, todo |-> t.todo, left |-> t.left, drained |-> t.drained, tried |-> t.tried, queue |-> y]
  <1> DEFINE a == [pc |-> x, todo |-> t.todo, left |-> t.left, drained |-> t.drained, tried |-> t.tried, queue |-> t.queue]
  <1>1. [t EXCEPT !.pc = x] = a
    BY DEF TickRec
  <1>2. [t EXCEPT !.pc = x, !.queue = y] = [a EXCEPT !.queue = y]
    BY <1>1
  <1> QED BY <1>2

\* The tick that begins.
LEMMA TickBegun ==
    ASSUME NEW x, NEW y
    PROVE  [NoPumpTick EXCEPT !.pc = "exit", !.todo = x, !.drained = y]
             = [pc |-> "exit", todo |-> x, left |-> {}, drained |-> y, tried |-> {}, queue |-> {}]
  <1> DEFINE a == [pc |-> "exit", todo |-> {}, left |-> {}, drained |-> {}, tried |-> {}, queue |-> {}]
             b == [pc |-> "exit", todo |-> x, left |-> {}, drained |-> {}, tried |-> {}, queue |-> {}]
  <1>1. [NoPumpTick EXCEPT !.pc = "exit"] = a
    BY DEF NoPumpTick
  <1>2. [a EXCEPT !.todo = x] = b
    OBVIOUS
  <1>3. [NoPumpTick EXCEPT !.pc = "exit", !.todo = x, !.drained = y] = [b EXCEPT !.drained = y]
    <2> HIDE DEF a, b
    <2> QED BY <1>1, <1>2
  <1> QED BY <1>3

PumpTypes ==
    /\ pumpTick \in TickRec /\ bag \subseteq Mints /\ wanted \subseteq Mints /\ pumpSlips \in Nat
    /\ \A p \in {pumpRow, pumpLive} : Positions(p) \subseteq Mints /\ ManualSells(p) \subseteq Mints
    /\ pumpWeb # NoClick => /\ pumpWeb.mint \in Mints
                            /\ Positions(pumpWeb.read) \subseteq Mints /\ ManualSells(pumpWeb.read) \subseteq Mints

\* What is asked for is in the queue, or drained by a tick that will see to it; what a tick
\* is about to save of the queue is what it has not drained.
QueueKept ==
    /\ wanted \subseteq ManualSells(pumpLive) \cup pumpTick.drained
    /\ pumpTick.pc = "idle" => pumpTick.drained = {}
    /\ pumpTick.pc = "save" => pumpTick.queue = ManualSells(pumpLive) \ pumpTick.drained

\* Every bag is a position of the row, or of the tick.
BagsKept ==
    /\ pumpRow = pumpLive
    /\ pumpTick.pc = "idle" => bag \subseteq Positions(pumpRow)
    /\ pumpTick.pc = "exit" => bag \subseteq pumpTick.todo \cup pumpTick.left
    /\ pumpTick.pc \in {"enter", "save"} => bag \subseteq pumpTick.left

PumpInv == /\ PumpTypes
           /\ pumpSlips = 0 => QueueKept
           /\ pumpSlips = 0 /\ ~throttled => BagsKept

\* A save whose merge has typed fields leaves typed payloads.
LEMMA SaveTypes ==
    ASSUME PumpInv, NEW patch, NEW flush \in BOOLEAN, Worker!SavePayload(patch, flush),
           Positions(Worker!Merge(patch, pumpLive)) \subseteq Mints,
           ManualSells(Worker!Merge(patch, pumpLive)) \subseteq Mints
    PROVE  \A p \in {pumpRow', pumpLive'} : Positions(p) \subseteq Mints /\ ManualSells(p) \subseteq Mints
  <1>1. pumpLive' = Worker!Merge(patch, pumpLive) /\ pumpRow' \in {pumpLive', pumpRow}
    BY DEF Worker!SavePayload, Worker!Merged
  <1> QED BY <1>1 DEF PumpInv, PumpTypes

\* Every step keeps types and, without a slip, what is asked for and what is held.
LEMMA StepPump == PumpInv /\ [PumpNext]_pumpVars => PumpInv'
  <1> SUFFICES ASSUME PumpInv, [PumpNext]_pumpVars PROVE PumpInv'
    OBVIOUS
  <1>1. NoPumpTick \in TickRec /\ pumpTick \in TickRec /\ Flushing \subseteq BOOLEAN
    BY DEF NoPumpTick, TickRec, PumpInv, PumpTypes, Flushing
  <1>2. ASSUME NEW patch, NEW flush \in Flushing, Worker!SavePayload(patch, flush)
        PROVE  /\ pumpLive' = Worker!Merge(patch, pumpLive) /\ pumpRow' \in {pumpLive', pumpRow}
               /\ ~throttled => pumpRow' = pumpLive'
    BY <1>2 DEF Worker!SavePayload, Worker!Merged, Flushing
  <1>3. CASE PumpStart
    <2>1. PICK flush \in Flushing : Worker!SavePayload(Worker!Nothing, flush)
      BY <1>3 DEF PumpStart, Worker!SaveStatus
    <2>2. Positions(pumpLive') = Positions(pumpLive) /\ ManualSells(pumpLive') = ManualSells(pumpLive)
      BY <1>2, <2>1, SavedFields
    <2> DEFINE k == [NoPumpTick EXCEPT !.pc = "exit", !.todo = Positions(pumpRow), !.drained = ManualSells(pumpRow)]
    <2>3. /\ pumpTick' = k
          /\ k = [pc |-> "exit", todo |-> Positions(pumpRow), left |-> {}, drained |-> ManualSells(pumpRow),
                  tried |-> {}, queue |-> {}]
      BY <1>3, TickBegun DEF PumpStart
    <2>4. k \in TickRec
      BY <2>3 DEF TickRec, PumpInv, PumpTypes
    <2> HIDE DEF k
    <2>5. PumpTypes'
      BY <1>1, <1>3, <2>1, <2>2, <2>3, <2>4, SaveTypes, <1>2
      DEF PumpStart, PumpInv, PumpTypes, outside
    <2>6. pumpSlips = 0 => QueueKept'
      BY <1>3, <2>2, <2>3 DEF PumpStart, PumpInv, QueueKept
    <2>7. pumpSlips = 0 /\ ~throttled => BagsKept'
      BY <1>2, <1>3, <2>1, <2>2, <2>3 DEF PumpStart, PumpInv, BagsKept
    <2> QED BY <1>3, <2>5, <2>6, <2>7 DEF PumpStart, PumpInv, outside
  <1>4. CASE Observe
    <2>1. /\ pumpTick.pc = "exit" /\ pumpTick.left = {} /\ pumpTick.drained = {} /\ pumpTick.todo = Positions(pumpRow)
          /\ pumpTick' = NoPumpTick /\ UNCHANGED <<bag, throttled, pumpWeb, wanted, pumpSlips>>
      BY <1>4 DEF Observe, outside
    <2>2. NoPumpTick.pc = "idle" /\ NoPumpTick.drained = {}
      BY DEF NoPumpTick
    <2>3. CASE UNCHANGED payloads
      BY <1>1, <2>1, <2>2, <2>3 DEF PumpInv, PumpTypes, QueueKept, BagsKept, payloads
    <2>4. ASSUME NEW flush \in Flushing, Worker!SavePayload([positions |-> pumpTick.todo], flush)
          PROVE  PumpInv'
      <3>1. Positions(pumpLive') = pumpTick.todo /\ ManualSells(pumpLive') = ManualSells(pumpLive)
        <4>1. pumpLive' = Worker!Merge([positions |-> pumpTick.todo], pumpLive)
          BY <2>4 DEF Worker!SavePayload, Worker!Merged
        <4> QED BY <4>1, SavedFields
      <3>2. PumpTypes'
        BY <1>1, <1>2, <2>1, <2>4, <3>1 DEF PumpInv, PumpTypes, TickRec
      <3>3. pumpSlips = 0 => QueueKept'
        BY <2>1, <2>2, <3>1 DEF PumpInv, QueueKept
      <3>4. pumpSlips = 0 /\ ~throttled => BagsKept'
        BY <1>2, <2>1, <2>2, <2>4, <3>1 DEF PumpInv, BagsKept
      <3> QED BY <2>1, <3>2, <3>3, <3>4 DEF PumpInv
    <2> QED BY <1>4, <2>3, <2>4 DEF Observe
  <1>5. ASSUME NEW m \in Mints, NEW kept \in SUBSET {m}, pumpTick.pc = "exit", Checked(m, kept),
               kept = {} => bag' = bag \ {m}, bag' \in {bag, bag \ {m}},
               pumpSlips' \in {pumpSlips, pumpSlips + 1}, UNCHANGED <<payloads, throttled, pumpWeb, wanted>>
        PROVE  PumpInv'
    <2> DEFINE k == [pumpTick EXCEPT !.todo = @ \ {m}, !.left = @ \cup kept]
    <2>1. pumpTick' = k /\ k = [pc |-> pumpTick.pc, todo |-> pumpTick.todo \ {m}, left |-> pumpTick.left \cup kept,
                                drained |-> pumpTick.drained, tried |-> pumpTick.tried, queue |-> pumpTick.queue]
      BY <1>1, <1>5, ExitFields DEF Checked
    <2> HIDE DEF k
    <2>2. k \in TickRec
      BY <1>1, <2>1 DEF TickRec
    <2>3. pumpSlips \in Nat /\ (pumpSlips' = 0 => pumpSlips = 0)
      BY <1>5 DEF PumpInv, PumpTypes
    <2> QED BY <1>5, <2>1, <2>2, <2>3 DEF PumpInv, PumpTypes, QueueKept, BagsKept, payloads
  <1>6. ASSUME NEW m \in Mints, Hold(m) \/ Sell(m) PROVE PumpInv'
    <2>1. CASE Hold(m)
      BY <1>5, <2>1 DEF Hold, outside
    <2>2. CASE Sell(m)
      BY <1>5, <2>2 DEF Sell, KeptUnconfirmed, MaySlip, outside
    <2> QED BY <1>6, <2>1, <2>2
  <1>7. CASE Discover
    <2> DEFINE k == [pumpTick EXCEPT !.pc = "enter"]
    <2>1. /\ pumpTick' = k /\ k \in TickRec /\ k.pc = "enter" /\ k.left = pumpTick.left /\ k.drained = pumpTick.drained
          /\ pumpTick.pc = "exit" /\ pumpTick.todo = {}
      BY <1>1, <1>7 DEF Discover, TickRec
    <2> HIDE DEF k
    <2> QED BY <1>7, <2>1 DEF Discover, PumpInv, PumpTypes, QueueKept, BagsKept, payloads, outside
  <1>8. ASSUME NEW m \in Mints, Buy(m) PROVE PumpInv'
    <2>1. pumpSlips \in Nat
      BY DEF PumpInv, PumpTypes
    <2>2. CASE /\ pumpTick' = [pumpTick EXCEPT !.left = @ \cup {m}, !.tried = @ \cup {m}] /\ UNCHANGED pumpSlips
      <3> DEFINE k == [pumpTick EXCEPT !.left = @ \cup {m}, !.tried = @ \cup {m}]
      <3>1. k = [pc |-> pumpTick.pc, todo |-> pumpTick.todo, left |-> pumpTick.left \cup {m},
                 drained |-> pumpTick.drained, tried |-> pumpTick.tried \cup {m}, queue |-> pumpTick.queue]
        BY <1>1, EntryFields
      <3> HIDE DEF k
      <3>2. k \in TickRec /\ pumpTick' = k
        BY <1>1, <2>2, <3>1 DEF TickRec, k
      <3> QED BY <1>8, <2>2, <3>1, <3>2 DEF Buy, PumpInv, PumpTypes, QueueKept, BagsKept, payloads, outside
    <2>3. CASE pumpTick' = [pumpTick EXCEPT !.tried = @ \cup {m}] /\ MaySlip
      <3>1. pumpTick' \in TickRec /\ pumpSlips' = pumpSlips + 1 /\ pumpSlips' \in Nat /\ pumpSlips' # 0
        BY <1>1, <2>1, <2>3 DEF TickRec, MaySlip
      <3>2. bag' = bag \cup {m} /\ UNCHANGED <<payloads, throttled, pumpWeb, wanted>>
        BY <1>8 DEF Buy, outside
      <3> QED BY <3>1, <3>2 DEF PumpInv, PumpTypes, payloads
    <2> QED BY <1>8, <2>2, <2>3 DEF Buy
  <1>9. CASE ReadQueue
    <2> DEFINE k == [pumpTick EXCEPT !.pc = "save", !.queue = RemainingQueue]
    <2>1. k = [pc |-> "save", todo |-> pumpTick.todo, left |-> pumpTick.left,
               drained |-> pumpTick.drained, tried |-> pumpTick.tried, queue |-> RemainingQueue]
      BY <1>1, EndFields
    <2>2. RemainingQueue \in SUBSET Mints /\ RemainingQueue = ManualSells(pumpLive) \ pumpTick.drained
      BY DEF RemainingQueue, PumpInv, PumpTypes
    <2>3. k \in TickRec
      BY <1>1, <2>1, <2>2 DEF TickRec
    <2>4. pumpTick' = k /\ pumpTick.pc = "enter" /\ UNCHANGED <<bag, payloads, throttled, pumpWeb, wanted, pumpSlips>>
      BY <1>9 DEF ReadQueue, outside
    <2> HIDE DEF k
    <2> QED BY <2>1, <2>2, <2>3, <2>4 DEF PumpInv, PumpTypes, QueueKept, BagsKept, payloads
  <1>10. CASE PumpSave
    <2>1. PICK flush \in Flushing :
             Worker!SavePayload([positions |-> pumpTick.left, manualSellRequests |-> pumpTick.queue], flush)
      BY <1>10 DEF PumpSave
    <2>2. Positions(pumpLive') = pumpTick.left /\ ManualSells(pumpLive') = pumpTick.queue
      <3>1. pumpLive' = Worker!Merge([positions |-> pumpTick.left, manualSellRequests |-> pumpTick.queue], pumpLive)
        BY <2>1 DEF Worker!SavePayload, Worker!Merged
      <3> QED BY <3>1, SavedBoth
    <2>3. /\ pumpTick.pc = "save" /\ pumpTick' = NoPumpTick /\ wanted' = wanted \ pumpTick.drained
          /\ UNCHANGED <<bag, throttled, pumpWeb, pumpSlips>>
      BY <1>10 DEF PumpSave, outside
    <2>4. NoPumpTick.pc = "idle" /\ NoPumpTick.drained = {}
      BY DEF NoPumpTick
    <2>5. PumpTypes'
      BY <1>1, <1>2, <2>1, <2>2, <2>3 DEF PumpInv, PumpTypes, TickRec
    <2>6. pumpSlips = 0 => QueueKept'
      BY <2>2, <2>3, <2>4 DEF PumpInv, QueueKept
    <2>7. pumpSlips = 0 /\ ~throttled => BagsKept'
      BY <1>2, <2>1, <2>2, <2>3, <2>4 DEF PumpInv, BagsKept
    <2> QED BY <2>3, <2>5, <2>6, <2>7 DEF PumpInv
  <1>11. ASSUME NEW m \in Mints, Click(m) PROVE PumpInv'
    <2> DEFINE click == [mint |-> m, read |-> IF pumpLive = Worker!Nothing THEN pumpRow ELSE pumpLive]
    <2>1. pumpWeb' = click /\ click.mint = m /\ click.read \in {pumpRow, pumpLive}
      BY <1>11 DEF Click
    <2>2. UNCHANGED <<bag, pumpRow, pumpLive, throttled, pumpTick, wanted, pumpSlips>>
      BY <1>11 DEF Click, payloads
    <2> HIDE DEF click
    <2> QED BY <2>1, <2>2 DEF PumpInv, PumpTypes, QueueKept, BagsKept
  <1>12. CASE PutRequest
    <2> DEFINE queue == ManualSells(pumpWeb.read)
               put == Worker!Merge([manualSellRequests |-> queue \cup {pumpWeb.mint}], pumpWeb.read)
    <2>1. pumpWeb # NoClick /\ pumpWeb' = NoClick /\ UNCHANGED <<bag, throttled, pumpTick>> /\ pumpSlips \in Nat
      BY <1>12 DEF PutRequest, PumpInv, PumpTypes
    <2>2. CASE pumpWeb.mint \in queue
      BY <1>12, <2>1, <2>2 DEF PutRequest, PumpInv, PumpTypes, QueueKept, BagsKept, payloads
    <2>3. CASE pumpWeb.mint \notin queue
      <3>1. /\ pumpRow' = put /\ pumpLive' = put /\ wanted' = wanted \cup {pumpWeb.mint}
            /\ IF Late THEN MaySlip ELSE UNCHANGED pumpSlips
        BY <1>12, <2>3 DEF PutRequest, Worker!PutPayload
      <3>2. Positions(put) = Positions(pumpWeb.read) /\ ManualSells(put) = queue \cup {pumpWeb.mint}
        BY SavedFields
      <3> HIDE DEF put
      <3>3. PumpTypes'
        BY <2>1, <3>1, <3>2 DEF PumpInv, PumpTypes, MaySlip
      <3>4. CASE Late
        <4>1. pumpSlips' # 0
          BY <2>1, <3>1, <3>4 DEF MaySlip
        <4> QED BY <3>3, <4>1 DEF PumpInv
      <3>5. CASE ~Late
        <4>1. pumpWeb.read = pumpLive /\ pumpTick.pc # "save" /\ pumpSlips' = pumpSlips
          BY <3>1, <3>5 DEF Late
        <4> QED BY <2>1, <3>1, <3>2, <3>3, <4>1 DEF PumpInv, QueueKept, BagsKept
      <3> QED BY <3>4, <3>5
    <2> QED BY <2>2, <2>3
  <1>13. CASE PumpCrash
    <2>1. /\ pumpSlips \in Nat /\ pumpSlips' = pumpSlips + 1 /\ pumpTick' = NoPumpTick
          /\ pumpLive' \in {pumpLive, Worker!Nothing} /\ UNCHANGED <<bag, pumpRow, pumpWeb, wanted>>
      BY <1>13 DEF PumpCrash, MaySlip, Worker!EntryAfterRestart, outside, PumpInv, PumpTypes
    <2>2. Positions(Worker!Nothing) = {} /\ ManualSells(Worker!Nothing) = {}
      BY DEF Positions, ManualSells, Worker!Field, Worker!Nothing
    <2>3. PumpTypes'
      BY <1>1, <2>1, <2>2 DEF PumpInv, PumpTypes
    <2> QED BY <2>1, <2>3 DEF PumpInv
  <1>14. CASE UNCHANGED pumpVars
    BY <1>14 DEF pumpVars, PumpInv, PumpTypes, QueueKept, BagsKept
  <1> QED
    BY <1>3, <1>4, <1>6, <1>7, <1>8, <1>9, <1>10, <1>11, <1>12, <1>13, <1>14 DEF PumpNext

\* The worker starts without bags and requests.
LEMMA PumpStarts == PumpInit => PumpInv
  <1> SUFFICES ASSUME PumpInit PROVE PumpInv
    OBVIOUS
  <1>1. Positions(Worker!Nothing) = {} /\ ManualSells(Worker!Nothing) = {}
    BY DEF Positions, ManualSells, Worker!Field, Worker!Nothing
  <1>2. NoPumpTick \in TickRec /\ NoPumpTick.pc = "idle" /\ NoPumpTick.drained = {}
    BY DEF NoPumpTick, TickRec
  <1> QED BY <1>1, <1>2 DEF PumpInit, PumpInv, PumpTypes, QueueKept, BagsKept

\* Between ticks no bag goes untracked, and no request to sell is lost, but for restarts,
\* timeouts, late requests, and rows older than the cache (pumpfun-trade.ts:559).
THEOREM BagsAndRequestsKept == PumpSpec => [](BagsTracked /\ RequestsSurvive)
  <1>1. PumpInv => BagsTracked /\ RequestsSurvive
    BY DEF PumpInv, BagsKept, QueueKept, BagsTracked, RequestsSurvive
  <1> QED BY <1>1, PumpStarts, StepPump, PTL DEF PumpSpec

-----------------------------------------------------------------------------
(* Dollar-cost averaging: of a coin's orders, all but as many as there     *)
(* were slips are behind what the row, or the tick, knows of them, or an   *)
(* interval ago (DcaKnown).                                                *)

\* What a merge into the payload of the dollar-cost worker says of the times.
LEMMA MergedTimes ==
    ASSUME NEW patch, NEW onto
    PROVE  Store!Field(Store!Merge(patch, onto), "lastBuyAt", NoTimes)
             = IF "lastBuyAt" \in DOMAIN patch THEN patch["lastBuyAt"]
               ELSE Store!Field(onto, "lastBuyAt", NoTimes)
  BY DEF Store!Field, Store!Merge

Times(payload) == Store!Field(payload, "lastBuyAt", NoTimes)

\* What the worker's saves make of the times.
LEMMA SavedTimes ==
    ASSUME NEW onto, NEW x
    PROVE  /\ Times(Store!Merge(Store!Nothing, onto)) = Times(onto)
           /\ Times(Store!Merge([lastBuyAt |-> x], onto)) = x
  <1>1. DOMAIN Store!Nothing = {}
    BY DEF Store!Nothing
  <1> DEFINE patch == [lastBuyAt |-> x]
  <1>2. "lastBuyAt" \in DOMAIN patch /\ patch["lastBuyAt"] = x
    OBVIOUS
  <1> HIDE DEF patch
  <1> QED BY <1>1, <1>2, MergedTimes DEF Times

\* An absent payload names no coin.
LEMMA NoKnownTimes == DOMAIN Times(Store!Nothing) = {} /\ DOMAIN NoTimes = {}
  BY DEF Times, NoTimes, Store!Field, Store!Nothing

\* In order, and past.
Past(q, now) ==
    /\ q \in Seq(Nat)
    /\ \A i \in 1..Len(q) : q[i] <= now /\ \A j \in 1..i : q[j] <= q[i]

\* All but the last s of q are not after t.
Behind(q, t, s) == Len(q) > s => q[Len(q) - s] <= t

\* The constants of the worker.
LEMMA IntervalIsNat == IntervalTime \in Nat /\ NumCoins \in Nat
  BY DcaConstants

\* Leaving one more out asks for less.
LEMMA BehindWeakens ==
    ASSUME NEW now \in Nat, NEW q, Past(q, now), NEW t \in Int, NEW s \in Nat, Behind(q, t, s)
    PROVE  Behind(q, t, 1 + s) /\ \A u \in Int : t <= u => Behind(q, u, s)
  <1> DEFINE n == Len(q)
  <1>1. n \in Nat /\ \A i \in 1..n : q[i] \in Nat /\ \A j \in 1..i : q[j] <= q[i]
    BY DEF Past
  <1>2. ASSUME n > s PROVE n - s \in 1..n
    BY <1>1, <1>2
  <1>3. ASSUME n > 1 + s PROVE n > s /\ n - (1 + s) \in 1..(n - s) /\ n - (1 + s) \in 1..n
    BY <1>1, <1>3
  <1>4. ASSUME n > 1 + s PROVE q[n - (1 + s)] <= q[n - s] /\ q[n - (1 + s)] \in Nat /\ q[n - s] \in Nat
    BY <1>1, <1>2, <1>3, <1>4
  <1>5. Behind(q, t, 1 + s)
    BY <1>3, <1>4 DEF Behind
  <1>6. ASSUME NEW u \in Int, t <= u PROVE Behind(q, u, s)
    BY <1>1, <1>2, <1>6 DEF Behind
  <1> QED BY <1>5, <1>6

\* Orders apart with one more between them ask for less.
LEMMA ApartWeakens ==
    ASSUME NEW now \in Nat, NEW q, Past(q, now), NEW s \in Nat, s > 0, Apart(q, s)
    PROVE  Apart(q, 1 + s)
  <1> DEFINE n == Len(q)
  <1>1. n \in Nat /\ \A i \in 1..n : q[i] \in Nat /\ \A j \in 1..i : q[j] <= q[i]
    BY DEF Past
  <1> SUFFICES ASSUME NEW i \in 1..n, i + (1 + s) <= n PROVE q[i + (1 + s)] - q[i] >= IntervalTime
    BY DEF Apart
  <1>2. i + s <= n /\ i + s \in 1..(i + (1 + s)) /\ i + (1 + s) \in 1..n /\ i + s \in 1..n
    BY <1>1
  <1>3. q[i + s] - q[i] >= IntervalTime
    BY <1>2 DEF Apart
  <1>4. q[i + s] <= q[i + (1 + s)]
    BY <1>1, <1>2
  <1> HIDE DEF n
  <1> QED BY <1>1, <1>2, <1>3, <1>4, IntervalIsNat

\* One order more, now.
LEMMA OneMore ==
    ASSUME NEW now \in Nat, NEW q, Past(q, now), NEW s \in Nat, NEW r, r = Append(q, now)
    PROVE  /\ Past(r, now)
           /\ Behind(r, now, s)
           /\ \A t \in Int : Behind(q, t, s) => Behind(r, t, 1 + s)
           /\ Apart(q, 1 + s) /\ Behind(q, now - IntervalTime, s) => Apart(r, 1 + s)
  <1> DEFINE n == Len(q)
  <1>1. n \in Nat /\ \A i \in 1..n : q[i] \in Nat /\ q[i] <= now /\ \A j \in 1..i : q[j] <= q[i]
    BY DEF Past
  <1>2. /\ r \in Seq(Nat) /\ Len(r) = n + 1 /\ r[n + 1] = now
        /\ \A i \in 1..n : r[i] = q[i]
    <2>1. q \in Seq(Nat)
      BY DEF Past
    <2> QED BY <2>1
  <1>3. Past(r, now)
    <2> SUFFICES ASSUME NEW i \in 1..(n + 1), NEW j \in 1..i PROVE r[i] <= now /\ r[j] <= r[i]
      BY <1>2 DEF Past
    <2>1. CASE i = n + 1
      <3>1. j = n + 1 \/ j \in 1..n
        BY <1>1, <2>1
      <3> QED BY <1>1, <1>2, <2>1, <3>1
    <2>2. CASE i \in 1..n
      BY <1>1, <1>2, <2>2
    <2>3. i = n + 1 \/ i \in 1..n
      BY <1>1
    <2> QED BY <2>1, <2>2, <2>3
  <1>4. Behind(r, now, s)
    <2> SUFFICES ASSUME n + 1 > s PROVE r[n + 1 - s] <= now
      BY <1>2 DEF Behind
    <2>1. n + 1 - s \in 1..(n + 1)
      BY <1>1
    <2> QED BY <1>2, <1>3, <2>1 DEF Past
  <1>5. ASSUME NEW t \in Int, Behind(q, t, s) PROVE Behind(r, t, 1 + s)
    <2> SUFFICES ASSUME n + 1 > 1 + s PROVE r[n + 1 - (1 + s)] <= t
      BY <1>2 DEF Behind
    <2>1. n > s /\ n - s \in 1..n /\ n + 1 - (1 + s) = n - s
      BY <1>1
    <2>2. q[n - s] <= t
      BY <1>5, <2>1 DEF Behind
    <2> QED BY <1>2, <2>1, <2>2
  <1>6. ASSUME Apart(q, 1 + s), Behind(q, now - IntervalTime, s) PROVE Apart(r, 1 + s)
    <2> SUFFICES ASSUME NEW i \in 1..(n + 1), i + (1 + s) <= n + 1 PROVE r[i + (1 + s)] - r[i] >= IntervalTime
      BY <1>2 DEF Apart
    <2>1. CASE i + (1 + s) <= n
      <3>1. i \in 1..n /\ i + (1 + s) \in 1..n
        BY <1>1, <2>1
      <3>2. q[i + (1 + s)] - q[i] >= IntervalTime
        BY <1>6, <2>1, <3>1 DEF Apart
      <3> QED BY <1>2, <3>1, <3>2
    <2>2. CASE i + (1 + s) = n + 1
      <3>1. i = n - s /\ n > s /\ i \in 1..n
        <4>1. n \in Nat
          BY <1>1
        <4> HIDE DEF n
        <4> QED BY <4>1, <2>2
      <3>2. q[i] <= now - IntervalTime
        BY <1>6, <3>1 DEF Behind
      <3>3. r[i + (1 + s)] = now /\ r[i] = q[i] /\ q[i] \in Nat
        BY <1>1, <1>2, <2>2, <3>1
      <3> QED BY <3>2, <3>3, IntervalIsNat
    <2>3. i + (1 + s) <= n \/ i + (1 + s) = n + 1
      BY <1>1
    <2> QED BY <2>1, <2>2, <2>3
  <1> QED BY <1>3, <1>4, <1>5, <1>6

-----------------------------------------------------------------------------

\* Up to when these times know what was bought of c: an interval ago, where they do not
\* name it.
KnownTo(c, last, now) == IF c \in DOMAIN last THEN last[c] ELSE now - IntervalTime

TimesOK(last, now) == \A c \in Coins : c \in DOMAIN last => last[c] \in Nat /\ last[c] <= now

DcaTypes ==
    /\ dcaNow \in Nat /\ dcaSlips \in Nat
    /\ dcaFlushed \in Int /\ dcaFlushed <= dcaNow
    /\ dcaTick.pc \in {"idle", "plan", "buy"} /\ dcaTick.plan \subseteq Coins
    /\ dcaTick.pc # "buy" => dcaTick.plan = {}
    /\ dcaOrders \in [Coins -> Seq(Nat)]
    /\ \A c \in Coins : Past(dcaOrders[c], dcaNow)

\* The row has no other time for c than the tick has.
AsRead(c, last, row) == c \in DOMAIN row => c \in DOMAIN last /\ last[c] = row[c]

\* Where every save reaches the row: of each coin's orders the last 1 + slips may be within
\* the interval, or unknown to the row; one less between ticks, and to the times of a tick,
\* which plans the coins whose interval is over.  In a process that found no entry in the
\* cache, the row is what the entry is.
DcaKnown ==
    /\ dcaLive \in {dcaRow, Store!Nothing}
    /\ TimesOK(Times(dcaRow), dcaNow) /\ TimesOK(dcaTick.last, dcaNow)
    /\ \A c \in Coins :
          /\ Apart(dcaOrders[c], 1 + dcaSlips)
          /\ Behind(dcaOrders[c], dcaNow - IntervalTime, 1 + dcaSlips)
          /\ Behind(dcaOrders[c], KnownTo(c, Times(dcaRow), dcaNow), 1 + dcaSlips)
          /\ dcaTick.pc = "idle" => Behind(dcaOrders[c], KnownTo(c, Times(dcaRow), dcaNow), dcaSlips)
          /\ dcaTick.pc # "idle" => Behind(dcaOrders[c], KnownTo(c, dcaTick.last, dcaNow), dcaSlips)
          /\ dcaTick.pc = "plan" \/ c \in dcaTick.plan => AsRead(c, dcaTick.last, Times(dcaRow))
          /\ c \in dcaTick.plan => IntervalOver(c, dcaTick.last)

DcaInv == DcaTypes /\ (dcaFlushTime = 0 => DcaKnown)

\* What times know is a time.
LEMMA KnownToIsInt ==
    ASSUME NEW now \in Nat, NEW last, TimesOK(last, now), NEW c \in Coins
    PROVE  KnownTo(c, last, now) \in Int
  BY IntervalIsNat DEF KnownTo, TimesOK

\* Without times, nothing within the interval is known.
LEMMA NothingKnown ==
    ASSUME NEW now \in Nat
    PROVE  /\ TimesOK(NoTimes, now) /\ TimesOK(Times(Store!Nothing), now)
           /\ \A c \in Coins : KnownTo(c, Times(Store!Nothing), now) = now - IntervalTime
  BY NoKnownTimes DEF TimesOK, KnownTo

\* Time passes, and the worker's state stays.
LEMMA StepWait == DcaInv /\ DcaWait => DcaInv'
  <1> SUFFICES ASSUME DcaInv, DcaWait PROVE DcaInv'
    OBVIOUS
  <1>1. /\ dcaNow \in Nat /\ dcaNow' = dcaNow + 1 /\ dcaNow' \in Nat
        /\ UNCHANGED <<dcaRow, dcaLive, dcaFlushTime, dcaFlushed, dcaTick, dcaOrders, dcaSlips>>
    BY DEF DcaWait, DcaInv, DcaTypes
  <1>2. ASSUME NEW q, Past(q, dcaNow) PROVE Past(q, dcaNow')
    <2>1. \A i \in 1..Len(q) : q[i] \in Nat
      BY <1>2 DEF Past
    <2> QED BY <1>1, <1>2, <2>1 DEF Past
  <1>3. DcaTypes'
    BY <1>1, <1>2 DEF DcaInv, DcaTypes
  <1>4. ASSUME DcaKnown PROVE DcaKnown'
    <2>1. ASSUME NEW last, TimesOK(last, dcaNow)
          PROVE  TimesOK(last, dcaNow') /\ \A c \in Coins : /\ KnownTo(c, last, dcaNow) <= KnownTo(c, last, dcaNow')
                                                           /\ KnownTo(c, last, dcaNow') \in Int
      BY <1>1, <2>1, IntervalIsNat DEF TimesOK, KnownTo
    <2>2. TimesOK(Times(dcaRow), dcaNow) /\ TimesOK(dcaTick.last, dcaNow)
      BY <1>4 DEF DcaKnown
    <2>3. ASSUME NEW c \in Coins, NEW t \in Int, NEW u \in Int, NEW s \in Nat, t <= u, Behind(dcaOrders[c], t, s)
          PROVE  Behind(dcaOrders[c], u, s)
      BY <2>3, BehindWeakens DEF DcaInv, DcaTypes
    <2>4. ASSUME NEW c \in Coins
          PROVE  /\ dcaNow - IntervalTime \in Int /\ dcaNow' - IntervalTime \in Int
                 /\ dcaNow - IntervalTime <= dcaNow' - IntervalTime
                 /\ KnownTo(c, Times(dcaRow), dcaNow) \in Int /\ KnownTo(c, dcaTick.last, dcaNow) \in Int
                 /\ dcaSlips \in Nat /\ 1 + dcaSlips \in Nat
      BY <1>1, <2>2, IntervalIsNat, KnownToIsInt DEF DcaInv, DcaTypes
    <2>5. ASSUME NEW c \in Coins, c \in dcaTick.plan PROVE IntervalOver(c, dcaTick.last)'
      <3>1. IntervalOver(c, dcaTick.last)
        BY <1>4, <2>5 DEF DcaKnown
      <3> QED BY <1>1, <2>2, <3>1, IntervalIsNat DEF IntervalOver, TimesOK
    <2>6. ASSUME NEW c \in Coins
          PROVE  /\ Apart(dcaOrders[c], 1 + dcaSlips)
                 /\ Behind(dcaOrders[c], dcaNow' - IntervalTime, 1 + dcaSlips)
                 /\ Behind(dcaOrders[c], KnownTo(c, Times(dcaRow), dcaNow'), 1 + dcaSlips)
                 /\ dcaTick.pc = "idle" => Behind(dcaOrders[c], KnownTo(c, Times(dcaRow), dcaNow'), dcaSlips)
                 /\ dcaTick.pc # "idle" => Behind(dcaOrders[c], KnownTo(c, dcaTick.last, dcaNow'), dcaSlips)
      BY <1>4, <2>1, <2>2, <2>3, <2>4 DEF DcaKnown
    <2> QED BY <1>1, <1>4, <2>1, <2>2, <2>5, <2>6 DEF DcaKnown
  <1> QED BY <1>1, <1>3, <1>4 DEF DcaInv

\* With as many slips, or one more, what is said of a coin's orders still is.
LEMMA SlipsWeaken ==
    ASSUME DcaInv, DcaKnown, NEW s \in {dcaSlips, dcaSlips + 1}, NEW c \in Coins
    PROVE  /\ s \in Nat
           /\ Apart(dcaOrders[c], 1 + s) /\ Behind(dcaOrders[c], dcaNow - IntervalTime, 1 + s)
           /\ \A t \in Int : /\ Behind(dcaOrders[c], t, dcaSlips) => /\ Behind(dcaOrders[c], t, s)
                                                                     /\ Behind(dcaOrders[c], t, 1 + s)
                             /\ Behind(dcaOrders[c], t, 1 + dcaSlips) => Behind(dcaOrders[c], t, 1 + s)
  <1> DEFINE q == dcaOrders[c]
  <1>1. dcaNow \in Nat /\ dcaSlips \in Nat /\ Past(q, dcaNow) /\ s \in Nat
    BY DEF DcaInv, DcaTypes
  <1>2. dcaNow - IntervalTime \in Int /\ 1 + dcaSlips \in Nat /\ 1 + dcaSlips > 0
    BY <1>1, IntervalIsNat
  <1>3. Apart(q, 1 + dcaSlips) /\ Behind(q, dcaNow - IntervalTime, 1 + dcaSlips)
    BY DEF DcaKnown
  <1>4. \A t \in Int : /\ Behind(q, t, dcaSlips) => Behind(q, t, 1 + dcaSlips)
                       /\ Behind(q, t, 1 + dcaSlips) => Behind(q, t, 1 + (1 + dcaSlips))
    <2> HIDE DEF q
    <2>1. ASSUME NEW t \in Int, NEW k \in Nat, Behind(q, t, k) PROVE Behind(q, t, 1 + k)
      BY <1>1, <2>1, BehindWeakens
    <2> QED BY <1>1, <1>2, <2>1
  <1>5. Apart(q, 1 + (1 + dcaSlips))
    <2> HIDE DEF q
    <2>1. ASSUME NEW k \in Nat, k > 0, Apart(q, k) PROVE Apart(q, 1 + k)
      BY <1>1, <2>1, ApartWeakens
    <2> QED BY <1>1, <1>2, <1>3, <2>1
  <1>6. s = dcaSlips \/ s = 1 + dcaSlips
    BY <1>1
  <1>7. CASE s = dcaSlips
    BY <1>1, <1>2, <1>3, <1>4, <1>7
  <1>8. CASE s = 1 + dcaSlips
    BY <1>1, <1>2, <1>3, <1>4, <1>5, <1>8
  <1> QED BY <1>6, <1>7, <1>8

\* Where every save reaches the row, it does now.
LEMMA EverySave == DcaInv /\ dcaFlushTime = 0 => Flushes
  BY DEF DcaInv, DcaTypes, Flushes

\* A tick begins: the entry goes to the row.
LEMMA StepStart == DcaInv /\ DcaStart => DcaInv'
  <1> SUFFICES ASSUME DcaInv, DcaStart PROVE DcaInv'
    OBVIOUS
  <1>1. /\ dcaTick.pc = "idle" /\ UNCHANGED <<dcaNow, dcaFlushTime, dcaOrders, dcaSlips>>
        /\ dcaTick' = [pc |-> "plan", poll |-> dcaNow, plan |-> {}, last |-> Times(dcaRow)]
        /\ dcaLive' = Store!Merge(Store!Nothing, dcaLive) /\ (Flushes => dcaRow' = dcaLive')
        /\ dcaFlushed' \in {dcaFlushed, dcaNow}
    BY DEF DcaStart, Times, Store!SaveStatus, Store!SavePayload, Store!Merged, Flushed
  <1>2. DcaTypes'
    BY <1>1 DEF DcaInv, DcaTypes
  <1>3. ASSUME dcaFlushTime = 0, DcaKnown PROVE DcaKnown'
    <2>1. dcaRow' = dcaLive' /\ Times(dcaRow') = Times(dcaLive) /\ dcaLive \in {dcaRow, Store!Nothing}
      BY <1>1, <1>3, EverySave, SavedTimes DEF DcaKnown
    <2>2. dcaNow \in Nat /\ TimesOK(Times(dcaRow), dcaNow) /\ TimesOK(Times(dcaRow'), dcaNow)
      BY <1>3, <2>1, NothingKnown DEF DcaKnown, DcaInv, DcaTypes
    <2>3. ASSUME NEW c \in Coins
          PROVE  /\ Behind(dcaOrders[c], KnownTo(c, Times(dcaRow'), dcaNow), 1 + dcaSlips)
                 /\ Behind(dcaOrders[c], KnownTo(c, Times(dcaRow), dcaNow), dcaSlips)
                 /\ AsRead(c, Times(dcaRow), Times(dcaRow'))
      BY <1>1, <1>3, <2>1, <2>2, NothingKnown, NoKnownTimes DEF DcaKnown, AsRead
    <2> QED BY <1>1, <1>3, <2>1, <2>2, <2>3 DEF DcaKnown
  <1> QED BY <1>1, <1>2, <1>3 DEF DcaInv

\* A tick ends: its times go to the row.
LEMMA StepSave ==
    ASSUME DcaInv, dcaTick.pc \in {"plan", "buy"}, DcaSave, dcaSlips' \in {dcaSlips, dcaSlips + 1}
    PROVE  DcaInv'
  <1>1. /\ UNCHANGED <<dcaNow, dcaFlushTime, dcaOrders>>
        /\ dcaTick' = [pc |-> "idle", poll |-> dcaTick.poll, last |-> NoTimes, plan |-> {}]
        /\ dcaLive' = Store!Merge([lastBuyAt |-> dcaTick.last], dcaLive) /\ (Flushes => dcaRow' = dcaLive')
        /\ dcaFlushed' \in {dcaFlushed, dcaNow}
    BY DEF DcaSave, NoDcaTick, Store!SavePayload, Store!Merged, Flushed
  <1>2. DcaTypes'
    BY <1>1 DEF DcaInv, DcaTypes
  <1>3. ASSUME dcaFlushTime = 0, DcaKnown PROVE DcaKnown'
    <2>1. dcaRow' = dcaLive' /\ Times(dcaRow') = dcaTick.last
      BY <1>1, <1>3, EverySave, SavedTimes
    <2>2. /\ dcaNow \in Nat /\ TimesOK(dcaTick.last, dcaNow) /\ TimesOK(NoTimes, dcaNow)
      BY <1>3, NothingKnown DEF DcaKnown, DcaInv, DcaTypes
    <2>3. ASSUME NEW c \in Coins
          PROVE  /\ Apart(dcaOrders[c], 1 + dcaSlips')
                 /\ Behind(dcaOrders[c], dcaNow - IntervalTime, 1 + dcaSlips')
                 /\ Behind(dcaOrders[c], KnownTo(c, dcaTick.last, dcaNow), dcaSlips')
                 /\ Behind(dcaOrders[c], KnownTo(c, dcaTick.last, dcaNow), 1 + dcaSlips')
      <3>1. KnownTo(c, dcaTick.last, dcaNow) \in Int
        BY <2>2, KnownToIsInt
      <3>2. Behind(dcaOrders[c], KnownTo(c, dcaTick.last, dcaNow), dcaSlips)
        BY <1>3 DEF DcaKnown
      <3> QED BY <1>3, <3>1, <3>2, SlipsWeaken
    <2> QED BY <1>1, <1>3, <2>1, <2>2, <2>3 DEF DcaKnown
  <1> QED BY <1>1, <1>2, <1>3 DEF DcaInv

\* The process stops, between ticks or in one.
LEMMA StepCrash == DcaInv /\ DcaCrash => DcaInv'
  <1> SUFFICES ASSUME DcaInv, DcaCrash PROVE DcaInv'
    OBVIOUS
  <1>1. /\ UNCHANGED <<dcaNow, dcaRow, dcaFlushTime, dcaOrders>> /\ dcaSlips' = dcaSlips + 1
        /\ dcaTick' = [pc |-> "idle", poll |-> dcaTick.poll, last |-> NoTimes, plan |-> {}]
        /\ dcaLive' \in {dcaLive, Store!Nothing} /\ dcaFlushed' = -1
    BY DEF DcaCrash, Slip, NoDcaTick, Store!EntryAfterRestart
  <1>2. DcaTypes'
    BY <1>1 DEF DcaInv, DcaTypes
  <1>3. ASSUME DcaKnown PROVE DcaKnown'
    <2>1. dcaNow \in Nat /\ TimesOK(Times(dcaRow), dcaNow) /\ TimesOK(NoTimes, dcaNow) /\ dcaSlips \in Nat
      BY <1>3, NothingKnown DEF DcaKnown, DcaInv, DcaTypes
    <2>2. ASSUME NEW c \in Coins
          PROVE  /\ Apart(dcaOrders[c], 1 + dcaSlips')
                 /\ Behind(dcaOrders[c], dcaNow - IntervalTime, 1 + dcaSlips')
                 /\ Behind(dcaOrders[c], KnownTo(c, Times(dcaRow), dcaNow), dcaSlips')
                 /\ Behind(dcaOrders[c], KnownTo(c, Times(dcaRow), dcaNow), 1 + dcaSlips')
      <3>1. KnownTo(c, Times(dcaRow), dcaNow) \in Int
        BY <2>1, KnownToIsInt
      <3>2. Behind(dcaOrders[c], KnownTo(c, Times(dcaRow), dcaNow), 1 + dcaSlips)
        BY <1>3 DEF DcaKnown
      <3>3. dcaSlips' = 1 + dcaSlips
        BY <1>1, <2>1
      <3> QED BY <1>1, <1>3, <3>1, <3>2, <3>3, SlipsWeaken
    <2> QED BY <1>1, <1>3, <2>1, <2>2 DEF DcaKnown
  <1> QED BY <1>1, <1>2, <1>3 DEF DcaInv

\* What is due is planned.
LEMMA StepPlan == DcaInv /\ DcaPlan => DcaInv'
  <1> SUFFICES ASSUME DcaInv, DcaPlan PROVE DcaInv'
    OBVIOUS
  <1> DEFINE plan == decideDcaBuys(dcaTick.last)
  <1>1. /\ UNCHANGED <<dcaNow, dcaRow, dcaLive, dcaFlushTime, dcaFlushed, dcaOrders, dcaSlips>>
        /\ dcaTick.pc = "plan" /\ dcaTick' = [pc |-> "buy", poll |-> dcaTick.poll, last |-> dcaTick.last, plan |-> plan]
    BY DEF DcaPlan, Buying
  <1>2. plan \subseteq Coins /\ \A c \in plan : IntervalOver(c, dcaTick.last)
    BY DEF decideDcaBuys
  <1> HIDE DEF plan
  <1>3. DcaTypes'
    BY <1>1, <1>2 DEF DcaInv, DcaTypes
  <1>4. ASSUME DcaKnown PROVE DcaKnown'
    BY <1>1, <1>2, <1>4 DEF DcaKnown, IntervalOver
  <1> QED BY <1>1, <1>3, <1>4 DEF DcaInv

\* The times of a tick, with a coin bought now.
LEMMA NotedTimes ==
    ASSUME DcaTypes, NEW c \in Coins, TimesOK(dcaTick.last, dcaNow)
    PROVE  /\ TimesOK(Noted(c), dcaNow)
           /\ KnownTo(c, Noted(c), dcaNow) = dcaNow
           /\ \A d \in Coins \ {c} : /\ KnownTo(d, Noted(c), dcaNow) = KnownTo(d, dcaTick.last, dcaNow)
                                     /\ IntervalOver(d, Noted(c)) <=> IntervalOver(d, dcaTick.last)
                                     /\ \A row : AsRead(d, dcaTick.last, row) => AsRead(d, Noted(c), row)
  <1>1. /\ DOMAIN Noted(c) = {c} \cup DOMAIN dcaTick.last /\ Noted(c)[c] = dcaNow
        /\ \A d \in Coins \ {c} : d \in DOMAIN dcaTick.last => Noted(c)[d] = dcaTick.last[d]
    BY DEF Noted, Store!Merge
  <1> QED BY <1>1 DEF TimesOK, KnownTo, IntervalOver, DcaTypes, AsRead

\* An order goes out: accepted and noted, or refused or unanswered.
LEMMA StepBuy == DcaInv /\ DcaBuy => DcaInv'
  <1> SUFFICES ASSUME DcaInv, DcaBuy PROVE DcaInv'
    OBVIOUS
  <1>1. dcaTick.pc = "buy" /\ UNCHANGED <<dcaNow, dcaRow, dcaLive, dcaFlushTime, dcaFlushed>>
    BY DEF DcaBuy
  <1>2. PICK c \in dcaTick.plan :
            \/ Ordered(c) /\ Buying(Noted(c), dcaTick.plan \ {c}) /\ UNCHANGED dcaSlips
            \/ Slip /\ (Ordered(c) \/ UNCHANGED dcaOrders) /\ Buying(dcaTick.last, dcaTick.plan \ {c})
    BY DEF DcaBuy
  <1> DEFINE q == dcaOrders[c]
  <1>3. c \in Coins /\ dcaNow \in Nat /\ dcaSlips \in Nat /\ Past(q, dcaNow) /\ dcaOrders \in [Coins -> Seq(Nat)]
    BY DEF DcaInv, DcaTypes
  <1>4. dcaTick'.pc = "buy" /\ dcaTick'.plan = dcaTick.plan \ {c} /\ dcaTick'.last \in {dcaTick.last, Noted(c)}
    BY <1>2 DEF Buying
  <1>5. dcaSlips' \in {dcaSlips, dcaSlips + 1} /\ dcaSlips' \in Nat
    BY <1>2, <1>3 DEF Slip
  <1>6. \A d \in Coins \ {c} : dcaOrders'[d] = dcaOrders[d]
    BY <1>2, <1>3 DEF Ordered
  <1>7. dcaOrders'[c] \in {q, Append(q, dcaNow)} /\ dcaOrders' \in [Coins -> Seq(Nat)]
    <2>1. q \in Seq(Nat) /\ Append(q, dcaNow) \in Seq(Nat)
      BY <1>3
    <2>2. dcaOrders' \in {dcaOrders, [dcaOrders EXCEPT ![c] = Append(q, dcaNow)]}
      BY <1>2 DEF Ordered
    <2> HIDE DEF q
    <2> QED BY <1>3, <2>1, <2>2 DEF q
  <1>8. \A d \in Coins : Past(dcaOrders'[d], dcaNow)
    <2>1. Past(dcaOrders'[c], dcaNow)
      BY <1>3, <1>7, OneMore
    <2> QED BY <1>6, <2>1 DEF DcaInv, DcaTypes
  <1>9. DcaTypes'
    BY <1>1, <1>4, <1>5, <1>7, <1>8 DEF DcaInv, DcaTypes
  <1>10. ASSUME DcaKnown PROVE DcaKnown'
    <2>1. /\ TimesOK(Times(dcaRow), dcaNow) /\ TimesOK(dcaTick.last, dcaNow) /\ TimesOK(Noted(c), dcaNow)
          /\ IntervalOver(c, dcaTick.last) /\ TimesOK(dcaTick'.last, dcaNow)
      BY <1>3, <1>4, <1>10, NotedTimes DEF DcaKnown, DcaInv
    <2> DEFINE row(d) == KnownTo(d, Times(dcaRow), dcaNow)
               known(d) == KnownTo(d, dcaTick.last, dcaNow)
    <2>2. \A d \in Coins : row(d) \in Int /\ known(d) \in Int
      BY <1>3, <2>1, KnownToIsInt
    <2>3. ASSUME NEW d \in Coins
          PROVE  /\ Apart(dcaOrders[d], 1 + dcaSlips)
                 /\ Behind(dcaOrders[d], dcaNow - IntervalTime, 1 + dcaSlips)
                 /\ Behind(dcaOrders[d], row(d), 1 + dcaSlips)
                 /\ Behind(dcaOrders[d], known(d), dcaSlips)
      BY <1>1, <1>10 DEF DcaKnown
    \* The order of c comes an interval after all but the last slips of its orders.
    <2>4. Behind(q, dcaNow - IntervalTime, dcaSlips) /\ dcaNow - IntervalTime \in Int
      <3>1. known(c) <= dcaNow - IntervalTime /\ dcaNow - IntervalTime \in Int
        BY <1>3, <2>1, IntervalIsNat DEF KnownTo, IntervalOver, TimesOK
      <3> QED BY <1>3, <2>2, <2>3, <3>1, BehindWeakens
    <2>8. Behind(q, row(c), dcaSlips)
      <3>1. AsRead(c, dcaTick.last, Times(dcaRow))
        BY <1>3, <1>10 DEF DcaKnown
      <3>2. row(c) \in {known(c), dcaNow - IntervalTime}
        BY <3>1 DEF AsRead, KnownTo
      <3> HIDE DEF row, known
      <3> QED BY <1>3, <2>3, <2>4, <3>2
    \* The coins that are not bought.
    <2>5. ASSUME NEW d \in Coins \ {c}
          PROVE  /\ Apart(dcaOrders[d], 1 + dcaSlips')
                 /\ Behind(dcaOrders[d], dcaNow - IntervalTime, 1 + dcaSlips')
                 /\ Behind(dcaOrders[d], row(d), 1 + dcaSlips')
                 /\ Behind(dcaOrders[d], KnownTo(d, dcaTick'.last, dcaNow), dcaSlips')
                 /\ d \in dcaTick'.plan => /\ IntervalOver(d, dcaTick.last)'
                                           /\ AsRead(d, dcaTick'.last, Times(dcaRow))
      <3>1. KnownTo(d, dcaTick'.last, dcaNow) = known(d)
        BY <1>3, <1>4, <2>1, NotedTimes DEF DcaInv
      <3>2. /\ Behind(dcaOrders[d], row(d), 1 + dcaSlips') /\ Behind(dcaOrders[d], known(d), dcaSlips')
            /\ Apart(dcaOrders[d], 1 + dcaSlips')
            /\ Behind(dcaOrders[d], dcaNow - IntervalTime, 1 + dcaSlips')
        <4> HIDE DEF row, known
        <4> QED BY <1>5, <1>10, <2>2, <2>3, SlipsWeaken
      <3>3. d \in dcaTick'.plan => IntervalOver(d, dcaTick.last)'
        <4>1. d \in dcaTick'.plan => IntervalOver(d, dcaTick'.last)
          BY <1>3, <1>4, <1>10, <2>1, NotedTimes DEF DcaKnown, DcaInv
        <4> QED BY <1>1, <4>1 DEF IntervalOver
      <3>4. d \in dcaTick'.plan => AsRead(d, dcaTick'.last, Times(dcaRow))
        BY <1>3, <1>4, <1>10, <2>1, NotedTimes DEF DcaKnown, DcaInv, AsRead
      <3> QED BY <3>1, <3>2, <3>3, <3>4
    \* The coin that is.
    <2>6. /\ Apart(dcaOrders'[c], 1 + dcaSlips')
          /\ Behind(dcaOrders'[c], dcaNow - IntervalTime, 1 + dcaSlips')
          /\ Behind(dcaOrders'[c], row(c), 1 + dcaSlips')
          /\ Behind(dcaOrders'[c], KnownTo(c, dcaTick'.last, dcaNow), dcaSlips')
      <3>1. /\ Apart(q, 1 + dcaSlips') /\ Behind(q, row(c), 1 + dcaSlips') /\ Behind(q, known(c), dcaSlips')
            /\ Behind(q, dcaNow - IntervalTime, dcaSlips') /\ Behind(q, dcaNow - IntervalTime, 1 + dcaSlips')
        <4> HIDE DEF row, known
        <4> QED BY <1>3, <1>5, <1>10, <2>2, <2>3, <2>4, SlipsWeaken
      \* Refused.
      <3>2. CASE UNCHANGED dcaOrders /\ dcaTick'.last = dcaTick.last
        BY <1>3, <3>1, <3>2
      \* Accepted: noted...
      <3>3. CASE Ordered(c) /\ dcaTick'.last = Noted(c) /\ dcaSlips' = dcaSlips
        <4>1. dcaOrders'[c] = Append(q, dcaNow)
          BY <1>3, <3>3 DEF Ordered
        <4>2. KnownTo(c, dcaTick'.last, dcaNow) = dcaNow
          BY <1>3, <2>1, <3>3, NotedTimes DEF DcaInv
        <4>3. ASSUME NEW t \in Int, Behind(q, t, dcaSlips) PROVE Behind(dcaOrders'[c], t, 1 + dcaSlips)
          BY <1>3, <4>1, <4>3, OneMore
        <4>4. Apart(dcaOrders'[c], 1 + dcaSlips) /\ Behind(dcaOrders'[c], dcaNow, dcaSlips)
          BY <1>3, <2>3, <2>4, <4>1, OneMore
        <4>5. row(c) \in Int
          BY <1>3, <2>2
        <4> HIDE DEF row, known
        <4> QED BY <2>4, <2>8, <3>3, <4>2, <4>3, <4>4, <4>5
      \* ...or with its answer lost.
      <3>4. CASE Ordered(c) /\ dcaTick'.last = dcaTick.last /\ dcaSlips' = dcaSlips + 1
        <4>1. dcaOrders'[c] = Append(q, dcaNow)
          BY <1>3, <3>4 DEF Ordered
        <4>2. /\ dcaSlips' = 1 + dcaSlips /\ 1 + dcaSlips \in Nat /\ row(c) \in Int /\ known(c) \in Int
              /\ KnownTo(c, dcaTick'.last, dcaNow) = known(c)
          BY <1>3, <2>2, <3>4
        <4>3. ASSUME NEW t \in Int, NEW k \in Nat, Behind(q, t, k) PROVE Behind(dcaOrders'[c], t, 1 + k)
          BY <1>3, <4>1, <4>3, OneMore
        <4>4. Behind(q, dcaNow - IntervalTime, 1 + dcaSlips) /\ Apart(q, 1 + (1 + dcaSlips))
          BY <3>1, <4>2
        <4>5. Apart(dcaOrders'[c], 1 + (1 + dcaSlips))
          BY <1>3, <4>1, <4>2, <4>4, OneMore
        <4> HIDE DEF row, known
        <4> QED BY <2>3, <2>4, <3>1, <3>4, <1>3, <4>2, <4>3, <4>4, <4>5
      <3> QED BY <1>2, <3>2, <3>3, <3>4 DEF Slip, Buying
    <2>7. ASSUME NEW d \in Coins
          PROVE  /\ Apart(dcaOrders'[d], 1 + dcaSlips')
                 /\ Behind(dcaOrders'[d], dcaNow - IntervalTime, 1 + dcaSlips')
                 /\ Behind(dcaOrders'[d], row(d), 1 + dcaSlips')
                 /\ Behind(dcaOrders'[d], KnownTo(d, dcaTick'.last, dcaNow), dcaSlips')
                 /\ d \in dcaTick'.plan => /\ IntervalOver(d, dcaTick.last)'
                                           /\ AsRead(d, dcaTick'.last, Times(dcaRow))
      BY <1>4, <1>6, <2>5, <2>6
    <2> QED BY <1>1, <1>4, <1>10, <2>1, <2>7 DEF DcaKnown
  <1> QED BY <1>1, <1>9, <1>10 DEF DcaInv

\* Every step of dollar-cost averaging keeps what its times know.
LEMMA StepDca == DcaInv /\ [DcaNext]_dcaVars => DcaInv'
  <1> SUFFICES ASSUME DcaInv, [DcaNext]_dcaVars PROVE DcaInv'
    OBVIOUS
  <1>1. CASE DcaIdle \/ DcaFinish
    <2>1. /\ dcaTick.pc \in {"plan", "buy"} /\ DcaSave /\ dcaSlips' \in {dcaSlips, dcaSlips + 1}
      BY <1>1 DEF DcaIdle, DcaFinish, Slip
    <2> QED BY <2>1, StepSave
  <1>2. CASE UNCHANGED dcaVars
    BY <1>2 DEF dcaVars, DcaInv, DcaTypes, DcaKnown, IntervalOver
  <1> QED
    BY <1>1, <1>2, StepStart, StepPlan, StepBuy, StepWait, StepCrash DEF DcaNext

\* Where every save reaches the row, of any 2 + slips orders of a coin in a row the last
\* comes an interval after the first (crypto-dca.ts:49).  It says nothing of a daemon that
\* flushes every 30 s.
LEMMA PacedUpToSlips == DcaSpec => []PacedWhenFlushed
  <1>1. DcaInit => DcaInv
    <2> SUFFICES ASSUME DcaInit PROVE DcaInv
      OBVIOUS
    <2>1. /\ dcaNow = 0 /\ dcaSlips = 0 /\ dcaFlushed = -1 /\ dcaRow = Store!Nothing /\ dcaLive = Store!Nothing
          /\ dcaTick = [pc |-> "idle", poll |-> -1, last |-> NoTimes, plan |-> {}]
          /\ dcaOrders = [c \in Coins |-> <<>>]
      BY DEF DcaInit, NoDcaTick
    <2>2. \A c \in Coins : dcaOrders[c] = <<>> /\ Len(dcaOrders[c]) = 0 /\ dcaOrders[c] \in Seq(Nat)
      BY <2>1
    <2>3. DcaTypes
      BY <2>1, <2>2 DEF DcaTypes, Past
    <2>4. ASSUME NEW c \in Coins, NEW t, NEW k \in Nat PROVE Behind(dcaOrders[c], t, k) /\ Apart(dcaOrders[c], k)
      BY <2>2 DEF Behind, Apart
    <2>5. DcaKnown
      BY <2>1, <2>4, NothingKnown DEF DcaKnown
    <2> QED BY <2>3, <2>5 DEF DcaInv
  <1>2. DcaInv => PacedWhenFlushed
    BY DEF DcaInv, DcaKnown, PacedWhenFlushed
  <1> QED BY <1>1, <1>2, StepDca, PTL DEF DcaSpec

-----------------------------------------------------------------------------
(* Cross-exchange arbitrage: what was paid for seeds is in the seed state, or forgotten;  *)
(* until the state is loaded, it is in the row the tick was given, or not in the row.     *)

UsdByKey == [SeedKeys -> Nat]

EntryShape(e) == e = [at |-> e.at, total |-> e.total, pausedUntil |-> e.pausedUntil]
Entry(e) == EntryShape(e) /\ e.total \in 0..SeedPerPair /\ e.at \in Nat
SeedShape(z) == z = [entries |-> z.entries, total |-> z.total]
SeedState(z) ==
    /\ SeedShape(z)
    /\ DOMAIN z.entries \subseteq SeedKeys
    /\ \A k \in DOMAIN z.entries : Entry(z.entries[k])
    /\ z.total \in 0..SeedGlobal

Known(z, k) == IF k \in DOMAIN z.entries THEN z.entries[k].total ELSE 0

\* What was paid, by key and in all, is known to the state or among u.
Covers(paid, z, u) ==
    /\ \A k \in SeedKeys : paid[k] <= Known(z, k) + u[k]
    /\ SumOf(paid, SeedKeys) <= z.total + SumOf(u, SeedKeys)

SeedsOf(payload) == Payload!Field(payload, "seeds", emptySeedState)
LiquidatedOf(payload) == Payload!Field(payload, "liquidated", emptyLiquidatorState)
PayloadOK(payload) ==
    /\ SeedState(SeedsOf(payload))
    /\ \A x \in DOMAIN LiquidatedOf(payload) : LiquidatedOf(payload)[x] \in Nat

Unsaved == [k \in SeedKeys |-> forgotten[k] + recent[k]]

\* The budgets, of any such history.
WithinBudgets(paid, u) ==
    /\ \A k \in SeedKeys : paid[k] <= SeedPerPair + u[k]
    /\ SumOf(paid, SeedKeys) <= SeedGlobal + SumOf(u, SeedKeys)

\* The constants.
LEMMA ArbNumbers ==
    /\ SeedPerPair \in Nat /\ SeedGlobal \in Nat /\ SeedMin \in Nat /\ SeedMin > 0
    /\ LiquidateMin \in Nat /\ LiquidateMin > 0 /\ LiquidateSlice \in Nat /\ WantUsd \in Nat /\ MaxPosition \in Nat
    /\ SeedCooldown \in Nat /\ LiquidateCooldown \in Nat /\ FetchTime \in Nat
    /\ FetchTime < SeedCooldown /\ FetchTime < LiquidateCooldown
    /\ RateLimitWait \in Nat /\ LockoutWait \in Nat /\ MaxLockoutWait \in Nat
  BY ArbConstants

\* The keys a seed may have are finitely many.
LEMMA KeysAreFinite == IsFiniteSet(SeedKeys)
  BY ArbConstants, FS_Product DEF SeedKeys

\* The least of three.
LEMMA LeastOf ==
    ASSUME NEW x \in Int, NEW y \in Int, NEW z \in Int
    PROVE  /\ Min({x, y, z}) \in {x, y, z} /\ Min({x, y, z}) \in Int
           /\ Min({x, y, z}) <= x /\ Min({x, y, z}) <= y /\ Min({x, y, z}) <= z
  <1> DEFINE S == {x, y, z}
  <1>1. \E m \in S : \A n \in S : m <= n
    <2>1. CASE x <= y /\ x <= z
      BY <2>1
    <2>2. CASE y <= x /\ y <= z
      BY <2>2
    <2>3. CASE z <= x /\ z <= y
      BY <2>3
    <2> QED BY <2>1, <2>2, <2>3
  <1> HIDE DEF S
  <1>2. Min(S) \in S /\ \A n \in S : Min(S) <= n
    BY <1>1 DEF Min
  <1> QED BY <1>2 DEF S

-----------------------------------------------------------------------------
\* More may be left uncovered.
LEMMA CoversMore ==
    ASSUME NEW paid \in UsdByKey, NEW z, z.total \in Nat, NEW u \in UsdByKey, NEW w \in UsdByKey,
           \A k \in SeedKeys : Known(z, k) \in Nat, \A k \in SeedKeys : u[k] <= w[k]
    PROVE  /\ Covers(paid, z, u) => Covers(paid, z, w)
           /\ WithinBudgets(paid, u) => WithinBudgets(paid, w)
  <1> DEFINE d == [k \in SeedKeys |-> w[k] - u[k]]
  <1>1. d \in [SeedKeys -> Nat]
    BY DEF UsdByKey
  <1>2. u \in [SeedKeys -> Int] /\ w \in [SeedKeys -> Int] /\ d \in [SeedKeys -> Int] /\ paid \in [SeedKeys -> Int]
    BY <1>1 DEF UsdByKey
  <1>3. \A k \in SeedKeys : w[k] = u[k] + d[k]
    BY DEF UsdByKey
  <1> HIDE DEF d
  <1>4. /\ SumOf(u, SeedKeys) \in Int /\ SumOf(d, SeedKeys) \in Nat
        /\ SumOf(w, SeedKeys) = SumOf(u, SeedKeys) + SumOf(d, SeedKeys)
    BY <1>1, <1>2, <1>3, KeysAreFinite, SumAdds, SumIsNat
  <1>5. SumOf(paid, SeedKeys) \in Nat
    BY KeysAreFinite, SumIsNat DEF UsdByKey
  <1>6. ASSUME NEW k \in SeedKeys PROVE paid[k] \in Nat /\ u[k] \in Nat /\ w[k] \in Nat
    BY DEF UsdByKey
  <1>7. ASSUME Covers(paid, z, u) PROVE Covers(paid, z, w)
    BY <1>4, <1>5, <1>6, <1>7 DEF Covers
  <1>8. ASSUME WithinBudgets(paid, u) PROVE WithinBudgets(paid, w)
    BY <1>4, <1>5, <1>6, <1>8, ArbNumbers DEF WithinBudgets
  <1> QED BY <1>7, <1>8

\* A seed that is recorded as what it cost, or more.
LEMMA CoversRecorded ==
    ASSUME NEW paid \in UsdByKey, NEW z, NEW after, NEW u \in UsdByKey, NEW k \in SeedKeys,
           z.total \in Nat, \A j \in SeedKeys : Known(z, j) \in Nat,
           NEW cost \in Nat, NEW told \in Nat, cost <= told,
           after.total = z.total + told, Known(after, k) = Known(z, k) + told,
           \A j \in SeedKeys \ {k} : Known(after, j) = Known(z, j),
           Covers(paid, z, u)
    PROVE  Covers([paid EXCEPT ![k] = @ + cost], after, u)
  <1> DEFINE more == [paid EXCEPT ![k] = @ + cost]
  <1>1. /\ more \in [SeedKeys -> Int] /\ paid \in [SeedKeys -> Int] /\ u \in [SeedKeys -> Int]
        /\ more[k] = paid[k] + cost /\ \A j \in SeedKeys \ {k} : more[j] = paid[j]
    BY DEF UsdByKey
  <1> HIDE DEF more
  <1>2. SumOf(paid, SeedKeys) \in Int /\ SumOf(more, SeedKeys) = SumOf(paid, SeedKeys) + cost
    BY <1>1, KeysAreFinite, SumMoves
  <1>3. SumOf(u, SeedKeys) \in Nat
    BY KeysAreFinite, SumIsNat DEF UsdByKey
  <1>4. ASSUME NEW j \in SeedKeys PROVE more[j] <= Known(after, j) + u[j]
    <2>1. paid[j] \in Nat /\ u[j] \in Nat /\ paid[j] <= Known(z, j) + u[j] /\ Known(z, j) \in Nat
      BY DEF Covers, UsdByKey
    <2>2. CASE j = k
      BY <1>1, <2>1, <2>2
    <2>3. CASE j # k
      BY <1>1, <2>1, <2>3
    <2> QED BY <2>2, <2>3
  <1>5. SumOf(more, SeedKeys) <= after.total + SumOf(u, SeedKeys)
    BY <1>2, <1>3 DEF Covers
  <1> QED BY <1>4, <1>5 DEF Covers, more

\* A seed that is not, and so is left uncovered.
LEMMA CoversLost ==
    ASSUME NEW paid \in UsdByKey, NEW z, NEW u \in UsdByKey, NEW w \in UsdByKey, NEW k \in SeedKeys,
           z.total \in Nat, \A j \in SeedKeys : Known(z, j) \in Nat, NEW cost \in Nat,
           w[k] = u[k] + cost, \A j \in SeedKeys \ {k} : w[j] = u[j],
           Covers(paid, z, u)
    PROVE  Covers([paid EXCEPT ![k] = @ + cost], z, w)
  <1> DEFINE more == [paid EXCEPT ![k] = @ + cost]
  <1>1. /\ more \in [SeedKeys -> Int] /\ paid \in [SeedKeys -> Int] /\ u \in [SeedKeys -> Int] /\ w \in [SeedKeys -> Int]
        /\ more[k] = paid[k] + cost /\ \A j \in SeedKeys \ {k} : more[j] = paid[j]
    BY DEF UsdByKey
  <1> HIDE DEF more
  <1>2. /\ SumOf(paid, SeedKeys) \in Int /\ SumOf(more, SeedKeys) = SumOf(paid, SeedKeys) + cost
        /\ SumOf(u, SeedKeys) \in Int /\ SumOf(w, SeedKeys) = SumOf(u, SeedKeys) + cost
    BY <1>1, KeysAreFinite, SumMoves
  <1>4. ASSUME NEW j \in SeedKeys PROVE more[j] <= Known(z, j) + w[j]
    <2>1. paid[j] \in Nat /\ u[j] \in Nat /\ paid[j] <= Known(z, j) + u[j] /\ Known(z, j) \in Nat
      BY DEF Covers, UsdByKey
    <2>2. CASE j = k
      BY <1>1, <2>1, <2>2
    <2>3. CASE j # k
      BY <1>1, <2>1, <2>3
    <2> QED BY <2>2, <2>3
  <1>5. SumOf(more, SeedKeys) <= z.total + SumOf(w, SeedKeys)
    BY <1>2 DEF Covers
  <1> QED BY <1>4, <1>5 DEF Covers, more

\* All of it may be left uncovered.
LEMMA CoversNone ==
    ASSUME NEW paid \in UsdByKey, NEW z, z.total \in Nat, \A k \in SeedKeys : Known(z, k) \in Nat
    PROVE  Covers(paid, z, paid)
  <1>1. SumOf(paid, SeedKeys) \in Nat
    BY KeysAreFinite, SumIsNat DEF UsdByKey
  <1>2. \A k \in SeedKeys : paid[k] \in Nat
    BY DEF UsdByKey
  <1> QED BY <1>1, <1>2 DEF Covers

\* A state knows of no more than its budgets.
LEMMA CoveredIsWithin ==
    ASSUME NEW paid \in UsdByKey, NEW z, SeedState(z), NEW u \in UsdByKey
    PROVE  /\ z.total \in Nat /\ \A k \in SeedKeys : Known(z, k) \in Nat
           /\ Covers(paid, z, u) => WithinBudgets(paid, u)
  <1>1. z.total \in Nat /\ z.total <= SeedGlobal /\ \A k \in SeedKeys : Known(z, k) \in Nat /\ Known(z, k) <= SeedPerPair
    BY ArbNumbers DEF SeedState, Entry, Known
  <1>2. SumOf(paid, SeedKeys) \in Nat /\ SumOf(u, SeedKeys) \in Nat
    BY KeysAreFinite, SumIsNat DEF UsdByKey
  <1>3. \A k \in SeedKeys : paid[k] \in Nat /\ u[k] \in Nat
    BY DEF UsdByKey
  <1>4. ASSUME Covers(paid, z, u) PROVE WithinBudgets(paid, u)
    <2>1. SumOf(paid, SeedKeys) <= SeedGlobal + SumOf(u, SeedKeys)
      BY <1>1, <1>2, <1>4, ArbNumbers DEF Covers
    <2>2. ASSUME NEW k \in SeedKeys PROVE paid[k] <= SeedPerPair + u[k]
      BY <1>1, <1>3, <1>4, ArbNumbers DEF Covers
    <2> QED BY <2>1, <2>2 DEF WithinBudgets
  <1> QED BY <1>1, <1>4

-----------------------------------------------------------------------------
TickOK(t) ==
    /\ t = [pc |-> t.pc, left |-> t.left, sold |-> t.sold, raised |-> t.raised, payload |-> t.payload]
    /\ t.pc \in {"idle", "due", "act", "seed"} /\ t.raised \in [Exchanges -> Nat]
    /\ t.pc = "act" => PayloadOK(t.payload)

\* What is known of the money and of the times.
ArbTypes ==
    /\ arbNow \in Nat /\ fetched \in Int /\ lockoutWait \in Nat
    /\ account \in [Exchanges -> Funds] /\ seen \in [Exchanges -> Funds]
    /\ spent \in UsdByKey /\ recent \in UsdByKey /\ forgotten \in UsdByKey
    /\ \A k \in SeedKeys : forgotten[k] + recent[k] <= spent[k]
    /\ TickOK(arbTick)
    /\ PayloadOK(arbRow) /\ PayloadOK(arbLive)
    /\ SeedState(seeds) /\ \A x \in DOMAIN liquidated : liquidated[x] \in Nat

\* Where the process, the row, the entry and the payload of the tick leave what was paid.
SeedsKnown ==
    /\ loaded => Covers(spent, seeds, forgotten)
    /\ Covers(spent, SeedsOf(arbRow), Unsaved)
    /\ "seeds" \in DOMAIN arbLive =>
          Covers(spent, SeedsOf(arbLive), IF arbTick.pc = "seed" THEN Unsaved ELSE forgotten)
    /\ ~loaded => /\ arbTick.pc # "seed"
                  /\ arbTick.pc = "act" => Covers(spent, SeedsOf(arbTick.payload), forgotten)
                  /\ arbTick.pc \in {"idle", "due"} => \A k \in SeedKeys : recent[k] = 0
    /\ WithinBudgets(spent, forgotten)

\* A seed or a liquidation on this reading is remembered, and its tick began before the
\* reading was old.
ReadingTypes ==
    /\ onReading = [seeds |-> onReading.seeds, sales |-> onReading.sales, readAt |-> onReading.readAt]
    /\ onReading.seeds \in [SeedKeys -> Nat] /\ onReading.sales \in [Exchanges -> Nat]
    /\ onReading.readAt \in Nat /\ onReading.readAt <= arbNow
Remembered ==
    /\ ReadingTypes
    /\ ~loaded => /\ \A k \in SeedKeys : onReading.seeds[k] = 0
                  /\ \A x \in Exchanges : onReading.sales[x] = 0
    /\ \A k \in SeedKeys : onReading.seeds[k] > 0 /\ forgotten[k] = 0 =>
          k \in DOMAIN seeds.entries /\ seeds.entries[k].at >= onReading.readAt
    /\ \A x \in Exchanges : onReading.sales[x] > 0 =>
          x \in DOMAIN liquidated /\ liquidated[x] >= onReading.readAt
    /\ arbTick.pc \in {"act", "seed"} => arbNow - fetched <= FetchTime
    /\ OncePerReading

Hedged == arbBook = [unhedged |-> arbBook.unhedged, blind |-> arbBook.blind] /\ arbBook.unhedged \in Nat
          /\ arbBook.blind \in BOOLEAN /\ FreshArbsHedged

ArbInv == ArbTypes /\ SeedsKnown /\ Remembered /\ Hedged

\* The state that no payload has.
LEMMA EmptySeeds ==
    /\ SeedState(emptySeedState) /\ DOMAIN emptySeedState.entries = {} /\ emptySeedState.total = 0
    /\ \A k \in SeedKeys : Known(emptySeedState, k) = 0
    /\ DOMAIN emptyLiquidatorState = {}
  BY ArbNumbers DEF emptySeedState, SeedState, SeedShape, Known, emptyLiquidatorState

\* What merging a patch makes of the payload's fields.
LEMMA MergedSeeds ==
    ASSUME NEW onto, NEW z, NEW y
    PROVE  /\ SeedsOf(Payload!Merge(Payload!Nothing, onto)) = SeedsOf(onto)
           /\ LiquidatedOf(Payload!Merge(Payload!Nothing, onto)) = LiquidatedOf(onto)
           /\ DOMAIN Payload!Merge(Payload!Nothing, onto) = DOMAIN onto
           /\ SeedsOf(Payload!Merge([seeds |-> z, liquidated |-> y], onto)) = z
           /\ LiquidatedOf(Payload!Merge([seeds |-> z, liquidated |-> y], onto)) = y
           /\ "seeds" \in DOMAIN Payload!Merge([seeds |-> z, liquidated |-> y], onto)
  <1>1. DOMAIN Payload!Nothing = {}
    BY DEF Payload!Nothing
  <1> DEFINE patch == [seeds |-> z, liquidated |-> y]
  <1>2. DOMAIN patch = {"seeds", "liquidated"} /\ patch["seeds"] = z /\ patch["liquidated"] = y
    OBVIOUS
  <1> HIDE DEF patch
  <1>3. ASSUME NEW p
        PROVE  /\ DOMAIN Payload!Merge(p, onto) = DOMAIN p \cup DOMAIN onto
               /\ \A name : name \in DOMAIN p => Payload!Merge(p, onto)[name] = p[name]
               /\ \A name : name \in DOMAIN onto \ DOMAIN p => Payload!Merge(p, onto)[name] = onto[name]
    BY DEF Payload!Merge
  <1>4. /\ SeedsOf(Payload!Merge(Payload!Nothing, onto)) = SeedsOf(onto)
        /\ LiquidatedOf(Payload!Merge(Payload!Nothing, onto)) = LiquidatedOf(onto)
        /\ DOMAIN Payload!Merge(Payload!Nothing, onto) = DOMAIN onto
    BY <1>1, <1>3 DEF SeedsOf, LiquidatedOf, Payload!Field
  <1>5. /\ SeedsOf(Payload!Merge(patch, onto)) = z
        /\ LiquidatedOf(Payload!Merge(patch, onto)) = y
        /\ "seeds" \in DOMAIN Payload!Merge(patch, onto)
    BY <1>2, <1>3 DEF SeedsOf, LiquidatedOf, Payload!Field
  <1> QED BY <1>4, <1>5 DEF patch

\* An empty payload has no seeds and no liquidations.
LEMMA NoPayload ==
    /\ SeedsOf(Payload!Nothing) = emptySeedState /\ LiquidatedOf(Payload!Nothing) = emptyLiquidatorState
    /\ PayloadOK(Payload!Nothing)
  <1>1. DOMAIN Payload!Nothing = {}
    BY DEF Payload!Nothing
  <1>2. SeedsOf(Payload!Nothing) = emptySeedState /\ LiquidatedOf(Payload!Nothing) = emptyLiquidatorState
    BY <1>1 DEF SeedsOf, LiquidatedOf, Payload!Field
  <1> QED BY <1>2, EmptySeeds DEF PayloadOK

\* What is known of the history of seeds.
LEMMA UnsavedIs ==
    ASSUME ArbTypes
    PROVE  /\ Unsaved \in UsdByKey
           /\ \A k \in SeedKeys : /\ forgotten[k] \in Nat /\ recent[k] \in Nat /\ spent[k] \in Nat
                                  /\ Unsaved[k] = forgotten[k] + recent[k]
  BY DEF ArbTypes, UsdByKey, Unsaved

\* What a payload says is spent is a number.
LEMMA PayloadKnows ==
    ASSUME NEW payload, PayloadOK(payload)
    PROVE  /\ SeedsOf(payload).total \in Nat
           /\ \A k \in SeedKeys : Known(SeedsOf(payload), k) \in Nat
  BY ArbNumbers DEF PayloadOK, SeedState, Entry, Known

\* A step that leaves the seeds and their history alone.
LEMMA SeedsStay ==
    ASSUME ArbTypes, SeedsKnown, UNCHANGED <<seeds, loaded, arbRow, arbLive, spent, recent, forgotten>>,
           \/ UNCHANGED <<arbTick>>
           \/ arbTick.pc = "idle" /\ arbTick'.pc = "due"
           \/ arbTick.pc = "act" /\ arbTick'.pc = "act" /\ arbTick'.payload = arbTick.payload
           \/ arbTick.pc = "seed" /\ arbTick'.pc = "seed"
    PROVE  SeedsKnown'
  <1>1. Unsaved' = Unsaved
    BY DEF Unsaved
  <1> QED BY <1>1 DEF SeedsKnown

\* A step that leaves what was ordered on the last reading alone.
LEMMA ReadingStays ==
    ASSUME Remembered, UNCHANGED <<seeds, liquidated, loaded, onReading, fetched>>, arbNow \in Nat, arbNow' \in Nat,
           \A k \in SeedKeys : forgotten[k] > 0 => forgotten'[k] > 0,
           \A k \in SeedKeys : forgotten[k] \in Nat /\ forgotten'[k] \in Nat,
           arbNow' >= arbNow,
           arbTick'.pc \in {"act", "seed"} => arbTick.pc \in {"act", "seed"} /\ arbNow' = arbNow
    PROVE  Remembered'
  <1>1. onReading.readAt \in Nat
    BY DEF Remembered, ReadingTypes
  <1>2. ASSUME NEW cooldown \in Nat, Outlived(cooldown) PROVE Outlived(cooldown)'
    BY <1>1, <1>2 DEF Outlived
  <1>3. OncePerReading'
    BY <1>2, ArbNumbers DEF Remembered, OncePerReading
  <1>4. ReadingTypes'
    BY <1>1 DEF Remembered, ReadingTypes
  <1>5. ASSUME NEW k \in SeedKeys, onReading'.seeds[k] > 0, forgotten'[k] = 0 PROVE forgotten[k] = 0
    BY <1>5
  <1> QED BY <1>3, <1>4, <1>5 DEF Remembered

-----------------------------------------------------------------------------
\* The arbitrage worker starts within its budgets.
LEMMA ArbStarts == ArbInit => ArbInv
  <1> SUFFICES ASSUME ArbInit PROVE ArbInv
    OBVIOUS
  <1> USE DEF ArbInit
  <1>1. ZeroUsd \in UsdByKey /\ \A k \in SeedKeys : ZeroUsd[k] = 0
    BY DEF ZeroUsd, UsdByKey
  <1>2. NoneSeen \in [Exchanges -> Funds]
    BY DEF NoneSeen, NoFunds, Funds
  <1>3. TickOK(arbTick) /\ arbTick.pc = "idle"
    BY DEF TickOK, Idle
  <1>4. ArbTypes
    <2>1. account \in [Exchanges -> Funds]
      BY ArbConstants DEF Funds
    <2> QED BY <1>1, <1>2, <1>3, <2>1, NoPayload, EmptySeeds, ArbNumbers DEF ArbTypes
  <1>5. SeedsKnown
    <2>1. SumOf(ZeroUsd, SeedKeys) \in Nat
      BY <1>1, KeysAreFinite, SumIsNat DEF UsdByKey
    <2>2. Covers(spent, emptySeedState, forgotten)
      BY <1>1, <2>1, EmptySeeds DEF Covers
    <2>3. Covers(spent, emptySeedState, Unsaved)
      BY <1>1, <1>4, <2>2, EmptySeeds, CoversMore, UnsavedIs
    <2>4. WithinBudgets(spent, forgotten)
      BY <1>1, <2>2, EmptySeeds, CoveredIsWithin
    <2>5. ~("seeds" \in DOMAIN arbLive)
      BY DEF Payload!Nothing
    <2> QED BY <1>1, <1>3, <2>3, <2>4, <2>5, NoPayload DEF SeedsKnown
  <1>6. Remembered
    <2>1. /\ NoOrders.seeds = ZeroUsd /\ NoOrders.sales = [x \in Exchanges |-> 0] /\ NoOrders.readAt = 0
          /\ NoOrders = [seeds |-> NoOrders.seeds, sales |-> NoOrders.sales, readAt |-> NoOrders.readAt]
      BY DEF NoOrders
    <2> QED BY <1>1, <1>3, <2>1 DEF Remembered, ReadingTypes, OncePerReading, UsdByKey
  <1>7. Hedged
    BY DEF Hedged, FreshArbsHedged
  <1> QED BY <1>4, <1>5, <1>6, <1>7 DEF ArbInv

\* The next poll.
LEMMA PollStep == ArbInv /\ NextPoll => ArbInv'
  <1> SUFFICES ASSUME ArbInv, NextPoll PROVE ArbInv'
    OBVIOUS
  <1> USE DEF ArbInv, NextPoll
  <1>1. /\ arbTick'.pc = "due" /\ arbTick'.left = arbTick.left /\ arbTick'.sold = arbTick.sold
        /\ arbTick'.raised = arbTick.raised /\ TickOK(arbTick')
    BY DEF ArbTypes, TickOK
  <1>2. ArbTypes'
    BY <1>1 DEF ArbTypes
  <1>3. SeedsKnown'
    BY <1>1, SeedsStay
  <1>4. Remembered'
    BY <1>1, ReadingStays, UnsavedIs DEF ArbTypes
  <1>5. Hedged'
    BY DEF Hedged, FreshArbsHedged
  <1> QED BY <1>2, <1>3, <1>4, <1>5

\* A tick begins, and its status is saved.
LEMMA BeginStep == ArbInv /\ ArbBegin => ArbInv'
  <1> SUFFICES ASSUME ArbInv, ArbBegin PROVE ArbInv'
    OBVIOUS
  <1> USE DEF ArbInv
  <1> DEFINE merged == Payload!Merge(Payload!Nothing, arbLive)
  <1>1. /\ arbTick.pc = "due"
        /\ arbTick'.pc = "act" /\ arbTick'.payload = arbRow /\ arbTick' = [Idle EXCEPT !.pc = "act", !.left = ArbPairs, !.payload = arbRow]
        /\ arbLive' = merged /\ arbRow' = IF ArbFlushes THEN merged ELSE arbRow
        /\ recent' = CASE ~ArbFlushes -> recent
                       [] ArbFlushes /\ "seeds" \in DOMAIN arbLive' -> ZeroUsd
                       [] OTHER -> [k \in SeedKeys |-> spent[k] - forgotten[k]]
        /\ UNCHANGED <<tradingEnabled, arbNow, account, seeds, liquidated, loaded, spent, forgotten, arbBook>>
    BY DEF ArbBegin, Idle, Durable, Payload!SaveStatus, Payload!SavePayload, Payload!Merged
  <1>2. /\ SeedsOf(merged) = SeedsOf(arbLive) /\ LiquidatedOf(merged) = LiquidatedOf(arbLive)
        /\ DOMAIN merged = DOMAIN arbLive /\ PayloadOK(merged)
    <2>1. /\ SeedsOf(merged) = SeedsOf(arbLive) /\ LiquidatedOf(merged) = LiquidatedOf(arbLive)
          /\ DOMAIN merged = DOMAIN arbLive
      BY MergedSeeds
    <2> QED BY <2>1 DEF PayloadOK, ArbTypes
  <1> HIDE DEF merged
  <1>3. TickOK(arbTick')
    <2>1. PayloadOK(arbRow)
      BY DEF ArbTypes
    <2>2. arbTick' = [pc |-> "act", left |-> ArbPairs, sold |-> {}, raised |-> [x \in Exchanges |-> 0],
                      payload |-> arbRow]
      BY <1>1 DEF Idle
    <2> QED BY <2>1, <2>2 DEF TickOK
  <1>4. recent' \in UsdByKey /\ \A k \in SeedKeys : forgotten[k] + recent'[k] <= spent[k]
    <2>1. \A k \in SeedKeys : forgotten[k] + recent[k] <= spent[k]
      BY DEF ArbTypes
    <2>2. CASE ~ArbFlushes
      BY <1>1, <2>1, <2>2 DEF ArbTypes
    <2>3. CASE ArbFlushes /\ "seeds" \in DOMAIN arbLive'
      <3>1. recent' = ZeroUsd
        BY <1>1, <2>3
      <3> QED BY <2>1, <3>1, UnsavedIs DEF ZeroUsd, UsdByKey
    <2>4. CASE ArbFlushes /\ ~("seeds" \in DOMAIN arbLive')
      <3>1. recent' = [k \in SeedKeys |-> spent[k] - forgotten[k]]
        BY <1>1, <2>4
      <3> QED BY <2>1, <3>1, UnsavedIs DEF UsdByKey
    <2> QED BY <2>2, <2>3, <2>4
  <1>5. /\ fetched' \in Int /\ lockoutWait' \in Nat /\ seen' \in [Exchanges -> Funds]
        /\ arbNow - fetched' <= FetchTime
        /\ \/ onReading' = [NoOrders EXCEPT !.readAt = arbNow]
           \/ onReading' = onReading /\ fetched' = fetched
    <2>1. /\ arbNow \in Nat /\ fetched \in Int /\ lockoutWait \in Nat
          /\ seen \in [Exchanges -> Funds] /\ account \in [Exchanges -> Funds]
      BY DEF ArbTypes
    <2>2. CASE FetchDue
      <3>1. PICK failed \in SUBSET Exchanges : \E wait \in Waits(failed) : ReadBalances(failed, wait)
        BY <2>2 DEF ArbBegin
      <3>2. PICK wait \in Waits(failed) : ReadBalances(failed, wait)
        BY <3>1
      <3>3. wait[1] \in Nat /\ wait[2] \in Nat
        <4> DEFINE bound == Min({2 * lockoutWait, MaxLockoutWait, MaxLockoutWait})
        <4>1. bound \in Nat
          <5>1. ASSUME NEW x \in Nat PROVE Min({x, MaxLockoutWait, MaxLockoutWait}) \in Nat
            <6>1. x \in Int /\ MaxLockoutWait \in Int /\ MaxLockoutWait \in Nat
              BY ArbNumbers
            <6> QED BY <6>1, LeastOf
          <5>2. 2 * lockoutWait \in Nat
            BY <2>1
          <5> QED BY <5>1, <5>2
        <4>2. {2 * lockoutWait, MaxLockoutWait, MaxLockoutWait} = {2 * lockoutWait, MaxLockoutWait}
          OBVIOUS
        <4>3. bound = Min({2 * lockoutWait, MaxLockoutWait})
          BY <4>2
        <4> HIDE DEF bound
        <4>4. wait \in {<<0, lockoutWait>>, <<RateLimitWait, lockoutWait>>, <<lockoutWait, bound>>, <<0, LockoutWait>>}
          BY <3>2, <4>3 DEF Waits
        <4> QED BY <2>1, <4>1, <4>4, ArbNumbers
      <3>4. /\ fetched' = arbNow + wait[1] /\ lockoutWait' = wait[2]
            /\ onReading' = [NoOrders EXCEPT !.readAt = arbNow]
            /\ seen' = [x \in Exchanges |-> IF x \in failed THEN NoFunds ELSE account[x]]
        BY <3>2 DEF ReadBalances
      <3>5. seen' \in [Exchanges -> Funds]
        BY <2>1, <3>4 DEF NoFunds, Funds
      <3> QED BY <2>1, <3>3, <3>4, <3>5, ArbNumbers
    <2>3. CASE ~FetchDue
      <3>1. UNCHANGED <<seen, fetched, lockoutWait, onReading>>
        BY <2>3 DEF ArbBegin
      <3>2. arbNow - fetched <= FetchTime
        BY <2>1, <2>3, ArbNumbers DEF FetchDue
      <3> QED BY <2>1, <3>1, <3>2
    <2> QED BY <2>2, <2>3
  <1>6. ArbTypes'
    BY <1>1, <1>2, <1>3, <1>4, <1>5 DEF ArbTypes
  <1>7. SeedsKnown'
    <2>1. /\ forgotten \in UsdByKey /\ spent \in UsdByKey /\ Unsaved' \in UsdByKey
          /\ \A k \in SeedKeys : forgotten[k] \in Nat /\ Unsaved'[k] = forgotten[k] + recent'[k] /\ recent'[k] \in Nat
      BY <1>1, <1>4 DEF ArbTypes, Unsaved, UsdByKey
    <2>2. loaded' => Covers(spent', seeds', forgotten')
      BY <1>1 DEF SeedsKnown
    <2>3. Covers(spent', SeedsOf(arbRow'), Unsaved')
      <3>1. CASE ~ArbFlushes
        <4>1. Unsaved' = Unsaved
          BY <1>1, <3>1 DEF Unsaved
        <4> QED BY <1>1, <3>1, <4>1 DEF SeedsKnown
      <3>2. CASE ArbFlushes /\ "seeds" \in DOMAIN arbLive'
        <4>1. Covers(spent, SeedsOf(arbRow'), forgotten)
          BY <1>1, <1>2, <3>2 DEF SeedsKnown
        <4>2. PayloadOK(arbRow')
          BY <1>1, <1>2, <3>2
        <4> QED BY <1>1, <2>1, <4>1, <4>2, PayloadKnows, CoversMore
      <3>3. CASE ArbFlushes /\ ~("seeds" \in DOMAIN arbLive')
        <4>1. Unsaved' = spent
          <5>1. recent' = [k \in SeedKeys |-> spent[k] - forgotten[k]]
            BY <1>1, <3>3
          <5>2. \A k \in SeedKeys : Unsaved'[k] = spent[k]
            BY <2>1, <5>1, UnsavedIs
          <5> QED BY <2>1, <5>2 DEF UsdByKey
        <4>2. PayloadOK(arbRow')
          BY <1>1, <1>2, <3>3
        <4> QED BY <1>1, <2>1, <4>1, <4>2, PayloadKnows, CoversNone
      <3> QED BY <3>1, <3>2, <3>3
    <2>4. "seeds" \in DOMAIN arbLive' => Covers(spent', SeedsOf(arbLive'), forgotten')
      BY <1>1, <1>2 DEF SeedsKnown
    <2>5. ~loaded => Covers(spent, SeedsOf(arbRow), forgotten)
      <3> SUFFICES ASSUME ~loaded PROVE Covers(spent, SeedsOf(arbRow), forgotten)
        OBVIOUS
      <3>1. \A k \in SeedKeys : Unsaved[k] = forgotten[k]
        BY <1>1, UnsavedIs DEF SeedsKnown
      <3>2. Unsaved = forgotten
        BY <3>1, <2>1, UnsavedIs DEF UsdByKey
      <3> QED BY <3>2 DEF SeedsKnown
    <2>6. WithinBudgets(spent', forgotten')
      BY <1>1 DEF SeedsKnown
    <2> QED BY <1>1, <2>2, <2>3, <2>4, <2>5, <2>6 DEF SeedsKnown
  <1>8. Remembered'
    <2>1. /\ NoOrders.seeds = ZeroUsd /\ NoOrders.sales = [x \in Exchanges |-> 0]
          /\ [NoOrders EXCEPT !.readAt = arbNow] = [seeds |-> ZeroUsd, sales |-> [x \in Exchanges |-> 0], readAt |-> arbNow]
      BY DEF NoOrders
    <2>2. arbNow \in Nat
      BY DEF ArbTypes
    <2>3. CASE onReading' = [NoOrders EXCEPT !.readAt = arbNow]
      <3>1. /\ onReading'.seeds = ZeroUsd /\ onReading'.sales = [x \in Exchanges |-> 0] /\ onReading'.readAt = arbNow
            /\ onReading' = [seeds |-> onReading'.seeds, sales |-> onReading'.sales, readAt |-> onReading'.readAt]
        BY <2>1, <2>3
      <3>2. /\ \A k \in SeedKeys : onReading'.seeds[k] = 0
            /\ \A x \in Exchanges : onReading'.sales[x] = 0
            /\ onReading'.seeds \in [SeedKeys -> Nat] /\ onReading'.sales \in [Exchanges -> Nat]
        BY <3>1 DEF ZeroUsd
      <3> QED BY <1>1, <1>5, <2>2, <3>1, <3>2 DEF Remembered, ReadingTypes, OncePerReading
    <2>4. CASE onReading' = onReading /\ fetched' = fetched
      BY <1>1, <1>5, <2>2, <2>4 DEF Remembered, ReadingTypes, OncePerReading, Outlived
    <2> QED BY <1>5, <2>3, <2>4
  <1>9. Hedged'
    BY <1>1 DEF Hedged, FreshArbsHedged
  <1> QED BY <1>6, <1>7, <1>8, <1>9


\* A failed poll.
LEMMA PollFailsStep == ArbInv /\ ArbPollFails => ArbInv'
  <1> SUFFICES ASSUME ArbInv, ArbPollFails PROVE ArbInv'
    OBVIOUS
  <1> USE DEF ArbInv
  <1>1. /\ arbTick.pc = "act" /\ arbTick' = Idle
        /\ IF loaded THEN UNCHANGED <<recent, forgotten>> ELSE Forgets
        /\ UNCHANGED <<tradingEnabled, arbNow, account, seen, fetched, lockoutWait, seeds, liquidated, loaded, arbRow, arbLive,
                       arbFlushed, spent, onReading, arbBook>>
    BY DEF ArbPollFails
  <1>2. arbTick'.pc = "idle" /\ TickOK(arbTick')
    BY <1>1 DEF Idle, TickOK
  <1>3. /\ recent' \in UsdByKey /\ forgotten' \in UsdByKey
        /\ \A k \in SeedKeys : forgotten'[k] >= forgotten[k] /\ forgotten'[k] + recent'[k] = forgotten[k] + recent[k]
        /\ ~loaded => \A k \in SeedKeys : recent'[k] = 0
    <2>1. CASE loaded
      BY <1>1, <2>1, UnsavedIs DEF ArbTypes
    <2>2. CASE ~loaded
      BY <1>1, <2>2, UnsavedIs DEF ArbTypes, Forgets, ZeroUsd, UsdByKey
    <2> QED BY <2>1, <2>2
  <1>4. Unsaved' = Unsaved
    BY <1>3 DEF Unsaved
  <1>5. ArbTypes'
    BY <1>1, <1>2, <1>3, UnsavedIs DEF ArbTypes
  <1>6. SeedsKnown'
    <2>1. "seeds" \in DOMAIN arbLive => Covers(spent, SeedsOf(arbLive), forgotten')
      <3> SUFFICES ASSUME "seeds" \in DOMAIN arbLive PROVE Covers(spent, SeedsOf(arbLive), forgotten')
        OBVIOUS
      <3>1. Covers(spent, SeedsOf(arbLive), forgotten) /\ PayloadOK(arbLive)
        BY <1>1 DEF SeedsKnown, ArbTypes
      <3> QED BY <1>3, <3>1, PayloadKnows, CoversMore DEF ArbTypes
    <2>2. WithinBudgets(spent, forgotten')
      <3>1. PayloadOK(arbRow) /\ WithinBudgets(spent, forgotten)
        BY DEF ArbTypes, SeedsKnown
      <3> QED BY <1>3, <3>1, PayloadKnows, CoversMore DEF ArbTypes
    <2>3. loaded => Covers(spent, seeds, forgotten')
      BY <1>1 DEF SeedsKnown
    <2> QED BY <1>1, <1>2, <1>3, <1>4, <2>1, <2>2, <2>3 DEF SeedsKnown
  <1>7. Remembered'
    <2>1. arbNow \in Nat
      BY DEF ArbTypes
    <2>2. \A k \in SeedKeys : /\ forgotten[k] \in Nat /\ forgotten'[k] \in Nat
                              /\ forgotten[k] > 0 => forgotten'[k] > 0
      BY <1>3, UnsavedIs DEF UsdByKey
    <2> QED BY <1>1, <1>2, <2>1, <2>2, ReadingStays
  <1>8. Hedged'
    BY <1>1 DEF Hedged, FreshArbsHedged
  <1> QED BY <1>5, <1>6, <1>7, <1>8

\* The process dies.
LEMMA ArbCrashStep == ArbInv /\ ArbCrash => ArbInv'
  <1> SUFFICES ASSUME ArbInv, ArbCrash PROVE ArbInv'
    OBVIOUS
  <1> USE DEF ArbInv
  <1>1. /\ seen' = NoneSeen /\ fetched' = -1 /\ lockoutWait' = LockoutWait
        /\ seeds' = emptySeedState /\ liquidated' = emptyLiquidatorState /\ loaded' = FALSE
        /\ arbTick' = Idle /\ arbLive' \in {arbLive, Payload!Nothing}
        /\ forgotten' = Unsaved /\ recent' = ZeroUsd /\ onReading' = NoOrders
        /\ UNCHANGED <<arbNow, account, arbRow, spent, arbBook>>
    BY DEF ArbCrash, Forgets, Unsaved, Payload!EntryAfterRestart
  <1>2. arbTick'.pc = "idle" /\ TickOK(arbTick')
    BY <1>1 DEF Idle, TickOK
  <1>3. /\ recent' \in UsdByKey /\ forgotten' \in UsdByKey /\ forgotten \in UsdByKey
        /\ \A k \in SeedKeys : /\ recent'[k] = 0 /\ forgotten'[k] >= forgotten[k]
                               /\ forgotten'[k] + recent'[k] = forgotten[k] + recent[k]
    BY <1>1, UnsavedIs DEF ArbTypes, ZeroUsd, UsdByKey
  <1>4. Unsaved' = Unsaved
    BY <1>3 DEF Unsaved
  <1>5. PayloadOK(arbLive')
    BY <1>1, NoPayload DEF ArbTypes
  <1>6. ArbTypes'
    <2>1. NoneSeen \in [Exchanges -> Funds]
      BY DEF NoneSeen, NoFunds, Funds
    <2> QED BY <1>1, <1>2, <1>3, <1>5, <2>1, EmptySeeds, UnsavedIs, ArbNumbers DEF ArbTypes
  <1>7. SeedsKnown'
    <2>1. "seeds" \in DOMAIN arbLive' => Covers(spent, SeedsOf(arbLive'), forgotten')
      <3> SUFFICES ASSUME "seeds" \in DOMAIN arbLive' PROVE Covers(spent, SeedsOf(arbLive'), forgotten')
        OBVIOUS
      <3>1. arbLive' = arbLive
        BY <1>1 DEF Payload!Nothing
      <3>2. Covers(spent, SeedsOf(arbLive), forgotten) \/ Covers(spent, SeedsOf(arbLive), Unsaved)
        BY <3>1 DEF SeedsKnown
      <3> QED BY <1>1, <1>3, <1>5, <3>1, <3>2, PayloadKnows, CoversMore DEF ArbTypes
    <2>2. WithinBudgets(spent, forgotten')
      <3>1. PayloadOK(arbRow) /\ WithinBudgets(spent, forgotten)
        BY DEF ArbTypes, SeedsKnown
      <3> QED BY <1>3, <3>1, PayloadKnows, CoversMore DEF ArbTypes
    <2> QED BY <1>1, <1>2, <1>3, <1>4, <2>1, <2>2 DEF SeedsKnown
  <1>8. Remembered'
    <2>1. /\ NoOrders.seeds = ZeroUsd /\ NoOrders.sales = [x \in Exchanges |-> 0] /\ NoOrders.readAt = 0
          /\ NoOrders = [seeds |-> NoOrders.seeds, sales |-> NoOrders.sales, readAt |-> NoOrders.readAt]
      BY DEF NoOrders
    <2>2. /\ \A k \in SeedKeys : NoOrders.seeds[k] = 0
          /\ \A x \in Exchanges : NoOrders.sales[x] = 0
          /\ NoOrders.seeds \in [SeedKeys -> Nat] /\ NoOrders.sales \in [Exchanges -> Nat]
      BY <2>1 DEF ZeroUsd
    <2>3. arbNow \in Nat
      BY DEF ArbTypes
    <2> QED BY <1>1, <1>2, <2>1, <2>2, <2>3 DEF Remembered, ReadingTypes, OncePerReading
  <1>9. Hedged'
    BY <1>1 DEF Hedged, FreshArbsHedged
  <1> QED BY <1>6, <1>7, <1>8, <1>9

\* A worker's state is saved.
LEMMA SaveStep == ArbInv /\ ArbSave => ArbInv'
  <1> SUFFICES ASSUME ArbInv, ArbSave PROVE ArbInv'
    OBVIOUS
  <1> USE DEF ArbInv
  <1> DEFINE merged == Payload!Merge([seeds |-> seeds, liquidated |-> liquidated], arbLive)
  <1>1. /\ arbTick.pc = "seed" /\ arbTick' = Idle
        /\ arbLive' = merged /\ arbRow' = IF ArbFlushes THEN merged ELSE arbRow
        /\ recent' = CASE ~ArbFlushes -> recent
                       [] ArbFlushes /\ "seeds" \in DOMAIN arbLive' -> ZeroUsd
                       [] OTHER -> [k \in SeedKeys |-> spent[k] - forgotten[k]]
        /\ UNCHANGED <<tradingEnabled, arbNow, account, seen, fetched, lockoutWait, seeds, liquidated, loaded, spent,
                       forgotten, onReading, arbBook>>
    BY DEF ArbSave, Durable, Payload!SavePayload, Payload!Merged
  <1>2. /\ SeedsOf(merged) = seeds /\ LiquidatedOf(merged) = liquidated /\ "seeds" \in DOMAIN merged
    BY MergedSeeds
  <1> HIDE DEF merged
  <1>3. PayloadOK(merged)
    BY <1>2 DEF PayloadOK, ArbTypes
  <1>4. recent' = IF ArbFlushes THEN ZeroUsd ELSE recent
    BY <1>1, <1>2
  <1>5. arbTick'.pc = "idle" /\ TickOK(arbTick')
    BY <1>1 DEF Idle, TickOK
  <1>6. /\ recent' \in UsdByKey /\ forgotten \in UsdByKey /\ spent \in UsdByKey
        /\ \A k \in SeedKeys : forgotten[k] + recent'[k] <= spent[k] /\ forgotten[k] \in Nat /\ recent'[k] \in Nat
    <2>1. \A k \in SeedKeys : forgotten[k] + recent[k] <= spent[k]
      BY DEF ArbTypes
    <2> QED BY <1>4, <2>1, UnsavedIs DEF ArbTypes, ZeroUsd, UsdByKey
  <1>7. ArbTypes'
    BY <1>1, <1>3, <1>5, <1>6 DEF ArbTypes
  <1>8. SeedsKnown'
    <2>1. loaded /\ Covers(spent, seeds, forgotten) /\ WithinBudgets(spent, forgotten)
      BY <1>1 DEF SeedsKnown
    <2>2. /\ Unsaved' \in UsdByKey /\ \A k \in SeedKeys : forgotten[k] <= Unsaved'[k]
      BY <1>1, <1>6 DEF Unsaved, UsdByKey
    <2>3. Covers(spent, SeedsOf(arbRow'), Unsaved')
      <3>1. CASE ArbFlushes
        <4>1. SeedsOf(arbRow') = seeds /\ PayloadOK(arbRow')
          BY <1>1, <1>2, <1>3, <3>1
        <4> QED BY <1>6, <2>1, <2>2, <4>1, PayloadKnows, CoversMore
      <3>2. CASE ~ArbFlushes
        <4>1. Unsaved' = Unsaved /\ arbRow' = arbRow
          BY <1>1, <1>4, <3>2 DEF Unsaved
        <4> QED BY <4>1 DEF SeedsKnown
      <3> QED BY <3>1, <3>2
    <2> QED BY <1>1, <1>2, <1>5, <2>1, <2>3 DEF SeedsKnown
  <1>9. Remembered'
    <2>1. arbNow \in Nat
      BY DEF ArbTypes
    <2> QED BY <1>1, <1>5, <2>1, ReadingStays, UnsavedIs
  <1>10. Hedged'
    BY <1>1 DEF Hedged, FreshArbsHedged
  <1> QED BY <1>7, <1>8, <1>9, <1>10

\* The scan: the state is taken from the payload, and judged.
LEMMA ScanStep == ArbInv /\ ArbScan => ArbInv'
  <1> SUFFICES ASSUME ArbInv, ArbScan PROVE ArbInv'
    OBVIOUS
  <1> USE DEF ArbInv
  <1> DEFINE taken == IF loaded THEN seeds ELSE SeedsOf(arbTick.payload)
  <1>1. /\ arbTick.pc = "act" /\ loaded' = TRUE /\ seeds' = Judged(taken)
        /\ liquidated' = IF loaded THEN liquidated ELSE LiquidatedOf(arbTick.payload)
        /\ arbTick' = [Idle EXCEPT !.pc = "seed", !.left = ArbPairs]
        /\ UNCHANGED <<tradingEnabled, arbNow, account, seen, fetched, lockoutWait, arbRow, arbLive, arbFlushed, spent, recent,
                       forgotten, onReading, arbBook, arbSlips>>
    BY DEF ArbScan, SeedsOf, LiquidatedOf
  <1>2. /\ SeedState(taken) /\ Covers(spent, taken, forgotten)
        /\ \A x \in DOMAIN liquidated' : liquidated'[x] \in Nat
    <2>1. PayloadOK(arbTick.payload)
      BY <1>1 DEF ArbTypes, TickOK
    <2>2. CASE loaded
      BY <1>1, <2>2 DEF ArbTypes, SeedsKnown
    <2>3. CASE ~loaded
      BY <1>1, <2>1, <2>3 DEF PayloadOK, SeedsKnown
    <2> QED BY <2>2, <2>3
  <1>3. loaded => taken = seeds
    OBVIOUS
  <1> HIDE DEF taken
  <1>4. /\ seeds' = [entries |-> seeds'.entries, total |-> taken.total] /\ DOMAIN seeds'.entries = DOMAIN taken.entries
        /\ \A k \in DOMAIN taken.entries : /\ Entry(seeds'.entries[k])
                                           /\ seeds'.entries[k].total = taken.entries[k].total
                                           /\ seeds'.entries[k].at = taken.entries[k].at
    <2> DEFINE judged == [k \in DOMAIN taken.entries |->
                   IF taken.entries[k].pausedUntil <= arbNow /\ arbNow - taken.entries[k].at >= SeedEvalWindow
                        /\ taken.entries[k].total > 0
                   THEN [taken.entries[k] EXCEPT !.pausedUntil = arbNow + SeedPause] ELSE taken.entries[k]]
    <2>1. seeds' = [entries |-> judged, total |-> taken.total]
      BY <1>1, <1>2 DEF Judged, SeedState, SeedShape
    <2>2. ASSUME NEW e, Entry(e), NEW c \in BOOLEAN
          PROVE  LET j == IF c THEN [e EXCEPT !.pausedUntil = arbNow + SeedPause] ELSE e
                 IN  Entry(j) /\ j.total = e.total /\ j.at = e.at
      <3>1. CASE c
        <4> DEFINE j == [at |-> e.at, total |-> e.total, pausedUntil |-> arbNow + SeedPause]
        <4>1. [e EXCEPT !.pausedUntil = arbNow + SeedPause] = j
          BY <2>2 DEF Entry, EntryShape
        <4> QED BY <2>2, <3>1, <4>1 DEF Entry, EntryShape
      <3> QED BY <2>2, <3>1
    <2>3. ASSUME NEW k \in DOMAIN taken.entries
          PROVE  Entry(judged[k]) /\ judged[k].total = taken.entries[k].total /\ judged[k].at = taken.entries[k].at
      BY <1>2, <2>2 DEF SeedState
    <2> QED BY <2>1, <2>3
  <1>5. SeedState(seeds')
    <2>1. SeedShape(seeds')
      BY <1>4 DEF SeedShape
    <2> QED BY <1>2, <1>4, <2>1 DEF SeedState
  <1>6. seeds'.total = taken.total /\ \A k \in SeedKeys : Known(seeds', k) = Known(taken, k)
    BY <1>4 DEF Known
  <1>7. /\ arbTick'.pc = "seed" /\ arbTick' = [pc |-> "seed", left |-> ArbPairs, sold |-> {},
                     raised |-> [x \in Exchanges |-> 0], payload |-> Payload!Nothing]
    BY <1>1 DEF Idle
  <1>8. ArbTypes'
    <2>1. TickOK(arbTick')
      BY <1>7 DEF TickOK
    <2> QED BY <1>1, <1>2, <1>5, <2>1 DEF ArbTypes
  <1>9. SeedsKnown'
    <2>1. Covers(spent, seeds', forgotten)
      BY <1>2, <1>6 DEF Covers
    <2>2. Unsaved' = Unsaved
      BY <1>1 DEF Unsaved
    <2>3. "seeds" \in DOMAIN arbLive => Covers(spent, SeedsOf(arbLive), Unsaved)
      <3> SUFFICES ASSUME "seeds" \in DOMAIN arbLive PROVE Covers(spent, SeedsOf(arbLive), Unsaved)
        OBVIOUS
      <3>1. Covers(spent, SeedsOf(arbLive), forgotten) /\ PayloadOK(arbLive)
        BY <1>1 DEF SeedsKnown, ArbTypes
      <3>2. spent \in UsdByKey /\ forgotten \in UsdByKey
        BY DEF ArbTypes
      <3>3. Unsaved \in UsdByKey /\ \A k \in SeedKeys : forgotten[k] <= Unsaved[k]
        BY UnsavedIs
      <3> QED BY <3>1, <3>2, <3>3, PayloadKnows, CoversMore
    <2> QED BY <1>1, <1>7, <2>1, <2>2, <2>3 DEF SeedsKnown
  <1>10. Remembered'
    <2>1. CASE loaded
      BY <1>1, <1>3, <1>4, <1>7, <2>1 DEF Remembered, ReadingTypes, OncePerReading, Outlived
    <2>2. CASE ~loaded
      BY <1>1, <1>7, <2>2 DEF Remembered, ReadingTypes, OncePerReading
    <2> QED BY <2>1, <2>2
  <1>11. Hedged'
    BY <1>1 DEF Hedged, FreshArbsHedged
  <1> QED BY <1>8, <1>9, <1>10, <1>11

-----------------------------------------------------------------------------
\* Orders, and what they make of the accounts.
LEMMA OrderTypes ==
    ASSUME NEW funds \in [Exchanges -> Funds], NEW x \in Exchanges, NEW p \in ArbPairs, NEW usd \in Nat
    PROVE  /\ usd <= funds[x].stable => /\ Bought(funds, x, p, usd) \in [Exchanges -> Funds]
                                       /\ \A y \in Exchanges \ {x} : Bought(funds, x, p, usd)[y] = funds[y]
           /\ usd <= funds[x].base[p] => SoldFor(funds, x, p, usd) \in [Exchanges -> Funds]
  <1>1. funds[x] = [stable |-> funds[x].stable, base |-> funds[x].base]
        /\ funds[x].stable \in Nat /\ funds[x].base \in [ArbPairs -> Nat]
    BY DEF Funds
  <1>2. ASSUME NEW change \in Int, funds[x].stable - change >= 0, funds[x].base[p] + change >= 0
        PROVE  Traded(funds[x], p, change) \in Funds
    BY <1>1, <1>2 DEF Funds, Traded
  <1>3. usd <= funds[x].stable => Traded(funds[x], p, usd) \in Funds
    BY <1>1, <1>2
  <1>4. usd <= funds[x].base[p] => Traded(funds[x], p, -usd) \in Funds
    BY <1>1, <1>2
  <1> QED BY <1>3, <1>4 DEF Bought, SoldFor

\* The trading source or the user sells.
LEMMA SoldOutsideStep == \A x \in Exchanges, p \in ArbPairs : ArbInv /\ SoldOutside(x, p) => ArbInv'
  <1> SUFFICES ASSUME NEW x \in Exchanges, NEW p \in ArbPairs, ArbInv, SoldOutside(x, p) PROVE ArbInv'
    OBVIOUS
  <1> USE DEF ArbInv
  <1>1. /\ account' = SoldFor(account, x, p, account[x].base[p])
        /\ UNCHANGED <<arbNow, seen, fetched, lockoutWait, seeds, liquidated, loaded, arbRow, arbLive,
                       arbTick, spent, recent, forgotten, onReading, arbBook>>
    BY DEF SoldOutside
  <1>2. account' \in [Exchanges -> Funds]
    <2>1. account \in [Exchanges -> Funds] /\ account[x].base[p] \in Nat
      BY DEF ArbTypes, Funds
    <2> QED BY <1>1, <2>1, OrderTypes
  <1>3. ArbTypes'
    BY <1>1, <1>2 DEF ArbTypes
  <1>4. SeedsKnown'
    BY <1>1, SeedsStay
  <1>5. Remembered'
    BY <1>1, ReadingStays, UnsavedIs DEF ArbTypes
  <1>6. Hedged'
    BY <1>1 DEF Hedged, FreshArbsHedged
  <1> QED BY <1>3, <1>4, <1>5, <1>6

\* An arb: it is left unhedged only where the balances had changed, or an order went wrong.
LEMMA InventoryArbStep ==
    \A buy, sell \in Exchanges, p \in ArbPairs, first, second \in Answers :
        ArbInv /\ InventoryArb(buy, sell, p, first, second) => ArbInv'
  <1> SUFFICES ASSUME NEW buy \in Exchanges, NEW sell \in Exchanges, NEW p \in ArbPairs,
                      NEW first \in Answers, NEW second \in Answers, ArbInv,
                      InventoryArb(buy, sell, p, first, second)
               PROVE  ArbInv'
    OBVIOUS
  <1> USE DEF ArbInv
  <1> DEFINE usd == executableInventorySize(buy, sell, p)
             payable == usd <= account[buy].stable
             deliverable == usd <= account[sell].base[p]
             paid == first # "refused"
             closed == first = "filled" /\ second # "refused"
             faults == Fault(first, payable) + IF first = "filled" THEN Fault(second, deliverable) ELSE 0
             after == IF paid THEN Bought(account, buy, p, usd) ELSE account
  <1>1. /\ arbTick.pc = "act" /\ buy # sell
        /\ paid => payable
        /\ closed => deliverable
        /\ account' = IF closed THEN SoldFor(after, sell, p, usd) ELSE after
        /\ arbBook' = [unhedged |-> arbBook.unhedged + IF paid /\ ~closed THEN usd ELSE 0,
                       blind |-> arbBook.blind \/ faults > 0 \/ Blind(buy, sell, p)]
        /\ arbTick' = [arbTick EXCEPT !.left = @ \ {p}]
        /\ UNCHANGED <<arbNow, seen, fetched, lockoutWait, seeds, liquidated, loaded,
                       arbRow, arbLive, spent, recent, forgotten, onReading>>
    BY DEF InventoryArb
  <1>2. usd \in Nat /\ usd <= seen[sell].base[p] /\ usd <= seen[buy].stable
    <2>1. seen[sell].base[p] \in Nat /\ seen[buy].stable \in Nat /\ MaxPosition \in Nat
      BY ArbNumbers DEF ArbTypes, Funds
    <2>2. ASSUME NEW x \in Nat, NEW y \in Nat, NEW z \in Nat PROVE Min({x, y, z}) \in Nat
      <3>1. x \in Int /\ y \in Int /\ z \in Int
        OBVIOUS
      <3> QED BY <3>1, LeastOf
    <2>3. seen[sell].base[p] \in Int /\ seen[buy].stable \in Int /\ MaxPosition \in Int
      BY <2>1
    <2>4. usd \in Nat
      BY <2>1, <2>2 DEF executableInventorySize
    <2>5. usd <= seen[sell].base[p] /\ usd <= seen[buy].stable
      BY <2>3, LeastOf DEF executableInventorySize
    <2> QED BY <2>4, <2>5
  <1>3. faults > 0 \/ Blind(buy, sell, p) \/ (paid => closed)
    <2> SUFFICES ASSUME faults = 0, ~Blind(buy, sell, p), paid PROVE closed
      BY DEF Fault
    <2>1. payable /\ deliverable
      BY <1>2 DEF Blind
    <2> QED BY <2>1 DEF Fault, Answers
  <1>4. after \in [Exchanges -> Funds] /\ after[sell] = account[sell] /\ account \in [Exchanges -> Funds]
    <2>1. account \in [Exchanges -> Funds]
      BY DEF ArbTypes
    <2> HIDE DEF usd
    <2>2. CASE paid
      <3>1. payable
        BY <1>1, <2>2
      <3> QED BY <1>1, <1>2, <2>1, <2>2, <3>1, OrderTypes
    <2> QED BY <2>1, <2>2
  <1>5. account' \in [Exchanges -> Funds]
    <2> HIDE DEF usd, after
    <2>1. CASE closed
      <3>1. usd <= after[sell].base[p]
        BY <1>1, <1>4, <2>1
      <3> QED BY <1>1, <1>2, <1>4, <2>1, <3>1, OrderTypes
    <2> QED BY <1>1, <1>4, <2>1
  <1> HIDE DEF usd, payable, deliverable, paid, closed, faults, after
  <1>6. /\ arbTick' = [pc |-> "act", left |-> arbTick.left \ {p}, sold |-> arbTick.sold, raised |-> arbTick.raised,
                       payload |-> arbTick.payload]
    BY <1>1 DEF ArbTypes, TickOK
  <1>7. TickOK(arbTick')
    <2>1. arbTick.raised \in [Exchanges -> Nat] /\ PayloadOK(arbTick.payload)
      BY <1>1 DEF ArbTypes, TickOK
    <2> QED BY <1>6, <2>1 DEF TickOK
  <1>8. ArbTypes'
    BY <1>1, <1>5, <1>7 DEF ArbTypes
  <1>9. SeedsKnown'
    <2>1. arbTick'.pc = "act" /\ arbTick'.payload = arbTick.payload
      BY <1>6
    <2> QED BY <1>1, <2>1, SeedsStay
  <1>10. Remembered'
    BY <1>1, <1>6, ReadingStays, UnsavedIs DEF ArbTypes
  <1>11. Hedged'
    <2>1. arbBook.unhedged \in Nat /\ arbBook.blind \in BOOLEAN /\ (arbBook.blind \/ arbBook.unhedged = 0)
      BY DEF Hedged, FreshArbsHedged
    <2>2. arbBook'.unhedged \in Nat /\ arbBook'.blind \in BOOLEAN
          /\ arbBook' = [unhedged |-> arbBook'.unhedged, blind |-> arbBook'.blind]
      BY <1>1, <1>2, <2>1
    <2>3. arbBook'.blind \/ arbBook'.unhedged = 0
      <3>1. CASE faults > 0 \/ Blind(buy, sell, p)
        BY <1>1, <3>1
      <3>2. CASE paid => closed
        BY <1>1, <2>1, <3>2
      <3> QED BY <1>3, <3>1, <3>2
    <2> QED BY <2>2, <2>3 DEF Hedged, FreshArbsHedged
  <1> QED BY <1>8, <1>9, <1>10, <1>11

\* What a seed costs leaves both budgets room.
LEMMA SeedSizes ==
    ASSUME ArbTypes, NEW k \in SeedKeys, SeedSize(k) >= SeedMin
    PROVE  /\ k[1] \in Exchanges /\ k[2] \in ArbPairs /\ account[k[1]].stable \in Nat
           /\ SeedSize(k) \in Nat /\ SeedSize(k) > 0 /\ TotalOf(k) \in Nat /\ seeds.total \in Nat
           /\ TotalOf(k) + SeedSize(k) \in 0..SeedPerPair /\ seeds.total + SeedSize(k) \in 0..SeedGlobal
           /\ TotalOf(k) = Known(seeds, k)
  <1>1. k[1] \in Exchanges /\ k[2] \in ArbPairs
    BY DEF SeedKeys
  <1>2. account[k[1]].stable \in Nat /\ seen[k[1]].stable \in Nat /\ arbTick.raised[k[1]] \in Nat
    BY <1>1 DEF ArbTypes, Funds, TickOK
  <1>3. TotalOf(k) \in 0..SeedPerPair /\ seeds.total \in 0..SeedGlobal /\ TotalOf(k) = Known(seeds, k)
    BY ArbNumbers DEF ArbTypes, SeedState, Entry, TotalOf, Known
  <1>4. SeedPerPair - TotalOf(k) \in Int /\ SeedGlobal - seeds.total \in Int /\ Usable(k[1]) \in Int
    BY <1>2, <1>3, ArbNumbers DEF Usable, stableByExchange
  <1>5. /\ SeedSize(k) \in Int
        /\ SeedSize(k) <= SeedPerPair - TotalOf(k) /\ SeedSize(k) <= SeedGlobal - seeds.total
    <2>1. ASSUME NEW x \in Int, NEW y \in Int, NEW z \in Int
          PROVE  Min({x, y, z}) \in Int /\ Min({x, y, z}) <= x /\ Min({x, y, z}) <= y
      BY LeastOf
    <2> QED BY <1>4, <2>1 DEF SeedSize
  <1> QED BY <1>1, <1>2, <1>3, <1>5, ArbNumbers

\* What the state is with a seed recorded.
LEMMA RecordedIs ==
    ASSUME ArbTypes, NEW k \in SeedKeys, NEW usd \in Nat,
           TotalOf(k) \in Nat, TotalOf(k) + usd \in 0..SeedPerPair, seeds.total + usd \in 0..SeedGlobal
    PROVE  /\ SeedState(recordSeed(k, usd)) /\ recordSeed(k, usd).total = seeds.total + usd
           /\ Known(recordSeed(k, usd), k) = TotalOf(k) + usd
           /\ \A j \in SeedKeys \ {k} : Known(recordSeed(k, usd), j) = Known(seeds, j)
           /\ DOMAIN recordSeed(k, usd).entries = DOMAIN seeds.entries \cup {k}
           /\ recordSeed(k, usd).entries[k].at = arbNow
           /\ \A j \in DOMAIN seeds.entries \ {k} : recordSeed(k, usd).entries[j] = seeds.entries[j]
  <1> DEFINE e == [at |-> arbNow, total |-> TotalOf(k) + usd,
                   pausedUntil |-> IF k \in DOMAIN seeds.entries THEN seeds.entries[k].pausedUntil ELSE 0]
             more == With(seeds.entries, k, e)
  <1>1. recordSeed(k, usd) = [entries |-> more, total |-> seeds.total + usd]
    BY DEF recordSeed
  <1> HIDE DEF e
  <1>2. /\ DOMAIN more = DOMAIN seeds.entries \cup {k} /\ more[k] = e
        /\ \A j \in DOMAIN seeds.entries \ {k} : more[j] = seeds.entries[j]
    BY DEF With
  <1>3. Entry(e) /\ e.at = arbNow /\ e.total = TotalOf(k) + usd
    BY DEF e, Entry, EntryShape, ArbTypes
  <1> HIDE DEF more
  <1>4. SeedState([entries |-> more, total |-> seeds.total + usd])
    <2>1. SeedShape([entries |-> more, total |-> seeds.total + usd])
      BY DEF SeedShape
    <2> QED BY <1>2, <1>3, <2>1 DEF SeedState, ArbTypes
  <1> QED BY <1>1, <1>2, <1>3, <1>4 DEF Known

\* A seed: paid for and recorded, or paid for without an answer, or not filled.
LEMMA SeedStep == \A k \in SeedKeys, answer \in Answers, fill \in BOOLEAN : ArbInv /\ Seed(k, answer, fill) => ArbInv'
  <1> SUFFICES ASSUME NEW k \in SeedKeys, NEW answer \in Answers, NEW fill \in BOOLEAN, ArbInv, Seed(k, answer, fill)
               PROVE  ArbInv'
    OBVIOUS
  <1> USE DEF ArbInv
  <1> DEFINE x == k[1]
             usd == SeedSize(k)
             bought == IF fill THEN usd ELSE 0
             reported == placeSeedOrder(x, usd, answer, fill)
  <1>1. /\ arbTick.pc = "seed"
        /\ MaySeed(k) /\ usd >= SeedMin
        /\ fill => usd <= account[x].stable /\ answer # "refused"
        /\ account' = Bought(account, x, k[2], bought)
        /\ seeds' = IF reported > 0 THEN recordSeed(k, reported) ELSE seeds
        /\ spent' = [spent EXCEPT ![k] = @ + bought]
        /\ onReading' = [onReading EXCEPT !.seeds[k] = @ + IF fill THEN 1 ELSE 0]
        /\ IF answer = "unanswered"
           THEN forgotten' = [forgotten EXCEPT ![k] = @ + bought] /\ UNCHANGED recent
           ELSE recent' = [recent EXCEPT ![k] = @ + bought] /\ UNCHANGED forgotten
        /\ arbTick' = [arbTick EXCEPT !.left = @ \ {k[2]}]
        /\ UNCHANGED <<arbNow, seen, fetched, lockoutWait, liquidated, loaded, arbRow, arbLive, arbBook>>
    BY DEF Seed, Fills
  <1>2. /\ x \in Exchanges /\ k[2] \in ArbPairs /\ account[x].stable \in Nat
        /\ usd \in Nat /\ usd > 0 /\ TotalOf(k) \in Nat /\ seeds.total \in Nat
        /\ TotalOf(k) + usd \in 0..SeedPerPair /\ seeds.total + usd \in 0..SeedGlobal
        /\ TotalOf(k) = Known(seeds, k)
    BY <1>1, SeedSizes
  <1>3. /\ reported \in {0, usd}
        /\ answer = "unanswered" => reported = 0
        /\ answer # "unanswered" => bought <= reported
    BY <1>1, <1>2 DEF placeSeedOrder, Reported, Answers
  <1>4. bought \in Nat /\ bought <= usd /\ (fill => bought > 0) /\ (~fill => bought = 0) /\ bought <= account[x].stable
    BY <1>1, <1>2
  <1> HIDE DEF x, usd, bought, reported
  <1>5. /\ SeedState(seeds') /\ \A j \in SeedKeys \ {k} : Known(seeds', j) = Known(seeds, j)
        /\ seeds'.total = seeds.total + reported /\ Known(seeds', k) = Known(seeds, k) + reported
        /\ DOMAIN seeds.entries \subseteq DOMAIN seeds'.entries
        /\ reported > 0 => k \in DOMAIN seeds'.entries /\ seeds'.entries[k].at = arbNow
        /\ \A j \in DOMAIN seeds.entries : j # k \/ reported = 0 => seeds'.entries[j] = seeds.entries[j]
    <2>1. CASE reported > 0
      <3>1. reported = usd /\ seeds' = recordSeed(k, usd)
        BY <1>1, <1>3, <2>1
      <3> QED BY <1>2, <2>1, <3>1, RecordedIs
    <2>2. CASE ~(reported > 0)
      <3>1. reported = 0 /\ seeds' = seeds
        BY <1>1, <1>2, <1>3, <2>2
      <3> QED BY <1>2, <3>1 DEF ArbTypes
    <2> QED BY <2>1, <2>2
  <1>6. /\ spent \in UsdByKey /\ forgotten \in UsdByKey /\ Unsaved \in UsdByKey
        /\ spent' \in UsdByKey /\ recent' \in UsdByKey /\ forgotten' \in UsdByKey /\ Unsaved' \in UsdByKey
        /\ spent'[k] = spent[k] + bought /\ Unsaved'[k] = Unsaved[k] + bought
        /\ \A j \in SeedKeys \ {k} : spent'[j] = spent[j] /\ Unsaved'[j] = Unsaved[j] /\ forgotten'[j] = forgotten[j]
        /\ \A j \in SeedKeys : /\ forgotten'[j] + recent'[j] <= spent'[j]
                               /\ forgotten[j] \in Nat /\ forgotten'[j] \in Nat /\ forgotten'[j] >= forgotten[j]
        /\ answer = "unanswered" => forgotten'[k] = forgotten[k] + bought
        /\ answer # "unanswered" => forgotten' = forgotten
    <2>1. spent \in [SeedKeys -> Nat] /\ recent \in [SeedKeys -> Nat] /\ forgotten \in [SeedKeys -> Nat]
          /\ \A j \in SeedKeys : forgotten[j] + recent[j] <= spent[j]
      BY DEF ArbTypes, UsdByKey
    <2>2. CASE answer = "unanswered"
      BY <1>1, <1>4, <2>1, <2>2 DEF Unsaved, UsdByKey
    <2>3. CASE answer # "unanswered"
      BY <1>1, <1>4, <2>1, <2>3 DEF Unsaved, UsdByKey
    <2> QED BY <2>2, <2>3
  <1>7. arbTick'.pc = "seed" /\ TickOK(arbTick')
    <2>1. /\ arbTick' = [pc |-> "seed", left |-> arbTick.left \ {k[2]}, sold |-> arbTick.sold,
                         raised |-> arbTick.raised, payload |-> arbTick.payload]
          /\ arbTick.raised \in [Exchanges -> Nat]
      BY <1>1 DEF ArbTypes, TickOK
    <2> QED BY <2>1 DEF TickOK
  <1>8. ArbTypes'
    <2>1. account' \in [Exchanges -> Funds]
      BY <1>1, <1>2, <1>4, OrderTypes DEF ArbTypes
    <2> QED BY <1>1, <1>5, <1>6, <1>7, <2>1 DEF ArbTypes
  <1>9. /\ \A j \in SeedKeys : Known(seeds, j) \in Nat
        /\ loaded
    BY <1>1, CoveredIsWithin DEF ArbTypes, SeedsKnown
  <1>10. Covers(spent', seeds', forgotten')
    <2>1. Covers(spent, seeds, forgotten)
      BY <1>9 DEF SeedsKnown
    <2>2. CASE answer = "unanswered"
      <3>1. reported = 0 /\ seeds'.total = seeds.total /\ \A j \in SeedKeys : Known(seeds', j) = Known(seeds, j)
        BY <1>2, <1>3, <1>5, <1>9, <2>2
      <3>2. Covers(spent', seeds, forgotten')
        BY <1>1, <1>2, <1>4, <1>6, <1>9, <2>1, <2>2, CoversLost
      <3> QED BY <3>1, <3>2 DEF Covers
    <2>3. CASE answer # "unanswered"
      <3>1. forgotten' = forgotten /\ bought <= reported /\ reported \in Nat
        BY <1>2, <1>3, <1>6, <2>3
      <3>2. Covers([spent EXCEPT ![k] = @ + bought], seeds', forgotten)
        BY <1>2, <1>4, <1>5, <1>6, <1>9, <2>1, <3>1, CoversRecorded
      <3> QED BY <1>1, <3>1, <3>2
    <2> QED BY <2>2, <2>3
  <1>11. ASSUME NEW payload, PayloadOK(payload), Covers(spent, SeedsOf(payload), Unsaved)
         PROVE  Covers(spent', SeedsOf(payload), Unsaved')
    BY <1>1, <1>4, <1>6, <1>11, PayloadKnows, CoversLost
  <1>12. SeedsKnown'
    <2>1. PayloadOK(arbRow) /\ PayloadOK(arbLive)
      BY DEF ArbTypes
    <2>2. Covers(spent', SeedsOf(arbRow'), Unsaved')
      BY <1>1, <1>11, <2>1 DEF SeedsKnown
    <2>3. "seeds" \in DOMAIN arbLive' => Covers(spent', SeedsOf(arbLive'), Unsaved')
      BY <1>1, <1>11, <2>1 DEF SeedsKnown
    <2>4. WithinBudgets(spent', forgotten')
      BY <1>5, <1>6, <1>10, CoveredIsWithin
    <2> QED BY <1>1, <1>7, <1>9, <1>10, <2>2, <2>3, <2>4 DEF SeedsKnown
  <1>13. Remembered'
    <2>1. /\ arbNow \in Nat /\ fetched \in Int /\ arbNow - fetched <= FetchTime /\ onReading.readAt <= arbNow
          /\ onReading.seeds \in [SeedKeys -> Nat] /\ onReading.sales \in [Exchanges -> Nat] /\ onReading.readAt \in Nat
      BY <1>1 DEF ArbTypes, Remembered, ReadingTypes
    <2>2. onReading' = [seeds |-> [onReading.seeds EXCEPT ![k] = @ + IF fill THEN 1 ELSE 0],
                        sales |-> onReading.sales, readAt |-> onReading.readAt]
      BY <1>1 DEF Remembered, ReadingTypes
    <2>3. /\ onReading'.sales = onReading.sales /\ onReading'.readAt = onReading.readAt
          /\ onReading'.seeds \in [SeedKeys -> Nat] /\ onReading'.seeds[k] = onReading.seeds[k] + IF fill THEN 1 ELSE 0
          /\ \A j \in SeedKeys \ {k} : onReading'.seeds[j] = onReading.seeds[j]
          /\ onReading' = [seeds |-> onReading'.seeds, sales |-> onReading'.sales, readAt |-> onReading'.readAt]
      BY <2>1, <2>2
    <2>4. ReadingTypes'
      BY <1>1, <2>1, <2>3 DEF ReadingTypes
    <2>5. ASSUME NEW j \in SeedKeys, onReading'.seeds[j] > 0, forgotten'[j] = 0
          PROVE  j \in DOMAIN seeds'.entries /\ seeds'.entries[j].at >= onReading'.readAt
      <3>1. forgotten[j] = 0
        BY <1>6, <2>5
      <3>2. CASE j = k /\ reported > 0
        BY <1>5, <2>1, <2>3, <3>2
      <3>3. CASE ~(j = k /\ reported > 0)
        <4>1. j # k \/ reported = 0
          BY <1>2, <1>3, <3>3
        <4>2. onReading.seeds[j] > 0
          <5>1. CASE j # k
            BY <2>3, <2>5, <5>1
          <5>2. CASE j = k
            <6>1. ~fill
              BY <1>3, <1>4, <1>6, <2>5, <3>1, <4>1, <5>2
            <6> QED BY <2>1, <2>3, <2>5, <5>2, <6>1
          <5> QED BY <5>1, <5>2
        <4>3. j \in DOMAIN seeds.entries /\ seeds.entries[j].at >= onReading.readAt
          BY <3>1, <4>2 DEF Remembered
        <4> QED BY <1>5, <2>3, <4>1, <4>3
      <3> QED BY <3>2, <3>3
    <2>6. ASSUME NEW j \in SeedKeys, onReading'.seeds[j] > 1 PROVE forgotten'[j] > 0 \/ Outlived(SeedCooldown)'
      <3>1. Outlived(SeedCooldown)' = Outlived(SeedCooldown)
        BY <1>1, <2>3 DEF Outlived
      <3>2. CASE onReading.seeds[j] > 1
        BY <1>6, <3>1, <3>2 DEF Remembered, OncePerReading
      <3>3. CASE ~(onReading.seeds[j] > 1)
        <4>1. j = k /\ onReading.seeds[k] > 0
          BY <2>1, <2>3, <2>6, <3>3
        <4> SUFFICES ASSUME forgotten'[k] = 0 PROVE Outlived(SeedCooldown)
          BY <1>6, <3>1, <4>1
        <4>2. forgotten[k] = 0
          BY <1>6
        <4>3. k \in DOMAIN seeds.entries /\ seeds.entries[k].at >= onReading.readAt
          BY <4>1, <4>2 DEF Remembered
        <4>4. seeds.entries[k].at + SeedCooldown <= arbNow /\ seeds.entries[k].at \in Nat
          BY <1>1, <4>3 DEF MaySeed, ArbTypes, SeedState, Entry
        <4> QED BY <2>1, <4>3, <4>4, ArbNumbers DEF Outlived
      <3> QED BY <3>2, <3>3
    <2>7. \A y \in Exchanges : onReading'.sales[y] > 1 => Outlived(LiquidateCooldown)'
      BY <1>1, <2>3 DEF Remembered, OncePerReading, Outlived
    <2>8. \A y \in Exchanges : onReading'.sales[y] > 0 => y \in DOMAIN liquidated' /\ liquidated'[y] >= onReading'.readAt
      BY <1>1, <2>3 DEF Remembered
    <2> QED BY <1>1, <1>9, <2>1, <2>4, <2>5, <2>6, <2>7, <2>8 DEF Remembered, OncePerReading
  <1>14. Hedged'
    BY <1>1 DEF Hedged, FreshArbsHedged
  <1> QED BY <1>8, <1>12, <1>13, <1>14

\* A liquidation: remembered, so that none follows it on one reading; of what there is.
LEMMA LiquidationStep ==
    \A k \in SeedKeys, p \in ArbPairs, answer \in Answers, fill \in BOOLEAN :
        ArbInv /\ Liquidation(k, p, answer, fill) => ArbInv'
  <1> SUFFICES ASSUME NEW k \in SeedKeys, NEW p \in ArbPairs, NEW answer \in Answers, NEW fill \in BOOLEAN,
                      ArbInv, Liquidation(k, p, answer, fill)
               PROVE  ArbInv'
    OBVIOUS
  <1> USE DEF ArbInv
  <1> DEFINE x == k[1]
             usd == Slice(x, p)
             reported == placeLiquidateOrder(x, usd, answer, fill)
             counted == IF fill /\ answer = "filled" THEN 1 ELSE 0
  <1>1. /\ arbTick.pc = "seed"
        /\ MayLiquidate(x) /\ p \in Candidates(k)
        /\ fill => usd <= account[x].base[p] /\ answer # "refused"
        /\ account' = SoldFor(account, x, p, IF fill THEN usd ELSE 0)
        /\ onReading' = [onReading EXCEPT !.sales[x] = @ + counted]
        /\ liquidated' = IF reported > 0 THEN recordLiquidation(x) ELSE liquidated
        /\ arbTick' = [arbTick EXCEPT !.left = @ \ {k[2]}, !.sold = @ \union {x}, !.raised[x] = @ + reported]
        /\ UNCHANGED <<arbNow, seen, fetched, lockoutWait, seeds, loaded, arbRow, arbLive, spent, recent, forgotten, arbBook>>
    BY DEF Liquidation, Fills
  <1>2. /\ x \in Exchanges /\ account[x].base[p] \in Nat /\ account \in [Exchanges -> Funds]
    BY DEF SeedKeys, ArbTypes, Funds
  <1>3. usd \in Nat /\ usd > 0
    <2>1. usd >= LiquidateMin
      BY <1>1 DEF Candidates
    <2>2. ASSUME NEW n \in Int, NEW m \in Int, NEW l \in Int PROVE Min({n, m, l}) \in Int
      BY LeastOf
    <2>3. /\ ((WantUsd - stableByExchange(x)) * 21) \div 20 \in Int
          /\ LiquidateSlice \in Int /\ holdingsOn(x)[p] \div 2 \in Int
      <3>1. /\ seen[x].stable \in Nat /\ arbTick.raised[x] \in Nat /\ seen[x].base[p] \in Nat
        BY <1>2 DEF ArbTypes, Funds, TickOK
      <3> QED BY <3>1, ArbNumbers DEF stableByExchange, holdingsOn
    <2>4. usd \in Int
      BY <2>2, <2>3 DEF Slice
    <2> QED BY <2>1, <2>4, ArbNumbers
  <1>4. reported \in {0, usd} /\ (counted = 1 => reported > 0) /\ counted \in {0, 1}
    BY <1>3 DEF placeLiquidateOrder, Reported
  <1> HIDE DEF x, usd, reported, counted
  <1>5. account' \in [Exchanges -> Funds]
    <2>1. CASE fill
      BY <1>1, <1>2, <1>3, <2>1, OrderTypes
    <2>2. CASE ~fill
      BY <1>1, <1>2, <2>2, OrderTypes
    <2> QED BY <2>1, <2>2
  <1>6. arbTick'.pc = "seed" /\ TickOK(arbTick')
    <2>1. /\ arbTick' = [pc |-> "seed", left |-> arbTick.left \ {k[2]}, sold |-> arbTick.sold \union {x},
                         raised |-> [arbTick.raised EXCEPT ![x] = @ + reported], payload |-> arbTick.payload]
          /\ arbTick.raised \in [Exchanges -> Nat]
      BY <1>1 DEF ArbTypes, TickOK
    <2>2. [arbTick.raised EXCEPT ![x] = @ + reported] \in [Exchanges -> Nat]
      BY <1>2, <1>3, <1>4, <2>1
    <2> QED BY <2>1, <2>2 DEF TickOK
  <1>7. /\ DOMAIN liquidated \subseteq DOMAIN liquidated' /\ \A y \in DOMAIN liquidated' : liquidated'[y] \in Nat
        /\ \A y \in DOMAIN liquidated : y # x \/ reported = 0 => liquidated'[y] = liquidated[y]
        /\ reported > 0 => x \in DOMAIN liquidated' /\ liquidated'[x] = arbNow
    <2>1. arbNow \in Nat /\ \A y \in DOMAIN liquidated : liquidated[y] \in Nat
      BY DEF ArbTypes
    <2>2. CASE reported > 0
      <3>1. liquidated' = With(liquidated, x, arbNow)
        BY <1>1, <2>2 DEF recordLiquidation
      <3> QED BY <2>1, <2>2, <3>1 DEF With
    <2>3. CASE ~(reported > 0)
      BY <1>1, <1>3, <1>4, <2>1, <2>3
    <2> QED BY <2>2, <2>3
  <1>8. ArbTypes'
    BY <1>1, <1>5, <1>6, <1>7 DEF ArbTypes
  <1>9. SeedsKnown'
    BY <1>1, <1>6, SeedsStay
  <1>10. Remembered'
    <2>1. /\ arbNow \in Nat /\ fetched \in Int /\ arbNow - fetched <= FetchTime /\ onReading.readAt <= arbNow /\ loaded
          /\ onReading.seeds \in [SeedKeys -> Nat] /\ onReading.sales \in [Exchanges -> Nat] /\ onReading.readAt \in Nat
      BY <1>1 DEF ArbTypes, Remembered, ReadingTypes, SeedsKnown
    <2>2. onReading' = [seeds |-> onReading.seeds, sales |-> [onReading.sales EXCEPT ![x] = @ + counted],
                        readAt |-> onReading.readAt]
      BY <1>1 DEF Remembered, ReadingTypes
    <2>3. /\ onReading'.seeds = onReading.seeds /\ onReading'.readAt = onReading.readAt
          /\ onReading'.sales \in [Exchanges -> Nat] /\ onReading'.sales[x] = onReading.sales[x] + counted
          /\ \A y \in Exchanges \ {x} : onReading'.sales[y] = onReading.sales[y]
          /\ onReading' = [seeds |-> onReading'.seeds, sales |-> onReading'.sales, readAt |-> onReading'.readAt]
      BY <1>2, <1>4, <2>1, <2>2
    <2>4. ReadingTypes'
      BY <1>1, <2>1, <2>3 DEF ReadingTypes
    <2>5. ASSUME NEW y \in Exchanges, onReading'.sales[y] > 0
          PROVE  y \in DOMAIN liquidated' /\ liquidated'[y] >= onReading'.readAt
      <3>1. CASE y = x /\ reported > 0
        BY <1>7, <2>1, <2>3, <3>1
      <3>2. CASE ~(y = x /\ reported > 0)
        <4>1. onReading.sales[y] > 0 /\ (y # x \/ reported = 0)
          BY <1>3, <1>4, <2>1, <2>3, <2>5, <3>2
        <4>2. y \in DOMAIN liquidated /\ liquidated[y] >= onReading.readAt
          BY <4>1 DEF Remembered
        <4> QED BY <1>7, <2>3, <4>1, <4>2
      <3> QED BY <3>1, <3>2
    <2>6. ASSUME NEW y \in Exchanges, onReading'.sales[y] > 1 PROVE Outlived(LiquidateCooldown)'
      <3>1. Outlived(LiquidateCooldown)' = Outlived(LiquidateCooldown)
        BY <1>1, <2>3 DEF Outlived
      <3>2. CASE onReading.sales[y] > 1
        BY <3>1, <3>2 DEF Remembered, OncePerReading
      <3>3. CASE ~(onReading.sales[y] > 1)
        <4>1. y = x /\ onReading.sales[x] > 0
          BY <1>4, <2>1, <2>3, <2>6, <3>3
        <4>2. x \in DOMAIN liquidated /\ liquidated[x] >= onReading.readAt
          BY <1>2, <4>1 DEF Remembered
        <4>3. liquidated[x] + LiquidateCooldown <= arbNow /\ liquidated[x] \in Nat
          BY <1>1, <4>2 DEF MayLiquidate, ArbTypes
        <4> QED BY <2>1, <3>1, <4>2, <4>3, ArbNumbers DEF Outlived
      <3> QED BY <3>2, <3>3
    <2>7. \A j \in SeedKeys : onReading'.seeds[j] > 1 => forgotten'[j] > 0 \/ Outlived(SeedCooldown)'
      BY <1>1, <2>3 DEF Remembered, OncePerReading, Outlived
    <2>8. \A j \in SeedKeys : onReading'.seeds[j] > 0 /\ forgotten'[j] = 0 =>
              j \in DOMAIN seeds'.entries /\ seeds'.entries[j].at >= onReading'.readAt
      BY <1>1, <2>3 DEF Remembered
    <2> QED BY <1>1, <2>1, <2>4, <2>5, <2>6, <2>7, <2>8 DEF Remembered, OncePerReading
  <1>11. Hedged'
    BY <1>1 DEF Hedged, FreshArbsHedged
  <1> QED BY <1>8, <1>9, <1>10, <1>11

-----------------------------------------------------------------------------
\* A step that changes nothing.
LEMMA ArbStutters == ArbInv /\ UNCHANGED arbVars => ArbInv'
  <1> SUFFICES ASSUME ArbInv, UNCHANGED arbVars PROVE ArbInv'
    OBVIOUS
  <1> USE DEF ArbInv, arbVars
  <1>1. ArbTypes'
    BY DEF ArbTypes
  <1>2. SeedsKnown'
    BY SeedsStay
  <1>3. Remembered'
    BY ReadingStays, UnsavedIs DEF ArbTypes
  <1>4. Hedged'
    BY DEF Hedged, FreshArbsHedged
  <1> QED BY <1>1, <1>2, <1>3, <1>4

\* Every step of it keeps the invariant.
LEMMA ArbStep == ArbInv /\ [ArbNext]_arbVars => ArbInv'
  BY BeginStep, PollFailsStep, InventoryArbStep, ScanStep, SeedStep, LiquidationStep, SaveStep, PollStep,
     SoldOutsideStep, ArbCrashStep, ArbStutters DEF ArbNext

\* It is enough.
LEMMA ArbInvIsSafe == ArbInv => ArbSafe
  <1> SUFFICES ASSUME ArbInv PROVE ArbSafe
    OBVIOUS
  <1>1. BudgetsHold
    BY DEF ArbInv, SeedsKnown, WithinBudgets, BudgetsHold, SumOf
  <1> QED BY <1>1 DEF ArbInv, Remembered, Hedged, ArbSafe

\* What seeding costs stays within both budgets but for what was lost to the ledger, no
\* reading is seeded or liquidated upon twice, and arbs sized on fresh balances are hedged
\* (seeder.ts, liquidator.ts, crypto-arb.ts).
THEOREM ArbIsSafe == ArbSpec => []ArbSafe
  <1>1. ArbSpec => []ArbInv
    BY ArbStarts, ArbStep, PTL DEF ArbSpec
  <1> QED BY <1>1, ArbInvIsSafe, PTL

-----------------------------------------------------------------------------
(* The backtests: a book holds a position only of a day short of the limit, so that each  *)
(* day's loss is what came before and one stop; a live position is the backtest's, with   *)
(* a mark no lower.                                                                       *)

\* A book whose position, if any, was opened by now, on a day that had not reached the limit.
SoundBook(book, now) ==
    /\ book \in Books
    /\ Holds(book) => /\ book.position.at <= now /\ DayOf(book.position.at) \in BtDays
                      /\ book.net[DayOf(book.position.at)] > -DayLossLimit
    /\ book.halted <=> \E d \in BtDays : book.net[d] <= -DayLossLimit
LossBounded(book) == \A d \in BtDays : book.net[d] > -DayLossLimit - WorstTrade

CandleOK(bar) == /\ bar.low \in Nat /\ bar.high \in Nat /\ bar.close \in Nat /\ bar.lowFirst \in BOOLEAN
                 /\ bar.score \in Nat /\ bar.bull \in BOOLEAN

\* The live position is the backtest's, with a mark no lower.
Follows(pos, sim) ==
    pos # NoPosition => /\ sim # NoPosition /\ pos.pair = sim.pair /\ pos.at = sim.at /\ pos.entry = sim.entry
                        /\ pos.high >= sim.high

LastBars == {NoBar} \cup [at : Nat, close : Nat]
Barred(book) == Holds(book) => lastBar[book.position.pair] # NoBar

BtTypes ==
    /\ minute \in Nat /\ DayOf(minute) \in BtDays /\ bars \in 0..(MaxBars + 1)
    /\ lastBar \in [BtPairs -> LastBars]
    /\ DOMAIN alone = BtPairs /\ live \in [BtPairs -> BtPositions] /\ alone = [p \in BtPairs |-> alone[p]]
    /\ skipped \in Nat /\ missed \in Nat
BtBooks ==
    /\ SoundBook(together, minute) /\ Barred(together)
    /\ \A p \in BtPairs : /\ SoundBook(alone[p], minute) /\ Barred(alone[p])
                          /\ Holds(alone[p]) => alone[p].position.pair = p
    /\ bars <= MaxBars => LossBounded(together) /\ \A p \in BtPairs : LossBounded(alone[p])
BtInv ==
    /\ BtTypes /\ BtBooks
    /\ OnePairAgrees /\ SkippedCounted
    /\ \A p \in BtPairs : Follows(live[p], alone[p].position)

\* The constants.
LEMMA BtNumbers ==
    /\ SlipTicks \in Nat /\ RoundFee \in Nat /\ DayLossLimit \in Nat /\ DayLossLimit > 0 /\ MaxBars \in Nat
    /\ BtLastDay \in Nat /\ FirstMinute \in Nat /\ DayOf(FirstMinute) \in BtDays
    /\ WorstTrade = 4 + SlipTicks + RoundFee
    /\ \A p \in BtPairs : \A bar \in BarsOf[p] : CandleOK(bar)
  BY BacktestConstants DEF WorstTrade, INITIAL_STOP, CandleOK

\* A position has fields that no position has not.
LEMMA PositionIs ==
    ASSUME NEW z \in BtPositions, z # NoPosition
    PROVE  /\ z = [pair |-> z.pair, at |-> z.at, entry |-> z.entry, high |-> z.high]
           /\ z.pair \in BtPairs /\ z.at \in Nat /\ z.entry \in Nat /\ z.high \in Nat
  BY DEF BtPositions

\* A position that is opened is of its pair and its candle.
LEMMA OpenedIs ==
    ASSUME NEW p \in BtPairs, NEW bar, CandleOK(bar), NEW t \in Nat
    PROVE  /\ Opened(p, bar, t) \in BtPositions /\ Opened(p, bar, t) # NoPosition
           /\ Opened(p, bar, t).pair = p /\ Opened(p, bar, t).at = t
  <1>1. Opened(p, bar, t) \in [pair : BtPairs, at : Nat, entry : Nat, high : Nat]
    BY BtNumbers DEF Opened, CandleOK
  <1>2. Opened(p, bar, t).pair = p /\ Opened(p, bar, t).at = t
    BY DEF Opened
  <1>3. "at" \in DOMAIN Opened(p, bar, t) /\ ~("at" \in DOMAIN NoPosition)
    BY DEF Opened, NoPosition
  <1> QED BY <1>1, <1>2, <1>3 DEF BtPositions

\* The stop rises with the mark, and is never more than its first distance below the entry.
LEMMA StopRises ==
    ASSUME NEW entry \in Int, NEW high \in Int, NEW more \in Int, high <= more
    PROVE  /\ StopFor(entry, high) \in Int /\ StopFor(entry, high) >= entry - 4
           /\ StopFor(entry, high) <= StopFor(entry, more)
  BY DEF StopFor, PriceMax, LOCK_TRIGGER, LOCK_STOP, TRAIL, BREAKEVEN_TRIGGER, INITIAL_STOP

\* A bar ends a position at one price, which costs no more than the first stop.
LEMMA ExitPrices ==
    ASSUME NEW pos \in BtPositions, pos # NoPosition, NEW bar, CandleOK(bar), NEW t \in Nat, ExitsAt(pos, bar, t) # {}
    PROVE  /\ (CHOOSE x \in ExitsAt(pos, bar, t) : TRUE) \in Int
           /\ (CHOOSE x \in ExitsAt(pos, bar, t) : TRUE) >= pos.entry - 4
  <1>1. /\ pos.entry \in Nat /\ pos.high \in Nat /\ pos.at \in Nat
    BY PositionIs
  <1>2. StopFor(pos.entry, pos.high) \in Int /\ StopFor(pos.entry, pos.high) >= pos.entry - 4
    <2>1. pos.entry \in Int /\ pos.high \in Int /\ pos.high <= pos.high
      BY <1>1
    <2> QED BY <2>1, StopRises
  <1>3. \A x \in ExitsAt(pos, bar, t) : x \in Int /\ x >= pos.entry - 4
    BY <1>1, <1>2 DEF ExitsAt, Flat, CandleOK, TIME_EXIT_FLAT, TAKE_PROFIT
  <1> QED BY <1>3

\* A position is closed: its day is charged, and halts the book if it reaches the limit.
LEMMA ClosedIs ==
    ASSUME NEW now \in Nat, NEW book, SoundBook(book, now), Holds(book), NEW price \in Int, NEW t \in Nat
    PROVE  /\ SoundBook(Closed(book, price, t), now) /\ ~Holds(Closed(book, price, t))
           /\ LossBounded(book) /\ price >= book.position.entry - 4 => LossBounded(Closed(book, price, t))
  <1> DEFINE pos == book.position
             day == DayOf(pos.at)
             net == [book.net EXCEPT ![day] = @ + (price - SlipTicks - pos.entry - RoundFee)]
             after == [position |-> NoPosition, lastExit |-> [book.lastExit EXCEPT ![pos.pair] = t], net |-> net,
                       trades |-> book.trades + 1, halted |-> book.halted \/ net[day] <= -DayLossLimit]
  <1>1. /\ book = [position |-> pos, lastExit |-> book.lastExit, net |-> book.net, trades |-> book.trades,
                   halted |-> book.halted]
        /\ pos \in BtPositions /\ pos # NoPosition /\ book.lastExit \in [BtPairs -> Nat \cup {Never}]
        /\ book.net \in [BtDays -> Int] /\ book.trades \in Nat /\ book.halted \in BOOLEAN
    BY DEF SoundBook, Books, Holds
  <1>2. /\ pos.pair \in BtPairs /\ pos.at \in Nat /\ pos.entry \in Nat /\ day \in BtDays /\ book.net[day] > -DayLossLimit
    BY <1>1, PositionIs DEF SoundBook
  <1>3. Closed(book, price, t) = after
    BY DEF Closed, LimitHit
  <1>4. /\ net \in [BtDays -> Int] /\ net[day] = book.net[day] + (price - SlipTicks - pos.entry - RoundFee)
        /\ \A d \in BtDays \ {day} : net[d] = book.net[d]
    BY <1>1, <1>2, BtNumbers
  <1> HIDE DEF net
  <1>5. after \in Books /\ after.position = NoPosition /\ after.net = net
    BY <1>1, <1>2, <1>4 DEF Books, BtPositions
  <1>6. after.halted <=> \E d \in BtDays : net[d] <= -DayLossLimit
    <2>1. after.halted <=> book.halted \/ net[day] <= -DayLossLimit
      OBVIOUS
    <2>2. book.halted <=> \E d \in BtDays \ {day} : book.net[d] <= -DayLossLimit
      BY <1>1, <1>2, BtNumbers DEF SoundBook
    <2>3. (\E d \in BtDays : net[d] <= -DayLossLimit) <=> \/ net[day] <= -DayLossLimit
                                                          \/ \E d \in BtDays \ {day} : book.net[d] <= -DayLossLimit
      BY <1>2, <1>4
    <2> QED BY <2>1, <2>2, <2>3
  <1>7. SoundBook(after, now) /\ ~Holds(after)
    BY <1>5, <1>6 DEF SoundBook, Holds
  <1>8. ASSUME LossBounded(book), price >= pos.entry - 4 PROVE LossBounded(after)
    BY <1>1, <1>2, <1>4, <1>5, <1>8, BtNumbers DEF LossBounded
  <1> QED BY <1>3, <1>7, <1>8

\* A position meets a bar: it is closed, or its mark rises.
LEMMA MetIs ==
    ASSUME NEW now \in Nat, NEW book, SoundBook(book, now), Holds(book), NEW bar, CandleOK(bar),
           NEW t \in Nat, now <= t
    PROVE  /\ SoundBook(Met(book, bar, t), t) /\ (LossBounded(book) => LossBounded(Met(book, bar, t)))
           /\ Holds(Met(book, bar, t)) <=> ExitsAt(book.position, bar, t) = {}
           /\ Holds(Met(book, bar, t)) =>
                 /\ Met(book, bar, t).position.pair = book.position.pair
                 /\ Met(book, bar, t).position.at = book.position.at
                 /\ Met(book, bar, t).position.entry = book.position.entry
                 /\ Met(book, bar, t).position.high = PriceMax(book.position.high, bar.high)
  <1> DEFINE pos == book.position
             marked == [pair |-> pos.pair, at |-> pos.at, entry |-> pos.entry, high |-> PriceMax(pos.high, bar.high)]
  <1>1. /\ book = [position |-> pos, lastExit |-> book.lastExit, net |-> book.net, trades |-> book.trades,
                   halted |-> book.halted]
        /\ pos \in BtPositions /\ pos # NoPosition
    BY DEF SoundBook, Books, Holds
  <1>2. /\ pos = [pair |-> pos.pair, at |-> pos.at, entry |-> pos.entry, high |-> pos.high]
        /\ pos.pair \in BtPairs /\ pos.at \in Nat /\ pos.entry \in Nat /\ pos.high \in Nat
    BY <1>1, PositionIs
  <1>3. CASE ExitsAt(pos, bar, t) = {}
    <2> DEFINE after == [position |-> marked, lastExit |-> book.lastExit, net |-> book.net, trades |-> book.trades,
                         halted |-> book.halted]
    <2>1. [pos EXCEPT !.high = PriceMax(pos.high, bar.high)] = marked
      BY <1>2
    <2>2. Met(book, bar, t) = [book EXCEPT !.position = [pos EXCEPT !.high = PriceMax(pos.high, bar.high)]]
      BY <1>3 DEF Met
    <2>3. Met(book, bar, t) = after
      BY <1>1, <2>1, <2>2
    <2>4. marked \in BtPositions /\ marked # NoPosition
      <3>1. marked \in [pair : BtPairs, at : Nat, entry : Nat, high : Nat]
        BY <1>2 DEF PriceMax, CandleOK
      <3>2. "at" \in DOMAIN marked /\ ~("at" \in DOMAIN NoPosition)
        BY DEF NoPosition
      <3> QED BY <3>1, <3>2 DEF BtPositions
    <2>5. marked.at = pos.at /\ marked.pair = pos.pair /\ marked.entry = pos.entry
          /\ marked.high = PriceMax(pos.high, bar.high)
      OBVIOUS
    <2> HIDE DEF marked
    <2>6. after \in Books /\ Holds(after) /\ after.position = marked /\ after.net = book.net /\ after.halted = book.halted
      BY <1>1, <2>4 DEF SoundBook, Books, Holds
    <2>7. SoundBook(after, t)
      BY <1>1, <1>2, <2>5, <2>6 DEF SoundBook
    <2>8. LossBounded(book) => LossBounded(after)
      BY <2>6 DEF LossBounded
    <2> HIDE DEF after
    <2> QED BY <1>3, <2>3, <2>5, <2>6, <2>7, <2>8
  <1>4. CASE ExitsAt(pos, bar, t) # {}
    <2> DEFINE price == CHOOSE x \in ExitsAt(pos, bar, t) : TRUE
    <2>1. price \in Int /\ price >= pos.entry - 4
      BY <1>1, <1>4, ExitPrices
    <2>2. Met(book, bar, t) = Closed(book, price, t)
      BY <1>4 DEF Met
    <2> HIDE DEF price
    <2>3. SoundBook(Closed(book, price, t), now) /\ ~Holds(Closed(book, price, t))
          /\ (LossBounded(book) => LossBounded(Closed(book, price, t)))
      BY <2>1, ClosedIs
    <2>4. SoundBook(Closed(book, price, t), t)
      BY <2>3 DEF SoundBook
    <2> QED BY <1>4, <2>2, <2>3, <2>4
  <1> QED BY <1>3, <1>4

\* A position is opened on a day short of the limit.
LEMMA EnteredIs ==
    ASSUME NEW now \in Nat, NEW book, SoundBook(book, now), NEW p \in BtPairs, NEW bar, CandleOK(bar),
           NEW t \in Nat, DayOf(t) \in BtDays, ~LimitHit(book.net, t)
    PROVE  LET after == [book EXCEPT !.position = Opened(p, bar, t)]
           IN  /\ SoundBook(after, t) /\ (LossBounded(book) => LossBounded(after))
               /\ Holds(after) /\ after.position = Opened(p, bar, t)
  <1> DEFINE pos == Opened(p, bar, t)
             after == [position |-> pos, lastExit |-> book.lastExit, net |-> book.net, trades |-> book.trades,
                       halted |-> book.halted]
  <1>1. /\ book = [position |-> book.position, lastExit |-> book.lastExit, net |-> book.net, trades |-> book.trades,
                   halted |-> book.halted]
    BY DEF SoundBook, Books
  <1>2. [book EXCEPT !.position = pos] = after
    BY <1>1
  <1>3. pos \in BtPositions /\ pos # NoPosition /\ pos.at = t
    BY OpenedIs
  <1> HIDE DEF pos
  <1>4. after \in Books /\ Holds(after) /\ after.position = pos /\ after.net = book.net /\ after.halted = book.halted
    BY <1>1, <1>3 DEF SoundBook, Books, Holds
  <1>5. book.net[DayOf(t)] > -DayLossLimit
    BY BtNumbers DEF LimitHit, SoundBook, Books
  <1>6. SoundBook(after, t)
    BY <1>3, <1>4, <1>5 DEF SoundBook
  <1>7. LossBounded(book) => LossBounded(after)
    BY <1>4 DEF LossBounded
  <1> HIDE DEF after
  <1> QED BY <1>2, <1>4, <1>6, <1>7 DEF pos

\* With time, a book stays sound.
LEMMA LaterSound ==
    ASSUME NEW now \in Nat, NEW t \in Nat, now <= t, NEW book, SoundBook(book, now)
    PROVE  SoundBook(book, t)
  <1>1. ASSUME Holds(book) PROVE book.position.at \in Nat
    BY <1>1, PositionIs DEF SoundBook, Books, Holds
  <1> QED BY <1>1 DEF SoundBook

\* Of the pairs with a signal there is a best one.
LEMMA BestIs ==
    ASSUME NEW ready \in SUBSET (DOMAIN ScanOrder), ready # {}, NEW bar,
           \A i \in ready : bar[ScanOrder[i]].score \in Nat
    PROVE  \E i \in ready : \A j \in ready \ {i} : Better(bar, i, j)
  <1> DEFINE score(i) == bar[ScanOrder[i]].score
             n == Len(ScanOrder)
             Bounded(k) == \E m \in Nat : \A i \in ready : i <= k => score(i) <= m
             T == {k \in Nat : Bounded(k)}
  <1>1. n \in Nat /\ \A i \in ready : i \in Nat /\ i <= n /\ i >= 1
    BY BacktestConstants
  <1>2. 0 \in T
    BY <1>1
  <1>3. ASSUME NEW k \in Nat, k \in T PROVE k + 1 \in T
    <2>1. PICK m \in Nat : \A i \in ready : i <= k => score(i) <= m
      BY <1>3
    <2> DEFINE more == IF k + 1 \in ready /\ score(k + 1) > m THEN score(k + 1) ELSE m
    <2>2. more \in Nat /\ more >= m /\ (k + 1 \in ready => score(k + 1) <= more)
      OBVIOUS
    <2>3. ASSUME NEW i \in ready, i <= k + 1 PROVE score(i) <= more
      <3>1. i \in Nat /\ score(i) \in Nat
        BY <1>1
      <3>2. CASE i = k + 1
        BY <2>2, <3>2
      <3>3. CASE i <= k
        BY <2>1, <2>2, <3>1, <3>3
      <3> QED BY <2>3, <3>1, <3>2, <3>3
    <2> HIDE DEF more
    <2> QED BY <2>2, <2>3
  <1>4. Nat \subseteq T
    <2> HIDE DEF T
    <2> QED BY <1>2, <1>3, SetInduction
  <1>5. PICK m \in Nat : \A i \in ready : score(i) <= m
    BY <1>1, <1>4
  \* How far the scores are from m: the least is that of the best score.
  <1> DEFINE Gap == {m - score(i) : i \in ready}
  <1>6. Gap \in SUBSET Nat /\ Gap # {}
    BY <1>5
  <1>7. PICK g \in Gap : \A h \in Gap : g <= h
    BY <1>6, LeastNatural
  <1>8. PICK top \in ready : \A j \in ready : score(j) <= score(top)
    <2>1. PICK top \in ready : g = m - score(top)
      BY <1>7
    <2>2. ASSUME NEW j \in ready PROVE score(j) <= score(top)
      <3>1. m - score(top) <= m - score(j)
        BY <1>7, <2>1
      <3> QED BY <3>1
    <2> QED BY <2>2
  <1> DEFINE Tops == {i \in ready : score(i) = score(top)}
  <1>9. Tops \in SUBSET Nat /\ Tops # {}
    BY <1>1
  <1>10. PICK i \in Tops : \A j \in Tops : i <= j
    BY <1>9, LeastNatural
  <1>11. ASSUME NEW j \in ready \ {i} PROVE score(i) > score(j) \/ (score(i) = score(j) /\ i < j)
    <2>1. CASE j \in Tops
      BY <1>1, <1>10, <2>1
    <2>2. CASE ~(j \in Tops)
      BY <1>8, <1>10, <2>2
    <2> QED BY <2>1, <2>2
  <1> QED BY <1>10, <1>11 DEF Better

-----------------------------------------------------------------------------
\* A pair's own backtest meets a bar.
LEMMA OwnBar ==
    ASSUME BtTypes, BtBooks, NEW p \in BtPairs, NEW bar, CandleOK(bar), NEW t \in Nat, minute < t, DayOf(t) \in BtDays
    PROVE  /\ SoundBook(AfterOwnBar(p, bar, t), t) /\ (LossBounded(alone[p]) => LossBounded(AfterOwnBar(p, bar, t)))
           /\ Holds(AfterOwnBar(p, bar, t)) => AfterOwnBar(p, bar, t).position.pair = p
           /\ AfterOwnBar(p, bar, t).position = Opened(p, bar, t) => bar.score > 0
           /\ Holds(AfterOwnBar(p, bar, t)) =>
                 \/ AfterOwnBar(p, bar, t).position = Opened(p, bar, t)
                 \/ /\ Holds(alone[p]) /\ ExitsAt(alone[p].position, bar, t) = {}
                    /\ AfterOwnBar(p, bar, t) = Met(alone[p], bar, t)
           /\ Holds(alone[p]) /\ ExitsAt(alone[p].position, bar, t) = {} =>
                 AfterOwnBar(p, bar, t) = Met(alone[p], bar, t)
  <1> DEFINE book == IF Holds(alone[p]) THEN Met(alone[p], bar, t) ELSE alone[p]
             new == Opened(p, bar, t)
             after == AfterOwnBar(p, bar, t)
  <1>1. minute \in Nat /\ minute <= t /\ SoundBook(alone[p], minute) /\ (Holds(alone[p]) => alone[p].position.pair = p)
    BY DEF BtTypes, BtBooks
  <1>2. /\ SoundBook(book, t) /\ (LossBounded(alone[p]) => LossBounded(book))
        /\ Holds(book) <=> Holds(alone[p]) /\ ExitsAt(alone[p].position, bar, t) = {}
        /\ Holds(book) => book.position.pair = p /\ book.position.at <= minute
    <2>1. CASE Holds(alone[p])
      <3>1. alone[p].position.at <= minute
        BY <1>1, <2>1 DEF SoundBook
      <3> QED BY <1>1, <2>1, <3>1, MetIs
    <2>2. CASE ~Holds(alone[p])
      BY <1>1, <2>2, LaterSound
    <2> QED BY <2>1, <2>2
  <1>3. new # NoPosition /\ new.at = t /\ new.pair = p
    BY OpenedIs
  <1>4. book.position # new
    <2>1. CASE Holds(book)
      BY <1>1, <1>2, <1>3, <2>1 DEF BtTypes
    <2>2. CASE ~Holds(book)
      BY <1>3, <2>2 DEF Holds
    <2> QED BY <2>1, <2>2
  <1>5. after = IF Holds(book) \/ Cooling(book, p, t) \/ LimitHit(book.net, t) \/ bar.score = 0
                THEN book ELSE [book EXCEPT !.position = new]
    BY DEF AfterOwnBar
  <1>6. Holds(book) => Holds(alone[p]) /\ book = Met(alone[p], bar, t)
    BY <1>2
  <1> HIDE DEF book, new, after
  <1>7. CASE after = book
    BY <1>2, <1>4, <1>6, <1>7 DEF after, new
  <1>8. CASE after # book
    <2>1. ~Holds(book) /\ ~LimitHit(book.net, t) /\ bar.score # 0 /\ after = [book EXCEPT !.position = new]
      BY <1>5, <1>8
    <2>2. /\ SoundBook(after, t) /\ (LossBounded(book) => LossBounded(after))
          /\ Holds(after) /\ after.position = new
      BY <1>2, <2>1, EnteredIs DEF new
    <2> QED BY <1>2, <1>3, <1>6, <2>1, <2>2 DEF after, new, CandleOK
  <1> QED BY <1>7, <1>8

\* The backtest of all pairs meets the bars of a timestamp.
LEMMA CommonBar ==
    ASSUME BtTypes, BtBooks, NEW some \in SUBSET BtPairs, NEW bar, DOMAIN bar = some,
           \A p \in some : CandleOK(bar[p]), NEW t \in Nat, minute < t, DayOf(t) \in BtDays
    PROVE  /\ SoundBook(AfterExit(bar, t), t) /\ (LossBounded(together) => LossBounded(AfterExit(bar, t)))
           /\ SoundBook(AfterEntry(AfterExit(bar, t), bar, t), t)
           /\ LossBounded(together) => LossBounded(AfterEntry(AfterExit(bar, t), bar, t))
           /\ Holds(AfterEntry(AfterExit(bar, t), bar, t)) =>
                 \/ AfterEntry(AfterExit(bar, t), bar, t).position.pair \in some
                 \/ Holds(together) /\ AfterEntry(AfterExit(bar, t), bar, t).position.pair = together.position.pair
  <1> DEFINE current == together.position.pair
             book == AfterExit(bar, t)
             ready == Signalled(book, bar, t)
             after == AfterEntry(book, bar, t)
  <1>1. minute \in Nat /\ minute <= t /\ SoundBook(together, minute)
    BY DEF BtTypes, BtBooks
  <1>2. /\ SoundBook(book, t) /\ (LossBounded(together) => LossBounded(book))
        /\ Holds(book) => Holds(together) /\ book.position.pair = current
    <2>1. CASE Holds(together) /\ current \in some
      <3>1. book = Met(together, bar[current], t) /\ CandleOK(bar[current])
        BY <2>1 DEF AfterExit
      <3> QED BY <1>1, <2>1, <3>1, MetIs
    <2>2. CASE ~(Holds(together) /\ current \in some)
      <3>1. book = together
        BY <2>2 DEF AfterExit
      <3> QED BY <1>1, <3>1, LaterSound
    <2> QED BY <2>1, <2>2
  <1> HIDE DEF current, book
  <1>3. CASE after = book
    BY <1>2, <1>3 DEF current, book, after
  <1>4. CASE Holds(book) \/ LimitHit(book.net, t) \/ ready = {}
    BY <1>3, <1>4 DEF AfterEntry
  <1>5. CASE ~(Holds(book) \/ LimitHit(book.net, t) \/ ready = {})
    <2> DEFINE best == ScanOrder[CHOOSE i \in ready : \A j \in ready \ {i} : Better(bar, i, j)]
    <2>1. ready \subseteq DOMAIN ScanOrder /\ \A i \in ready : ScanOrder[i] \in some
      BY DEF Signalled
    <2>2. \A i \in ready : bar[ScanOrder[i]].score \in Nat
      BY <2>1 DEF CandleOK
    <2>3. \E i \in ready : \A j \in ready \ {i} : Better(bar, i, j)
      <3> HIDE DEF ready
      <3> QED BY <1>5, <2>1, <2>2, BestIs
    <2>4. best \in some
      <3> HIDE DEF ready
      <3> QED BY <2>1, <2>3
    <2>5. after = [book EXCEPT !.position = Opened(best, bar[best], t)]
      BY <1>5 DEF AfterEntry
    <2> HIDE DEF best, ready, after
    <2>6. CandleOK(bar[best]) /\ best \in BtPairs
      BY <2>4
    <2>7. ~LimitHit(book.net, t)
      BY <1>5
    <2>8. /\ SoundBook(after, t) /\ (LossBounded(book) => LossBounded(after))
          /\ Holds(after) /\ after.position = Opened(best, bar[best], t)
      BY <1>2, <2>5, <2>6, <2>7, EnteredIs
    <2>9. after.position.pair = best
      BY <2>6, <2>8, OpenedIs
    <2> QED BY <1>2, <2>4, <2>8, <2>9 DEF book, after
  <1> QED BY <1>4, <1>5

\* Where one pair only has candles, the two simulators do the same.
LEMMA OnePairBar ==
    ASSUME BtTypes, BtBooks, NEW p \in BtPairs, together = alone[p], NEW bar, DOMAIN bar = {p},
           CandleOK(bar[p]), NEW t \in Nat
    PROVE  /\ AfterEntry(AfterExit(bar, t), bar, t) = AfterOwnBar(p, bar[p], t)
           /\ KeptOut(AfterExit(bar, t), bar, t) = {}
  <1> DEFINE book == AfterExit(bar, t)
             ready == Signalled(book, bar, t)
             best == ScanOrder[CHOOSE i \in ready : \A j \in ready \ {i} : Better(bar, i, j)]
  <1>1. book = IF Holds(alone[p]) THEN Met(alone[p], bar[p], t) ELSE alone[p]
    BY DEF AfterExit, BtBooks
  <1>2. Holds(book) => book.position.pair = p
    <2>1. CASE Holds(alone[p])
      <3>1. book = Met(alone[p], bar[p], t) /\ alone[p].position.pair = p
        BY <1>1, <2>1 DEF BtBooks
      <3> SUFFICES ASSUME Holds(Met(alone[p], bar[p], t)) PROVE Met(alone[p], bar[p], t).position.pair = p
        BY <3>1
      <3>2. minute \in Nat /\ SoundBook(alone[p], minute)
        BY DEF BtTypes, BtBooks
      <3>3. ExitsAt(alone[p].position, bar[p], t) = {}
        <4> SUFFICES ASSUME ExitsAt(alone[p].position, bar[p], t) # {} PROVE FALSE
          OBVIOUS
        <4> DEFINE price == CHOOSE x \in ExitsAt(alone[p].position, bar[p], t) : TRUE
        <4>1. Met(alone[p], bar[p], t) = Closed(alone[p], price, t)
          BY DEF Met
        <4>2. price \in Int
          BY <2>1, <3>2, ExitPrices DEF SoundBook, Books, Holds
        <4> HIDE DEF price
        <4> QED BY <2>1, <3>2, <4>1, <4>2, ClosedIs
      <3>4. /\ alone[p] = [position |-> alone[p].position, lastExit |-> alone[p].lastExit, net |-> alone[p].net,
                           trades |-> alone[p].trades, halted |-> alone[p].halted]
            /\ alone[p].position = [pair |-> alone[p].position.pair, at |-> alone[p].position.at,
                                    entry |-> alone[p].position.entry, high |-> alone[p].position.high]
        BY <2>1, <3>2, PositionIs DEF SoundBook, Books, Holds
      <3>5. Met(alone[p], bar[p], t).position.pair = alone[p].position.pair
        BY <3>3, <3>4 DEF Met
      <3> QED BY <3>1, <3>5
    <2>2. CASE ~Holds(alone[p])
      BY <1>1, <2>2
    <2> QED BY <2>1, <2>2
  <1> HIDE DEF book
  <1>3. ready \in SUBSET (DOMAIN ScanOrder) /\ \A i \in ready : ScanOrder[i] = p
    BY DEF Signalled
  <1>4. ready = {} <=> bar[p].score = 0 \/ Cooling(book, p, t)
    BY DEF Signalled, BtPairs, CandleOK
  <1>5. ready # {} => best = p
    <2> HIDE DEF ready
    <2> SUFFICES ASSUME ready # {} PROVE best = p
      OBVIOUS
    <2>1. \A i \in ready : bar[ScanOrder[i]].score \in Nat
      BY <1>3 DEF CandleOK
    <2>2. \E i \in ready : \A j \in ready \ {i} : Better(bar, i, j)
      BY <1>3, <2>1, BestIs
    <2> QED BY <1>3, <2>2
  <1>6. AfterEntry(book, bar, t) = IF Holds(book) \/ LimitHit(book.net, t) \/ ready = {} THEN book
                                   ELSE [book EXCEPT !.position = Opened(best, bar[best], t)]
    BY DEF AfterEntry
  <1>7. AfterOwnBar(p, bar[p], t) = IF Holds(book) \/ Cooling(book, p, t) \/ LimitHit(book.net, t) \/ bar[p].score = 0
                                    THEN book ELSE [book EXCEPT !.position = Opened(p, bar[p], t)]
    BY <1>1 DEF AfterOwnBar
  <1> HIDE DEF ready, best
  <1>8. AfterEntry(book, bar, t) = AfterOwnBar(p, bar[p], t)
    BY <1>4, <1>5, <1>6, <1>7
  <1>9. KeptOut(book, bar, t) = {}
    BY <1>2 DEF KeptOut
  <1> QED BY <1>8, <1>9 DEF book

-----------------------------------------------------------------------------
\* The live daemon sees a bid.
LEMMA WatchedIs ==
    ASSUME NEW pos \in BtPositions, NEW bid \in Nat, NEW t \in Nat, NEW bull \in BOOLEAN
    PROVE  /\ Watched(pos, bid, t, bull) \in BtPositions
           /\ Watched(pos, bid, t, bull) # NoPosition =>
                 /\ pos # NoPosition
                 /\ Watched(pos, bid, t, bull) = [pair |-> pos.pair, at |-> pos.at, entry |-> pos.entry,
                                                  high |-> PriceMax(pos.high, bid)]
                 /\ ~LiveExits(Watched(pos, bid, t, bull), bid, t, bull)
  <1>1. CASE pos = NoPosition
    BY <1>1 DEF Watched
  <1>2. CASE pos # NoPosition
    <2> DEFINE marked == [pair |-> pos.pair, at |-> pos.at, entry |-> pos.entry, high |-> PriceMax(pos.high, bid)]
    <2>1. /\ pos = [pair |-> pos.pair, at |-> pos.at, entry |-> pos.entry, high |-> pos.high]
          /\ pos.pair \in BtPairs /\ pos.at \in Nat /\ pos.entry \in Nat /\ pos.high \in Nat
      BY <1>2, PositionIs
    <2>2. [pos EXCEPT !.high = PriceMax(@, bid)] = marked
      BY <2>1
    <2>3. marked \in [pair : BtPairs, at : Nat, entry : Nat, high : Nat]
      BY <2>1 DEF PriceMax
    <2>4. Watched(pos, bid, t, bull) = IF LiveExits(marked, bid, t, bull) THEN NoPosition ELSE marked
      BY <1>2, <2>2 DEF Watched
    <2> HIDE DEF marked
    <2>5. Watched(pos, bid, t, bull) \in BtPositions
      BY <2>3, <2>4 DEF BtPositions
    <2> QED BY <1>2, <2>4, <2>5 DEF marked
  <1> QED BY <1>1, <1>2

\* What the bids of a bar leave of a live position, the bar leaves of the backtest's.
LEMMA LiveBar ==
    ASSUME NEW pos \in BtPositions, NEW sim \in BtPositions, Follows(pos, sim), NEW bar, CandleOK(bar), NEW t \in Nat
    PROVE  /\ LiveAfter(pos, bar, t) \in BtPositions
           /\ LiveAfter(pos, bar, t) # NoPosition =>
                 /\ sim # NoPosition /\ ExitsAt(sim, bar, t) = {}
                 /\ LiveAfter(pos, bar, t).pair = sim.pair /\ LiveAfter(pos, bar, t).at = sim.at
                 /\ LiveAfter(pos, bar, t).entry = sim.entry
                 /\ LiveAfter(pos, bar, t).high >= PriceMax(sim.high, bar.high)
  <1> DEFINE first == IF bar.lowFirst THEN bar.low ELSE bar.high
             second == IF bar.lowFirst THEN bar.high ELSE bar.low
             one == Watched(pos, first, t, bar.bull)
             two == Watched(one, second, t, bar.bull)
             three == Watched(two, bar.close, t, bar.bull)
  <1>1. first \in Nat /\ second \in Nat /\ bar.close \in Nat /\ bar.bull \in BOOLEAN /\ {first, second} = {bar.low, bar.high}
    BY DEF CandleOK
  <1>2. LiveAfter(pos, bar, t) = three
    BY DEF LiveAfter
  <1> HIDE DEF first, second
  <1>3. /\ one \in BtPositions
        /\ one # NoPosition => /\ pos # NoPosition /\ ~LiveExits(one, first, t, bar.bull)
                               /\ one = [pair |-> pos.pair, at |-> pos.at, entry |-> pos.entry, high |-> PriceMax(pos.high, first)]
    BY <1>1, WatchedIs
  <1> HIDE DEF one
  <1>4. /\ two \in BtPositions
        /\ two # NoPosition => /\ one # NoPosition /\ ~LiveExits(two, second, t, bar.bull)
                               /\ two = [pair |-> one.pair, at |-> one.at, entry |-> one.entry, high |-> PriceMax(one.high, second)]
    BY <1>1, <1>3, WatchedIs
  <1> HIDE DEF two
  <1>5. /\ three \in BtPositions
        /\ three # NoPosition => /\ two # NoPosition /\ ~LiveExits(three, bar.close, t, bar.bull)
                                 /\ three = [pair |-> two.pair, at |-> two.at, entry |-> two.entry, high |-> PriceMax(two.high, bar.close)]
    BY <1>1, <1>4, WatchedIs
  <1> HIDE DEF three
  <1>6. ASSUME three # NoPosition
        PROVE  /\ sim # NoPosition /\ ExitsAt(sim, bar, t) = {}
               /\ three.pair = sim.pair /\ three.at = sim.at /\ three.entry = sim.entry
               /\ three.high >= PriceMax(sim.high, bar.high)
    <2>1. /\ pos # NoPosition /\ one # NoPosition /\ two # NoPosition /\ sim # NoPosition
          /\ ~LiveExits(one, first, t, bar.bull) /\ ~LiveExits(two, second, t, bar.bull)
          /\ ~LiveExits(three, bar.close, t, bar.bull)
      BY <1>3, <1>4, <1>5, <1>6 DEF Follows
    <2>2. /\ sim.at \in Nat /\ sim.entry \in Nat /\ sim.high \in Nat /\ pos.high \in Nat /\ pos.high >= sim.high
          /\ pos.pair = sim.pair /\ pos.at = sim.at /\ pos.entry = sim.entry
      BY <2>1, PositionIs DEF Follows
    <2>3. /\ one.pair = sim.pair /\ one.at = sim.at /\ one.entry = sim.entry /\ one.high = PriceMax(pos.high, first)
      BY <1>3, <2>1, <2>2
    <2>4. /\ two.pair = sim.pair /\ two.at = sim.at /\ two.entry = sim.entry /\ two.high = PriceMax(one.high, second)
      BY <1>4, <2>1, <2>3
    <2>5. /\ three.pair = sim.pair /\ three.at = sim.at /\ three.entry = sim.entry
          /\ three.high = PriceMax(two.high, bar.close)
      BY <1>5, <1>6, <2>4
    <2>6. /\ one.high \in Nat /\ two.high \in Nat /\ three.high \in Nat
          /\ one.high >= sim.high /\ two.high >= sim.high /\ three.high >= sim.high
          /\ one.high >= first /\ two.high >= one.high /\ two.high >= second /\ three.high >= two.high
      BY <1>1, <2>2, <2>3, <2>4, <2>5 DEF PriceMax
    <2>7. three.high >= PriceMax(sim.high, bar.high)
      BY <1>1, <2>6 DEF PriceMax, CandleOK
    <2>8. \E z \in BtPositions : /\ z.at = sim.at /\ z.entry = sim.entry /\ z.high \in Nat /\ z.high >= sim.high
                                 /\ ~LiveExits(z, bar.low, t, bar.bull)
      BY <1>1, <1>3, <1>4, <2>1, <2>3, <2>4, <2>6
    <2>9. \E z \in BtPositions : z.at = sim.at /\ z.entry = sim.entry /\ ~LiveExits(z, bar.high, t, bar.bull)
      BY <1>1, <1>3, <1>4, <2>1, <2>3, <2>4, <2>6
    <2> DEFINE stop == StopFor(sim.entry, sim.high)
    <2>10. stop \in Int /\ stop >= sim.entry - 4
      <3>1. sim.entry \in Int /\ sim.high \in Int /\ sim.high <= sim.high
        BY <2>2
      <3> QED BY <3>1, StopRises
    <2>11. ~(bar.low <= stop /\ t - sim.at >= MIN_HOLD /\ ~bar.bull)
      <3> SUFFICES ASSUME bar.low <= stop, t - sim.at >= MIN_HOLD, ~bar.bull PROVE FALSE
        OBVIOUS
      <3>1. PICK z \in BtPositions : /\ z.at = sim.at /\ z.entry = sim.entry /\ z.high \in Nat /\ z.high >= sim.high
                                    /\ ~LiveExits(z, bar.low, t, bar.bull)
        BY <2>8
      <3>2. stop <= StopFor(sim.entry, z.high) /\ StopFor(sim.entry, z.high) \in Int
        <4>1. sim.entry \in Int /\ sim.high \in Int /\ z.high \in Int /\ sim.high <= z.high /\ z.high <= z.high
          BY <2>2, <3>1
        <4> QED BY <4>1, StopRises
      <3>3. bar.low <= StopFor(z.entry, z.high)
        BY <2>10, <3>1, <3>2 DEF CandleOK
      <3> QED BY <3>1, <3>3 DEF LiveExits
    <2>12. bar.high - sim.entry < TAKE_PROFIT
      BY <2>2, <2>9 DEF LiveExits, CandleOK, TAKE_PROFIT
    <2>13. ~(t - sim.at >= TIME_EXIT /\ Flat(sim, bar.close))
      BY <2>1, <2>5 DEF LiveExits, Flat
    <2> HIDE DEF stop
    <2>14. ExitsAt(sim, bar, t) = {}
      <3>1. ~(stop - sim.entry <= HARD_STOP)
        BY <2>2, <2>10 DEF HARD_STOP
      <3>2. ~(bar.high >= sim.entry + TAKE_PROFIT) /\ bar.high < sim.entry + TAKE_PROFIT
        BY <2>2, <2>12 DEF TAKE_PROFIT, CandleOK
      <3> QED BY <2>11, <2>13, <3>1, <3>2 DEF ExitsAt, stop
    <2> QED BY <2>1, <2>5, <2>7, <2>14
  <1> QED BY <1>2, <1>5, <1>6

-----------------------------------------------------------------------------
\* The pairs scanned are finitely many.
LEMMA PairsAreFinite == IsFiniteSet(BtPairs)
  <1>1. Len(ScanOrder) \in Nat /\ DOMAIN ScanOrder = 1..Len(ScanOrder)
    BY BacktestConstants
  <1>2. IsFiniteSet(DOMAIN ScanOrder)
    BY <1>1, FS_Interval
  <1>3. ScanOrder \in Surjection(DOMAIN ScanOrder, BtPairs)
    BY BacktestConstants DEF Surjection, BtPairs
  <1> QED BY <1>2, <1>3, FS_Surjection

\* The backtests start with empty books.
LEMMA BacktestStarts == BacktestInit => BtInv
  <1> SUFFICES ASSUME BacktestInit PROVE BtInv
    OBVIOUS
  <1> USE DEF BacktestInit
  <1>1. SoundBook(EmptyBook, minute) /\ LossBounded(EmptyBook) /\ ~Holds(EmptyBook)
    <2>1. EmptyBook \in Books
      BY DEF EmptyBook, Books, BtPositions
    <2>2. EmptyBook.position = NoPosition /\ EmptyBook.halted = FALSE /\ \A d \in BtDays : EmptyBook.net[d] = 0
      BY DEF EmptyBook
    <2>3. ~(0 <= -DayLossLimit) /\ 0 > -DayLossLimit - WorstTrade
      BY BtNumbers
    <2> QED BY <2>1, <2>2, <2>3 DEF SoundBook, LossBounded, Holds
  <1>2. \A p \in BtPairs : alone[p] = EmptyBook
    OBVIOUS
  <1>3. BtTypes
    BY BtNumbers DEF BtTypes, BtPositions, LastBars
  <1>4. BtBooks
    BY <1>1, <1>2 DEF BtBooks, Barred
  <1>5. OnePairAgrees /\ SkippedCounted
    BY <1>2 DEF OnePairAgrees, SkippedCounted
  <1>6. \A p \in BtPairs : Follows(live[p], alone[p].position)
    BY DEF Follows
  <1> QED BY <1>3, <1>4, <1>5, <1>6 DEF BtInv

\* The candles of one timestamp.
LEMMA BarStep == BtInv /\ Bar => BtInv'
  <1> SUFFICES ASSUME BtInv, Bar PROVE BtInv'
    OBVIOUS
  <1> USE DEF BtInv
  <1>1. PICK some \in (SUBSET BtPairs) \ {{}} : \E bar \in [some -> UNION {BarsOf[p] : p \in some}] :
          LET t == minute'
              exited == AfterExit(bar, t)
              out == KeptOut(exited, bar, t)
              Enters(p) == alone'[p].position = Opened(p, bar[p], t)
          IN  /\ \A p \in some : bar[p] \in BarsOf[p]
              /\ lastBar' = [p \in BtPairs |->
                                IF p \in some THEN [at |-> t, close |-> bar[p].close] ELSE lastBar[p]]
              /\ alone' = [p \in BtPairs |-> IF p \in some THEN AfterOwnBar(p, bar[p], t) ELSE alone[p]]
              /\ together' = AfterEntry(exited, bar, t)
              /\ skipped' = skipped + Cardinality(out)
              /\ missed' = missed + (IF LimitHit(exited.net, t) \/ ~Holds(exited) THEN 0
                                     ELSE Cardinality({p \in some \ {exited.position.pair} : Enters(p)}))
              /\ live' = [p \in BtPairs |-> CASE p \notin some -> live[p]
                                              [] p \in some /\ Enters(p) -> alone'[p].position
                                              [] OTHER -> LiveAfter(live[p], bar[p], t)]
    BY DEF Bar
  <1> DEFINE t == minute'
  <1>2. PICK bar \in [some -> UNION {BarsOf[p] : p \in some}] :
          LET exited == AfterExit(bar, t)
              out == KeptOut(exited, bar, t)
              Enters(p) == alone'[p].position = Opened(p, bar[p], t)
          IN  /\ \A p \in some : bar[p] \in BarsOf[p]
              /\ lastBar' = [p \in BtPairs |->
                                IF p \in some THEN [at |-> t, close |-> bar[p].close] ELSE lastBar[p]]
              /\ alone' = [p \in BtPairs |-> IF p \in some THEN AfterOwnBar(p, bar[p], t) ELSE alone[p]]
              /\ together' = AfterEntry(exited, bar, t)
              /\ skipped' = skipped + Cardinality(out)
              /\ missed' = missed + (IF LimitHit(exited.net, t) \/ ~Holds(exited) THEN 0
                                     ELSE Cardinality({p \in some \ {exited.position.pair} : Enters(p)}))
              /\ live' = [p \in BtPairs |-> CASE p \notin some -> live[p]
                                              [] p \in some /\ Enters(p) -> alone'[p].position
                                              [] OTHER -> LiveAfter(live[p], bar[p], t)]
    BY <1>1
  <1> DEFINE exited == AfterExit(bar, t)
             out == KeptOut(exited, bar, t)
             Enters(p) == alone'[p].position = Opened(p, bar[p], t)
  <1>3. /\ DOMAIN bar = some /\ \A p \in some : CandleOK(bar[p])
    BY <1>2, BtNumbers
  <1>4. t \in Nat /\ minute \in Nat /\ minute < t /\ DayOf(t) \in BtDays /\ bars \in Nat /\ bars < MaxBars /\ bars' = bars + 1
    <2>1. PICK gap \in Gaps : minute' = minute + gap
      BY DEF Bar
    <2>2. gap \in Nat /\ gap # 0
      BY BacktestConstants
    <2>3. DayOf(t) \in BtDays /\ bars < MaxBars /\ bars' = bars + 1
      BY DEF Bar
    <2>4. minute \in Nat /\ bars \in Nat
      BY DEF BtTypes
    <2> QED BY <2>1, <2>2, <2>3, <2>4
  <1>5. ASSUME NEW p \in some
        PROVE  /\ alone'[p] = AfterOwnBar(p, bar[p], t) /\ lastBar'[p] = [at |-> t, close |-> bar[p].close]
               /\ live'[p] = IF Enters(p) THEN alone'[p].position ELSE LiveAfter(live[p], bar[p], t)
    BY <1>2
  <1>5a. ASSUME NEW p \in some PROVE lastBar'[p] # NoBar
    <2>1. NoBar.at = -1
      BY DEF NoBar, Never
    <2>2. lastBar'[p] = [at |-> t, close |-> bar[p].close]
      BY <1>5
    <2>3. lastBar'[p].at = t
      BY <2>2
    <2> QED BY <1>4, <2>1, <2>3
  <1>6. ASSUME NEW p \in BtPairs \ some
        PROVE  alone'[p] = alone[p] /\ lastBar'[p] = lastBar[p] /\ live'[p] = live[p]
    BY <1>2
  <1>7. /\ together' = AfterEntry(exited, bar, t) /\ skipped' = skipped + Cardinality(out)
        /\ missed' = missed + (IF LimitHit(exited.net, t) \/ ~Holds(exited) THEN 0
                               ELSE Cardinality({p \in some \ {exited.position.pair} : Enters(p)}))
    BY <1>2
  <1>8. ASSUME NEW p \in some
        PROVE  /\ SoundBook(alone'[p], t) /\ (LossBounded(alone[p]) => LossBounded(alone'[p]))
               /\ Holds(alone'[p]) => alone'[p].position.pair = p
               /\ Enters(p) => bar[p].score > 0
               /\ Holds(alone[p]) /\ ExitsAt(alone[p].position, bar[p], t) = {} => alone'[p] = Met(alone[p], bar[p], t)
    <2>1. p \in BtPairs /\ CandleOK(bar[p]) /\ BtTypes /\ BtBooks /\ alone'[p] = AfterOwnBar(p, bar[p], t)
      BY <1>3, <1>5
    <2> HIDE DEF BtInv
    <2> QED BY <1>4, <2>1, OwnBar
  <1>9. /\ SoundBook(exited, t) /\ SoundBook(together', t)
        /\ LossBounded(together) => LossBounded(together')
        /\ Holds(together') => \/ together'.position.pair \in some
                               \/ Holds(together) /\ together'.position.pair = together.position.pair
    BY <1>3, <1>4, <1>7, CommonBar
  <1>10. /\ IsFiniteSet(out) /\ Cardinality(out) \in Nat
         /\ (IF LimitHit(exited.net, t) \/ ~Holds(exited) THEN 0
              ELSE Cardinality({p \in some \ {exited.position.pair} : Enters(p)})) \in 0..Cardinality(out)
    <2>1. IsFiniteSet(some)
      BY PairsAreFinite, FS_Subset
    <2>2. IsFiniteSet(out) /\ Cardinality(out) \in Nat
      <3>1. out \subseteq some
        BY <1>3 DEF KeptOut
      <3> HIDE DEF out
      <3> QED BY <2>1, <3>1, FS_Subset, FS_CardinalityType
    <2>3. CASE LimitHit(exited.net, t) \/ ~Holds(exited)
      BY <2>2, <2>3
    <2>4. CASE ~(LimitHit(exited.net, t) \/ ~Holds(exited))
      <3> DEFINE entered == {p \in some \ {exited.position.pair} : Enters(p)}
      <3>1. entered \subseteq out
        BY <1>3, <1>8, <2>4 DEF KeptOut
      <3> HIDE DEF entered, out
      <3>2. IsFiniteSet(entered) /\ Cardinality(entered) \in Nat /\ Cardinality(entered) <= Cardinality(out)
        BY <2>2, <3>1, FS_Subset, FS_CardinalityType
      <3> QED BY <2>2, <2>4, <3>2 DEF entered
    <2> QED BY <2>2, <2>3, <2>4
  <1>11. ASSUME NEW p \in BtPairs
         PROVE  live'[p] \in BtPositions /\ Follows(live'[p], alone'[p].position)
    <2>1. live[p] \in BtPositions /\ Follows(live[p], alone[p].position) /\ SoundBook(alone[p], minute)
      BY DEF BtTypes, BtBooks
    <2>2. alone[p].position \in BtPositions
      BY <2>1 DEF SoundBook, Books
    <2>3. CASE p \notin some
      BY <1>6, <2>1, <2>3
    <2>4. CASE p \in some /\ Enters(p)
      <3>1. live'[p] = alone'[p].position /\ alone'[p].position = Opened(p, bar[p], t)
        BY <1>5, <2>4
      <3>2. Opened(p, bar[p], t) \in BtPositions
        BY <1>3, <1>4, <2>4, OpenedIs
      <3>3. Opened(p, bar[p], t).high \in Nat \/ Opened(p, bar[p], t) = NoPosition
        BY <3>2, PositionIs
      <3> QED BY <3>1, <3>2, <3>3 DEF Follows
    <2>5. CASE p \in some /\ ~Enters(p)
      <3> DEFINE l == LiveAfter(live[p], bar[p], t)
      <3>1. live'[p] = l
        BY <1>5, <2>5
      <3>2. /\ l \in BtPositions
            /\ l # NoPosition => /\ alone[p].position # NoPosition /\ ExitsAt(alone[p].position, bar[p], t) = {}
                                 /\ l.pair = alone[p].position.pair /\ l.at = alone[p].position.at
                                 /\ l.entry = alone[p].position.entry
                                 /\ l.high >= PriceMax(alone[p].position.high, bar[p].high)
        BY <1>3, <1>4, <2>1, <2>2, <2>5, LiveBar
      <3> HIDE DEF l
      <3>3. ASSUME l # NoPosition PROVE Follows(l, alone'[p].position)
        <4>1. Holds(alone[p]) /\ ExitsAt(alone[p].position, bar[p], t) = {}
          BY <3>2, <3>3 DEF Holds
        <4>2. alone'[p] = Met(alone[p], bar[p], t)
          BY <1>8, <2>5, <4>1
        <4>3. minute <= t /\ CandleOK(bar[p])
          BY <1>3, <1>4, <2>5
        <4>4. /\ Holds(Met(alone[p], bar[p], t))
              /\ Met(alone[p], bar[p], t).position.pair = alone[p].position.pair
              /\ Met(alone[p], bar[p], t).position.at = alone[p].position.at
              /\ Met(alone[p], bar[p], t).position.entry = alone[p].position.entry
              /\ Met(alone[p], bar[p], t).position.high = PriceMax(alone[p].position.high, bar[p].high)
          BY <1>4, <2>1, <4>1, <4>3, MetIs
        <4> QED BY <3>2, <3>3, <4>2, <4>4 DEF Follows, Holds
      <3> QED BY <3>1, <3>2, <3>3 DEF Follows
    <2> QED BY <2>3, <2>4, <2>5
  <1>12. BtTypes'
    <2>1. lastBar' \in [BtPairs -> LastBars]
      <3>1. \A p \in some : [at |-> t, close |-> bar[p].close] \in LastBars
        BY <1>3, <1>4 DEF CandleOK, LastBars
      <3> QED BY <1>2, <3>1 DEF BtTypes
    <2>2. live' \in [BtPairs -> BtPositions]
      <3>1. live' = [p \in BtPairs |-> live'[p]]
        BY <1>2
      <3> QED BY <1>11, <3>1
    <2>3. DOMAIN alone' = BtPairs /\ alone' = [p \in BtPairs |-> alone'[p]]
      BY <1>2
    <2>4. skipped' \in Nat /\ missed' \in Nat
      BY <1>7, <1>10 DEF BtTypes
    <2>5. bars' \in 0..(MaxBars + 1)
      BY <1>4, BtNumbers
    <2> QED BY <1>4, <2>1, <2>2, <2>3, <2>4, <2>5 DEF BtTypes
  <1>13. BtBooks'
    <2>1. ASSUME NEW p \in BtPairs
          PROVE  /\ SoundBook(alone'[p], t) /\ (Holds(alone'[p]) => alone'[p].position.pair = p)
                 /\ (bars <= MaxBars => LossBounded(alone'[p]))
                 /\ Holds(alone'[p]) => lastBar'[alone'[p].position.pair] # NoBar
      <3>1. CASE p \in some
        BY <1>4, <1>8, <1>5a, <3>1 DEF BtBooks
      <3>2. CASE p \notin some
        BY <1>4, <1>6, <3>2, LaterSound DEF BtBooks, Barred
      <3> QED BY <3>1, <3>2
    <2>2. Holds(together') => lastBar'[together'.position.pair] # NoBar
      <3> SUFFICES ASSUME Holds(together') PROVE lastBar'[together'.position.pair] # NoBar
        OBVIOUS
      <3>1. CASE together'.position.pair \in some
        BY <1>5a, <3>1
      <3>2. CASE together'.position.pair \notin some
        <4>1. together'.position.pair = together.position.pair /\ lastBar[together.position.pair] # NoBar
          BY <1>9, <3>2 DEF BtBooks, Barred
        <4>2. together'.position.pair \in BtPairs
          BY <1>9, PositionIs DEF SoundBook, Books, Holds
        <4> QED BY <1>6, <3>2, <4>1, <4>2
      <3> QED BY <3>1, <3>2
    <2>3. LossBounded(together') /\ \A p \in BtPairs : LossBounded(alone'[p])
      BY <1>4, <1>9, <2>1, BtNumbers DEF BtBooks
    <2> QED BY <1>9, <2>1, <2>2, <2>3 DEF BtBooks, Barred
  <1>14. OnePairAgrees'
    <2> SUFFICES ASSUME NEW p \in BtPairs, \A r \in BtPairs \ {p} : lastBar'[r] = NoBar
                 PROVE  together' = alone'[p] /\ skipped' = 0
      BY DEF OnePairAgrees
    <2>1. some = {p}
      <3>1. \A r \in some : r = p
        BY <1>5a
      <3>2. some # {}
        OBVIOUS
      <3>3. PICK r \in some : TRUE
        BY <3>2
      <3> QED BY <3>1, <3>3
    <2>2. \A r \in BtPairs \ {p} : lastBar[r] = NoBar
      BY <1>6, <2>1
    <2>3. together = alone[p] /\ skipped = 0
      BY <2>2 DEF OnePairAgrees
    <2>4. /\ AfterEntry(exited, bar, t) = AfterOwnBar(p, bar[p], t)
          /\ out = {}
      BY <1>3, <1>4, <2>1, <2>3, OnePairBar
    <2>5. Cardinality(out) = 0
      BY <2>4, FS_EmptySet
    <2> QED BY <1>5, <1>7, <2>1, <2>3, <2>4, <2>5
  <1>15. SkippedCounted'
    BY <1>7, <1>10 DEF SkippedCounted, BtTypes
  <1> QED BY <1>11, <1>12, <1>13, <1>14, <1>15

\* The data ends.
LEMMA EndStep == BtInv /\ EndOfData => BtInv'
  <1> SUFFICES ASSUME BtInv, EndOfData PROVE BtInv'
    OBVIOUS
  <1> USE DEF BtInv
  <1>1. /\ bars' = MaxBars + 1 /\ together' = AtTheEnd(together)
        /\ alone' = [p \in BtPairs |-> AtTheEnd(alone[p])] /\ live' = [p \in BtPairs |-> NoPosition]
        /\ UNCHANGED <<minute, lastBar, skipped, missed>>
    BY DEF EndOfData
  <1>2. minute \in Nat
    BY DEF BtTypes
  <1>3. ASSUME NEW book, SoundBook(book, minute), Barred(book)
        PROVE  SoundBook(AtTheEnd(book), minute) /\ ~Holds(AtTheEnd(book))
    <2>1. CASE Holds(book)
      <3> DEFINE last == lastBar[book.position.pair]
      <3>1. book.position.pair \in BtPairs
        BY <1>3, <2>1, PositionIs DEF SoundBook, Books, Holds
      <3>2. last \in [at : Nat, close : Nat]
        BY <1>3, <2>1, <3>1 DEF Barred, BtTypes, LastBars
      <3>3. last.close \in Int /\ last.at \in Nat
        BY <3>2
      <3>4. AtTheEnd(book) = Closed(book, last.close, last.at)
        BY <2>1 DEF AtTheEnd
      <3> HIDE DEF last
      <3> QED BY <1>2, <1>3, <2>1, <3>3, <3>4, ClosedIs
    <2>2. CASE ~Holds(book)
      BY <1>3, <2>2 DEF AtTheEnd
    <2> QED BY <2>1, <2>2
  <1>4. BtTypes'
    BY <1>1, BtNumbers DEF BtTypes, BtPositions
  <1>5. BtBooks'
    <2>1. SoundBook(together', minute) /\ ~Holds(together')
      BY <1>1, <1>3 DEF BtBooks
    <2>2. \A p \in BtPairs : SoundBook(alone'[p], minute) /\ ~Holds(alone'[p])
      BY <1>1, <1>3 DEF BtBooks
    <2>3. ~(bars' <= MaxBars)
      BY <1>1, BtNumbers
    <2> QED BY <1>1, <2>1, <2>2, <2>3 DEF BtBooks, Barred
  <1>6. OnePairAgrees' /\ SkippedCounted'
    BY <1>1 DEF OnePairAgrees, SkippedCounted
  <1>7. \A p \in BtPairs : Follows(live'[p], alone'[p].position)
    BY <1>1 DEF Follows
  <1> QED BY <1>4, <1>5, <1>6, <1>7

\* Every step of them keeps the invariant.
LEMMA BacktestStep == BtInv /\ [BacktestNext]_backtestVars => BtInv'
  <1>1. BtInv /\ UNCHANGED backtestVars => BtInv'
    BY DEF backtestVars, BtInv, BtTypes, BtBooks, Barred, OnePairAgrees, SkippedCounted
  <1> QED BY <1>1, BarStep, EndStep DEF BacktestNext

\* It is enough.
LEMMA BtInvAgrees == BtInv => BacktestsAgree
  <1> SUFFICES ASSUME BtInv PROVE BacktestsAgree
    OBVIOUS
  <1> USE DEF BtInv
  <1>1. OnePairAgrees /\ SkippedCounted
    OBVIOUS
  <1>2. LiveExitsFirst
    BY DEF LiveExitsFirst, Follows, Holds
  <1>3. DayLossBounded /\ HaltIsTold
    BY DEF BtBooks, DayLossBounded, HaltIsTold, LossBounded, SoundBook
  <1> QED BY <1>1, <1>2, <1>3 DEF BacktestsAgree

\* The two simulators agree on a pair by itself, the live daemon has ended what a backtest
\* has ended, and no day of a backtest loses more than the limit and one stop
\* (analysis/backtest.ts, exit-decision.ts).
THEOREM BacktestsAlwaysAgree == BacktestSpec => []BacktestsAgree
  <1>1. BacktestSpec => []BtInv
    BY BacktestStarts, BacktestStep, PTL DEF BacktestSpec
  <1> QED BY <1>1, BtInvAgrees, PTL

-----------------------------------------------------------------------------
(* The workers together, one at a time.                                       *)

\* A step of all is a step of the one that runs, and leaves the others alone.
LEMMA OneRuns ==
    [MCNext]_<<focus, tradeVars, dcaVars, pumpVars, arbVars, backtestVars>> =>
        [DcaNext]_dcaVars /\ [PumpNext]_pumpVars /\ [ArbNext]_arbVars /\ [BacktestNext]_backtestVars
  <1> SUFFICES ASSUME [MCNext]_<<focus, tradeVars, dcaVars, pumpVars, arbVars, backtestVars>>
               PROVE  [DcaNext]_dcaVars /\ [PumpNext]_pumpVars /\ [ArbNext]_arbVars /\ [BacktestNext]_backtestVars
    OBVIOUS
  <1> QED BY DEF MCNext

\* What every worker promises holds of all of them: no coin is bought more often than its
\* interval allows, bags and sell requests are kept, arbitrage is within its budgets, and
\* the backtests agree.
THEOREM WorkersAreSafe == MCSpec => []WorkersSafe
  <1>1. MCInit => DcaInit /\ PumpInit /\ ArbInit /\ BacktestInit
    BY DEF MCInit
  <1>2. MCSpec => DcaSpec /\ PumpSpec /\ ArbSpec /\ BacktestSpec
    BY <1>1, OneRuns, PTL DEF MCSpec, DcaSpec, PumpSpec, ArbSpec, BacktestSpec
  <1>3. PacedWhenFlushed /\ BagsTracked /\ RequestsSurvive /\ ArbSafe /\ BacktestsAgree => WorkersSafe
    BY DEF WorkersSafe
  <1> QED BY <1>2, <1>3, PacedUpToSlips, BagsAndRequestsKept, ArbIsSafe, BacktestsAlwaysAgree, PTL

-----------------------------------------------------------------------------
(* The types of the workers: where their numbers end, and what they may name. *)

\* A plan is no larger than maxCoins: all of a coin's predecessors in it were due before it.
LEMMA PlanIsBounded ==
    ASSUME NEW last
    PROVE  /\ decideDcaBuys(last) \subseteq Coins /\ IsFiniteSet(decideDcaBuys(last))
           /\ Cardinality(decideDcaBuys(last)) <= MaxCoins
  <1> DEFINE due == {c \in Coins : IntervalOver(c, last)}
             plan == decideDcaBuys(last)
  <1>1. NumCoins \in Nat /\ MaxCoins \in Nat /\ Coins = 1..NumCoins /\ IsFiniteSet(Coins)
    BY DcaConstants, FS_Interval DEF Coins
  <1>2. /\ plan \subseteq due /\ due \subseteq Coins
        /\ \A c \in plan : Cardinality({d \in due : d < c}) < MaxCoins
    BY DEF decideDcaBuys
  <1> HIDE DEF due, plan
  <1>3. IsFiniteSet(due) /\ IsFiniteSet(plan) /\ Cardinality(plan) \in Nat
    <2>1. IsFiniteSet(due) /\ IsFiniteSet(plan)
      BY <1>1, <1>2, FS_Subset
    <2> QED BY <2>1, FS_CardinalityType
  <1>4. ASSUME plan = {} PROVE Cardinality(plan) <= MaxCoins
    BY <1>1, <1>4, FS_EmptySet
  <1>5. ASSUME plan # {} PROVE Cardinality(plan) <= MaxCoins
    <2> DEFINE T == {NumCoins - c : c \in plan}
    <2>1. T \in SUBSET Nat /\ T # {}
      <3>1. \A c \in plan : c \in 1..NumCoins
        BY <1>1, <1>2
      <3>2. \A c \in plan : NumCoins - c \in Nat
        BY <1>1, <3>1
      <3> QED BY <1>5, <3>2
    <2>2. PICK x \in T : \A y \in T : x <= y
      BY <2>1, LeastNatural
    <2>3. PICK c \in plan : x = NumCoins - c
      BY <2>2
    <2>4. \A d \in plan : d <= c
      <3> SUFFICES ASSUME NEW d \in plan PROVE d <= c
        OBVIOUS
      <3>1. NumCoins - d \in T
        OBVIOUS
      <3>2. c \in 1..NumCoins /\ d \in 1..NumCoins
        BY <1>1, <1>2
      <3>3. NumCoins - c <= NumCoins - d
        BY <2>2, <2>3, <3>1
      <3> QED BY <1>1, <3>2, <3>3
    <2> DEFINE before == {d \in due : d < c}
    <2>5. plan \ {c} \subseteq before /\ IsFiniteSet(before)
      <3>1. plan \ {c} \subseteq before
        BY <1>1, <1>2, <2>4
      <3>2. before \subseteq due
        OBVIOUS
      <3> QED BY <1>3, <3>1, <3>2, FS_Subset
    <2>6. Cardinality(before) < MaxCoins
      BY <1>2, <2>3
    <2> HIDE DEF before
    <2>7. Cardinality(plan \ {c}) <= Cardinality(before) /\ Cardinality(before) \in Nat
      BY <2>5, FS_Subset, FS_CardinalityType
    <2>8. Cardinality(plan \ {c}) = Cardinality(plan) - 1
      BY <1>3, <2>3, FS_RemoveElement
    <2> QED BY <1>1, <1>3, <2>6, <2>7, <2>8
  <1> QED BY <1>1, <1>2, <1>3, <1>4, <1>5 DEF plan

\* What is left of a plan is no larger.
LEMMA PlanShrinks ==
    ASSUME NEW plan \in SUBSET Coins, Cardinality(plan) <= MaxCoins, NEW c \in plan
    PROVE  plan \ {c} \subseteq Coins /\ Cardinality(plan \ {c}) <= MaxCoins
  <1>1. IsFiniteSet(Coins) /\ MaxCoins \in Nat
    BY DcaConstants, FS_Interval DEF Coins
  <1>2. IsFiniteSet(plan)
    BY <1>1, FS_Subset
  <1>3. Cardinality(plan) \in Nat /\ Cardinality(plan \ {c}) = Cardinality(plan) - 1
    BY <1>2, FS_RemoveElement, FS_CardinalityType
  <1> QED BY <1>1, <1>3

\* The type invariant needs the times of the tick as well, for they are saved.
DcaTyped ==
    /\ DcaTypeOK
    /\ DOMAIN dcaTick.last \subseteq Coins
    /\ dcaOrders \in [Coins -> Seq(0..LastTime)]

\* The worker's times in row and entry are those of its coins.
DcaStored(r, l) == DOMAIN Times(r) \subseteq Coins /\ DOMAIN Times(l) \subseteq Coins

\* Every step of dollar-cost averaging keeps the types.
LEMMA DcaTypeStep == DcaTyped /\ [DcaNext]_dcaVars => DcaTyped'
  <1> SUFFICES ASSUME DcaTyped, [DcaNext]_dcaVars PROVE DcaTyped'
    OBVIOUS
  <1> DEFINE Rest == /\ dcaNow \in 0..LastTime /\ dcaFlushed \in -1..LastTime /\ dcaFlushTime \in FlushTimes
                     /\ dcaSlips \in 0..MaxDcaSlips
             Ticks == /\ dcaTick.pc \in {"idle", "plan", "buy"} /\ dcaTick.plan \subseteq Coins
                      /\ Cardinality(dcaTick.plan) <= MaxCoins /\ DOMAIN dcaTick.last \subseteq Coins
             Orders == dcaOrders \in [Coins -> Seq(0..LastTime)]
             Kept == DcaStored(dcaRow, dcaLive)
  <1>1. Rest /\ Ticks /\ Orders /\ Kept
    BY DEF DcaTyped, DcaTypeOK, DcaStored, Times
  <1>2. LastTime \in Nat /\ MaxDcaSlips \in Nat /\ MaxCoins \in Nat
    BY DcaConstants
  <1>3. Rest' /\ Ticks' /\ Orders' /\ Kept' => DcaTyped'
    BY DEF DcaTyped, DcaTypeOK, DcaStored, Times
  <1>4. Cardinality({}) = 0 /\ DOMAIN NoTimes = {} /\ DOMAIN Times(Store!Nothing) = {}
    BY FS_EmptySet, NoKnownTimes
  <1>5. dcaNow \in -1..LastTime
    BY <1>1, <1>2
  <1>6. CASE DcaStart
    <2>1. /\ UNCHANGED <<dcaNow, dcaFlushTime, dcaOrders, dcaSlips>>
          /\ dcaTick' = [pc |-> "plan", poll |-> dcaNow, plan |-> {}, last |-> Times(dcaRow)]
          /\ dcaLive' = Store!Merge(Store!Nothing, dcaLive) /\ dcaRow' \in {dcaRow, dcaLive'}
          /\ dcaFlushed' \in {dcaFlushed, dcaNow}
      BY <1>6 DEF DcaStart, Times, Store!SaveStatus, Store!SavePayload, Store!Merged, Flushed
    <2>2. Times(dcaLive') = Times(dcaLive) /\ Times(dcaRow') \in {Times(dcaRow), Times(dcaLive)}
      BY <2>1, SavedTimes
    <2>3. Rest' /\ Orders'
      BY <1>1, <1>5, <2>1
    <2>4. Ticks'
      BY <1>1, <1>2, <1>4, <2>1 DEF DcaStored
    <2>5. Kept'
      BY <1>1, <2>2 DEF DcaStored
    <2> HIDE DEF Rest, Ticks, Orders, Kept
    <2> QED BY <1>3, <2>3, <2>4, <2>5
  <1>7. CASE DcaIdle \/ DcaFinish
    <2>1. /\ UNCHANGED <<dcaNow, dcaFlushTime, dcaOrders>>
          /\ dcaTick' = [pc |-> "idle", poll |-> dcaTick.poll, last |-> NoTimes, plan |-> {}]
          /\ dcaLive' = Store!Merge([lastBuyAt |-> dcaTick.last], dcaLive) /\ dcaRow' \in {dcaRow, dcaLive'}
          /\ dcaFlushed' \in {dcaFlushed, dcaNow}
          /\ dcaSlips' = dcaSlips \/ (dcaSlips < MaxDcaSlips /\ dcaSlips' = dcaSlips + 1)
      BY <1>7 DEF DcaIdle, DcaFinish, Slip, DcaSave, NoDcaTick, Store!SavePayload, Store!Merged, Flushed
    <2>2. Times(dcaLive') = dcaTick.last /\ Times(dcaRow') \in {Times(dcaRow), dcaTick.last}
      BY <2>1, SavedTimes
    <2>3. Rest'
      BY <1>1, <1>2, <1>5, <2>1
    <2>4. Ticks' /\ Orders'
      BY <1>1, <1>2, <1>4, <2>1
    <2>5. Kept'
      BY <1>1, <2>2 DEF DcaStored
    <2> HIDE DEF Rest, Ticks, Orders, Kept
    <2> QED BY <1>3, <2>3, <2>4, <2>5
  <1>8. CASE DcaPlan
    <2> DEFINE plan == decideDcaBuys(dcaTick.last)
    <2>1. /\ UNCHANGED <<dcaNow, dcaRow, dcaLive, dcaFlushTime, dcaFlushed, dcaOrders, dcaSlips>>
          /\ dcaTick' = [pc |-> "buy", poll |-> dcaTick.poll, last |-> dcaTick.last, plan |-> plan]
      BY <1>8 DEF DcaPlan, Buying
    <2>2. plan \subseteq Coins /\ Cardinality(plan) <= MaxCoins
      BY PlanIsBounded
    <2> HIDE DEF plan
    <2>3. Rest' /\ Orders' /\ Kept'
      BY <1>1, <2>1
    <2>4. Ticks'
      BY <1>1, <2>1, <2>2
    <2> HIDE DEF Rest, Ticks, Orders, Kept
    <2> QED BY <1>3, <2>3, <2>4
  <1>9. CASE DcaBuy
    <2>1. PICK c \in dcaTick.plan :
              \/ Ordered(c) /\ Buying(Noted(c), dcaTick.plan \ {c}) /\ UNCHANGED dcaSlips
              \/ Slip /\ (Ordered(c) \/ UNCHANGED dcaOrders) /\ Buying(dcaTick.last, dcaTick.plan \ {c})
      BY <1>9 DEF DcaBuy
    <2>2. UNCHANGED <<dcaNow, dcaRow, dcaLive, dcaFlushTime, dcaFlushed>>
      BY <1>9 DEF DcaBuy
    <2>3. c \in Coins /\ DOMAIN Noted(c) \subseteq Coins
      <3>1. DOMAIN Noted(c) = {c} \cup DOMAIN dcaTick.last
        BY DEF Noted, Store!Merge
      <3> QED BY <1>1, <3>1
    <2>4. Rest' /\ Kept'
      BY <1>1, <1>2, <2>1, <2>2 DEF Slip
    <2>5. Ticks'
      <3>1. dcaTick.plan \ {c} \subseteq Coins /\ Cardinality(dcaTick.plan \ {c}) <= MaxCoins
        BY <1>1, PlanShrinks
      <3>2. /\ dcaTick'.pc = "buy" /\ dcaTick'.plan = dcaTick.plan \ {c}
            /\ dcaTick'.last \in {dcaTick.last, Noted(c)}
        BY <2>1 DEF Buying
      <3> QED BY <1>1, <2>3, <3>1, <3>2
    <2>6. Orders'
      <3> DEFINE q == dcaOrders[c]
      <3>1. q \in Seq(0..LastTime) /\ Append(q, dcaNow) \in Seq(0..LastTime)
        BY <1>1, <2>3
      <3>2. dcaOrders' \in {dcaOrders, [dcaOrders EXCEPT ![c] = Append(q, dcaNow)]}
        BY <2>1 DEF Ordered
      <3> HIDE DEF q
      <3> QED BY <1>1, <2>3, <3>1, <3>2
    <2> HIDE DEF Rest, Ticks, Orders, Kept
    <2> QED BY <1>3, <2>4, <2>5, <2>6
  <1>10. CASE DcaWait
    <2>1. Rest'
      BY <1>1, <1>2, <1>10 DEF DcaWait
    <2>2. Ticks' /\ Orders' /\ Kept'
      BY <1>1, <1>10 DEF DcaWait
    <2> HIDE DEF Rest, Ticks, Orders, Kept
    <2> QED BY <1>3, <2>1, <2>2
  <1>11. CASE DcaCrash
    <2>1. /\ UNCHANGED <<dcaNow, dcaRow, dcaFlushTime, dcaOrders>>
          /\ dcaSlips < MaxDcaSlips /\ dcaSlips' = dcaSlips + 1
          /\ dcaTick' = [pc |-> "idle", poll |-> dcaTick.poll, last |-> NoTimes, plan |-> {}]
          /\ dcaLive' \in {dcaLive, Store!Nothing} /\ dcaFlushed' = -1
      BY <1>11 DEF DcaCrash, Slip, NoDcaTick, Store!EntryAfterRestart
    <2>2. Rest'
      BY <1>1, <1>2, <2>1
    <2>3. Ticks' /\ Orders'
      BY <1>1, <1>2, <1>4, <2>1
    <2>4. Kept'
      BY <1>1, <1>4, <2>1 DEF DcaStored
    <2> HIDE DEF Rest, Ticks, Orders, Kept
    <2> QED BY <1>3, <2>2, <2>3, <2>4
  <1>12. CASE UNCHANGED dcaVars
    <2>1. Rest' /\ Ticks' /\ Orders' /\ Kept'
      BY <1>1, <1>12 DEF dcaVars
    <2> HIDE DEF Rest, Ticks, Orders, Kept
    <2> QED BY <1>3, <2>1
  <1> HIDE DEF Rest, Ticks, Orders, Kept
  <1> QED BY <1>6, <1>7, <1>8, <1>9, <1>10, <1>11, <1>12 DEF DcaNext

\* The worker starts with its types.
LEMMA DcaTypeInit == DcaInit => DcaTyped
  <1> SUFFICES ASSUME DcaInit PROVE DcaTyped
    OBVIOUS
  <1>1. /\ dcaNow = 0 /\ dcaSlips = 0 /\ dcaFlushed = -1 /\ dcaRow = Store!Nothing /\ dcaLive = Store!Nothing
        /\ dcaTick = [pc |-> "idle", poll |-> -1, last |-> NoTimes, plan |-> {}]
        /\ dcaOrders = [c \in Coins |-> <<>>] /\ dcaFlushTime \in FlushTimes
    BY DEF DcaInit, NoDcaTick
  <1>2. DOMAIN Times(Store!Nothing) = {} /\ DOMAIN NoTimes = {} /\ Cardinality({}) = 0
    BY NoKnownTimes, FS_EmptySet
  <1>3. LastTime \in Nat /\ MaxDcaSlips \in Nat /\ MaxCoins \in Nat
    BY DcaConstants
  <1>4. dcaOrders \in [Coins -> Seq(0..LastTime)] /\ \A c \in Coins : dcaOrders[c] \in Seq(0..LastTime)
    BY <1>1
  <1>5. dcaNow \in 0..LastTime /\ dcaFlushed \in -1..LastTime /\ dcaSlips \in 0..MaxDcaSlips
    BY <1>1, <1>3
  <1>6. \A p \in {dcaRow, dcaLive} : DOMAIN Store!Field(p, "lastBuyAt", NoTimes) \subseteq Coins
    BY <1>1, <1>2 DEF Times
  <1>7. /\ dcaTick.pc \in {"idle", "plan", "buy"} /\ dcaTick.plan \subseteq Coins
        /\ Cardinality(dcaTick.plan) <= MaxCoins /\ DOMAIN dcaTick.last \subseteq Coins
    BY <1>1, <1>2, <1>3
  <1> QED BY <1>1, <1>4, <1>5, <1>6, <1>7 DEF DcaTyped, DcaTypeOK

-----------------------------------------------------------------------------

\* How often what may happen has.
PumpCounts == throttled \in Throttles /\ requests \in 0..MaxRequests /\ pumpSlips \in 0..MaxPumpSlips

PumpTyped == PumpInv /\ PumpCounts

\* Every step of pump.fun keeps the types.
LEMMA PumpTypeStep == PumpTyped /\ [PumpNext]_pumpVars => PumpTyped'
  <1> SUFFICES ASSUME PumpTyped, [PumpNext]_pumpVars PROVE PumpTyped'
    OBVIOUS
  <1>1. PumpInv'
    BY StepPump DEF PumpTyped
  <1>2. PumpCounts /\ MaxRequests \in Nat /\ MaxPumpSlips \in Nat
    BY PumpConstants DEF PumpTyped
  <1>3. /\ throttled' = throttled
        /\ requests' = requests \/ (requests < MaxRequests /\ requests' = requests + 1)
        /\ pumpSlips' = pumpSlips \/ (pumpSlips < MaxPumpSlips /\ pumpSlips' = pumpSlips + 1)
    <2>1. CASE PumpStart \/ Observe \/ Discover \/ ReadQueue \/ PumpSave
      BY <2>1 DEF PumpStart, Observe, Discover, ReadQueue, PumpSave, outside
    <2>2. CASE PutRequest
      BY <2>2 DEF PutRequest, MaySlip
    <2>3. CASE PumpCrash
      BY <2>3 DEF PumpCrash, MaySlip, outside
    <2>4. CASE \E m \in Mints : Hold(m) \/ Sell(m) \/ Buy(m) \/ Click(m)
      BY <2>4 DEF Hold, Sell, Buy, Click, MaySlip, outside
    <2>5. CASE UNCHANGED pumpVars
      BY <2>5 DEF pumpVars
    <2> QED BY <2>1, <2>2, <2>3, <2>4, <2>5 DEF PumpNext
  <1>4. PumpCounts'
    BY <1>2, <1>3 DEF PumpCounts
  <1> QED BY <1>1, <1>4 DEF PumpTyped

\* The types are among what pump.fun's invariant says.
LEMMA PumpTypesAre == PumpTyped => PumpTypeOK
  <1> SUFFICES ASSUME PumpTyped PROVE PumpTypeOK
    OBVIOUS
  <1>1. PumpTypes /\ PumpCounts
    BY DEF PumpTyped, PumpInv
  <1>2. /\ pumpWeb.mint \in Mints \cup {"none"}
        /\ Positions(pumpWeb.read) \subseteq Mints /\ ManualSells(pumpWeb.read) \subseteq Mints
    BY <1>1 DEF PumpTypes, NoClick, Positions, ManualSells, Worker!Field, Worker!Nothing
  <1> QED BY <1>1, <1>2 DEF PumpTypes, PumpTypeOK, PumpCounts, TickRec

-----------------------------------------------------------------------------
\* What types the arbitrage worker's invariant leaves out: where its numbers end, and whose
\* liquidations are remembered.
LastTimes(payload) == DOMAIN LiquidatedOf(payload) \subseteq Exchanges
ArbNumbersOK ==
    /\ tradingEnabled \in BOOLEAN /\ loaded \in BOOLEAN
    /\ arbNow \in 0..ArbLastTime /\ fetched \in -1..(ArbLastTime + MaxLockoutWait)
    /\ arbFlushed \in -1..ArbLastTime /\ lockoutWait \in LockoutWait..MaxLockoutWait
    /\ arbSlips \in 0..MaxArbSlips
ArbSetsOK ==
    /\ arbTick.left \subseteq ArbPairs /\ arbTick.sold \subseteq Exchanges
    /\ DOMAIN liquidated \subseteq Exchanges
    /\ LastTimes(arbRow) /\ LastTimes(arbLive) /\ LastTimes(arbTick.payload)

ArbTyped == ArbInv /\ ArbNumbersOK /\ ArbSetsOK

\* The constants these end at.
LEMMA ArbEnds ==
    /\ ArbLastTime \in Nat /\ MaxArbSlips \in Nat
    /\ RateLimitWait \in Nat /\ LockoutWait \in Nat /\ MaxLockoutWait \in Nat /\ LockoutWait > 0
    /\ RateLimitWait <= LockoutWait /\ LockoutWait <= MaxLockoutWait
    /\ IsFiniteSet(Exchanges) /\ TradingEnvs \subseteq BOOLEAN
  BY ArbConstants

\* What went wrong is counted up to the bound.
LEMMA SlipsCounted ==
    ASSUME arbSlips \in 0..MaxArbSlips, NEW n \in Nat, ArbSlip(n)
    PROVE  arbSlips' \in 0..MaxArbSlips
  BY ArbEnds DEF ArbSlip

\* The faults of an answer are counted.
LEMMA FaultIsNat == \A answer, covered : Fault(answer, covered) \in Nat
  BY DEF Fault

\* The lockout is doubled up to its maximum, and the next reading no later than it ends.
LEMMA WaitsAre ==
    ASSUME lockoutWait \in LockoutWait..MaxLockoutWait, NEW failed, NEW wait \in Waits(failed)
    PROVE  wait[1] \in 0..MaxLockoutWait /\ wait[2] \in LockoutWait..MaxLockoutWait
  <1> DEFINE d == 2 * lockoutWait
             least == Min({d, MaxLockoutWait})
  <1>1. d \in Int /\ d >= LockoutWait /\ lockoutWait \in Nat
    BY ArbEnds
  <1>2. least \in Int /\ least \in {d, MaxLockoutWait} /\ least <= d /\ least <= MaxLockoutWait
    <2> HIDE DEF d
    <2>1. {d, MaxLockoutWait} = {d, MaxLockoutWait, MaxLockoutWait}
      OBVIOUS
    <2>2. MaxLockoutWait \in Int
      BY ArbEnds
    <2>3. LET m == Min({d, MaxLockoutWait, MaxLockoutWait})
          IN  m \in Int /\ m \in {d, MaxLockoutWait, MaxLockoutWait} /\ m <= d /\ m <= MaxLockoutWait
      BY <1>1, <2>2, LeastOf
    <2>4. LET m == Min({d, MaxLockoutWait})
          IN  m \in Int /\ m \in {d, MaxLockoutWait} /\ m <= d /\ m <= MaxLockoutWait
      BY <2>1, <2>3, Zenon
    <2> QED BY <2>4
  <1>3. least \in LockoutWait..MaxLockoutWait
    <2> HIDE DEF d, least
    <2> QED BY <1>1, <1>2, ArbEnds
  <1>4. wait \in {<<0, lockoutWait>>, <<RateLimitWait, lockoutWait>>, <<lockoutWait, least>>, <<0, LockoutWait>>}
    BY DEF Waits
  <1> HIDE DEF least
  <1> QED BY <1>1, <1>3, <1>4, ArbEnds

\* A save leaves the payloads with liquidations of exchanges.
LEMMA LastTimesSaved ==
    ASSUME NEW onto, LastTimes(onto), NEW z, NEW y, DOMAIN y \subseteq Exchanges
    PROVE  /\ LastTimes(Payload!Merge(Payload!Nothing, onto))
           /\ LastTimes(Payload!Merge([seeds |-> z, liquidated |-> y], onto))
  BY MergedSeeds DEF LastTimes

\* An empty payload has no times.
LEMMA NoLastTimes == LastTimes(Payload!Nothing) /\ DOMAIN emptyLiquidatorState = {}
  BY NoPayload, EmptySeeds DEF LastTimes

\* The arbitrage worker starts with its types.
LEMMA ArbTypeInit == ArbInit => ArbTyped
  <1> SUFFICES ASSUME ArbInit PROVE ArbTyped
    OBVIOUS
  <1>1. ArbInv
    BY ArbStarts
  <1>2. /\ tradingEnabled \in TradingEnvs /\ loaded = FALSE /\ arbNow = 0 /\ fetched = -1 /\ arbFlushed = -1
        /\ lockoutWait = LockoutWait /\ arbSlips = 0
    BY DEF ArbInit
  <1>3. ArbNumbersOK
    <2>1. tradingEnabled \in BOOLEAN /\ loaded \in BOOLEAN
      BY <1>2, ArbEnds, Zenon
    <2>2. /\ 0 \in 0..ArbLastTime /\ -1 \in -1..(ArbLastTime + MaxLockoutWait) /\ -1 \in -1..ArbLastTime
          /\ LockoutWait \in LockoutWait..MaxLockoutWait /\ 0 \in 0..MaxArbSlips
      BY ArbEnds
    <2> QED BY <1>2, <2>1, <2>2 DEF ArbNumbersOK
  <1>4. /\ liquidated = emptyLiquidatorState /\ arbRow = Payload!Nothing /\ arbLive = Payload!Nothing
        /\ arbTick.left = {} /\ arbTick.sold = {} /\ arbTick.payload = Payload!Nothing
    BY DEF ArbInit, Idle
  <1>5. ArbSetsOK
    BY <1>4, NoLastTimes DEF ArbSetsOK
  <1> QED BY <1>1, <1>3, <1>5 DEF ArbTyped

\* When a save reaches the row, it is now.
LEMMA DurableIs == Durable => arbFlushed' \in {arbFlushed, arbNow}
  BY DEF Durable

\* Every step keeps the numbers.
LEMMA ArbNumbersStep == ArbTyped /\ [ArbNext]_arbVars => ArbNumbersOK'
  <1> SUFFICES ASSUME ArbTyped, [ArbNext]_arbVars PROVE ArbNumbersOK'
    OBVIOUS
  <1>1. /\ tradingEnabled \in BOOLEAN /\ loaded \in BOOLEAN
        /\ arbNow \in 0..ArbLastTime /\ fetched \in -1..(ArbLastTime + MaxLockoutWait)
        /\ arbFlushed \in -1..ArbLastTime /\ lockoutWait \in LockoutWait..MaxLockoutWait
        /\ arbSlips \in 0..MaxArbSlips
    BY DEF ArbTyped, ArbNumbersOK
  <1>2. arbNow \in -1..ArbLastTime /\ 0 \in Nat /\ 1 \in Nat
    BY <1>1, ArbEnds
  <1>3. CASE ArbBegin
    <2>1. UNCHANGED <<tradingEnabled, arbNow, loaded>> /\ arbFlushed' \in {arbFlushed, arbNow}
      BY <1>3, DurableIs DEF ArbBegin
    <2>2. CASE FetchDue
      <3>1. PICK failed \in SUBSET Exchanges :
                ArbSlip(Cardinality(failed)) /\ \E wait \in Waits(failed) : ReadBalances(failed, wait)
        BY <1>3, <2>2 DEF ArbBegin
      <3>2. PICK wait \in Waits(failed) : ReadBalances(failed, wait)
        BY <3>1
      <3>3. wait[1] \in 0..MaxLockoutWait /\ wait[2] \in LockoutWait..MaxLockoutWait
        BY <1>1, WaitsAre
      <3>4. Cardinality(failed) \in Nat
        BY ArbEnds, FS_Subset, FS_CardinalityType
      <3>5. arbSlips' \in 0..MaxArbSlips
        BY <1>1, <3>1, <3>4, SlipsCounted
      <3>6. fetched' = arbNow + wait[1] /\ lockoutWait' = wait[2]
        BY <3>2 DEF ReadBalances
      <3>7. fetched' \in -1..(ArbLastTime + MaxLockoutWait)
        <4>1. PICK w \in 0..MaxLockoutWait : w = wait[1]
          BY <3>3
        <4> QED BY <1>1, <3>6, <4>1, ArbEnds
      <3> QED BY <1>1, <1>2, <2>1, <3>3, <3>5, <3>6, <3>7 DEF ArbNumbersOK
    <2>3. CASE ~FetchDue
      <3>1. UNCHANGED <<fetched, lockoutWait, arbSlips>>
        BY <1>3, <2>3 DEF ArbBegin
      <3> QED BY <1>1, <1>2, <2>1, <3>1 DEF ArbNumbersOK
    <2> QED BY <2>2, <2>3
  <1>4. CASE ArbPollFails
    <2>1. ArbSlip(1) /\ UNCHANGED <<tradingEnabled, arbNow, fetched, lockoutWait, loaded, arbFlushed>>
      BY <1>4 DEF ArbPollFails
    <2> QED BY <1>1, <1>2, <2>1, SlipsCounted DEF ArbNumbersOK
  <1>5. CASE ArbScan
    BY <1>1, <1>5 DEF ArbScan, ArbNumbersOK
  <1>6. CASE ArbSave
    <2>1. UNCHANGED <<tradingEnabled, arbNow, fetched, lockoutWait, loaded, arbSlips>> /\ arbFlushed' \in {arbFlushed, arbNow}
      BY <1>6, DurableIs DEF ArbSave
    <2> QED BY <1>1, <1>2, <2>1 DEF ArbNumbersOK
  <1>7. CASE NextPoll
    <2>1. arbNow < ArbLastTime /\ arbNow' = arbNow + 1
          /\ UNCHANGED <<tradingEnabled, fetched, lockoutWait, loaded, arbFlushed, arbSlips>>
      BY <1>7 DEF NextPoll
    <2>2. arbNow' \in 0..ArbLastTime
      BY <1>1, <2>1, ArbEnds
    <2> QED BY <1>1, <2>1, <2>2 DEF ArbNumbersOK
  <1>8. CASE ArbCrash
    <2>1. /\ ArbSlip(1) /\ UNCHANGED <<tradingEnabled, arbNow>>
          /\ fetched' = -1 /\ lockoutWait' = LockoutWait /\ loaded' = FALSE /\ arbFlushed' = -1
      BY <1>8 DEF ArbCrash
    <2>2. arbSlips' \in 0..MaxArbSlips
      BY <1>1, <1>2, <2>1, SlipsCounted
    <2>3. -1 \in -1..(ArbLastTime + MaxLockoutWait) /\ -1 \in -1..ArbLastTime /\ LockoutWait \in LockoutWait..MaxLockoutWait
      BY ArbEnds
    <2> QED BY <1>1, <2>1, <2>2, <2>3 DEF ArbNumbersOK
  <1>9. ASSUME NEW n \in Nat, ArbSlip(n), UNCHANGED <<tradingEnabled, arbNow, fetched, lockoutWait, loaded, arbFlushed>>
        PROVE  ArbNumbersOK'
    <2>1. arbSlips' \in 0..MaxArbSlips
      BY <1>1, <1>9, SlipsCounted
    <2> QED BY <1>1, <1>9, <2>1 DEF ArbNumbersOK
  <1>10. CASE \E buy, sell \in Exchanges, p \in ArbPairs, first, second \in Answers : InventoryArb(buy, sell, p, first, second)
    <2>1. PICK buy \in Exchanges, sell \in Exchanges, p \in ArbPairs, first \in Answers, second \in Answers :
              InventoryArb(buy, sell, p, first, second)
      BY <1>10
    <2> DEFINE usd == executableInventorySize(buy, sell, p)
               n == Fault(first, usd <= account[buy].stable)
                      + IF first = "filled" THEN Fault(second, usd <= account[sell].base[p]) ELSE 0
    <2>2. ArbSlip(n) /\ UNCHANGED <<tradingEnabled, arbNow, fetched, lockoutWait, loaded, arbFlushed>>
      BY <2>1 DEF InventoryArb
    <2>3. n \in Nat
      BY FaultIsNat
    <2> HIDE DEF n
    <2> QED BY <1>9, <2>2, <2>3
  <1>11. CASE \E k \in SeedKeys, answer \in Answers, fill \in BOOLEAN : Seed(k, answer, fill)
    <2>1. PICK k \in SeedKeys, answer \in Answers, fill \in BOOLEAN : Seed(k, answer, fill)
      BY <1>11
    <2> DEFINE n == Fault(answer, SeedSize(k) <= account[k[1]].stable)
    <2>2. ArbSlip(n) /\ UNCHANGED <<tradingEnabled, arbNow, fetched, lockoutWait, loaded, arbFlushed>>
      BY <2>1 DEF Seed
    <2>3. n \in Nat
      BY FaultIsNat
    <2> HIDE DEF n
    <2> QED BY <1>9, <2>2, <2>3
  <1>12. CASE \E k \in SeedKeys, p \in ArbPairs, answer \in Answers, fill \in BOOLEAN : Liquidation(k, p, answer, fill)
    <2>1. PICK k \in SeedKeys, p \in ArbPairs, answer \in Answers, fill \in BOOLEAN : Liquidation(k, p, answer, fill)
      BY <1>12
    <2> DEFINE n == Fault(answer, Slice(k[1], p) <= account[k[1]].base[p])
    <2>2. ArbSlip(n) /\ UNCHANGED <<tradingEnabled, arbNow, fetched, lockoutWait, loaded, arbFlushed>>
      BY <2>1 DEF Liquidation
    <2>3. n \in Nat
      BY FaultIsNat
    <2> HIDE DEF n
    <2> QED BY <1>9, <2>2, <2>3
  <1>13. CASE \E x \in Exchanges, p \in ArbPairs : SoldOutside(x, p)
    <2>1. ArbSlip(1) /\ UNCHANGED <<tradingEnabled, arbNow, fetched, lockoutWait, loaded, arbFlushed>>
      BY <1>13 DEF SoldOutside
    <2> QED BY <1>2, <1>9, <2>1
  <1>14. CASE UNCHANGED arbVars
    BY <1>1, <1>14 DEF arbVars, ArbNumbersOK
  <1> QED BY <1>3, <1>4, <1>5, <1>6, <1>7, <1>8, <1>10, <1>11, <1>12, <1>13, <1>14 DEF ArbNext

\* A tick at rest, and one that begins its second half.
LEMMA IdleIs ==
    /\ Idle.left = {} /\ Idle.sold = {} /\ Idle.payload = Payload!Nothing
    /\ \A pc, left : LET t == [Idle EXCEPT !.pc = pc, !.left = left]
                     IN  t.left = left /\ t.sold = {} /\ t.payload = Payload!Nothing
    /\ \A pc, left, p : LET t == [Idle EXCEPT !.pc = pc, !.left = left, !.payload = p]
                        IN  t.left = left /\ t.sold = {} /\ t.payload = p
  BY DEF Idle

\* Every step keeps the sets.
LEMMA ArbSetsStep == ArbTyped /\ [ArbNext]_arbVars => ArbSetsOK'
  <1> SUFFICES ASSUME ArbTyped, [ArbNext]_arbVars PROVE ArbSetsOK'
    OBVIOUS
  <1>1. /\ arbTick.left \subseteq ArbPairs /\ arbTick.sold \subseteq Exchanges
        /\ DOMAIN liquidated \subseteq Exchanges
        /\ LastTimes(arbRow) /\ LastTimes(arbLive) /\ LastTimes(arbTick.payload)
        /\ TickOK(arbTick)
    BY DEF ArbTyped, ArbSetsOK, ArbInv, ArbTypes
  <1>2. LastTimes(Payload!Nothing) /\ DOMAIN emptyLiquidatorState \subseteq Exchanges
    BY NoLastTimes
  <1>3. CASE ArbBegin
    <2>1. /\ arbTick' = [Idle EXCEPT !.pc = "act", !.left = ArbPairs, !.payload = arbRow]
          /\ arbLive' = Payload!Merge(Payload!Nothing, arbLive) /\ arbRow' \in {arbRow, arbLive'}
          /\ liquidated' = liquidated
      BY <1>3 DEF ArbBegin, Payload!SaveStatus, Payload!SavePayload, Payload!Merged
    <2>2. LastTimes(arbLive') /\ LastTimes(arbRow')
      BY <1>1, <1>2, <2>1, LastTimesSaved
    <2>3. arbTick'.left = ArbPairs /\ arbTick'.sold = {} /\ arbTick'.payload = arbRow
      BY <2>1, IdleIs
    <2> QED BY <1>1, <2>1, <2>2, <2>3 DEF ArbSetsOK
  <1>4. CASE ArbPollFails
    <2>1. arbTick' = Idle /\ UNCHANGED <<liquidated, arbRow, arbLive>>
      BY <1>4 DEF ArbPollFails
    <2> QED BY <1>1, <1>2, <2>1, IdleIs DEF ArbSetsOK
  <1>5. CASE ArbScan
    <2>1. /\ arbTick' = [Idle EXCEPT !.pc = "seed", !.left = ArbPairs] /\ UNCHANGED <<arbRow, arbLive>>
          /\ liquidated' \in {liquidated, LiquidatedOf(arbTick.payload)}
      BY <1>5 DEF ArbScan, LiquidatedOf
    <2>2. arbTick'.left = ArbPairs /\ arbTick'.sold = {} /\ arbTick'.payload = Payload!Nothing
      BY <2>1, IdleIs
    <2> QED BY <1>1, <1>2, <2>1, <2>2 DEF ArbSetsOK, LastTimes
  <1>6. CASE ArbSave
    <2>1. /\ arbTick' = Idle /\ liquidated' = liquidated
          /\ arbLive' = Payload!Merge([seeds |-> seeds, liquidated |-> liquidated], arbLive)
          /\ arbRow' \in {arbRow, arbLive'}
      BY <1>6 DEF ArbSave, Payload!SavePayload, Payload!Merged
    <2>2. LastTimes(arbLive') /\ LastTimes(arbRow')
      BY <1>1, <2>1, LastTimesSaved
    <2> QED BY <1>1, <1>2, <2>1, <2>2, IdleIs DEF ArbSetsOK
  <1>7. CASE NextPoll
    <2>1. arbTick' = [arbTick EXCEPT !.pc = "due"] /\ UNCHANGED <<liquidated, arbRow, arbLive>>
      BY <1>7 DEF NextPoll
    <2>2. arbTick'.left = arbTick.left /\ arbTick'.sold = arbTick.sold /\ arbTick'.payload = arbTick.payload
      BY <1>1, <2>1 DEF TickOK
    <2> QED BY <1>1, <2>1, <2>2 DEF ArbSetsOK
  <1>8. CASE ArbCrash
    <2>1. /\ arbTick' = Idle /\ liquidated' = emptyLiquidatorState /\ arbRow' = arbRow
          /\ arbLive' \in {arbLive, Payload!Nothing}
      BY <1>8 DEF ArbCrash, Payload!EntryAfterRestart
    <2> QED BY <1>1, <1>2, <2>1, IdleIs DEF ArbSetsOK
  <1>9. ASSUME NEW p, arbTick' = [arbTick EXCEPT !.left = @ \ {p}], UNCHANGED <<liquidated, arbRow, arbLive>>
        PROVE  ArbSetsOK'
    <2>1. arbTick'.left = arbTick.left \ {p} /\ arbTick'.sold = arbTick.sold /\ arbTick'.payload = arbTick.payload
      BY <1>1, <1>9 DEF TickOK
    <2> QED BY <1>1, <1>9, <2>1 DEF ArbSetsOK
  <1>10. CASE \E buy, sell \in Exchanges, p \in ArbPairs, first, second \in Answers : InventoryArb(buy, sell, p, first, second)
    <2>1. PICK buy \in Exchanges, sell \in Exchanges, p \in ArbPairs, first \in Answers, second \in Answers :
              InventoryArb(buy, sell, p, first, second)
      BY <1>10
    <2>2. arbTick' = [arbTick EXCEPT !.left = @ \ {p}] /\ UNCHANGED <<liquidated, arbRow, arbLive>>
      BY <2>1 DEF InventoryArb
    <2> QED BY <1>9, <2>2
  <1>11. CASE \E k \in SeedKeys, answer \in Answers, fill \in BOOLEAN : Seed(k, answer, fill)
    <2>1. PICK k \in SeedKeys : arbTick' = [arbTick EXCEPT !.left = @ \ {k[2]}]
      BY <1>11 DEF Seed
    <2>2. UNCHANGED <<liquidated, arbRow, arbLive>>
      BY <1>11 DEF Seed
    <2> QED BY <1>9, <2>1, <2>2
  <1>12. CASE \E k \in SeedKeys, p \in ArbPairs, answer \in Answers, fill \in BOOLEAN : Liquidation(k, p, answer, fill)
    <2>1. PICK k \in SeedKeys, p \in ArbPairs, answer \in Answers, fill \in BOOLEAN : Liquidation(k, p, answer, fill)
      BY <1>12
    <2> DEFINE x == k[1]
               reported == placeLiquidateOrder(x, Slice(x, p), answer, fill)
    <2>2. /\ arbTick' = [arbTick EXCEPT !.left = @ \ {k[2]}, !.sold = @ \union {x}, !.raised[x] = @ + reported]
          /\ UNCHANGED <<arbRow, arbLive>>
          /\ liquidated' \in {recordLiquidation(x), liquidated}
      BY <2>1 DEF Liquidation
    <2>3. x \in Exchanges
      BY DEF SeedKeys
    <2> HIDE DEF x, reported
    <2>4. arbTick'.left = arbTick.left \ {k[2]} /\ arbTick'.sold = arbTick.sold \union {x} /\ arbTick'.payload = arbTick.payload
      BY <1>1, <2>2 DEF TickOK
    <2>5. DOMAIN recordLiquidation(x) = DOMAIN liquidated \cup {x}
      BY DEF recordLiquidation, With
    <2> QED BY <1>1, <2>2, <2>3, <2>4, <2>5 DEF ArbSetsOK
  <1>13. CASE \E x \in Exchanges, p \in ArbPairs : SoldOutside(x, p)
    <2>1. UNCHANGED <<arbTick, liquidated, arbRow, arbLive>>
      BY <1>13 DEF SoldOutside
    <2> QED BY <1>1, <2>1 DEF ArbSetsOK
  <1>14. CASE UNCHANGED arbVars
    BY <1>1, <1>14 DEF arbVars, ArbSetsOK
  <1> QED BY <1>3, <1>4, <1>5, <1>6, <1>7, <1>8, <1>10, <1>11, <1>12, <1>13, <1>14 DEF ArbNext

\* Every step keeps the types.
LEMMA ArbTypeStep == ArbTyped /\ [ArbNext]_arbVars => ArbTyped'
  BY ArbStep, ArbNumbersStep, ArbSetsStep DEF ArbTyped

\* These are the types of the arbitrage worker.
LEMMA ArbTypesAre == ArbTyped => ArbTypeOK
  <1> SUFFICES ASSUME ArbTyped PROVE ArbTypeOK
    OBVIOUS
  <1>1. ArbInv /\ ArbNumbersOK /\ ArbSetsOK
    BY DEF ArbTyped
  <1>2. /\ account \in [Exchanges -> Funds] /\ seen \in [Exchanges -> Funds]
        /\ {spent, recent, forgotten} \subseteq [SeedKeys -> Nat]
        /\ arbTick.pc \in {"idle", "due", "act", "seed"} /\ arbTick.raised \in [Exchanges -> Nat]
        /\ DOMAIN seeds.entries \subseteq SeedKeys /\ seeds.total \in Nat
    BY <1>1, ArbNumbers DEF ArbInv, ArbTypes, UsdByKey, TickOK, SeedState
  <1>3. /\ onReading.seeds \in [SeedKeys -> Nat] /\ onReading.sales \in [Exchanges -> Nat]
        /\ onReading.readAt \in Nat /\ onReading.readAt <= arbNow
    BY <1>1 DEF ArbInv, Remembered, ReadingTypes
  <1>4. onReading.readAt \in 0..ArbLastTime
    BY <1>1, <1>3, ArbEnds DEF ArbNumbersOK
  <1>5. arbBook \in [unhedged : Nat, blind : BOOLEAN]
    <2>1. arbBook = [unhedged |-> arbBook.unhedged, blind |-> arbBook.blind] /\ arbBook.unhedged \in Nat /\ arbBook.blind \in BOOLEAN
      BY <1>1 DEF ArbInv, Hedged
    <2> QED BY <2>1
  <1> QED BY <1>1, <1>2, <1>3, <1>4, <1>5 DEF ArbTypeOK, ArbNumbersOK, ArbSetsOK

-----------------------------------------------------------------------------
\* The types are among what the backtests' invariant says.
LEMMA BacktestTypesAre == BtInv => BacktestTypeOK
  <1> SUFFICES ASSUME BtInv PROVE BacktestTypeOK
    OBVIOUS
  <1>1. together \in Books /\ \A p \in BtPairs : alone[p] \in Books
    BY DEF BtInv, BtBooks, SoundBook
  <1>2. alone \in [BtPairs -> Books]
    BY <1>1 DEF BtInv, BtTypes
  <1> QED BY <1>1, <1>2 DEF BtInv, BtTypes, BacktestTypeOK

\* Every worker, and the backtests beside them, keep the types of their variables.
THEOREM PositionTypes == MCSpec => []MCTypeOK
  <1>1. TradeSpec => []TradeTypeOK
    BY TradeTypeCorrect
  <1>2. DcaSpec => []DcaTypeOK
    <2>1. DcaTyped => DcaTypeOK
      BY DEF DcaTyped
    <2> QED BY <2>1, DcaTypeInit, DcaTypeStep, PTL DEF DcaSpec
  <1>3. PumpSpec => []PumpTypeOK
    <2>1. PumpInit => PumpTyped
      <3>1. PumpInit => PumpCounts
        BY PumpConstants DEF PumpInit, PumpCounts
      <3> QED BY <3>1, PumpStarts DEF PumpTyped
    <2> QED BY <2>1, PumpTypeStep, PumpTypesAre, PTL DEF PumpSpec
  <1>4. ArbSpec => []ArbTypeOK
    BY ArbTypeInit, ArbTypeStep, ArbTypesAre, PTL DEF ArbSpec
  <1>5. BacktestSpec => []BacktestTypeOK
    BY BacktestStarts, BacktestStep, BacktestTypesAre, PTL DEF BacktestSpec
  <1>6. MCInit => TradeInit /\ DcaInit /\ PumpInit /\ ArbInit /\ BacktestInit
    BY DEF MCInit
  <1>7. [MCNext]_<<focus, tradeVars, dcaVars, pumpVars, arbVars, backtestVars>> => [TradeNext]_tradeVars
    <2> SUFFICES ASSUME [MCNext]_<<focus, tradeVars, dcaVars, pumpVars, arbVars, backtestVars>>
                 PROVE  [TradeNext]_tradeVars
      OBVIOUS
    <2> QED BY DEF MCNext
  <1>8. MCSpec => TradeSpec /\ DcaSpec /\ PumpSpec /\ ArbSpec /\ BacktestSpec
    BY <1>6, <1>7, OneRuns, PTL DEF MCSpec, TradeSpec, DcaSpec, PumpSpec, ArbSpec, BacktestSpec
  <1>9. TradeTypeOK /\ DcaTypeOK /\ PumpTypeOK /\ ArbTypeOK /\ BacktestTypeOK => MCTypeOK
    BY DEF MCTypeOK
  <1> QED BY <1>1, <1>2, <1>3, <1>4, <1>5, <1>8, <1>9, PTL
====
