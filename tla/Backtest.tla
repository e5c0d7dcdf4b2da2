---- MODULE Backtest ----
(* The backtests of source-crypto-trade, run side by side on the same candles: each    *)
(* pair by itself (runBacktest), the pairs of one exchange together                     *)
(* (runMultiPairBacktest, latencyBars = 0), and beside each backtest of a pair the      *)
(* exits the live daemon would have decided (decideExit), had it watched the bids.      *)
(*                                                                                      *)
(* Time is in minutes.  Prices and money are in thousandths of the price everything    *)
(* starts from, so percentages of an entry are differences from it.  A candle has what  *)
(* the analysis makes of it, and of those before it, for all who ask: the score of its  *)
(* long signal (0: none), and whether the higher timeframe trends upwards (bull).       *)
EXTENDS Integers, Sequences, FiniteSets

CONSTANTS ScanOrder,       \* the pairs, in the order of input.pairs: <<...>>
          BarsOf,          \* pair -> the candles it may have, see Candle
          Gaps,            \* minutes from one timestamp to the next
          FirstMinute,     \* of the first candle
          MaxBars, BtLastDay,   \* bounds: timestamps, and the day of the last
          SlipTicks,       \* slippage of a fill
          RoundFee,        \* fees of an entry and an exit
          DayLossLimit     \* assumptions.dailyLossLimitPct

BtPairs == {ScanOrder[i] : i \in DOMAIN ScanOrder}
DayOf(t) == t \div 1440
BtDays == 0..BtLastDay

ASSUME BacktestConstants ==
    /\ ScanOrder \in Seq(BtPairs)
    /\ Gaps \subseteq Nat \ {0}
    /\ \A p \in BtPairs : BarsOf[p] \subseteq
          [low : Nat, high : Nat, close : Nat, lowFirst : BOOLEAN, score : Nat, bull : BOOLEAN]
    /\ FirstMinute \in Nat /\ MaxBars \in Nat /\ SlipTicks \in Nat /\ RoundFee \in Nat
    /\ BtLastDay \in Nat /\ DayOf(FirstMinute) \in BtDays
    /\ DayLossLimit \in Nat \ {0}

VARIABLES minute,     \* of the last timestamp
          bars,       \* timestamps so far; MaxBars + 1 after the end of the data
          lastBar,    \* pair -> its last candle and the time of it, or NoBar
          alone,      \* pair -> the book of its own backtest
          together,   \* the book of the backtest of all
          skipped,    \* signalsSkippedForOpenPosition
          missed,     \* entries of pairs alone, while together another pair was held
          live        \* pair -> the live position opened with the pair's own, or NoPosition

backtestVars == <<minute, bars, lastBar, alone, together, skipped, missed, live>>

\* trade-config.ts
TAKE_PROFIT       == 15
BREAKEVEN_TRIGGER == 3
LOCK_TRIGGER      == 5
LOCK_STOP         == 2
INITIAL_STOP      == 4
TRAIL             == 10
TIME_EXIT         == 15
TIME_EXIT_FLAT    == 1
COOLDOWN          == 3
MIN_HOLD          == 2
HARD_STOP         == -20

Never == -1
NoBar == [at |-> Never]
NoPosition == [pair |-> "none"]

\* lastExit is per pair; net is the realized profit by the day of the entry.
EmptyBook == [position |-> NoPosition, lastExit |-> [p \in BtPairs |-> Never],
              net |-> [d \in BtDays |-> 0], trades |-> 0, halted |-> FALSE]

BacktestInit ==
    /\ minute = FirstMinute /\ bars = 0
    /\ lastBar = [p \in BtPairs |-> NoBar]
    /\ alone = [p \in BtPairs |-> EmptyBook]
    /\ together = EmptyBook
    /\ skipped = 0 /\ missed = 0
    /\ live = [p \in BtPairs |-> NoPosition]

-----------------------------------------------------------------------------
(* Positions.                                                                 *)

PriceMax(x, y) == IF x >= y THEN x ELSE y

StopFor(entry, high) ==
    CASE high - entry >= LOCK_TRIGGER -> PriceMax(entry + LOCK_STOP, high - TRAIL)
      [] high - entry < BREAKEVEN_TRIGGER -> entry - INITIAL_STOP
      [] OTHER -> entry

Opened(p, bar, t) ==
    LET fill == bar.close + SlipTicks
    IN  [pair |-> p, at |-> t, entry |-> fill, high |-> fill]

Flat(pos, price) == price - pos.entry \in (1 - TIME_EXIT_FLAT)..(TIME_EXIT_FLAT - 1)

\* resolveLongExit: the prices at which the bar ends the position, none or one.
ExitsAt(pos, bar, t) ==
    LET stop == StopFor(pos.entry, pos.high)
        hard == stop - pos.entry <= HARD_STOP
        stopped == bar.low <= stop /\ (hard \/ (t - pos.at >= MIN_HOLD /\ ~bar.bull))
    IN  CASE stopped -> {stop}
          [] ~stopped /\ bar.high >= pos.entry + TAKE_PROFIT -> {pos.entry + TAKE_PROFIT}
          [] ~stopped /\ bar.high < pos.entry + TAKE_PROFIT ->
                IF t - pos.at >= TIME_EXIT /\ Flat(pos, bar.close) THEN {bar.close} ELSE {}

LimitHit(net, t) == net[DayOf(t)] <= -DayLossLimit

\* closeLongPosition, closePosition: the loss counts for the day of the entry.
Closed(book, price, t) ==
    LET pos == book.position
        net == [book.net EXCEPT ![DayOf(pos.at)] = @ + (price - SlipTicks - pos.entry - RoundFee)]
    IN  [position |-> NoPosition, lastExit |-> [book.lastExit EXCEPT ![pos.pair] = t], net |-> net,
         trades |-> book.trades + 1, halted |-> book.halted \/ LimitHit(net, pos.at)]

\* The open position meets a bar of its pair: it ends, or its high-water mark rises.
Met(book, bar, t) ==
    LET exits == ExitsAt(book.position, bar, t)
    IN  IF exits = {} THEN [book EXCEPT !.position.high = PriceMax(@, bar.high)]
                      ELSE Closed(book, CHOOSE x \in exits : TRUE, t)

Holds(book) == book.position # NoPosition
Cooling(book, p, t) == book.lastExit[p] # Never /\ t - book.lastExit[p] < COOLDOWN

-----------------------------------------------------------------------------
(* One timestamp t, with bar[p] the candle of each pair p that has one then.       *)

\* runBacktest, one candle of p: the exit, else the mark; then the gates and the entry.
AfterOwnBar(p, bar, t) ==
    LET book == IF Holds(alone[p]) THEN Met(alone[p], bar, t) ELSE alone[p]
    IN  IF Holds(book) \/ Cooling(book, p, t) \/ LimitHit(book.net, t) \/ bar.score = 0
        THEN book
        ELSE [book EXCEPT !.position = Opened(p, bar, t)]

\* runMultiPairBacktest: first the open position.
AfterExit(bar, t) ==
    IF Holds(together) /\ together.position.pair \in DOMAIN bar
    THEN Met(together, bar[together.position.pair], t)
    ELSE together

\* The signals the open position keeps out.
KeptOut(book, bar, t) ==
    IF Holds(book) /\ ~LimitHit(book.net, t)
    THEN {p \in DOMAIN bar \ {book.position.pair} : bar[p].score > 0}
    ELSE {}

\* With none open, every pair out of its own cooldown is a candidate; the best is the
\* one of the highest score, and of those the first.
Signalled(book, bar, t) ==
    {i \in DOMAIN ScanOrder : /\ ScanOrder[i] \in DOMAIN bar
                              /\ bar[ScanOrder[i]].score > 0
                              /\ ~Cooling(book, ScanOrder[i], t)}
Better(bar, i, j) ==
    LET x == bar[ScanOrder[i]].score  y == bar[ScanOrder[j]].score IN x > y \/ (x = y /\ i < j)
AfterEntry(book, bar, t) ==
    LET ready == Signalled(book, bar, t)
        best == ScanOrder[CHOOSE i \in ready : \A j \in ready \ {i} : Better(bar, i, j)]
    IN  IF Holds(book) \/ LimitHit(book.net, t) \/ ready = {}
        THEN book
        ELSE [book EXCEPT !.position = Opened(best, bar[best], t)]

-----------------------------------------------------------------------------
(* The live daemon (exit-decision.ts), with the same position and a bid.           *)

LiveExits(pos, bid, t, bull) ==
    LET profit == bid - pos.entry
        stopHit == bid <= StopFor(pos.entry, pos.high)
    IN  \/ profit >= TAKE_PROFIT
        \/ stopHit /\ profit <= HARD_STOP
        \/ stopHit /\ t - pos.at >= MIN_HOLD /\ ~(bull /\ profit > HARD_STOP)
        \/ t - pos.at >= TIME_EXIT /\ Flat(pos, bid)

\* The daemon sees a bid: it raises the mark, and decides.
Watched(pos, bid, t, bull) ==
    LET marked == [pos EXCEPT !.high = PriceMax(@, bid)]
    IN  IF pos = NoPosition \/ LiveExits(marked, bid, t, bull) THEN NoPosition ELSE marked

\* The bids of a bar: to one extreme, to the other, and to the close.
LiveAfter(pos, bar, t) ==
    LET first == IF bar.lowFirst THEN bar.low ELSE bar.high
        second == IF bar.lowFirst THEN bar.high ELSE bar.low
    IN  Watched(Watched(Watched(pos, first, t, bar.bull), second, t, bar.bull), bar.close, t, bar.bull)

-----------------------------------------------------------------------------
Bar ==
    /\ bars < MaxBars
    /\ bars' = bars + 1
    /\ \E gap \in Gaps : minute' = minute + gap
    /\ DayOf(minute') \in BtDays
    /\ \E seen \in (SUBSET BtPairs) \ {{}} : \E bar \in [seen -> UNION {BarsOf[p] : p \in seen}] :
          LET t == minute'
              exited == AfterExit(bar, t)
              out == KeptOut(exited, bar, t)
              Enters(p) == alone'[p].position = Opened(p, bar[p], t)
          IN  /\ \A p \in seen : bar[p] \in BarsOf[p]
              /\ lastBar' = [p \in BtPairs |->
                                IF p \in seen THEN [at |-> t, close |-> bar[p].close] ELSE lastBar[p]]
              /\ alone' = [p \in BtPairs |-> IF p \in seen THEN AfterOwnBar(p, bar[p], t) ELSE alone[p]]
              /\ together' = AfterEntry(exited, bar, t)
              /\ skipped' = skipped + Cardinality(out)
              /\ missed' = missed + (IF LimitHit(exited.net, t) \/ ~Holds(exited) THEN 0
                                     ELSE Cardinality({p \in seen \ {exited.position.pair} : Enters(p)}))
              /\ live' = [p \in BtPairs |-> CASE p \notin seen -> live[p]
                                              [] p \in seen /\ Enters(p) -> alone'[p].position
                                              [] OTHER -> LiveAfter(live[p], bar[p], t)]

\* The data ends: what is still open is closed at its pair's last close.
AtTheEnd(book) ==
    IF Holds(book) THEN LET last == lastBar[book.position.pair] IN Closed(book, last.close, last.at) ELSE book

EndOfData ==
    /\ bars \in 1..MaxBars
    /\ bars' = MaxBars + 1
    /\ alone' = [p \in BtPairs |-> AtTheEnd(alone[p])]
    /\ together' = AtTheEnd(together)
    /\ live' = [p \in BtPairs |-> NoPosition]
    /\ UNCHANGED <<minute, lastBar, skipped, missed>>

BacktestNext == Bar \/ EndOfData

BacktestSpec == BacktestInit /\ [][BacktestNext]_backtestVars

-----------------------------------------------------------------------------
(* Properties.                                                              *)

BtPositions == {NoPosition} \cup [pair : BtPairs, at : Nat, entry : Nat, high : Nat]
Books == [position : BtPositions, lastExit : [BtPairs -> Nat \cup {Never}], net : [BtDays -> Int],
          trades : Nat, halted : BOOLEAN]

BacktestTypeOK ==
    /\ minute \in Nat /\ bars \in 0..(MaxBars + 1)
    /\ alone \in [BtPairs -> Books] /\ together \in Books
    /\ skipped \in Nat /\ missed \in Nat
    /\ live \in [BtPairs -> BtPositions]

\* Where one pair only has candles, the two simulators, written apart, agree on all
\* they keep: the shared rules cost a pair nothing but another pair's position.
OnePairAgrees ==
    \A p \in BtPairs :
        (\A r \in BtPairs \ {p} : lastBar[r] = NoBar) => together = alone[p] /\ skipped = 0

\* "backtest results must reflect actual live behavior -- same stops, same targets"
\* (trade-config.ts:3): a position the backtest has ended, the daemon has ended too,
\* whichever way the price went about within the bars.  (The daemon is often earlier,
\* and its price worse: a backtest's stop fills at the stop.)
LiveExitsFirst == \A p \in BtPairs : live[p] # NoPosition => Holds(alone[p])

WorstTrade == INITIAL_STOP + SlipTicks + RoundFee

\* Until its data ends, a backtest loses on no day more than the limit and one stop:
\* the profit of a position is booked on the day that gated it.
DayLossBounded ==
    bars <= MaxBars =>
        \A book \in {alone[p] : p \in BtPairs} \cup {together} : \A d \in BtDays :
            book.net[d] > -DayLossLimit - WorstTrade

\* haltedByDailyLossLimit is set if and only if a day did reach the limit.
HaltIsTold ==
    \A book \in {alone[p] : p \in BtPairs} \cup {together} :
        book.halted <=> \E d \in BtDays : book.net[d] <= -DayLossLimit

\* signalsSkippedForOpenPosition leaves out none of the entries that a pair by itself
\* made while another was held.  (It counts more: signals in the pair's own cooldown.)
SkippedCounted == missed <= skipped

BacktestsAgree == OnePairAgrees /\ LiveExitsFirst /\ DayLossBounded /\ HaltIsTold /\ SkippedCounted
====
