---- MODULE TradeBooks ----
(***************************************************************************)
(* What the crypto-trade source believes about money                       *)
(* (packages/source-crypto-trade/src/index.ts, sellability.ts): the day's   *)
(* profit and the baseline its loss limit is measured against, the dollars  *)
(* of an exchange it may spend, and the sizes it computes from them.        *)
(*                                                                         *)
(* The books are written by sales and read by the loss limit, saved and     *)
(* restored with the rest of the state; midnight passes unannounced.  The   *)
(* dollars are read in two requests while orders fill.  The sizes are       *)
(* functions: an action computes one case.                                  *)
(***************************************************************************)
EXTENDS Integers, Sequences, FiniteSets, FiniteSetsExt

CONSTANTS Amounts,      \* what a sale may gain or lose
          Ring,         \* closed trades kept (100 in the code)
          Venues,       \* exchanges whose balances make the equity
          Share,        \* what each of them holds
          LimitPct,     \* the daily loss limit, in percent
          MaxSales, MaxDays, MaxStarts,     \* bounds of a behavior
          OrderIds, StaleOrders,            \* open buy orders, those to be cancelled
          OrderCost,    \* bound: dollars of an order
          NoBook        \* nothing has been saved

ASSUME BooksConstants ==
    /\ Amounts \subseteq Nat /\ StaleOrders \subseteq OrderIds
    /\ {Ring, Share, LimitPct, MaxSales, MaxDays, MaxStarts, OrderCost} \subseteq Nat /\ MaxDays > 0
    /\ IsFiniteSet(Venues) /\ IsFiniteSet(OrderIds)
    /\ NoBook \notin Nat \union [OrderIds -> Nat] /\ \A asked \in SUBSET OrderIds : asked # NoBook
    /\ NoBook \notin [book : [pnl : Int, day : Nat, base : Nat], closed : Seq([day : Nat, net : Int])]

VARIABLES book,       \* [pnl, day, base]: dailyPnl, dailyPnlDate, dailyEquityBaselineUsd
          closed,     \* closedTrades
          balances,      \* the exchanges whose balances were read (accountBalances)
          saved,      \* the state last saved, or NoBook
          today,
          sales,      \* history: every sale, in order
          story       \* history: [astray, unsaved, lost, starts]

bookVars == <<book, closed, balances, saved, today, sales, story>>

VARIABLES cash, left,  \* of the account: its dollars, what is left of each order
          quote        \* refreshKrakenBalances, and what it concluded

quoteVars == <<cash, left, quote>>

VARIABLE sized        \* the last size computed, with what it was computed from

Nets == Amounts \cup {-n : n \in Amounts}
Least(a, b) == IF a <= b THEN a ELSE b
Most(a, b) == IF a >= b THEN a ELSE b
Abs(n) == IF n < 0 THEN -n ELSE n
Total(f, s) == MapThenSumSet(LAMBDA x : f[x], s)
-----------------------------------------------------------------------------
(* The day's books.                                                          *)

FreshBook(day) == [pnl |-> 0, day |-> day, base |-> 0]

\* As RolledOver, but keeping the profit.
RolledKeepingPnl(b) == IF b.day = today THEN b ELSE [FreshBook(today) EXCEPT !.pnl = b.pnl]
\* resetDailyStateIfNeeded
RolledOver(b) == IF b.day = today THEN b ELSE FreshBook(today)

TradesOf(day, trades) == {i \in DOMAIN trades : trades[i].day = day}
BookedOn(day, trades) == Total([i \in DOMAIN trades |-> trades[i].net], TradesOf(day, trades))
Kept(trades) == SubSeq(trades, Most(1, Len(trades) - Ring + 1), Len(trades))

BooksInit ==
    /\ today = 1 /\ book = FreshBook(1) /\ closed = <<>> /\ balances = {} /\ saved = NoBook
    /\ sales = <<>>
    /\ story = [astray |-> FALSE,  \* a sale was booked on a day that is over
                unsaved |-> FALSE, \* a sale has not been saved
                lost |-> FALSE,    \* ... when the process was restarted
                starts |-> 1]

CloseTrade(net) ==
    /\ Len(sales) < MaxSales
    /\ sales' = Append(sales, [day |-> today, net |-> net])
    /\ closed' = Kept(Append(closed, [day |-> today, net |-> net]))
    /\ UNCHANGED <<balances, saved, today>>

\* A sale on an exchange.  Its fee is recorded first, which rolls the day.
SellOnExchange(net) ==
    /\ CloseTrade(net)
    /\ book' = [RolledOver(book) EXCEPT !.pnl = BookedOn(today, closed')]
    /\ story' = [story EXCEPT !.unsaved = TRUE, !.astray = FALSE]

\* actOnDex records no fee, and books the sale on whatever day the book is of.
SellOnChain(net) ==
    /\ CloseTrade(net)
    /\ book' = [book EXCEPT !.pnl = BookedOn(today, closed')]
    /\ story' = [story EXCEPT !.unsaved = TRUE, !.astray = book.day # today]

\* estimateTotalEquityUsd over the balances that were read,
\* refreshDailyEquityBaselineIfNeeded, isDailyLossLimitHit.
Equity(read) == Total([v \in Venues |-> Share], read)
WithBaseline(b) == IF RolledOver(b).base > 0 THEN RolledOver(b)
                   ELSE [RolledOver(b) EXCEPT !.base = Equity(balances)]
LossLimitHit(b) == b.base > 0 /\ b.pnl * 100 <= -LimitPct * b.base

JudgeLosses ==
    /\ book' = WithBaseline(book)
    /\ UNCHANGED <<closed, balances, saved, today, sales, story>>

\* Balances are read; an exchange that does not answer counts for nothing.
ReadBalances(answering) ==
    /\ balances' = answering
    /\ UNCHANGED <<book, closed, saved, today, sales, story>>

Midnight ==
    /\ today < MaxDays /\ today' = today + 1
    /\ story' = [story EXCEPT !.astray = FALSE]
    /\ UNCHANGED <<book, closed, balances, saved, sales>>

\* serializeTradeState
SaveBooks ==
    /\ saved' = [book |-> book, closed |-> closed]
    /\ story' = [story EXCEPT !.unsaved = FALSE]
    /\ UNCHANGED <<book, closed, balances, today, sales>>

\* restorePersistedTradeState prefers the saved profit to the recomputed one where it
\* is of today and the larger.
RestoredPnl(s) ==
    LET recomputed == BookedOn(today, s.closed)
    IN IF s.book.day = today /\ Abs(s.book.pnl) > Abs(recomputed) THEN s.book.pnl ELSE recomputed

RestartBooks ==
    /\ story.starts < MaxStarts
    /\ balances' = {}
    /\ IF saved = NoBook
       THEN /\ book' = FreshBook(today) /\ closed' = <<>>
            /\ story' = [story EXCEPT !.starts = @ + 1, !.lost = @ \/ story.unsaved,
                                      !.unsaved = FALSE, !.astray = FALSE]
       ELSE /\ book' = [saved.book EXCEPT !.pnl = RestoredPnl(saved)]
            /\ closed' = saved.closed
            /\ story' = [story EXCEPT
                  !.starts = @ + 1, !.lost = @ \/ story.unsaved, !.unsaved = FALSE,
                  !.astray = saved.book.day # today /\ TradesOf(today, saved.closed) # {}]
    /\ UNCHANGED <<saved, today, sales>>

BooksNext ==
    \/ \E net \in Nets : SellOnExchange(net) \/ SellOnChain(net)
    \/ JudgeLosses \/ Midnight \/ SaveBooks \/ RestartBooks
    \/ \E answering \in SUBSET Venues : ReadBalances(answering)

BooksSpec == BooksInit /\ [][BooksNext]_bookVars

Accountable == /\ ~story.astray /\ ~story.lost
               /\ Cardinality(TradesOf(today, sales)) <= Ring /\ book.day = today

\* The profit of the day that the loss limit goes by (dailyPnl) is the sum of the day's
\* sales, after midnight and after restarts alike: unless sales were lost with the
\* process, fell out of the ring, or the last was made on chain before anything rolled
\* the day.  A row saved on another day counts for nothing.
DayTruthful == Accountable => book.pnl = BookedOn(today, sales)

\* Once a balance has been read and the limit judged, a true loss of LimitPct of all
\* there is halts the entries, whichever exchanges did not answer, and however often
\* the process was restarted since.
LossLimitBites ==
    (Accountable /\ book.base > 0 /\ BookedOn(today, sales) * 100 <= -LimitPct * Equity(Venues))
        => LossLimitHit(RolledOver(book))
-----------------------------------------------------------------------------
(* The dollars that may be spent.  Kraken's balance includes what its open buy       *)
(* orders hold: both are asked for at once, and the orders keep filling.             *)

Open == {o \in OrderIds : left[o] > 0}

QuoteInit ==
    /\ cash = Share /\ left \in [OrderIds -> 0..OrderCost] /\ Total(left, OrderIds) <= cash
    /\ quote = [cash |-> NoBook, seen |-> NoBook,   \* the two answers
                asked |-> NoBook,                   \* the cancellations still awaited
                reserved |-> 0, usd |-> NoBook,
                moved |-> FALSE]    \* history: the account changed meanwhile

Answered == quote.cash # NoBook /\ quote.seen # NoBook
SeenOpen == {o \in OrderIds : quote.seen # NoBook /\ quote.seen[o] > 0}

ReadCash ==
    /\ quote.cash = NoBook /\ quote' = [quote EXCEPT !.cash = cash]
    /\ UNCHANGED <<cash, left>>

ReadOpenOrders ==
    /\ quote.seen = NoBook /\ quote' = [quote EXCEPT !.seen = left]
    /\ UNCHANGED <<cash, left>>

\* Both answers are in: what the orders hold is reserved, the stale ones are cancelled.
ReserveOpen ==
    /\ Answered /\ quote.asked = NoBook
    /\ quote' = [quote EXCEPT !.reserved = Total(quote.seen, OrderIds),
                              !.asked = SeenOpen \cap StaleOrders]
    /\ UNCHANGED <<cash, left>>

\* A cancellation is refused for an order that is no longer open: it stays reserved.
CancelStale(o) ==
    /\ quote.asked # NoBook /\ o \in quote.asked
    /\ left' = [left EXCEPT ![o] = 0]
    /\ quote' = [quote EXCEPT !.asked = @ \ {o},
                    !.reserved = IF o \in Open THEN Most(0, @ - quote.seen[o]) ELSE @]
    /\ UNCHANGED cash

\* Its answer is not heard, whether it was carried out or not.
CancelUnheard(o) ==
    /\ quote.asked # NoBook /\ o \in quote.asked
    /\ \E rest \in {left[o], 0} : left' = [left EXCEPT ![o] = rest]
    /\ quote' = [quote EXCEPT !.asked = @ \ {o}, !.moved = TRUE]
    /\ UNCHANGED cash

ConcludeQuote ==
    /\ quote.asked = {} /\ quote.usd = NoBook
    /\ quote' = [quote EXCEPT !.usd = Most(0, quote.cash - quote.reserved)]
    /\ UNCHANGED <<cash, left>>

Moved == IF quote.usd = NoBook THEN [quote EXCEPT !.moved = TRUE] ELSE quote

OrderFills(o) ==
    /\ o \in Open /\ left' = [left EXCEPT ![o] = @ - 1] /\ cash' = cash - 1 /\ quote' = Moved

OrderPlaced(o) ==
    /\ o \notin Open \cup SeenOpen
    /\ \E n \in 1..OrderCost : /\ n + Total(left, OrderIds) <= cash
                               /\ left' = [left EXCEPT ![o] = n]
    /\ quote' = Moved /\ UNCHANGED cash

QuoteNext ==
    \/ ReadCash \/ ReadOpenOrders \/ ReserveOpen \/ ConcludeQuote
    \/ \E o \in OrderIds : CancelStale(o) \/ CancelUnheard(o) \/ OrderFills(o) \/ OrderPlaced(o)

QuoteSpec == QuoteInit /\ [][QuoteNext]_quoteVars

\* The dollars called spendable are never dollars that an order seen open still holds:
\* too many by what was spent since they were counted, at the most; and they are exact
\* when the account stood still.
QuoteHonest ==
    quote.usd # NoBook =>
        /\ quote.usd <= Most(0, quote.cash - Total(left, SeenOpen))
        /\ (~quote.moved /\ quote.cash = cash) => quote.usd >= cash - Total(left, OrderIds)
-----------------------------------------------------------------------------
(* The sizes.  Dollars are in cents, volumes in thousandths of a lot.                *)

MinSpendable == 500     \* MIN_SPENDABLE_QUOTE_USD
OrderCap == 9950        \* no order above $99.50
Usable(cents) == Least(OrderCap, (cents * 995) \div 1000)

\* sellVolumeWithCushion: half a percent is held back, unless that alone makes the
\* volume less than the exchange takes.
SellVolume(available, limit, min) ==
    LET cushioned == Least(limit * 1000, available * 995)
    IN IF available <= 0 \/ limit <= 0 THEN 0
       ELSE IF min > 0 /\ cushioned < min * 1000 /\ available >= min
            THEN Least(limit, available) * 1000
            ELSE cushioned

\* maybeAutoConvert*Quote: the stable coins are sold one after the other until there
\* is enough; each sale costs a thousandth.  The balances are those read at the start.
ConvertStep(need, state, source) ==
    LET free == (source * 995) \div 1000
        quantity == Least(free, Least(Most(need, MinSpendable), OrderCap))
        direct == state.direct + (quantity * 999) \div 1000
    IN IF state.done \/ free < MinSpendable THEN state
       ELSE [direct |-> direct, sold |-> state.sold + quantity,
             done |-> (direct * 995) \div 1000 >= MinSpendable]
Converted(direct, sources, need) ==
    LET start == [direct |-> direct, sold |-> 0, done |-> direct * 995 >= need * 1000]
    IN ConvertStep(need, ConvertStep(need, start, sources[1]), sources[2])

\* The size of a buy: a part of what is available and of the cap is left for the fee
\* (in hundredths of a percent); refused below $5, or when what remains after the fee
\* would be below the least sale.  The order's limit is the ask and the slippage more,
\* in whole cents; prices are in hundredths of a cent.
Spend(available, limit, fee) ==
    (Least(available, limit) * Most(9000, 10000 - fee - 200)) \div 10000
BuySize(available, limit, fee, least, ask, slippage) ==
    LET spend == Spend(available, limit, fee)
        ceiling == (ask * (10000 + slippage)) \div 10000
    IN [spend |-> spend,
        refused |-> spend < MinSpendable \/ spend * (10000 - fee) < least * 10000,
        cost |-> (spend * (100 * ((ceiling + 50) \div 100))) \div ceiling]

\* reconstructEntryFromFills, over the fills newest first: the buys that make up the
\* holding.  Sales are passed over.
Matched(e, fill) ==
    IF fill.side # "buy" \/ e.remaining = 0 THEN e
    ELSE LET matched == Least(e.remaining, fill.volume)
         IN [remaining |-> e.remaining - matched, cost |-> e.cost + matched * fill.price]
Entry(holding, fills) ==
    LET after[n \in 0 .. Len(fills)] ==
            IF n = 0 THEN [remaining |-> holding, cost |-> 0] ELSE Matched(after[n - 1], fills[n])
    IN after[Len(fills)]

Held(fills) ==
    Total([i \in DOMAIN fills |-> IF fills[i].side = "buy" THEN fills[i].volume ELSE -fills[i].volume],
          DOMAIN fills)
Fills == UNION {[1..n -> [side : {"buy", "sell"}, price : {1, 3}, volume : {1, 2}]] : n \in 1..3}

SizingInit == sized = [of |-> "nothing"]

SizeSale(available, limit, min) ==
    sized' = [of |-> "sale", available |-> available, limit |-> limit, min |-> min,
              volume |-> SellVolume(available, limit, min)]
SizeConversion(direct, sources, need) ==
    sized' = [of |-> "conversion", direct |-> direct, sources |-> sources, need |-> need,
              result |-> Converted(direct, sources, need)]
SizeBuy(available, limit, fee, least, ask, slippage) ==
    sized' = [of |-> "buy", available |-> available, fee |-> fee, ask |-> ask,
              size |-> BuySize(available, limit, fee, least, ask, slippage)]
SizeEntry(fills) ==
    sized' = [of |-> "entry", fills |-> fills, entry |-> Entry(Held(fills), fills)]

\* Balances about the thresholds of $5, $99.50 and $100.
Balances == {0, 499, 500, 502, 504, 600, 4000, 9950, 10000, 10060, 20000}

SizingNext ==
    /\ sized.of = "nothing"
    /\ \/ \E available, limit, min \in 0..4 : SizeSale(available, limit, min)
       \/ \E direct, usdc, usdt \in Balances, need \in {300, 10000} :
             SizeConversion(direct, <<usdc, usdt>>, need)
       \/ \E available \in Balances, limit \in {500, 10000, 15000}, fee \in {10, 26, 60, 120},
             least \in {0, 500, 1000}, ask \in {5, 149, 2551, 10000, 100000}, slippage \in {0, 30} :
             SizeBuy(available, limit, fee, least, ask, slippage)
       \/ \E fills \in Fills : Held(fills) > 0 /\ SizeEntry(fills)

SizingSpec == SizingInit /\ [][SizingNext]_sized

\* The cushion never makes unsellable what could be sold, and never sells more than is
\* there or was asked for.
SalesSellable ==
    sized.of = "sale" =>
        /\ sized.volume <= 1000 * Least(sized.available, sized.limit)
        /\ (sized.available >= sized.min /\ sized.limit >= sized.min) => sized.volume >= 1000 * sized.min

\* Nothing is converted when there is enough; a conversion never pretends to more
\* than there then is, or to more than an order may cost; a coin of $5.10 or more is
\* enough to fund an order.
ConversionsFund ==
    sized.of = "conversion" =>
        LET usable == Usable(sized.result.direct)
        IN /\ usable <= sized.direct + sized.result.sold
           /\ sized.direct * 995 >= sized.need * 1000 => sized.result.sold = 0
           /\ (\E n \in DOMAIN sized.sources : sized.sources[n] >= 510) => usable >= Least(MinSpendable, sized.need)
           /\ sized.result.sold <= Least(2 * Most(sized.need, MinSpendable), 2 * OrderCap)

\* A buy can be paid with its fee, at the limit it is sent with, from a quarter of a
\* dollar a unit upwards: below that the rounding of the limit to cents exceeds what
\* was left for the fee.
BuysPayable ==
    (sized.of = "buy" /\ ~sized.size.refused /\ sized.ask >= 2500)
        => sized.size.cost * (10000 + sized.fee) <= sized.available * 10000

\* With all its history a holding is explained in full, at prices that were paid.
EntriesExplained ==
    sized.of = "entry" =>
        LET bought == {sized.fills[n].price : n \in {i \in DOMAIN sized.fills : sized.fills[i].side = "buy"}}
            held == Held(sized.fills)
        IN /\ sized.entry.remaining = 0
           /\ \E p \in bought : p * held <= sized.entry.cost
           /\ \E p \in bought : p * held >= sized.entry.cost

SizesSound == SalesSellable /\ ConversionsFund /\ BuysPayable /\ EntriesExplained

BooksTypeOK ==
    /\ book \in [pnl : Int, day : 1..MaxDays, base : Nat] /\ balances \subseteq Venues
    /\ today \in 1..MaxDays /\ Len(sales) <= MaxSales /\ Len(closed) <= Ring
    /\ \A i \in DOMAIN sales : sales[i].day \in 1..today /\ sales[i].net \in Nets
    /\ cash \in Nat /\ left \in [OrderIds -> 0..OrderCost]
    /\ quote.usd \in Nat \cup {NoBook} /\ quote.reserved \in Nat

\* The money the workers believe in is there.
BooksHonest == DayTruthful /\ LossLimitBites /\ QuoteHonest /\ SizesSound
=============================================================================
