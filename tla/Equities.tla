---- MODULE Equities ----
(***************************************************************************)
(* The equities worker of one user (daemon sources/equities.ts): per tick it *)
(* reads the positions at the user's broker, then takes the watchlist one    *)
(* stock at a time; the equity engine (packages/equity-engine) turns a signal *)
(* into an order or skips it, and the broker connectors (source-alpaca,      *)
(* -tradier, -schwab, -tradestation, -ibkr) place it.  Around the ticks the  *)
(* market fills, drops and queues orders, and days pass.                     *)
(*                                                                         *)
(* Shares and dollars are counted in halves (fractional brokers sell those).  *)
(* Time is a calendar day and a part of it; on some days the market is closed. *)
(* FINRA counts a day trade when a position is opened and closed on one day;  *)
(* roundTrips counts them at the moments their sells were sent, dayTrades is  *)
(* the worker's count.                                                     *)
(***************************************************************************)
EXTENDS Integers, Sequences, FiniteSets, FiniteSetsExt

CONSTANTS Stocks,              \* the watchlist, in any order and without repetitions
          Linkable,            \* brokers the user may have linked
          StockPrices,
          PerTradeUsd, MaxPositionUsd,
          PdtLimit,            \* day trades an account under $25k may make (3)
          PdtDays, KeepDays,   \* days of 24 h they count (5) and are kept (6)
          ExtendedHours,
          EquityDays, DayParts, EquityTicks,
          Closed,              \* days without a market: weekends, holidays
          Grants, MaxRenewals  \* times the user links the broker, renewals of tokens

Priority == <<"alpaca", "tradier", "schwab", "tradestation", "ibkr">>
ASSUME EquityConstants ==
    /\ Linkable \subseteq {Priority[i] : i \in DOMAIN Priority} /\ ExtendedHours \in BOOLEAN
    /\ {PerTradeUsd, MaxPositionUsd, PdtLimit, PdtDays, KeepDays} \subseteq Nat
    /\ PdtDays <= KeepDays /\ EquityDays > 0 /\ DayParts > 0
    /\ {EquityDays, DayParts, EquityTicks, MaxRenewals} \subseteq Nat
    /\ Closed \subseteq 1..EquityDays
    /\ StockPrices \subseteq Nat \ {0}

Never == 0 \* no such day
Moments == (1..EquityDays) \X (1..DayParts)

VARIABLES broker,      \* the broker traded through
          shares,      \* [Stocks -> Int]: at the broker
          resting,     \* orders the broker has and the market has not filled
          openDay,     \* [Stocks -> day]: when the position was really opened
          roundTrips,  \* [Moments -> positions closed on the day they were opened]
          kept,        \* the source's payload: [opened, dayTrades]
          etick,       \* the tick: <<>> or its copies
          tradingDay, dayPart, eticks,
          crossed,     \* history: orders sent on top of one still unfilled
          astray,      \* history: an order or a record of the worker went astray
          capBroken    \* history: stocks a buy took over the cap

market == <<shares, resting, openDay, roundTrips>>
clock == <<broker, tradingDay, dayPart, eticks>>
equityVars == <<market, clock, kept, etick, crossed, astray, capBroken>>

OrderSides == {"buy", "sell"}
NoTrades == [m \in Moments |-> 0]
NoRecord == [opened |-> [s \in Stocks |-> Never], dayTrades |-> NoTrades]

\* primaryBroker(): the first with credentials of the user's own.
Primary(linked) == Priority[CHOOSE i \in DOMAIN Priority :
    Priority[i] \in linked /\ \A j \in 1..i - 1 : Priority[j] \notin linked]

EquityInit ==
    /\ broker \in {Primary(linked) : linked \in (SUBSET Linkable) \ {{}}}
    /\ shares = [s \in Stocks |-> 0] /\ resting = {} /\ openDay = [s \in Stocks |-> Never]
    /\ roundTrips = NoTrades /\ kept = NoRecord /\ etick = <<>> /\ tradingDay = 1 /\ dayPart = 1
    /\ eticks = 0 /\ crossed = {} /\ astray = FALSE /\ capBroken = {}

----------------------------------------------------------------------------
\* The connectors.

\* Alpaca and IBKR take orders for part of a share.
Fractional == broker \in {"alpaca", "ibkr"}

\* Alpaca's clock knows holidays and half-days, and when the session closes.
AlpacaSessions == [status : {"open", "closed", "pre", "post"}, closing : BOOLEAN]

\* Tradier's clock tells the four apart, but not when the session closes.
TradierSessions == [status : {"open", "closed", "pre", "post"}, closing : {FALSE}]

\* The others ask the wall clock in New York: on a holiday the market is "open".
WallClockSessions == [status : {"open", "closed", "pre", "post"}, closing : {FALSE}]

\* On a day without a market the first two say so.
Sessions == CASE broker = "alpaca" -> {x \in AlpacaSessions : tradingDay \in Closed => x.status = "closed"}
              [] broker = "tradier" -> {x \in TradierSessions : tradingDay \in Closed => x.status = "closed"}
              [] OTHER -> WallClockSessions

\* What a call of placeOrder() leads to: the broker has the order or not, and what
\* the worker is told.
Placed == [landed |-> TRUE, ok |-> TRUE]
Turned == [landed |-> FALSE, ok |-> FALSE]
Unheard == [landed |-> TRUE, ok |-> FALSE]  \* the answer was lost
Phantom == [landed |-> FALSE, ok |-> TRUE]

\* An order that comes back canceled (done_for_day, stopped) is no failure.
AlpacaPlaces == {Placed, Turned, Unheard, Phantom}
TradierPlaces == {Placed, Turned, Unheard, Phantom}
\* 201 and a Location; a rejection arrives later.
SchwabPlaces == {Placed, Turned, Unheard}
\* An answer without Orders counts as accepted.
TradeStationPlaces == {Placed, Turned, Unheard, Phantom}
\* So does a question to be confirmed, or an order IBKR calls Inactive.
IbkrPlaces == {Placed, Turned, Unheard, Phantom}

Places == CASE broker = "alpaca" -> AlpacaPlaces
            [] broker = "tradier" -> TradierPlaces
            [] broker = "schwab" -> SchwabPlaces
            [] broker = "tradestation" -> TradeStationPlaces
            [] broker = "ibkr" -> IbkrPlaces

----------------------------------------------------------------------------
\* The equity engine.

\* No more than so many times 24 hours ago.
Within(m, days) ==
    \/ m[1] > tradingDay - days
    \/ m[1] = tradingDay - days /\ m[2] >= dayPart

\* countRecentDayTrades(): "calendar days", closed ones included.
PdtWindow == {m \in Moments : Within(m, PdtDays)}
TripsIn(days, window) == MapThenSumSet(LAMBDA m : days[m], window)
RecentDayTrades(days) == TripsIn(days, PdtWindow)

\* A day trade more at a moment.
OneTrip(days, m) == [days EXCEPT ![m] = @ + 1]

\* A mutant: one day trade too many.
BlocksLate(days) == RecentDayTrades(days) > PdtLimit

\* wouldExceedPdt(): for an account known to hold less than $25k.
PdtBlocks(days) == RecentDayTrades(days) >= PdtLimit

Tradable(session) ==
    \/ session.status = "open"
    \/ ExtendedHours /\ session.status \in {"pre", "post"}

\* A sell closes what is held, unless that is a day trade too many.
ExitOrder(s, t) ==
    IF t.held[s] <= 0 \/ (t.opened[s] = tradingDay /\ PdtBlocks(t.dayTrades))
    THEN 0 ELSE t.held[s]

\* The dollars of a buy: per trade, below the position cap, within buying power.
EntryUsd(heldUsd, power) ==
    LET bounds == {2 * PerTradeUsd, 2 * MaxPositionUsd - heldUsd, 2 * power}
    IN CHOOSE m \in bounds : \A n \in bounds : m <= n

\* Not close to the session's close, since nothing is to be held overnight.
EntryOrder(s, t, price, session, power) ==
    LET heldUsd == IF t.held[s] > 0 THEN t.held[s] * price ELSE 0
        usd == EntryUsd(heldUsd, power)
    IN IF heldUsd >= 2 * MaxPositionUsd \/ session.closing \/ usd <= 0 THEN 0
       ELSE IF Fractional THEN usd \div price
       ELSE 2 * (usd \div (2 * price))

\* decideEquityOrder(): half shares to trade, 0 to skip.
Decide(side, s, t, price, session, power) ==
    IF ~Tradable(session) THEN 0
    ELSE IF side = "sell" THEN ExitOrder(s, t)
    ELSE EntryOrder(s, t, price, session, power)

----------------------------------------------------------------------------
\* tick(): positions and buying power are read once; a failed read ends it.  The orders
\* still unfilled (waiting) are not read.
StartEquityTick ==
    /\ etick = <<>> /\ eticks < EquityTicks
    /\ eticks' = eticks + 1
    /\ etick' = <<[left |-> Stocks, held |-> shares, opened |-> kept.opened,
                   dayTrades |-> kept.dayTrades, sent |-> FALSE,
                   waiting |-> {<<o.stock, o.side>> : o \in resting}]>>
    /\ UNCHANGED <<market, broker, tradingDay, dayPart, kept, crossed, astray, capBroken>>

\* What the tick notes of an order it takes to be placed.
NoteBuy(t, s) == IF t.held[s] <= 0 THEN [t EXCEPT !.opened[s] = tradingDay] ELSE t
NoteSell(t, s) ==
    [t EXCEPT !.dayTrades = IF t.opened[s] = tradingDay
                              THEN OneTrip(t.dayTrades, <<tradingDay, dayPart>>) ELSE t.dayTrades,
              !.opened[s] = Never]
Note(t, side, s) == IF side = "buy" THEN NoteBuy(t, s) ELSE NoteSell(t, s)

Order(s, side, qty) ==
    [stock |-> s, side |-> side, qty |-> qty, tick |-> eticks, at |-> <<tradingDay, dayPart>>]

\* An order of a side of a stock, on top of unfilled ones.
Crossing(t, s, side) == {<<s, side, other>> : other \in {x \in OrderSides : <<s, x>> \in t.waiting}}

StockInTurn(s) == etick # <<>> /\ s \in etick[1].left
NextStock(t, s) == [t EXCEPT !.left = @ \ {s}]

\* No signal, no order, or a quote that cannot be had.
PassStock(s) ==
    /\ StockInTurn(s)
    /\ etick' = <<NextStock(etick[1], s)>>
    /\ UNCHANGED <<market, clock, kept, crossed, astray, capBroken>>

\* A signal that leads to an order.  Buying power is not reduced by the orders of the
\* tick before this one.
TradeStock(s, side, price, session, power, outcome) ==
    /\ StockInTurn(s)
    /\ LET t == etick[1]
           qty == Decide(side, s, t, price, session, power)
           noted == IF outcome.ok THEN Note(t, side, s) ELSE t
       IN /\ qty > 0
          /\ resting' = IF outcome.landed THEN resting \union {Order(s, side, qty)} ELSE resting
          /\ etick' = <<[NextStock(noted, s) EXCEPT !.sent = TRUE]>>
          /\ astray' = (astray \/ outcome \notin {Placed, Turned})
          /\ crossed' = IF outcome.landed THEN crossed \union Crossing(t, s, side) ELSE crossed
          /\ capBroken' = IF outcome.landed /\ side = "buy" /\ (shares[s] + qty) * price > 2 * MaxPositionUsd
                          THEN capBroken \union {s} ELSE capBroken
    /\ UNCHANGED <<shares, openDay, roundTrips, clock, kept>>

\* savePayload() writes the row at most every 30 s, and the next tick starts from the
\* row; sooner than that the tick's records are lost.
FinishEquityTick(flushed) ==
    /\ etick # <<>> /\ etick[1].left = {}
    /\ LET t == etick[1]
           record == [opened |-> t.opened,
                      dayTrades |-> [m \in Moments |-> IF Within(m, KeepDays) THEN t.dayTrades[m] ELSE 0]]
       IN /\ kept' = IF flushed THEN record ELSE kept
          /\ astray' = (astray \/ (~flushed /\ t.sent))
    /\ etick' = <<>>
    /\ UNCHANGED <<market, clock, crossed, capBroken>>

\* The daemon stops in the middle of a tick, or the tick throws.
EquityTickLost ==
    /\ etick # <<>>
    /\ etick' = <<>> /\ astray' = (astray \/ etick[1].sent)
    /\ UNCHANGED <<market, clock, kept, crossed, capBroken>>

\* POST /api/equities replaces the payload by the switch alone.
SwitchEquities ==
    /\ etick = <<>> /\ kept # NoRecord
    /\ kept' = NoRecord /\ astray' = TRUE
    /\ UNCHANGED <<market, clock, etick, crossed, capBroken>>

----------------------------------------------------------------------------
\* The market.

FillOrder(o) ==
    /\ o \in resting /\ tradingDay \notin Closed
    /\ resting' = resting \ {o}
    /\ LET s == o.stock
           after == IF o.side = "buy" THEN shares[s] + o.qty ELSE shares[s] - o.qty
       IN /\ shares' = [shares EXCEPT ![s] = after]
          /\ openDay' = [openDay EXCEPT ![s] = IF shares[s] <= 0 /\ after > 0 THEN tradingDay ELSE @]
          /\ roundTrips' = IF o.side = "sell" /\ shares[s] > 0 /\ openDay[s] = tradingDay
                           THEN OneTrip(roundTrips, o.at) ELSE roundTrips
    /\ UNCHANGED <<clock, kept, etick, crossed, astray, capBroken>>

\* An order the market does not take: rejected after it was accepted, or expired.
DropOrder(o) ==
    /\ o \in resting
    /\ resting' = resting \ {o} /\ astray' = TRUE
    /\ UNCHANGED <<shares, openDay, roundTrips, clock, kept, etick, crossed, capBroken>>

\* Bound: days matter to the day trader rule alone; once nothing is claimed of it, none pass.
Ruling == crossed = {} /\ ~astray

\* No tick lasts into the next part of a day.
NextDayPart ==
    /\ etick = <<>> /\ dayPart < DayParts /\ Ruling
    /\ dayPart' = dayPart + 1
    /\ UNCHANGED <<market, broker, tradingDay, kept, etick, eticks, crossed, astray, capBroken>>

\* An order left over is filled on another day than it was noted for.
NextTradingDay ==
    /\ etick = <<>> /\ tradingDay < EquityDays /\ Ruling
    /\ tradingDay' = tradingDay + 1 /\ dayPart' = 1
    /\ astray' = (astray \/ resting # {})
    /\ UNCHANGED <<market, broker, kept, etick, eticks, crossed, capBroken>>

EquityNext ==
    \/ StartEquityTick \/ EquityTickLost \/ SwitchEquities \/ NextDayPart \/ NextTradingDay
    \/ \E s \in Stocks : PassStock(s)
    \/ \E s \in Stocks, side \in OrderSides, price \in StockPrices, session \in Sessions,
          power \in {1, PerTradeUsd}, outcome \in Places :
          TradeStock(s, side, price, session, power, outcome)
    \/ \E flushed \in BOOLEAN : FinishEquityTick(flushed)
    \/ \E o \in resting : FillOrder(o) \/ DropOrder(o)

EquitySpec == EquityInit /\ [][EquityNext]_equityVars

----------------------------------------------------------------------------
\* The tokens of a linked broker.  Each consent of the user is a grant; a provider
\* that rotates refresh tokens takes only the last one of a grant.

VARIABLES issued,      \* [Grants -> number of the last refresh token]
          linkToken,   \* the refresh token in the user's sealed secrets
          tokenBox,    \* sequence of tokens waiting in the inbox
          callback,    \* <<>> or an OAuth callback: [seen, token]
          renewal,     \* <<>> or the tokens a renewal brought
          tokenMishap  \* history: what went wrong on the way

linkVars == <<issued, linkToken, tokenBox, callback, renewal, tokenMishap>>

NoLink == [grant |-> 0, n |-> 0]

LinkInit ==
    /\ issued = [g \in Grants |-> 0] /\ linkToken = NoLink /\ tokenBox = <<>>
    /\ callback = <<>> /\ renewal = <<>> /\ tokenMishap = {}

\* The callback reads the row, then exchanges the code for tokens.
ExchangeCode(g) ==
    /\ callback = <<>> /\ issued[g] = 0 /\ \A h \in Grants : h < g => issued[h] > 0
    /\ issued' = [issued EXCEPT ![g] = 1]
    /\ callback' = <<[seen |-> tokenBox, token |-> [grant |-> g, n |-> 1]]>>
    /\ UNCHANGED <<linkToken, tokenBox, renewal, tokenMishap>>

\* It writes back the inbox it read, with one entry more.
QueueTokens ==
    /\ callback # <<>>
    /\ tokenBox' = Append(callback[1].seen, callback[1].token)
    /\ tokenMishap' = tokenMishap \union
          (IF callback[1].seen # tokenBox THEN {"outdated inbox"} ELSE {})
    /\ callback' = <<>>
    /\ UNCHANGED <<issued, linkToken, renewal>>

\* Any worker of the user that loads the settings while they are unlocked.
DrainBox ==
    /\ tokenBox # <<>>
    /\ linkToken' = tokenBox[Len(tokenBox)] /\ tokenBox' = <<>>
    /\ UNCHANGED <<issued, callback, renewal, tokenMishap>>

\* refreshAccessToken(): the provider answers with the next tokens, or refuses.
RenewTokens ==
    /\ renewal = <<>> /\ linkToken # NoLink
    /\ issued[linkToken.grant] = linkToken.n /\ linkToken.n <= MaxRenewals
    /\ issued' = [issued EXCEPT ![linkToken.grant] = @ + 1]
    /\ renewal' = <<[linkToken EXCEPT !.n = @ + 1]>>
    /\ UNCHANGED <<linkToken, tokenBox, callback, tokenMishap>>

\* The secrets written: the refresh token too, when the provider sent one.
TokenPatch(tokens) == tokens

StoreTokens ==
    /\ renewal # <<>>
    /\ linkToken' = TokenPatch(renewal[1]) /\ renewal' = <<>>
    /\ UNCHANGED <<issued, tokenBox, callback, tokenMishap>>

\* The user has locked, the row cannot be read or written, the daemon stops, or the
\* provider's answer is lost: the old refresh token is spent and the new one is gone.
LoseTokens ==
    /\ renewal # <<>>
    /\ renewal' = <<>> /\ tokenMishap' = tokenMishap \union {"lost"}
    /\ UNCHANGED <<issued, linkToken, tokenBox, callback>>

LinkNext == \/ \E g \in Grants : ExchangeCode(g)
            \/ QueueTokens \/ DrainBox \/ RenewTokens \/ StoreTokens \/ LoseTokens

LinkSpec == LinkInit /\ [][LinkNext]_linkVars
----------------------------------------------------------------------------
EquityTypeOK ==
    /\ broker \in Linkable /\ shares \in [Stocks -> Int] /\ openDay \in [Stocks -> 0..EquityDays]
    /\ roundTrips \in [Moments -> Nat] /\ <<tradingDay, dayPart>> \in Moments /\ eticks \in 0..EquityTicks
    /\ kept.opened \in [Stocks -> 0..EquityDays] /\ kept.dayTrades \in [Moments -> Nat]

LinkTypeOK ==
    LET Token == [grant : Grants \union {0}, n : 0..MaxRenewals + 1]
    IN /\ issued \in [Grants -> 0..MaxRenewals + 1] /\ linkToken \in Token
       /\ tokenBox \in Seq(Token) /\ tokenMishap \subseteq {"outdated inbox", "lost"}

\* "No shorting in v1" (equity-engine/src/index.ts:147): a stock is sold short only by a
\* sell sent on top of a sell of it that was unfilled when the tick began.
NeverShort == \A s \in Stocks : shares[s] >= 0 \/ <<s, "sell", "sell">> \in crossed

\* A buy takes a stock over the cap only on top of an unfilled buy of it.
PositionCapHolds == \A s \in capBroken : <<s, "buy", "buy">> \in crossed

\* The last so many days the market was open, today included: the rule's own window.
RuleWindow == {m \in Moments : Cardinality((m[1]..tradingDay) \ Closed) <= PdtDays}

\* No closed day is among the days the guard looks at.
Unbroken == \A d \in Closed : d < tradingDay - PdtDays \/ d > tradingDay

\* The pattern day trader rule: while no order was sent on top of an unfilled one of its
\* stock, every order came out as the worker was told and every record of it was kept,
\* no more day trades than allowed in as many times 24 hours, nor in as many days of the
\* market when none of those the guard looks at was closed.  (After a weekend the guard
\* forgets trades the rule counts, against pdt.ts:14-15, "it never under-counts".)
PdtHolds ==
    \/ crossed # {} \/ astray
    \/ /\ RecentDayTrades(roundTrips) <= PdtLimit
       /\ Unbroken => TripsIn(roundTrips, RuleWindow) <= PdtLimit

\* A linked broker stays linked: the refresh token kept is the one its provider takes,
\* unless renewed tokens were lost on the way to the row or a callback put back an
\* inbox that had changed meanwhile.
LinkLives ==
    linkToken # NoLink /\ tokenMishap = {} =>
        \/ issued[linkToken.grant] = linkToken.n
        \/ renewal # <<>> /\ renewal[1].grant = linkToken.grant

EquitiesSound == NeverShort /\ PositionCapHolds /\ PdtHolds /\ LinkLives
====
