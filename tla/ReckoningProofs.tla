---- MODULE ReckoningProofs ----
(***************************************************************************)
(* What the trading workers reckon with is so, each for any values of its  *)
(* constants: the books of the day and its loss limit, the dollars of an   *)
(* exchange, the sizes of orders, the tokens of linked brokers, the stocks *)
(* held and the day trades made, the charts, their candles and the         *)
(* verdicts read off them.                                                 *)
(*                                                                         *)
(* They, and the accounts before them, are run one at a time by MCWeb; none*)
(* reads what another writes, so each is proved from its own specification *)
(* and the last section puts them together again.                          *)
(***************************************************************************)
EXTENDS MCWeb, AccountProofs

-----------------------------------------------------------------------------
(* The books.  What is kept of the closed trades are the last sales (Recent),  *)
(* and these are in order; so the day's sales are among them unless the day    *)
(* had more than the ring holds, and summing up either gives the same.         *)

Trade == [day : Nat, net : Int]
Book == [pnl : Int, day : Nat, base : Nat]

InOrder(ts, date) == /\ ts \in Seq(Trade)
                     /\ \A i \in 1 .. Len(ts) : ts[i].day <= date
                     /\ \A i, j \in 1 .. Len(ts) : i <= j => ts[i].day <= ts[j].day

\* All of ts, or the last of it and no less than the ring.
Recent(c, ts) == /\ c \in Seq(Trade) /\ Len(c) <= Len(ts)
                 /\ \A i \in 1 .. Len(c) : c[i] = ts[i + (Len(ts) - Len(c))]
                 /\ Len(c) < Len(ts) => Len(c) >= Ring

FewToday == Cardinality(TradesOf(today, sales)) <= Ring

BooksInv ==
    /\ book \in Book /\ book.day <= today /\ today \in Nat /\ InOrder(sales, today) /\ closed \in Seq(Trade)
    /\ balances \subseteq Venues /\ book.base <= Equity(Venues)
    /\ story \in [astray : BOOLEAN, unsaved : BOOLEAN, lost : BOOLEAN, starts : Nat]
    /\ saved # NoBook => /\ saved \in [book : Book, closed : Seq(Trade)]
                         /\ saved.book.day <= today /\ saved.book.base <= Equity(Venues)
    /\ ~story.lost => Recent(closed, sales)
    /\ ~story.lost /\ ~story.unsaved =>
          IF saved = NoBook THEN sales = <<>>
          ELSE /\ saved.closed = closed
               /\ saved.book.day = today /\ FewToday => saved.book.pnl \in {0, BookedOn(today, sales)}
    /\ ~story.lost /\ FewToday =>
          IF book.day = today
          THEN book.pnl \in {0, BookedOn(today, sales)} /\ (~story.astray => book.pnl = BookedOn(today, sales))
          ELSE ~story.astray => TradesOf(today, sales) = {}

\* The sum over a set.
LEMMA TotalIsSum == ASSUME NEW f, NEW S PROVE Total(f, S) = SumOf(f, S)
  BY DEF Total, SumOf

\* What the balances come to, in all and in part.
LEMMA EquityIsNat ==
    /\ Equity(Venues) \in Nat
    /\ \A read \in SUBSET Venues : Equity(read) \in Nat /\ Equity(read) <= Equity(Venues)
<1> DEFINE f == [v \in Venues |-> Share]
<1>1. IsFiniteSet(Venues) /\ Share \in Nat
  BY BooksConstants
<1>2. ASSUME NEW read \in SUBSET Venues PROVE Equity(read) \in Nat /\ Equity(Venues) \in Nat /\ Equity(read) <= Equity(Venues)
  <2>1. Equity(read) = SumOf(f, read) /\ Equity(Venues) = SumOf(f, Venues)
    BY TotalIsSum DEF Equity
  <2>2. IsFiniteSet(read) /\ \A v \in Venues : f[v] \in Nat
    BY <1>1, FS_Subset
  <2>3. (\A v \in Venues : f[v] \in Nat) /\ (\A v \in read : f[v] \in Nat) /\ (\A v \in read : f[v] \in Int /\ f[v] <= f[v])
    BY <2>2
  <2> HIDE DEF f
  <2>4. SumOf(f, Venues) \in Nat /\ SumOf(f, read) <= SumOf(f, Venues)
    BY <1>1, <2>3, SumsCompare
  <2>5. SumOf(f, read) \in Nat
    <3>1. read \in SUBSET read
      OBVIOUS
    <3> QED BY <2>2, <2>3, <3>1, SumsCompare
  <2> QED BY <2>1, <2>4, <2>5
<1> QED BY <1>2

\* What was booked on a day is a number, and nothing on a day without trades.
LEMMA BookedIsInt ==
    ASSUME NEW ts \in Seq(Trade), NEW date
    PROVE  /\ IsFiniteSet(TradesOf(date, ts)) /\ TradesOf(date, ts) \subseteq 1 .. Len(ts)
           /\ BookedOn(date, ts) \in Int
           /\ TradesOf(date, ts) = {} => BookedOn(date, ts) = 0
  <1> DEFINE f == [i \in DOMAIN ts |-> ts[i].net]
             S == TradesOf(date, ts)
  <1>1. DOMAIN ts = 1 .. Len(ts) /\ Len(ts) \in Nat /\ \A i \in 1 .. Len(ts) : ts[i] \in Trade
    BY ElementOfSeq
  <1>2. S \subseteq 1 .. Len(ts) /\ IsFiniteSet(S)
    <2>1. S \subseteq 1 .. Len(ts) /\ IsFiniteSet(1 .. Len(ts))
      BY <1>1, FS_Interval DEF TradesOf
    <2> QED BY <2>1, FS_Subset
  <1>3. \A i \in S : f[i] \in Int
    BY <1>1, <1>2 DEF Trade
  <1>4. BookedOn(date, ts) = SumOf(f, S)
    BY TotalIsSum DEF BookedOn
  <1> HIDE DEF f, S
  <1>5. SumOf(f, S) \in Int
    BY <1>2, <1>3, SumsAgree
  <1>6. S = {} => SumOf(f, S) = 0
    BY SumOfNone
  <1> QED BY <1>2, <1>4, <1>5, <1>6 DEF S

\* The day's trades among the recent ones are all of the day's, if they are not too many.
LEMMA RecentBooked ==
    ASSUME NEW ts, NEW date \in Nat, InOrder(ts, date), NEW c, Recent(c, ts),
           Cardinality(TradesOf(date, ts)) <= Ring
    PROVE  /\ BookedOn(date, c) = BookedOn(date, ts)
           /\ TradesOf(date, c) = {} => TradesOf(date, ts) = {}
  <1> DEFINE d == Len(ts) - Len(c)
             f == [i \in DOMAIN c |-> c[i].net]
             g == [i \in DOMAIN ts |-> ts[i].net]
             b == [i \in 1 .. Len(c) |-> i + d]
             S == TradesOf(date, c)
             R == TradesOf(date, ts)
  <1>1. /\ DOMAIN ts = 1 .. Len(ts) /\ Len(ts) \in Nat /\ \A i \in 1 .. Len(ts) : ts[i] \in Trade
        /\ DOMAIN c = 1 .. Len(c) /\ Len(c) \in Nat /\ \A i \in 1 .. Len(c) : c[i] \in Trade
        /\ d \in Nat
    BY ElementOfSeq DEF InOrder, Recent
  <1>2. IsFiniteSet(S) /\ S \subseteq 1 .. Len(c) /\ IsFiniteSet(R) /\ R \subseteq 1 .. Len(ts)
    BY BookedIsInt DEF InOrder, Recent
  <1>3. ASSUME NEW k \in R PROVE k > d
    <2> SUFFICES ASSUME k <= d PROVE FALSE
      BY <1>1, <1>2
    <2>1. k \in 1 .. Len(ts) /\ ts[k].day = date
      BY <1>2 DEF TradesOf
    <2>2. k .. Len(ts) \subseteq R
      <3> SUFFICES ASSUME NEW j \in k .. Len(ts) PROVE j \in R
        OBVIOUS
      <3>1. j \in 1 .. Len(ts) /\ k <= j
        BY <2>1
      <3>2. ts[j].day <= date /\ ts[k].day <= ts[j].day
        BY <2>1, <3>1 DEF InOrder
      <3>3. ts[j].day \in Nat
        BY <1>1, <3>1 DEF Trade
      <3> QED BY <1>1, <2>1, <3>1, <3>2, <3>3 DEF TradesOf
    <2>3. Cardinality(k .. Len(ts)) = Len(ts) - k + 1
      BY <1>1, <2>1, FS_Interval
    <2>4. Cardinality(k .. Len(ts)) <= Cardinality(R)
      BY <1>2, <2>2, FS_Subset
    <2>5. Cardinality(R) \in Nat /\ Cardinality(R) <= Ring
      BY <1>2, FS_CardinalityType
    <2>6. Len(c) >= Ring /\ Ring \in Nat
      BY <1>1, <2>1, BooksConstants DEF Recent
    <2> HIDE DEF R
    <2> QED BY <1>1, <2>1, <2>3, <2>4, <2>5, <2>6
  <1>4. ASSUME NEW i \in 1 .. Len(c) PROVE i + d \in 1 .. Len(ts) /\ c[i] = ts[i + d]
    BY <1>1 DEF Recent
  <1>5. {b[i] : i \in S} = R
    <2>1. ASSUME NEW i \in S PROVE b[i] \in R
      BY <1>1, <1>2, <1>4 DEF TradesOf
    <2>2. ASSUME NEW k \in R PROVE \E i \in S : b[i] = k
      <3>1. k - d \in 1 .. Len(c) /\ (k - d) + d = k
        BY <1>1, <1>2, <1>3
      <3>2. c[k - d] = ts[k]
        BY <1>4, <3>1
      <3>3. k - d \in S /\ b[k - d] = k
        BY <1>1, <3>1, <3>2 DEF TradesOf
      <3> QED BY <3>3
    <2> QED BY <2>1, <2>2
  <1>6. \A i \in S : f[i] \in Int /\ g[b[i]] = f[i]
    <2> SUFFICES ASSUME NEW i \in S PROVE f[i] \in Int /\ g[b[i]] = f[i]
      OBVIOUS
    <2>1. i \in 1 .. Len(c)
      BY <1>2
    <2> QED BY <1>1, <1>4, <2>1 DEF Trade
  <1>7. \A i, j \in S : b[i] = b[j] => i = j
    BY <1>1, <1>2
  <1>8. BookedOn(date, c) = SumOf(f, S) /\ BookedOn(date, ts) = SumOf(g, R)
    BY TotalIsSum DEF BookedOn
  <1>9. S = {} => R = {}
    BY <1>5
  <1> HIDE DEF f, g, b, S, R
  <1>10. SumOf(g, {b[i] : i \in S}) = SumOf(f, S)
    <2>1. (\A i \in S : f[i] \in Int) /\ (\A i \in S : g[b[i]] = f[i]) /\ IsFiniteSet(S)
      BY <1>2, <1>6
    <2> QED BY <1>7, <2>1, SumRenamed
  <1> QED BY <1>5, <1>8, <1>9, <1>10 DEF S, R

\* Closing a trade keeps the trades in order and the last of them recent.
LEMMA ClosingKeeps ==
    ASSUME NEW ts, NEW date \in Nat, InOrder(ts, date), NEW net \in Int, NEW c \in Seq(Trade)
    PROVE  LET t == [day |-> date, net |-> net]
           IN /\ InOrder(Append(ts, t), date) /\ Kept(Append(c, t)) \in Seq(Trade)
              /\ Recent(c, ts) => Recent(Kept(Append(c, t)), Append(ts, t))
  <1> DEFINE t == [day |-> date, net |-> net]
             us == Append(ts, t)
             a == Append(c, t)
             m == Most(1, Len(a) - Ring + 1)
  <1>1. ts \in Seq(Trade) /\ t \in Trade
    BY DEF InOrder, Trade
  <1>2. /\ us \in Seq(Trade) /\ Len(us) = Len(ts) + 1 /\ us[Len(us)] = t
        /\ \A i \in 1 .. Len(ts) : us[i] = ts[i]
    BY <1>1, AppendProperties
  <1>3. /\ a \in Seq(Trade) /\ Len(a) = Len(c) + 1 /\ a[Len(a)] = t
        /\ \A i \in 1 .. Len(c) : a[i] = c[i]
    BY <1>1, AppendProperties
  <1>4. Len(ts) \in Nat /\ Len(c) \in Nat /\ Ring \in Nat /\ t.day = date
    BY <1>1, LenProperties, BooksConstants
  <1>5. InOrder(us, date)
    <2>1. ASSUME NEW i \in 1 .. Len(us) PROVE us[i].day <= date
      <3>1. CASE i = Len(us)
        BY <1>2, <1>4, <3>1
      <3>2. CASE i # Len(us)
        BY <1>2, <1>4, <3>2 DEF InOrder
      <3> QED BY <3>1, <3>2
    <2>2. ASSUME NEW i \in 1 .. Len(us), NEW j \in 1 .. Len(us), i <= j PROVE us[i].day <= us[j].day
      <3>1. CASE j = Len(us)
        BY <1>2, <1>4, <2>1, <3>1
      <3>2. CASE j # Len(us)
        <4>1. i \in 1 .. Len(ts) /\ j \in 1 .. Len(ts)
          BY <1>2, <1>4, <2>2, <3>2
        <4> QED BY <1>2, <2>2, <4>1 DEF InOrder
      <3> QED BY <3>1, <3>2
    <2> QED BY <1>2, <2>1, <2>2 DEF InOrder
  <1> HIDE DEF a, us, t
  <1>6. m \in Nat /\ m >= 1 /\ m <= Len(a) + 1 /\ (m = 1 \/ m = Len(a) - Ring + 1) /\ (m = 1 => Len(a) <= Ring)
    BY <1>3, <1>4 DEF Most
  <1> HIDE DEF m
  <1>7. /\ Kept(a) \in Seq(Trade) /\ Len(Kept(a)) = Len(a) - m + 1
        /\ \A i \in 1 .. Len(Kept(a)) : Kept(a)[i] = a[m + i - 1]
    <2>1. Kept(a) = SubSeq(a, m, Len(a))
      BY DEF Kept, m
    <2>2. m \in 1 .. Len(a) + 1 /\ Len(a) \in m - 1 .. Len(a)
      BY <1>3, <1>4, <1>6
    <2> QED BY <1>3, <1>4, <1>6, <2>1, <2>2, SubSeqProperties
  <1>8. ASSUME Recent(c, ts) PROVE Recent(Kept(a), us)
    <2> DEFINE d == Len(ts) - Len(c)
    <2>1. d \in Nat /\ \A i \in 1 .. Len(c) : c[i] = ts[i + d]
      BY <1>4, <1>8 DEF Recent
    <2>2. ASSUME NEW i \in 1 .. Len(a) PROVE a[i] = us[i + d]
      <3>1. CASE i = Len(a)
        BY <1>2, <1>3, <1>4, <3>1
      <3>2. CASE i # Len(a)
        <4>1. i \in 1 .. Len(c) /\ i + d \in 1 .. Len(ts)
          BY <1>3, <1>4, <2>1, <3>2
        <4> QED BY <1>2, <1>3, <2>1, <4>1
      <3> QED BY <3>1, <3>2
    <2>3. Len(Kept(a)) <= Len(us)
      BY <1>2, <1>3, <1>4, <1>6, <1>7, <2>1
    <2>4. ASSUME NEW i \in 1 .. Len(Kept(a))
          PROVE  Kept(a)[i] = us[i + (Len(us) - Len(Kept(a)))]
      <3>1. m + i - 1 \in 1 .. Len(a) /\ (m + i - 1) + d = i + (Len(us) - Len(Kept(a)))
        BY <1>2, <1>3, <1>4, <1>6, <1>7, <2>1
      <3> QED BY <1>7, <2>2, <3>1
    <2>5. ASSUME Len(Kept(a)) < Len(us) PROVE Len(Kept(a)) >= Ring
      <3>1. CASE m = 1
        <4>1. d > 0
          BY <1>2, <1>3, <1>4, <1>7, <2>1, <2>5, <3>1
        <4>2. Len(c) >= Ring
          BY <1>4, <1>8, <4>1 DEF Recent
        <4> QED BY <1>3, <1>4, <1>7, <3>1, <4>2
      <3>2. CASE m = Len(a) - Ring + 1
        BY <1>3, <1>4, <1>7, <3>2
      <3> QED BY <1>6, <3>1, <3>2
    <2> QED BY <1>7, <2>3, <2>4, <2>5 DEF Recent
  <1> QED BY <1>5, <1>7, <1>8 DEF a, us, t

\* Nobody has closed a trade.
LEMMA BooksStart == BooksInit => BooksInv
<1> SUFFICES ASSUME BooksInit PROVE BooksInv
  OBVIOUS
<1>1. sales = <<>> /\ closed = <<>> /\ today = 1 /\ book = [pnl |-> 0, day |-> 1, base |-> 0] /\ balances = {} /\ saved = NoBook
      /\ story = [astray |-> FALSE, unsaved |-> FALSE, lost |-> FALSE, starts |-> 1]
  BY DEF BooksInit, FreshBook
<1>2. <<>> \in Seq(Trade) /\ Len(<<>>) = 0
  BY EmptySeq
<1>3. InOrder(sales, today) /\ Recent(closed, sales)
  BY <1>1, <1>2 DEF InOrder, Recent
<1>4. TradesOf(today, sales) = {} /\ BookedOn(today, sales) = 0
  <2>1. TradesOf(today, sales) = {}
    BY <1>1, <1>2 DEF TradesOf
  <2> QED BY <1>1, <1>2, <2>1, BookedIsInt
<1>5. Equity(Venues) \in Nat
  BY EquityIsNat
<1> QED BY <1>1, <1>2, <1>3, <1>4, <1>5 DEF BooksInv, Book

\* What a trade leaves is a number.
LEMMA NetsAreInts == Nets \subseteq Int
<1> SUFFICES ASSUME NEW net \in Nets PROVE net \in Int
  OBVIOUS
<1>1. CASE net \in Amounts
  BY <1>1, BooksConstants
<1>2. ASSUME NEW n \in Amounts, net = -n PROVE net \in Int
  <2>1. n \in Nat
    BY BooksConstants
  <2>2. -n \in Int
    BY <2>1
  <2> QED BY <1>2, <2>2
<1> QED BY <1>1, <1>2 DEF Nets

\* A sale: the day's profit is told from the trades kept, on an exchange or on the day's book.
LEMMA SaleStep ==
    ASSUME BooksInv, NEW net \in Nets, SellOnExchange(net) \/ SellOnChain(net)
    PROVE  BooksInv'
<1> DEFINE t == [day |-> today, net |-> net]
<1>1. /\ sales' = Append(sales, t) /\ closed' = Kept(Append(closed, t))
      /\ balances' = balances /\ saved' = saved /\ today' = today
  BY DEF SellOnExchange, SellOnChain, CloseTrade
<1>2. net \in Int /\ today \in Nat /\ InOrder(sales, today) /\ closed \in Seq(Trade)
  <2>1. net \in Int
    BY NetsAreInts
  <2> QED BY <2>1 DEF BooksInv
<1>3. /\ InOrder(sales', today) /\ closed' \in Seq(Trade)
      /\ Recent(closed, sales) => Recent(closed', sales')
  BY <1>1, <1>2, ClosingKeeps
<1>4. BookedOn(today, closed') \in Int
  BY <1>3, BookedIsInt
<1>5. ~story.lost /\ FewToday' => BookedOn(today, closed') = BookedOn(today, sales')
  <2> SUFFICES ASSUME ~story.lost, FewToday' PROVE BookedOn(today, closed') = BookedOn(today, sales')
    OBVIOUS
  <2>1. Recent(closed', sales')
    BY <1>3 DEF BooksInv
  <2>2. Cardinality(TradesOf(today, sales')) <= Ring
    BY <1>1 DEF FewToday, TradesOf
  <2> QED BY <1>2, <1>3, <2>1, <2>2, RecentBooked
<1>6. /\ story' \in [astray : BOOLEAN, unsaved : BOOLEAN, lost : BOOLEAN, starts : Nat]
      /\ story'.unsaved /\ story'.lost = story.lost
  BY DEF SellOnExchange, SellOnChain, BooksInv
<1>7. /\ book' \in Book /\ book'.day <= today /\ book'.base <= Equity(Venues)
      /\ book'.pnl = BookedOn(today, closed') /\ (book'.day # today => story'.astray)
  <2>1. CASE SellOnExchange(net)
    <3>1. RolledOver(book) \in Book /\ RolledOver(book).day = today /\ RolledOver(book).base <= Equity(Venues)
      BY <1>2, EquityIsNat DEF RolledOver, FreshBook, Book, BooksInv
    <3> QED BY <1>2, <1>4, <2>1, <3>1 DEF SellOnExchange, Book
  <2>2. CASE SellOnChain(net)
    BY <1>2, <1>4, <2>2 DEF SellOnChain, Book, BooksInv
  <2> QED BY <2>1, <2>2
<1>8. Equity(Venues)' = Equity(Venues) /\ BookedOn(today, sales)' = BookedOn(today, sales') /\ TradesOf(today, sales)' = TradesOf(today, sales')
  BY <1>1 DEF Equity, BookedOn, TradesOf
<1> QED BY <1>1, <1>2, <1>3, <1>5, <1>6, <1>7, <1>8 DEF BooksInv

\* Judging the losses rolls a book of an earlier day, on which nothing of today was booked.
LEMMA JudgeStep == ASSUME BooksInv, JudgeLosses PROVE BooksInv'
<1>1. book' = WithBaseline(book) /\ UNCHANGED <<closed, balances, saved, today, sales, story>>
  BY DEF JudgeLosses
<1>2. RolledOver(book) \in Book /\ RolledOver(book).day = today /\ RolledOver(book).base <= Equity(Venues)
  BY EquityIsNat DEF RolledOver, FreshBook, Book, BooksInv
<1>3. RolledOver(book).pnl = IF book.day = today THEN book.pnl ELSE 0
  BY DEF RolledOver, FreshBook
<1>4. Equity(balances) \in Nat /\ Equity(balances) <= Equity(Venues)
  BY EquityIsNat DEF BooksInv
<1>5. /\ book' \in Book /\ book'.day = today /\ book'.base <= Equity(Venues)
      /\ book'.pnl = IF book.day = today THEN book.pnl ELSE 0
  BY <1>1, <1>2, <1>3, <1>4 DEF WithBaseline, Book
<1>6. TradesOf(today, sales) = {} => BookedOn(today, sales) = 0
  BY BookedIsInt DEF BooksInv, InOrder
<1>7. /\ Equity(Venues)' = Equity(Venues) /\ BookedOn(today, sales)' = BookedOn(today, sales)
      /\ TradesOf(today, sales)' = TradesOf(today, sales) /\ FewToday' = FewToday
  BY <1>1 DEF Equity, BookedOn, TradesOf, FewToday
<1>8. today \in Nat
  BY DEF BooksInv
<1> QED BY <1>1, <1>5, <1>6, <1>7, <1>8 DEF BooksInv

\* Balances are read in part.
LEMMA ReadStep == ASSUME BooksInv, NEW answering \in SUBSET Venues, ReadBalances(answering) PROVE BooksInv'
<1>1. balances' = answering /\ UNCHANGED <<book, closed, saved, today, sales, story>>
  BY DEF ReadBalances
<1>2. /\ Equity(Venues)' = Equity(Venues) /\ BookedOn(today, sales)' = BookedOn(today, sales)
      /\ TradesOf(today, sales)' = TradesOf(today, sales) /\ FewToday' = FewToday
  BY <1>1 DEF Equity, BookedOn, TradesOf, FewToday
<1> QED BY <1>1, <1>2 DEF BooksInv

\* Nothing was sold on the new day.
LEMMA MidnightStep == ASSUME BooksInv, Midnight PROVE BooksInv'
<1>1. today' = today + 1 /\ story' = [story EXCEPT !.astray = FALSE] /\ UNCHANGED <<book, closed, balances, saved, sales>>
  BY DEF Midnight
<1>2. /\ today \in Nat /\ book.day \in Nat /\ book.day <= today /\ InOrder(sales, today)
      /\ saved # NoBook => saved.book.day \in Nat /\ saved.book.day <= today
  BY DEF BooksInv, Book
<1>3. today' \in Nat /\ book.day < today' /\ (saved # NoBook => saved.book.day < today') /\ today < today'
  BY <1>1, <1>2
<1>4. InOrder(sales, today') /\ TradesOf(today', sales) = {}
  <2>1. ASSUME NEW i \in 1 .. Len(sales) PROVE sales[i].day \in Nat /\ sales[i].day <= today' /\ sales[i].day # today'
    <3>1. sales[i] \in Trade
      BY <1>2, ElementOfSeq DEF InOrder
    <3> QED BY <1>1, <1>2, <3>1 DEF InOrder, Trade
  <2>2. DOMAIN sales = 1 .. Len(sales)
    BY <1>2, LenProperties DEF InOrder
  <2> QED BY <1>2, <2>1, <2>2 DEF InOrder, TradesOf
<1>5. Equity(Venues)' = Equity(Venues) /\ TradesOf(today, sales)' = {}
  BY <1>1, <1>4 DEF Equity, TradesOf
<1>6. /\ story' \in [astray : BOOLEAN, unsaved : BOOLEAN, lost : BOOLEAN, starts : Nat]
      /\ story'.unsaved = story.unsaved /\ story'.lost = story.lost
  BY <1>1 DEF BooksInv
<1>7. book.day # today' /\ (saved # NoBook => saved.book.day # today') /\ book.day <= today' /\ (saved # NoBook => saved.book.day <= today')
  BY <1>2, <1>3
<1> QED BY <1>1, <1>3, <1>4, <1>5, <1>6, <1>7 DEF BooksInv

\* What is saved is what is kept.
LEMMA BooksSaveStep == ASSUME BooksInv, SaveBooks PROVE BooksInv'
<1>1. /\ saved' = [book |-> book, closed |-> closed] /\ story' = [story EXCEPT !.unsaved = FALSE]
      /\ UNCHANGED <<book, closed, balances, today, sales>>
  BY DEF SaveBooks
<1>2. saved' \in [book : Book, closed : Seq(Trade)]
  BY <1>1 DEF BooksInv
<1>3. saved' # NoBook
  BY <1>2, BooksConstants DEF Book, Trade
<1>4. /\ Equity(Venues)' = Equity(Venues) /\ BookedOn(today, sales)' = BookedOn(today, sales)
      /\ TradesOf(today, sales)' = TradesOf(today, sales) /\ FewToday' = FewToday
  BY <1>1 DEF Equity, BookedOn, TradesOf, FewToday
<1>5. /\ story' \in [astray : BOOLEAN, unsaved : BOOLEAN, lost : BOOLEAN, starts : Nat]
      /\ story'.astray = story.astray /\ story'.lost = story.lost
  BY <1>1 DEF BooksInv
<1> QED BY <1>1, <1>2, <1>3, <1>4, <1>5 DEF BooksInv

\* A process that starts finds what was saved; its profit is right whichever of the two it takes.
LEMMA BooksRestartStep == ASSUME BooksInv, RestartBooks PROVE BooksInv'
<1>1. balances' = {} /\ saved' = saved /\ today' = today /\ sales' = sales
  BY DEF RestartBooks
<1>2. /\ Equity(Venues)' = Equity(Venues) /\ BookedOn(today, sales)' = BookedOn(today, sales)
      /\ TradesOf(today, sales)' = TradesOf(today, sales) /\ FewToday' = FewToday
  BY <1>1 DEF Equity, BookedOn, TradesOf, FewToday
<1>3. /\ story' \in [astray : BOOLEAN, unsaved : BOOLEAN, lost : BOOLEAN, starts : Nat]
      /\ ~story'.unsaved /\ (~story'.lost => ~story.lost /\ ~story.unsaved)
  <2>1. story \in [astray : BOOLEAN, unsaved : BOOLEAN, lost : BOOLEAN, starts : Nat]
    BY DEF BooksInv
  <2>2. ASSUME NEW b \in BOOLEAN, story' = [story EXCEPT !.starts = @ + 1, !.lost = @ \/ story.unsaved,
                                                       !.unsaved = FALSE, !.astray = b]
        PROVE  /\ story' \in [astray : BOOLEAN, unsaved : BOOLEAN, lost : BOOLEAN, starts : Nat]
               /\ ~story'.unsaved /\ (~story'.lost => ~story.lost /\ ~story.unsaved)
    <3>1. story.starts + 1 \in Nat /\ (story.lost \/ story.unsaved) \in BOOLEAN
      BY <2>1
    <3>2. /\ story'.unsaved = FALSE /\ story'.lost = (story.lost \/ story.unsaved)
      BY <2>1, <2>2
    <3>3. story' \in [astray : BOOLEAN, unsaved : BOOLEAN, lost : BOOLEAN, starts : Nat]
      BY <2>1, <2>2, <3>1
    <3> QED BY <2>1, <3>2, <3>3
  <2>3. CASE saved = NoBook
    BY <2>2, <2>3 DEF RestartBooks
  <2>4. CASE saved # NoBook
    <3> DEFINE b == saved.book.day # today /\ TradesOf(today, saved.closed) # {}
    <3>1. b \in BOOLEAN
      OBVIOUS
    <3>2. story' = [story EXCEPT !.starts = @ + 1, !.lost = @ \/ story.unsaved, !.unsaved = FALSE, !.astray = b]
      BY <2>4 DEF RestartBooks
    <3> HIDE DEF b
    <3> QED BY <2>2, <3>1, <3>2
  <2> QED BY <2>3, <2>4
<1>4. today \in Nat /\ InOrder(sales, today) /\ sales \in Seq(Trade) /\ BookedOn(today, sales) \in Int
      /\ (TradesOf(today, sales) = {} => BookedOn(today, sales) = 0)
  BY BookedIsInt DEF BooksInv, InOrder
<1>5. CASE saved = NoBook
  <2>1. book' = FreshBook(today) /\ closed' = <<>>
    BY <1>5 DEF RestartBooks
  <2>2. closed' \in Seq(Trade) /\ Len(closed') = 0
    BY <2>1, EmptySeq
  <2>3. ~story'.lost => sales = <<>>
    BY <1>3, <1>5 DEF BooksInv
  <2>4. sales = <<>> => Recent(closed', sales) /\ TradesOf(today, sales) = {}
    BY <2>1, <2>2 DEF Recent, TradesOf
  <2>5. book' \in Book /\ book'.day = today /\ book'.base <= Equity(Venues) /\ book'.pnl = 0
    BY <1>4, <2>1, EquityIsNat DEF FreshBook, Book
  <2> QED BY <1>1, <1>2, <1>3, <1>4, <1>5, <2>2, <2>3, <2>4, <2>5 DEF BooksInv
<1>6. CASE saved # NoBook
  <2>1. /\ book' = [saved.book EXCEPT !.pnl = RestoredPnl(saved)] /\ closed' = saved.closed
        /\ story'.astray = (saved.book.day # today /\ TradesOf(today, saved.closed) # {})
    BY <1>6 DEF RestartBooks, BooksInv
  <2>2. saved.closed \in Seq(Trade) /\ saved.book \in Book /\ saved.book.day <= today /\ saved.book.base <= Equity(Venues)
    BY <1>6 DEF BooksInv
  <2>3. BookedOn(today, saved.closed) \in Int
    BY <2>2, BookedIsInt
  <2>4. RestoredPnl(saved) \in Int
    BY <2>2, <2>3 DEF RestoredPnl, Book
  <2>5. book' \in Book /\ book'.day = saved.book.day /\ book'.base = saved.book.base /\ book'.pnl = RestoredPnl(saved)
    BY <2>1, <2>2, <2>4 DEF Book
  <2>6. ASSUME ~story'.lost
        PROVE  /\ saved.closed = closed /\ Recent(closed', sales)
               /\ saved.book.day = today /\ FewToday => saved.book.pnl \in {0, BookedOn(today, sales)}
    BY <1>3, <1>6, <2>1, <2>6 DEF BooksInv
  <2>7. ASSUME ~story'.lost, FewToday
        PROVE  /\ BookedOn(today, saved.closed) = BookedOn(today, sales)
               /\ TradesOf(today, saved.closed) = {} => TradesOf(today, sales) = {}
    BY <1>4, <2>1, <2>6, <2>7, RecentBooked DEF FewToday
  <2>8. ASSUME ~story'.lost, FewToday, saved.book.day = today PROVE RestoredPnl(saved) = BookedOn(today, sales)
    BY <1>4, <2>6, <2>7, <2>8 DEF RestoredPnl, Abs
  <2> QED BY <1>1, <1>2, <1>3, <1>4, <1>6, <2>1, <2>2, <2>5, <2>6, <2>7, <2>8 DEF BooksInv
<1> QED BY <1>5, <1>6

\* Every step keeps it.
LEMMA BooksStep == ASSUME BooksInv, [BooksNext]_bookVars PROVE BooksInv'
<1>1. CASE UNCHANGED bookVars
  <2>1. UNCHANGED <<book, closed, balances, saved, today, sales, story>>
    BY <1>1 DEF bookVars
  <2>2. /\ Equity(Venues)' = Equity(Venues) /\ BookedOn(today, sales)' = BookedOn(today, sales)
        /\ TradesOf(today, sales)' = TradesOf(today, sales) /\ FewToday' = FewToday
    BY <2>1 DEF Equity, BookedOn, TradesOf, FewToday
  <2> QED BY <2>1, <2>2 DEF BooksInv
<1>2. CASE BooksNext
  BY <1>2, SaleStep, JudgeStep, MidnightStep, BooksSaveStep, BooksRestartStep, ReadStep DEF BooksNext
<1> QED BY <1>1, <1>2

\* It is enough.
LEMMA BooksInvKeeps == BooksInv => DayTruthful /\ LossLimitBites
<1> SUFFICES ASSUME BooksInv PROVE DayTruthful /\ LossLimitBites
  OBVIOUS
<1>1. Accountable => book.pnl = BookedOn(today, sales) /\ book.day = today
  <2> SUFFICES ASSUME Accountable PROVE book.pnl = BookedOn(today, sales) /\ book.day = today
    OBVIOUS
  <2>1. ~story.astray /\ ~story.lost /\ FewToday /\ book.day = today
    BY DEF Accountable, FewToday
  <2>2. ~story.lost /\ FewToday /\ book.day = today => (~story.astray => book.pnl = BookedOn(today, sales))
    BY DEF BooksInv
  <2> QED BY <2>1, <2>2
<1>2. ASSUME Accountable, book.base > 0, BookedOn(today, sales) * 100 <= -LimitPct * Equity(Venues)
      PROVE  LossLimitHit(RolledOver(book))
  <2>1. RolledOver(book) = book /\ book.pnl = BookedOn(today, sales)
    BY <1>1, <1>2 DEF RolledOver
  <2>2. book.base \in Nat /\ Equity(Venues) \in Nat /\ book.base <= Equity(Venues) /\ LimitPct \in Nat /\ book.pnl \in Int
    BY EquityIsNat, BooksConstants DEF BooksInv, Book
  <2>3. \A l, x, y \in Nat : x <= y => -l * y <= -l * x
    <3> SUFFICES ASSUME NEW l \in Nat, NEW x \in Nat, NEW y \in Nat, x <= y PROVE -l * y <= -l * x
      OBVIOUS
    <3>1. l * (y - x) >= 0
      OBVIOUS
    <3>2. l * (y - x) = l * y - l * x
      OBVIOUS
    <3> QED BY <3>1, <3>2
  <2>4. -LimitPct * Equity(Venues) <= -LimitPct * book.base
    BY <2>2, <2>3
  <2>5. -LimitPct * Equity(Venues) \in Int /\ -LimitPct * book.base \in Int /\ BookedOn(today, sales) * 100 \in Int
    BY <2>1, <2>2
  <2>6. book.pnl * 100 <= -LimitPct * book.base
    BY <1>2, <2>1, <2>4, <2>5
  <2> QED BY <1>2, <2>1, <2>6 DEF LossLimitHit
<1> QED BY <1>1, <1>2 DEF DayTruthful, LossLimitBites

\* Whatever is sold, rolled, saved and restored.
THEOREM BooksAreTrue == BooksSpec => [](DayTruthful /\ LossLimitBites)
<1>1. BooksSpec => []BooksInv
  BY BooksStart, BooksStep, PTL DEF BooksSpec
<1> QED BY <1>1, BooksInvKeeps, PTL

-----------------------------------------------------------------------------
(* The dollars.  What is reserved is a sum over the orders, of what each was    *)
(* seen to hold until its cancellation was confirmed (Covers); an order seen    *)
(* open holds no more than that, and as much if nothing has moved.              *)

Orders == [OrderIds -> Nat]

Covers(c) ==
    /\ quote.reserved = Total(c, OrderIds)
    /\ \A o \in quote.asked : c[o] = quote.seen[o] /\ quote.seen[o] > 0
    /\ \A o \in SeenOpen : left[o] <= c[o]
    /\ quote.usd = NoBook /\ ~quote.moved => c = left

Concluded == /\ quote.asked = {} /\ quote.usd = Most(0, quote.cash - quote.reserved)
             /\ ~quote.moved /\ quote.cash = cash => quote.reserved <= Total(left, OrderIds)

QuoteTypes == /\ left \in [OrderIds -> 0 .. OrderCost] /\ cash \in Nat /\ Total(left, OrderIds) <= cash
              /\ quote \in [cash : Nat \union {NoBook}, seen : Orders \union {NoBook},
                            asked : (SUBSET OrderIds) \union {NoBook}, reserved : Nat,
                            usd : Nat \union {NoBook}, moved : BOOLEAN]

QuoteInv ==
    /\ QuoteTypes
    /\ quote.cash # NoBook => cash <= quote.cash /\ (quote.usd = NoBook /\ ~quote.moved => cash = quote.cash)
    /\ \A o \in SeenOpen : left[o] <= quote.seen[o]
    /\ quote.asked = NoBook =>
          quote.usd = NoBook /\ (quote.seen # NoBook /\ ~quote.moved => left = quote.seen)
    /\ quote.asked # NoBook => Answered /\ \E c \in Orders : Covers(c)
    /\ quote.usd # NoBook => Concluded

\* The constants this rests on.
LEMMA NoQuote ==
    /\ NoBook \notin Nat /\ NoBook \notin Orders /\ NoBook \notin SUBSET OrderIds
    /\ IsFiniteSet(OrderIds) /\ OrderCost \in Nat /\ Share \in Nat
  BY BooksConstants DEF Orders

\* What orders hold in all.
LEMMA OrdersAddUp == ASSUME NEW f \in Orders PROVE Total(f, OrderIds) \in Nat
<1>1. Total(f, OrderIds) = SumOf(f, OrderIds)
  BY DEF Total, SumOf
<1> QED BY <1>1, NoQuote, SumIsNat DEF Orders

\* ... when one of them comes to hold d more.
LEMMA OrderMoves ==
    ASSUME NEW f \in Orders, NEW o \in OrderIds, NEW d \in Int, NEW g \in Orders,
           g[o] = f[o] + d, \A p \in OrderIds \ {o} : g[p] = f[p]
    PROVE  Total(g, OrderIds) = Total(f, OrderIds) + d
<1>1. Total(f, OrderIds) = SumOf(f, OrderIds) /\ Total(g, OrderIds) = SumOf(g, OrderIds)
  BY DEF Total, SumOf
<1>2. f \in [OrderIds -> Int] /\ g \in [OrderIds -> Int]
  BY DEF Orders
<1>3. \A p \in OrderIds \ {o} : g[p] = f[p]
  OBVIOUS
<1> QED BY <1>1, <1>2, <1>3, NoQuote, SumMoves

\* Some orders hold no more than others do in all.
LEMMA PartHoldsLess ==
    ASSUME NEW f \in Orders, NEW g \in Orders, NEW R \in SUBSET OrderIds, \A o \in R : f[o] <= g[o]
    PROVE  Total(f, R) \in Nat /\ Total(f, R) <= Total(g, OrderIds)
<1>1. Total(f, R) = SumOf(f, R) /\ Total(g, OrderIds) = SumOf(g, OrderIds)
  BY DEF Total, SumOf
<1>2. (\A o \in OrderIds : g[o] \in Nat) /\ (\A o \in R : f[o] \in Int /\ f[o] <= g[o])
  BY DEF Orders
<1>3. (\A o \in OrderIds : g[o] \in Nat)
  BY <1>2
<1>4. (\A o \in R : f[o] \in Int /\ f[o] <= g[o])
  BY <1>2
<1>5. SumOf(f, R) <= SumOf(g, OrderIds)
  BY <1>1, <1>3, <1>4, NoQuote, SumsCompare
<1>6. IsFiniteSet(R)
  BY NoQuote, FS_Subset
<1>7. \A o \in R : f[o] \in Nat
  BY DEF Orders
<1>8. SumOf([o \in R |-> f[o]], R) \in Nat
  BY <1>6, <1>7, SumIsNat
<1>9. \A o \in R : f[o] \in Int /\ [p \in R |-> f[p]][o] = f[o]
  BY <1>7
<1>10. SumOf([o \in R |-> f[o]], R) = SumOf(f, R)
  BY <1>6, <1>9, SumsAgree
<1> QED BY <1>1, <1>5, <1>8, <1>10

\* At first nothing is known.
LEMMA QuoteStarts == QuoteInit => QuoteInv
<1> SUFFICES ASSUME QuoteInit PROVE QuoteInv
  OBVIOUS
<1>1. QuoteTypes
  BY NoQuote DEF QuoteInit, QuoteTypes
<1>2. SeenOpen = {}
  BY DEF QuoteInit, SeenOpen
<1> QED BY <1>1, <1>2 DEF QuoteInit, QuoteInv

\* The two answers.
LEMMA CashStep == ASSUME QuoteInv, ReadCash \/ ReadOpenOrders PROVE QuoteInv'
<1> USE DEF QuoteInv, QuoteTypes
<1>1. CASE ReadCash
  <2>1. /\ quote' = [quote EXCEPT !.cash = cash] /\ UNCHANGED <<cash, left>> /\ quote.cash = NoBook
    BY <1>1 DEF ReadCash
  <2>2. SeenOpen' = SeenOpen /\ Total(left, OrderIds)' = Total(left, OrderIds)
    BY <2>1 DEF SeenOpen
  <2>3. quote.asked = NoBook /\ quote.usd = NoBook
    BY <2>1, NoQuote DEF Answered
  <2> QED BY <2>1, <2>2, <2>3, NoQuote
<1>2. CASE ReadOpenOrders
  <2>1. /\ quote' = [quote EXCEPT !.seen = left] /\ UNCHANGED <<cash, left>> /\ quote.seen = NoBook
    BY <1>2 DEF ReadOpenOrders
  <2>2. Total(left, OrderIds)' = Total(left, OrderIds) /\ SeenOpen' \subseteq OrderIds /\ left \in Orders
    BY <2>1 DEF SeenOpen, Orders
  <2>3. quote.asked = NoBook /\ quote.usd = NoBook
    BY <2>1, NoQuote DEF Answered
  <2>4. \A o \in SeenOpen' : left'[o] <= quote'.seen[o]
    BY <2>1, <2>2 DEF Orders
  <2> QED BY <2>1, <2>2, <2>3, <2>4, NoQuote
<1> QED BY <1>1, <1>2

\* All that was seen is reserved.
LEMMA ReserveStep == ASSUME QuoteInv, ReserveOpen PROVE QuoteInv'
<1> USE DEF QuoteInv, QuoteTypes
<1>1. /\ Answered /\ quote.asked = NoBook /\ UNCHANGED <<cash, left>>
      /\ quote' = [quote EXCEPT !.reserved = Total(quote.seen, OrderIds), !.asked = SeenOpen \cap StaleOrders]
  BY DEF ReserveOpen
<1>2. quote.seen \in Orders /\ quote.cash # NoBook
  BY <1>1 DEF Answered
<1>3. Total(quote.seen, OrderIds) \in Nat
  BY <1>2, OrdersAddUp
<1>4. /\ SeenOpen' = SeenOpen /\ Total(left, OrderIds)' = Total(left, OrderIds) /\ SeenOpen \subseteq OrderIds
      /\ \A o \in SeenOpen : quote.seen[o] > 0
  BY <1>1 DEF SeenOpen
<1>5. quote'.asked \in SUBSET OrderIds /\ quote'.asked # NoBook /\ quote.usd = NoBook /\ Answered'
  BY <1>1, <1>2, <1>4, NoQuote DEF Answered
<1>6. ASSUME NEW c, c = quote.seen PROVE Covers(c)'
  <2>1. quote'.reserved = Total(c, OrderIds) /\ quote'.seen = c /\ quote'.asked = SeenOpen \cap StaleOrders
        /\ quote'.moved = quote.moved /\ left' = left
    BY <1>1, <1>6
  <2>2. quote.seen # NoBook
    BY <1>1 DEF Answered
  <2>3. quote.usd = NoBook /\ ~quote.moved => c = left
    BY <1>1, <1>5, <1>6, <2>2
  <2> QED BY <1>4, <1>6, <2>1, <2>3, <1>5 DEF Covers
<1>7. quote' \in [cash : Nat \union {NoBook}, seen : Orders \union {NoBook},
                  asked : (SUBSET OrderIds) \union {NoBook}, reserved : Nat,
                  usd : Nat \union {NoBook}, moved : BOOLEAN]
  BY <1>1, <1>3, <1>5
<1>8. quote'.usd = NoBook /\ quote'.cash = quote.cash /\ quote'.seen = quote.seen /\ quote'.moved = quote.moved
  BY <1>1, <1>5
<1>9. \E c \in Orders : Covers(c)'
  BY <1>2, <1>6
<1> QED BY <1>1, <1>2, <1>4, <1>5, <1>7, <1>8, <1>9

\* A cancellation: what the order held is reserved no more, once it is confirmed.
LEMMA CancelStep == ASSUME QuoteInv, NEW o \in OrderIds, CancelStale(o) \/ CancelUnheard(o) PROVE QuoteInv'
<1> USE DEF QuoteInv, QuoteTypes
<1> DEFINE gone == o \in Open /\ CancelStale(o)
<1>1. /\ quote.asked \in SUBSET OrderIds /\ quote.asked # NoBook /\ o \in quote.asked /\ cash' = cash
      /\ (quote.usd = NoBook \/ quote.asked = {}) /\ left \in Orders
  BY NoQuote DEF CancelStale, CancelUnheard, Concluded, Orders
<1>2. PICK c \in Orders : Covers(c)
  BY <1>1
<1>3. /\ quote.usd = NoBook /\ c[o] = quote.seen[o] /\ quote.seen[o] > 0 /\ Answered /\ quote.seen \in Orders
      /\ quote.cash # NoBook /\ o \in SeenOpen /\ left[o] <= c[o] /\ left[o] \in Nat /\ c[o] \in Nat
      /\ quote.reserved = Total(c, OrderIds)
  BY <1>1, <1>2 DEF Covers, Answered, SeenOpen, Orders
<1>4. /\ \E rest \in {left[o], 0} : left' = [left EXCEPT ![o] = rest]
      /\ CancelStale(o) => left' = [left EXCEPT ![o] = 0]
      /\ quote' = [quote EXCEPT !.asked = @ \ {o},
                      !.reserved = IF gone THEN Most(0, quote.reserved - quote.seen[o]) ELSE quote.reserved,
                      !.moved = IF CancelStale(o) THEN quote.moved ELSE TRUE]
  <2>1. CASE CancelStale(o)
    <3>1. /\ left' = [left EXCEPT ![o] = 0]
          /\ quote' = [quote EXCEPT !.asked = @ \ {o}, !.moved = quote.moved,
                           !.reserved = IF o \in Open THEN Most(0, @ - quote.seen[o]) ELSE @]
      BY <2>1 DEF CancelStale
    <3> QED BY <2>1, <3>1
  <2>2. CASE ~CancelStale(o)
    <3>1. CancelUnheard(o)
      BY <2>2
    <3>2. /\ \E rest \in {left[o], 0} : left' = [left EXCEPT ![o] = rest]
          /\ quote' = [quote EXCEPT !.asked = @ \ {o}, !.reserved = quote.reserved, !.moved = TRUE]
      BY <3>1 DEF CancelUnheard
    <3> QED BY <2>2, <3>2
  <2> QED BY <2>1, <2>2
<1>5. PICK rest \in {left[o], 0} : left' = [left EXCEPT ![o] = rest]
  BY <1>4
<1>6. /\ left' \in Orders /\ left' \in [OrderIds -> 0 .. OrderCost] /\ left'[o] = rest /\ rest <= left[o] /\ rest \in Nat
      /\ \A p \in OrderIds \ {o} : left'[p] = left[p]
  BY <1>1, <1>3, <1>5, NoQuote DEF Orders
<1>7. Total(left, OrderIds)' <= cash
  <2>1. (\A p \in OrderIds \ {o} : left'[p] = left[p]) /\ left'[o] = left[o] + (rest - left[o]) /\ rest - left[o] \in Int
    BY <1>3, <1>6
  <2>2. Total(left, OrderIds)' = Total(left, OrderIds) + (rest - left[o]) /\ Total(left, OrderIds) \in Nat
    BY <1>1, <1>6, <2>1, OrderMoves, OrdersAddUp
  <2>3. Total(left, OrderIds)' \in Nat
    BY <1>6, OrdersAddUp
  <2> QED BY <1>3, <1>6, <2>2, <2>3
<1>8. PICK d \in Orders : /\ d[o] = (IF gone THEN 0 ELSE c[o]) /\ \A p \in OrderIds \ {o} : d[p] = c[p]
                          /\ (~gone => d = c)
  <2> DEFINE d == [c EXCEPT ![o] = IF gone THEN 0 ELSE c[o]]
  <2>1. d \in Orders /\ d[o] = (IF gone THEN 0 ELSE c[o]) /\ (\A p \in OrderIds \ {o} : d[p] = c[p]) /\ (~gone => d = c)
    BY <1>2, <1>3 DEF Orders
  <2> QED BY <2>1
<1>9. Total(d, OrderIds) = (IF gone THEN Most(0, quote.reserved - quote.seen[o]) ELSE quote.reserved)
      /\ Total(d, OrderIds) \in Nat
  <2>1. Total(d, OrderIds) \in Nat
    BY OrdersAddUp
  <2>2. CASE gone
    <3>1. d[o] = c[o] + (-c[o]) /\ -c[o] \in Int /\ (\A p \in OrderIds \ {o} : d[p] = c[p])
      BY <1>3, <1>8, <2>2
    <3>2. Total(d, OrderIds) = Total(c, OrderIds) + (-c[o])
      BY <3>1, OrderMoves
    <3> QED BY <1>3, <2>1, <2>2, <3>2 DEF Most
  <2>3. CASE ~gone
    BY <1>3, <1>8, <2>1, <2>3
  <2> QED BY <2>2, <2>3
<1>10. /\ quote'.reserved = Total(d, OrderIds) /\ quote'.asked = quote.asked \ {o} /\ quote'.seen = quote.seen
       /\ quote'.cash = quote.cash /\ quote'.usd = quote.usd /\ (quote'.moved \/ (quote'.moved = quote.moved /\ CancelStale(o)))
       /\ quote' \in [cash : Nat \union {NoBook}, seen : Orders \union {NoBook},
                      asked : (SUBSET OrderIds) \union {NoBook}, reserved : Nat,
                      usd : Nat \union {NoBook}, moved : BOOLEAN]
  BY <1>1, <1>4, <1>9
<1>11. SeenOpen' = SeenOpen /\ Answered'
  BY <1>3, <1>10 DEF SeenOpen, Answered
<1>12. \A p \in SeenOpen : left'[p] <= quote.seen[p] /\ left'[p] <= d[p]
  <2>1. ASSUME NEW p \in SeenOpen, p # o PROVE left'[p] <= quote.seen[p] /\ left'[p] <= d[p]
    BY <1>2, <1>6, <1>8, <2>1 DEF Covers, SeenOpen
  <2>2. gone => rest = 0
    BY <1>4, <1>5, <1>6
  <2>3. left'[o] <= quote.seen[o] /\ left'[o] <= d[o]
    BY <1>3, <1>6, <1>8, <2>2
  <2> QED BY <2>1, <2>3
<1>13. ~quote'.moved => d = left'
  <2> SUFFICES ASSUME ~quote'.moved PROVE d = left'
    OBVIOUS
  <2>1. CancelStale(o) /\ ~quote.moved
    BY <1>10
  <2>2. c = left /\ left'[o] = 0
    BY <1>2, <1>3, <1>4, <1>6, <2>1 DEF Covers
  <2>3. gone
    BY <1>3, <2>1, <2>2 DEF Open
  <2>4. \A p \in OrderIds : d[p] = left'[p]
    BY <1>6, <1>8, <2>2, <2>3
  <2> QED BY <1>6, <1>8, <2>4 DEF Orders
<1>14. Covers(d)'
  <2>1. \A p \in quote'.asked : d[p] = quote'.seen[p] /\ quote'.seen[p] > 0
    BY <1>1, <1>2, <1>8, <1>10 DEF Covers
  <2> QED BY <1>10, <1>11, <1>12, <1>13, <2>1 DEF Covers
<1>15. quote'.asked # NoBook /\ quote'.usd = NoBook
  BY <1>1, <1>3, <1>10, NoQuote
<1> HIDE DEF gone
<1> QED BY <1>1, <1>3, <1>6, <1>7, <1>10, <1>11, <1>12, <1>14, <1>15

\* What may be spent is counted.
LEMMA ConcludeStep == ASSUME QuoteInv, ConcludeQuote PROVE QuoteInv'
<1> USE DEF QuoteInv, QuoteTypes
<1>1. /\ quote.asked = {} /\ quote.usd = NoBook /\ UNCHANGED <<cash, left>>
      /\ quote' = [quote EXCEPT !.usd = Most(0, quote.cash - quote.reserved)]
  BY DEF ConcludeQuote
<1>2. quote.asked # NoBook
  BY <1>1, NoQuote
<1>3. PICK c \in Orders : Covers(c)
  BY <1>2
<1>4. quote.cash \in Nat /\ quote.reserved \in Nat /\ Answered /\ quote.cash # NoBook
  BY <1>2 DEF Answered
<1>5. Most(0, quote.cash - quote.reserved) \in Nat
  BY <1>4 DEF Most
<1>6. /\ quote'.usd = Most(0, quote.cash - quote.reserved) /\ quote'.usd # NoBook
      /\ quote'.asked = quote.asked /\ quote'.reserved = quote.reserved /\ quote'.cash = quote.cash
      /\ quote'.seen = quote.seen /\ quote'.moved = quote.moved
      /\ quote' \in [cash : Nat \union {NoBook}, seen : Orders \union {NoBook},
                     asked : (SUBSET OrderIds) \union {NoBook}, reserved : Nat,
                     usd : Nat \union {NoBook}, moved : BOOLEAN]
  BY <1>1, <1>5, NoQuote
<1>7. SeenOpen' = SeenOpen /\ Answered' /\ Total(left, OrderIds)' = Total(left, OrderIds) /\ Total(left, OrderIds) \in Nat
  <2>1. left \in Orders
    BY DEF Orders
  <2> QED BY <1>1, <1>4, <1>6, <2>1, OrdersAddUp DEF SeenOpen, Answered
<1>8. Covers(c)'
  BY <1>1, <1>3, <1>6, <1>7 DEF Covers
<1>9. Concluded'
  BY <1>1, <1>3, <1>6, <1>7 DEF Concluded, Covers
<1> QED BY <1>1, <1>2, <1>6, <1>7, <1>8, <1>9

\* The market fills an order, or the user places one.
LEMMA AccountStep == ASSUME QuoteInv, NEW o \in OrderIds, OrderFills(o) \/ OrderPlaced(o) PROVE QuoteInv'
<1> USE DEF QuoteInv, QuoteTypes
<1>1. /\ left \in Orders /\ left[o] \in 0 .. OrderCost /\ quote' = Moved
  BY NoQuote DEF OrderFills, OrderPlaced, Orders
<1>2. Total(left, OrderIds) \in Nat
  BY <1>1, OrdersAddUp
<1>3. /\ quote'.asked = quote.asked /\ quote'.reserved = quote.reserved /\ quote'.cash = quote.cash
      /\ quote'.seen = quote.seen /\ quote'.usd = quote.usd
      /\ (quote.usd = NoBook => quote'.moved) /\ (quote.usd # NoBook => quote'.moved = quote.moved)
      /\ quote' \in [cash : Nat \union {NoBook}, seen : Orders \union {NoBook},
                     asked : (SUBSET OrderIds) \union {NoBook}, reserved : Nat,
                     usd : Nat \union {NoBook}, moved : BOOLEAN]
  BY <1>1 DEF Moved
<1>4. /\ left' \in Orders /\ left' \in [OrderIds -> 0 .. OrderCost] /\ cash' \in Nat /\ cash' <= cash
      /\ Total(left, OrderIds)' <= cash' /\ (cash' < cash \/ Total(left, OrderIds)' >= Total(left, OrderIds))
      /\ \A p \in SeenOpen : left'[p] <= left[p]
      /\ Total(left, OrderIds)' \in Nat
  <2>1. CASE OrderFills(o)
    <3>1. left[o] > 0 /\ left' = [left EXCEPT ![o] = @ - 1] /\ cash' = cash - 1
      BY <2>1 DEF OrderFills, Open
    <3>2. /\ left' \in Orders /\ left' \in [OrderIds -> 0 .. OrderCost] /\ left'[o] = left[o] + (-1)
          /\ \A p \in OrderIds \ {o} : left'[p] = left[p]
      BY <1>1, <3>1, NoQuote DEF Orders
    <3>3. \A p \in OrderIds \ {o} : left'[p] = left[p]
      BY <3>2
    <3>4. Total(left, OrderIds)' = Total(left, OrderIds) + (-1) /\ Total(left, OrderIds)' \in Nat
      BY <1>1, <3>2, <3>3, OrderMoves, OrdersAddUp
    <3>5. \A p \in SeenOpen : left'[p] <= left[p]
      BY <1>1, <3>2 DEF SeenOpen, Orders
    <3> QED BY <1>2, <3>1, <3>2, <3>4, <3>5
  <2>2. CASE OrderPlaced(o)
    <3>1. PICK n \in 1 .. OrderCost : n + Total(left, OrderIds) <= cash /\ left' = [left EXCEPT ![o] = n]
      BY <2>2 DEF OrderPlaced
    <3>2. cash' = cash /\ left[o] = 0 /\ o \notin SeenOpen
      BY <1>1, <2>2, NoQuote DEF OrderPlaced, Open
    <3>3. /\ left' \in Orders /\ left' \in [OrderIds -> 0 .. OrderCost] /\ left'[o] = left[o] + n
      BY <1>1, <3>1, <3>2, NoQuote DEF Orders
    <3>4. \A p \in OrderIds \ {o} : left'[p] = left[p]
      BY <1>1, <3>1 DEF Orders
    <3>5. Total(left, OrderIds)' = Total(left, OrderIds) + n /\ Total(left, OrderIds)' \in Nat
      BY <1>1, <3>3, <3>4, OrderMoves, OrdersAddUp
    <3>6. \A p \in SeenOpen : left'[p] <= left[p]
      BY <1>1, <3>2, <3>4 DEF SeenOpen, Orders
    <3> QED BY <1>2, <3>1, <3>2, <3>3, <3>5, <3>6
  <2> QED BY <2>1, <2>2
<1>5. SeenOpen' = SeenOpen /\ Answered' = Answered
  BY <1>3 DEF SeenOpen, Answered
<1>6. \A p \in SeenOpen : left'[p] <= quote'.seen[p]
  <2>1. ASSUME NEW p \in SeenOpen PROVE left'[p] <= quote.seen[p]
    <3>1. left'[p] <= left[p] /\ left[p] <= quote.seen[p] /\ p \in OrderIds /\ quote.seen \in Orders
      BY <1>4 DEF SeenOpen
    <3> QED BY <1>1, <1>4, <3>1 DEF Orders
  <2> QED BY <1>3, <2>1
<1>7. ASSUME NEW c \in Orders, Covers(c) PROVE Covers(c)'
  <2>1. \A p \in SeenOpen : left'[p] <= c[p]
    BY <1>1, <1>4, <1>7 DEF Covers, SeenOpen, Orders
  <2> QED BY <1>3, <1>5, <1>7, <2>1 DEF Covers
<1>8. quote.usd # NoBook => Concluded'
  <2> SUFFICES ASSUME quote.usd # NoBook PROVE Concluded'
    OBVIOUS
  <2>1. Concluded /\ quote.asked = {} /\ quote.asked # NoBook
    BY NoQuote DEF Concluded
  <2>2. quote.cash \in Nat /\ cash <= quote.cash
    BY <2>1 DEF Answered
  <2>3. ASSUME ~quote.moved, quote.cash = cash' PROVE quote.reserved <= Total(left, OrderIds)'
    <3>1. cash = quote.cash /\ ~(cash' < cash)
      BY <1>4, <2>2, <2>3
    <3>2. quote.reserved <= Total(left, OrderIds) /\ Total(left, OrderIds)' >= Total(left, OrderIds)
      BY <1>4, <2>1, <2>3, <3>1 DEF Concluded
    <3> QED BY <1>2, <1>4, <3>2
  <2> QED BY <1>3, <2>1, <2>3 DEF Concluded
<1>9. /\ quote'.cash # NoBook => cash' <= quote'.cash /\ (quote'.usd = NoBook /\ ~quote'.moved => cash' = quote'.cash)
  BY <1>3, <1>4
<1> QED BY <1>3, <1>4, <1>5, <1>6, <1>7, <1>8, <1>9

\* Every step keeps it.
LEMMA QuoteStep == ASSUME QuoteInv, [QuoteNext]_quoteVars PROVE QuoteInv'
<1>1. CASE UNCHANGED quoteVars
  <2>1. cash' = cash /\ left' = left /\ quote' = quote
    BY <1>1 DEF quoteVars
  <2>2. /\ SeenOpen' = SeenOpen /\ Answered' = Answered /\ Total(left, OrderIds)' = Total(left, OrderIds)
        /\ QuoteTypes' = QuoteTypes /\ Concluded' = Concluded
    BY <2>1 DEF SeenOpen, Answered, QuoteTypes, Concluded
  <2>3. \A c \in Orders : Covers(c)' = Covers(c)
    BY <2>1, <2>2 DEF Covers
  <2> QED BY <2>1, <2>2, <2>3 DEF QuoteInv
<1>2. CASE QuoteNext
  BY <1>2, CashStep, ReserveStep, CancelStep, ConcludeStep, AccountStep DEF QuoteNext
<1> QED BY <1>1, <1>2

\* It is enough.
LEMMA QuoteInvKeeps == QuoteInv => QuoteHonest
<1> SUFFICES ASSUME QuoteInv, quote.usd # NoBook
             PROVE  /\ quote.usd <= Most(0, quote.cash - Total(left, SeenOpen))
                    /\ (~quote.moved /\ quote.cash = cash) => quote.usd >= cash - Total(left, OrderIds)
  BY DEF QuoteHonest
<1>1. /\ Concluded /\ quote.asked = {} /\ quote.asked # NoBook /\ left \in Orders /\ cash \in Nat
      /\ quote.reserved \in Nat
  BY NoQuote DEF QuoteInv, QuoteTypes, Concluded, Orders
<1>2. quote.cash \in Nat
  BY <1>1 DEF QuoteInv, QuoteTypes, Answered
<1>3. PICK c \in Orders : Covers(c)
  BY <1>1 DEF QuoteInv
<1>4. Total(left, SeenOpen) \in Nat /\ Total(left, SeenOpen) <= quote.reserved
  <2>1. SeenOpen \in SUBSET OrderIds /\ (\A o \in SeenOpen : left[o] <= c[o]) /\ quote.reserved = Total(c, OrderIds)
    BY <1>3 DEF Covers, SeenOpen
  <2>2. \A o \in SeenOpen : left[o] <= c[o]
    BY <2>1
  <2> QED BY <1>1, <2>1, <2>2, PartHoldsLess
<1>5. Total(left, OrderIds) \in Nat
  BY <1>1, OrdersAddUp
<1> QED BY <1>1, <1>2, <1>4, <1>5 DEF Concluded, Most

\* Whatever fills, is placed or cancelled while the account is asked.
THEOREM DollarsAreThere == QuoteSpec => []QuoteHonest
<1>1. QuoteSpec => []QuoteInv
  BY QuoteStarts, QuoteStep, PTL DEF QuoteSpec
<1> QED BY <1>1, QuoteInvKeeps, PTL

\* The days that are booked have been, and no more is kept than the ring holds.
DaysTyped ==
    /\ today \in 1..MaxDays /\ book.day \in 1..MaxDays
    /\ Len(sales) <= MaxSales /\ Len(closed) <= Ring
    /\ \A i \in 1 .. Len(sales) : sales[i].day \in 1..today /\ sales[i].net \in Nets
    /\ saved # NoBook => saved.book.day \in 1..MaxDays /\ Len(saved.closed) <= Ring

\* The ring holds no more than it may.
LEMMA RingHolds == ASSUME NEW ts \in Seq(Trade) PROVE Len(Kept(ts)) <= Ring
<1>1. Ring \in Nat /\ Len(ts) \in Nat
  BY BooksConstants
<1>2. PICK m : m = Most(1, Len(ts) - Ring + 1)
  OBVIOUS
<1>3. m \in 1 .. Len(ts) + 1 /\ Len(ts) - m + 1 <= Ring
  BY <1>1, <1>2 DEF Most
<1>4. \A i \in m .. Len(ts) : ts[i] \in Trade
  BY <1>1, <1>3, ElementOfSeq
<1>5. Len(SubSeq(ts, m, Len(ts))) = IF m <= Len(ts) THEN Len(ts) - m + 1 ELSE 0
  BY <1>1, <1>3, <1>4, SubSeqProperties
<1> QED BY <1>1, <1>2, <1>3, <1>5 DEF Kept

\* The first day has nothing on it.
LEMMA DaysTypedStart == BooksInit => DaysTyped
<1> SUFFICES ASSUME BooksInit PROVE DaysTyped
  OBVIOUS
<1>1. /\ today = 1 /\ book = FreshBook(1) /\ closed = <<>> /\ saved = NoBook /\ sales = <<>>
      /\ MaxDays \in Nat /\ MaxDays > 0 /\ MaxSales \in Nat /\ Ring \in Nat
  BY BooksConstants DEF BooksInit
<1>2. book.day = 1 /\ Len(closed) = 0 /\ Len(sales) = 0
  BY <1>1, EmptySeq DEF FreshBook
<1> QED BY <1>1, <1>2 DEF DaysTyped

\* A sale is of the day.
LEMMA SaleTyped ==
    ASSUME BooksInv, DaysTyped, NEW net \in Nets, SellOnExchange(net) \/ SellOnChain(net)
    PROVE  DaysTyped'
<1>1. /\ today \in 1..MaxDays /\ book.day \in 1..MaxDays /\ MaxDays \in Nat /\ sales \in Seq(Trade) /\ closed \in Seq(Trade)
      /\ book \in Book /\ MaxSales \in Nat
  BY BooksConstants DEF BooksInv, DaysTyped, InOrder
<1>2. PICK t : t = [day |-> today, net |-> net]
  OBVIOUS
<1>3. /\ Len(sales) < MaxSales /\ sales' = Append(sales, t) /\ closed' = Kept(Append(closed, t))
      /\ UNCHANGED <<saved, today>>
  BY <1>2 DEF SellOnExchange, SellOnChain, CloseTrade
<1>4. t \in Trade /\ t.day = today /\ t.net = net
  <2>1. net \in Int
    BY BooksConstants DEF Nets
  <2> QED BY <1>1, <1>2, <2>1 DEF Trade
<1>5. Len(closed') <= Ring
  <2>1. Append(closed, t) \in Seq(Trade)
    BY <1>1, <1>4, AppendProperties
  <2> QED BY <1>3, <2>1, RingHolds
<1>6. book'.day \in 1..MaxDays
  <2>1. RolledOver(book) \in Book /\ RolledOver(book).day \in 1..MaxDays
    BY <1>1 DEF RolledOver, FreshBook, Book
  <2>2. PICK n : n = BookedOn(today, closed')
    OBVIOUS
  <2>3. book' = [RolledOver(book) EXCEPT !.pnl = n] \/ book' = [book EXCEPT !.pnl = n]
    BY <2>2 DEF SellOnExchange, SellOnChain
  <2>4. [RolledOver(book) EXCEPT !.pnl = n].day = RolledOver(book).day /\ [book EXCEPT !.pnl = n].day = book.day
    BY <1>1, <2>1 DEF Book
  <2> QED BY <1>1, <2>1, <2>3, <2>4
<1>7. Len(sales') <= MaxSales /\ \A i \in 1 .. Len(sales') : sales'[i].day \in 1..today /\ sales'[i].net \in Nets
  <2>1. /\ Len(sales') = Len(sales) + 1 /\ Len(sales) \in Nat /\ sales'[Len(sales) + 1] = t
        /\ \A i \in 1 .. Len(sales) : sales'[i] = sales[i]
    BY <1>1, <1>3, <1>4, AppendProperties
  <2>2. Len(sales') <= MaxSales
    BY <1>1, <1>3, <2>1
  <2>3. \A i \in 1 .. Len(sales') : i = Len(sales) + 1 \/ i \in 1 .. Len(sales)
    BY <2>1
  <2> QED BY <1>1, <1>4, <2>1, <2>2, <2>3 DEF DaysTyped
<1> QED BY <1>3, <1>5, <1>6, <1>7 DEF DaysTyped

\* So is what is saved, restored, read or judged.
LEMMA DaysTypedStep == BooksInv /\ DaysTyped /\ [BooksNext]_bookVars => DaysTyped'
<1> SUFFICES ASSUME BooksInv, DaysTyped, [BooksNext]_bookVars PROVE DaysTyped'
  OBVIOUS
<1>1. /\ today \in 1..MaxDays /\ book.day \in 1..MaxDays /\ MaxDays \in Nat /\ Len(closed) <= Ring /\ book \in Book
      /\ Len(sales) <= MaxSales /\ Ring \in Nat /\ Equity(balances) \in Nat
      /\ \A i \in 1 .. Len(sales) : sales[i].day \in 1..today /\ sales[i].net \in Nets
      /\ saved # NoBook => saved.book \in Book /\ saved.book.day \in 1..MaxDays /\ Len(saved.closed) <= Ring
  BY EquityIsNat, BooksConstants DEF BooksInv, DaysTyped
<1>2. CASE UNCHANGED bookVars
  BY <1>1, <1>2 DEF DaysTyped, bookVars
<1>3. CASE JudgeLosses
  <2>1. RolledOver(book) \in Book /\ RolledOver(book).day \in 1..MaxDays
    BY <1>1 DEF RolledOver, FreshBook, Book
  <2>2. PICK r, n : r = RolledOver(book) /\ n = Equity(balances)
    OBVIOUS
  <2>3. book' = r \/ book' = [r EXCEPT !.base = n]
    BY <1>3, <2>2 DEF JudgeLosses, WithBaseline
  <2>4. book'.day = r.day
    BY <2>1, <2>2, <2>3 DEF Book
  <2> QED BY <1>1, <1>3, <2>1, <2>2, <2>4 DEF JudgeLosses, DaysTyped
<1>4. CASE Midnight
  <2>1. today' \in 1..MaxDays /\ today' > today /\ UNCHANGED <<book, closed, saved, sales>>
    BY <1>1, <1>4 DEF Midnight
  <2>2. \A d \in 1..today : d \in 1..today'
    BY <1>1, <2>1
  <2> QED BY <1>1, <2>1, <2>2 DEF DaysTyped
<1>5. CASE SaveBooks
  <2>1. saved'.book = book /\ saved'.closed = closed /\ UNCHANGED <<book, closed, today, sales>>
    BY <1>5 DEF SaveBooks
  <2> QED BY <1>1, <2>1 DEF DaysTyped
<1>6. CASE RestartBooks
  <2>1. UNCHANGED <<saved, today, sales>>
    BY <1>6 DEF RestartBooks
  <2>2. CASE saved = NoBook
    <3>1. book' = FreshBook(today) /\ closed' = <<>>
      BY <1>6, <2>2 DEF RestartBooks
    <3>2. book'.day = today /\ Len(closed') = 0
      BY <3>1 DEF FreshBook
    <3> QED BY <1>1, <2>1, <3>2 DEF DaysTyped
  <2>3. CASE saved # NoBook
    <3>1. PICK n : n = RestoredPnl(saved)
      OBVIOUS
    <3>2. book' = [saved.book EXCEPT !.pnl = n] /\ closed' = saved.closed
      BY <1>6, <2>3, <3>1 DEF RestartBooks
    <3>3. book'.day = saved.book.day
      BY <1>1, <2>3, <3>2 DEF Book
    <3> QED BY <1>1, <2>1, <2>3, <3>2, <3>3 DEF DaysTyped
  <2> QED BY <2>2, <2>3
<1>7. (\E answering \in SUBSET Venues : ReadBalances(answering)) => DaysTyped'
  BY <1>1 DEF ReadBalances, DaysTyped
<1>8. (\E net \in Nets : SellOnExchange(net) \/ SellOnChain(net)) => DaysTyped'
  BY SaleTyped
<1> QED BY <1>2, <1>3, <1>4, <1>5, <1>6, <1>7, <1>8 DEF BooksNext

\* The types of the books and of the dollars.
LEMMA BooksTypesAre == BooksSpec /\ QuoteSpec => []BooksTypeOK
<1>1. BooksSpec => []BooksInv
  BY BooksStart, BooksStep, PTL DEF BooksSpec
<1>2. BooksSpec => []DaysTyped
  BY <1>1, DaysTypedStart, DaysTypedStep, PTL DEF BooksSpec
<1>3. QuoteSpec => []QuoteInv
  BY QuoteStarts, QuoteStep, PTL DEF QuoteSpec
<1>4. BooksInv /\ DaysTyped /\ QuoteInv => BooksTypeOK
  <2> SUFFICES ASSUME BooksInv, DaysTyped, QuoteInv PROVE BooksTypeOK
    OBVIOUS
  <2>1. book \in [pnl : Int, day : 1..MaxDays, base : Nat] /\ balances \subseteq Venues
    BY DEF BooksInv, DaysTyped, Book
  <2>2. \A i \in DOMAIN sales : sales[i].day \in 1..today /\ sales[i].net \in Nets
    <3>1. DOMAIN sales = 1 .. Len(sales)
      BY DEF BooksInv, InOrder
    <3> QED BY <3>1 DEF DaysTyped
  <2>3. /\ cash \in Nat /\ left \in [OrderIds -> 0..OrderCost]
        /\ quote.usd \in Nat \cup {NoBook} /\ quote.reserved \in Nat
    BY DEF QuoteInv, QuoteTypes
  <2> QED BY <2>1, <2>2, <2>3 DEF DaysTyped, BooksTypeOK
<1> QED BY <1>1, <1>2, <1>3, <1>4, PTL

-----------------------------------------------------------------------------
(* The sizes.                                                                 *)

\* Of what can be sold, no more is sold than is there.
LEMMA SaleSound ==
    ASSUME NEW available \in Nat, NEW limit \in Nat, NEW min \in Nat
    PROVE  LET volume == SellVolume(available, limit, min)
           IN /\ volume <= 1000 * Least(available, limit)
              /\ available >= min /\ limit >= min => volume >= 1000 * min
<1> DEFINE cushioned == Least(limit * 1000, available * 995)
<1>1. cushioned \in Nat /\ cushioned <= limit * 1000 /\ cushioned <= available * 995
  BY DEF Least
<1>2. CASE available <= 0 \/ limit <= 0
  <2>1. SellVolume(available, limit, min) = 0
    BY <1>2 DEF SellVolume
  <2> QED BY <1>2, <2>1 DEF Least
<1>3. CASE ~(available <= 0 \/ limit <= 0) /\ min > 0 /\ cushioned < min * 1000 /\ available >= min
  <2>1. SellVolume(available, limit, min) = Least(limit, available) * 1000
    BY <1>3 DEF SellVolume
  <2> QED BY <1>3, <2>1 DEF Least
<1>4. CASE ~(available <= 0 \/ limit <= 0) /\ ~(min > 0 /\ cushioned < min * 1000 /\ available >= min)
  <2>1. SellVolume(available, limit, min) = cushioned
    BY <1>4 DEF SellVolume
  <2> QED BY <1>1, <1>4, <2>1 DEF Least
<1> QED BY <1>2, <1>3, <1>4

\* One coin is sold, or none is.
LEMMA CoinStep ==
    ASSUME NEW need \in {300, 10000}, NEW source \in Nat, NEW st,
           st \in [direct : Nat, sold : Nat, done : BOOLEAN]
    PROVE  LET then == ConvertStep(need, st, source)
               sold == then.sold - st.sold
           IN /\ then \in [direct : Nat, sold : Nat, done : BOOLEAN]
              /\ st.direct <= then.direct /\ then.direct <= st.direct + sold
              /\ sold <= Most(need, 500) /\ sold <= 9950
              /\ st.done => then = st
              /\ then.done /\ ~st.done => (then.direct * 995) \div 1000 >= 500
              /\ source >= 510 /\ ~st.done => (then.direct * 995) \div 1000 >= Least(500, need)
<1> DEFINE free == (source * 995) \div 1000
           quantity == Least(free, Least(Most(need, MinSpendable), OrderCap))
           direct == st.direct + (quantity * 999) \div 1000
<1>1. free \in Nat /\ (source >= 510 => free >= 507)
  OBVIOUS
<1>2. quantity \in Nat /\ quantity <= Most(need, 500) /\ quantity <= 9950 /\ quantity <= free
  BY <1>1 DEF Least, Most, MinSpendable, OrderCap
<1>3. direct \in Nat /\ st.direct <= direct /\ direct <= st.direct + quantity
  BY <1>2
<1>4. CASE st.done \/ free < MinSpendable
  <2>1. ConvertStep(need, st, source) = st
    BY <1>4 DEF ConvertStep
  <2> QED BY <1>1, <1>4, <2>1 DEF MinSpendable, Most
<1>5. CASE ~st.done /\ ~(free < MinSpendable)
  <2>1. ConvertStep(need, st, source) = [direct |-> direct, sold |-> st.sold + quantity,
                                         done |-> (direct * 995) \div 1000 >= MinSpendable]
    BY <1>5 DEF ConvertStep
  <2>2. source >= 510 => (direct * 995) \div 1000 >= Least(500, need)
    <3>1. CASE need = 300
      <4>1. quantity >= 500
        BY <1>1, <1>5, <3>1 DEF Least, Most, MinSpendable, OrderCap
      <4> QED BY <1>2, <3>1, <4>1 DEF Least
    <3>2. CASE need = 10000
      <4>1. source >= 510 => quantity >= 507
        BY <1>1, <3>2 DEF Least, Most, MinSpendable, OrderCap
      <4> QED BY <1>2, <3>2, <4>1 DEF Least
    <3> QED BY <3>1, <3>2
  <2> HIDE DEF direct, quantity
  <2> QED BY <1>2, <1>3, <1>5, <2>1, <2>2 DEF MinSpendable
<1> QED BY <1>4, <1>5

\* A conversion funds an order and pretends to nothing.
LEMMA ConversionSound ==
    ASSUME NEW direct \in Nat, NEW usdc \in Nat, NEW usdt \in Nat, NEW need \in {300, 10000}
    PROVE  LET result == Converted(direct, <<usdc, usdt>>, need)
               whole == Usable(result.direct)
           IN /\ whole <= direct + result.sold
              /\ direct * 995 >= need * 1000 => result.sold = 0
              /\ usdc >= 510 \/ usdt >= 510 => whole >= Least(500, need)
              /\ result.sold <= Least(2 * Most(need, 500), 2 * 9950)
<1> DEFINE start == [direct |-> direct, sold |-> 0, done |-> direct * 995 >= need * 1000]
           first == ConvertStep(need, start, usdc)
           second == ConvertStep(need, first, usdt)
<1>1. Converted(direct, <<usdc, usdt>>, need) = second
  BY DEF Converted
<1>2. start \in [direct : Nat, sold : Nat, done : BOOLEAN] /\ start.direct = direct /\ start.sold = 0
      /\ start.done = (direct * 995 >= need * 1000)
  OBVIOUS
<1>3. start.done => (direct * 995) \div 1000 >= Least(500, need)
  <2>1. need = 300 => (direct * 995 >= 300000 => (direct * 995) \div 1000 >= 300)
    OBVIOUS
  <2>2. need = 10000 => (direct * 995 >= 10000000 => (direct * 995) \div 1000 >= 500)
    OBVIOUS
  <2> HIDE DEF start
  <2> QED BY <1>2, <2>1, <2>2 DEF Least
<1> HIDE DEF start
<1>4. /\ first \in [direct : Nat, sold : Nat, done : BOOLEAN]
      /\ direct <= first.direct /\ first.direct <= direct + first.sold
      /\ first.sold <= Most(need, 500) /\ first.sold <= 9950
      /\ start.done => first = start
      /\ first.done /\ ~start.done => (first.direct * 995) \div 1000 >= 500
      /\ usdc >= 510 /\ ~start.done => (first.direct * 995) \div 1000 >= Least(500, need)
  BY <1>2, CoinStep
<1> HIDE DEF first
<1>5. /\ second \in [direct : Nat, sold : Nat, done : BOOLEAN]
      /\ first.direct <= second.direct /\ second.direct <= first.direct + (second.sold - first.sold)
      /\ second.sold - first.sold <= Most(need, 500) /\ second.sold - first.sold <= 9950
      /\ first.done => second = first
      /\ usdt >= 510 /\ ~first.done => (second.direct * 995) \div 1000 >= Least(500, need)
  BY <1>4, CoinStep
<1> HIDE DEF second
<1>6. second.direct <= direct + second.sold /\ second.sold <= Least(2 * Most(need, 500), 2 * 9950)
  BY <1>2, <1>4, <1>5 DEF Least, Most
<1>7. usdc >= 510 \/ usdt >= 510 => (second.direct * 995) \div 1000 >= Least(500, need)
  <2>1. (first.direct * 995) \div 1000 <= (second.direct * 995) \div 1000
    BY <1>4, <1>5
  <2>2. start.done => (first.direct * 995) \div 1000 >= Least(500, need)
    BY <1>2, <1>3, <1>4
  <2>3. first.done => (first.direct * 995) \div 1000 >= Least(500, need)
    BY <1>4, <2>2 DEF Least
  <2> QED BY <1>4, <1>5, <2>1, <2>2, <2>3 DEF Least
<1>8. Usable(second.direct) = Least(9950, (second.direct * 995) \div 1000)
  BY DEF Usable, OrderCap
<1>9. start.done => second.sold = 0
  BY <1>2, <1>4, <1>5
<1> QED BY <1>1, <1>2, <1>5, <1>6, <1>7, <1>8, <1>9 DEF Least

\* A product of smaller factors is no larger.
LEMMA Products == ASSUME NEW a \in Int, NEW b \in Int, NEW n \in Nat, a <= b PROVE a * n <= b * n
OBVIOUS

\* What is left out for the fee pays it, and the rounding of the limit besides.
LEMMA FeePaid ==
    ASSUME NEW available \in Nat, NEW fee \in 0 .. 800, NEW cost \in Nat, NEW spend \in Nat,
           50 * cost <= 51 * spend, 10000 * spend <= available * (9800 - fee)
    PROVE  cost * (10000 + fee) <= available * 10000
<1>1. 500000 * cost <= 51 * (available * (9800 - fee))
  OBVIOUS
<1>2. (500000 * cost) * (10000 + fee) <= (51 * (available * (9800 - fee))) * (10000 + fee)
  BY <1>1, Products
<1>3. (51 * (available * (9800 - fee))) * (10000 + fee) = (51 * available) * (98000000 - 200 * fee - fee * fee)
  OBVIOUS
<1>4. 98000000 - 200 * fee - fee * fee <= 98000000
  OBVIOUS
<1>5. (51 * available) * (98000000 - 200 * fee - fee * fee) <= (51 * available) * 98000000
  BY <1>4
<1>6. 500000 * (cost * (10000 + fee)) <= 500000 * (available * 10000)
  BY <1>2, <1>3, <1>5
<1> QED BY <1>6

\* Above a quarter of a dollar the rounding of the limit costs at most a fiftieth.
LEMMA RoundedLimit ==
    ASSUME NEW spend \in Nat, NEW ceiling \in Nat, ceiling >= 2500
    PROVE  LET cost == (spend * (100 * ((ceiling + 50) \div 100))) \div ceiling
           IN cost \in Nat /\ 50 * cost <= 51 * spend
<1> DEFINE rounded == 100 * ((ceiling + 50) \div 100)
           cost == (spend * rounded) \div ceiling
<1>1. rounded \in Nat /\ rounded <= ceiling + 50 /\ 50 * rounded <= 51 * ceiling
  OBVIOUS
<1> HIDE DEF rounded
<1>2. spend * rounded \in Nat
  BY <1>1
<1>3. cost \in Nat /\ cost * ceiling <= spend * rounded
  BY <1>2
<1> HIDE DEF cost
<1>4. (50 * cost) * ceiling <= (51 * spend) * ceiling
  <2>1. (50 * rounded) * spend <= (51 * ceiling) * spend
    BY <1>1, Products
  <2> QED BY <1>1, <1>3, <2>1
<1>5. 50 * cost <= 51 * spend
  BY <1>3, <1>4
<1> QED BY <1>3, <1>5 DEF cost, rounded

\* What is there covers the cost and the fee on it.
Payable(available, fee, cost) == cost * (10000 + fee) <= available * 10000

\* A buy can be paid.
LEMMA BuyPaid ==
    ASSUME NEW available \in Nat, NEW limit \in Nat, NEW fee \in 0 .. 800, NEW least \in Nat,
           NEW ask \in Nat, NEW slippage \in Nat, ask >= 2500
    PROVE  Payable(available, fee, BuySize(available, limit, fee, least, ask, slippage).cost)
<1> DEFINE spend == Spend(available, limit, fee)
           ceiling == (ask * (10000 + slippage)) \div 10000
           cost == (spend * (100 * ((ceiling + 50) \div 100))) \div ceiling
<1>1. spend \in Nat /\ 10000 * spend <= available * (9800 - fee)
  <2>1. Most(9000, 10000 - fee - 200) = 9800 - fee
    BY DEF Most
  <2>2. Least(available, limit) \in Nat /\ Least(available, limit) <= available
    BY DEF Least
  <2>3. Least(available, limit) * (9800 - fee) \in Nat /\ Least(available, limit) * (9800 - fee) <= available * (9800 - fee)
    BY <2>2, Products
  <2>4. spend = (Least(available, limit) * (9800 - fee)) \div 10000
    BY <2>1 DEF Spend
  <2> QED BY <2>3, <2>4
<1>2. ceiling \in Nat /\ ceiling >= ask
  <2>1. ask * (10000 + slippage) \in Nat /\ ask * (10000 + slippage) >= 10000 * ask
    OBVIOUS
  <2> QED BY <2>1
<1>3. BuySize(available, limit, fee, least, ask, slippage).cost = cost
  BY DEF BuySize
<1> HIDE DEF spend, ceiling
<1>4. cost \in Nat /\ 50 * cost <= 51 * spend
  BY <1>1, <1>2, RoundedLimit
<1> HIDE DEF cost
<1>5. Payable(available, fee, cost)
  BY <1>1, <1>4, FeePaid DEF Payable
<1> QED BY <1>3, <1>5

Fill == [side : {"buy", "sell"}, price : {1, 3}, volume : Nat]
Found == [remaining : Nat, cost : Nat]
Signed(fills) == [i \in DOMAIN fills |-> IF fills[i].side = "buy" THEN fills[i].volume ELSE -fills[i].volume]
Bought(fills) == {fills[n].price : n \in {i \in DOMAIN fills : fills[i].side = "buy"}}

\* What the first k fills came to is found, at prices between the least and the most.
Explained(holding, fills, lo, hi, k, e) ==
    /\ e \in Found /\ e.remaining <= holding
    /\ e.remaining = 0 \/ holding - e.remaining >= SumOf(Signed(fills), 1 .. k)
    /\ lo * (holding - e.remaining) <= e.cost /\ e.cost <= hi * (holding - e.remaining)

\* The next fill.
LEMMA SizeFillStep ==
    ASSUME NEW fills \in Seq(Fill), NEW holding \in Nat, NEW lo \in {1, 3}, NEW hi \in {1, 3},
           \A p \in Bought(fills) : lo <= p /\ p <= hi,
           NEW k \in 1 .. Len(fills), NEW e, Explained(holding, fills, lo, hi, k - 1, e)
    PROVE  Explained(holding, fills, lo, hi, k, Matched(e, fills[k]))
<1> DEFINE fill == fills[k]
           matched == Least(e.remaining, fill.volume)
           d == Signed(fills)
<1>1. k \in DOMAIN fills /\ DOMAIN fills = 1 .. Len(fills) /\ fill \in Fill /\ Len(fills) \in Nat
  BY LenProperties, ElementOfSeq
<1>2. e \in Found /\ e.remaining <= holding
  BY DEF Explained
<1>3. SumOf(d, 1 .. k) = SumOf(d, 1 .. k - 1) + d[k] /\ SumOf(d, 1 .. k - 1) \in Int /\ d[k] \in Int
  <2>1. \A i \in DOMAIN fills : d[i] \in Int
    <3> SUFFICES ASSUME NEW i \in DOMAIN fills PROVE d[i] \in Int
      OBVIOUS
    <3>1. fills[i] \in Fill
      BY <1>1, ElementOfSeq
    <3> QED BY <3>1 DEF Fill, Signed
  <2>2. (1 .. k - 1) \union {k} = 1 .. k /\ k \notin 1 .. k - 1 /\ k - 1 \in Int /\ 1 \in Int
    BY <1>1
  <2>6. IsFiniteSet(1 .. k - 1)
    BY <2>2, FS_Interval
  <2>3. \A i \in 1 .. k - 1 : d[i] \in Int
    BY <1>1, <2>1
  <2>4. d[k] \in Int
    BY <1>1, <2>1
  <2> DEFINE S == 1 .. k - 1
  <2>9. S \union {k} = 1 .. k
    BY <2>2
  <2>7. IsFiniteSet(S) /\ k \notin S
    BY <2>2, <2>6
  <2>8. \A i \in S : d[i] \in Int
    BY <2>3
  <2> HIDE DEF d, S
  <2>5. SumOf(d, S \union {k}) = SumOf(d, S) + d[k] /\ SumOf(d, S) \in Int
    BY <2>4, <2>7, <2>8, SumInsert
  <2>10. SumOf(d, S) = SumOf(d, 1 .. k - 1)
    BY DEF S
  <2> QED BY <2>4, <2>5, <2>9, <2>10
<1>4. d[k] = (IF fill.side = "buy" THEN fill.volume ELSE -fill.volume)
  BY <1>1 DEF Signed
<1> HIDE DEF d
<1>5. CASE fill.side # "buy" \/ e.remaining = 0
  <2>1. Matched(e, fill) = e
    BY <1>5 DEF Matched
  <2>2. e.remaining = 0 \/ holding - e.remaining >= SumOf(d, 1 .. k)
    BY <1>1, <1>2, <1>3, <1>4, <1>5 DEF Explained, Fill, d, Found
  <2> QED BY <2>1, <2>2 DEF Explained, d
<1>6. CASE fill.side = "buy" /\ e.remaining # 0
  <2>1. Matched(e, fill) = [remaining |-> e.remaining - matched, cost |-> e.cost + matched * fill.price]
    BY <1>6 DEF Matched
  <2>2. fill.price \in Bought(fills) /\ fill.price \in {1, 3} /\ lo <= fill.price /\ fill.price <= hi
    BY <1>1, <1>6 DEF Bought, Fill
  <2>3. matched \in Nat /\ matched <= e.remaining /\ (matched = e.remaining \/ matched = d[k])
    BY <1>1, <1>2, <1>4, <1>6 DEF Least, Fill, Found
  <2> HIDE DEF matched, fill
  <2>4. lo * matched <= matched * fill.price /\ matched * fill.price <= hi * matched /\ matched * fill.price \in Nat
    BY <2>2, <2>3
  <2> DEFINE f == Matched(e, fill)
  <2>5. /\ f \in Found /\ f.remaining = e.remaining - matched /\ f.cost = e.cost + matched * fill.price
        /\ f.remaining <= holding
    BY <1>2, <2>1, <2>3, <2>4 DEF Found
  <2> HIDE DEF f
  <2>6. f.remaining = 0 \/ holding - f.remaining >= SumOf(d, 1 .. k)
    <3>1. PICK a \in Int, b \in Int : a = SumOf(d, 1 .. k) /\ b = SumOf(d, 1 .. k - 1)
      BY <1>3
    <3>2. a = b + d[k] /\ d[k] \in Int
      BY <1>3, <3>1
    <3>3. e.remaining \in Nat /\ holding - e.remaining >= SumOf(d, 1 .. k - 1)
      BY <1>2, <1>6 DEF Explained, Found, d
    <3>4. f.remaining = e.remaining - matched /\ (matched = e.remaining \/ matched = d[k]) /\ matched \in Nat
      BY <2>3, <2>5
    <3>5. holding - e.remaining >= b
      BY <3>1, <3>3
    <3>6. f.remaining = 0 \/ holding - f.remaining >= a
      <4>1. PICK r \in Nat, m \in Nat, x \in Int : r = e.remaining /\ m = matched /\ x = d[k]
        BY <3>2, <3>3, <3>4
      <4>2. a = b + x /\ f.remaining = r - m /\ (m = r \/ m = x) /\ holding - r >= b
        BY <3>2, <3>4, <3>5, <4>1
      <4>3. r - m = 0 \/ holding - (r - m) >= a
        BY <4>2
      <4> QED BY <4>2, <4>3
    <3> QED BY <3>1, <3>6
  <2>7. lo * (holding - f.remaining) = lo * (holding - e.remaining) + lo * matched
        /\ hi * (holding - f.remaining) = hi * (holding - e.remaining) + hi * matched
    <3>1. PICK h \in Int, x \in Int, m \in Int : h = holding /\ x = e.remaining /\ m = matched
      BY <1>2, <2>3 DEF Found
    <3>2. f.remaining = x - m
      BY <2>5, <3>1
    <3>3. lo * (h - (x - m)) = lo * (h - x) + lo * m /\ hi * (h - (x - m)) = hi * (h - x) + hi * m
      OBVIOUS
    <3> QED BY <3>1, <3>2, <3>3
  <2>8. lo * (holding - e.remaining) <= e.cost /\ e.cost <= hi * (holding - e.remaining)
    BY DEF Explained
  <2>11. /\ lo * (holding - e.remaining) \in Int /\ hi * (holding - e.remaining) \in Int
         /\ lo * matched \in Int /\ hi * matched \in Int /\ e.cost \in Int
    BY <1>2, <2>3 DEF Found
  <2>9. lo * (holding - f.remaining) <= f.cost /\ f.cost <= hi * (holding - f.remaining)
    <3> DEFINE lom == lo * matched
               him == hi * matched
               lor == lo * (holding - e.remaining)
               hir == hi * (holding - e.remaining)
               paid == matched * fill.price
    <3>1. lom \in Int /\ him \in Int /\ lor \in Int /\ hir \in Int /\ paid \in Int /\ e.cost \in Int
      BY <2>4, <2>11
    <3>2. lom <= paid /\ paid <= him /\ lor <= e.cost /\ e.cost <= hir
      BY <2>4, <2>8
    <3>3. lo * (holding - f.remaining) = lor + lom /\ hi * (holding - f.remaining) = hir + him /\ f.cost = e.cost + paid
      BY <2>5, <2>7
    <3> HIDE DEF lom, him, lor, hir, paid
    <3> QED BY <3>1, <3>2, <3>3
  <2>10. Explained(holding, fills, lo, hi, k, f)
    BY <2>5, <2>6, <2>9 DEF Explained, d
  <2> QED BY <2>10 DEF f, fill
<1> QED BY <1>5, <1>6

\* Something was bought, at prices there are a least and a most of.
LEMMA SomethingBought ==
    ASSUME NEW fills \in Seq(Fill), Held(fills) > 0
    PROVE  /\ Held(fills) = SumOf(Signed(fills), 1 .. Len(fills)) /\ Held(fills) \in Nat
           /\ \E lo, hi \in Bought(fills) : \A p \in Bought(fills) : lo <= p /\ p <= hi
           /\ Bought(fills) \subseteq {1, 3}
<1> DEFINE d == Signed(fills)
           none == [i \in 1 .. Len(fills) |-> 0]
<1>1. DOMAIN fills = 1 .. Len(fills) /\ Len(fills) \in Nat
  BY LenProperties
<1>2. \A i \in 1 .. Len(fills) : fills[i] \in Fill
  BY <1>1, ElementOfSeq
<1>3. Held(fills) = SumOf(d, 1 .. Len(fills))
  BY <1>1 DEF Held, Total, SumOf, Signed
<1>4. IsFiniteSet(1 .. Len(fills))
  BY <1>1, FS_Interval
<1>5. \A i \in 1 .. Len(fills) : d[i] \in Int
  BY <1>1, <1>2 DEF Signed, Fill
<1>6. \A i \in 1 .. Len(fills) : d[i] > 0 => fills[i].side = "buy"
  BY <1>1, <1>2 DEF Signed, Fill
<1> HIDE DEF d
<1>7. SumOf(d, 1 .. Len(fills)) \in Int
  <2>1. \A i \in 1 .. Len(fills) : d[i] \in Int /\ d[i] = d[i]
    BY <1>5
  <2> QED BY <1>4, <2>1, SumsAgree
<1>8. \E i \in 1 .. Len(fills) : d[i] > 0
  <2> SUFFICES ASSUME \A i \in 1 .. Len(fills) : ~(d[i] > 0) PROVE FALSE
    OBVIOUS
  <2>1. (\A i \in 1 .. Len(fills) : none[i] \in Nat) /\ (\A i \in 1 .. Len(fills) : d[i] \in Int /\ d[i] <= none[i])
    BY <1>5
  <2>2. (\A i \in 1 .. Len(fills) : none[i] \in Nat)
    BY <2>1
  <2>3. (\A i \in 1 .. Len(fills) : d[i] \in Int /\ d[i] <= none[i])
    BY <2>1
  <2>4. \A i \in 1 .. Len(fills) : none[i] \in Int /\ none[i] = 0
    OBVIOUS
  <2> HIDE DEF none
  <2>5. SumOf(d, 1 .. Len(fills)) <= SumOf(none, 1 .. Len(fills))
    BY <1>4, <2>2, <2>3, SumsCompare
  <2>6. SumOf(none, 1 .. Len(fills)) = 0
    <3>1. none \in [1 .. Len(fills) -> Int]
      BY DEF none
    <3>2. \A i \in 1 .. Len(fills) : none[i] = none[i] + none[i]
      BY <2>4
    <3>3. SumOf(none, 1 .. Len(fills)) = SumOf(none, 1 .. Len(fills)) + SumOf(none, 1 .. Len(fills))
          /\ SumOf(none, 1 .. Len(fills)) \in Int
      BY <1>4, <3>1, <3>2, SumAdds
    <3> QED BY <3>3
  <2> QED BY <1>3, <1>7, <2>5, <2>6
<1>9. Bought(fills) \subseteq {1, 3} /\ Bought(fills) # {}
  <2>1. PICK i \in 1 .. Len(fills) : d[i] > 0
    BY <1>8
  <2>2. fills[i].side = "buy" /\ fills[i].price \in Bought(fills)
    BY <1>1, <1>6, <2>1 DEF Bought
  <2>3. ASSUME NEW j \in DOMAIN fills PROVE fills[j].price \in {1, 3}
    BY <1>1, <1>2 DEF Fill
  <2> QED BY <2>2, <2>3 DEF Bought
<1>10. \E lo, hi \in Bought(fills) : \A p \in Bought(fills) : lo <= p /\ p <= hi
  <2>1. CASE Bought(fills) = {1, 3}
    <3>1. \A p \in {1, 3} : 1 <= p /\ p <= 3
      OBVIOUS
    <3> QED BY <2>1, <3>1
  <2>2. CASE \E q \in {1, 3} : Bought(fills) = {q}
    <3>1. PICK q \in {1, 3} : Bought(fills) = {q}
      BY <2>2
    <3>2. \A p \in {q} : q <= p /\ p <= q
      OBVIOUS
    <3> QED BY <3>1, <3>2
  <2>3. Bought(fills) = {1, 3} \/ \E q \in {1, 3} : Bought(fills) = {q}
    <3> HIDE DEF d
    <3> QED BY <1>9, Zenon
  <2> QED BY <2>1, <2>2, <2>3
<1> QED BY <1>3, <1>7, <1>9, <1>10 DEF d

\* The holding is explained in full.
LEMMA EntrySound ==
    ASSUME NEW fills \in Seq(Fill), Held(fills) > 0
    PROVE  LET entry == Entry(Held(fills), fills)
           IN /\ entry.remaining = 0
              /\ \E p \in Bought(fills) : p * Held(fills) <= entry.cost
              /\ \E p \in Bought(fills) : p * Held(fills) >= entry.cost
<1> DEFINE holding == Held(fills)
           n == Len(fills)
           Walks(g) == g = [k \in 0 .. n |-> IF k = 0 THEN [remaining |-> holding, cost |-> 0]
                                             ELSE Matched(g[k - 1], fills[k])]
<1>1. n \in Nat /\ holding \in Nat /\ holding > 0 /\ holding = SumOf(Signed(fills), 1 .. n)
  BY SomethingBought, LenProperties
<1>2. PICK lo \in Bought(fills), hi \in Bought(fills) : \A p \in Bought(fills) : lo <= p /\ p <= hi
  BY SomethingBought
<1>3. lo \in {1, 3} /\ hi \in {1, 3}
  BY SomethingBought
<1>4. Entry(holding, fills) = (CHOOSE g : Walks(g))[n]
  BY DEF Entry
<1> HIDE DEF holding, n
<1>5. \A k \in 1 .. n : fills[k] \in Fill
  BY ElementOfSeq DEF n
<1>6. \E g : Walks(g)
  <2> DEFINE b == [remaining |-> holding, cost |-> 0]
             S == [remaining : Int, cost : Int]
             step == [x \in S \X (1 .. n) |-> Matched(x[1], fills[x[2]])]
  <2>1. b \in S
    BY <1>1
  <2>2. ASSUME NEW e \in S, NEW k \in 1 .. n PROVE Matched(e, fills[k]) \in S
    <3>1. fills[k] \in Fill
      BY <1>5
    <3> QED BY <3>1 DEF Matched, Least, Fill
  <2>3. step \in [S \X (1 .. n) -> S]
    BY <2>2
  <2>4. PICK g \in [0 .. n -> S] : g[0] = b /\ \A k \in 1 .. n : g[k] = step[<<g[k - 1], k>>]
    <3> HIDE DEF b, S, step
    <3>1. Runs(n, S, b, step)
      BY <1>1, <2>1, <2>3, StepsExist
    <3> QED BY <3>1 DEF Runs
  <2>5. \A k \in 1 .. n : g[k] = Matched(g[k - 1], fills[k])
    <3> SUFFICES ASSUME NEW k \in 1 .. n PROVE g[k] = Matched(g[k - 1], fills[k])
      OBVIOUS
    <3>1. g[k - 1] \in S
      BY <1>1, <2>4
    <3> QED BY <2>4, <3>1
  <2>6. Walks(g)
    BY <1>1, <2>4, <2>5
  <2> QED BY <2>6
<1>7. ASSUME NEW g, Walks(g) PROVE Explained(holding, fills, lo, hi, n, g[n])
  <2> DEFINE T == {k \in 0 .. n : Explained(holding, fills, lo, hi, k, g[k])}
  <2>1. 0 \in T
    <3>1. g[0] = [remaining |-> holding, cost |-> 0]
      BY <1>1, <1>7
    <3>2. SumOf(Signed(fills), 1 .. 0) = 0
      <4>1. 1 .. 0 = {}
        OBVIOUS
      <4> QED BY <4>1, SumOfNone
    <3> QED BY <1>1, <1>3, <3>1, <3>2 DEF Explained, Found
  <2>2. ASSUME NEW k \in 1 .. n, k - 1 \in T PROVE k \in T
    <3>1. g[k] = Matched(g[k - 1], fills[k]) /\ k \in 0 .. n
      BY <1>1, <1>7
    <3>2. Explained(holding, fills, lo, hi, k, Matched(g[k - 1], fills[k]))
      <4>1. Explained(holding, fills, lo, hi, k - 1, g[k - 1]) /\ k \in 1 .. Len(fills)
        BY <2>2 DEF n
      <4> QED BY <1>1, <1>2, <1>3, <4>1, SizeFillStep
    <3> QED BY <3>1, <3>2
  <2> HIDE DEF T
  <2>3. 0 .. n \subseteq T
    BY <1>1, <2>1, <2>2, StepsKeep
  <2> QED BY <1>1, <2>3 DEF T
<1> HIDE DEF Walks
<1>8. Explained(holding, fills, lo, hi, n, Entry(holding, fills))
  BY <1>4, <1>6, <1>7
<1>9. Entry(holding, fills).remaining = 0
  BY <1>1, <1>8 DEF Explained, Found
<1> QED BY <1>1, <1>2, <1>3, <1>8, <1>9 DEF Explained, holding

\* A sale that is sized is sellable.
LEMMA SaleSized ==
    ASSUME NEW available \in Nat, NEW limit \in Nat, NEW min \in Nat, SizeSale(available, limit, min)
    PROVE  SizesSound'
<1>1. /\ sized'.of = "sale" /\ sized'.available = available /\ sized'.limit = limit /\ sized'.min = min
      /\ sized'.volume = SellVolume(available, limit, min)
  BY DEF SizeSale
<1>2. SalesSellable'
  BY <1>1, SaleSound DEF SalesSellable
<1> QED BY <1>1, <1>2 DEF SizesSound, ConversionsFund, BuysPayable, EntriesExplained

\* So does a conversion that is sized,
LEMMA ConversionSized ==
    ASSUME NEW direct \in Nat, NEW usdc \in Nat, NEW usdt \in Nat, NEW need \in {300, 10000},
           SizeConversion(direct, <<usdc, usdt>>, need)
    PROVE  SizesSound'
<1>1. /\ sized'.of = "conversion" /\ sized'.direct = direct /\ sized'.sources = <<usdc, usdt>> /\ sized'.need = need
      /\ sized'.result = Converted(direct, <<usdc, usdt>>, need)
  BY DEF SizeConversion
<1>2. (\E k \in DOMAIN sized'.sources : sized'.sources[k] >= 510) => usdc >= 510 \/ usdt >= 510
  BY <1>1
<1>3. ConversionsFund'
  BY <1>1, <1>2, ConversionSound DEF ConversionsFund, MinSpendable, OrderCap
<1> QED BY <1>1, <1>3 DEF SizesSound, SalesSellable, BuysPayable, EntriesExplained

\* a buy,
LEMMA BuySized ==
    ASSUME NEW available \in Nat, NEW limit \in Nat, NEW fee \in 0 .. 800, NEW least \in Nat,
           NEW ask \in Nat, NEW slippage \in Nat, SizeBuy(available, limit, fee, least, ask, slippage)
    PROVE  SizesSound'
<1>1. /\ sized'.of = "buy" /\ sized'.available = available /\ sized'.fee = fee /\ sized'.ask = ask
      /\ sized'.size = BuySize(available, limit, fee, least, ask, slippage)
  BY DEF SizeBuy
<1>2. ASSUME ask >= 2500 PROVE Payable(available, fee, BuySize(available, limit, fee, least, ask, slippage).cost)
  BY <1>2, BuyPaid, ZenonT(150)
<1>3. BuysPayable'
  BY <1>1, <1>2 DEF BuysPayable, Payable
<1> QED BY <1>1, <1>3 DEF SizesSound, SalesSellable, ConversionsFund, EntriesExplained

\* and the entry of a holding.
LEMMA EntrySized ==
    ASSUME NEW fills \in Seq(Fill), Held(fills) > 0, SizeEntry(fills) PROVE SizesSound'
<1>1. /\ sized'.of = "entry" /\ sized'.fills = fills /\ sized'.entry = Entry(Held(fills), fills)
  BY DEF SizeEntry
<1>2. EntriesExplained'
  BY <1>1, EntrySound DEF EntriesExplained, Bought
<1> QED BY <1>1, <1>2 DEF SizesSound, SalesSellable, ConversionsFund, BuysPayable

\* Whatever the balances, minimums, limits and prices, and for any history of fills: what is
\* sized is sound (computeVenueSellVolume, the conversions for three dollars and a full order,
\* buys with fees to eight percent, reconstructEntryFromFills).
THEOREM AnySizeIsSound ==
    /\ \A available, limit, min \in Nat : SizeSale(available, limit, min) => SizesSound'
    /\ \A direct, usdc, usdt \in Nat, need \in {300, 10000} :
          SizeConversion(direct, <<usdc, usdt>>, need) => SizesSound'
    /\ \A available, limit, least, ask, slippage \in Nat, fee \in 0 .. 800 :
          SizeBuy(available, limit, fee, least, ask, slippage) => SizesSound'
    /\ \A fills \in Seq(Fill) : Held(fills) > 0 /\ SizeEntry(fills) => SizesSound'
<1>1. \A available, limit, min \in Nat : SizeSale(available, limit, min) => SizesSound'
  BY SaleSized
<1>2. \A direct, usdc, usdt \in Nat, need \in {300, 10000} :
          SizeConversion(direct, <<usdc, usdt>>, need) => SizesSound'
  BY ConversionSized
<1>3. \A available, limit, least, ask, slippage \in Nat, fee \in 0 .. 800 :
          SizeBuy(available, limit, fee, least, ask, slippage) => SizesSound'
  BY BuySized, ZenonT(60)
<1>4. \A fills \in Seq(Fill) : Held(fills) > 0 /\ SizeEntry(fills) => SizesSound'
  BY EntrySized
<1> QED BY <1>1, <1>2, <1>3, <1>4, PTL

\* What the model sizes is of these kinds.
LEMMA SizedSound == SizingNext => SizesSound'
<1>1. (\E available, limit, min \in 0 .. 4 : SizeSale(available, limit, min)) => SizesSound'
  BY SaleSized
<1>2. (\E direct, usdc, usdt \in Balances, need \in {300, 10000} :
          SizeConversion(direct, <<usdc, usdt>>, need)) => SizesSound'
  <2>1. Balances \subseteq Nat
    BY DEF Balances
  <2> QED BY <2>1, ConversionSized
<1>3. (\E available \in Balances, limit \in {500, 10000, 15000}, fee \in {10, 26, 60, 120},
          least \in {0, 500, 1000}, ask \in {5, 149, 2551, 10000, 100000}, slippage \in {0, 30} :
          SizeBuy(available, limit, fee, least, ask, slippage)) => SizesSound'
  <2> DEFINE Limits == {500, 10000, 15000}
             Fees == {10, 26, 60, 120}
             Leasts == {0, 500, 1000}
             Asks == {5, 149, 2551, 10000, 100000}
             Slips == {0, 30}
  <2>1. Balances \subseteq Nat /\ Limits \subseteq Nat /\ Fees \subseteq 0 .. 800
        /\ Leasts \subseteq Nat /\ Asks \subseteq Nat /\ Slips \subseteq Nat
    BY DEF Balances
  <2> HIDE DEF Limits, Fees, Leasts, Asks, Slips
  <2>3. (\E available \in Balances, limit \in Limits, fee \in Fees, least \in Leasts, ask \in Asks, slippage \in Slips :
           SizeBuy(available, limit, fee, least, ask, slippage)) => SizesSound'
    BY <2>1, BuySized, ZenonT(60)
  <2> QED BY <2>3, PTL DEF Limits, Fees, Leasts, Asks, Slips
<1>4. (\E fills \in Fills : Held(fills) > 0 /\ SizeEntry(fills)) => SizesSound'
  <2>1. ASSUME NEW fills \in Fills PROVE fills \in Seq(Fill)
    <3>1. PICK n \in 1 .. 3 : fills \in [1 .. n -> [side : {"buy", "sell"}, price : {1, 3}, volume : {1, 2}]]
      BY DEF Fills
    <3>2. fills \in [1 .. n -> Fill] /\ n \in Nat
      BY <3>1 DEF Fill
    <3> QED BY <3>2
  <2> QED BY <2>1, EntrySized
<1> QED BY <1>1, <1>2, <1>3, <1>4, PTL DEF SizingNext

\* Nothing is sized yet, or soundly.
THEOREM SizesAreSound == SizingSpec => []SizesSound
<1> USE DEF SizesSound, SalesSellable, ConversionsFund, BuysPayable, EntriesExplained
<1>1. SizingInit => SizesSound
  BY DEF SizingInit
<1>2. SizesSound /\ [SizingNext]_sized => SizesSound'
  <2>1. SizesSound /\ UNCHANGED sized => SizesSound'
    OBVIOUS
  <2> QED BY <2>1, SizedSound
<1> QED BY <1>1, <1>2, PTL DEF SizingSpec

-----------------------------------------------------------------------------
(* The tokens of a linked broker.  What waits in the inbox, or in a         *)
(* callback, is the last token of its grant, and of another grant than the  *)
(* one in use or being renewed.                                             *)

LinkTokens == [grant : Grants, n : 1 .. MaxRenewals + 1]
CurrentToken(t) == issued[t.grant] = t.n
KnownToken(t) == t \in LinkTokens /\ issued[t.grant] > 0

\* Tokens that wait in the inbox are as good as new, and of other grants than the one in use.
FreshInbox ==
    \A i \in 1 .. Len(tokenBox) :
        /\ CurrentToken(tokenBox[i]) /\ (linkToken # NoLink => tokenBox[i].grant # linkToken.grant)
        /\ \A t : renewal = <<t>> => tokenBox[i].grant # t.grant

LinkInv ==
    /\ issued \in [Grants -> 0 .. MaxRenewals + 1]
    /\ tokenMishap \subseteq {"outdated inbox", "lost"}
    /\ linkToken = NoLink \/ KnownToken(linkToken)
    /\ renewal = <<>> \/ \E t : renewal = <<t>> /\ KnownToken(t) /\ CurrentToken(t)
    /\ tokenBox \in Seq(LinkTokens) /\ \A i \in 1 .. Len(tokenBox) : KnownToken(tokenBox[i])
    /\ callback = <<>> \/ \E b :
          /\ callback = <<b>> /\ KnownToken(b.token) /\ CurrentToken(b.token)
          /\ b.seen \in Seq(LinkTokens) /\ \A i \in 1 .. Len(b.seen) : KnownToken(b.seen[i])
          /\ linkToken # NoLink => b.token.grant # linkToken.grant
          /\ \A t : renewal = <<t>> => b.token.grant # t.grant
          /\ \A i \in 1 .. Len(tokenBox) : tokenBox[i].grant # b.token.grant
    /\ tokenMishap = {} => FreshInbox /\ LinkLives

\* No token has been issued.
LEMMA LinkStarts == LinkInit => LinkInv
<1> SUFFICES ASSUME LinkInit PROVE LinkInv
  OBVIOUS
<1>1. issued \in [Grants -> 0 .. MaxRenewals + 1] /\ linkToken = NoLink /\ tokenBox = <<>>
      /\ callback = <<>> /\ renewal = <<>> /\ tokenMishap = {}
  BY EquityConstants DEF LinkInit
<1>2. tokenBox \in Seq(LinkTokens) /\ Len(tokenBox) = 0
  BY <1>1
<1> QED BY <1>1, <1>2 DEF LinkInv, FreshInbox, LinkLives

\* A code brings the first token of a grant, which nothing else is of.
LEMMA ExchangeStep == ASSUME LinkInv, NEW g \in Grants, ExchangeCode(g) PROVE LinkInv'
<1>1. /\ issued[g] = 0 /\ issued' = [issued EXCEPT ![g] = 1] /\ issued \in [Grants -> 0 .. MaxRenewals + 1]
      /\ UNCHANGED <<linkToken, tokenBox, renewal, tokenMishap>> /\ MaxRenewals \in Nat
  BY EquityConstants DEF ExchangeCode, LinkInv
<1>2. PICK t, b : t = [grant |-> g, n |-> 1] /\ b = [seen |-> tokenBox, token |-> t]
  OBVIOUS
<1>3. callback' = <<b>> /\ b.seen = tokenBox /\ b.token = t /\ t.grant = g /\ t.n = 1 /\ t \in LinkTokens
  BY <1>1, <1>2 DEF ExchangeCode, LinkTokens
<1>4. issued' \in [Grants -> 0 .. MaxRenewals + 1] /\ issued'[g] = 1 /\ \A h \in Grants : h # g => issued'[h] = issued[h]
  BY <1>1
<1>5. \A u : KnownToken(u) => u.grant # g /\ KnownToken(u)' /\ (CurrentToken(u) => CurrentToken(u)')
  BY <1>1, <1>4 DEF KnownToken, CurrentToken, LinkTokens
<1>6. KnownToken(t)' /\ CurrentToken(t)'
  BY <1>3, <1>4 DEF KnownToken, CurrentToken
<1>7. linkToken = NoLink \/ linkToken.grant # g
  BY <1>5 DEF LinkInv
<1>8. \A i \in 1 .. Len(tokenBox) : KnownToken(tokenBox[i]) /\ tokenBox[i].grant # g
  BY <1>5 DEF LinkInv
<1>9. \A u : renewal = <<u>> => u.grant # g /\ KnownToken(u)' /\ CurrentToken(u)'
  <2>1. ASSUME NEW u, renewal = <<u>> PROVE KnownToken(u) /\ CurrentToken(u)
    <3>1. PICK w : renewal = <<w>> /\ KnownToken(w) /\ CurrentToken(w)
      BY <2>1 DEF LinkInv
    <3>2. w = u
      BY <2>1, <3>1
    <3> QED BY <3>1, <3>2
  <2> QED BY <1>5, <2>1
<1>10. (callback = <<>> \/ \E d :
          /\ callback = <<d>> /\ KnownToken(d.token) /\ CurrentToken(d.token)
          /\ d.seen \in Seq(LinkTokens) /\ \A i \in 1 .. Len(d.seen) : KnownToken(d.seen[i])
          /\ linkToken # NoLink => d.token.grant # linkToken.grant
          /\ \A u : renewal = <<u>> => d.token.grant # u.grant
          /\ \A i \in 1 .. Len(tokenBox) : tokenBox[i].grant # d.token.grant)'
  BY <1>1, <1>3, <1>5, <1>6, <1>7, <1>8, <1>9 DEF LinkInv
<1>11. tokenMishap' = {} => (FreshInbox /\ LinkLives)'
  <2> SUFFICES ASSUME tokenMishap' = {} PROVE FreshInbox' /\ LinkLives'
    OBVIOUS
  <2>1. FreshInbox /\ LinkLives
    BY <1>1 DEF LinkInv
  <2>2. FreshInbox'
    BY <1>1, <1>5, <1>8, <2>1 DEF FreshInbox
  <2>3. LinkLives'
    BY <1>1, <1>4, <1>7, <2>1 DEF LinkLives, LinkInv, KnownToken, LinkTokens
  <2> QED BY <2>2, <2>3
<1>12. (linkToken = NoLink \/ KnownToken(linkToken))' /\ (renewal = <<>> \/ \E u : renewal = <<u>> /\ KnownToken(u) /\ CurrentToken(u))'
  BY <1>1, <1>5, <1>9 DEF LinkInv
<1>13. tokenBox' \in Seq(LinkTokens) /\ \A i \in 1 .. Len(tokenBox') : KnownToken(tokenBox[i])'
  BY <1>1, <1>5, <1>8 DEF LinkInv
<1> QED
  BY <1>1, <1>4, <1>10, <1>11, <1>12, <1>13 DEF LinkInv

\* Queueing it keeps it, or the inbox put back is out of date.
LEMMA QueueStep == ASSUME LinkInv, QueueTokens PROVE LinkInv'
<1>1. PICK b :
          /\ callback = <<b>> /\ KnownToken(b.token) /\ CurrentToken(b.token)
          /\ b.seen \in Seq(LinkTokens) /\ \A i \in 1 .. Len(b.seen) : KnownToken(b.seen[i])
          /\ linkToken # NoLink => b.token.grant # linkToken.grant
          /\ \A t : renewal = <<t>> => b.token.grant # t.grant
          /\ \A i \in 1 .. Len(tokenBox) : tokenBox[i].grant # b.token.grant
  BY DEF LinkInv, QueueTokens
<1>2. /\ tokenBox' = Append(b.seen, b.token) /\ callback' = <<>> /\ UNCHANGED <<issued, linkToken, renewal>>
      /\ tokenMishap' = tokenMishap \union (IF b.seen # tokenBox THEN {"outdated inbox"} ELSE {})
  BY <1>1 DEF QueueTokens
<1>3. /\ tokenBox' \in Seq(LinkTokens) /\ Len(b.seen) \in Nat /\ Len(tokenBox') = Len(b.seen) + 1
      /\ tokenBox'[Len(b.seen) + 1] = b.token
      /\ \A i \in 1 .. Len(b.seen) : tokenBox'[i] = b.seen[i]
  <2>1. b.token \in LinkTokens /\ b.seen \in Seq(LinkTokens)
    BY <1>1 DEF KnownToken
  <2>2. b.seen # <<>> \/ b.seen = <<>>
    OBVIOUS
  <2>3. /\ Append(b.seen, b.token) \in Seq(LinkTokens) /\ Len(b.seen) \in Nat
        /\ Len(Append(b.seen, b.token)) = Len(b.seen) + 1
        /\ \A i \in 1 .. Len(b.seen) : Append(b.seen, b.token)[i] = b.seen[i]
        /\ Append(b.seen, b.token)[Len(b.seen) + 1] = b.token
    BY <2>1, AppendProperties
  <2> QED BY <1>2, <2>3
<1>4. \A i \in 1 .. Len(tokenBox') : i = Len(b.seen) + 1 \/ i \in 1 .. Len(b.seen)
  BY <1>3
<1>5. \A i \in 1 .. Len(tokenBox') : KnownToken(tokenBox[i])'
  BY <1>1, <1>2, <1>3, <1>4 DEF KnownToken
<1>6. tokenMishap' = {} => (FreshInbox /\ LinkLives)'
  <2> SUFFICES ASSUME tokenMishap' = {} PROVE FreshInbox' /\ LinkLives'
    OBVIOUS
  <2>1. FreshInbox /\ LinkLives /\ b.seen = tokenBox
    BY <1>2 DEF LinkInv
  <2>2. \A i \in 1 .. Len(tokenBox') : tokenBox'[i] = b.token \/ (i \in 1 .. Len(tokenBox) /\ tokenBox'[i] = tokenBox[i])
    BY <1>3, <1>4, <2>1
  <2>3. FreshInbox'
    BY <1>1, <1>2, <2>1, <2>2 DEF FreshInbox, CurrentToken
  <2>4. LinkLives'
    BY <1>2, <2>1 DEF LinkLives, LinkInv
  <2> QED BY <2>3, <2>4
<1> QED
  BY <1>2, <1>3, <1>5, <1>6 DEF LinkInv, KnownToken, CurrentToken

\* What waits in the inbox is good when it is taken.
LEMMA DrainStep == ASSUME LinkInv, DrainBox PROVE LinkInv'
<1>1. PICK k : k = Len(tokenBox)
  OBVIOUS
<1>2. tokenBox \in Seq(LinkTokens) /\ k \in 1 .. Len(tokenBox) /\ KnownToken(tokenBox[k])
  <2>1. tokenBox \in Seq(LinkTokens) /\ tokenBox # <<>>
    BY DEF LinkInv, DrainBox
  <2>2. Len(tokenBox) \in 1 .. Len(tokenBox)
    BY <2>1
  <2>3. \A i \in 1 .. Len(tokenBox) : KnownToken(tokenBox[i])
    BY DEF LinkInv
  <2> QED BY <1>1, <2>1, <2>2, <2>3
<1>3. /\ linkToken' = tokenBox[k] /\ tokenBox' = <<>> /\ UNCHANGED <<issued, callback, renewal, tokenMishap>>
      /\ tokenBox' \in Seq(LinkTokens) /\ Len(tokenBox') = 0
  BY <1>1 DEF DrainBox
<1>4. tokenMishap' = {} => (FreshInbox /\ LinkLives)'
  BY <1>2, <1>3 DEF LinkInv, FreshInbox, LinkLives, CurrentToken
<1>5. (linkToken = NoLink \/ KnownToken(linkToken))'
  BY <1>2, <1>3 DEF KnownToken
<1> QED
  <2>1. issued' \in [Grants -> 0 .. MaxRenewals + 1] /\ tokenMishap' \subseteq {"outdated inbox", "lost"}
    BY <1>3 DEF LinkInv
  <2>2. (renewal = <<>> \/ \E t : renewal = <<t>> /\ KnownToken(t) /\ CurrentToken(t))'
    BY <1>3 DEF LinkInv, KnownToken, CurrentToken
  <2>3. tokenBox' \in Seq(LinkTokens) /\ \A i \in 1 .. Len(tokenBox') : KnownToken(tokenBox[i])'
    BY <1>3
  <2>4. (callback = <<>> \/ \E b :
          /\ callback = <<b>> /\ KnownToken(b.token) /\ CurrentToken(b.token)
          /\ b.seen \in Seq(LinkTokens) /\ \A i \in 1 .. Len(b.seen) : KnownToken(b.seen[i])
          /\ linkToken # NoLink => b.token.grant # linkToken.grant
          /\ \A t : renewal = <<t>> => b.token.grant # t.grant
          /\ \A i \in 1 .. Len(tokenBox) : tokenBox[i].grant # b.token.grant)'
    <3>1. CASE callback = <<>>
      BY <1>3, <3>1
    <3>2. CASE callback # <<>>
      <4>1. PICK b :
              /\ callback = <<b>> /\ KnownToken(b.token) /\ CurrentToken(b.token)
              /\ b.seen \in Seq(LinkTokens) /\ \A i \in 1 .. Len(b.seen) : KnownToken(b.seen[i])
              /\ \A t : renewal = <<t>> => b.token.grant # t.grant
              /\ \A i \in 1 .. Len(tokenBox) : tokenBox[i].grant # b.token.grant
        BY <3>2 DEF LinkInv
      <4>2. KnownToken(b.token)' /\ CurrentToken(b.token)' /\ \A i \in 1 .. Len(b.seen) : KnownToken(b.seen[i])'
        BY <1>3, <4>1 DEF KnownToken, CurrentToken
      <4>3. linkToken' # NoLink => b.token.grant # linkToken'.grant
        BY <1>2, <1>3, <4>1
      <4>4. \A i \in 1 .. Len(tokenBox') : tokenBox'[i].grant # b.token.grant
        BY <1>3
      <4> QED BY <1>3, <4>1, <4>2, <4>3, <4>4
    <3> QED BY <3>1, <3>2
  <2> QED BY <1>4, <1>5, <2>1, <2>2, <2>3, <2>4 DEF LinkInv

\* A renewal spends the token in use and holds the next.
LEMMA RenewTokensStep == ASSUME LinkInv, RenewTokens PROVE LinkInv'
<1>1. PICK g, t : g = linkToken.grant /\ t = [linkToken EXCEPT !.n = @ + 1]
  OBVIOUS
<1>2. /\ KnownToken(linkToken) /\ linkToken # NoLink /\ linkToken.n = issued[g] /\ issued[g] <= MaxRenewals /\ g \in Grants
      /\ issued \in [Grants -> 0 .. MaxRenewals + 1] /\ issued' = [issued EXCEPT ![g] = @ + 1] /\ renewal' = <<t>>
      /\ renewal = <<>> /\ UNCHANGED <<linkToken, tokenBox, callback, tokenMishap>> /\ MaxRenewals \in Nat
  BY <1>1, EquityConstants DEF LinkInv, RenewTokens, KnownToken, LinkTokens
<1>3. t.grant = g /\ t.n = issued[g] + 1 /\ t \in LinkTokens
  BY <1>1, <1>2 DEF KnownToken, LinkTokens
<1>4. issued' \in [Grants -> 0 .. MaxRenewals + 1] /\ issued'[g] = issued[g] + 1 /\ \A h \in Grants : h # g => issued'[h] = issued[h]
  BY <1>2
<1>5. \A u : KnownToken(u) => KnownToken(u)' /\ (CurrentToken(u) /\ u.grant # g => CurrentToken(u)')
  BY <1>2, <1>4 DEF KnownToken, CurrentToken, LinkTokens
<1>6. KnownToken(t)' /\ CurrentToken(t)'
  BY <1>2, <1>3, <1>4 DEF KnownToken, CurrentToken
<1>7. (callback = <<>> \/ \E b :
          /\ callback = <<b>> /\ KnownToken(b.token) /\ CurrentToken(b.token)
          /\ b.seen \in Seq(LinkTokens) /\ \A i \in 1 .. Len(b.seen) : KnownToken(b.seen[i])
          /\ linkToken # NoLink => b.token.grant # linkToken.grant
          /\ \A u : renewal = <<u>> => b.token.grant # u.grant
          /\ \A i \in 1 .. Len(tokenBox) : tokenBox[i].grant # b.token.grant)'
  BY <1>1, <1>2, <1>3, <1>5 DEF LinkInv
<1>8. tokenMishap' = {} => (FreshInbox /\ LinkLives)'
  <2> SUFFICES ASSUME tokenMishap' = {} PROVE FreshInbox' /\ LinkLives'
    OBVIOUS
  <2>1. FreshInbox
    BY <1>2 DEF LinkInv
  <2>2. \A i \in 1 .. Len(tokenBox) : KnownToken(tokenBox[i])
    BY DEF LinkInv
  <2>3. FreshInbox'
    BY <1>1, <1>2, <1>3, <1>5, <2>1, <2>2 DEF FreshInbox
  <2>4. LinkLives'
    BY <1>1, <1>2, <1>3 DEF LinkLives
  <2> QED BY <2>3, <2>4
<1>9. (linkToken = NoLink \/ KnownToken(linkToken))'
  BY <1>2, <1>5
<1>10. \A i \in 1 .. Len(tokenBox') : KnownToken(tokenBox[i])'
  BY <1>2, <1>5 DEF LinkInv
<1>11. tokenBox' \in Seq(LinkTokens) /\ tokenMishap' \subseteq {"outdated inbox", "lost"}
  BY <1>2 DEF LinkInv
<1> QED
  BY <1>2, <1>4, <1>6, <1>7, <1>8, <1>9, <1>10, <1>11 DEF LinkInv

\* The renewed tokens are stored, or lost on the way.
LEMMA KeepStep == ASSUME LinkInv, StoreTokens \/ LoseTokens PROVE LinkInv'
<1>1. PICK t : renewal = <<t>> /\ KnownToken(t) /\ CurrentToken(t)
  BY DEF LinkInv, StoreTokens, LoseTokens
<1>2. renewal' = <<>> /\ UNCHANGED <<issued, tokenBox, callback>>
  BY DEF StoreTokens, LoseTokens
<1>3. CASE StoreTokens
  <2>1. linkToken' = t /\ UNCHANGED tokenMishap
    BY <1>1, <1>3 DEF StoreTokens, TokenPatch
  <2>2. tokenMishap' = {} => (FreshInbox /\ LinkLives)'
    BY <1>1, <1>2, <2>1 DEF LinkInv, FreshInbox, LinkLives, CurrentToken
  <2> QED BY <1>1, <1>2, <2>1, <2>2 DEF LinkInv, KnownToken, CurrentToken
<1>4. CASE LoseTokens
  <2>1. UNCHANGED linkToken /\ tokenMishap' = tokenMishap \union {"lost"}
    BY <1>4 DEF LoseTokens
  <2> QED BY <1>2, <2>1 DEF LinkInv, KnownToken, CurrentToken
<1> QED BY <1>3, <1>4

\* No step breaks the invariant of the links.
LEMMA LinkMoves == LinkInv /\ [LinkNext]_linkVars => LinkInv'
<1> SUFFICES ASSUME LinkInv, [LinkNext]_linkVars PROVE LinkInv'
  OBVIOUS
<1>1. CASE UNCHANGED linkVars
  BY <1>1 DEF linkVars, LinkInv, KnownToken, CurrentToken, FreshInbox, LinkLives
<1>2. CASE LinkNext
  BY <1>2, ExchangeStep, QueueStep, DrainStep, RenewTokensStep, KeepStep DEF LinkNext
<1> QED BY <1>1, <1>2

\* It is enough.
LEMMA LinkInvKeeps == LinkInv => LinkLives /\ LinkTypeOK
<1> SUFFICES ASSUME LinkInv PROVE LinkLives /\ LinkTypeOK
  OBVIOUS
<1>1. LinkLives
  BY DEF LinkInv, LinkLives
<1>2. LinkTokens \subseteq [grant : Grants \union {0}, n : 0 .. MaxRenewals + 1]
  BY EquityConstants DEF LinkTokens
<1>3. linkToken \in [grant : Grants \union {0}, n : 0 .. MaxRenewals + 1]
  <2>1. MaxRenewals \in Nat
    BY EquityConstants
  <2>2. 0 \in 0 .. MaxRenewals + 1 /\ 0 \in Grants \union {0}
    BY <2>1
  <2>3. NoLink \in [grant : Grants \union {0}, n : 0 .. MaxRenewals + 1]
    BY <2>2 DEF NoLink
  <2> QED BY <1>2, <2>3 DEF LinkInv, KnownToken
<1>4. tokenBox \in Seq([grant : Grants \union {0}, n : 0 .. MaxRenewals + 1])
  <2>1. tokenBox \in Seq(LinkTokens)
    BY DEF LinkInv
  <2> QED BY <1>2, <2>1, SeqMonotonic, Zenon
<1> QED BY <1>1, <1>3, <1>4 DEF LinkInv, LinkTypeOK

\* For any grants and renewals: the refresh token kept is the one its provider takes, or its
\* successor is on the way to the row, unless tokens were lost on that way or a callback put
\* back an outdated inbox.
THEOREM LinksLive == LinkSpec => []LinkLives
<1>1. LinkSpec => []LinkInv
  BY LinkStarts, LinkMoves, PTL DEF LinkSpec
<1> QED BY <1>1, LinkInvKeeps, PTL

-----------------------------------------------------------------------------
(* The equities worker.  Nothing is known of an order but that the worker    *)
(* sent it.  While no sell of a stock was sent on top of another, there is   *)
(* one at most and it is within what is held; while a tick has not come to a *)
(* stock of which no sell was out when it began, no more was read than is    *)
(* held, and of which no buy was out, no less.                               *)

OrderOK(o) == o.stock \in Stocks /\ o.qty \in Nat /\ o.qty > 0 /\ o.side \in OrderSides

Sells(s) == {o \in resting : o.stock = s /\ o.side = "sell"}

SellsCovered(s) ==
    \/ <<s, "sell", "sell">> \in crossed
    \/ /\ shares[s] >= 0
       /\ \A o \in Sells(s) : o.qty <= shares[s]
       /\ \A o, p \in Sells(s) : o = p

\* What a tick still holds of the stocks it has not come to.
Fresh(t) == \A s \in t.left, side \in OrderSides : <<s, side>> \notin t.waiting =>
    /\ \A o \in resting : ~(o.stock = s /\ o.side = side)
    /\ side = "sell" => t.held[s] <= shares[s]
    /\ side = "buy" => shares[s] <= t.held[s]

StockTick(t) == /\ {"left", "held", "opened", "dayTrades", "sent", "waiting"} = DOMAIN t
                /\ t.left \subseteq Stocks /\ t.held \in [Stocks -> Int]

OneEach == crossed = {} => \A o, p \in resting : o.stock = p.stock => o = p

StockInv ==
    /\ etick = <<>> \/ \E t : etick = <<t>> /\ StockTick(t) /\ Fresh(t)
    /\ shares \in [Stocks -> Int] /\ \A o \in resting : OrderOK(o)
    /\ \A s \in Stocks : SellsCovered(s)
    /\ OneEach /\ PositionCapHolds

\* Nothing is held and nothing is on order.
LEMMA StockStarts == EquityInit => StockInv
<1> SUFFICES ASSUME EquityInit PROVE StockInv
  OBVIOUS
<1>1. /\ shares = [s \in Stocks |-> 0] /\ resting = {} /\ etick = <<>>
      /\ crossed = {} /\ capBroken = {}
  BY DEF EquityInit
<1>2. shares \in [Stocks -> Int] /\ \A s \in Stocks : shares[s] >= 0
  BY <1>1
<1> QED BY <1>1, <1>2 DEF StockInv, SellsCovered, Sells, OneEach, PositionCapHolds

\* As many parts as the dollars pay for.
LEMMA BuyBelow == ASSUME NEW u \in Nat, NEW p \in Nat \ {0}
                  PROVE  u \div p \in Nat /\ (u \div p) * p <= u
  OBVIOUS

\* As many whole ones.
LEMMA BuyWholeBelow == ASSUME NEW u \in Nat, NEW p \in Nat \ {0}
                       PROVE  2 * (u \div (2 * p)) \in Nat /\ (2 * (u \div (2 * p))) * p <= u
<1>1. PICK q : q = 2 * p
  OBVIOUS
<1>2. q \in Nat \ {0}
  BY <1>1
<1>3. u \div q \in Nat /\ (u \div q) * q <= u
  BY <1>2, BuyBelow
<1>4. PICK n \in Nat : n = u \div q
  BY <1>3
<1>5. (2 * n) * p = n * q
  BY <1>1
<1> QED BY <1>1, <1>3, <1>4, <1>5

\* The dollars of a buy leave the position below the cap.
LEMMA EntryBounds == ASSUME NEW h \in Nat, NEW power \in Nat
                     PROVE  /\ EntryUsd(h, power) \in Int
                            /\ EntryUsd(h, power) <= 2 * MaxPositionUsd - h
<1> DEFINE limits == {2 * PerTradeUsd, 2 * MaxPositionUsd - h, 2 * power}
<1>1. PerTradeUsd \in Nat /\ MaxPositionUsd \in Nat
  BY EquityConstants
<1>2. \E m \in limits : \A n \in limits : m <= n
  <2>1. \A a, b, c \in Int : \E m \in {a, b, c} : m <= a /\ m <= b /\ m <= c
    OBVIOUS
  <2>2. 2 * PerTradeUsd \in Int /\ 2 * MaxPositionUsd - h \in Int /\ 2 * power \in Int
    BY <1>1
  <2> QED BY <2>1, <2>2
<1>3. EntryUsd(h, power) \in limits /\ \A n \in limits : EntryUsd(h, power) <= n
  BY <1>2 DEF EntryUsd
<1> QED BY <1>1, <1>3

\* An order is for a number of half shares.
LEMMA OrderedWhole ==
    ASSUME NEW side \in {"buy", "sell"}, NEW t, NEW s \in Stocks, t.held[s] \in Int, NEW price \in StockPrices,
           NEW hours, NEW power \in Nat, Decide(side, s, t, price, hours, power) > 0
    PROVE  Decide(side, s, t, price, hours, power) \in Int
<1>1. price \in Nat \ {0}
  BY EquityConstants
<1>2. PICK h : h = IF t.held[s] > 0 THEN t.held[s] * price ELSE 0
  OBVIOUS
<1>3. PICK u : u = EntryUsd(h, power)
  OBVIOUS
<1>4. PICK k : k = t.held[s]
  OBVIOUS
<1>5. h \in Nat
  <2>1. \A a \in Int, b \in Nat : a > 0 => a * b \in Nat
    OBVIOUS
  <2>2. k \in Int /\ h = IF k > 0 THEN k * price ELSE 0
    BY <1>2, <1>4
  <2> QED BY <1>1, <2>1, <2>2
<1>6. u \in Int
  BY <1>3, <1>5, EntryBounds
<1>7. EntryOrder(s, t, price, hours, power) \in Int
  <2>1. u > 0 => u \div price \in Int /\ 2 * (u \div (2 * price)) \in Int
    <3>1. u > 0 => u \in Nat
      BY <1>6
    <3>2. u > 0 => u \div price \in Nat
      BY <1>1, <3>1, BuyBelow
    <3>3. u > 0 => 2 * (u \div (2 * price)) \in Nat
      BY <1>1, <3>1, BuyWholeBelow
    <3> QED BY <3>2, <3>3
  <2>2. EntryOrder(s, t, price, hours, power) \in {0, u \div price, 2 * (u \div (2 * price))}
        /\ (u <= 0 => EntryOrder(s, t, price, hours, power) = 0)
    BY <1>2, <1>3 DEF EntryOrder
  <2> QED BY <1>6, <2>1, <2>2
<1>8. ExitOrder(s, t) \in Int
  BY DEF ExitOrder
<1> QED BY <1>7, <1>8 DEF Decide

\* What a buy is for: with what was read, or less, it stays below the cap.
LEMMA BuyBounds ==
    ASSUME NEW t, NEW s \in Stocks, t.held[s] \in Int, NEW price \in StockPrices, NEW hours,
           NEW power \in Nat, Decide("buy", s, t, price, hours, power) > 0,
           NEW n \in Int, n <= t.held[s]
    PROVE  (n + Decide("buy", s, t, price, hours, power)) * price <= 2 * MaxPositionUsd
<1>1. price \in Nat \ {0} /\ MaxPositionUsd \in Nat
  BY EquityConstants
<1>2. PICK k, h, q, u : /\ k = t.held[s] /\ h = (IF t.held[s] > 0 THEN t.held[s] * price ELSE 0)
                        /\ q = Decide("buy", s, t, price, hours, power) /\ u = EntryUsd(h, power)
  OBVIOUS
<1>3. k \in Int /\ n <= k /\ h = (IF k > 0 THEN k * price ELSE 0) /\ q > 0
  BY <1>2
<1>4. h \in Nat /\ n * price <= h
  <2>1. \A a, b \in Int, m \in Nat : a <= b => a * m <= b * m
    <3>1. \A d \in Nat, m \in Nat : d * m >= 0
      OBVIOUS
    <3>2. ASSUME NEW a \in Int, NEW b \in Int, NEW m \in Nat, a <= b PROVE a * m <= b * m
      <4>1. PICK d \in Nat : b = a + d
        <5>1. b - a \in Nat /\ b = a + (b - a)
          BY <3>2
        <5> QED BY <5>1
      <4>2. b * m = a * m + d * m /\ d * m >= 0 /\ a * m \in Int /\ d * m \in Int
        BY <3>1, <4>1
      <4> QED BY <4>2
    <3> QED BY <3>2
  <2>2. CASE k > 0
    <3>1. h = k * price /\ k \in Nat
      BY <1>3, <2>2
    <3>2. n * price <= k * price /\ k * price \in Nat
      BY <1>1, <1>3, <2>1, <3>1
    <3> QED BY <3>1, <3>2
  <2>3. CASE ~(k > 0)
    <3>1. n <= 0 /\ h = 0
      BY <1>3, <2>3
    <3>2. n * price <= 0 * price /\ 0 * price = 0
      BY <1>1, <2>1, <3>1
    <3> QED BY <3>1, <3>2
  <2> QED BY <2>2, <2>3
<1>5. u \in Int /\ u <= 2 * MaxPositionUsd - h
  BY <1>2, <1>4, EntryBounds
<1>6. q = EntryOrder(s, t, price, hours, power)
  BY <1>2, <1>3 DEF Decide
<1>7. u > 0 /\ q = IF Fractional THEN u \div price ELSE 2 * (u \div (2 * price))
  <2>1. EntryOrder(s, t, price, hours, power) =
          IF h >= 2 * MaxPositionUsd \/ hours.closing \/ u <= 0 THEN 0
          ELSE IF Fractional THEN u \div price ELSE 2 * (u \div (2 * price))
    BY <1>2 DEF EntryOrder
  <2>2. ~(h >= 2 * MaxPositionUsd \/ hours.closing \/ u <= 0)
    BY <1>3, <1>6, <2>1
  <2> QED BY <1>5, <1>6, <2>1, <2>2
<1>8. q \in Nat /\ q * price <= u
  <2>1. u \in Nat /\ price \in Nat \ {0}
    BY <1>1, <1>5, <1>7
  <2>2. u \div price \in Nat /\ (u \div price) * price <= u
    BY <2>1, BuyBelow
  <2>3. 2 * (u \div (2 * price)) \in Nat /\ (2 * (u \div (2 * price))) * price <= u
    BY <2>1, BuyWholeBelow
  <2> QED BY <1>7, <2>2, <2>3, Zenon
<1>9. (n + q) * price = n * price + q * price /\ n * price \in Int /\ q * price \in Int
  BY <1>1, <1>8
<1>10. PICK x, y, z : x = n * price /\ y = q * price /\ z = (n + q) * price
  OBVIOUS
<1>11. x \in Int /\ y \in Int /\ z = x + y /\ x <= h /\ y <= u
  BY <1>4, <1>8, <1>9, <1>10
<1>12. z <= 2 * MaxPositionUsd
  BY <1>1, <1>4, <1>5, <1>11
<1> QED BY <1>2, <1>10, <1>12

\* A sell is for what the tick read as held.
LEMMA SellIsHeld ==
    ASSUME NEW t, NEW s \in Stocks, t.held[s] \in Int, NEW price, NEW hours, NEW power,
           Decide("sell", s, t, price, hours, power) > 0
    PROVE  Decide("sell", s, t, price, hours, power) = t.held[s]
  BY DEF Decide, ExitOrder

\* A tick reads what is held.
LEMMA StartStep == ASSUME StockInv, StartEquityTick PROVE StockInv'
<1>1. PICK t : t = [left |-> Stocks, held |-> shares, opened |-> kept.opened,
                    dayTrades |-> kept.dayTrades, sent |-> FALSE,
                    waiting |-> {<<o.stock, o.side>> : o \in resting}]
  OBVIOUS
<1>2. /\ etick' = <<t>> /\ UNCHANGED <<shares, resting, crossed, capBroken>>
      /\ t.left = Stocks /\ t.held = shares /\ t.waiting = {<<o.stock, o.side>> : o \in resting}
  BY <1>1 DEF StartEquityTick, market
<1>3. StockTick(t) /\ StockTick(t)'
  BY <1>1, <1>2 DEF StockTick, StockInv
<1>4. ASSUME NEW s \in Stocks, NEW side \in OrderSides, <<s, side>> \notin t.waiting
      PROVE  /\ \A o \in resting : ~(o.stock = s /\ o.side = side)
             /\ t.held[s] <= shares[s] /\ shares[s] <= t.held[s]
  <2>1. \A o \in resting : ~(o.stock = s /\ o.side = side)
    BY <1>2, <1>4
  <2>2. t.held[s] = shares[s] /\ shares[s] \in Int
    BY <1>2 DEF StockInv
  <2> QED BY <2>1, <2>2
<1>5. Fresh(t)'
  BY <1>2, <1>4 DEF Fresh
<1> QED BY <1>2, <1>3, <1>5 DEF StockInv, OrderOK, SellsCovered, Sells, OneEach, PositionCapHolds

\* Passing over a stock keeps it.
LEMMA PassStep == ASSUME StockInv, NEW s \in Stocks, PassStock(s) PROVE StockInv'
<1>1. PICK t : etick = <<t>> /\ StockTick(t) /\ Fresh(t)
  BY DEF StockInv, PassStock, StockInTurn
<1>2. PICK u : u = [t EXCEPT !.left = @ \ {s}]
  OBVIOUS
<1>3. /\ etick' = <<u>> /\ UNCHANGED <<shares, resting, capBroken, crossed>>
      /\ StockTick(u) /\ u.left \subseteq t.left /\ u.held = t.held /\ u.waiting = t.waiting
  BY <1>1, <1>2 DEF PassStock, NextStock, market, StockTick
<1>4. Fresh(u)'
  BY <1>1, <1>3 DEF Fresh
<1>5. StockTick(u)'
  BY <1>3 DEF StockTick
<1> QED BY <1>3, <1>4, <1>5 DEF StockInv, OrderOK, SellsCovered, Sells, OneEach, PositionCapHolds

\* What an order crosses is on record: a sell on top of no other is covered, a buy on top of
\* no other is below the cap.
LEMMA TradeStep ==
    ASSUME StockInv, NEW s \in Stocks, NEW side \in OrderSides, NEW price \in StockPrices,
           NEW hours \in Sessions, NEW power \in {1, PerTradeUsd}, NEW outcome \in Places,
           TradeStock(s, side, price, hours, power, outcome)
    PROVE  StockInv'
<1>1. PICK t : etick = <<t>> /\ StockTick(t) /\ Fresh(t) /\ s \in t.left
  BY DEF StockInv, TradeStock, StockInTurn
<1>2. PICK q, w, u, o :
          /\ q = Decide(side, s, t, price, hours, power)
          /\ w = IF outcome.ok THEN Note(t, side, s) ELSE t
          /\ u = [NextStock(w, s) EXCEPT !.sent = TRUE]
          /\ o = Order(s, side, q)
  OBVIOUS
<1>3. /\ q > 0 /\ UNCHANGED shares /\ etick' = <<u>>
      /\ resting' = IF outcome.landed THEN resting \union {o} ELSE resting
      /\ crossed' = IF outcome.landed THEN crossed \union Crossing(t, s, side) ELSE crossed
      /\ capBroken' = IF outcome.landed /\ side = "buy" /\ (shares[s] + q) * price > 2 * MaxPositionUsd
                      THEN capBroken \union {s} ELSE capBroken
  BY <1>1, <1>2 DEF TradeStock
<1>4. DOMAIN w = DOMAIN t /\ w.left = t.left /\ w.held = t.held /\ w.waiting = t.waiting
  BY <1>1, <1>2 DEF Note, NoteBuy, NoteSell, StockTick
<1>5. StockTick(u) /\ u.left = t.left \ {s} /\ u.held = t.held /\ u.waiting = t.waiting
  BY <1>1, <1>2, <1>4 DEF NextStock, StockTick
<1>6. o.stock = s /\ o.side = side /\ o.qty = q
  BY <1>2 DEF Order
<1>7. StockTick(u)'
  BY <1>5 DEF StockTick
<1>8. t.held[s] \in Int /\ shares[s] \in Int /\ power \in Nat /\ price \in Nat /\ MaxPositionUsd \in Nat
  BY <1>1, EquityConstants DEF StockInv, StockTick
<1>9. q \in Nat
  <2>1. q \in Int
    BY <1>2, <1>3, <1>8, OrderedWhole DEF OrderSides
  <2> QED BY <1>3, <2>1
<1>10. \A other \in OrderSides : outcome.landed /\ <<s, other>> \in t.waiting => <<s, side, other>> \in crossed'
  BY <1>3 DEF Crossing
<1>11. crossed \subseteq crossed'
  BY <1>3
<1>12. \A p \in resting' : OrderOK(p)'
  BY <1>3, <1>6, <1>9 DEF StockInv, OrderOK
<1>13. Fresh(u)'
  <2> SUFFICES ASSUME NEW x \in u.left, NEW other \in OrderSides, <<x, other>> \notin u.waiting
               PROVE  /\ \A p \in resting' : ~(p.stock = x /\ p.side = other)
                      /\ other = "sell" => u.held[x] <= shares[x]
                      /\ other = "buy" => shares[x] <= u.held[x]
    BY <1>3 DEF Fresh
  <2>1. x \in t.left /\ x # s /\ <<x, other>> \notin t.waiting
    BY <1>5
  <2> QED BY <1>1, <1>3, <1>5, <1>6, <2>1 DEF Fresh
<1>14. ASSUME NEW x \in Stocks PROVE SellsCovered(x)'
  <2>1. SellsCovered(x)
    BY DEF StockInv
  <2>2. CASE <<x, "sell", "sell">> \in crossed'
    BY <2>2 DEF SellsCovered
  <2>3. CASE <<x, "sell", "sell">> \notin crossed' /\ ~(outcome.landed /\ x = s /\ side = "sell")
    <3>1. Sells(x)' = Sells(x)
      <4>1. outcome.landed => ~(o.stock = x /\ o.side = "sell")
        BY <1>6, <2>3
      <4> QED BY <1>3, <4>1 DEF Sells
    <3>2. <<x, "sell", "sell">> \notin crossed
      BY <1>11, <2>3
    <3> QED BY <1>3, <2>1, <3>1, <3>2 DEF SellsCovered
  <2>4. CASE <<x, "sell", "sell">> \notin crossed' /\ outcome.landed /\ x = s /\ side = "sell"
    <3>1. <<s, "sell">> \notin t.waiting
      BY <1>10, <2>4 DEF OrderSides
    <3>2. (\A p \in resting : ~(p.stock = s /\ p.side = "sell")) /\ t.held[s] <= shares[s]
      BY <1>1, <3>1 DEF Fresh, OrderSides
    <3>3. q = t.held[s]
      BY <1>2, <1>3, <1>8, <2>4, SellIsHeld
    <3>4. Sells(s)' = {o}
      BY <1>3, <1>6, <2>4, <3>2 DEF Sells
    <3>5. o.qty <= shares[s] /\ shares[s] >= 0
      BY <1>3, <1>6, <1>8, <1>9, <3>2, <3>3
    <3> QED BY <1>3, <2>4, <3>4, <3>5 DEF SellsCovered
  <2> QED BY <2>2, <2>3, <2>4
<1>15. OneEach'
  <2> SUFFICES ASSUME crossed' = {} PROVE \A p, r \in resting' : p.stock = r.stock => p = r
    BY DEF OneEach
  <2>1. \A p, r \in resting : p.stock = r.stock => p = r
    BY <1>11 DEF StockInv, OneEach
  <2>2. outcome.landed => \A p \in resting : p.stock # s
    <3> SUFFICES ASSUME outcome.landed, NEW p \in resting, p.stock = s PROVE FALSE
      OBVIOUS
    <3>1. p.side \in OrderSides
      BY DEF StockInv, OrderOK
    <3>2. <<s, p.side>> \notin t.waiting
      BY <1>10, <3>1
    <3> QED BY <1>1, <3>1, <3>2 DEF Fresh
  <2> QED BY <1>3, <1>6, <2>1, <2>2
<1>16. PositionCapHolds'
  <2>1. \A x \in capBroken : <<x, "buy", "buy">> \in crossed'
    BY <1>11 DEF StockInv, PositionCapHolds
  <2>2. CASE capBroken' = capBroken
    BY <2>1, <2>2 DEF PositionCapHolds
  <2>3. CASE capBroken' # capBroken
    <3>1. /\ outcome.landed /\ side = "buy" /\ (shares[s] + q) * price > 2 * MaxPositionUsd
          /\ capBroken' = capBroken \union {s}
      BY <1>3, <2>3
    <3>2. ASSUME <<s, "buy">> \notin t.waiting PROVE FALSE
      <4>1. shares[s] <= t.held[s]
        BY <1>1, <3>2 DEF Fresh, OrderSides
      <4>2. (shares[s] + q) * price <= 2 * MaxPositionUsd
        BY <1>2, <1>3, <1>8, <3>1, <4>1, BuyBounds
      <4>3. PICK z : z = (shares[s] + q) * price
        OBVIOUS
      <4>4. z \in Int
        BY <1>8, <1>9, <4>3
      <4>5. z <= 2 * MaxPositionUsd /\ z > 2 * MaxPositionUsd
        BY <3>1, <4>2, <4>3, Zenon
      <4> QED BY <1>8, <4>4, <4>5
    <3>3. <<s, "buy", "buy">> \in crossed'
      BY <1>10, <3>1, <3>2 DEF OrderSides
    <3> QED BY <2>1, <3>1, <3>3 DEF PositionCapHolds
  <2> QED BY <2>2, <2>3
<1>17. shares' \in [Stocks -> Int]
  BY <1>3 DEF StockInv
<1> QED BY <1>3, <1>7, <1>12, <1>13, <1>14, <1>15, <1>16, <1>17 DEF StockInv

\* A fill takes no more than is held, of a stock with one sell at most.
LEMMA FillStep == ASSUME StockInv, NEW o \in resting, FillOrder(o) PROVE StockInv'
<1>1. PICK a : a = IF o.side = "buy" THEN shares[o.stock] + o.qty ELSE shares[o.stock] - o.qty
  OBVIOUS
<1>2. /\ resting' = resting \ {o} /\ shares' = [shares EXCEPT ![o.stock] = a]
      /\ UNCHANGED <<etick, crossed, capBroken>>
  BY <1>1 DEF FillOrder
<1>3. /\ o.stock \in Stocks /\ o.qty \in Nat /\ o.side \in OrderSides
      /\ shares \in [Stocks -> Int] /\ a \in Int
  BY <1>1 DEF StockInv, OrderOK
<1>4. /\ shares' \in [Stocks -> Int] /\ shares'[o.stock] = a
      /\ \A x \in Stocks : x # o.stock => shares'[x] = shares[x]
  BY <1>2, <1>3
<1>5. ASSUME NEW x \in Stocks PROVE SellsCovered(x)'
  <2>1. SellsCovered(x) /\ Sells(x)' = Sells(x) \ {o} /\ crossed' = crossed
    BY <1>2 DEF StockInv, Sells
  <2>2. CASE <<x, "sell", "sell">> \in crossed
    BY <2>1, <2>2 DEF SellsCovered
  <2>3. CASE <<x, "sell", "sell">> \notin crossed
    <3>1. /\ shares[x] \in Int /\ shares[x] >= 0 /\ \A p \in Sells(x) : p.qty <= shares[x]
          /\ \A p, r \in Sells(x) : p = r
      BY <1>3, <2>1, <2>3 DEF SellsCovered
    <3>2. CASE o.stock # x
      <4>1. shares'[x] = shares[x]
        BY <1>4, <3>2
      <4> QED BY <2>1, <3>1, <4>1 DEF SellsCovered
    <3>3. CASE o.stock = x /\ o.side = "buy"
      <4>1. shares'[x] = shares[x] + o.qty
        BY <1>1, <1>4, <3>3
      <4>2. \A p \in Sells(x) : p.qty \in Nat
        BY DEF StockInv, OrderOK, Sells
      <4> QED BY <1>3, <2>1, <3>1, <4>1, <4>2 DEF SellsCovered
    <3>4. CASE o.stock = x /\ o.side = "sell"
      <4>1. o \in Sells(x) /\ shares'[x] = shares[x] - o.qty
        BY <1>1, <1>4, <3>4 DEF Sells
      <4>2. Sells(x)' = {} /\ shares'[x] >= 0
        BY <1>3, <2>1, <3>1, <4>1
      <4> QED BY <4>2 DEF SellsCovered
    <3> QED BY <1>3, <3>2, <3>3, <3>4 DEF OrderSides
  <2> QED BY <2>2, <2>3
<1>6. ASSUME NEW t, StockTick(t), Fresh(t) PROVE StockTick(t)' /\ Fresh(t)'
  <2>1. StockTick(t)'
    BY <1>6 DEF StockTick
  <2>2. ASSUME NEW s \in t.left, NEW side \in OrderSides, <<s, side>> \notin t.waiting
        PROVE  /\ \A p \in resting' : ~(p.stock = s /\ p.side = side)
               /\ side = "sell" => t.held[s] <= shares'[s]
               /\ side = "buy" => shares'[s] <= t.held[s]
    <3>1. /\ \A p \in resting : ~(p.stock = s /\ p.side = side)
          /\ side = "sell" => t.held[s] <= shares[s]
          /\ side = "buy" => shares[s] <= t.held[s]
      BY <1>6, <2>2 DEF Fresh
    <3>2. s \in Stocks /\ t.held[s] \in Int /\ shares[s] \in Int
      BY <1>3, <1>6 DEF StockTick
    <3>3. CASE o.stock # s
      BY <1>2, <1>4, <3>1, <3>2, <3>3
    <3>4. CASE o.stock = s
      <4>1. o.side # side
        BY <3>1, <3>4
      <4>2. /\ side = "sell" => shares'[s] = shares[s] + o.qty
            /\ side = "buy" => shares'[s] = shares[s] - o.qty
        BY <1>1, <1>3, <1>4, <3>4, <4>1 DEF OrderSides
      <4> QED BY <1>2, <1>3, <3>1, <3>2, <4>2
    <3> QED BY <3>3, <3>4
  <2> QED BY <2>1, <2>2 DEF Fresh
<1>7. (etick = <<>> \/ \E t : etick = <<t>> /\ StockTick(t) /\ Fresh(t))'
  BY <1>2, <1>6 DEF StockInv
<1>8. OneEach' /\ PositionCapHolds' /\ \A p \in resting' : OrderOK(p)'
  BY <1>2 DEF StockInv, OneEach, PositionCapHolds, OrderOK
<1> QED BY <1>4, <1>5, <1>7, <1>8 DEF StockInv

\* An order that is dropped keeps it.
LEMMA DropStep == ASSUME StockInv, NEW o \in resting, DropOrder(o) PROVE StockInv'
<1>1. /\ resting' = resting \ {o} /\ UNCHANGED <<shares, etick, crossed, capBroken>>
  BY DEF DropOrder
<1>2. \A t : StockTick(t) => StockTick(t)'
  BY DEF StockTick
<1>3. \A t : Fresh(t) => Fresh(t)'
  BY <1>1 DEF Fresh
<1>4. \A s \in Stocks : SellsCovered(s) => SellsCovered(s)'
  BY <1>1 DEF SellsCovered, Sells
<1> QED BY <1>1, <1>2, <1>3, <1>4 DEF StockInv, OrderOK, OneEach, PositionCapHolds

\* The end of a tick, however it comes, and time keep it.
LEMMA TickEndStep ==
    ASSUME StockInv,
           \/ \E f \in BOOLEAN : FinishEquityTick(f)
           \/ EquityTickLost \/ SwitchEquities \/ NextDayPart \/ NextTradingDay
    PROVE  StockInv'
<1>1. etick' \in {<<>>, etick} /\ UNCHANGED <<shares, resting, crossed, capBroken>>
  BY DEF FinishEquityTick, EquityTickLost, SwitchEquities, NextDayPart, NextTradingDay, market
<1>2. \A s \in Stocks : SellsCovered(s) => SellsCovered(s)'
  BY <1>1 DEF SellsCovered, Sells
<1>3. \A t : (StockTick(t) => StockTick(t)') /\ (Fresh(t) => Fresh(t)')
  BY <1>1 DEF StockTick, Fresh
<1> QED BY <1>1, <1>2, <1>3 DEF StockInv, OrderOK, OneEach, PositionCapHolds

\* No step breaks the invariant of the stocks.
LEMMA StockMoves == StockInv /\ [EquityNext]_equityVars => StockInv'
<1> SUFFICES ASSUME StockInv, [EquityNext]_equityVars PROVE StockInv'
  OBVIOUS
<1>1. CASE UNCHANGED equityVars
  <2>1. UNCHANGED <<shares, resting, crossed, capBroken, etick>>
    BY <1>1 DEF equityVars, market
  <2>2. \A s \in Stocks : SellsCovered(s) => SellsCovered(s)'
    BY <2>1 DEF SellsCovered, Sells
  <2>3. \A t : (StockTick(t) => StockTick(t)') /\ (Fresh(t) => Fresh(t)')
    BY <2>1 DEF StockTick, Fresh
  <2> QED BY <2>1, <2>2, <2>3 DEF StockInv, OrderOK, OneEach, PositionCapHolds
<1>2. CASE EquityNext
  BY <1>2, StartStep, PassStep, TradeStep, FillStep, DropStep, TickEndStep DEF EquityNext
<1> QED BY <1>1, <1>2

\* It is enough.
LEMMA StockInvKeeps == StockInv => NeverShort /\ PositionCapHolds
  BY DEF StockInv, SellsCovered, NeverShort

\* For any watchlist, prices, sessions, lost or false answers and lost ticks: a stock is sold
\* short only by a sell on top of a sell of it that was unfilled when the tick began, and taken
\* over the cap only by a buy on top of such a buy.
THEOREM StocksAreCovered == EquitySpec => [](NeverShort /\ PositionCapHolds)
<1>1. EquitySpec => []StockInv
  BY StockStarts, StockMoves, PTL DEF EquitySpec
<1> QED BY <1>1, StockInvKeeps, PTL

-----------------------------------------------------------------------------
(* The charts.  A fetch is known by the chart it was started for, and no two*)
(* charts have a number in common.                                          *)

\* Frames of the present chart that were fetched, were fetched after it came to be.
ChartInv ==
    /\ charts \in Nat /\ chartNow \in Nat
    /\ DOMAIN chart = DOMAIN NoChart /\ chart.id \in 0 .. charts
    /\ chart.born \in Nat /\ chart.born <= chartNow
    /\ \A b \in boots :
          /\ DOMAIN b = {"id", "read", "bars"} /\ b.id \in 1 .. charts /\ b.read \in [Frames -> Int]
          /\ b.id = chart.id => \A f \in Frames : b.read[f] = -1 \/ b.read[f] >= chart.born
    /\ OwnCandles

\* There is no chart.
LEMMA ChartsStart == ChartsInit => ChartInv
<1> SUFFICES ASSUME ChartsInit PROVE ChartInv
  OBVIOUS
<1>1. ChartBegin \in Nat
  BY ChartConstants
<1>2. chart = NoChart /\ boots = {} /\ chartNow = ChartBegin /\ charts = 0
  BY DEF ChartsInit
<1> QED BY <1>1, <1>2 DEF ChartInv, OwnCandles, NoChart

\* A poll makes a chart with its own fetch, or goes on with the one there is.
LEMMA PollStep == ASSUME ChartInv, PollMarket PROVE ChartInv'
<1>1. chartNow' = chartNow + 1
  BY DEF PollMarket
<1>2. CASE UNCHANGED <<chart, boots, charts, watched>>
  BY <1>1, <1>2 DEF ChartInv, OwnCandles
<1>3. CASE ~UNCHANGED <<chart, boots, charts, watched>>
  <2>1. PICK ts, c :
          /\ EnsureChart /\ chart' = Updated(c, ts)
          /\ c = IF chart.phase # "none" THEN chart
                 ELSE [NoChart EXCEPT !.phase = "fetching", !.id = charts', !.born = chartNow]
    BY <1>3 DEF PollMarket
  <2>2. ASSUME DOMAIN c = DOMAIN NoChart
        PROVE  /\ DOMAIN chart' = DOMAIN NoChart /\ chart'.id = c.id /\ chart'.born = c.born
               /\ chart'.read = c.read /\ chart'.phase = c.phase
    BY <2>1, <2>2 DEF Updated, NoChart
  <2>3. CASE chart.phase # "none"
    <3>1. c = chart /\ UNCHANGED <<boots, charts>>
      BY <2>1, <2>3 DEF EnsureChart
    <3>2. DOMAIN chart = DOMAIN NoChart
      BY DEF ChartInv
    <3> QED BY <1>1, <2>2, <3>1, <3>2 DEF ChartInv, OwnCandles
  <2>4. CASE chart.phase = "none"
    <3>1. PICK b : b = [id |-> charts', read |-> Unread, bars |-> NoBars]
      OBVIOUS
    <3>2. charts' = charts + 1 /\ boots' = boots \union {b}
      BY <2>1, <2>4, <3>1 DEF EnsureChart
    <3>3. /\ DOMAIN b = {"id", "read", "bars"} /\ b.id = charts' /\ b.read \in [Frames -> Int]
          /\ \A f \in Frames : b.read[f] = -1
      BY <3>1 DEF Unread
    <3>4. DOMAIN c = DOMAIN NoChart /\ c.id = charts' /\ c.born = chartNow /\ c.phase = "fetching"
      BY <2>1, <2>4 DEF NoChart
    <3>5. DOMAIN chart' = DOMAIN NoChart /\ chart'.id = charts' /\ chart'.born = chartNow /\ chart'.phase = "fetching"
      BY <2>2, <3>4
    <3> QED BY <1>1, <3>2, <3>3, <3>5 DEF ChartInv, OwnCandles
  <2> QED BY <2>3, <2>4
<1> QED BY <1>2, <1>3

\* An answer is read now, and the chart it is for came to be before.
LEMMA FrameStep == ASSUME ChartInv, NEW b \in boots, NEW f \in Frames, FrameAnswered(b, f) PROVE ChartInv'
<1>1. PICK answer : boots' = (boots \ {b}) \union {[b EXCEPT !.read[f] = chartNow, !.bars[f] = answer]}
  BY DEF FrameAnswered
<1>2. PICK d : d = [b EXCEPT !.read[f] = chartNow, !.bars[f] = answer]
  OBVIOUS
<1>3. DOMAIN b = {"id", "read", "bars"} /\ b.read \in [Frames -> Int] /\ chartNow \in Int
  BY DEF ChartInv
<1>4. /\ DOMAIN d = {"id", "read", "bars"} /\ d.id = b.id
      /\ d.read = [b.read EXCEPT ![f] = chartNow]
  BY <1>2, <1>3
<1>5. d.read \in [Frames -> Int] /\ \A g \in Frames : d.read[g] = chartNow \/ d.read[g] = b.read[g]
  BY <1>3, <1>4
<1>6. UNCHANGED <<chart, charts, chartNow>> /\ boots' = (boots \ {b}) \union {d}
  BY <1>1, <1>2 DEF FrameAnswered
<1> QED BY <1>4, <1>5, <1>6 DEF ChartInv, OwnCandles

\* The end of a fetch reaches the chart it was started for, or none.
LEMMA BootStep == ASSUME ChartInv, NEW b \in boots, BootEnds(b) PROVE ChartInv'
<1>1. boots' = boots \ {b} /\ UNCHANGED <<chartNow, charts>> /\ \A f \in Frames : b.read[f] # -1
  BY DEF BootEnds
<1>2. CASE chart.id # b.id
  BY <1>1, <1>2 DEF BootEnds, ChartInv, OwnCandles
<1>3. CASE chart.id = b.id
  <2>1. chart' = [chart EXCEPT !.phase = "ready", !.pending = <<>>,
                     !.bars = ApplyAll(b.bars, chart.pending), !.read = b.read]
    BY <1>3 DEF BootEnds
  <2>2. DOMAIN chart = DOMAIN NoChart
    BY DEF ChartInv
  <2>3. DOMAIN chart' = DOMAIN NoChart /\ chart'.id = chart.id /\ chart'.born = chart.born /\ chart'.read = b.read
    BY <2>1, <2>2 DEF NoChart
  <2>4. \A f \in Frames : b.read[f] >= chart.born
    BY <1>1, <1>3 DEF ChartInv
  <2> QED BY <1>1, <2>3, <2>4 DEF ChartInv, OwnCandles
<1> QED BY <1>2, <1>3

\* Charts that are dropped or restored have no fetch.
LEMMA ResetStep == ASSUME ChartInv, PruneChart \/ RestartCharts \/ \E u \in ChartUsers : FlushCache(u) \/ FirstTick(u)
                   PROVE  ChartInv'
<1>1. UNCHANGED <<chartNow, charts>> /\ boots' \subseteq boots
  BY DEF PruneChart, RestartCharts, FlushCache, FirstTick
<1>2. CASE UNCHANGED chart
  BY <1>1, <1>2 DEF ChartInv, OwnCandles
<1>3. CASE ~UNCHANGED chart
  <2>1. chart' = NoChart \/ \E old : chart' = RestoredChart(old)
    BY <1>3 DEF PruneChart, RestartCharts, FlushCache, FirstTick
  <2>2. DOMAIN chart' = DOMAIN NoChart /\ chart'.id = 0 /\ chart'.born \in {0, chartNow}
    <3>1. CASE chart' = NoChart
      BY <3>1 DEF NoChart
    <3>2. ASSUME NEW old, chart' = RestoredChart(old), chart' # NoChart
          PROVE  DOMAIN chart' = DOMAIN NoChart /\ chart'.id = 0 /\ chart'.born = chartNow
      <4>1. chart' = [NoChart EXCEPT !.phase = "ready", !.bars = old.bars, !.born = chartNow]
        BY <3>2 DEF RestoredChart
      <4> QED BY <4>1 DEF NoChart
    <3> QED BY <2>1, <3>1, <3>2
  <2> QED BY <1>1, <2>2 DEF ChartInv, OwnCandles
<1> QED BY <1>2, <1>3

\* No step breaks the invariant of the charts.
LEMMA ChartStep == ChartInv /\ [ChartsNext]_chartVars => ChartInv'
<1> SUFFICES ASSUME ChartInv, [ChartsNext]_chartVars PROVE ChartInv'
  OBVIOUS
<1>1. CASE UNCHANGED chartVars
  BY <1>1 DEF chartVars, ChartInv, OwnCandles
<1>2. CASE ChartsNext
  BY <1>2, PollStep, FrameStep, BootStep, ResetStep DEF ChartsNext
<1> QED BY <1>1, <1>2

\* However polls, answers, prunes, restarts and other users' first ticks interleave, a chart
\* never holds candles that were fetched for an earlier chart of its market.
THEOREM ChartsAreTheirOwn == ChartsSpec => []OwnCandles
<1>1. ChartsSpec => []ChartInv
  BY ChartsStart, ChartStep, PTL DEF ChartsSpec
<1>2. ChartInv => OwnCandles
  BY DEF ChartInv
<1> QED BY <1>1, <1>2, PTL

-----------------------------------------------------------------------------
(* The verdicts.  The signal is the first of the candidates with the highest*)
(* score (BestIs), a candidate is of a regime that allows it, and a long    *)
(* trend outscores a breakdown only with the hour and the EMAs on its side  *)
(* (LongTrendIs, BreaksIs).                                                 *)

\* The first of the highest scores.
FirstBest(cs, n, i) == /\ i \in 1 .. n
                   /\ \A j \in 1 .. n : cs[j].score < cs[i].score \/ (cs[j].score = cs[i].score /\ i <= j)

\* Of one candidate more.
LEMMA FirstNext ==
    ASSUME NEW cs, NEW n \in Nat, \A i \in 1 .. n + 1 : cs[i].score \in Int, \E i : FirstBest(cs, n, i)
    PROVE  \E i : FirstBest(cs, n + 1, i)
<1>1. PICK i : FirstBest(cs, n, i)
  OBVIOUS
<1>2. CASE cs[n + 1].score > cs[i].score
  <2>1. FirstBest(cs, n + 1, n + 1)
    BY <1>1, <1>2 DEF FirstBest
  <2> QED BY <2>1
<1>3. CASE ~(cs[n + 1].score > cs[i].score)
  <2>1. FirstBest(cs, n + 1, i)
    BY <1>1, <1>3 DEF FirstBest
  <2> QED BY <2>1
<1> QED BY <1>2, <1>3

\* The best is the first of the highest score.
LEMMA BestIs ==
    ASSUME NEW cs, NEW n \in 1 .. 5, DOMAIN cs = 1 .. n, \A i \in 1 .. n : cs[i].score \in Int
    PROVE  \E i \in 1 .. n : Best(cs) = cs[i] /\ FirstBest(cs, n, i)
<1>1. \E i : FirstBest(cs, 1, i)
  <2>1. FirstBest(cs, 1, 1)
    BY DEF FirstBest
  <2> QED BY <2>1
<1>2. n >= 2 => \E i : FirstBest(cs, 2, i)
  BY <1>1, FirstNext, 1 + 1 = 2
<1>3. n >= 3 => \E i : FirstBest(cs, 3, i)
  BY <1>2, FirstNext, 2 + 1 = 3
<1>4. n >= 4 => \E i : FirstBest(cs, 4, i)
  BY <1>3, FirstNext, 3 + 1 = 4
<1>5. n >= 5 => \E i : FirstBest(cs, 5, i)
  BY <1>4, FirstNext, 4 + 1 = 5
<1>6. PICK i : FirstBest(cs, n, i)
  BY <1>1, <1>2, <1>3, <1>4, <1>5
<1> DEFINE first(k) == \A j \in DOMAIN cs : cs[j].score < cs[k].score \/ (cs[j].score = cs[k].score /\ k <= j)
<1>7. i \in DOMAIN cs /\ first(i)
  BY <1>6 DEF FirstBest
<1>8. (CHOOSE k \in DOMAIN cs : first(k)) \in DOMAIN cs /\ first(CHOOSE k \in DOMAIN cs : first(k))
  BY <1>7
<1>9. PICK k : k = CHOOSE x \in DOMAIN cs : first(x)
  OBVIOUS
<1>10. Best(cs) = cs[k] /\ FirstBest(cs, n, k) /\ k \in 1 .. n
  BY <1>8, <1>9 DEF Best, FirstBest
<1> QED BY <1>10

Setups == {"long_trend_continuation", "short_trend_continuation", "long_mean_reversion",
           "short_mean_reversion", "breakout", "breakdown"}
Cands == [direction : {"long", "short"}, setup : Setups, score : Int]
Among(x, cs) == \E i \in 1 .. Len(cs) : cs[i] = x

\* What two lists hold, one after the other.
LEMMA AmongConcat ==
    ASSUME NEW s \in Seq(Cands), NEW t \in Seq(Cands)
    PROVE  /\ s \o t \in Seq(Cands) /\ Len(s \o t) = Len(s) + Len(t)
           /\ \A x : Among(x, s \o t) <=> (Among(x, s) \/ Among(x, t))
<1>1. PICK u : u = s \o t
  OBVIOUS
<1>2. /\ u \in Seq(Cands) /\ Len(u) = Len(s) + Len(t)
      /\ \A i \in 1 .. Len(s) + Len(t) : u[i] = IF i <= Len(s) THEN s[i] ELSE t[i - Len(s)]
      /\ Len(s) \in Nat /\ Len(t) \in Nat
  BY <1>1, ConcatProperties
<1>3. ASSUME NEW x PROVE Among(x, u) <=> (Among(x, s) \/ Among(x, t))
  <2>1. ASSUME Among(x, u) PROVE Among(x, s) \/ Among(x, t)
    <3>1. PICK i \in 1 .. Len(u) : u[i] = x
      BY <2>1 DEF Among
    <3>2. CASE i <= Len(s)
      BY <1>2, <3>1, <3>2 DEF Among
    <3>3. CASE ~(i <= Len(s))
      <4>1. i - Len(s) \in 1 .. Len(t) /\ t[i - Len(s)] = x
        BY <1>2, <3>1, <3>3
      <4> QED BY <4>1 DEF Among
    <3> QED BY <3>2, <3>3
  <2>2. ASSUME Among(x, s) PROVE Among(x, u)
    BY <1>2, <2>2 DEF Among
  <2>3. ASSUME Among(x, t) PROVE Among(x, u)
    <3>1. PICK i \in 1 .. Len(t) : t[i] = x
      BY <2>3 DEF Among
    <3>2. PICK k : k = Len(s) + i
      OBVIOUS
    <3>3. k \in 1 .. Len(s) + Len(t) /\ ~(k <= Len(s)) /\ k - Len(s) = i
      BY <1>2, <3>1, <3>2
    <3>4. u[k] = t[i]
      BY <1>2, <3>3
    <3> QED BY <1>2, <3>1, <3>3, <3>4 DEF Among
  <2> QED BY <2>1, <2>2, <2>3
<1> QED BY <1>1, <1>2, <1>3

\* One candidate or none.
Single(cs, c, holds) == cs = IF holds THEN <<c>> ELSE <<>>

\* What a list of at most one holds.
LEMMA SingleIs ==
    ASSUME NEW cs, NEW c \in Cands, NEW holds, Single(cs, c, holds)
    PROVE  /\ cs \in Seq(Cands) /\ Len(cs) \in 0 .. 1
           /\ \A x : Among(x, cs) <=> (x = c /\ holds)
<1>1. CASE holds
  BY <1>1 DEF Single, Among
<1>2. CASE ~holds
  BY <1>2 DEF Single, Among
<1> QED BY <1>1, <1>2

\* A candidate, whose score is at most its points.
LEMMA CandidateIs ==
    ASSUME NEW d \in {"long", "short"}, NEW setup \in Setups, NEW n \in Int
    PROVE  /\ Candidate(d, setup, n) \in Cands /\ Candidate(d, setup, n).score <= n
           /\ Candidate(d, setup, n).direction = d /\ Candidate(d, setup, n).setup = setup
  BY DEF Candidate, Cands

\* Points given or not.
LEMMA PointsInt == ASSUME NEW h, NEW n \in Nat PROVE Points(h, n) \in 0 .. n
  BY DEF Points

\* Without the hour or the EMAs on its side, and the RSI not rising, a long trend scores below 85.
LEMMA LongTrendIs ==
    ASSUME NEW r \in Reading
    PROVE  /\ LongTrend(r) \in Seq(Cands) /\ Len(LongTrend(r)) \in 0 .. 1
           /\ \A x : Among(x, LongTrend(r)) =>
                 /\ Regime(r) \in {"uptrend", "breakout_expansion"} /\ x.direction = "long"
                 /\ (r.bias # "bull" \/ r.aligned # "up") /\ r.rsiMoves # 1 => x.score < 85
<1>1. PICK n : n = Points(r.bias = "bull", 25) + Points(r.aligned = "up", 25) + Points(r.vwap = "above", 20)
             + Points(r.rsi \in {2, 3} /\ r.rsiMoves = 1, 10)
             + Points(r.momentum = 1 /\ r.line >= 0, 20)
             + Points(r.volume >= 1, 10) + Points(r.spreadOk, 5)
  OBVIOUS
<1>2. n \in Int
  BY <1>1, PointsInt
<1>3. (r.bias # "bull" \/ r.aligned # "up") /\ r.rsiMoves # 1 => n < 85
  <2>1. r.bias # "bull" => Points(r.bias = "bull", 25) = 0
    BY DEF Points
  <2>2. r.aligned # "up" => Points(r.aligned = "up", 25) = 0
    BY DEF Points
  <2>3. r.rsiMoves # 1 => Points(r.rsi \in {2, 3} /\ r.rsiMoves = 1, 10) = 0
    BY DEF Points
  <2> QED BY <1>1, <2>1, <2>2, <2>3, PointsInt
<1>4. PICK c : c = Candidate("long", "long_trend_continuation", n)
  OBVIOUS
<1>5. c \in Cands /\ c.score <= n /\ c.direction = "long" /\ c.score \in Int
  BY <1>2, <1>4, CandidateIs DEF Cands, Setups
<1>6. Single(LongTrend(r), c, Regime(r) \in {"uptrend", "breakout_expansion"} /\ r.confirm = "bull")
  BY <1>1, <1>4 DEF Single, LongTrend
<1>7. /\ LongTrend(r) \in Seq(Cands) /\ Len(LongTrend(r)) \in 0 .. 1
      /\ \A x : Among(x, LongTrend(r)) => x = c /\ Regime(r) \in {"uptrend", "breakout_expansion"}
  BY <1>5, <1>6, SingleIs
<1> QED BY <1>2, <1>3, <1>5, <1>7

\* A short trend is for a fall or a breakout.
LEMMA ShortTrendIs ==
    ASSUME NEW r \in Reading
    PROVE  /\ ShortTrend(r) \in Seq(Cands) /\ Len(ShortTrend(r)) \in 0 .. 1
           /\ \A x : Among(x, ShortTrend(r)) =>
                 /\ Regime(r) \in {"downtrend", "breakout_expansion"} /\ x.direction = "short"
                 /\ x.setup = "short_trend_continuation"
<1>1. PICK n : n = Points(r.bias = "bear", 25) + Points(r.aligned = "down", 25) + Points(r.vwap = "below", 20)
             + Points(r.rsi \in {3, 4} /\ r.rsiMoves = -1, 10)
             + Points(r.momentum = -1 /\ r.line <= 0, 20)
             + Points(r.volume >= 1, 10) + Points(r.spreadOk, 5)
  OBVIOUS
<1>2. n \in Int
  BY <1>1, PointsInt
<1>3. PICK c : c = Candidate("short", "short_trend_continuation", n)
  OBVIOUS
<1>4. c \in Cands /\ c.direction = "short" /\ c.setup = "short_trend_continuation"
  BY <1>2, <1>3, CandidateIs DEF Setups
<1>5. Single(ShortTrend(r), c, Regime(r) \in {"downtrend", "breakout_expansion"} /\ r.confirm = "bear")
  BY <1>1, <1>3 DEF Single, ShortTrend
<1> QED BY <1>4, <1>5, SingleIs

\* A long reversion is for a rise or a sideways market.
LEMMA LongMeanIs ==
    ASSUME NEW r \in Reading
    PROVE  /\ LongMean(r) \in Seq(Cands) /\ Len(LongMean(r)) \in 0 .. 1
           /\ \A x : Among(x, LongMean(r)) =>
                 Regime(r) \in {"sideways", "uptrend"} /\ x.direction = "long"
<1>1. PICK n : n = Points(r.bias # "bear", 20) + Points(r.rsi = 1 \/ (r.rsi = 2 /\ r.rsiMoves = 1), 20)
             + Points(r.momentum = 1, 15) + Points(r.vwap # "below" \/ r.last = "above", 20)
             + Points(r.atr >= 2, 10) + Points(r.volume >= 1, 10) + Points(r.spreadOk, 5)
  OBVIOUS
<1>2. n \in Int
  BY <1>1, PointsInt
<1>3. PICK c : c = Candidate("long", "long_mean_reversion", n)
  OBVIOUS
<1>4. c \in Cands /\ c.direction = "long"
  BY <1>2, <1>3, CandidateIs DEF Setups
<1>5. Single(LongMean(r), c, Regime(r) \in {"sideways", "uptrend"})
  BY <1>1, <1>3 DEF Single, LongMean
<1> QED BY <1>4, <1>5, SingleIs, ZenonT(60)

\* A short reversion is for a fall or a sideways market.
LEMMA ShortMeanIs ==
    ASSUME NEW r \in Reading
    PROVE  /\ ShortMean(r) \in Seq(Cands) /\ Len(ShortMean(r)) \in 0 .. 1
           /\ \A x : Among(x, ShortMean(r)) =>
                 Regime(r) \in {"sideways", "downtrend"} /\ x.direction = "short"
<1>1. PICK n : n = Points(r.bias # "bull", 20) + Points(r.rsi = 5 \/ (r.rsi = 4 /\ r.rsiMoves = -1), 20)
             + Points(r.momentum = -1, 15) + Points(r.vwap # "above" \/ r.last = "below", 20)
             + Points(r.atr >= 2, 10) + Points(r.volume >= 1, 10) + Points(r.spreadOk, 5)
  OBVIOUS
<1>2. n \in Int
  BY <1>1, PointsInt
<1>3. PICK c : c = Candidate("short", "short_mean_reversion", n)
  OBVIOUS
<1>4. c \in Cands /\ c.direction = "short"
  BY <1>2, <1>3, CandidateIs DEF Setups
<1>5. Single(ShortMean(r), c, Regime(r) \in {"sideways", "downtrend"})
  BY <1>1, <1>3 DEF Single, ShortMean
<1> QED BY <1>4, <1>5, SingleIs, ZenonT(60)

\* Volume and range beyond the hour's make a breakout of a market that moves enough.
LEMMA RegimeIs ==
    ASSUME NEW r \in Reading
    PROVE  /\ Regime(r) = "breakout_expansion" =>
                 r.atr = 3 /\ r.volume = 2 /\ r.range \in {"above", "top", "bottom", "below"}
           /\ r.atr = 3 /\ r.volume = 2 /\ r.range \in {"above", "below"} => Regime(r) = "breakout_expansion"
  BY DEF Regime, Reading

\* Breaks are for breakouts; one below the lows is a breakdown of 85.
LEMMA BreaksIs ==
    ASSUME NEW r \in Reading
    PROVE  /\ Breaks(r) \in Seq(Cands) /\ Len(Breaks(r)) \in 0 .. 1
           /\ \A x : Among(x, Breaks(r)) =>
                 /\ Regime(r) = "breakout_expansion"
                 /\ r.range = "below" => x.setup = "breakdown"
           /\ Regime(r) = "breakout_expansion" /\ r.range = "below" =>
                 \E x : Among(x, Breaks(r)) /\ x.score = 85
<1>1. PICK up, down : up = Candidate("long", "breakout", 85) /\ down = Candidate("short", "breakdown", 85)
  OBVIOUS
<1>2. up \in Cands /\ down \in Cands /\ down.setup = "breakdown" /\ down.score = 85
  BY <1>1 DEF Candidate, Cands, Setups
<1>3. CASE r.volume = 2 /\ r.atr = 3 /\ r.range = "above"
  <2>1. Single(Breaks(r), up, TRUE)
    BY <1>1, <1>3 DEF Single, Breaks
  <2> QED BY <1>2, <1>3, <2>1, SingleIs, RegimeIs
<1>4. CASE r.volume = 2 /\ r.atr = 3 /\ r.range = "below"
  <2>1. Single(Breaks(r), down, TRUE)
    BY <1>1, <1>4 DEF Single, Breaks
  <2>2. /\ Breaks(r) \in Seq(Cands) /\ Len(Breaks(r)) \in 0 .. 1
        /\ \A x : Among(x, Breaks(r)) <=> x = down
    BY <1>2, <2>1, SingleIs
  <2> QED BY <1>2, <1>4, <2>2, RegimeIs
<1>5. CASE ~(r.volume = 2 /\ r.atr = 3 /\ r.range \in {"above", "below"})
  <2>1. Single(Breaks(r), up, FALSE)
    BY <1>5 DEF Single, Breaks
  <2> QED BY <1>2, <1>5, <2>1, SingleIs, RegimeIs
<1> QED BY <1>3, <1>4, <1>5

\* At most one more.
LEMMA AddOne == ASSUME NEW n \in Nat, NEW i \in 0 .. n, NEW j \in 0 .. 1 PROVE i + j \in 0 .. n + 1
  OBVIOUS

\* The candidates are those of the regimes, at most five.
LEMMA CandidatesAre ==
    ASSUME NEW r \in Reading
    PROVE  /\ Candidates(r) \in Seq(Cands) /\ Len(Candidates(r)) \in 0 .. 5
           /\ \A x : Among(x, Candidates(r)) <=>
                 \/ Among(x, LongTrend(r)) \/ Among(x, ShortTrend(r))
                 \/ Among(x, LongMean(r)) \/ Among(x, ShortMean(r)) \/ Among(x, Breaks(r))
<1>1. PICK a, b, c : /\ a = LongTrend(r) \o ShortTrend(r) /\ b = a \o LongMean(r)
                     /\ c = b \o ShortMean(r)
  OBVIOUS
<1>2. Candidates(r) = c \o Breaks(r)
  BY <1>1 DEF Candidates
<1>3. /\ LongTrend(r) \in Seq(Cands) /\ Len(LongTrend(r)) \in 0 .. 1
      /\ ShortTrend(r) \in Seq(Cands) /\ Len(ShortTrend(r)) \in 0 .. 1
      /\ LongMean(r) \in Seq(Cands) /\ Len(LongMean(r)) \in 0 .. 1
      /\ ShortMean(r) \in Seq(Cands) /\ Len(ShortMean(r)) \in 0 .. 1
      /\ Breaks(r) \in Seq(Cands) /\ Len(Breaks(r)) \in 0 .. 1
  BY LongTrendIs, ShortTrendIs, LongMeanIs, ShortMeanIs, BreaksIs
<1>4. /\ a \in Seq(Cands) /\ Len(a) \in 0 .. 2
      /\ \A x : Among(x, a) <=> (Among(x, LongTrend(r)) \/ Among(x, ShortTrend(r)))
  <2>1. LongTrend(r) \in Seq(Cands) /\ ShortTrend(r) \in Seq(Cands) /\ Len(LongTrend(r)) \in 0 .. 1 /\ Len(ShortTrend(r)) \in 0 .. 1
    BY <1>3
  <2>2. a = LongTrend(r) \o ShortTrend(r)
    BY <1>1
  <2>3. a \in Seq(Cands) /\ \A x : Among(x, a) <=> (Among(x, LongTrend(r)) \/ Among(x, ShortTrend(r)))
    BY <2>1, <2>2, AmongConcat
  <2>4. Len(a) = Len(LongTrend(r)) + Len(ShortTrend(r))
    BY <2>1, <2>2, AmongConcat
  <2>5. Len(a) \in 0 .. 2
    BY <2>1, <2>4, AddOne, 1 + 1 = 2, 2 + 1 = 3, 3 + 1 = 4, 4 + 1 = 5, Zenon
  <2> QED BY <2>3, <2>5
<1>5. /\ b \in Seq(Cands) /\ Len(b) \in 0 .. 3
      /\ \A x : Among(x, b) <=> (Among(x, a) \/ Among(x, LongMean(r)))
  <2>1. a \in Seq(Cands) /\ LongMean(r) \in Seq(Cands) /\ Len(a) \in 0 .. 2 /\ Len(LongMean(r)) \in 0 .. 1
    BY <1>3, <1>4
  <2>2. b = a \o LongMean(r)
    BY <1>1
  <2>3. b \in Seq(Cands) /\ \A x : Among(x, b) <=> (Among(x, a) \/ Among(x, LongMean(r)))
    BY <2>1, <2>2, AmongConcat
  <2>4. Len(b) = Len(a) + Len(LongMean(r))
    BY <2>1, <2>2, AmongConcat
  <2>5. Len(b) \in 0 .. 3
    BY <2>1, <2>4, AddOne, 1 + 1 = 2, 2 + 1 = 3, 3 + 1 = 4, 4 + 1 = 5, Zenon
  <2> QED BY <2>3, <2>5
<1>6. /\ c \in Seq(Cands) /\ Len(c) \in 0 .. 4
      /\ \A x : Among(x, c) <=> (Among(x, b) \/ Among(x, ShortMean(r)))
  <2>1. b \in Seq(Cands) /\ ShortMean(r) \in Seq(Cands) /\ Len(b) \in 0 .. 3 /\ Len(ShortMean(r)) \in 0 .. 1
    BY <1>3, <1>5
  <2>2. c = b \o ShortMean(r)
    BY <1>1
  <2>3. c \in Seq(Cands) /\ \A x : Among(x, c) <=> (Among(x, b) \/ Among(x, ShortMean(r)))
    BY <2>1, <2>2, AmongConcat
  <2>4. Len(c) = Len(b) + Len(ShortMean(r))
    BY <2>1, <2>2, AmongConcat
  <2>5. Len(c) \in 0 .. 4
    BY <2>1, <2>4, AddOne, 1 + 1 = 2, 2 + 1 = 3, 3 + 1 = 4, 4 + 1 = 5, Zenon
  <2> QED BY <2>3, <2>5
<1>7. /\ Candidates(r) \in Seq(Cands) /\ Len(Candidates(r)) \in 0 .. 5
      /\ \A x : Among(x, Candidates(r)) <=> (Among(x, c) \/ Among(x, Breaks(r)))
  <2>1. c \in Seq(Cands) /\ Breaks(r) \in Seq(Cands) /\ Len(c) \in 0 .. 4 /\ Len(Breaks(r)) \in 0 .. 1
    BY <1>3, <1>6
  <2>2. Candidates(r) = c \o Breaks(r)
    BY <1>2
  <2>3. Candidates(r) \in Seq(Cands) /\ \A x : Among(x, Candidates(r)) <=> (Among(x, c) \/ Among(x, Breaks(r)))
    BY <2>1, <2>2, AmongConcat
  <2>4. Len(Candidates(r)) = Len(c) + Len(Breaks(r))
    BY <2>1, <2>2, AmongConcat
  <2>5. Len(Candidates(r)) \in 0 .. 5
    BY <2>1, <2>4, AddOne, 1 + 1 = 2, 2 + 1 = 3, 3 + 1 = 4, 4 + 1 = 5, Zenon
  <2> QED BY <2>3, <2>5
<1> QED BY <1>4, <1>5, <1>6, <1>7

\* The signal of an analysis is the best of its candidates.
LEMMA SignalIs ==
    ASSUME NEW r \in Reading, Analysed(r) # <<>>
    PROVE  \E x : /\ Analysed(r) = <<x>> /\ Among(x, Candidates(r))
                  /\ \A y : Among(y, Candidates(r)) => y.score <= x.score
<1>1. PICK cs, n : cs = Candidates(r) /\ n = Len(cs)
  OBVIOUS
<1>2. cs # <<>> /\ Analysed(r) = <<Best(cs)>>
  BY <1>1 DEF Analysed
<1>3. cs \in Seq(Cands) /\ n \in 0 .. 5
  BY <1>1, CandidatesAre
<1>4. n \in 1 .. 5 /\ DOMAIN cs = 1 .. n
  BY <1>1, <1>2, <1>3, EmptySeq
<1>5. \A i \in 1 .. n : cs[i].score \in Int
  <2>1. \A i \in 1 .. n : cs[i] \in Cands
    BY <1>1, <1>3
  <2> QED BY <2>1 DEF Cands
<1>6. PICK i \in 1 .. n : Best(cs) = cs[i] /\ FirstBest(cs, n, i)
  BY <1>4, <1>5, BestIs
<1>7. Among(Best(cs), cs)
  BY <1>1, <1>6 DEF Among
<1>8. \A y : Among(y, cs) => y.score <= Best(cs).score
  BY <1>1, <1>5, <1>6 DEF Among, FirstBest
<1> QED BY <1>1, <1>2, <1>7, <1>8

\* What an analysis says is sound.
LEMMA AnalysisSound ==
    ASSUME NEW r \in Reading, Consistent(r), Analyse(r) PROVE VerdictsSound'
<1>1. /\ verdict'.kind = "analysis" /\ verdict'.signal = Analysed(r) /\ verdict'.enters = Enters(r)
      /\ verdict'.regime = Regime(r) /\ verdict'.range = r.range /\ verdict'.bias = r.bias
      /\ verdict'.aligned = r.aligned
  BY DEF Analyse
<1>2. ASSUME Analysed(r) # <<>> PROVE (NoSignalAgainstTrend /\ BreakdownBuysNeedTrend)'
  <2>1. PICK x : /\ Analysed(r) = <<x>> /\ Among(x, Candidates(r))
                 /\ \A y : Among(y, Candidates(r)) => y.score <= x.score
    BY <1>2, SignalIs
  <2>2. \/ Among(x, LongTrend(r)) \/ Among(x, ShortTrend(r))
        \/ Among(x, LongMean(r)) \/ Among(x, ShortMean(r)) \/ Among(x, Breaks(r))
    BY <2>1, CandidatesAre
  <2>3. NoSignalAgainstTrend'
    BY <1>1, <2>1, <2>2, LongTrendIs, ShortTrendIs, LongMeanIs, ShortMeanIs, BreaksIs DEF NoSignalAgainstTrend
  <2>4. ASSUME Enters(r), Regime(r) = "breakout_expansion", r.range = "below"
        PROVE  r.bias = "bull" /\ r.aligned = "up"
    <3>1. r.rsiMoves # 1
      BY <2>4 DEF Consistent
    <3>2. x.setup \in {"long_trend_continuation", "breakout"}
      BY <2>1, <2>4 DEF Enters
    <3>3. x.score >= 85
      <4>1. PICK y : Among(y, Breaks(r)) /\ y.score = 85
        BY <2>4, BreaksIs
      <4>2. Among(y, Candidates(r))
        BY <4>1, CandidatesAre
      <4>3. Among(x, Candidates(r)) => x \in Cands
        BY CandidatesAre DEF Among
      <4> QED BY <2>1, <4>1, <4>2, <4>3 DEF Cands
    <3>4. Among(x, LongTrend(r))
      BY <2>2, <2>4, <3>2, ShortTrendIs, LongMeanIs, ShortMeanIs, BreaksIs
    <3>5. x \in Cands
      BY <3>4, LongTrendIs DEF Among
    <3>6. x.score < 85 => ~(x.score >= 85)
      BY <3>5 DEF Cands
    <3> QED BY <3>1, <3>3, <3>4, <3>6, LongTrendIs
  <2>5. BreakdownBuysNeedTrend'
    BY <1>1, <2>4 DEF BreakdownBuysNeedTrend
  <2> QED BY <2>3, <2>5
<1>3. ASSUME Analysed(r) = <<>> PROVE (NoSignalAgainstTrend /\ BreakdownBuysNeedTrend)'
  BY <1>1, <1>3 DEF NoSignalAgainstTrend, BreakdownBuysNeedTrend, Enters
<1>4. SidewaysBuysBounce'
  BY <1>1 DEF SidewaysBuysBounce
<1> QED BY <1>2, <1>3, <1>4 DEF VerdictsSound

\* What the strategies on snapshots say is sound.
LEMMA TickSound == ASSUME NEW t \in TickReading, PossibleTick(t), EvaluateTick(t) PROVE VerdictsSound'
<1>1. /\ verdict'.kind = "tick" /\ verdict'.signal = Composite(t) /\ verdict'.sideways = Sideways(t)
      /\ verdict'.scalped = (t.dip \/ t.vBounce) /\ verdict'.backed = (t.bounce /\ (t.bullish \/ t.below))
  BY DEF EvaluateTick
<1>2. PICK n : n = BuyStrength(t)
  OBVIOUS
<1>3. n \in Int /\ (n >= 85 => t.bounce /\ (t.bullish \/ t.below))
  BY <1>2 DEF BuyStrength, Points
<1>4. ASSUME Composite(t).side = "buy", Sideways(t) PROVE n >= 85 /\ ~t.dip /\ ~t.vBounce
  <2>1. PICK g : g = IF Scalp(t).side # "none" THEN Scalp(t) ELSE Multi(t)
    OBVIOUS
  <2>2. Composite(t) = TrendFilter(g, t)
    BY <2>1 DEF Composite
  <2>3. g.side = "buy" /\ ~(g.strength < 85)
    BY <1>4, <2>2 DEF TrendFilter, Silent
  <2>4. ~t.dip /\ ~t.vBounce
    BY <2>1, <2>3 DEF Scalp, BuySignal
  <2>5. Scalp(t).side # "buy"
    BY <2>4 DEF Scalp, Sell, Silent
  <2>6. g = Multi(t)
    BY <2>1, <2>3, <2>5
  <2>7. g = BuySignal(n)
    BY <1>2, <2>3, <2>6 DEF Multi, Sell, Silent
  <2> QED BY <1>3, <2>3, <2>4, <2>7 DEF BuySignal
<1>5. SidewaysBuysBounce'
  BY <1>1, <1>3, <1>4 DEF SidewaysBuysBounce
<1> QED BY <1>1, <1>5 DEF VerdictsSound, NoSignalAgainstTrend, BreakdownBuysNeedTrend

\* Nothing has been said.
LEMMA VerdictStarts == VerdictInit => VerdictsSound
  BY DEF VerdictInit, NoVerdict, VerdictsSound, NoSignalAgainstTrend, BreakdownBuysNeedTrend, SidewaysBuysBounce

\* No verdict breaks it.
LEMMA VerdictStep == VerdictsSound /\ [VerdictNext]_verdict => VerdictsSound'
<1> SUFFICES ASSUME VerdictsSound, [VerdictNext]_verdict PROVE VerdictsSound'
  OBVIOUS
<1>1. CASE UNCHANGED verdict
  BY <1>1 DEF VerdictsSound, NoSignalAgainstTrend, BreakdownBuysNeedTrend, SidewaysBuysBounce
<1>2. CASE VerdictNext
  <2>1. CASE \E r \in Readings : Consistent(r) /\ Analyse(r)
    BY <2>1, ReadingConstants, AnalysisSound
  <2>2. CASE \E t \in TickReading : PossibleTick(t) /\ EvaluateTick(t)
    BY <2>2, TickSound
  <2> QED BY <1>2, <2>1, <2>2 DEF VerdictNext
<1> QED BY <1>1, <1>2

\* Whatever the indicators say: no signal goes against the trend or comes of a market too
\* quiet, a fall below the hour's lows is bought only with the hour and the EMAs on its side,
\* and in sideways minutes nothing but a backed RSI bounce is.
THEOREM VerdictsAreSound == VerdictSpec => []VerdictsSound
  BY VerdictStarts, VerdictStep, PTL DEF VerdictSpec

-----------------------------------------------------------------------------
(* The day trades.  While no order and no record went astray, the worker has   *)
(* noted for each moment of the window at least the day trades there were,     *)
(* those included that its orders still out will be (Noted); and it knows on   *)
(* what day a position was opened (Opened).                                    *)

Trips == [Moments -> Nat]

\* The payload, or what the tick in progress will make of it.
Record == IF etick = <<>> THEN kept ELSE etick[1]

\* Orders out that will be day trades.
ToBeTrips == {o \in resting : o.side = "sell" /\ openDay[o.stock] = tradingDay}
TripsAt(m) == {o \in ToBeTrips : o.at = m}

Noted(days) == \A m \in PdtWindow : roundTrips[m] + Cardinality(TripsAt(m)) <= days[m]

Opened(opened) == \A s \in Stocks :
    IF shares[s] > 0
    THEN (\A o \in resting : ~(o.stock = s /\ o.side = "sell")) => opened[s] = openDay[s]
    ELSE (\E o \in resting : o.stock = s /\ o.side = "buy") => opened[s] = tradingDay

PdtTypes ==
    /\ tradingDay \in 1 .. EquityDays /\ dayPart \in 1 .. DayParts
    /\ roundTrips \in Trips /\ openDay \in [Stocks -> 0 .. EquityDays]
    /\ IsFiniteSet(resting) /\ (\A o \in resting : o.at \in Moments) /\ astray \in BOOLEAN
    /\ kept.opened \in [Stocks -> 0 .. EquityDays] /\ kept.dayTrades \in Trips
    /\ DOMAIN kept = {"opened", "dayTrades"}
    /\ etick # <<>> => /\ etick[1].opened \in [Stocks -> 0 .. EquityDays] /\ etick[1].dayTrades \in Trips
                       /\ etick[1].sent \in BOOLEAN

\* The record in force, and that it says no less than was done and no more than allowed.
Booked == \E opened \in [Stocks -> 0 .. EquityDays], days \in Trips :
    /\ Record.opened = opened /\ Record.dayTrades = days
    /\ Noted(days) /\ Opened(opened) /\ RecentDayTrades(days) <= PdtLimit

\* A sell takes all that is held.
WholeSells == \A o \in resting : o.side = "sell" => o.qty = shares[o.stock]

\* A tick that has placed nothing has noted nothing.
SentOrSame == etick # <<>> => etick[1].sent \/ (etick[1].opened = kept.opened /\ etick[1].dayTrades = kept.dayTrades)

PdtInv == StockInv /\ PdtTypes /\ (crossed # {} \/ astray \/ (Booked /\ WholeSells /\ SentOrSame))

\* The constants this rests on.
LEMMA PdtNumbers ==
    /\ PdtDays \in Nat /\ KeepDays \in Nat /\ PdtDays <= KeepDays /\ PdtLimit \in Nat
    /\ EquityDays \in Nat /\ EquityDays > 0 /\ DayParts \in Nat /\ DayParts > 0
    /\ PdtWindow \subseteq Moments /\ IsFiniteSet(PdtWindow)
<1>1. /\ PdtDays \in Nat /\ KeepDays \in Nat /\ PdtDays <= KeepDays /\ PdtLimit \in Nat
      /\ EquityDays \in Nat /\ EquityDays > 0 /\ DayParts \in Nat /\ DayParts > 0
      /\ PdtWindow \subseteq Moments
  BY EquityConstants DEF PdtWindow
<1>2. IsFiniteSet(1 .. EquityDays) /\ IsFiniteSet(1 .. DayParts)
  BY <1>1, FS_Interval
<1>3. IsFiniteSet(Moments)
  BY <1>2, FS_Product DEF Moments
<1> QED BY <1>1, <1>3, FS_Subset

\* Now is a moment, and counts.
LEMMA NowCounts == ASSUME PdtTypes PROVE <<tradingDay, dayPart>> \in Moments /\ <<tradingDay, dayPart>> \in PdtWindow
  BY PdtNumbers DEF PdtTypes, Moments, PdtWindow, Within

\* As long as a record is kept, it counts.
LEMMA CountedIsKept == ASSUME PdtTypes, NEW m \in PdtWindow PROVE m \in Moments /\ Within(m, KeepDays)
<1>1. /\ m \in Moments /\ m[1] \in Int /\ m[2] \in Int /\ tradingDay \in Int /\ dayPart \in Int
      /\ Within(m, PdtDays)
  BY PdtNumbers DEF PdtWindow, Moments, PdtTypes
<1>2. PICK d, n : d = m[1] /\ n = m[2]
  OBVIOUS
<1> QED BY <1>1, <1>2, PdtNumbers DEF Within

\* The orders out are few, and so are those sent at a moment that will be day trades.
LEMMA ToBeCounted ==
    ASSUME PdtTypes
    PROVE  IsFiniteSet(ToBeTrips) /\ \A m : IsFiniteSet(TripsAt(m)) /\ Cardinality(TripsAt(m)) \in Nat
<1>1. IsFiniteSet(resting) /\ ToBeTrips \subseteq resting
  BY DEF PdtTypes, ToBeTrips
<1>2. IsFiniteSet(ToBeTrips)
  BY <1>1, FS_Subset
<1>3. ASSUME NEW m PROVE IsFiniteSet(TripsAt(m)) /\ Cardinality(TripsAt(m)) \in Nat
  <2>1. TripsAt(m) \subseteq ToBeTrips
    BY DEF TripsAt
  <2>2. IsFiniteSet(TripsAt(m))
    BY <1>2, <2>1, FS_Subset
  <2> QED BY <2>2, FS_CardinalityType
<1> QED BY <1>2, <1>3

\* Trips of the window are counted by a sum.
LEMMA TripsCounted ==
    ASSUME NEW f \in Trips
    PROVE  RecentDayTrades(f) = SumOf(f, PdtWindow) /\ RecentDayTrades(f) \in Nat
<1>1. RecentDayTrades(f) = SumOf(f, PdtWindow)
  BY DEF RecentDayTrades, TripsIn, SumOf
<1>2. \A d \in PdtWindow : f[d] \in Nat /\ f[d] \in Int /\ f[d] <= f[d]
  BY PdtNumbers DEF Trips
<1>3. \A d \in PdtWindow : f[d] \in Nat
  BY <1>2
<1>4. \A d \in PdtWindow : f[d] \in Int /\ f[d] <= f[d]
  BY <1>2
<1>5. SumOf(f, PdtWindow) \in Nat
  BY <1>3, <1>4, PdtNumbers, SumsCompare
<1> QED BY <1>1, <1>5

\* Fewer trips on every day of the window are fewer in all.
LEMMA TripsCompare ==
    ASSUME NEW f \in Trips, NEW g \in Trips, \A d \in PdtWindow : f[d] <= g[d]
    PROVE  RecentDayTrades(f) <= RecentDayTrades(g)
<1>1. \A d \in PdtWindow : g[d] \in Nat
  BY PdtNumbers DEF Trips
<1>2. \A d \in PdtWindow : f[d] \in Int /\ f[d] <= g[d]
  BY PdtNumbers DEF Trips
<1>3. SumOf(f, PdtWindow) <= SumOf(g, PdtWindow)
  BY <1>1, <1>2, PdtNumbers, SumsCompare
<1> QED BY <1>3, TripsCounted

\* A trip more at a moment of the window is one more.
LEMMA TripMore ==
    ASSUME NEW f \in Trips, NEW at \in Moments
    PROVE  /\ OneTrip(f, at) \in Trips
           /\ \A m \in Moments : OneTrip(f, at)[m] = IF m = at THEN f[m] + 1 ELSE f[m]
           /\ at \in PdtWindow => RecentDayTrades(OneTrip(f, at)) = RecentDayTrades(f) + 1
<1> DEFINE g == OneTrip(f, at)
<1>1. g \in Trips /\ \A m \in Moments : g[m] = IF m = at THEN f[m] + 1 ELSE f[m]
  BY DEF Trips, OneTrip
<1> HIDE DEF g
<1>2. ASSUME at \in PdtWindow PROVE RecentDayTrades(g) = RecentDayTrades(f) + 1
  <2>1. PICK W, x, d : W = PdtWindow /\ x = at /\ d = 1
    OBVIOUS
  <2>2. IsFiniteSet(W) /\ x \in W /\ W \subseteq Moments
    BY <1>2, <2>1, PdtNumbers
  <2>3. (\A k \in W : f[k] \in Int) /\ (\A k \in W \ {x} : g[k] = f[k]) /\ d \in Int /\ g[x] = f[x] + d
    BY <1>1, <2>1, <2>2 DEF Trips
  <2>4. SumOf(g, W) = SumOf(f, W) + d
    BY <2>2, <2>3, SumChanges
  <2> QED BY <1>1, <2>1, <2>4, TripsCounted
<1> QED BY <1>1, <1>2 DEF g

\* Nothing was traded yet.
LEMMA PdtStarts == EquityInit => PdtInv
<1> SUFFICES ASSUME EquityInit PROVE PdtInv
  OBVIOUS
<1>1. /\ shares = [s \in Stocks |-> 0] /\ resting = {} /\ openDay = [s \in Stocks |-> 0] /\ etick = <<>>
      /\ roundTrips = NoTrades /\ kept = NoRecord /\ tradingDay = 1 /\ dayPart = 1
      /\ crossed = {} /\ astray = FALSE
  BY DEF EquityInit, Never
<1>2. NoTrades \in Trips /\ NoRecord.dayTrades = NoTrades /\ \A m \in Moments : NoTrades[m] = 0
  BY DEF NoTrades, NoRecord, Trips
<1>3. IsFiniteSet(resting) /\ Cardinality({}) = 0 /\ \A m : TripsAt(m) = {}
  BY <1>1, FS_EmptySet DEF ToBeTrips, TripsAt
<1>4. PdtTypes
  <2>1. tradingDay \in 1 .. EquityDays /\ dayPart \in 1 .. DayParts /\ openDay \in [Stocks -> 0 .. EquityDays]
    BY <1>1, PdtNumbers
  <2>2. kept.opened \in [Stocks -> 0 .. EquityDays] /\ kept.dayTrades = NoTrades /\ DOMAIN kept = {"opened", "dayTrades"}
    BY <1>1, PdtNumbers DEF NoRecord, Never
  <2> QED BY <1>1, <1>2, <1>3, <2>1, <2>2 DEF PdtTypes
<1>5. RecentDayTrades(NoTrades) <= PdtLimit
  <2>1. \A m \in PdtWindow : NoTrades[m] = 0
    BY <1>2, PdtNumbers
  <2>2. SumOf(NoTrades, PdtWindow) = 0
    BY <2>1, PdtNumbers, SumOfZeros
  <2> QED BY <1>2, <2>2, TripsCounted, PdtNumbers
<1>6. Record = kept /\ kept.dayTrades = NoTrades
  BY <1>1, <1>2 DEF Record
<1>7. Booked
  <2>1. PICK opened, days : opened = kept.opened /\ days = NoTrades
    OBVIOUS
  <2>2. opened \in [Stocks -> 0 .. EquityDays] /\ days \in Trips /\ Record.opened = opened /\ Record.dayTrades = days
    BY <1>2, <1>4, <1>6, <2>1 DEF PdtTypes
  <2>3. Noted(days)
    <3>1. ASSUME NEW m \in PdtWindow PROVE roundTrips[m] + Cardinality(TripsAt(m)) <= days[m]
      <4>1. roundTrips[m] = 0 /\ days[m] = 0
        BY <1>1, <1>2, <2>1, <3>1, PdtNumbers
      <4>2. Cardinality(TripsAt(m)) = 0
        BY <1>3
      <4> QED BY <4>1, <4>2
    <3> QED BY <3>1 DEF Noted
  <2>4. Opened(opened)
    BY <1>1 DEF Opened
  <2> QED BY <1>5, <2>1, <2>2, <2>3, <2>4 DEF Booked
<1> QED BY <1>1, <1>4, <1>7, StockStarts DEF PdtInv, WholeSells, SentOrSame

\* The records keep their types.
LEMMA PdtTypesKeep ==
    ASSUME StockInv, PdtTypes, EquityNext
    PROVE  PdtTypes'
<1> USE DEF PdtTypes
<1>1. \A f \in Trips, m \in Moments : OneTrip(f, m) \in Trips
  BY TripMore
<1>2. ASSUME StartEquityTick PROVE PdtTypes'
  BY <1>2 DEF StartEquityTick, market
<1>3. ASSUME EquityTickLost PROVE PdtTypes'
  BY <1>3 DEF EquityTickLost, market, clock
<1>4. ASSUME SwitchEquities PROVE PdtTypes'
  <2>1. NoRecord.opened \in [Stocks -> 0 .. EquityDays] /\ NoRecord.dayTrades \in Trips
        /\ DOMAIN NoRecord = {"opened", "dayTrades"}
    BY PdtNumbers DEF NoRecord, Never, NoTrades, Trips
  <2> QED BY <1>4, <2>1 DEF SwitchEquities, market, clock
<1>5. ASSUME NextDayPart \/ NextTradingDay PROVE PdtTypes'
  <2>1. CASE NextDayPart
    BY <2>1, PdtNumbers DEF NextDayPart, market
  <2>2. CASE NextTradingDay
    BY <2>2, PdtNumbers DEF NextTradingDay, market
  <2> QED BY <1>5, <2>1, <2>2
<1>6. ASSUME NEW s \in Stocks, PassStock(s) PROVE PdtTypes'
  <2>1. PICK t : etick = <<t>> /\ StockTick(t)
    BY <1>6 DEF StockInv, PassStock, StockInTurn
  <2> QED BY <1>6, <2>1 DEF PassStock, NextStock, StockTick, market, clock
<1>7. ASSUME NEW s \in Stocks, NEW side \in OrderSides, NEW price \in StockPrices, NEW hours \in Sessions,
             NEW power \in {1, PerTradeUsd}, NEW outcome \in Places,
             TradeStock(s, side, price, hours, power, outcome)
      PROVE  PdtTypes'
  <2>1. PICK t : etick = <<t>> /\ StockTick(t)
    BY <1>7 DEF StockInv, TradeStock, StockInTurn
  <2>2. t.opened \in [Stocks -> 0 .. EquityDays] /\ t.dayTrades \in Trips
    BY <2>1
  <2>3. PICK w, u : /\ w = IF outcome.ok THEN Note(t, side, s) ELSE t
                    /\ u = [NextStock(w, s) EXCEPT !.sent = TRUE]
    OBVIOUS
  <2>4. etick' = <<u>> /\ UNCHANGED <<shares, openDay, roundTrips, tradingDay, dayPart, kept>> /\ astray' \in BOOLEAN
    BY <1>7, <2>1, <2>3 DEF TradeStock, clock
  <2>5. DOMAIN w = DOMAIN t /\ w.opened \in [Stocks -> 0 .. EquityDays] /\ w.dayTrades \in Trips
    <3>1. tradingDay \in 0 .. EquityDays /\ Never \in 0 .. EquityDays
      BY PdtNumbers DEF Never
    <3>2. PICK g : g = IF t.opened[s] = tradingDay
                       THEN OneTrip(t.dayTrades, <<tradingDay, dayPart>>) ELSE t.dayTrades
      OBVIOUS
    <3>3. g \in Trips
      BY <1>1, <2>2, <3>2, NowCounts
    <3>4. /\ DOMAIN NoteSell(t, s) = DOMAIN t /\ NoteSell(t, s).opened = [t.opened EXCEPT ![s] = Never]
          /\ NoteSell(t, s).dayTrades = g /\ g \in Trips
      BY <2>1, <2>2, <3>2, <3>3 DEF NoteSell, StockTick
    <3> HIDE DEF PdtTypes
    <3>5. /\ DOMAIN NoteSell(t, s) = DOMAIN t /\ NoteSell(t, s).opened \in [Stocks -> 0 .. EquityDays]
          /\ NoteSell(t, s).dayTrades \in Trips
      BY <2>1, <2>2, <3>1, <3>3, <3>4 DEF StockTick
    <3>6. /\ DOMAIN NoteBuy(t, s) = DOMAIN t /\ NoteBuy(t, s).opened \in [Stocks -> 0 .. EquityDays]
          /\ NoteBuy(t, s).dayTrades \in Trips
      BY <2>1, <2>2, <3>1 DEF NoteBuy, StockTick
    <3> QED BY <2>1, <2>2, <2>3, <3>5, <3>6 DEF Note
  <2>6. u.opened = w.opened /\ u.dayTrades = w.dayTrades /\ u.sent = TRUE
    BY <2>1, <2>3, <2>5 DEF NextStock, StockTick
  <2>7. IsFiniteSet(resting') /\ \A p \in resting' : p.at \in Moments
    <3>1. PICK p : p = Order(s, side, Decide(side, s, t, price, hours, power))
      OBVIOUS
    <3>2. p.at \in Moments /\ resting' \in {resting, resting \union {p}}
      BY <1>7, <2>1, <3>1, NowCounts DEF Order, TradeStock
    <3> QED BY <3>2, FS_AddElement
  <2> QED BY <2>4, <2>5, <2>6, <2>7
<1>8. ASSUME NEW flushed \in BOOLEAN, FinishEquityTick(flushed) PROVE PdtTypes'
  <2>1. PICK t, r : /\ t = etick[1]
                    /\ r = [opened |-> t.opened,
                            dayTrades |-> [m \in Moments |-> IF Within(m, KeepDays) THEN t.dayTrades[m] ELSE 0]]
    OBVIOUS
  <2>2. /\ kept' = (IF flushed THEN r ELSE kept) /\ etick' = <<>> /\ astray' \in BOOLEAN
        /\ UNCHANGED <<tradingDay, dayPart, roundTrips, openDay, resting>> /\ etick # <<>>
    BY <1>8, <2>1 DEF FinishEquityTick, market, clock
  <2>3. r.opened \in [Stocks -> 0 .. EquityDays] /\ r.dayTrades \in Trips /\ DOMAIN r = {"opened", "dayTrades"}
    BY <2>1, <2>2 DEF Trips
  <2> QED BY <2>2, <2>3
<1>9. ASSUME NEW o \in resting, FillOrder(o) PROVE PdtTypes'
  <2>1. IsFiniteSet(resting') /\ openDay' \in [Stocks -> 0 .. EquityDays] /\ roundTrips' \in Trips
    <3>1. PICK f : f = OneTrip(roundTrips, o.at)
      OBVIOUS
    <3>2. f \in Trips /\ IsFiniteSet(resting \ {o})
      BY <1>1, <3>1, FS_RemoveElement
    <3>3. roundTrips' \in {f, roundTrips} /\ resting' = resting \ {o}
      BY <1>9, <3>1 DEF FillOrder
    <3>4. PICK d \in {tradingDay, openDay[o.stock]} : openDay' = [openDay EXCEPT ![o.stock] = d]
      BY <1>9 DEF FillOrder
    <3>5. openDay' \in [Stocks -> 0 .. EquityDays]
      <4>1. CASE o.stock \in Stocks
        BY <3>4, <4>1, PdtNumbers
      <4>2. CASE o.stock \notin Stocks
        BY <3>4, <4>2
      <4> QED BY <4>1, <4>2
    <3> QED BY <3>2, <3>3, <3>5
  <2> QED BY <1>9, <2>1 DEF FillOrder, clock
<1>10. ASSUME NEW o \in resting, DropOrder(o) PROVE PdtTypes'
  <2>1. IsFiniteSet(resting')
    BY <1>10, FS_RemoveElement DEF DropOrder
  <2> QED BY <1>10, <2>1 DEF DropOrder, clock
<1> HIDE DEF PdtTypes
<1>11. (\E s \in Stocks : PassStock(s)) => PdtTypes'
  BY <1>6
<1>12. (\E s \in Stocks, side \in OrderSides, price \in StockPrices, trading \in Sessions,
           power \in {1, PerTradeUsd}, outcome \in Places :
           TradeStock(s, side, price, trading, power, outcome)) => PdtTypes'
  BY <1>7
<1>13. (\E flushed \in BOOLEAN : FinishEquityTick(flushed)) => PdtTypes'
  BY <1>8
<1>14. (\E o \in resting : FillOrder(o) \/ DropOrder(o)) => PdtTypes'
  BY <1>9, <1>10
<1> QED BY <1>2, <1>3, <1>4, <1>5, <1>11, <1>12, <1>13, <1>14 DEF EquityNext

\* What a record says stands while the account, the orders and the day are the same.
LEMMA SameBooks ==
    ASSUME UNCHANGED <<tradingDay, dayPart, roundTrips, resting, openDay, shares>>, NEW opened, NEW days
    PROVE  /\ Noted(days)' = Noted(days) /\ Opened(opened)' = Opened(opened)
           /\ RecentDayTrades(days)' = RecentDayTrades(days)
<1>1. PdtWindow' = PdtWindow /\ \A m : TripsAt(m)' = TripsAt(m)
  BY DEF PdtWindow, Within, ToBeTrips, TripsAt
<1>2. Noted(days)' = Noted(days)
  BY <1>1 DEF Noted
<1>3. Opened(opened)' = Opened(opened)
  BY DEF Opened
<1>4. RecentDayTrades(days)' = RecentDayTrades(days)
  BY <1>1 DEF RecentDayTrades
<1> QED BY <1>2, <1>3, <1>4

\* So does the invariant, when the record in force is the same one.
LEMMA RecordStands ==
    ASSUME UNCHANGED <<tradingDay, dayPart, roundTrips, resting, openDay, shares>>, Booked, WholeSells,
           NEW opened, NEW days, Record.opened = opened, Record.dayTrades = days,
           Record'.opened = opened, Record'.dayTrades = days
    PROVE  Booked' /\ WholeSells'
<1>1. /\ opened \in [Stocks -> 0 .. EquityDays] /\ days \in Trips
      /\ Noted(days) /\ Opened(opened) /\ RecentDayTrades(days) <= PdtLimit
  BY DEF Booked
<1>2. Noted(days)' /\ Opened(opened)' /\ RecentDayTrades(days)' <= PdtLimit
  BY <1>1, SameBooks
<1>3. Booked'
  BY <1>1, <1>2 DEF Booked
<1>4. WholeSells'
  BY DEF WholeSells
<1> QED BY <1>3, <1>4

\* A tick starts from the payload.
LEMMA PdtStart == ASSUME PdtInv, StartEquityTick PROVE crossed' # {} \/ astray' \/ (Booked /\ WholeSells /\ SentOrSame)'
<1> SUFFICES ASSUME crossed' = {}, ~astray' PROVE (Booked /\ WholeSells /\ SentOrSame)'
  OBVIOUS
<1>1. PICK t : t = [left |-> Stocks, held |-> shares, opened |-> kept.opened,
                    dayTrades |-> kept.dayTrades, sent |-> FALSE,
                    waiting |-> {<<o.stock, o.side>> : o \in resting}]
  OBVIOUS
<1>2. /\ etick = <<>> /\ etick' = <<t>> /\ UNCHANGED <<tradingDay, dayPart, roundTrips, resting, openDay, shares, kept>>
      /\ crossed = {} /\ ~astray
  BY <1>1 DEF StartEquityTick, market
<1>3. Booked /\ WholeSells
  BY <1>2 DEF PdtInv
<1>4. PICK opened, days : opened = kept.opened /\ days = kept.dayTrades
  OBVIOUS
<1>5. /\ Record.opened = opened /\ Record.dayTrades = days
      /\ Record'.opened = opened /\ Record'.dayTrades = days
  BY <1>1, <1>2, <1>4 DEF Record
<1>6. Booked' /\ WholeSells'
  BY <1>2, <1>3, <1>5, RecordStands
<1>7. SentOrSame'
  BY <1>1, <1>2 DEF SentOrSame
<1> QED BY <1>6, <1>7

\* Passing over a stock leaves the record alone.
LEMMA PdtPass == ASSUME PdtInv, NEW s \in Stocks, PassStock(s)
                 PROVE  crossed' # {} \/ astray' \/ (Booked /\ WholeSells /\ SentOrSame)'
<1> SUFFICES ASSUME crossed' = {}, ~astray' PROVE (Booked /\ WholeSells /\ SentOrSame)'
  OBVIOUS
<1>1. PICK t : etick = <<t>> /\ StockTick(t)
  BY DEF PdtInv, StockInv, PassStock, StockInTurn
<1>2. PICK u : u = NextStock(t, s)
  OBVIOUS
<1>3. /\ etick' = <<u>> /\ UNCHANGED <<tradingDay, dayPart, roundTrips, resting, openDay, shares, kept>>
      /\ crossed = {} /\ ~astray /\ u.opened = t.opened /\ u.dayTrades = t.dayTrades /\ u.sent = t.sent
  BY <1>1, <1>2 DEF PassStock, market, clock, NextStock, StockTick
<1>4. Booked /\ WholeSells /\ SentOrSame
  BY <1>3 DEF PdtInv
<1>5. PICK opened, days : opened = t.opened /\ days = t.dayTrades
  OBVIOUS
<1>6. /\ Record.opened = opened /\ Record.dayTrades = days
      /\ Record'.opened = opened /\ Record'.dayTrades = days
  BY <1>1, <1>3, <1>5 DEF Record
<1>7. Booked' /\ WholeSells'
  BY <1>3, <1>4, <1>6, RecordStands
<1>8. SentOrSame'
  BY <1>1, <1>3, <1>4 DEF SentOrSame
<1> QED BY <1>7, <1>8

\* A tick that is lost has noted nothing, or the record went astray.
LEMMA PdtLost == ASSUME PdtInv, EquityTickLost PROVE crossed' # {} \/ astray' \/ (Booked /\ WholeSells /\ SentOrSame)'
<1> SUFFICES ASSUME crossed' = {}, ~astray' PROVE (Booked /\ WholeSells /\ SentOrSame)'
  OBVIOUS
<1>1. /\ etick # <<>> /\ etick' = <<>> /\ UNCHANGED <<tradingDay, dayPart, roundTrips, resting, openDay, shares, kept>>
      /\ crossed = {} /\ ~astray /\ ~etick[1].sent
  BY DEF EquityTickLost, market, clock
<1>2. Booked /\ WholeSells /\ SentOrSame
  BY <1>1 DEF PdtInv
<1>3. PICK opened, days : opened = kept.opened /\ days = kept.dayTrades
  OBVIOUS
<1>4. /\ Record.opened = opened /\ Record.dayTrades = days
      /\ Record'.opened = opened /\ Record'.dayTrades = days
  BY <1>1, <1>2, <1>3 DEF Record, SentOrSame
<1>5. Booked' /\ WholeSells'
  BY <1>1, <1>2, <1>4, RecordStands
<1> QED BY <1>1, <1>5 DEF SentOrSame

\* Days forgotten are not days that count.
LEMMA PdtFinish == ASSUME PdtInv, NEW flushed \in BOOLEAN, FinishEquityTick(flushed)
                   PROVE  crossed' # {} \/ astray' \/ (Booked /\ WholeSells /\ SentOrSame)'
<1> SUFFICES ASSUME crossed' = {}, ~astray' PROVE (Booked /\ WholeSells /\ SentOrSame)'
  OBVIOUS
<1>1. PICK t, after : /\ t = etick[1]
                      /\ after = [m \in Moments |-> IF Within(m, KeepDays) THEN t.dayTrades[m] ELSE 0]
  OBVIOUS
<1>2. /\ etick # <<>> /\ etick' = <<>> /\ UNCHANGED <<tradingDay, dayPart, roundTrips, resting, openDay, shares>>
      /\ kept' = (IF flushed THEN [opened |-> t.opened, dayTrades |-> after] ELSE kept)
      /\ crossed = {} /\ ~astray /\ (flushed \/ ~t.sent)
  BY <1>1 DEF FinishEquityTick, market, clock
<1>3. Booked /\ WholeSells /\ SentOrSame /\ PdtTypes
  BY <1>2 DEF PdtInv
<1>4. CASE ~flushed
  <2>1. PICK opened, days : opened = kept.opened /\ days = kept.dayTrades
    OBVIOUS
  <2>2. /\ Record.opened = opened /\ Record.dayTrades = days
        /\ Record'.opened = opened /\ Record'.dayTrades = days
    BY <1>1, <1>2, <1>3, <1>4, <2>1 DEF Record, SentOrSame
  <2>3. Booked' /\ WholeSells'
    BY <1>2, <1>3, <2>2, RecordStands
  <2> QED BY <1>2, <2>3 DEF SentOrSame
<1>5. CASE flushed
  <2>1. PICK opened \in [Stocks -> 0 .. EquityDays], days \in Trips :
           /\ Record.opened = opened /\ Record.dayTrades = days
           /\ Noted(days) /\ Opened(opened) /\ RecentDayTrades(days) <= PdtLimit
    BY <1>3 DEF Booked
  <2>2. /\ t.opened = opened /\ t.dayTrades = days
        /\ Record'.opened = opened /\ Record'.dayTrades = after
    BY <1>1, <1>2, <1>5, <2>1 DEF Record
  <2>3. after \in Trips
    BY <1>1, <2>2 DEF Trips
  <2>4. \A d \in PdtWindow : after[d] = days[d] /\ days[d] \in Int /\ after[d] <= days[d]
    <3>1. \A d \in PdtWindow : d \in Moments /\ Within(d, KeepDays)
      BY <1>3, CountedIsKept
    <3> QED BY <1>1, <2>2, <3>1 DEF Trips
  <2>5. RecentDayTrades(after) <= PdtLimit
    <3>1. \A d \in PdtWindow : after[d] <= days[d]
      BY <2>4
    <3>2. RecentDayTrades(after) <= RecentDayTrades(days)
      BY <2>3, <3>1, TripsCompare
    <3>3. RecentDayTrades(after) \in Nat /\ RecentDayTrades(days) \in Nat
      BY <2>3, TripsCounted
    <3> QED BY <2>1, <3>2, <3>3, PdtNumbers
  <2>6. Noted(after)
    BY <2>1, <2>4 DEF Noted
  <2>7. Noted(after)' /\ Opened(opened)' /\ RecentDayTrades(after)' <= PdtLimit
    BY <1>2, <2>1, <2>5, <2>6, SameBooks
  <2>8. Booked'
    BY <2>2, <2>3, <2>7 DEF Booked
  <2> QED BY <1>2, <1>3, <2>8 DEF SentOrSame, WholeSells
<1> QED BY <1>4, <1>5

\* The window moves on: fewer moments count.
LEMMA PdtTime == ASSUME PdtInv, NextDayPart \/ NextTradingDay
                 PROVE  crossed' # {} \/ astray' \/ (Booked /\ WholeSells /\ SentOrSame)'
<1> SUFFICES ASSUME crossed' = {}, ~astray' PROVE (Booked /\ WholeSells /\ SentOrSame)'
  OBVIOUS
<1>1. /\ etick = <<>> /\ etick' = <<>> /\ UNCHANGED <<resting, roundTrips, openDay, shares, kept>>
      /\ crossed = {} /\ ~astray /\ (resting = {} \/ tradingDay' = tradingDay)
      /\ \/ tradingDay' = tradingDay + 1 /\ dayPart' = 1
         \/ tradingDay' = tradingDay /\ dayPart' = dayPart + 1
  <2>1. CASE NextDayPart
    BY <2>1 DEF NextDayPart, Ruling, market
  <2>2. CASE NextTradingDay
    BY <2>2 DEF NextTradingDay, Ruling, market
  <2> QED BY <2>1, <2>2
<1>2. Booked /\ WholeSells /\ PdtTypes
  BY <1>1 DEF PdtInv
<1>3. PICK opened \in [Stocks -> 0 .. EquityDays], days \in Trips :
         /\ Record.opened = opened /\ Record.dayTrades = days
         /\ Noted(days) /\ Opened(opened) /\ RecentDayTrades(days) <= PdtLimit
  BY <1>2 DEF Booked
<1>4. Record'.opened = opened /\ Record'.dayTrades = days
  BY <1>1, <1>3 DEF Record
<1>5. PICK W, V : W = PdtWindow /\ V = PdtWindow'
  OBVIOUS
<1>6. V \subseteq W /\ IsFiniteSet(W) /\ W \subseteq Moments
  <2>1. tradingDay \in Int /\ dayPart \in Int /\ PdtDays \in Nat
    BY <1>2, PdtNumbers DEF PdtTypes
  <2>2. ASSUME NEW m \in Moments, Within(m, PdtDays)' PROVE Within(m, PdtDays)
    <3>1. PICK d, n : d = m[1] /\ n = m[2]
      OBVIOUS
    <3>2. d \in Int /\ n \in Int
      BY <3>1 DEF Moments
    <3>3. d > tradingDay' - PdtDays \/ (d = tradingDay' - PdtDays /\ n >= dayPart')
      BY <2>2, <3>1 DEF Within
    <3>4. d > tradingDay - PdtDays \/ (d = tradingDay - PdtDays /\ n >= dayPart)
      BY <1>1, <2>1, <3>2, <3>3
    <3> QED BY <3>1, <3>4 DEF Within
  <2> QED BY <1>5, <2>2, PdtNumbers DEF PdtWindow
<1>7. RecentDayTrades(days)' <= PdtLimit
  <2>1. RecentDayTrades(days) = SumOf(days, W) /\ RecentDayTrades(days)' = SumOf(days, V)
    <3>1. RecentDayTrades(days) = TripsIn(days, W) /\ RecentDayTrades(days)' = TripsIn(days, V)
      BY <1>5 DEF RecentDayTrades
    <3>2. TripsIn(days, W) = SumOf(days, W) /\ TripsIn(days, V) = SumOf(days, V)
      BY DEF TripsIn, SumOf
    <3> QED BY <3>1, <3>2
  <2>2. \A d \in W : days[d] \in Nat
    BY <1>6 DEF Trips
  <2>3. \A d \in V : days[d] \in Int /\ days[d] <= days[d]
    BY <1>6, <2>2
  <2>4. SumOf(days, V) \in Int /\ SumOf(days, W) \in Nat /\ SumOf(days, V) <= SumOf(days, W)
    BY <1>6, <2>2, <2>3, SumsCompare
  <2> QED BY <1>3, <2>1, <2>4, PdtNumbers
<1>8. Noted(days)'
  <2>1. \A m : TripsAt(m)' = TripsAt(m)
    BY <1>1 DEF ToBeTrips, TripsAt
  <2>2. \A m \in V : roundTrips[m] + Cardinality(TripsAt(m)) <= days[m]
    BY <1>3, <1>5, <1>6 DEF Noted
  <2> QED BY <1>1, <1>5, <2>1, <2>2 DEF Noted
<1>9. Opened(opened)'
  BY <1>1, <1>3 DEF Opened
<1>10. Booked'
  BY <1>3, <1>4, <1>7, <1>8, <1>9 DEF Booked
<1> QED BY <1>1, <1>2, <1>10 DEF SentOrSame, WholeSells

\* A buy goes out: the day is noted when nothing is held.
LEMMA BuyNoted ==
    ASSUME NEW opened \in [Stocks -> 0 .. EquityDays], NEW s \in Stocks, NEW o, Opened(opened),
           NEW after, after = IF shares[s] <= 0 THEN [opened EXCEPT ![s] = tradingDay] ELSE opened,
           o.stock = s, o.side = "buy", shares[s] \in Int, \A p \in resting : p.stock # s,
           resting' = resting \union {o}, UNCHANGED <<tradingDay, openDay, shares>>
    PROVE  Opened(after)'
<1> SUFFICES ASSUME NEW x \in Stocks
             PROVE  IF shares[x] > 0
                    THEN (\A p \in resting' : ~(p.stock = x /\ p.side = "sell")) => after[x] = openDay[x]
                    ELSE (\E p \in resting' : p.stock = x /\ p.side = "buy") => after[x] = tradingDay
  BY DEF Opened
<1>1. IF shares[x] > 0
      THEN (\A p \in resting : ~(p.stock = x /\ p.side = "sell")) => opened[x] = openDay[x]
      ELSE (\E p \in resting : p.stock = x /\ p.side = "buy") => opened[x] = tradingDay
  BY DEF Opened
<1>2. CASE x = s
  BY <1>1, <1>2
<1>3. CASE x # s
  <2>1. after[x] = opened[x]
    BY <1>3
  <2> QED BY <1>1, <1>3, <2>1
<1> QED BY <1>2, <1>3

\* A sell goes out: the day of the position is forgotten.
LEMMA SellNoted ==
    ASSUME NEW opened \in [Stocks -> 0 .. EquityDays], NEW s \in Stocks, NEW o, Opened(opened),
           o.stock = s, o.side = "sell", shares[s] > 0,
           resting' = resting \union {o}, UNCHANGED <<tradingDay, openDay, shares>>
    PROVE  Opened([opened EXCEPT ![s] = Never])'
<1> DEFINE after == [opened EXCEPT ![s] = Never]
<1>1. \A x \in Stocks : x # s => after[x] = opened[x]
  OBVIOUS
<1> HIDE DEF after
<1> SUFFICES ASSUME NEW x \in Stocks
             PROVE  IF shares[x] > 0
                    THEN (\A p \in resting' : ~(p.stock = x /\ p.side = "sell")) => after[x] = openDay[x]
                    ELSE (\E p \in resting' : p.stock = x /\ p.side = "buy") => after[x] = tradingDay
  BY DEF Opened, after
<1>2. IF shares[x] > 0
      THEN (\A p \in resting : ~(p.stock = x /\ p.side = "sell")) => opened[x] = openDay[x]
      ELSE (\E p \in resting : p.stock = x /\ p.side = "buy") => opened[x] = tradingDay
  BY DEF Opened
<1>3. CASE x = s
  BY <1>2, <1>3
<1>4. CASE x # s
  BY <1>1, <1>2, <1>4
<1> QED BY <1>3, <1>4

\* A fill of the one order of its stock settles what day the position is of.
LEMMA FillOpened ==
    ASSUME NEW opened, Opened(opened), NEW o \in resting, o.stock \in Stocks, o.side \in OrderSides,
           shares \in [Stocks -> Int], \A s \in Stocks : shares[s] >= 0, openDay \in [Stocks -> 0 .. EquityDays],
           \A p \in resting : p.stock = o.stock => p = o, o.side = "sell" => o.qty = shares[o.stock],
           FillOrder(o)
    PROVE  Opened(opened)'
<1>1. PICK s, a : /\ s = o.stock
                  /\ a = IF o.side = "buy" THEN shares[s] + o.qty ELSE shares[s] - o.qty
  OBVIOUS
<1>2. /\ resting' = resting \ {o} /\ shares' = [shares EXCEPT ![s] = a] /\ UNCHANGED tradingDay
      /\ openDay' = [openDay EXCEPT ![s] = IF shares[s] <= 0 /\ a > 0 THEN tradingDay ELSE openDay[s]]
  BY <1>1 DEF FillOrder, clock
<1>3. /\ s \in Stocks /\ shares[s] \in Int /\ shares'[s] = a
      /\ openDay'[s] = IF shares[s] <= 0 /\ a > 0 THEN tradingDay ELSE openDay[s]
      /\ \A x \in Stocks : x # s => shares'[x] = shares[x] /\ openDay'[x] = openDay[x]
  BY <1>1, <1>2
<1> SUFFICES ASSUME NEW x \in Stocks
             PROVE  IF shares'[x] > 0
                    THEN (\A p \in resting' : ~(p.stock = x /\ p.side = "sell")) => opened[x] = openDay'[x]
                    ELSE (\E p \in resting' : p.stock = x /\ p.side = "buy") => opened[x] = tradingDay
  BY <1>2 DEF Opened
<1>4. IF shares[x] > 0
      THEN (\A p \in resting : ~(p.stock = x /\ p.side = "sell")) => opened[x] = openDay[x]
      ELSE (\E p \in resting : p.stock = x /\ p.side = "buy") => opened[x] = tradingDay
  BY DEF Opened
<1>5. CASE x # s
  BY <1>1, <1>2, <1>3, <1>4, <1>5
<1>6. CASE x = s /\ o.side = "sell"
  <2>1. a = 0
    BY <1>1, <1>3, <1>6
  <2> QED BY <1>1, <1>2, <1>3, <1>6, <2>1
<1>7. CASE x = s /\ o.side = "buy"
  <2>1. \A p \in resting : ~(p.stock = s /\ p.side = "sell")
    BY <1>1, <1>7
  <2>2. \A p \in resting' : p.stock # s
    BY <1>1, <1>2
  <2>3. CASE shares[s] > 0
    BY <1>1, <1>3, <1>4, <1>7, <2>1, <2>2, <2>3
  <2>4. CASE ~(shares[s] > 0)
    BY <1>1, <1>3, <1>4, <1>7, <2>2, <2>4
  <2> QED BY <2>3, <2>4
<1> QED BY <1>5, <1>6, <1>7 DEF OrderSides

\* An order goes out, is turned down, or goes astray.
LEMMA PdtTrade ==
    ASSUME PdtInv, NEW s \in Stocks, NEW side \in OrderSides, NEW price \in StockPrices,
           NEW hours \in Sessions, NEW power \in {1, PerTradeUsd}, NEW outcome \in Places,
           TradeStock(s, side, price, hours, power, outcome)
    PROVE  crossed' # {} \/ astray' \/ (Booked /\ WholeSells /\ SentOrSame)'
<1> SUFFICES ASSUME crossed' = {}, ~astray' PROVE (Booked /\ WholeSells /\ SentOrSame)'
  OBVIOUS
<1>1. PICK t : etick = <<t>> /\ StockTick(t) /\ s \in t.left
  BY DEF PdtInv, StockInv, TradeStock, StockInTurn
<1>2. PICK q, w, u, o :
          /\ q = Decide(side, s, t, price, hours, power)
          /\ w = IF outcome.ok THEN Note(t, side, s) ELSE t
          /\ u = [NextStock(w, s) EXCEPT !.sent = TRUE]
          /\ o = Order(s, side, q)
  OBVIOUS
<1>3. /\ q > 0 /\ UNCHANGED <<shares, openDay, roundTrips, tradingDay, dayPart, kept>>
      /\ resting' = IF outcome.landed THEN resting \union {o} ELSE resting
      /\ crossed' = IF outcome.landed THEN crossed \union Crossing(t, s, side) ELSE crossed
      /\ etick' = <<u>> /\ ~astray /\ crossed = {} /\ outcome \in {Placed, Turned}
  BY <1>1, <1>2 DEF TradeStock, clock
<1>4. /\ Booked /\ WholeSells /\ PdtTypes /\ Fresh(t) /\ shares \in [Stocks -> Int]
      /\ t.held[s] \in Int /\ shares[s] \in Int
  <2>1. PICK v : etick = <<v>> /\ Fresh(v)
    BY <1>1, <1>3 DEF PdtInv, StockInv
  <2>2. v = t
    BY <1>1, <2>1
  <2> QED BY <1>1, <1>3, <2>1, <2>2 DEF PdtInv, StockInv, StockTick
<1>5. o.stock = s /\ o.side = side /\ o.qty = q /\ o.at = <<tradingDay, dayPart>>
  BY <1>2 DEF Order
<1>15. ASSUME outcome = Placed PROVE t.held[s] = shares[s] /\ \A p \in resting : p.stock # s
  <2>1. \A other \in OrderSides : <<s, other>> \notin t.waiting
    <3>1. Crossing(t, s, side) = {}
      BY <1>3, <1>15 DEF Placed
    <3> QED BY <3>1 DEF Crossing
  <2>2. t.held[s] <= shares[s] /\ shares[s] <= t.held[s]
    BY <1>1, <1>4, <2>1 DEF Fresh, OrderSides
  <2>3. ASSUME NEW p \in resting, p.stock = s PROVE FALSE
    <3>1. p.side \in OrderSides
      BY DEF PdtInv, StockInv, OrderOK
    <3> QED BY <1>1, <1>4, <2>1, <2>3, <3>1 DEF Fresh
  <2> QED BY <1>4, <2>2, <2>3
<1>6. PICK opened \in [Stocks -> 0 .. EquityDays], days \in Trips :
         /\ Record.opened = opened /\ Record.dayTrades = days
         /\ Noted(days) /\ Opened(opened) /\ RecentDayTrades(days) <= PdtLimit
  BY <1>4 DEF Booked
<1>7. t.opened = opened /\ t.dayTrades = days
  BY <1>1, <1>6 DEF Record
<1>8. DOMAIN w = DOMAIN t
  BY <1>1, <1>2 DEF Note, NoteBuy, NoteSell, StockTick
<1>9. u.opened = w.opened /\ u.dayTrades = w.dayTrades /\ u.sent = TRUE
  BY <1>1, <1>2, <1>8 DEF NextStock, StockTick
<1>10. SentOrSame'
  BY <1>3, <1>9 DEF SentOrSame
<1>11. Record'.opened = w.opened /\ Record'.dayTrades = w.dayTrades
  BY <1>3, <1>9 DEF Record
<1>12. CASE outcome = Turned
  <2>1. resting' = resting /\ w = t
    BY <1>2, <1>3, <1>12 DEF Turned
  <2>2. Booked' /\ WholeSells'
    BY <1>3, <1>4, <1>6, <1>7, <1>11, <2>1, RecordStands
  <2> QED BY <1>10, <2>2
<1>13. CASE outcome = Placed /\ side = "buy"
  <2>1. resting' = resting \union {o} /\ w = NoteBuy(t, s)
    BY <1>2, <1>3, <1>13 DEF Placed, Note
  <2>2. PICK after : after = IF shares[s] <= 0 THEN [opened EXCEPT ![s] = tradingDay] ELSE opened
    OBVIOUS
  <2>3. w.opened = after /\ w.dayTrades = days /\ after \in [Stocks -> 0 .. EquityDays]
    BY <1>1, <1>4, <1>7, <1>13, <1>15, <2>1, <2>2, PdtNumbers DEF NoteBuy, StockTick, PdtTypes
  <2>4. Opened(after)'
    BY <1>3, <1>4, <1>5, <1>6, <1>13, <1>15, <2>1, <2>2, BuyNoted
  <2>5. PdtWindow' = PdtWindow /\ \A m : TripsAt(m)' = TripsAt(m)
    <3>1. ToBeTrips' = ToBeTrips
      BY <1>3, <1>5, <1>13, <2>1 DEF ToBeTrips
    <3> QED BY <1>3, <3>1 DEF TripsAt, PdtWindow, Within
  <2>6. Noted(days)' /\ RecentDayTrades(days)' <= PdtLimit
    BY <1>3, <1>6, <2>5 DEF Noted, RecentDayTrades
  <2>7. Booked'
    BY <1>11, <2>3, <2>4, <2>6 DEF Booked
  <2>8. WholeSells'
    BY <1>3, <1>4, <1>5, <1>13, <2>1 DEF WholeSells
  <2> QED BY <1>10, <2>7, <2>8
<1>14. CASE outcome = Placed /\ side = "sell"
  <2>1. resting' = resting \union {o} /\ w = NoteSell(t, s)
    BY <1>2, <1>3, <1>14 DEF Placed, Note
  <2>2. q = shares[s] /\ shares[s] > 0 /\ (opened[s] = tradingDay => ~PdtBlocks(days))
    BY <1>2, <1>3, <1>4, <1>7, <1>14, <1>15 DEF Decide, ExitOrder
  <2>3. opened[s] = openDay[s]
    BY <1>6, <1>14, <1>15, <2>2 DEF Opened
  <2>4. PICK after, trips : /\ after = [opened EXCEPT ![s] = Never]
                            /\ trips = IF opened[s] = tradingDay THEN OneTrip(days, <<tradingDay, dayPart>>) ELSE days
    OBVIOUS
  <2>5. w.opened = after /\ w.dayTrades = trips /\ after \in [Stocks -> 0 .. EquityDays]
    <3>1. PICK g : g = IF t.opened[s] = tradingDay
                       THEN OneTrip(t.dayTrades, <<tradingDay, dayPart>>) ELSE t.dayTrades
      OBVIOUS
    <3>2. g = trips
      BY <1>7, <2>4, <3>1
    <3>3. w.opened = [t.opened EXCEPT ![s] = Never] /\ w.dayTrades = g
      BY <1>1, <2>1, <3>1 DEF NoteSell, StockTick
    <3> QED BY <1>7, <2>4, <3>2, <3>3, PdtNumbers DEF Never
  <2>6. Opened(after)'
    BY <1>3, <1>5, <1>6, <1>14, <2>1, <2>2, <2>4, SellNoted
  <2>7. <<tradingDay, dayPart>> \in Moments /\ <<tradingDay, dayPart>> \in PdtWindow
        /\ \A m : IsFiniteSet(TripsAt(m)) /\ Cardinality(TripsAt(m)) \in Nat
    BY <1>4, NowCounts, ToBeCounted
  <2>8. PdtWindow' = PdtWindow
    BY <1>3 DEF PdtWindow, Within
  <2>9. CASE opened[s] = tradingDay
    <3>1. /\ trips \in Trips
          /\ \A d \in Moments : trips[d] = IF d = <<tradingDay, dayPart>> THEN days[d] + 1 ELSE days[d]
          /\ <<tradingDay, dayPart>> \in PdtWindow => RecentDayTrades(trips) = RecentDayTrades(days) + 1
      BY <2>4, <2>7, <2>9, TripMore
    <3>2. RecentDayTrades(trips)' = RecentDayTrades(trips)
      BY <2>8 DEF RecentDayTrades
    <3>3. RecentDayTrades(days) \in Nat /\ RecentDayTrades(days) < PdtLimit
      BY <2>2, <2>9, TripsCounted, PdtNumbers DEF PdtBlocks
    <3>4. RecentDayTrades(trips)' <= PdtLimit
      BY <2>7, <3>1, <3>2, <3>3, PdtNumbers
    <3>5. ToBeTrips' = ToBeTrips \union {o} /\ o \notin ToBeTrips
      BY <1>3, <1>5, <1>14, <1>15, <2>1, <2>3, <2>9 DEF ToBeTrips
    <3>6. ASSUME NEW d PROVE Cardinality(TripsAt(d)') = Cardinality(TripsAt(d)) + (IF d = <<tradingDay, dayPart>> THEN 1 ELSE 0)
      <4>1. CASE d = <<tradingDay, dayPart>>
        <5>1. TripsAt(d)' = TripsAt(d) \union {o} /\ o \notin TripsAt(d)
          BY <1>5, <3>5, <4>1 DEF TripsAt
        <5> QED BY <2>7, <4>1, <5>1, FS_AddElement
      <4>2. CASE d # <<tradingDay, dayPart>>
        <5>1. TripsAt(d)' = TripsAt(d)
          BY <1>5, <3>5, <4>2 DEF TripsAt
        <5> QED BY <2>7, <4>2, <5>1
      <4> QED BY <4>1, <4>2
    <3>7. ASSUME NEW d \in PdtWindow PROVE roundTrips[d] + Cardinality(TripsAt(d)') <= trips[d]
      <4>1. d \in Moments /\ days[d] \in Nat /\ roundTrips[d] \in Nat
        BY <1>4, PdtNumbers DEF PdtTypes, Trips
      <4>2. roundTrips[d] + Cardinality(TripsAt(d)) <= days[d]
        BY <1>6 DEF Noted
      <4> QED BY <2>7, <3>1, <3>6, <4>1, <4>2
    <3>8. Noted(trips)'
      BY <1>3, <2>8, <3>7 DEF Noted
    <3>9. Booked'
      BY <1>11, <2>5, <2>6, <3>1, <3>4, <3>8 DEF Booked
    <3>10. WholeSells'
      BY <1>3, <1>4, <1>5, <2>1, <2>2 DEF WholeSells
    <3> QED BY <1>10, <3>9, <3>10
  <2>10. CASE opened[s] # tradingDay
    <3>1. trips = days /\ \A m : TripsAt(m)' = TripsAt(m)
      <4>1. ToBeTrips' = ToBeTrips
        BY <1>3, <1>5, <2>1, <2>3, <2>10 DEF ToBeTrips
      <4> QED BY <2>4, <2>10, <4>1 DEF TripsAt
    <3>2. Noted(trips)' /\ RecentDayTrades(trips)' <= PdtLimit
      BY <1>3, <1>6, <2>8, <3>1 DEF Noted, RecentDayTrades
    <3>3. Booked'
      BY <1>11, <2>5, <2>6, <3>1, <3>2 DEF Booked
    <3>4. WholeSells'
      BY <1>3, <1>4, <1>5, <2>1, <2>2 DEF WholeSells
    <3> QED BY <1>10, <3>3, <3>4
  <2> QED BY <2>9, <2>10
<1> QED BY <1>3, <1>12, <1>13, <1>14 DEF OrderSides

\* A fill makes a day trade of an order that was to be one, and of no other.
LEMMA PdtFill == ASSUME PdtInv, NEW o \in resting, FillOrder(o)
                 PROVE  crossed' # {} \/ astray' \/ (Booked /\ WholeSells /\ SentOrSame)'
<1> SUFFICES ASSUME crossed' = {}, ~astray' PROVE (Booked /\ WholeSells /\ SentOrSame)'
  OBVIOUS
<1>1. PICK s, a : /\ s = o.stock
                  /\ a = IF o.side = "buy" THEN shares[s] + o.qty ELSE shares[s] - o.qty
  OBVIOUS
<1>2. /\ resting' = resting \ {o} /\ shares' = [shares EXCEPT ![s] = a]
      /\ UNCHANGED <<tradingDay, dayPart, kept, etick>> /\ crossed = {} /\ ~astray
      /\ openDay' = [openDay EXCEPT ![s] = IF shares[s] <= 0 /\ a > 0 THEN tradingDay ELSE openDay[s]]
      /\ roundTrips' = IF o.side = "sell" /\ shares[s] > 0 /\ openDay[s] = tradingDay
                       THEN OneTrip(roundTrips, o.at) ELSE roundTrips
  BY <1>1 DEF FillOrder, clock
<1>3. /\ Booked /\ WholeSells /\ SentOrSame /\ PdtTypes /\ OrderOK(o) /\ s \in Stocks
      /\ shares \in [Stocks -> Int] /\ \A x \in Stocks : shares[x] >= 0
      /\ \A p \in resting : p.stock = s => p = o
  BY <1>1, <1>2 DEF PdtInv, StockInv, OrderOK, SellsCovered, OneEach
<1>4. PICK opened \in [Stocks -> 0 .. EquityDays], days \in Trips :
         /\ Record.opened = opened /\ Record.dayTrades = days
         /\ Noted(days) /\ Opened(opened) /\ RecentDayTrades(days) <= PdtLimit
  BY <1>3 DEF Booked
<1>5. Record'.opened = opened /\ Record'.dayTrades = days
  BY <1>2, <1>4 DEF Record
<1>6. Opened(opened)'
  <2>1. o.side = "sell" => o.qty = shares[o.stock]
    BY <1>3 DEF WholeSells
  <2>2. openDay \in [Stocks -> 0 .. EquityDays]
    BY <1>3 DEF PdtTypes
  <2>3. o.side \in OrderSides /\ o.stock \in Stocks
    BY <1>3 DEF OrderOK
  <2> QED BY <1>1, <1>3, <1>4, <2>1, <2>2, <2>3, FillOpened
<1>7. PdtWindow' = PdtWindow
  BY <1>2 DEF PdtWindow, Within
<1>8. openDay' \in [Stocks -> 0 .. EquityDays] /\ \A x \in Stocks : x # s => openDay'[x] = openDay[x]
  BY <1>2, <1>3, PdtNumbers DEF PdtTypes
<1>9. o.side = "sell" => openDay'[s] = openDay[s] /\ shares[s] > 0
  BY <1>1, <1>2, <1>3 DEF WholeSells, OrderOK, PdtTypes
<1>10. \A p \in resting' : p \in resting /\ p.stock # s /\ p.stock \in Stocks
  BY <1>2, <1>3 DEF PdtInv, StockInv, OrderOK
<1>11. ToBeTrips' = ToBeTrips \ {o}
  <2>1. ASSUME NEW p PROVE p \in ToBeTrips' <=> p \in ToBeTrips \ {o}
    BY <1>2, <1>8, <1>10 DEF ToBeTrips
  <2> QED BY <2>1
<1>12. o.at \in Moments /\ \A m : IsFiniteSet(TripsAt(m)) /\ Cardinality(TripsAt(m)) \in Nat
  BY <1>3, ToBeCounted DEF PdtTypes
<1>13. RecentDayTrades(days)' <= PdtLimit
  BY <1>4, <1>7 DEF RecentDayTrades
<1>14. Noted(days)'
  <2>1. CASE o.side = "sell" /\ openDay[s] = tradingDay
    <3>1. o \in ToBeTrips
      BY <1>1, <2>1 DEF ToBeTrips
    <3>2. ASSUME NEW m PROVE Cardinality(TripsAt(m)') = Cardinality(TripsAt(m)) - (IF m = o.at THEN 1 ELSE 0)
      <4>1. CASE m = o.at
        <5>1. TripsAt(m)' = TripsAt(m) \ {o} /\ o \in TripsAt(m)
          BY <1>11, <3>1, <4>1 DEF TripsAt
        <5> QED BY <1>12, <4>1, <5>1, FS_RemoveElement
      <4>2. CASE m # o.at
        <5>1. TripsAt(m)' = TripsAt(m)
          BY <1>11, <4>2 DEF TripsAt
        <5> QED BY <1>12, <4>2, <5>1
      <4> QED BY <4>1, <4>2
    <3>3. roundTrips' = OneTrip(roundTrips, o.at)
      BY <1>2, <1>9, <2>1
    <3>4. \A d \in Moments : roundTrips'[d] = IF d = o.at THEN roundTrips[d] + 1 ELSE roundTrips[d]
      BY <1>3, <1>12, <3>3, TripMore DEF PdtTypes
    <3>5. ASSUME NEW d \in PdtWindow PROVE roundTrips'[d] + Cardinality(TripsAt(d)') <= days[d]
      <4>1. d \in Moments /\ roundTrips[d] \in Nat /\ days[d] \in Nat
        BY <1>3, PdtNumbers DEF PdtTypes, Trips
      <4>2. roundTrips[d] + Cardinality(TripsAt(d)) <= days[d]
        BY <1>4 DEF Noted
      <4> QED BY <1>12, <3>2, <3>4, <4>1, <4>2
    <3> QED BY <1>2, <1>7, <3>5 DEF Noted
  <2>2. CASE ~(o.side = "sell" /\ openDay[s] = tradingDay)
    <3>1. o \notin ToBeTrips /\ roundTrips' = roundTrips
      BY <1>1, <1>2, <2>2 DEF ToBeTrips
    <3>2. \A m : TripsAt(m)' = TripsAt(m)
      BY <1>11, <3>1 DEF TripsAt
    <3> QED BY <1>2, <1>4, <1>7, <3>1, <3>2 DEF Noted
  <2> QED BY <2>1, <2>2
<1>15. Booked'
  BY <1>4, <1>5, <1>6, <1>13, <1>14 DEF Booked
<1>16. WholeSells'
  <2>1. \A x \in Stocks : x # s => shares'[x] = shares[x]
    BY <1>2, <1>3
  <2> QED BY <1>2, <1>3, <1>10, <2>1 DEF WholeSells
<1> QED BY <1>2, <1>3, <1>15, <1>16 DEF SentOrSame

\* No step breaks the invariant of the day trades.
LEMMA PdtMoves == PdtInv /\ [EquityNext]_equityVars => PdtInv'
<1> SUFFICES ASSUME PdtInv, [EquityNext]_equityVars PROVE PdtInv'
  OBVIOUS
<1> DEFINE Goal == crossed' # {} \/ astray' \/ (Booked /\ WholeSells /\ SentOrSame)'
<1>1. StockInv'
  BY StockMoves DEF PdtInv
<1>2. CASE UNCHANGED equityVars
  <2>1. UNCHANGED <<shares, resting, openDay, roundTrips, tradingDay, dayPart, kept, etick, crossed, astray>>
    BY <1>2 DEF equityVars, market, clock
  <2>2. PdtTypes'
    BY <2>1 DEF PdtInv, PdtTypes
  <2>3. CASE crossed # {} \/ astray
    BY <1>1, <2>1, <2>2, <2>3 DEF PdtInv
  <2>4. CASE crossed = {} /\ ~astray
    <3>1. Booked /\ WholeSells /\ SentOrSame
      BY <2>4 DEF PdtInv
    <3>2. PICK opened, days : Record.opened = opened /\ Record.dayTrades = days
      OBVIOUS
    <3>3. Record'.opened = opened /\ Record'.dayTrades = days
      BY <2>1, <3>2 DEF Record
    <3>4. Booked' /\ WholeSells'
      BY <2>1, <3>1, <3>2, <3>3, RecordStands
    <3>5. SentOrSame'
      BY <2>1, <3>1 DEF SentOrSame
    <3> QED BY <1>1, <2>2, <3>4, <3>5 DEF PdtInv
  <2> QED BY <2>3, <2>4
<1>3. CASE EquityNext
  <2>1. PdtTypes'
    BY <1>3, PdtTypesKeep DEF PdtInv
  <2>2. StartEquityTick => Goal
    BY PdtStart
  <2>3. EquityTickLost => Goal
    BY PdtLost
  <2>4. SwitchEquities => Goal
    BY DEF SwitchEquities
  <2>5. NextDayPart \/ NextTradingDay => Goal
    BY PdtTime
  <2>6. (\E s \in Stocks : PassStock(s)) => Goal
    BY PdtPass
  <2>7. (\E s \in Stocks, side \in OrderSides, price \in StockPrices, trading \in Sessions,
            power \in {1, PerTradeUsd}, outcome \in Places :
            TradeStock(s, side, price, trading, power, outcome)) => Goal
    BY PdtTrade
  <2>8. (\E flushed \in BOOLEAN : FinishEquityTick(flushed)) => Goal
    BY PdtFinish
  <2>9. (\E o \in resting : FillOrder(o) \/ DropOrder(o)) => Goal
    <3>1. \A o \in resting : FillOrder(o) => Goal
      BY PdtFill
    <3>2. \A o \in resting : DropOrder(o) => Goal
      BY DEF DropOrder
    <3> QED BY <3>1, <3>2
  <2> HIDE DEF Goal
  <2>10. Goal
    BY <1>3, <2>2, <2>3, <2>4, <2>5, <2>6, <2>7, <2>8, <2>9 DEF EquityNext
  <2> QED BY <1>1, <2>1, <2>10 DEF PdtInv, Goal
<1> QED BY <1>2, <1>3

\* Where no day was closed, the rule's window is no longer than the one counted.
LEMMA RuleCounted == ASSUME PdtTypes, Unbroken PROVE RuleWindow \subseteq PdtWindow
<1> SUFFICES ASSUME NEW m \in RuleWindow PROVE m \in PdtWindow
  OBVIOUS
<1>1. PICK d : d = m[1]
  OBVIOUS
<1>2. m \in Moments /\ d \in Int /\ d >= 1 /\ tradingDay \in Int /\ Cardinality((d..tradingDay) \ Closed) <= PdtDays
  BY <1>1 DEF RuleWindow, Moments, PdtTypes
<1>3. ASSUME d <= tradingDay - PdtDays PROVE FALSE
  <2>1. PICK b : b = tradingDay - PdtDays
    OBVIOUS
  <2>2. b \in Int /\ d <= b /\ b <= tradingDay
    BY <1>2, <1>3, <2>1, PdtNumbers
  <2>3. IsFiniteSet(b..tradingDay) /\ Cardinality(b..tradingDay) = tradingDay - b + 1 /\ IsFiniteSet(d..tradingDay)
    BY <1>2, <2>2, FS_Interval
  <2>4. b..tradingDay \subseteq (d..tradingDay) \ Closed
    <3>1. ASSUME NEW n \in b..tradingDay, n \in Closed PROVE FALSE
      <4>1. n < tradingDay - PdtDays \/ n > tradingDay
        BY <3>1 DEF Unbroken
      <4> QED BY <1>2, <2>1, <2>2, <3>1, <4>1
    <3> QED BY <1>2, <2>2, <3>1
  <2>5. IsFiniteSet((d..tradingDay) \ Closed)
    BY <2>3, FS_Subset
  <2>6. Cardinality(b..tradingDay) <= Cardinality((d..tradingDay) \ Closed)
    BY <2>4, <2>5, FS_Subset
  <2>7. Cardinality((d..tradingDay) \ Closed) \in Nat
    BY <2>5, FS_CardinalityType
  <2> QED BY <1>2, <2>1, <2>2, <2>3, <2>6, <2>7, PdtNumbers
<1>4. d > tradingDay - PdtDays
  BY <1>2, <1>3, PdtNumbers
<1> QED BY <1>1, <1>2, <1>4 DEF PdtWindow, Within

\* The day trades there were are among those noted, and those are no more than allowed.
LEMMA PdtInvKeeps == PdtInv => PdtHolds
<1> SUFFICES ASSUME PdtInv, crossed = {}, ~astray
             PROVE  /\ RecentDayTrades(roundTrips) <= PdtLimit
                    /\ Unbroken => TripsIn(roundTrips, RuleWindow) <= PdtLimit
  BY DEF PdtHolds
<1>1. PdtTypes /\ Booked
  BY DEF PdtInv
<1>2. PICK days \in Trips : Noted(days) /\ RecentDayTrades(days) <= PdtLimit
  BY <1>1 DEF Booked
<1>3. roundTrips \in Trips /\ \A m : Cardinality(TripsAt(m)) \in Nat
  BY <1>1, ToBeCounted DEF PdtTypes
<1>4. \A d \in PdtWindow : roundTrips[d] <= days[d]
  <2>1. ASSUME NEW d \in PdtWindow PROVE roundTrips[d] <= days[d]
    <3>1. roundTrips[d] \in Nat /\ days[d] \in Nat
      BY <1>3, PdtNumbers DEF Trips
    <3>2. roundTrips[d] + Cardinality(TripsAt(d)) <= days[d]
      BY <1>2 DEF Noted
    <3> QED BY <1>3, <3>1, <3>2
  <2> QED BY <2>1
<1>5. RecentDayTrades(roundTrips) <= RecentDayTrades(days)
  BY <1>3, <1>4, TripsCompare
<1>6. RecentDayTrades(roundTrips) \in Nat /\ RecentDayTrades(days) \in Nat
  BY <1>3, TripsCounted
<1>7. RecentDayTrades(roundTrips) <= PdtLimit
  BY <1>2, <1>5, <1>6, PdtNumbers
<1>8. ASSUME Unbroken PROVE TripsIn(roundTrips, RuleWindow) <= PdtLimit
  <2>1. PICK W, V, f : W = PdtWindow /\ V = RuleWindow /\ f = roundTrips
    OBVIOUS
  <2>2. IsFiniteSet(W) /\ V \subseteq W /\ W \subseteq Moments
    BY <1>1, <1>8, <2>1, PdtNumbers, RuleCounted
  <2>3. \A d \in W : f[d] \in Nat
    BY <1>3, <2>1, <2>2 DEF Trips
  <2>4. \A d \in V : f[d] \in Int /\ f[d] <= f[d]
    BY <2>2, <2>3
  <2>5. SumOf(f, V) \in Int /\ SumOf(f, V) <= SumOf(f, W)
    BY <2>2, <2>3, <2>4, SumsCompare
  <2>6. TripsIn(f, V) = SumOf(f, V)
    BY DEF TripsIn, SumOf
  <2>7. RecentDayTrades(f) = SumOf(f, W)
    BY <1>3, <2>1, TripsCounted
  <2> QED BY <1>6, <1>7, <2>1, <2>5, <2>6, <2>7, PdtNumbers
<1> QED BY <1>7, <1>8

\* The pattern day trader rule, for any limit, any watchlist, any parts of a day and any days
\* closed, whatever the prices, sessions, power and outcomes: while no order was sent on top of
\* an unfilled one and nothing went astray, no more positions are opened and closed on one day
\* than allowed in as many times 24 hours, nor in as many days of the market when none of the
\* days looked at was closed.
THEOREM DayTradesAreFew == EquitySpec => []PdtHolds
<1>1. EquitySpec => []PdtInv
  BY PdtStarts, PdtMoves, PTL DEF EquitySpec
<1> QED BY <1>1, PdtInvKeeps, PTL

\* However orders cross: a broker that is linked, whole halves of shares and orders for them.
SharesTyped ==
    /\ broker \in Linkable /\ shares \in [Stocks -> Int] /\ eticks \in 0..EquityTicks
    /\ \A o \in resting : o.stock \in Stocks /\ o.qty \in Int /\ {"stock", "qty"} \subseteq DOMAIN o
    /\ etick # <<>> => etick[1].held \in [Stocks -> Int]

\* The broker traded through is one of the linked.
LEMMA PrimaryLinked == ASSUME NEW linked \in SUBSET Linkable, linked # {} PROVE Primary(linked) \in linked
<1> DEFINE best(i) == Priority[i] \in linked /\ \A j \in 1..i - 1 : Priority[j] \notin linked
<1>1. DOMAIN Priority = 1..5
  BY DEF Priority
<1>2. \E i \in 1..5 : Priority[i] \in linked
  BY <1>1, EquityConstants
<1>3. \E i \in 1..5 : best(i)
  <2>1. CASE Priority[1] \in linked
    BY <2>1
  <2>2. CASE Priority[1] \notin linked /\ Priority[2] \in linked
    <3>1. \A j \in 1..2 - 1 : j = 1
      OBVIOUS
    <3> QED BY <2>2, <3>1
  <2>3. CASE Priority[1] \notin linked /\ Priority[2] \notin linked /\ Priority[3] \in linked
    <3>1. \A j \in 1..3 - 1 : j = 1 \/ j = 2
      OBVIOUS
    <3> QED BY <2>3, <3>1
  <2>4. CASE Priority[1] \notin linked /\ Priority[2] \notin linked /\ Priority[3] \notin linked /\ Priority[4] \in linked
    <3>1. \A j \in 1..4 - 1 : j = 1 \/ j = 2 \/ j = 3
      OBVIOUS
    <3> QED BY <2>4, <3>1
  <2>5. CASE \A j \in 1..4 : Priority[j] \notin linked
    <3>1. \A j \in 1..5 : j \in 1..4 \/ j = 5
      OBVIOUS
    <3>2. \A j \in 1..5 - 1 : j \in 1..4
      OBVIOUS
    <3> QED BY <1>2, <2>5, <3>1, <3>2
  <2>6. \A j \in 1..4 : j = 1 \/ j = 2 \/ j = 3 \/ j = 4
    OBVIOUS
  <2> QED BY <2>1, <2>2, <2>3, <2>4, <2>5, <2>6
<1>4. PICK n : n = CHOOSE i \in DOMAIN Priority : best(i)
  OBVIOUS
<1>5. best(n)
  <2>1. \E i \in DOMAIN Priority : best(i)
    BY <1>1, <1>3
  <2> HIDE DEF best
  <2> QED BY <1>4, <2>1
<1> QED BY <1>4, <1>5 DEF Primary

\* Nothing is held.
LEMMA SharesTypedStart == EquityInit => SharesTyped
<1> SUFFICES ASSUME EquityInit PROVE SharesTyped
  OBVIOUS
<1>1. broker \in Linkable
  BY PrimaryLinked DEF EquityInit
<1> QED BY <1>1, EquityConstants DEF EquityInit, SharesTyped

\* A signal traded keeps the types.
LEMMA TradeTyped ==
    ASSUME StockInv, SharesTyped, NEW s \in Stocks, NEW side \in OrderSides, NEW price \in StockPrices,
           NEW hours \in Sessions, NEW power \in {1, PerTradeUsd}, NEW outcome \in Places,
           TradeStock(s, side, price, hours, power, outcome)
    PROVE  SharesTyped'
<1>1. PICK t : etick = <<t>> /\ StockTick(t)
  BY DEF StockInv, TradeStock, StockInTurn
<1>2. PICK q, w, u, o :
          /\ q = Decide(side, s, t, price, hours, power)
          /\ w = IF outcome.ok THEN Note(t, side, s) ELSE t
          /\ u = [NextStock(w, s) EXCEPT !.sent = TRUE]
          /\ o = Order(s, side, q)
  OBVIOUS
<1>3. /\ q > 0 /\ UNCHANGED <<shares, broker, eticks>> /\ etick' = <<u>>
      /\ resting' = IF outcome.landed THEN resting \union {o} ELSE resting
  BY <1>1, <1>2 DEF TradeStock, clock
<1>4. DOMAIN w = DOMAIN t /\ w.held = t.held
  BY <1>1, <1>2 DEF Note, NoteBuy, NoteSell, StockTick
<1>5. u.held = t.held
  BY <1>1, <1>2, <1>4 DEF NextStock, StockTick
<1>6. t.held \in [Stocks -> Int] /\ power \in Nat
  BY <1>1, EquityConstants DEF SharesTyped
<1>7. q \in Int
  BY <1>2, <1>3, <1>6, OrderedWhole DEF OrderSides
<1>8. o.stock = s /\ o.qty = q /\ {"stock", "qty"} \subseteq DOMAIN o
  BY <1>2 DEF Order
<1>9. \A p \in resting' : p.stock \in Stocks /\ p.qty \in Int /\ {"stock", "qty"} \subseteq DOMAIN p
  BY <1>3, <1>7, <1>8 DEF SharesTyped
<1> QED BY <1>3, <1>5, <1>6, <1>9 DEF SharesTyped

\* A fill adds or takes whole halves.
LEMMA FillTyped == ASSUME SharesTyped, NEW o \in resting, FillOrder(o) PROVE SharesTyped'
<1>1. PICK n : n = IF o.side = "buy" THEN shares[o.stock] + o.qty ELSE shares[o.stock] - o.qty
  OBVIOUS
<1>2. n \in Int
  BY <1>1 DEF SharesTyped
<1>3. shares' = [shares EXCEPT ![o.stock] = n] /\ resting' = resting \ {o} /\ UNCHANGED <<broker, eticks, etick>>
  BY <1>1 DEF FillOrder, clock
<1> QED BY <1>2, <1>3 DEF SharesTyped

\* Every step keeps the types.
LEMMA SharesTypedStep == StockInv /\ SharesTyped /\ [EquityNext]_equityVars => SharesTyped'
<1> SUFFICES ASSUME StockInv, SharesTyped, [EquityNext]_equityVars PROVE SharesTyped'
  OBVIOUS
<1>1. UNCHANGED equityVars => SharesTyped'
  BY DEF SharesTyped, equityVars, market, clock
<1>2. ASSUME StartEquityTick PROVE SharesTyped'
  <2>1. eticks' \in 0..EquityTicks
    BY <1>2, EquityConstants DEF StartEquityTick, SharesTyped
  <2>2. etick'[1].held = shares /\ UNCHANGED <<broker, shares, resting>>
    BY <1>2 DEF StartEquityTick, market
  <2> QED BY <2>1, <2>2 DEF SharesTyped
<1>3. EquityTickLost \/ SwitchEquities \/ (\E flushed \in BOOLEAN : FinishEquityTick(flushed)) => SharesTyped'
  <2>1. EquityTickLost \/ SwitchEquities \/ (\E flushed \in BOOLEAN : FinishEquityTick(flushed))
          => UNCHANGED <<broker, shares, eticks, resting>> /\ etick' \in {<<>>, etick}
    BY DEF EquityTickLost, SwitchEquities, FinishEquityTick, market, clock
  <2> QED BY <2>1 DEF SharesTyped
<1>4. NextDayPart \/ NextTradingDay => SharesTyped'
  BY DEF NextDayPart, NextTradingDay, SharesTyped, market
<1>5. ASSUME NEW s \in Stocks, PassStock(s) PROVE SharesTyped'
  <2>1. PICK t : etick = <<t>> /\ StockTick(t)
    BY <1>5 DEF StockInv, PassStock, StockInTurn
  <2>2. NextStock(t, s).held = t.held
    BY <2>1 DEF NextStock, StockTick
  <2>3. etick' = <<NextStock(t, s)>> /\ UNCHANGED <<broker, shares, eticks, resting>>
    BY <1>5, <2>1 DEF PassStock, market, clock
  <2> QED BY <2>1, <2>2, <2>3 DEF SharesTyped
<1>6. (\E s \in Stocks : PassStock(s)) => SharesTyped'
  BY <1>5
<1>7. (\E s \in Stocks, side \in OrderSides, price \in StockPrices, trading \in Sessions,
          power \in {1, PerTradeUsd}, outcome \in Places :
          TradeStock(s, side, price, trading, power, outcome)) => SharesTyped'
  BY TradeTyped
<1>8. ASSUME NEW o \in resting, DropOrder(o) PROVE SharesTyped'
  BY <1>8 DEF DropOrder, SharesTyped, clock
<1>9. (\E o \in resting : FillOrder(o) \/ DropOrder(o)) => SharesTyped'
  BY <1>8, FillTyped
<1> QED BY <1>1, <1>2, <1>3, <1>4, <1>6, <1>7, <1>9 DEF EquityNext

\* The types of the equities worker's variables.
LEMMA EquityTypesAre == EquitySpec => []EquityTypeOK
<1>1. EquitySpec => []PdtInv
  BY PdtStarts, PdtMoves, PTL DEF EquitySpec
<1>2. PdtInv => StockInv
  BY DEF PdtInv
<1>3. EquitySpec => []SharesTyped
  BY <1>1, <1>2, SharesTypedStart, SharesTypedStep, PTL DEF EquitySpec
<1>4. PdtInv /\ SharesTyped => EquityTypeOK
  BY DEF PdtInv, PdtTypes, SharesTyped, EquityTypeOK, Trips, Moments
<1> QED BY <1>1, <1>3, <1>4, PTL

-----------------------------------------------------------------------------
(* The candles.  Each snapshot adds one to the volume of its time, and while *)
(* fewer candles are held than are kept, nothing was dropped.                *)

Bar == [time : Int, open : Int, close : Int, volume : Int]
Bars == Seq(Bar)
TimesTo(bars, last) == \A i \in DOMAIN bars : bars[i].time <= last

\* The frames are of some polls each.
LEMMA FrameSizes == ASSUME NEW f \in Frames PROVE FramePolls(f) \in Nat \ {0}
  BY ChartConstants DEF FramePolls

\* Numbers of the charts.
LEMMA ChartNumbers ==
    /\ KeepBars \in Nat \ {0} /\ KeepPending \in Nat \ {0} /\ SnapLag \in Nat /\ ChartBegin \in Nat
    /\ ChartEnd \in Nat /\ MaxCharts \in Nat /\ SnapLag <= ChartBegin /\ ChartBegin <= ChartEnd
  BY ChartConstants

\* A quotient by what is left out of it.
LEMMA Quotient == ASSUME NEW a \in Nat, NEW p \in Nat \ {0}
                  PROVE  a \div p \in Nat /\ (a \div p) * p <= a /\ a < (a \div p) * p + p
  OBVIOUS

\* Later polls are in no earlier candle.
LEMMA BucketsGrow == ASSUME NEW f \in Frames, NEW a \in Nat, NEW b \in Nat, a <= b
                     PROVE  Bucket(f, a) \in Nat /\ Bucket(f, a) <= Bucket(f, b)
<1>1. PICK p \in Nat \ {0} : p = FramePolls(f)
  BY FrameSizes
<1>2. PICK q, r : q = a \div p /\ r = b \div p
  OBVIOUS
<1>3. q \in Nat /\ r \in Nat /\ q * p <= a /\ b < r * p + p
  BY <1>2, Quotient
<1>4. q <= r
  <2>1. SUFFICES ASSUME r + 1 <= q PROVE FALSE
    BY <1>3
  <2>2. PICK d \in Nat : q = r + 1 + d
    <3>1. q - (r + 1) \in Nat /\ q = r + 1 + (q - (r + 1))
      BY <1>3, <2>1
    <3> QED BY <3>1
  <2>3. q * p = r * p + p + d * p /\ d * p \in Nat /\ r * p \in Nat
    BY <1>3, <2>2
  <2> QED BY <1>3, <2>3
<1> QED BY <1>1, <1>2, <1>3, <1>4 DEF Bucket

\* The larger of two.
LEMMA MaxOfTwo == ASSUME NEW a \in Int, NEW b \in Int
                  PROVE  Max({a, b}) \in Int /\ Max({a, b}) = IF a >= b THEN a ELSE b
<1>1. \E m \in {a, b} : \A n \in {a, b} : m >= n
  OBVIOUS
<1>2. Max({a, b}) \in {a, b} /\ \A n \in {a, b} : Max({a, b}) >= n
  BY <1>1 DEF Max
<1> QED BY <1>2

\* The smaller of two.
LEMMA MinOfTwo == ASSUME NEW a \in Int, NEW b \in Int PROVE Min({a, b}) \in {a, b}
<1>1. \E m \in {a, b} : \A n \in {a, b} : m <= n
  OBVIOUS
<1> QED BY <1>1 DEF Min

\* The last n of a sequence.
LEMMA LastOfIs ==
    ASSUME NEW S, NEW s \in Seq(S), NEW n \in Nat \ {0}
    PROVE  /\ LastOf(s, n) \in Seq(S) /\ Len(LastOf(s, n)) <= n
           /\ Len(LastOf(s, n)) < n => LastOf(s, n) = s
           /\ \A i \in DOMAIN LastOf(s, n) : \E j \in DOMAIN s : LastOf(s, n)[i] = s[j]
<1>1. PICK k, l : l = Len(s) /\ k = Max({1, l - n + 1})
  OBVIOUS
<1>2. l \in Nat /\ k \in Int /\ k = IF 1 >= l - n + 1 THEN 1 ELSE l - n + 1
  BY <1>1, MaxOfTwo
<1>3. PICK t : t = SubSeq(s, k, l)
  OBVIOUS
<1>4. t = LastOf(s, n)
  BY <1>1, <1>3 DEF LastOf
<1>5. \A i \in k .. l : i \in 1 .. l
  BY <1>2
<1>6. t \in Seq(S) /\ Len(t) = (IF k <= l THEN l - k + 1 ELSE 0) /\ \A i \in 1 .. Len(t) : t[i] = s[k + i - 1]
  <2>1. \A i \in k .. l : s[i] \in S
    <3>1. \A i \in 1 .. l : s[i] \in S
      BY <1>1
    <3> QED BY <1>5, <3>1
  <2>2. /\ t \in Seq(S) /\ Len(t) = IF k <= l THEN l - k + 1 ELSE 0
        /\ \A i \in 1 .. l - k + 1 : t[i] = s[k + i - 1]
    BY <1>2, <1>3, <2>1, SubSeqProperties
  <2> QED BY <1>2, <2>2
<1>7. \A i \in DOMAIN t : \E j \in DOMAIN s : t[i] = s[j]
  <2>1. ASSUME NEW i \in 1 .. Len(t) PROVE k + i - 1 \in 1 .. l
    BY <1>2, <1>6
  <2>2. DOMAIN t = 1 .. Len(t) /\ DOMAIN s = 1 .. l
    BY <1>1, <1>6
  <2> QED BY <1>6, <2>1, <2>2
<1>8. Len(t) < n => t = s
  <2>1. SUFFICES ASSUME Len(t) < n PROVE t = s
    OBVIOUS
  <2>2. k = 1 /\ Len(t) = l
    BY <1>2, <1>6, <2>1
  <2>3. \A i \in 1 .. l : t[i] = s[i]
    BY <1>6, <2>2
  <2> QED BY <1>1, <1>6, <2>2, <2>3
<1> QED BY <1>2, <1>4, <1>6, <1>7, <1>8

\* Volumes of candles as a function of their positions.
Volumes(bars) == [i \in DOMAIN bars |-> bars[i].volume]
On(bars, time) == {i \in DOMAIN bars : bars[i].time = time}

\* What the candles of a time hold, as a sum.
LEMMA VolumeIs == ASSUME NEW bars, NEW time PROVE VolumeOf(bars, time) = SumOf(Volumes(bars), On(bars, time))
  BY DEF VolumeOf, SumOf, Volumes, On

\* It is a number.
LEMMA VolumeInt == ASSUME NEW bars \in Bars, NEW time
                   PROVE  /\ VolumeOf(bars, time) \in Int /\ IsFiniteSet(On(bars, time))
                          /\ \A i \in On(bars, time) : Volumes(bars)[i] \in Int
<1> DEFINE S == On(bars, time)
           v == Volumes(bars)
<1>1. IsFiniteSet(S)
  <2>1. S \subseteq 1 .. Len(bars) /\ Len(bars) \in Nat
    BY DEF Bars, On
  <2>2. IsFiniteSet(1 .. Len(bars))
    BY <2>1, FS_Interval
  <2> QED BY <2>1, <2>2, FS_Subset
<1>2. \A i \in S : v[i] \in Int
  <2>1. \A i \in DOMAIN bars : bars[i] \in Bar
    BY DEF Bars
  <2>2. \A i \in DOMAIN bars : bars[i].volume \in Int
    BY <2>1 DEF Bar
  <2> QED BY <2>2 DEF Volumes, On
<1> HIDE DEF S, v
<1>3. SumOf(v, S) \in Int
  BY <1>1, <1>2, SumsAgree
<1> QED BY <1>1, <1>2, <1>3, VolumeIs DEF S, v

\* The last candle is exchanged for one of its time with one more.
Refined(bars, put, next, time) ==
    /\ next \in Bars /\ Len(next) = Len(bars) /\ \A i \in 1 .. Len(bars) : next[i].time = bars[i].time
    /\ VolumeOf(next, time) = VolumeOf(bars, time) + IF bars[Len(bars)].time = time THEN 1 ELSE 0

\* A candle's close and volume change: one more at its time.
LEMMA OneMoreIn ==
    ASSUME NEW bars \in Bars, Len(bars) > 0, NEW time, NEW put \in Bar,
           put.time = bars[Len(bars)].time, put.volume = bars[Len(bars)].volume + 1,
           NEW next \in [1 .. Len(bars) -> Bar], next[Len(bars)] = put,
           \A i \in 1 .. Len(bars) : i # Len(bars) => next[i] = bars[i]
    PROVE  Refined(bars, put, next, time)
<1> DEFINE n == Len(bars)
<1>2. n \in Nat /\ n \in 1 .. n /\ bars \in [1 .. n -> Bar]
  BY SMTT(40) DEF Bars
<1>3. PICK last \in Bar : last = bars[n]
  BY <1>2
<1>5. put \in Bar /\ put.time = last.time /\ put.volume = last.volume + 1
  BY <1>3
<1>7. /\ next \in [1 .. n -> Bar] /\ next[n] = put /\ \A i \in 1 .. n : i # n => next[i] = bars[i]
  OBVIOUS
<1>8. next \in Bars /\ Len(next) = n /\ \A i \in 1 .. n : next[i].time = bars[i].time
  BY <1>2, <1>3, <1>5, <1>7, SMTT(40) DEF Bars
<1> DEFINE S == On(bars, time)
           v == Volumes(bars)
           w == Volumes(next)
<1>9. On(next, time) = S
  BY <1>2, <1>7, <1>8 DEF On
<1>10. IsFiniteSet(S) /\ (\A i \in S : v[i] \in Int) /\ VolumeOf(bars, time) = SumOf(v, S)
  BY VolumeInt, VolumeIs
<1>11. VolumeOf(next, time) = SumOf(w, S)
  BY <1>9, VolumeIs, ZenonT(40)
<1>12. \A i \in 1 .. n : v[i] = bars[i].volume /\ w[i] = next[i].volume
  BY <1>2, <1>7, ZenonT(60) DEF Volumes
<1>13. S \subseteq 1 .. n /\ (n \in S <=> bars[n].time = time)
  BY <1>2, ZenonT(60) DEF On
<1> HIDE DEF S, v, w, n
<1>14. CASE bars[n].time = time
  <2>1. w[n] = v[n] + 1 /\ n \in S /\ 1 \in Int
    BY <1>2, <1>3, <1>5, <1>7, <1>12, <1>13, <1>14
  <2>2. \A i \in S \ {n} : w[i] = v[i]
    BY <1>7, <1>12, <1>13, ZenonT(60)
  <2>3. SumOf(w, S) = SumOf(v, S) + 1
    BY <1>10, <2>1, <2>2, SumChanges
  <2> QED BY <1>8, <1>10, <1>11, <1>14, <2>3 DEF n, Refined
<1>15. CASE bars[n].time # time
  <2>1. \A i \in S : v[i] \in Int /\ w[i] = v[i]
    BY <1>7, <1>10, <1>12, <1>13, <1>15
  <2>2. SumOf(w, S) = SumOf(v, S)
    BY <1>10, <2>1, SumsAgree
  <2>3. SumOf(v, S) \in Int
    BY <1>10, VolumeInt
  <2>4. VolumeOf(next, time) = VolumeOf(bars, time) /\ VolumeOf(bars, time) \in Int
    BY <1>10, <1>11, <2>2, <2>3
  <2>5. VolumeOf(next, time) = VolumeOf(bars, time) + IF bars[n].time = time THEN 1 ELSE 0
    BY <1>15, <2>4
  <2> QED BY <1>8, <2>5 DEF n, Refined
<1> QED BY <1>14, <1>15

\* A candle more: one more at its time.
LEMMA BarMore ==
    ASSUME NEW bars \in Bars, NEW bar \in Bar, bar.volume = 1, NEW time
    PROVE  LET next == Append(bars, bar)
           IN /\ next \in Bars /\ Len(next) = Len(bars) + 1
              /\ \A i \in 1 .. Len(bars) : next[i].time = bars[i].time
              /\ next[Len(bars) + 1].time = bar.time
              /\ VolumeOf(next, time) = VolumeOf(bars, time) + IF bar.time = time THEN 1 ELSE 0
<1> DEFINE n == Len(bars)
<1>1. PICK next : next = Append(bars, bar)
  OBVIOUS
<1>2. n \in Nat /\ bars \in [1 .. n -> Bar] /\ n + 1 \notin 1 .. n
  BY DEF Bars
<1>3. /\ next \in Bars /\ Len(next) = n + 1 /\ next[n + 1] = bar /\ DOMAIN next = 1 .. n + 1
      /\ \A i \in 1 .. n : next[i] = bars[i]
  BY <1>1 DEF Bars
<1> DEFINE S == On(bars, time)
           v == Volumes(bars)
           w == Volumes(next)
<1>4. IsFiniteSet(S) /\ (\A i \in S : v[i] \in Int) /\ VolumeOf(bars, time) = SumOf(v, S)
  BY VolumeInt, VolumeIs
<1>5. \A i \in 1 .. n : v[i] = bars[i].volume /\ w[i] = bars[i].volume
  BY <1>2, <1>3 DEF Volumes
<1>6. w[n + 1] = 1
  BY <1>2, <1>3 DEF Volumes
<1>7. S \subseteq 1 .. n /\ n + 1 \notin S
  BY <1>2 DEF On
<1>8. On(next, time) = IF bar.time = time THEN S \union {n + 1} ELSE S
  BY <1>2, <1>3 DEF On
<1>9. VolumeOf(next, time) = SumOf(w, On(next, time))
  BY VolumeIs
<1>10. VolumeOf(bars, time) \in Int
  BY VolumeInt
<1> HIDE DEF S, v, w
<1>11. \A i \in S : v[i] \in Int /\ w[i] = v[i]
  BY <1>4, <1>5, <1>7
<1>12. \A i \in S : w[i] \in Int
  BY <1>11
<1>13. SumOf(w, S) = SumOf(v, S)
  BY <1>4, <1>11, SumsAgree
<1>14. SumOf(w, S \union {n + 1}) = SumOf(w, S) + w[n + 1]
  <2>1. PICK x : x = n + 1
    OBVIOUS
  <2>2. x \notin S /\ w[x] \in Int
    BY <1>6, <1>7, <2>1
  <2>3. SumOf(w, S \union {x}) = SumOf(w, S) + w[x]
    BY <1>4, <1>12, <2>2, SumInsert
  <2> QED BY <2>1, <2>3
<1>15. VolumeOf(next, time) = VolumeOf(bars, time) + IF bar.time = time THEN 1 ELSE 0
  <2>1. CASE bar.time = time
    BY <1>4, <1>6, <1>8, <1>9, <1>13, <1>14, <2>1
  <2>2. CASE bar.time # time
    BY <1>4, <1>8, <1>9, <1>10, <1>13, <2>2
  <2> QED BY <2>1, <2>2
<1> QED BY <1>1, <1>2, <1>3, <1>15

\* What one snapshot makes of the candles of a frame.
LEMMA AppliedIs ==
    ASSUME NEW bars \in Bars, NEW f \in Frames, NEW ts \in Nat, NEW last \in Int
    PROVE  LET next == Applied(bars, f, ts)
           IN /\ next \in Bars /\ Len(next) <= KeepBars
              /\ TimesTo(bars, last) /\ Bucket(f, ts) <= last => TimesTo(next, last)
              /\ Len(next) < KeepBars =>
                    /\ Len(bars) < KeepBars
                    /\ \A time : VolumeOf(next, time) = VolumeOf(bars, time) + IF Bucket(f, ts) = time THEN 1 ELSE 0
<1> DEFINE n == Len(bars)
           time0 == Bucket(f, ts)
<1>1. PICK longer : longer = IF n > 0 /\ bars[n].time = time0
                             THEN [bars EXCEPT ![n].close = ts, ![n].volume = @ + 1]
                             ELSE Append(bars, [time |-> time0, open |-> ts, close |-> ts, volume |-> 1])
  OBVIOUS
<1>2. PICK next : next = Applied(bars, f, ts)
  OBVIOUS
<1>3. next = LastOf(longer, KeepBars)
  BY <1>1, <1>2 DEF Applied
<1>4. n \in Nat /\ time0 \in Int /\ KeepBars \in Nat \ {0} /\ \A i \in DOMAIN bars : bars[i].time \in Int
  <2>1. \A i \in DOMAIN bars : bars[i] \in Bar
    BY DEF Bars
  <2>2. time0 \in Nat
    BY BucketsGrow
  <2> QED BY <2>1, <2>2, ChartNumbers DEF Bar, Bars
<1>5. /\ longer \in Bars /\ Len(longer) >= n
      /\ \A i \in DOMAIN longer : longer[i].time = time0 \/ \E j \in DOMAIN bars : longer[i].time = bars[j].time
      /\ \A time : VolumeOf(longer, time) = VolumeOf(bars, time) + IF time0 = time THEN 1 ELSE 0
  <2> HIDE DEF time0
  <2>1. CASE n > 0 /\ bars[n].time = time0
    <3>1. longer = [bars EXCEPT ![n].close = ts, ![n].volume = @ + 1]
      BY <1>1, <2>1
    <3>2. /\ longer \in Bars /\ Len(longer) = n /\ \A i \in 1 .. n : longer[i].time = bars[i].time
          /\ \A time : VolumeOf(longer, time) = VolumeOf(bars, time) + IF bars[n].time = time THEN 1 ELSE 0
      <4>1. PICK m : m = n
        OBVIOUS
      <4>2. m = Len(bars) /\ m > 0 /\ m \in DOMAIN bars /\ longer = [bars EXCEPT ![m].close = ts, ![m].volume = @ + 1]
        BY <1>4, <2>1, <3>1, <4>1 DEF Bars
      <4>3. PICK old \in Bar : old = bars[m]
        BY <4>2 DEF Bars
      <4>4. PICK put : put = [old EXCEPT !.close = ts, !.volume = old.volume + 1]
        OBVIOUS
      <4>5. old.volume + 1 \in Int /\ DOMAIN old = {"time", "open", "close", "volume"}
        BY <4>3 DEF Bar
      <4>6. put \in Bar /\ put.time = bars[m].time /\ put.volume = bars[m].volume + 1
        <5>1. old.time \in Int /\ old.open \in Int /\ ts \in Int
          BY <4>3 DEF Bar
        <5>2. put \in Bar /\ put.time = old.time /\ put.volume = old.volume + 1
          BY <4>4, <4>5, <5>1 DEF Bar
        <5> QED BY <4>3, <5>2
      <4>7. longer = [bars EXCEPT ![m] = put]
        BY <4>2, <4>3, <4>4
      <4>8. ASSUME NEW time
            PROVE  /\ longer \in Bars /\ Len(longer) = m /\ \A i \in 1 .. m : longer[i].time = bars[i].time
                   /\ VolumeOf(longer, time) = VolumeOf(bars, time) + IF bars[m].time = time THEN 1 ELSE 0
        <5>1. Len(bars) > 0 /\ put.time = bars[Len(bars)].time /\ put.volume = bars[Len(bars)].volume + 1
          BY <4>2, <4>6
        <5>2. /\ longer \in [1 .. Len(bars) -> Bar] /\ longer[Len(bars)] = put
              /\ \A i \in 1 .. Len(bars) : i # Len(bars) => longer[i] = bars[i]
          BY <4>2, <4>6, <4>7 DEF Bars
        <5>3. Refined(bars, put, longer, time)
          BY <4>2, <4>6, <5>1, <5>2, OneMoreIn
        <5> QED BY <4>2, <5>3 DEF Refined
      <4> QED BY <4>1, <4>8
    <3>3. DOMAIN longer = 1 .. n /\ DOMAIN bars = 1 .. n
      BY <3>2 DEF Bars
    <3> QED BY <1>4, <2>1, <3>2, <3>3
  <2>2. CASE ~(n > 0 /\ bars[n].time = time0)
    <3>1. PICK bar : bar = [time |-> time0, open |-> ts, close |-> ts, volume |-> 1]
      OBVIOUS
    <3>2. longer = Append(bars, bar) /\ bar \in Bar /\ bar.volume = 1 /\ bar.time = time0
      BY <1>1, <1>4, <2>2, <3>1 DEF Bar
    <3>3. /\ longer \in Bars /\ Len(longer) = n + 1 /\ \A i \in 1 .. n : longer[i].time = bars[i].time
          /\ longer[n + 1].time = bar.time
          /\ \A time : VolumeOf(longer, time) = VolumeOf(bars, time) + IF bar.time = time THEN 1 ELSE 0
      BY <3>2, BarMore
    <3>4. DOMAIN longer = 1 .. n + 1 /\ DOMAIN bars = 1 .. n
      BY <3>3 DEF Bars
    <3>5. ASSUME NEW i \in 1 .. n + 1 PROVE longer[i].time = time0 \/ \E j \in 1 .. n : longer[i].time = bars[j].time
      <4>1. i \in 1 .. n \/ i = n + 1
        BY <1>4
      <4> QED BY <3>2, <3>3, <4>1
    <3> QED BY <1>4, <3>2, <3>3, <3>4, <3>5
  <2> QED BY <2>1, <2>2
<1>6. /\ next \in Bars /\ Len(next) <= KeepBars /\ (Len(next) < KeepBars => next = longer)
      /\ \A i \in DOMAIN next : \E j \in DOMAIN longer : next[i] = longer[j]
  BY <1>3, <1>4, <1>5, LastOfIs DEF Bars
<1>7. TimesTo(bars, last) /\ time0 <= last => TimesTo(next, last)
  <2> SUFFICES ASSUME TimesTo(bars, last), time0 <= last, NEW i \in DOMAIN next PROVE next[i].time <= last
    BY DEF TimesTo
  <2>1. PICK j \in DOMAIN longer : next[i] = longer[j]
    BY <1>6
  <2>2. longer[j].time = time0 \/ \E k \in DOMAIN bars : longer[j].time = bars[k].time
    BY <1>5
  <2> HIDE DEF time0
  <2> QED BY <2>1, <2>2 DEF TimesTo
<1>8. Len(next) < KeepBars => n < KeepBars
  <2>1. Len(longer) \in Nat
    BY <1>5 DEF Bars
  <2> QED BY <1>4, <1>5, <1>6, <2>1
<1> QED BY <1>2, <1>5, <1>6, <1>7, <1>8

\* The snapshots of a time among the first n.
SeenTo(snaps, f, time, n) == Cardinality({i \in 1 .. n : Bucket(f, snaps[i]) = time})

\* One snapshot further.
LEMMA SeenNext ==
    ASSUME NEW snaps, NEW f, NEW time, NEW n \in Nat
    PROVE  /\ SeenTo(snaps, f, time, 0) = 0 /\ SeenTo(snaps, f, time, n) \in Nat
           /\ SeenTo(snaps, f, time, n + 1) = SeenTo(snaps, f, time, n) + IF Bucket(f, snaps[n + 1]) = time THEN 1 ELSE 0
<1> DEFINE S(m) == {i \in 1 .. m : Bucket(f, snaps[i]) = time}
<1>1. IsFiniteSet(S(n)) /\ Cardinality(S(n)) \in Nat
  <2>1. IsFiniteSet(1 .. n) /\ S(n) \subseteq 1 .. n
    BY FS_Interval
  <2>2. IsFiniteSet(S(n))
    BY <2>1, FS_Subset
  <2> QED BY <2>2, FS_CardinalityType
<1>2. S(0) = {} /\ Cardinality({}) = 0
  BY FS_EmptySet
<1>3. n + 1 \notin S(n)
  OBVIOUS
<1>4. S(n + 1) = IF Bucket(f, snaps[n + 1]) = time THEN S(n) \union {n + 1} ELSE S(n)
  OBVIOUS
<1> HIDE DEF S
<1>5. Cardinality(S(n) \union {n + 1}) = Cardinality(S(n)) + 1
  BY <1>1, <1>3, FS_AddElement
<1>6. Cardinality(S(n + 1)) = Cardinality(S(n)) + IF Bucket(f, snaps[n + 1]) = time THEN 1 ELSE 0
  <2>1. CASE Bucket(f, snaps[n + 1]) = time
    BY <1>4, <1>5, <2>1
  <2>2. CASE Bucket(f, snaps[n + 1]) # time
    <3>1. S(n + 1) = S(n)
      BY <1>4, <2>2
    <3> QED BY <1>1, <2>2, <3>1
  <2> QED BY <2>1, <2>2
<1> QED BY <1>1, <1>2, <1>6 DEF S, SeenTo

\* What the first k snapshots have made of the candles of a frame.
Rightly(bars, f, snaps, k, cur) ==
    /\ cur \in Bars /\ Len(cur) <= KeepBars
    /\ \A last \in Int : TimesTo(bars, last) /\ (\A i \in 1 .. Len(snaps) : Bucket(f, snaps[i]) <= last) => TimesTo(cur, last)
    /\ Len(cur) < KeepBars =>
          /\ Len(bars) < KeepBars
          /\ \A time : VolumeOf(cur, time) = VolumeOf(bars, time) + SeenTo(snaps, f, time, k)

\* A snapshot further.
LEMMA RightlyNext ==
    ASSUME NEW bars \in Bars, NEW f \in Frames, NEW snaps \in Seq(Nat), NEW k \in 1 .. Len(snaps), NEW cur,
           Rightly(bars, f, snaps, k - 1, cur)
    PROVE  Rightly(bars, f, snaps, k, Applied(cur, f, snaps[k]))
<1>1. PICK ts, next : ts = snaps[k] /\ next = Applied(cur, f, ts)
  OBVIOUS
<1>2. ts \in Nat /\ cur \in Bars /\ Len(cur) <= KeepBars /\ Len(cur) \in Nat
  BY <1>1 DEF Rightly, Bars
<1>3. /\ next \in Bars /\ Len(next) <= KeepBars
      /\ \A last \in Int : TimesTo(cur, last) /\ Bucket(f, ts) <= last => TimesTo(next, last)
      /\ Len(next) < KeepBars =>
            /\ Len(cur) < KeepBars
            /\ \A time : VolumeOf(next, time) = VolumeOf(cur, time) + IF Bucket(f, ts) = time THEN 1 ELSE 0
  <2>1. ASSUME NEW last \in Int
        PROVE  /\ next \in Bars /\ Len(next) <= KeepBars
               /\ TimesTo(cur, last) /\ Bucket(f, ts) <= last => TimesTo(next, last)
               /\ Len(next) < KeepBars =>
                     /\ Len(cur) < KeepBars
                     /\ \A time : VolumeOf(next, time) = VolumeOf(cur, time) + IF Bucket(f, ts) = time THEN 1 ELSE 0
    BY <1>1, <1>2, AppliedIs
  <2>2. 0 \in Int
    OBVIOUS
  <2> QED BY <2>1, <2>2
<1>4. ASSUME NEW last \in Int, TimesTo(bars, last), \A i \in 1 .. Len(snaps) : Bucket(f, snaps[i]) <= last
      PROVE  TimesTo(next, last)
  BY <1>1, <1>3, <1>4 DEF Rightly
<1>5. ASSUME Len(next) < KeepBars, NEW time
      PROVE  VolumeOf(next, time) = VolumeOf(bars, time) + SeenTo(snaps, f, time, k)
  <2>1. k - 1 \in Nat /\ (k - 1) + 1 = k
    OBVIOUS
  <2>2. PICK a, b, c, d : /\ a = VolumeOf(bars, time) /\ b = VolumeOf(cur, time)
                          /\ c = SeenTo(snaps, f, time, k - 1) /\ d = SeenTo(snaps, f, time, k)
    OBVIOUS
  <2>3. a \in Int /\ b \in Int
    BY <1>2, <2>2, VolumeInt
  <2>4. c \in Nat /\ d = c + IF Bucket(f, ts) = time THEN 1 ELSE 0
    <3>1. PICK m : m = k - 1
      OBVIOUS
    <3>2. m \in Nat /\ k = m + 1
      BY <2>1, <3>1
    <3>3. /\ SeenTo(snaps, f, time, m) \in Nat
          /\ SeenTo(snaps, f, time, m + 1) = SeenTo(snaps, f, time, m) + IF Bucket(f, snaps[m + 1]) = time THEN 1 ELSE 0
      BY <3>2, SeenNext
    <3> QED BY <1>1, <2>2, <3>1, <3>2, <3>3
  <2>5. b = a + c
    BY <1>3, <1>5, <2>2 DEF Rightly
  <2>6. VolumeOf(next, time) = b + IF Bucket(f, ts) = time THEN 1 ELSE 0
    BY <1>3, <1>5, <2>2
  <2> QED BY <2>2, <2>3, <2>4, <2>5, <2>6
<1>6. Len(next) < KeepBars => Len(bars) < KeepBars
  BY <1>3 DEF Rightly
<1> QED BY <1>1, <1>3, <1>4, <1>5, <1>6 DEF Rightly

\* What a sequence of snapshots makes of the candles of a frame.
LEMMA EachApplied ==
    ASSUME NEW bars \in Bars, Len(bars) <= KeepBars, NEW f \in Frames, NEW snaps \in Seq(Nat)
    PROVE  Rightly(bars, f, snaps, Len(snaps), AppliedEach(bars, f, snaps))
<1> DEFINE n == Len(snaps)
           Walks(g) == g = [k \in 0 .. n |-> IF k = 0 THEN bars ELSE Applied(g[k - 1], f, snaps[k])]
<1>1. n \in Nat /\ \A k \in 1 .. n : snaps[k] \in Nat
  OBVIOUS
<1>2. AppliedEach(bars, f, snaps) = (CHOOSE g : Walks(g))[n]
  BY DEF AppliedEach
<1> HIDE DEF n
<1>3. \E g : Walks(g)
  <2> DEFINE step == [x \in Bars \X (1 .. n) |-> Applied(x[1], f, snaps[x[2]])]
  <2>1. ASSUME NEW e \in Bars, NEW k \in 1 .. n PROVE Applied(e, f, snaps[k]) \in Bars
    <3>1. snaps[k] \in Nat /\ 0 \in Int
      BY <1>1
    <3> QED BY <3>1, AppliedIs
  <2>2. step \in [Bars \X (1 .. n) -> Bars]
    BY <2>1
  <2>3. PICK g \in [0 .. n -> Bars] : g[0] = bars /\ \A k \in 1 .. n : g[k] = step[<<g[k - 1], k>>]
    <3> HIDE DEF step
    <3>1. Runs(n, Bars, bars, step)
      BY <1>1, <2>2, StepsExist
    <3> QED BY <3>1 DEF Runs
  <2>4. \A k \in 1 .. n : g[k] = Applied(g[k - 1], f, snaps[k])
    <3> SUFFICES ASSUME NEW k \in 1 .. n PROVE g[k] = Applied(g[k - 1], f, snaps[k])
      OBVIOUS
    <3>1. g[k - 1] \in Bars
      BY <1>1, <2>3
    <3> QED BY <2>3, <3>1
  <2>5. Walks(g)
    BY <1>1, <2>3, <2>4
  <2> QED BY <2>5
<1>4. ASSUME NEW g, Walks(g) PROVE Rightly(bars, f, snaps, n, g[n])
  <2> DEFINE T == {k \in 0 .. n : Rightly(bars, f, snaps, k, g[k])}
  <2>1. 0 \in T
    <3>1. g[0] = bars
      BY <1>1, <1>4
    <3>2. \A time : VolumeOf(bars, time) = VolumeOf(bars, time) + SeenTo(snaps, f, time, 0)
      <4> SUFFICES ASSUME NEW time PROVE VolumeOf(bars, time) = VolumeOf(bars, time) + SeenTo(snaps, f, time, 0)
        OBVIOUS
      <4>1. PICK a, b : a = VolumeOf(bars, time) /\ b = SeenTo(snaps, f, time, 0)
        OBVIOUS
      <4>2. a \in Int
        BY <4>1, VolumeInt
      <4>3. b = 0
        <5>1. 0 \in Nat
          OBVIOUS
        <5> QED BY <4>1, <5>1, SeenNext
      <4>4. a = a + b
        BY <4>2, <4>3
      <4> QED BY <4>1, <4>4
    <3>3. Rightly(bars, f, snaps, 0, bars)
      BY <3>2 DEF Rightly
    <3> QED BY <1>1, <3>1, <3>3
  <2>2. ASSUME NEW k \in 1 .. n, k - 1 \in T PROVE k \in T
    <3>1. g[k] = Applied(g[k - 1], f, snaps[k]) /\ k \in 0 .. n
      BY <1>1, <1>4
    <3>2. Rightly(bars, f, snaps, k, Applied(g[k - 1], f, snaps[k]))
      <4>1. Rightly(bars, f, snaps, k - 1, g[k - 1]) /\ k \in 1 .. Len(snaps)
        BY <2>2 DEF n
      <4> QED BY <4>1, RightlyNext
    <3> QED BY <3>1, <3>2
  <2> HIDE DEF T
  <2>3. 0 .. n \subseteq T
    BY <1>1, <2>1, <2>2, StepsKeep
  <2> QED BY <1>1, <2>3 DEF T
<1> HIDE DEF Walks
<1> QED BY <1>2, <1>3, <1>4 DEF n

\* Candles up to a poll hold nothing of later ones.
LEMMA NothingLater ==
    ASSUME NEW bars \in Bars, NEW f \in Frames, NEW m \in 0 .. ChartEnd, TimesTo(bars, Bucket(f, m)),
           NEW ts \in 0 .. ChartEnd, NEW time, Bucket(f, ts) = time,
           \A x \in 0 .. ChartEnd : Bucket(f, x) = time => x > m
    PROVE  VolumeOf(bars, time) = 0
<1>1. ts > m /\ ts \in Nat /\ m \in Nat
  BY ChartNumbers
<1>2. Bucket(f, m) <= time /\ Bucket(f, m) \in Nat /\ time \in Nat /\ Bucket(f, m) # time
  <2>1. Bucket(f, m) <= Bucket(f, ts) /\ Bucket(f, m) \in Nat
    BY <1>1, BucketsGrow
  <2>2. Bucket(f, ts) \in Nat
    BY <1>1, BucketsGrow
  <2>3. Bucket(f, m) # time
    BY <1>1
  <2> QED BY <2>1, <2>2, <2>3
<1>3. On(bars, time) = {}
  <2>1. ASSUME NEW i \in DOMAIN bars, bars[i].time = time PROVE FALSE
    <3>1. bars[i].time <= Bucket(f, m)
      BY DEF TimesTo
    <3> QED BY <1>2, <2>1, <3>1
  <2> QED BY <2>1 DEF On
<1>4. SumOf(Volumes(bars), {}) = 0
  BY SumOfNone
<1> QED BY <1>3, <1>4, VolumeIs

-----------------------------------------------------------------------------
(* The charts.  Candles never run ahead of what was read (or, restored, of   *)
(* when); so a chart that is ready holds, of times that are later, what was   *)
(* applied to it and nothing else.                                           *)

Snaps == Seq(0 .. ChartEnd)
Phases == {"none", "fetching", "ready"}
KeptBars == {bars \in Bars : Len(bars) <= KeepBars}
UpTo(snaps, last) == \A i \in 1 .. Len(snaps) : snaps[i] <= last

\* A time all of which is later than the poll a frame's candles were read at.
Later(f, time) == LET read == Max({chart.born, chart.read[f]})
                  IN /\ \E ts \in 0 .. ChartEnd : Bucket(f, ts) = time
                     /\ \A ts \in 0 .. ChartEnd : Bucket(f, ts) = time => ts > read

Tallied == \A f \in Frames : Len(chart.bars[f]) < KeepBars =>
    \A time : Later(f, time) => VolumeOf(chart.bars[f], time) = SeenTo(watched, f, time, Len(watched))

\* A fetch holds candles up to the poll it was answered at.
FetchOK(b) ==
    /\ b.bars \in [Frames -> KeptBars]
    /\ \A f \in Frames : b.read[f] \in {-1} \union (0 .. chartNow)
    /\ \A f \in Frames : b.read[f] # -1 => TimesTo(b.bars[f], Bucket(f, b.read[f]))

SavedCharts == [phase : Phases \union {"nothing"}, bars : [Frames -> KeptBars]]

ChartTypes ==
    /\ charts <= MaxCharts /\ ChartBegin <= chartNow /\ chartNow <= ChartEnd
    /\ chart.phase \in Phases /\ chart.bars \in [Frames -> KeptBars] /\ chart.read \in [Frames -> Int]
    /\ chart.pending \in Snaps /\ Len(chart.pending) <= KeepPending
    /\ watched \in Snaps /\ chartCache \in [ChartUsers -> SavedCharts]

NotAhead ==
    /\ UpTo(chart.pending, chartNow) /\ \A f \in Frames : TimesTo(chart.bars[f], Bucket(f, chartNow))
    /\ \A b \in boots : FetchOK(b)
    /\ \A u \in ChartUsers, f \in Frames : TimesTo(chartCache[u].bars[f], Bucket(f, chartNow))

Phased ==
    /\ chart.phase # "ready" => watched = <<>> /\ chart.bars = NoBars
    /\ chart.phase = "fetching" => \E b \in boots : b.id = chart.id

SnapInv == ChartInv /\ ChartTypes /\ NotAhead /\ Phased /\ (chart.phase = "ready" => Tallied)

\* Snapshots are of polls.
LEMMA SnapsArePolls == ASSUME NEW snaps \in Snaps PROVE snaps \in Seq(Nat) /\ \A i \in 1 .. Len(snaps) : snaps[i] \in 0 .. ChartEnd
<1>1. PICK S : S = 0 .. ChartEnd
  OBVIOUS
<1>2. S \subseteq Nat /\ snaps \in Seq(S)
  BY <1>1, ChartNumbers DEF Snaps
<1>3. \A i \in 1 .. Len(snaps) : snaps[i] \in S
  BY <1>2
<1>4. snaps \in Seq(Nat)
  <2>1. snaps = [i \in 1 .. Len(snaps) |-> snaps[i]] /\ Len(snaps) \in Nat /\ \A i \in 1 .. Len(snaps) : snaps[i] \in Nat
    BY <1>2, <1>3
  <2> QED BY <2>1
<1> QED BY <1>1, <1>3, <1>4

\* What is not ahead stays so.
LEMMA TimesGrow == ASSUME NEW bars \in Bars, NEW f \in Frames, NEW a \in Nat, NEW b \in Nat, a <= b,
                          TimesTo(bars, Bucket(f, a))
                   PROVE  TimesTo(bars, Bucket(f, b))
<1>1. PICK m, n : m = Bucket(f, a) /\ n = Bucket(f, b)
  OBVIOUS
<1>2. m \in Nat /\ n \in Nat /\ m <= n
  <2>1. b <= b
    OBVIOUS
  <2> QED BY <1>1, <2>1, BucketsGrow
<1>3. \A i \in DOMAIN bars : bars[i].time \in Int
  <2>1. \A i \in DOMAIN bars : bars[i] \in Bar
    BY DEF Bars
  <2> QED BY <2>1 DEF Bar
<1> QED BY <1>1, <1>2, <1>3 DEF TimesTo

\* What snapshots make of all the frames.
LEMMA AllApplied ==
    ASSUME NEW bars \in [Frames -> KeptBars], NEW snaps \in Snaps, NEW cur \in Nat,
           UpTo(snaps, cur), \A f \in Frames : TimesTo(bars[f], Bucket(f, cur))
    PROVE  /\ ApplyAll(bars, snaps) \in [Frames -> KeptBars]
           /\ \A f \in Frames : TimesTo(ApplyAll(bars, snaps)[f], Bucket(f, cur))
           /\ \A f \in Frames : Rightly(bars[f], f, snaps, Len(snaps), ApplyAll(bars, snaps)[f])
<1>1. \A f \in Frames : ApplyAll(bars, snaps)[f] = AppliedEach(bars[f], f, snaps)
  BY DEF ApplyAll
<1>2. ASSUME NEW f \in Frames PROVE Rightly(bars[f], f, snaps, Len(snaps), AppliedEach(bars[f], f, snaps))
  <2>1. bars[f] \in Bars /\ Len(bars[f]) <= KeepBars
    BY DEF KeptBars
  <2>2. snaps \in Seq(Nat)
    BY SnapsArePolls
  <2> QED BY <2>1, <2>2, EachApplied
<1>3. \A f \in Frames : AppliedEach(bars[f], f, snaps) \in KeptBars
  BY <1>2 DEF Rightly, KeptBars
<1>4. ASSUME NEW f \in Frames PROVE TimesTo(AppliedEach(bars[f], f, snaps), Bucket(f, cur))
  <2>1. \A i \in 1 .. Len(snaps) : Bucket(f, snaps[i]) <= Bucket(f, cur)
    <3>1. ASSUME NEW i \in 1 .. Len(snaps) PROVE Bucket(f, snaps[i]) <= Bucket(f, cur)
      <4>1. snaps[i] \in Nat /\ snaps[i] <= cur
        BY SnapsArePolls, ChartNumbers DEF UpTo
      <4> QED BY <4>1, BucketsGrow
    <3> QED BY <3>1
  <2>2. Bucket(f, cur) \in Int
    <3>1. cur <= cur
      OBVIOUS
    <3>2. Bucket(f, cur) \in Nat
      BY <3>1, BucketsGrow
    <3> QED BY <3>2
  <2> QED BY <1>2, <2>1, <2>2 DEF Rightly
<1>5. ApplyAll(bars, snaps) \in [Frames -> KeptBars]
  BY <1>3 DEF ApplyAll
<1> QED BY <1>1, <1>2, <1>4, <1>5

\* What a venue says does not run ahead.
LEMMA VenueNotAhead == ASSUME NEW f \in Frames, chartNow \in Nat
                       PROVE  VenueBars(f) \in KeptBars /\ TimesTo(VenueBars(f), Bucket(f, chartNow))
<1> DEFINE size == FramePolls(f)
           last == Bucket(f, chartNow)
           first == Max({0, last - KeepBars + 1})
           close(time) == Min({chartNow, (time + 1) * size - 1})
           bar(time) == [time |-> time, open |-> time * size, close |-> close(time),
                         volume |-> close(time) - time * size + 1]
<1>1. size \in Nat \ {0} /\ KeepBars \in Nat \ {0}
  BY FrameSizes, ChartNumbers
<1>2. last \in Nat
  <2>1. chartNow <= chartNow
    OBVIOUS
  <2> QED BY <2>1, BucketsGrow
<1>3. first \in Int /\ first = IF 0 >= last - KeepBars + 1 THEN 0 ELSE last - KeepBars + 1
  <2>1. last - KeepBars + 1 \in Int
    BY <1>1, <1>2
  <2> QED BY <2>1, MaxOfTwo
<1>4. VenueBars(f) = [i \in 1 .. last - first + 1 |-> bar(first + i - 1)]
  BY DEF VenueBars
<1> HIDE DEF last, first, size
<1>5. ASSUME NEW time \in Int PROVE bar(time) \in Bar /\ bar(time).time = time
  <2>1. time * size \in Int /\ (time + 1) * size - 1 \in Int
    BY <1>1
  <2>2. close(time) \in Int
    <3>1. PICK e : e = (time + 1) * size - 1
      OBVIOUS
    <3>2. Min({chartNow, e}) \in {chartNow, e}
      BY <2>1, <3>1, MinOfTwo
    <3> QED BY <2>1, <3>1, <3>2
  <2> HIDE DEF close
  <2>3. close(time) - time * size + 1 \in Int
    BY <2>1, <2>2
  <2> QED BY <2>1, <2>2, <2>3 DEF Bar
<1>6. last - first + 1 \in Nat /\ last - first + 1 <= KeepBars
  BY <1>1, <1>2, <1>3
<1>7. \A i \in 1 .. last - first + 1 : first + i - 1 \in Int /\ first + i - 1 <= last
  BY <1>2, <1>3
<1> HIDE DEF bar
<1>8. PICK v, n : n = last - first + 1 /\ v = VenueBars(f)
  OBVIOUS
<1>9. /\ v \in [1 .. n -> Bar] /\ n \in Nat /\ n <= KeepBars /\ \A i \in 1 .. n : v[i].time <= last
  BY <1>4, <1>5, <1>6, <1>7, <1>8
<1>10. v \in Bars /\ Len(v) = n /\ DOMAIN v = 1 .. n
  BY <1>9 DEF Bars
<1> QED BY <1>8, <1>9, <1>10 DEF KeptBars, TimesTo, last

\* No candles are candles.
LEMMA NoBarsOK == NoBars \in [Frames -> KeptBars] /\ \A f \in Frames : \A last : TimesTo(NoBars[f], last)
<1>1. <<>> \in KeptBars
  BY ChartNumbers DEF KeptBars, Bars
<1> QED BY <1>1 DEF NoBars, TimesTo

\* There is no chart.
LEMMA SnapStarts == ChartsInit => SnapInv
<1> SUFFICES ASSUME ChartsInit PROVE SnapInv
  OBVIOUS
<1>1. /\ chart = NoChart /\ boots = {} /\ chartCache = [u \in ChartUsers |-> NoCache] /\ chartNow = ChartBegin
      /\ charts = 0 /\ watched = <<>>
  BY DEF ChartsInit
<1>2. /\ chart.phase = "none" /\ chart.bars = NoBars /\ chart.read = Unread /\ chart.pending = <<>>
  BY <1>1 DEF NoChart
<1>3. <<>> \in Snaps /\ Unread \in [Frames -> Int] /\ NoCache \in SavedCharts
  BY NoBarsOK DEF Snaps, Unread, NoCache, SavedCharts
<1>4. ChartTypes
  BY <1>1, <1>2, <1>3, NoBarsOK, ChartNumbers DEF ChartTypes, Phases
<1>5. NotAhead
  <2>1. \A u \in ChartUsers : chartCache[u].bars = NoBars
    BY <1>1 DEF NoCache
  <2> QED BY <1>1, <1>2, <2>1, NoBarsOK DEF NotAhead, UpTo
<1> QED BY <1>1, <1>2, <1>4, <1>5, ChartsStart DEF SnapInv, Phased

\* What is counted of a sequence one longer.
LEMMA SeenAppend ==
    ASSUME NEW snaps \in Snaps, NEW ts \in 0 .. ChartEnd, NEW f, NEW time
    PROVE  LET next == Append(snaps, ts)
           IN /\ next \in Snaps /\ SeenTo(snaps, f, time, Len(snaps)) \in Nat /\ SeenTo(<<ts>>, f, time, 1) \in Nat
              /\ SeenTo(next, f, time, Len(next)) = SeenTo(snaps, f, time, Len(snaps)) + SeenTo(<<ts>>, f, time, 1)
<1>1. PICK next, n : next = Append(snaps, ts) /\ n = Len(snaps)
  OBVIOUS
<1>2. n \in Nat /\ next \in Snaps /\ Len(next) = n + 1 /\ next[n + 1] = ts /\ \A i \in 1 .. n : next[i] = snaps[i]
  BY <1>1 DEF Snaps
<1>3. SeenTo(next, f, time, n) = SeenTo(snaps, f, time, n)
  <2>1. {i \in 1 .. n : Bucket(f, next[i]) = time} = {i \in 1 .. n : Bucket(f, snaps[i]) = time}
    BY <1>2
  <2> QED BY <2>1 DEF SeenTo
<1>4. SeenTo(snaps, f, time, n) \in Nat /\ SeenTo(next, f, time, n + 1) = SeenTo(next, f, time, n) + IF Bucket(f, ts) = time THEN 1 ELSE 0
  <2>1. n \in Nat /\ next[n + 1] = ts
    BY <1>2
  <2>2. /\ SeenTo(snaps, f, time, n) \in Nat
        /\ SeenTo(next, f, time, n + 1) = SeenTo(next, f, time, n) + IF Bucket(f, next[n + 1]) = time THEN 1 ELSE 0
    BY <2>1, SeenNext
  <2> QED BY <2>1, <2>2
<1>5. SeenTo(<<ts>>, f, time, 1) = IF Bucket(f, ts) = time THEN 1 ELSE 0
  <2>1. 0 \in Nat /\ 0 + 1 = 1 /\ <<ts>>[1] = ts
    OBVIOUS
  <2>2. /\ SeenTo(<<ts>>, f, time, 0) = 0
        /\ SeenTo(<<ts>>, f, time, 0 + 1) = SeenTo(<<ts>>, f, time, 0) + IF Bucket(f, <<ts>>[0 + 1]) = time THEN 1 ELSE 0
    BY <2>1, SeenNext
  <2> QED BY <2>1, <2>2
<1> QED BY <1>1, <1>2, <1>3, <1>4, <1>5

\* Time passes: what was not ahead still is not.
LEMMA Older ==
    ASSUME SnapInv, chartNow' \in {chartNow, chartNow + 1}
    PROVE  /\ chartNow \in Nat /\ chartNow' \in Nat /\ chartNow <= chartNow'
           /\ \A bars \in Bars, f \in Frames : TimesTo(bars, Bucket(f, chartNow)) => TimesTo(bars, Bucket(f, chartNow'))
           /\ UpTo(chart.pending, chartNow') /\ \A b \in boots : FetchOK(b)'
           /\ \A f \in Frames : TimesTo(chart.bars[f], Bucket(f, chartNow'))
           /\ \A u \in ChartUsers, f \in Frames : TimesTo(chartCache[u].bars[f], Bucket(f, chartNow'))
<1>1. PICK cur, next : cur = chartNow /\ next = chartNow'
  OBVIOUS
<1>2. cur \in Nat /\ next \in Nat /\ cur <= next
  BY <1>1 DEF SnapInv, ChartInv
<1>3. \A bars \in Bars, f \in Frames : TimesTo(bars, Bucket(f, cur)) => TimesTo(bars, Bucket(f, next))
  BY <1>2, TimesGrow
<1>4. UpTo(chart.pending, next)
  <2>1. \A i \in 1 .. Len(chart.pending) : chart.pending[i] \in Int /\ chart.pending[i] <= cur
    <3>1. chart.pending \in Snaps /\ UpTo(chart.pending, cur)
      BY <1>1 DEF SnapInv, NotAhead, ChartTypes
    <3>2. \A i \in 1 .. Len(chart.pending) : chart.pending[i] \in 0 .. ChartEnd
      BY <3>1, SnapsArePolls
    <3> QED BY <3>1, <3>2, ChartNumbers DEF UpTo
  <2> QED BY <1>2, <2>1 DEF UpTo
<1>5. \A b \in boots : FetchOK(b)'
  <2>1. \A b \in boots : FetchOK(b)
    BY DEF SnapInv, NotAhead
  <2>2. 0 .. cur \subseteq 0 .. next
    BY <1>2
  <2> QED BY <1>1, <2>1, <2>2 DEF FetchOK
<1>6. /\ \A f \in Frames : TimesTo(chart.bars[f], Bucket(f, cur)) /\ chart.bars[f] \in Bars
      /\ \A u \in ChartUsers, f \in Frames : TimesTo(chartCache[u].bars[f], Bucket(f, cur)) /\ chartCache[u].bars[f] \in Bars
  <2>1. chart.bars \in [Frames -> KeptBars] /\ \A u \in ChartUsers : chartCache[u] \in SavedCharts
    BY DEF SnapInv, ChartTypes
  <2>2. \A u \in ChartUsers : chartCache[u].bars \in [Frames -> KeptBars]
    BY <2>1 DEF SavedCharts
  <2>3. KeptBars \subseteq Bars
    BY DEF KeptBars
  <2> QED BY <1>1, <2>1, <2>2, <2>3 DEF SnapInv, NotAhead
<1> QED BY <1>1, <1>2, <1>3, <1>4, <1>5, <1>6

\* A chart that is left as it is counts what it counted.
LEMMA StillCounted == ASSUME UNCHANGED <<chart, watched>> PROVE Tallied' <=> Tallied
  BY DEF Tallied, Later

\* A snapshot of a chart that is ready.
LEMMA ReadyPoll ==
    ASSUME SnapInv, SnapInv => ChartInv', chart.phase = "ready", NEW ts \in 0 .. ChartEnd, ts <= chartNow,
           chartNow' = chartNow + 1, chartNow < ChartEnd, UNCHANGED <<boots, charts, chartCache>>,
           chart' = [chart EXCEPT !.bars = ApplyAll(@, <<ts>>)], watched' = Append(watched, ts)
    PROVE  SnapInv'
<1>1. DOMAIN chart = DOMAIN NoChart /\ ChartTypes /\ NotAhead /\ Tallied
  BY DEF SnapInv, ChartInv
<1>2. PICK bars, next : bars = chart.bars /\ next = ApplyAll(bars, <<ts>>)
  OBVIOUS
<1>3. /\ chart'.bars = next /\ chart'.phase = "ready" /\ chart'.read = chart.read /\ chart'.born = chart.born
      /\ chart'.pending = chart.pending
  BY <1>1, <1>2 DEF NoChart
<1>4. /\ chartNow \in Nat /\ chartNow' \in Nat
      /\ \A b \in Bars, f \in Frames : TimesTo(b, Bucket(f, chartNow)) => TimesTo(b, Bucket(f, chartNow'))
      /\ UpTo(chart.pending, chartNow') /\ \A b \in boots : FetchOK(b)'
      /\ \A u \in ChartUsers, f \in Frames : TimesTo(chartCache[u].bars[f], Bucket(f, chartNow'))
  BY Older
<1>5. /\ next \in [Frames -> KeptBars] /\ \A f \in Frames : TimesTo(next[f], Bucket(f, chartNow))
      /\ \A f \in Frames : Rightly(bars[f], f, <<ts>>, 1, next[f])
  <2>1. <<ts>> \in Snaps /\ UpTo(<<ts>>, chartNow) /\ Len(<<ts>>) = 1
    BY DEF Snaps, UpTo
  <2>2. bars \in [Frames -> KeptBars] /\ \A f \in Frames : TimesTo(bars[f], Bucket(f, chartNow))
    BY <1>1, <1>2 DEF ChartTypes, NotAhead
  <2>3. PICK cur, one : cur = chartNow /\ cur \in Nat /\ one = <<ts>>
    BY <1>4
  <2>4. one \in Snaps /\ UpTo(one, cur) /\ Len(one) = 1 /\ \A f \in Frames : TimesTo(bars[f], Bucket(f, cur))
    BY <2>1, <2>2, <2>3
  <2>5. /\ ApplyAll(bars, one) \in [Frames -> KeptBars] /\ \A f \in Frames : TimesTo(ApplyAll(bars, one)[f], Bucket(f, cur))
        /\ \A f \in Frames : Rightly(bars[f], f, one, Len(one), ApplyAll(bars, one)[f])
    BY <2>2, <2>3, <2>4, AllApplied
  <2> QED BY <1>2, <2>3, <2>4, <2>5
<1>6. watched \in Snaps /\ watched' \in Snaps
  BY <1>1, SeenAppend DEF ChartTypes
<1>7. ChartTypes'
  <2>1. charts' <= MaxCharts /\ ChartBegin <= chartNow' /\ chartNow' <= ChartEnd
    BY <1>1, <1>4, ChartNumbers DEF ChartTypes
  <2>2. chart'.phase \in Phases /\ chart'.bars \in [Frames -> KeptBars] /\ chart'.read \in [Frames -> Int]
    BY <1>1, <1>3, <1>5 DEF ChartTypes, Phases
  <2>3. chart'.pending \in Snaps /\ Len(chart'.pending) <= KeepPending /\ chartCache' \in [ChartUsers -> SavedCharts]
    BY <1>1, <1>3 DEF ChartTypes
  <2> QED BY <1>6, <2>1, <2>2, <2>3 DEF ChartTypes
<1>8. NotAhead'
  <2>1. \A f \in Frames : TimesTo(next[f], Bucket(f, chartNow'))
    BY <1>4, <1>5 DEF KeptBars
  <2> QED BY <1>3, <1>4, <2>1 DEF NotAhead
<1>9. Phased'
  BY <1>3 DEF Phased
<1>10. Tallied'
  <2>1. SUFFICES ASSUME NEW f \in Frames, Len(next[f]) < KeepBars, NEW time, Later(f, time)'
                 PROVE  VolumeOf(next[f], time) = SeenTo(watched', f, time, Len(watched'))
    BY <1>3 DEF Tallied
  <2>2. Later(f, time)
    BY <1>3, <2>1 DEF Later
  <2>3. Len(bars[f]) < KeepBars /\ VolumeOf(next[f], time) = VolumeOf(bars[f], time) + SeenTo(<<ts>>, f, time, 1)
    BY <1>5, <2>1 DEF Rightly
  <2>4. VolumeOf(bars[f], time) = SeenTo(watched, f, time, Len(watched))
    BY <1>1, <1>2, <2>2, <2>3 DEF Tallied
  <2>5. SeenTo(watched', f, time, Len(watched')) = SeenTo(watched, f, time, Len(watched)) + SeenTo(<<ts>>, f, time, 1)
    BY <1>6, SeenAppend
  <2> QED BY <2>3, <2>4, <2>5
<1> QED BY <1>7, <1>8, <1>9, <1>10 DEF SnapInv

\* A snapshot waits for the candles; or there is no price, or an unknown market gets a chart.
LEMMA WaitingPoll ==
    ASSUME SnapInv, SnapInv => ChartInv', chartNow' = chartNow + 1, chartNow < ChartEnd, UNCHANGED chartCache,
           charts' <= MaxCharts, chart'.phase = "fetching", chart'.bars = NoBars, chart'.read \in [Frames -> Int],
           NEW old \in Snaps, UpTo(old, chartNow'), NEW ts \in 0 .. ChartEnd, ts <= chartNow,
           chart'.pending = LastOf(Append(old, ts), KeepPending), watched' = <<>>,
           \E b \in boots' : b.id = chart'.id, \A b \in boots' : FetchOK(b)'
    PROVE  SnapInv'
<1>1. PICK longer, next : longer = Append(old, ts) /\ next = LastOf(longer, KeepPending)
  OBVIOUS
<1>2. PICK S : S = 0 .. ChartEnd
  OBVIOUS
<1>3. old \in Seq(S) /\ ts \in S
  BY <1>2 DEF Snaps
<1>4. longer \in Seq(S) /\ Len(longer) = Len(old) + 1 /\ longer[Len(old) + 1] = ts /\ \A i \in 1 .. Len(old) : longer[i] = old[i]
  BY <1>1, <1>3
<1>5. next \in Seq(S) /\ Len(next) <= KeepPending /\ \A i \in DOMAIN next : \E j \in DOMAIN longer : next[i] = longer[j]
  <2>1. PICK n \in Nat \ {0} : n = KeepPending
    BY ChartNumbers
  <2>2. /\ LastOf(longer, n) \in Seq(S) /\ Len(LastOf(longer, n)) <= n
        /\ \A i \in DOMAIN LastOf(longer, n) : \E j \in DOMAIN longer : LastOf(longer, n)[i] = longer[j]
    BY <1>4, <2>1, LastOfIs
  <2> QED BY <1>1, <2>1, <2>2
<1>6. chartNow \in Nat /\ chartNow' \in Nat /\ ts <= chartNow'
      /\ \A u \in ChartUsers, f \in Frames : TimesTo(chartCache[u].bars[f], Bucket(f, chartNow'))
  <2>1. chartNow \in Nat /\ \A u \in ChartUsers, f \in Frames : TimesTo(chartCache[u].bars[f], Bucket(f, chartNow'))
    BY Older
  <2> QED BY <2>1, ChartNumbers
<1>7. UpTo(next, chartNow')
  <2>1. \A j \in DOMAIN longer : longer[j] <= chartNow'
    <3>1. Len(old) \in Nat /\ DOMAIN longer = 1 .. Len(old) + 1
      BY <1>3, <1>4
    <3>2. ASSUME NEW j \in DOMAIN longer PROVE longer[j] <= chartNow'
      <4>1. j \in 1 .. Len(old) \/ j = Len(old) + 1
        BY <3>1
      <4> QED BY <1>4, <1>6, <4>1 DEF UpTo
    <3> QED BY <3>2
  <2> QED BY <1>5, <2>1 DEF UpTo
<1>8. ChartTypes /\ <<>> \in Snaps
  BY DEF SnapInv, Snaps
<1>9. next \in Snaps /\ chart'.pending = next
  BY <1>1, <1>2, <1>5 DEF Snaps
<1>10. ChartTypes'
  <2>1. ChartBegin <= chartNow' /\ chartNow' <= ChartEnd
    BY <1>6, <1>8, ChartNumbers DEF ChartTypes
  <2>2. chart'.phase \in Phases /\ chart'.bars \in [Frames -> KeptBars]
    BY NoBarsOK DEF Phases
  <2>3. chart'.pending \in Snaps /\ Len(chart'.pending) <= KeepPending /\ chartCache' \in [ChartUsers -> SavedCharts]
    BY <1>5, <1>8, <1>9 DEF ChartTypes
  <2> QED BY <1>8, <2>1, <2>2, <2>3 DEF ChartTypes
<1>11. NotAhead'
  BY <1>6, <1>7, <1>9, NoBarsOK DEF NotAhead
<1> QED BY <1>10, <1>11 DEF SnapInv, Phased

\* A poll of the market.
LEMMA PollSnaps == ASSUME SnapInv, PollMarket PROVE SnapInv'
<1>1. /\ chartNow < ChartEnd /\ chartNow' = chartNow + 1 /\ UNCHANGED chartCache /\ ChartInv'
  BY PollStep DEF PollMarket, SnapInv
<1>2. /\ chartNow \in Nat /\ chartNow' \in Nat
      /\ UpTo(chart.pending, chartNow') /\ \A b \in boots : FetchOK(b)'
      /\ \A f \in Frames : TimesTo(chart.bars[f], Bucket(f, chartNow'))
      /\ \A u \in ChartUsers, f \in Frames : TimesTo(chartCache[u].bars[f], Bucket(f, chartNow'))
  BY <1>1, Older
<1>3. CASE UNCHANGED <<chart, boots, charts, watched>>
  <2>1. ChartTypes /\ Phased /\ (chart.phase = "ready" => Tallied)
    BY DEF SnapInv
  <2>2. ChartTypes'
    BY <1>1, <1>2, <1>3, <2>1, ChartNumbers DEF ChartTypes
  <2>3. NotAhead'
    BY <1>1, <1>2, <1>3 DEF NotAhead
  <2>4. Phased' /\ (chart'.phase = "ready" => Tallied')
    BY <1>3, <2>1, StillCounted DEF Phased
  <2> QED BY <1>1, <2>2, <2>3, <2>4 DEF SnapInv
<1>4. ASSUME NEW ts \in chartNow - SnapLag .. chartNow, EnsureChart, NEW c,
             c = IF chart.phase # "none" THEN chart
                 ELSE [NoChart EXCEPT !.phase = "fetching", !.id = charts', !.born = chartNow],
             chart' = Updated(c, ts), watched' = IF chart.phase = "ready" THEN Append(watched, ts) ELSE <<>>
      PROVE  SnapInv'
  <2>1. ts \in 0 .. ChartEnd /\ ts <= chartNow
    BY <1>1, <1>2, <1>4, ChartNumbers DEF SnapInv, ChartTypes
  <2>2. ChartTypes /\ NotAhead /\ Phased /\ DOMAIN chart = DOMAIN NoChart /\ charts \in Nat
    BY DEF SnapInv, ChartInv
  <2>3. CASE chart.phase = "ready"
    <3>1. UNCHANGED <<boots, charts>> /\ chart' = [chart EXCEPT !.bars = ApplyAll(@, <<ts>>)] /\ watched' = Append(watched, ts)
      BY <1>4, <2>3 DEF EnsureChart, Updated
    <3> QED BY <1>1, <2>1, <2>3, <3>1, ReadyPoll
  <2>4. CASE chart.phase = "fetching"
    <3>1. /\ UNCHANGED <<boots, charts>> /\ chart' = [chart EXCEPT !.pending = LastOf(Append(@, ts), KeepPending)]
          /\ watched' = <<>>
      BY <1>4, <2>4 DEF EnsureChart, Updated
    <3>2. /\ chart'.phase = "fetching" /\ chart'.bars = chart.bars /\ chart'.read = chart.read /\ chart'.id = chart.id
          /\ chart'.pending = LastOf(Append(chart.pending, ts), KeepPending)
      BY <2>2, <2>4, <3>1 DEF NoChart
    <3>3. chart.bars = NoBars /\ chart.pending \in Snaps /\ chart.read \in [Frames -> Int] /\ charts <= MaxCharts
          /\ \E b \in boots : b.id = chart.id
      BY <2>2, <2>4 DEF Phased, ChartTypes
    <3> QED BY <1>1, <1>2, <2>1, <3>1, <3>2, <3>3, WaitingPoll
  <2>5. CASE chart.phase = "none"
    <3>1. /\ charts < MaxCharts /\ charts' = charts + 1
          /\ boots' = boots \union {[id |-> charts', read |-> Unread, bars |-> NoBars]} /\ watched' = <<>>
      BY <1>4, <2>5 DEF EnsureChart
    <3>2. c = [NoChart EXCEPT !.phase = "fetching", !.id = charts', !.born = chartNow]
      BY <1>4, <2>5
    <3>3. DOMAIN c = DOMAIN NoChart /\ c.phase = "fetching" /\ c.bars = NoBars /\ c.read = Unread /\ c.pending = <<>> /\ c.id = charts'
      BY <3>2 DEF NoChart
    <3>4. chart' = [c EXCEPT !.pending = LastOf(Append(@, ts), KeepPending)]
      BY <1>4, <3>3 DEF Updated
    <3>5. /\ chart'.phase = "fetching" /\ chart'.bars = NoBars /\ chart'.read = Unread /\ chart'.id = charts'
          /\ chart'.pending = LastOf(Append(<<>>, ts), KeepPending)
      BY <3>3, <3>4 DEF NoChart
    <3>6. PICK d : d = [id |-> charts', read |-> Unread, bars |-> NoBars]
      OBVIOUS
    <3>7. FetchOK(d)'
      <4>1. \A f \in Frames : d.read[f] = -1
        BY <3>6 DEF Unread
      <4> QED BY <3>6, <4>1, NoBarsOK DEF FetchOK
    <3>8. \A b \in boots' : FetchOK(b)'
      BY <1>2, <3>1, <3>6, <3>7
    <3>9. \E b \in boots' : b.id = chart'.id
      <4>1. d \in boots' /\ d.id = chart'.id
        BY <3>1, <3>5, <3>6
      <4> QED BY <4>1
    <3>10. <<>> \in Snaps /\ UpTo(<<>>, chartNow') /\ Unread \in [Frames -> Int] /\ charts' <= MaxCharts
      BY <2>2, <3>1, ChartNumbers DEF Snaps, UpTo, Unread
    <3> QED BY <1>1, <2>1, <3>1, <3>5, <3>8, <3>9, <3>10, WaitingPoll
  <2> QED BY <2>2, <2>3, <2>4, <2>5 DEF ChartTypes, Phases
<1> QED BY <1>3, <1>4 DEF PollMarket

\* The venue answers, with candles up to now or with none.
LEMMA AnswerSnaps == ASSUME SnapInv, NEW b \in boots, NEW f \in Frames, FrameAnswered(b, f) PROVE SnapInv'
<1>1. PICK answer \in {VenueBars(f), <<>>} : boots' = (boots \ {b}) \union {[b EXCEPT !.read[f] = chartNow, !.bars[f] = answer]}
  BY DEF FrameAnswered
<1>2. PICK d : d = [b EXCEPT !.read[f] = chartNow, !.bars[f] = answer]
  OBVIOUS
<1>3. /\ boots' = (boots \ {b}) \union {d} /\ UNCHANGED <<chart, chartCache, chartNow, charts, watched>> /\ ChartInv'
  BY <1>1, <1>2, FrameStep DEF FrameAnswered, SnapInv
<1>4. /\ DOMAIN b = {"id", "read", "bars"} /\ b.read \in [Frames -> Int] /\ chartNow \in Nat /\ FetchOK(b)
  BY DEF SnapInv, ChartInv, NotAhead
<1>5. /\ d.id = b.id /\ d.read = [b.read EXCEPT ![f] = chartNow] /\ d.bars = [b.bars EXCEPT ![f] = answer]
  BY <1>2, <1>4
<1>6. answer \in KeptBars /\ TimesTo(answer, Bucket(f, chartNow))
  <2>1. <<>> \in KeptBars /\ TimesTo(<<>>, Bucket(f, chartNow))
    BY ChartNumbers DEF KeptBars, Bars, TimesTo
  <2> QED BY <1>4, <2>1, VenueNotAhead
<1>7. FetchOK(d)
  <2>1. b.bars \in [Frames -> KeptBars]
    BY <1>4 DEF FetchOK
  <2>2. d.bars \in [Frames -> KeptBars]
    BY <1>5, <1>6, <2>1
  <2>3. ASSUME NEW g \in Frames
        PROVE  d.read[g] \in {-1} \union (0 .. chartNow) /\ (d.read[g] # -1 => TimesTo(d.bars[g], Bucket(g, d.read[g])))
    <3>1. CASE g = f
      BY <1>4, <1>5, <1>6, <2>1, <3>1
    <3>2. CASE g # f
      <4>1. d.read[g] = b.read[g] /\ d.bars[g] = b.bars[g]
        BY <1>4, <1>5, <2>1, <3>2
      <4> QED BY <1>4, <4>1 DEF FetchOK
    <3> QED BY <3>1, <3>2
  <2> QED BY <2>2, <2>3 DEF FetchOK
<1>8. ChartTypes /\ NotAhead /\ Phased /\ (chart.phase = "ready" => Tallied)
  BY DEF SnapInv
<1>9. \A a \in boots' : FetchOK(a)'
  BY <1>3, <1>7, <1>8 DEF NotAhead, FetchOK
<1>10. ChartTypes' /\ NotAhead'
  BY <1>3, <1>8, <1>9 DEF ChartTypes, NotAhead
<1>11. Phased' /\ (chart'.phase = "ready" => Tallied')
  <2>1. chart.phase = "fetching" => \E a \in boots' : a.id = chart.id
    BY <1>3, <1>5, <1>8 DEF Phased
  <2> QED BY <1>3, <1>8, <2>1, StillCounted DEF Phased
<1> QED BY <1>3, <1>10, <1>11 DEF SnapInv

\* The end of a fetch: the candles are up to when they were read, so of later times the
\* chart holds what waited.
LEMMA BootSnaps == ASSUME SnapInv, NEW b \in boots, BootEnds(b) PROVE SnapInv'
<1>1. /\ boots' = boots \ {b} /\ UNCHANGED <<chartCache, chartNow, charts>> /\ (\A f \in Frames : b.read[f] # -1) /\ ChartInv'
  BY BootStep DEF BootEnds, SnapInv
<1>2. /\ ChartTypes /\ NotAhead /\ Phased /\ (chart.phase = "ready" => Tallied) /\ DOMAIN chart = DOMAIN NoChart
      /\ b.read \in [Frames -> Int] /\ chartNow \in Nat /\ chart.born \in Nat
      /\ \A a \in boots' : FetchOK(a)'
  <2>1. /\ ChartTypes /\ NotAhead /\ Phased /\ (chart.phase = "ready" => Tallied) /\ DOMAIN chart = DOMAIN NoChart
        /\ b.read \in [Frames -> Int] /\ chartNow \in Nat /\ chart.born \in Nat
    BY DEF SnapInv, ChartInv
  <2>2. \A a \in boots' : FetchOK(a)'
    BY <1>1, <2>1 DEF NotAhead, FetchOK
  <2> QED BY <2>1, <2>2
<1>3. CASE chart.id # b.id
  <2>1. UNCHANGED <<chart, watched>>
    BY <1>3 DEF BootEnds
  <2>2. ChartTypes'
    BY <1>1, <1>2, <2>1 DEF ChartTypes
  <2>3. NotAhead'
    BY <1>1, <1>2, <2>1 DEF NotAhead
  <2>4. chart.phase = "fetching" => \E a \in boots' : a.id = chart.id
    BY <1>1, <1>2, <1>3 DEF Phased
  <2>5. Phased' /\ (chart'.phase = "ready" => Tallied')
    BY <1>2, <2>1, <2>4, StillCounted DEF Phased
  <2> QED BY <1>1, <2>2, <2>3, <2>5 DEF SnapInv
<1>4. CASE chart.id = b.id
  <2>1. /\ chart' = [chart EXCEPT !.phase = "ready", !.pending = <<>>,
                       !.bars = ApplyAll(b.bars, chart.pending), !.read = b.read]
        /\ watched' = chart.pending
    BY <1>4 DEF BootEnds
  <2>2. PICK next, waited : next = ApplyAll(b.bars, waited) /\ waited = chart.pending
    OBVIOUS
  <2>3. /\ chart'.phase = "ready" /\ chart'.pending = <<>> /\ chart'.bars = next /\ chart'.read = b.read
        /\ chart'.born = chart.born /\ watched' = waited
    BY <1>2, <2>1, <2>2 DEF NoChart
  <2>4. /\ b.bars \in [Frames -> KeptBars] /\ \A f \in Frames : b.read[f] \in 0 .. chartNow
        /\ \A f \in Frames : TimesTo(b.bars[f], Bucket(f, b.read[f]))
    BY <1>1, <1>2 DEF NotAhead, FetchOK
  <2>5. \A f \in Frames : TimesTo(b.bars[f], Bucket(f, chartNow))
    <3>1. SUFFICES ASSUME NEW f \in Frames PROVE TimesTo(b.bars[f], Bucket(f, chartNow))
      OBVIOUS
    <3>2. PICK bars, m, cur : bars = b.bars[f] /\ m = b.read[f] /\ cur = chartNow
      OBVIOUS
    <3>3. bars \in Bars /\ m \in Nat /\ cur \in Nat /\ m <= cur /\ TimesTo(bars, Bucket(f, m))
      BY <1>2, <2>4, <3>2 DEF KeptBars
    <3>4. TimesTo(bars, Bucket(f, cur))
      BY <3>3, TimesGrow
    <3> QED BY <3>2, <3>4
  <2>6. waited \in Snaps /\ UpTo(waited, chartNow)
    BY <1>2, <2>2 DEF ChartTypes, NotAhead
  <2>7. /\ next \in [Frames -> KeptBars] /\ \A f \in Frames : TimesTo(next[f], Bucket(f, chartNow))
        /\ \A f \in Frames : Rightly(b.bars[f], f, waited, Len(waited), next[f])
    <3>1. PICK bars, cur : bars = b.bars /\ cur = chartNow
      OBVIOUS
    <3>2. /\ bars \in [Frames -> KeptBars] /\ cur \in Nat /\ UpTo(waited, cur)
          /\ \A f \in Frames : TimesTo(bars[f], Bucket(f, cur))
      BY <1>2, <2>4, <2>5, <2>6, <3>1
    <3>3. /\ ApplyAll(bars, waited) \in [Frames -> KeptBars]
          /\ \A f \in Frames : TimesTo(ApplyAll(bars, waited)[f], Bucket(f, cur))
          /\ \A f \in Frames : Rightly(bars[f], f, waited, Len(waited), ApplyAll(bars, waited)[f])
      BY <2>6, <3>2, AllApplied
    <3> QED BY <2>2, <3>1, <3>3
  <2>8. ChartTypes'
    <3>1. <<>> \in Snaps /\ Len(<<>>) <= KeepPending
      BY ChartNumbers DEF Snaps
    <3>2. chart'.pending \in Snaps /\ Len(chart'.pending) <= KeepPending /\ watched' \in Snaps
      BY <2>3, <2>6, <3>1
    <3>3. chart'.phase \in Phases /\ chart'.bars \in [Frames -> KeptBars] /\ chart'.read \in [Frames -> Int]
      BY <1>2, <2>3, <2>7 DEF Phases
    <3> QED BY <1>1, <1>2, <3>2, <3>3 DEF ChartTypes
  <2>9. NotAhead'
    <3>1. UpTo(chart'.pending, chartNow')
      BY <2>3 DEF UpTo
    <3> QED BY <1>1, <1>2, <2>3, <2>7, <3>1 DEF NotAhead
  <2>10. Phased'
    BY <2>3 DEF Phased
  <2>11. Tallied'
    <3>1. SUFFICES ASSUME NEW f \in Frames, Len(next[f]) < KeepBars, NEW time, Later(f, time)'
                   PROVE  VolumeOf(next[f], time) = SeenTo(waited, f, time, Len(waited))
      BY <2>3 DEF Tallied
    <3>2. PICK born, m : born = chart.born /\ m = b.read[f]
      OBVIOUS
    <3>3. born \in Nat /\ m \in 0 .. ChartEnd /\ m \in Nat
      BY <1>2, <2>4, <3>2, ChartNumbers DEF ChartTypes
    <3>4. Max({born, m}) \in Int /\ Max({born, m}) >= m
      BY <3>3, MaxOfTwo
    <3>5. PICK ts \in 0 .. ChartEnd : Bucket(f, ts) = time
      BY <3>1 DEF Later
    <3>6. \A x \in 0 .. ChartEnd : Bucket(f, x) = time => x > Max({born, m})
      BY <2>3, <3>1, <3>2 DEF Later
    <3>7. \A x \in 0 .. ChartEnd : Bucket(f, x) = time => x > m
      BY <3>3, <3>4, <3>6, ChartNumbers
    <3>8. PICK bars : bars = b.bars[f]
      OBVIOUS
    <3>9. bars \in Bars /\ TimesTo(bars, Bucket(f, m))
      BY <2>4, <3>2, <3>8 DEF KeptBars
    <3>10. VolumeOf(bars, time) = 0
      BY <3>3, <3>5, <3>7, <3>9, NothingLater
    <3>11. VolumeOf(next[f], time) = VolumeOf(bars, time) + SeenTo(waited, f, time, Len(waited))
      BY <2>7, <3>1, <3>8 DEF Rightly
    <3>12. SeenTo(waited, f, time, Len(waited)) \in Nat
      <4>1. Len(waited) \in Nat
        BY <2>6 DEF Snaps
      <4> QED BY <4>1, SeenNext
    <3> QED BY <3>10, <3>11, <3>12
  <2> QED BY <1>1, <2>8, <2>9, <2>10, <2>11 DEF SnapInv
<1> QED BY <1>3, <1>4

\* A chart is dropped, or restored with candles up to now.
LEMMA ResetSnaps ==
    ASSUME SnapInv, PruneChart \/ RestartCharts \/ \E u \in ChartUsers : FlushCache(u) \/ FirstTick(u)
    PROVE  SnapInv'
<1>1. /\ chartNow' = chartNow /\ charts' = charts /\ boots' \in {boots, {}} /\ ChartInv'
  BY ResetStep DEF PruneChart, RestartCharts, FlushCache, FirstTick, SnapInv
<1>2. /\ ChartTypes /\ NotAhead /\ Phased /\ (chart.phase = "ready" => Tallied) /\ chartNow \in Nat
      /\ \A a \in boots' : FetchOK(a)'
  <2>1. /\ ChartTypes /\ NotAhead /\ Phased /\ (chart.phase = "ready" => Tallied) /\ chartNow \in Nat
    BY DEF SnapInv, ChartInv
  <2>2. \A a \in boots' : FetchOK(a)'
    BY <1>1, <2>1 DEF NotAhead, FetchOK
  <2> QED BY <2>1, <2>2
<1>3. chartCache' \in [ChartUsers -> SavedCharts] /\ \A u \in ChartUsers, f \in Frames : TimesTo(chartCache'[u].bars[f], Bucket(f, chartNow))
  <2>1. CASE UNCHANGED chartCache
    BY <1>2, <2>1 DEF ChartTypes, NotAhead
  <2>2. ASSUME NEW u \in ChartUsers, FlushCache(u)
        PROVE  chartCache' \in [ChartUsers -> SavedCharts] /\ \A v \in ChartUsers, f \in Frames : TimesTo(chartCache'[v].bars[f], Bucket(f, chartNow))
    <3>1. PICK cache : cache = SavedChart(chart)
      OBVIOUS
    <3>2. chartCache' = [chartCache EXCEPT ![u] = cache]
      BY <2>2, <3>1 DEF FlushCache
    <3>3. cache \in SavedCharts /\ cache.bars = chart.bars
      BY <1>2, <3>1 DEF SavedChart, SavedCharts, ChartTypes
    <3>4. \A v \in ChartUsers : chartCache'[v] = IF v = u THEN cache ELSE chartCache[v]
      BY <1>2, <3>2 DEF ChartTypes
    <3>5. chartCache' \in [ChartUsers -> SavedCharts]
      BY <1>2, <3>2, <3>3 DEF ChartTypes
    <3> QED BY <1>2, <3>3, <3>4, <3>5 DEF NotAhead
  <2> QED BY <2>1, <2>2 DEF PruneChart, RestartCharts, FirstTick
<1>4. CASE UNCHANGED <<chart, watched, boots>>
  <2>1. ChartTypes'
    BY <1>1, <1>2, <1>3, <1>4 DEF ChartTypes
  <2>2. NotAhead'
    BY <1>1, <1>2, <1>3, <1>4 DEF NotAhead
  <2>3. Phased' /\ (chart'.phase = "ready" => Tallied')
    BY <1>2, <1>4, StillCounted DEF Phased
  <2> QED BY <1>1, <2>1, <2>2, <2>3 DEF SnapInv
<1>5. <<>> \in Snaps /\ Unread \in [Frames -> Int] /\ Len(<<>>) <= KeepPending /\ UpTo(<<>>, chartNow)
  BY ChartNumbers DEF Snaps, Unread, UpTo
<1>6. CASE chart' = NoChart /\ watched' = <<>>
  <2>1. /\ chart'.phase = "none" /\ chart'.bars = NoBars /\ chart'.read = Unread /\ chart'.pending = <<>>
    BY <1>6 DEF NoChart
  <2>2. ChartTypes'
    <3>1. chart'.phase \in Phases /\ chart'.bars \in [Frames -> KeptBars]
      BY <2>1, NoBarsOK DEF Phases
    <3> QED BY <1>1, <1>2, <1>3, <1>5, <1>6, <2>1, <3>1 DEF ChartTypes
  <2>3. NotAhead'
    BY <1>1, <1>2, <1>3, <1>5, <2>1, NoBarsOK DEF NotAhead
  <2> QED BY <1>1, <1>6, <2>1, <2>2, <2>3 DEF SnapInv, Phased
<1>7. ASSUME NEW cache \in SavedCharts, \A f \in Frames : TimesTo(cache.bars[f], Bucket(f, chartNow)),
             chart' = [NoChart EXCEPT !.phase = "ready", !.bars = cache.bars, !.born = chartNow], watched' = <<>>
      PROVE  SnapInv'
  <2>1. /\ chart'.phase = "ready" /\ chart'.bars = cache.bars /\ chart'.read = Unread /\ chart'.pending = <<>>
        /\ chart'.born = chartNow
    BY <1>7 DEF NoChart
  <2>2. ChartTypes'
    <3>1. chart'.phase \in Phases /\ chart'.bars \in [Frames -> KeptBars]
      BY <2>1 DEF Phases, SavedCharts
    <3> QED BY <1>1, <1>2, <1>3, <1>5, <1>7, <2>1, <3>1 DEF ChartTypes
  <2>3. NotAhead'
    BY <1>1, <1>2, <1>3, <1>5, <1>7, <2>1 DEF NotAhead
  <2>4. Tallied'
    <3>1. SUFFICES ASSUME NEW f \in Frames, NEW time, Later(f, time)'
                   PROVE  VolumeOf(cache.bars[f], time) = SeenTo(<<>>, f, time, Len(<<>>))
      BY <1>7, <2>1 DEF Tallied
    <3>2. PICK m, bars : m = chartNow /\ bars = cache.bars[f]
      OBVIOUS
    <3>3. m \in 0 .. ChartEnd /\ bars \in Bars /\ TimesTo(bars, Bucket(f, m))
      <4>1. cache.bars \in [Frames -> KeptBars]
        BY DEF SavedCharts
      <4> QED BY <1>2, <1>7, <3>2, <4>1, ChartNumbers DEF KeptBars, ChartTypes
    <3>4. chart'.read[f] = -1
      BY <2>1 DEF Unread
    <3>5. Max({m, -1}) = m
      BY <3>3, MaxOfTwo
    <3>6. PICK ts \in 0 .. ChartEnd : Bucket(f, ts) = time
      BY <3>1 DEF Later
    <3>7. \A x \in 0 .. ChartEnd : Bucket(f, x) = time => x > m
      BY <2>1, <3>1, <3>2, <3>4, <3>5 DEF Later
    <3>8. VolumeOf(bars, time) = 0
      BY <3>3, <3>6, <3>7, NothingLater
    <3>9. SeenTo(<<>>, f, time, Len(<<>>)) = 0
      <4>1. 0 \in Nat /\ Len(<<>>) = 0
        OBVIOUS
      <4>2. SeenTo(<<>>, f, time, 0) = 0
        BY <4>1, SeenNext
      <4> QED BY <4>1, <4>2
    <3> QED BY <3>2, <3>8, <3>9
  <2> QED BY <1>1, <2>1, <2>2, <2>3, <2>4 DEF SnapInv, Phased
<1>8. ASSUME NEW u \in ChartUsers, FirstTick(u) PROVE SnapInv'
  <2>1. CASE chartCache[u].phase = "nothing"
    BY <1>4, <1>8, <2>1 DEF FirstTick
  <2>2. CASE chartCache[u].phase # "nothing"
    <3>1. PICK cache : cache = chartCache[u]
      OBVIOUS
    <3>2. cache \in SavedCharts /\ \A f \in Frames : TimesTo(cache.bars[f], Bucket(f, chartNow))
      BY <1>2, <3>1 DEF ChartTypes, NotAhead
    <3>3. chart' = RestoredChart(cache) /\ watched' = <<>>
      BY <1>8, <2>2, <3>1 DEF FirstTick
    <3> QED BY <1>6, <1>7, <3>2, <3>3 DEF RestoredChart
  <2> QED BY <2>1, <2>2
<1>9. ASSUME NEW u \in ChartUsers, FlushCache(u) PROVE SnapInv'
  BY <1>4, <1>9 DEF FlushCache
<1>10. PruneChart \/ RestartCharts => SnapInv'
  BY <1>6 DEF PruneChart, RestartCharts
<1> QED BY <1>8, <1>9, <1>10

\* A step of the charts.
LEMMA SnapStep == SnapInv /\ [ChartsNext]_chartVars => SnapInv'
<1> SUFFICES ASSUME SnapInv, [ChartsNext]_chartVars PROVE SnapInv'
  OBVIOUS
<1>1. CASE UNCHANGED chartVars
  <2>1. ChartInv' /\ ChartTypes' /\ NotAhead'
    <3>1. UNCHANGED <<chart, boots, chartCache, chartNow, charts, watched>>
      BY <1>1 DEF chartVars
    <3>2. ChartInv'
      BY ChartStep DEF SnapInv
    <3>3. ChartTypes' /\ NotAhead'
      BY <3>1 DEF SnapInv, ChartTypes, NotAhead, FetchOK
    <3> QED BY <3>2, <3>3
  <2>2. Phased' /\ (chart'.phase = "ready" => Tallied')
    BY <1>1, StillCounted DEF chartVars, SnapInv, Phased
  <2> QED BY <2>1, <2>2 DEF SnapInv
<1>2. PollMarket => SnapInv'
  BY PollSnaps
<1>3. PruneChart \/ RestartCharts \/ (\E u \in ChartUsers : FlushCache(u) \/ FirstTick(u)) => SnapInv'
  BY ResetSnaps
<1>4. (\E b \in boots : BootEnds(b) \/ \E f \in Frames : FrameAnswered(b, f)) => SnapInv'
  BY BootSnaps, AnswerSnaps
<1> QED BY <1>1, <1>2, <1>3, <1>4 DEF ChartsNext

\* What is counted of later times is what the property asks for.
LEMMA CountedOnce == SnapInv => SignalsTypeOK /\ ChartsSound
<1> SUFFICES ASSUME SnapInv PROVE SignalsTypeOK /\ ChartsSound
  OBVIOUS
<1>1. ChartInv /\ ChartTypes /\ Phased /\ (chart.phase = "ready" => Tallied)
  BY DEF SnapInv
<1>2. SignalsTypeOK
  <2>1. chart.id \in 0 .. MaxCharts
    BY <1>1, ChartNumbers DEF ChartInv, ChartTypes
  <2>2. \A f \in Frames : Len(chart.bars[f]) <= KeepBars
    BY <1>1 DEF ChartTypes, KeptBars
  <2> QED BY <1>1, <2>1, <2>2 DEF SignalsTypeOK, ChartTypes, Phased, Phases
<1>3. ASSUME NEW f \in Frames, Len(chart.bars[f]) < KeepBars, watched # <<>>, NEW i \in DOMAIN watched,
             NEW time, time = Bucket(f, watched[i]),
             \A ts \in 0 .. ChartEnd : Bucket(f, ts) = time => ts > Max({chart.born, chart.read[f]}) + SnapLag
      PROVE  VolumeOf(chart.bars[f], time) = SeenIn(watched, f, time)
  <2>1. PICK m : m = Max({chart.born, chart.read[f]})
    OBVIOUS
  <2>2. m \in Int
    <3>1. chart.born \in Int /\ chart.read[f] \in Int
      BY <1>1 DEF ChartInv, ChartTypes
    <3> QED BY <2>1, <3>1, MaxOfTwo
  <2>3. \A ts \in 0 .. ChartEnd : Bucket(f, ts) = time => ts > m
    <3>1. \A ts \in 0 .. ChartEnd : Bucket(f, ts) = time => ts > m + SnapLag
      BY <1>3, <2>1
    <3>2. \A ts \in 0 .. ChartEnd : ts > m + SnapLag => ts > m
      BY <2>2, ChartNumbers
    <3> QED BY <3>1, <3>2
  <2>4. watched[i] \in 0 .. ChartEnd
    <3>1. watched \in Snaps /\ DOMAIN watched = 1 .. Len(watched)
      BY <1>1 DEF ChartTypes, Snaps
    <3> QED BY <3>1, SnapsArePolls
  <2>5. Later(f, time)
    BY <1>3, <2>1, <2>3, <2>4 DEF Later
  <2>6. Tallied
    BY <1>1, <1>3 DEF Phased
  <2>7. VolumeOf(chart.bars[f], time) = SeenTo(watched, f, time, Len(watched))
    BY <1>3, <2>5, <2>6 DEF Tallied
  <2>8. DOMAIN watched = 1 .. Len(watched)
    BY <1>1 DEF ChartTypes, Snaps
  <2> QED BY <2>7, <2>8 DEF SeenIn, SeenTo
<1>4. SnapshotsOnce
  BY <1>3 DEF SnapshotsOnce
<1> QED BY <1>1, <1>2, <1>4 DEF ChartsSound, ChartInv

\* Every candle of a whole frame holds each snapshot of its time once, however polls,
\* answers, restarts, caches and pruning interleave, and a chart holds only candles fetched
\* for it.
THEOREM SnapshotsCountOnce == ChartsSpec => []ChartsSound
<1>1. ChartsSpec => []SnapInv
  BY SnapStarts, SnapStep, PTL DEF ChartsSpec
<1>2. SnapInv => ChartsSound
  BY CountedOnce
<1> QED BY <1>1, <1>2, PTL

-----------------------------------------------------------------------------
(* All of it together.  Whatever one instance is about, a step of it is a    *)
(* step of one component and leaves the others as they are; so each runs as  *)
(* its own specification allows.                                             *)

allVars == <<focus, webVars, moneyVars, accountVars, deskVars, entryVars>>

\* The money of the workers.
LEMMA MoneyRuns ==
    /\ MCInit => BooksInit /\ QuoteInit /\ SizingInit
    /\ [MCNext]_allVars => [BooksNext]_bookVars /\ [QuoteNext]_quoteVars /\ [SizingNext]_sized
<1>1. MCInit => BooksInit /\ QuoteInit /\ SizingInit
  BY DEF MCInit
<1>2. UNCHANGED moneyVars => UNCHANGED bookVars /\ UNCHANGED quoteVars /\ UNCHANGED sized
  BY DEF moneyVars
<1>3. [MCNext]_allVars => MoneyNext \/ UNCHANGED moneyVars
  BY DEF MCNext, allVars
<1>4. MoneyNext => /\ BooksNext \/ UNCHANGED bookVars
                   /\ QuoteNext \/ UNCHANGED quoteVars
                   /\ SizingNext \/ UNCHANGED sized
  BY DEF MoneyNext
<1> QED BY <1>1, <1>2, <1>3, <1>4

\* What users entrust.
LEMMA AccountsRun ==
    /\ MCInit => VaultInit /\ EquityInit /\ LinkInit
    /\ [MCNext]_allVars => [VaultNext]_vaultVars /\ [EquityNext]_equityVars /\ [LinkNext]_linkVars
<1>1. MCInit => VaultInit /\ EquityInit /\ LinkInit
  BY DEF MCInit
<1>2. UNCHANGED accountVars => UNCHANGED vaultVars /\ UNCHANGED equityVars /\ UNCHANGED linkVars
  BY DEF accountVars
<1>3. [MCNext]_allVars => AccountNext \/ UNCHANGED accountVars
  BY DEF MCNext, allVars
<1>4. AccountNext => /\ VaultNext \/ UNCHANGED vaultVars
                     /\ EquityNext \/ UNCHANGED equityVars
                     /\ LinkNext \/ UNCHANGED linkVars
  BY DEF AccountNext
<1> QED BY <1>1, <1>2, <1>3, <1>4

\* The charts and the verdicts, the ways in.
LEMMA DesksRun ==
    /\ MCInit => ChartsInit /\ VerdictInit /\ SignInit /\ CliInit
    /\ [MCNext]_allVars => /\ [ChartsNext]_chartVars /\ [VerdictNext]_verdict
                           /\ [SignNext]_signVars /\ [CliNext]_cliVars
<1>1. MCInit => ChartsInit /\ VerdictInit /\ SignInit /\ CliInit
  BY DEF MCInit
<1>2. /\ UNCHANGED deskVars => UNCHANGED chartVars /\ UNCHANGED verdict
      /\ UNCHANGED entryVars => UNCHANGED signVars /\ UNCHANGED cliVars
  BY DEF deskVars, entryVars
<1>3. [MCNext]_allVars => (DeskNext \/ UNCHANGED deskVars) /\ (EntryNext \/ UNCHANGED entryVars)
  BY DEF MCNext, allVars
<1>4. /\ DeskNext => (ChartsNext \/ UNCHANGED chartVars) /\ (VerdictNext \/ UNCHANGED verdict)
      /\ EntryNext => (SignNext \/ UNCHANGED signVars) /\ (CliNext \/ UNCHANGED cliVars)
  BY DEF DeskNext, EntryNext
<1> QED BY <1>1, <1>2, <1>3, <1>4

\* In every behavior of the instance that runs any one of the parts, the books, the dollars
\* and the sizes are honest (TradeBooks).
THEOREM BooksStayHonest == MCSpec => []MCBooksHonest
<1>1. MCSpec => BooksSpec /\ QuoteSpec /\ SizingSpec
  BY MoneyRuns, PTL DEF MCSpec, allVars, BooksSpec, QuoteSpec, SizingSpec
<1>2. MCSpec => [](DayTruthful /\ LossLimitBites) /\ []QuoteHonest /\ []SizesSound
  BY <1>1, BooksAreTrue, DollarsAreThere, SizesAreSound
<1>3. DayTruthful /\ LossLimitBites /\ QuoteHonest /\ SizesSound => MCBooksHonest
  BY DEF MCBooksHonest, BooksHonest
<1> QED BY <1>2, <1>3, PTL

\* So does the vault keep what users entrust to it.
THEOREM VaultStaysSound == MCSpec => []MCVaultSound
<1>1. MCSpec => VaultSpec
  BY AccountsRun, PTL DEF MCSpec, allVars, VaultSpec
<1>2. MCSpec => [](VaultOpens /\ RecoveryWorks /\ PassphraseHolds /\ SecretsKept)
  BY <1>1, VaultHoldsTrue
<1>3. RecoveryKeyReadsBack
  BY KeysReadBack
<1>4. VaultOpens /\ RecoveryWorks /\ PassphraseHolds /\ SecretsKept /\ RecoveryKeyReadsBack => MCVaultSound
  BY DEF MCVaultSound, VaultSound
<1> QED BY <1>2, <1>3, <1>4, PTL

\* So do the stocks, the day trades and the linked brokers.
THEOREM EquitiesStaySound == MCSpec => []MCEquitiesSound
<1>1. MCSpec => EquitySpec /\ LinkSpec
  BY AccountsRun, PTL DEF MCSpec, allVars, EquitySpec, LinkSpec
<1>2. MCSpec => [](NeverShort /\ PositionCapHolds) /\ []PdtHolds /\ []LinkLives
  BY <1>1, StocksAreCovered, DayTradesAreFew, LinksLive
<1>3. NeverShort /\ PositionCapHolds /\ PdtHolds /\ LinkLives => MCEquitiesSound
  BY DEF MCEquitiesSound, EquitiesSound
<1> QED BY <1>2, <1>3, PTL

\* So do the charts and the verdicts read off them.
THEOREM SignalsStaySound == MCSpec => []MCSignalsSound
<1>1. MCSpec => ChartsSpec /\ VerdictSpec
  BY DesksRun, PTL DEF MCSpec, allVars, ChartsSpec, VerdictSpec
<1>2. MCSpec => []ChartsSound /\ []VerdictsSound
  BY <1>1, SnapshotsCountOnce, VerdictsAreSound
<1>3. ChartsSound /\ VerdictsSound => MCSignalsSound
  BY DEF MCSignalsSound
<1> QED BY <1>2, <1>3, PTL

\* So do the ways to sign in and the command's sessions.
THEOREM SignInStaysSound == MCSpec => []MCSignInSound
<1>1. MCSpec => SignSpec /\ CliSpec
  BY DesksRun, PTL DEF MCSpec, allVars, SignSpec, CliSpec
<1>2. MCSpec => []SignInSound /\ []SessionsKept
  BY <1>1, SignInIsSound, SessionsAreKept
<1>3. SignInSound /\ SessionsKept => MCSignInSound
  BY DEF MCSignInSound
<1> QED BY <1>2, <1>3, PTL

\* What the web server settles.
LEMMA WebRuns ==
    /\ MCInit => Init /\ InvitesInit /\ CreditsInit /\ BudgetInit
    /\ [MCNext]_allVars => /\ [Next]_billingVars /\ [InvitesNext]_inviteVars
                           /\ [CreditsNext]_creditVars /\ [BudgetNext]_budgetVars
<1>1. MCInit => Init /\ InvitesInit /\ CreditsInit /\ BudgetInit
  BY DEF MCInit
<1>2. UNCHANGED webVars => /\ UNCHANGED billingVars /\ UNCHANGED inviteVars
                           /\ UNCHANGED creditVars /\ UNCHANGED budgetVars
  BY DEF webVars
<1>3. [MCNext]_allVars => WebNext \/ UNCHANGED webVars
  BY DEF MCNext, allVars
<1>4. WebNext => /\ Next \/ UNCHANGED billingVars
                 /\ InvitesNext \/ UNCHANGED inviteVars
                 /\ CreditsNext \/ UNCHANGED creditVars
                 /\ BudgetNext \/ UNCHANGED budgetVars
  BY DEF WebNext
<1> QED BY <1>1, <1>2, <1>3, <1>4

\* The types that the invariants of their components hold.
LEMMA SettledTypesAre == MCSpec => []TypeOK /\ []InvitesTypeOK /\ []CreditsTypeOK
<1>1. MCSpec => Spec /\ InvitesSpec /\ CreditsSpec
  BY WebRuns, PTL DEF MCSpec, allVars, Spec, InvitesSpec, CreditsSpec
<1>2. Spec => []PInv
  BY PluginStart, StepPlugin, PTL DEF Spec
<1>3. InvitesSpec => []BInv
  BY BonusStart, StepBonus, PTL DEF InvitesSpec
<1>4. CreditsSpec => []CInv
  BY CreditsStart, StepCredits, PTL DEF CreditsSpec
<1>5. (PInv => TypeOK) /\ (BInv => InvitesTypeOK) /\ (CInv => CreditsTypeOK)
  BY DEF PInv, BInv, CInv
<1> QED BY <1>1, <1>2, <1>3, <1>4, <1>5, PTL

\* Whatever an instance is about, the variables keep their types: settlements, budgets, books,
\* vaults, stocks, links, charts and sessions.
THEOREM WebTypes == MCSpec => []MCTypeOK
<1>1. MCSpec => BooksSpec /\ QuoteSpec /\ BudgetSpec
  BY MoneyRuns, WebRuns, PTL DEF MCSpec, allVars, BooksSpec, QuoteSpec, BudgetSpec
<1>2. MCSpec => VaultSpec /\ EquitySpec /\ LinkSpec
  BY AccountsRun, PTL DEF MCSpec, allVars, VaultSpec, EquitySpec, LinkSpec
<1>3. MCSpec => ChartsSpec /\ SignSpec /\ CliSpec
  BY DesksRun, PTL DEF MCSpec, allVars, ChartsSpec, SignSpec, CliSpec
<1>4. MCSpec => []BooksTypeOK /\ []BudgetTypeOK
  BY <1>1, BooksTypesAre, BudgetTypesAre
<1>5. MCSpec => []VaultTypeOK /\ []EquityTypeOK
  BY <1>2, VaultTypesAre, EquityTypesAre
<1>6. LinkSpec => []LinkTypeOK
  <2>1. LinkSpec => []LinkInv
    BY LinkStarts, LinkMoves, PTL DEF LinkSpec
  <2> QED BY <2>1, LinkInvKeeps, PTL
<1>7. ChartsSpec => []SignalsTypeOK
  <2>1. ChartsSpec => []SnapInv
    BY SnapStarts, SnapStep, PTL DEF ChartsSpec
  <2> QED BY <2>1, CountedOnce, PTL
<1>8. SignSpec => []SignTypeOK
  <2>1. SignSpec => []SignInv
    BY SignStarts, SignStep, PTL DEF SignSpec
  <2> QED BY <2>1, SignInvSound, PTL
<1>9. CliSpec => []CliTypeOK
  <2>1. CliSpec => []CliInv
    BY CliStarts, CliStep, PTL DEF CliSpec
  <2> QED BY <2>1, CliInvKeeps, PTL
<1>10. (/\ TypeOK /\ InvitesTypeOK /\ CreditsTypeOK /\ BudgetTypeOK /\ VaultTypeOK /\ EquityTypeOK
        /\ LinkTypeOK /\ SignalsTypeOK /\ SignTypeOK /\ CliTypeOK /\ BooksTypeOK) => MCTypeOK
  BY DEF MCTypeOK
<1> QED BY <1>2, <1>3, <1>4, <1>5, <1>6, <1>7, <1>8, <1>9, <1>10, SettledTypesAre, PTL

====
