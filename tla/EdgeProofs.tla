---- MODULE EdgeProofs ----
(***************************************************************************)
(* What is at the edges of the trade daemons, for any users, venues, slots *)
(* and routes: the observers that fill the queue do so once, from recent   *)
(* quotes, in turns; an order that an executor places is not placed twice  *)
(* where the exchange or the lock can tell, and its answer is true.        *)
(*                                                                         *)
(* The nonces are what ties a call to its request and its answer: each is  *)
(* given once, an answer carries the nonce its caller listens for, and on  *)
(* Kraken only the call at the head of the line has one under way.         *)
(***************************************************************************)
EXTENDS MCTradeEdges, TLAPS

----------------------------------------------------------------------------
(* The observers.                                                           *)

QuoteType == [venue : Adapters, side : {"buy", "sell"}, rate : Rates, age : Nat]
EdgeType  == [age : Nat, ttl : Nat, net : Int]
ScanType  == [left : SUBSET ScanPairs, asked : SUBSET (Adapters \X {"buy", "sell"}), quotes : SUBSET QuoteType]

\* At most one tick builds, and only while there is nothing yet.
Pipeline ==
    /\ \A u, w \in building : u = w
    /\ building # {} => initPromise /\ ~instance
    /\ observers = IF instance THEN 1 ELSE 0

\* What was published earned enough, and what it may still live is short for its age.
Published ==
    /\ scan \in [ScanSlots -> ScanType]
    /\ edges \subseteq EdgeType
    /\ \A e \in edges : e.net > MinNet /\ e.age + e.ttl <= StaleQuote + QueueTtl

\* The routes before the cursor are one visit ahead of the others.
Ahead ==
    /\ cursor \in 0..Routes - 1
    /\ visits \in [0..Routes - 1 -> Nat]
    /\ \A r \in 0..Routes - 1 :
          visits[r] = IF r < cursor THEN visits[Routes - 1] + 1 ELSE visits[Routes - 1]

ObserversInv == Pipeline /\ Published /\ Ahead

\* The pipeline is built by one tick at a time, and there once it is.
LEMMA StepPipeline == Pipeline /\ [ObserversNext]_observerVars => Pipeline'
  <1> SUFFICES ASSUME Pipeline, [ObserversNext]_observerVars PROVE Pipeline'
    OBVIOUS
  <1> USE DEF Pipeline
  <1>1. ASSUME NEW u \in Users, initV2Pipeline(u) PROVE Pipeline'
    <2>1. building = {} /\ building' = {u}
      BY <1>1 DEF initV2Pipeline, Builds
    <2> QED BY <1>1, <2>1 DEF initV2Pipeline, Builds
  <1>2. ASSUME NEW u \in Users, Built(u) PROVE Pipeline'
    <2>1. building' = {}
      BY <1>2 DEF Built
    <2> QED BY <1>2, <2>1 DEF Built
  <1>3. CASE UNCHANGED pipelineVars
    BY <1>3 DEF pipelineVars
  <1> QED
    BY <1>1, <1>2, <1>3
    DEF ObserversNext, PipelineNext, ScanNext, TriangleNext, ObserveTick, RankAndPublish, Quote,
        GrowsLate, TriangleTick, Priced, observerVars

\* An attempt of one slot leaves the others alone.
LEMMA OtherSlots ==
    ASSUME Published, NEW s \in ScanSlots, NEW k \in ScanType, scan' = [scan EXCEPT ![s] = k],
           UNCHANGED edges
    PROVE  Published'
  BY DEF Published

\* What is published rests on quotes that are fresh, and earns more than the minimum.
LEMMA RankedIsFresh ==
    ASSUME NEW quotes \in SUBSET QuoteType, NEW e \in Ranked(quotes)
    PROVE  LET edge == [age |-> Older(e[1], e[2]), ttl |-> QueueTtl, net |-> e[2].rate - e[1].rate - Cost]
           IN  edge \in EdgeType /\ edge.net > MinNet /\ edge.age + edge.ttl <= StaleQuote + QueueTtl
  <1>1. e[1] \in QuoteType /\ e[2] \in QuoteType
    BY DEF Ranked
  <1>2. e[1].age \in Nat /\ e[2].age \in Nat /\ e[1].rate \in Nat /\ e[2].rate \in Nat
    <2>1. e[1].rate \in Rates /\ e[2].rate \in Rates
      BY <1>1 DEF QuoteType
    <2> QED BY <1>1, <2>1, ObserverConstants DEF QuoteType
  <1>3. /\ e[2].rate - e[1].rate - Cost > MinNet
        /\ e[1].age <= StaleQuote /\ e[2].age <= StaleQuote
    BY DEF Ranked, FreshQuotes
  <1>4. Older(e[1], e[2]) \in Nat /\ Older(e[1], e[2]) <= StaleQuote
    BY <1>2, <1>3 DEF Older
  <1>5. {StaleQuote, QueueTtl, Cost, MinNet} \subseteq Nat
    BY ObserverConstants
  <1>6. e[2].rate - e[1].rate - Cost \in Int
    BY <1>2, <1>5
  <1> QED BY <1>3, <1>4, <1>5, <1>6 DEF EdgeType

\* Publishing, asking and aging keep what is published short-lived.
LEMMA StepPublished == Published /\ [ObserversNext]_observerVars => Published'
  <1> SUFFICES ASSUME Published, [ObserversNext]_observerVars PROVE Published'
    OBVIOUS
  <1> USE DEF Published
  <1>1. ASSUME NEW s \in ScanSlots, ObserveTick(s) PROVE Published'
    <2>1. PICK first \in ScanPairs :
             scan' = [scan EXCEPT ![s] = [left |-> ScanPairs \ {first}, asked |-> Adapters \X {"buy", "sell"},
                                          quotes |-> {}]]
      BY <1>1 DEF ObserveTick
    <2>2. [left |-> ScanPairs \ {first}, asked |-> Adapters \X {"buy", "sell"}, quotes |-> {}] \in ScanType
      BY DEF ScanType
    <2> QED BY <1>1, <2>1, <2>2, OtherSlots DEF ObserveTick
  <1>2. ASSUME NEW s \in ScanSlots, NEW adapter \in Adapters, NEW side \in {"buy", "sell"},
               Quote(s, adapter, side)
        PROVE  Published'
    <2>1. PICK quote \in {{}} \cup {{[venue |-> adapter, side |-> side, rate |-> rate, age |-> 0]} : rate \in Rates} :
             scan' = [scan EXCEPT ![s] = [left |-> @.left, asked |-> @.asked \ {<<adapter, side>>},
                                          quotes |-> @.quotes \cup quote]]
      BY <1>2 DEF Quote
    <2> DEFINE k == [left |-> scan[s].left, asked |-> scan[s].asked \ {<<adapter, side>>},
                     quotes |-> scan[s].quotes \cup quote]
    <2>2. quote \in SUBSET QuoteType
      BY DEF QuoteType
    <2>5. k \in ScanType
      BY <2>2 DEF ScanType
    <2>6. scan' = [scan EXCEPT ![s] = k]
      BY <2>1
    <2> HIDE DEF k
    <2> QED BY <1>2, <2>5, <2>6, OtherSlots DEF Quote
  <1>3. ASSUME NEW s \in ScanSlots, RankAndPublish(s) PROVE Published'
    <2>1. scan[s].quotes \in SUBSET QuoteType /\ scan[s].left \in SUBSET ScanPairs
      BY DEF ScanType
    <2>2. \A e \in edges' : e \in EdgeType /\ e.net > MinNet /\ e.age + e.ttl <= StaleQuote + QueueTtl
      <3> SUFFICES ASSUME NEW f \in edges'
                   PROVE  f \in EdgeType /\ f.net > MinNet /\ f.age + f.ttl <= StaleQuote + QueueTtl
        OBVIOUS
      <3>1. CASE f \in edges
        BY <3>1
      <3>2. CASE f \notin edges
        <4>1. PICK e \in Ranked(scan[s].quotes) :
                 f = [age |-> Older(e[1], e[2]), ttl |-> QueueTtl, net |-> e[2].rate - e[1].rate - Cost]
          BY <1>3, <3>2 DEF RankAndPublish
        <4> QED BY <2>1, <4>1, RankedIsFresh
      <3> QED BY <3>1, <3>2
    <2>3. scan' \in [ScanSlots -> ScanType]
      <3>1. NoScan \in ScanType
        BY DEF NoScan, ScanType
      <3>2. CASE scan' = [scan EXCEPT ![s] = NoScan]
        BY <3>1, <3>2
      <3>3. ASSUME NEW next \in scan[s].left,
                   scan' = [scan EXCEPT ![s] = [left |-> @.left \ {next}, asked |-> Adapters \X {"buy", "sell"},
                                                quotes |-> {}]]
            PROVE  scan' \in [ScanSlots -> ScanType]
        <4>1. [left |-> scan[s].left \ {next}, asked |-> Adapters \X {"buy", "sell"}, quotes |-> {}] \in ScanType
          BY <2>1 DEF ScanType
        <4> QED BY <3>3, <4>1
      <3> QED BY <1>3, <3>2, <3>3 DEF RankAndPublish
    <2> QED BY <2>2, <2>3
  <1>4. CASE GrowsLate
    <2>1. \A q \in QuoteType : [q EXCEPT !.age = @ + 1] \in QuoteType
      BY DEF QuoteType
    <2>2. scan' \in [ScanSlots -> ScanType]
      <3>1. \A s \in ScanSlots :
               [scan[s] EXCEPT !.quotes = {[q EXCEPT !.age = @ + 1] : q \in @}] \in ScanType
        <4> SUFFICES ASSUME NEW s \in ScanSlots
                     PROVE  [scan[s] EXCEPT !.quotes = {[q EXCEPT !.age = @ + 1] : q \in scan[s].quotes}] \in ScanType
          OBVIOUS
        <4>1. scan[s] \in ScanType /\ scan[s].quotes \in SUBSET QuoteType
          BY DEF ScanType
        <4>2. {[q EXCEPT !.age = @ + 1] : q \in scan[s].quotes} \in SUBSET QuoteType
          BY <2>1, <4>1
        <4> QED BY <4>1, <4>2 DEF ScanType
      <3> QED BY <1>4, <3>1 DEF GrowsLate
    <2>3. \A e \in EdgeType : e.ttl > 0 =>
             LET f == [age |-> e.age + 1, ttl |-> e.ttl - 1, net |-> e.net]
             IN  f \in EdgeType /\ f.net = e.net /\ f.age + f.ttl = e.age + e.ttl
      BY DEF EdgeType
    <2>4. \A f \in edges' : \E e \in edges : e.ttl > 0 /\ f = [age |-> e.age + 1, ttl |-> e.ttl - 1, net |-> e.net]
      BY <1>4 DEF GrowsLate
    <2>5. \A f \in edges' : f \in EdgeType /\ f.net > MinNet /\ f.age + f.ttl <= StaleQuote + QueueTtl
      BY <2>3, <2>4
    <2> QED BY <2>2, <2>5
  <1>5. CASE UNCHANGED scanVars
    BY <1>5 DEF scanVars
  <1> QED
    BY <1>1, <1>2, <1>3, <1>4, <1>5
    DEF ObserversNext, PipelineNext, initV2Pipeline, Built, ScanNext, TriangleNext, TriangleTick, Priced, observerVars

\* The routes of a slice: from the cursor on, and around to the first.
LEMMA BatchWraps ==
    ASSUME Ahead, NEW r \in 0..Routes - 1
    PROVE  r \in Batch <=> \/ cursor <= r /\ r < cursor + PerTick
                           \/ r < cursor + PerTick - Routes
  <1>1. Routes \in Nat \ {0} /\ PerTick \in 1..Routes /\ cursor \in 0..Routes - 1
    BY ObserverConstants DEF Ahead
  <1>2. \A n \in 0..PerTick - 1 :
           (cursor + n) % Routes = IF cursor + n < Routes THEN cursor + n ELSE cursor + n - Routes
    BY <1>1, SMT
  <1>3. ASSUME cursor <= r, r < cursor + PerTick PROVE r \in Batch
    <2>1. r - cursor \in 0..PerTick - 1 /\ cursor + (r - cursor) = r
      BY <1>1, <1>3
    <2>2. (cursor + (r - cursor)) % Routes = r
      BY <1>1, <1>2, <2>1
    <2> QED BY <2>1, <2>2 DEF Batch
  <1>4. ASSUME r < cursor + PerTick - Routes PROVE r \in Batch
    <2>1. r - cursor + Routes \in 0..PerTick - 1 /\ cursor + (r - cursor + Routes) = r + Routes
      BY <1>1, <1>4
    <2>2. (cursor + (r - cursor + Routes)) % Routes = r
      BY <1>1, <1>2, <2>1
    <2> QED BY <2>1, <2>2 DEF Batch
  <1>5. ASSUME r \in Batch
        PROVE  (cursor <= r /\ r < cursor + PerTick) \/ r < cursor + PerTick - Routes
    <2>1. PICK n \in 0..PerTick - 1 : r = (cursor + n) % Routes
      BY <1>5 DEF Batch
    <2> QED BY <1>1, <1>2, <2>1
  <1> QED BY <1>3, <1>4, <1>5

\* A slice moves the cursor over the routes it visits.
LEMMA StepAhead == Ahead /\ [ObserversNext]_observerVars => Ahead'
  <1> SUFFICES ASSUME Ahead, [ObserversNext]_observerVars PROVE Ahead'
    OBVIOUS
  <1>1. ASSUME NEW s \in ScanSlots, TriangleTick(s) PROVE Ahead'
    <2>1. Routes \in Nat \ {0} /\ PerTick \in 1..Routes /\ cursor \in 0..Routes - 1
      BY ObserverConstants DEF Ahead
    <2>2. cursor' = IF cursor + PerTick < Routes THEN cursor + PerTick ELSE cursor + PerTick - Routes
      <3>1. (cursor + PerTick) % Routes
               = IF cursor + PerTick < Routes THEN cursor + PerTick ELSE cursor + PerTick - Routes
        BY <2>1, SMT
      <3> QED BY <1>1, <3>1 DEF TriangleTick, Advanced
    <2>3. \A r \in 0..Routes - 1 : visits'[r] = IF r \in Batch THEN visits[r] + 1 ELSE visits[r]
      BY <1>1 DEF TriangleTick
    <2>4. visits' \in [0..Routes - 1 -> Nat]
      BY <1>1 DEF TriangleTick, Ahead
    <2>5. \A r \in 0..Routes - 1 : /\ visits[r] \in Nat
                                   /\ visits[r] = IF r < cursor THEN visits[Routes - 1] + 1 ELSE visits[Routes - 1]
      BY DEF Ahead
    <2>6. cursor' \in 0..Routes - 1 /\ Routes - 1 \in 0..Routes - 1
      BY <2>1, <2>2
    <2>7. \A r \in 0..Routes - 1 :
             visits'[r] = IF r < cursor' THEN visits'[Routes - 1] + 1 ELSE visits'[Routes - 1]
      <3>1. ASSUME NEW r \in 0..Routes - 1
            PROVE  r \in Batch <=> \/ cursor <= r /\ r < cursor + PerTick
                                   \/ r < cursor + PerTick - Routes
        BY BatchWraps
      <3>2. CASE cursor + PerTick < Routes
        BY <2>1, <2>2, <2>3, <2>5, <2>6, <3>1, <3>2
      <3>3. CASE cursor + PerTick >= Routes
        BY <2>1, <2>2, <2>3, <2>5, <2>6, <3>1, <3>3
      <3> QED BY <2>1, <3>2, <3>3
    <2> QED BY <2>4, <2>6, <2>7 DEF Ahead
  <1>2. CASE UNCHANGED <<cursor, visits>>
    BY <1>2 DEF Ahead
  <1> QED
    BY <1>1, <1>2
    DEF ObserversNext, PipelineNext, initV2Pipeline, Built, ScanNext, ObserveTick, RankAndPublish, Quote,
        GrowsLate, TriangleNext, Priced, triangleVars, observerVars

\* The queue is filled once, from recent quotes, and no route is left out, whatever ticks
\* overlap and however late venues answer (pipeline.ts, observer.ts, triangular engine).
THEOREM QueueIsFilledWell == ObserversSpec => []ObserversSafe
  <1>1. ObserversInit => ObserversInv
    <2> SUFFICES ASSUME ObserversInit PROVE ObserversInv
      OBVIOUS
    <2>1. Pipeline
      BY DEF ObserversInit, Pipeline
    <2>2. Published
      BY DEF ObserversInit, Published, NoScan, ScanType
    <2>3. Ahead
      BY ObserverConstants DEF ObserversInit, Ahead
    <2> QED BY <2>1, <2>2, <2>3 DEF ObserversInv
  <1>2. ObserversInv /\ [ObserversNext]_observerVars => ObserversInv'
    BY StepPipeline, StepPublished, StepAhead DEF ObserversInv
  <1>3. ObserversInv => ObserversSafe
    <2> SUFFICES ASSUME ObserversInv PROVE ObserversSafe
      OBVIOUS
    <2>1. OnePipeline
      BY DEF ObserversInv, Pipeline, OnePipeline
    <2>2. UnexpiredIsRecent
      <3> SUFFICES ASSUME NEW e \in edges PROVE e.net > MinNet /\ e.age <= StaleQuote + QueueTtl - e.ttl
        BY DEF UnexpiredIsRecent
      <3>1. e \in EdgeType /\ e.net > MinNet /\ e.age + e.ttl <= StaleQuote + QueueTtl
        BY DEF ObserversInv, Published
      <3>2. {StaleQuote, QueueTtl} \subseteq Nat
        BY ObserverConstants
      <3> QED BY <3>1, <3>2 DEF EdgeType
    <2>3. RoutesTakeTurns
      <3> SUFFICES ASSUME NEW r \in 0..Routes - 1, NEW other \in 0..Routes - 1
                   PROVE  visits[r] <= visits[other] + 1
        BY DEF RoutesTakeTurns
      <3>1. Routes - 1 \in 0..Routes - 1
        BY ObserverConstants
      <3> QED BY <3>1 DEF ObserversInv, Ahead
    <2> QED BY <2>1, <2>2, <2>3 DEF ObserversSafe
  <1> QED BY <1>1, <1>2, <1>3, PTL DEF ObserversSpec

----------------------------------------------------------------------------
(* The orders.                                                              *)

CallRec == [pc : {"idle", "due", "sent", "ok", "failed"}, tries : Int, nonce : Nat, cost : Nat, limit : BOOLEAN]
Request == [call : OrderCalls, nonce : Nat]
Answer  == [call : OrderCalls, nonce : Nat,
            what : {"ok", "lost", "5xx", "refused", "lockout", "declined", "nonce"}]

Waiting == {lock[n] : n \in DOMAIN lock}

OrderTypes ==
    /\ api \in Apis
    /\ call \in [OrderCalls -> CallRec]
    /\ lock \in Seq(OrderCalls)
    /\ inFlight \subseteq Request /\ replies \subseteq Answer
    /\ placed \in [OrderCalls -> Nat]
    /\ lastNonce \in Nat /\ highest \in Nat

\* Every nonce is given once, and the last one given is not seen before it arrives.
Numbered ==
    /\ \A m \in inFlight \cup replies : m.nonce <= lastNonce
    /\ \A m, n \in inFlight : m.nonce = n.nonce => m = n
    /\ highest <= lastNonce
    /\ \A m \in inFlight : m.nonce = lastNonce => highest < lastNonce

\* An answer is to the attempt its caller listens for, and its request is no longer under way.
Listened ==
    /\ \A r \in replies : call[r.call].pc = "sent" /\ r.nonce = call[r.call].nonce
    /\ \A r, s \in replies : r.nonce = s.nonce => r = s
    /\ \A r \in replies, m \in inFlight : r.nonce # m.nonce

\* While a call hears every answer, nothing of it is under way but its attempt, and
\* nothing of it is placed before an answer says so.
Heard ==
    \A c \in OrderCalls \ unsure :
        /\ call[c].pc \in {"idle", "due", "failed"} => placed[c] = 0
        /\ \A m \in inFlight : m.call = c => call[c].pc = "sent" /\ m.nonce = call[c].nonce /\ placed[c] = 0
        /\ \A r \in replies : r.call = c /\ r.what # "ok" => placed[c] = 0

\* Success was placed.
Successes == /\ \A c \in OrderCalls : call[c].pc = "ok" => placed[c] > 0
             /\ \A r \in replies : r.what = "ok" => placed[r.call] > 0

\* On Kraken the calls that are not over are in the line, and the one under way is its head.
InLine ==
    api = "kraken" =>
        \A c \in OrderCalls :
            /\ call[c].pc \in {"due", "sent"} => c \in Waiting
            /\ call[c].pc = "sent" => lock # <<>> /\ c = Head(lock) /\ call[c].nonce = lastNonce

\* Kraken is asked once for each call, Coinbase places each once.
Once ==
    /\ api = "kraken" => \A c \in OrderCalls :
          /\ placed[c] <= 1
          /\ call[c].pc \in {"idle", "due"} => placed[c] = 0 /\ \A m \in inFlight : m.call # c
          /\ \A m \in inFlight : m.call = c => m.nonce = call[c].nonce /\ placed[c] = 0
    /\ api = "coinbase" => \A c \in OrderCalls : placed[c] <= 1
    /\ \A c \in OrderCalls : call[c].limit => call[c].cost <= MAX_POSITION_USD

OrdersInv == OrderTypes /\ Numbered /\ Listened /\ Heard /\ Successes /\ InLine /\ Once /\ NoncesInOrder

\* The head of a line is in it, and leaves the others in it.
LEMMA LineMoves ==
    ASSUME NEW line \in Seq(OrderCalls), line # <<>>
    PROVE  /\ Head(line) \in {line[n] : n \in DOMAIN line}
           /\ Tail(line) \in Seq(OrderCalls)
           /\ \A c \in {line[n] : n \in DOMAIN line} \ {Head(line)} :
                 c \in {Tail(line)[n] : n \in DOMAIN Tail(line)}
  <1>1. Len(line) \in Nat /\ Len(line) >= 1 /\ DOMAIN line = 1..Len(line) /\ Head(line) = line[1]
    OBVIOUS
  <1>2. Tail(line) \in Seq(OrderCalls) /\ DOMAIN Tail(line) = 1..(Len(line) - 1)
    <2>1. Len(Tail(line)) = Len(line) - 1 /\ Tail(line) \in Seq(OrderCalls)
      OBVIOUS
    <2> QED BY <1>1, <2>1
  <1>3. ASSUME NEW n \in 2..Len(line) PROVE Tail(line)[n - 1] = line[n]
    BY <1>1
  <1>4. ASSUME NEW c \in {line[n] : n \in DOMAIN line} \ {Head(line)}
        PROVE  c \in {Tail(line)[n] : n \in DOMAIN Tail(line)}
    <2>1. PICK n \in DOMAIN line : c = line[n]
      BY <1>4
    <2>2. n \in 2..Len(line) /\ n - 1 \in DOMAIN Tail(line)
      BY <1>1, <1>2, <1>4, <2>1
    <2> QED BY <1>3, <2>1, <2>2
  <1> QED BY <1>1, <1>2, <1>4

\* Who joins a line is in it, behind the others.
LEMMA LineGrows ==
    ASSUME NEW line \in Seq(OrderCalls), NEW c \in OrderCalls
    PROVE  /\ Append(line, c) \in Seq(OrderCalls) /\ Append(line, c) # <<>>
           /\ line # <<>> => Head(Append(line, c)) = Head(line)
           /\ \A e \in {line[n] : n \in DOMAIN line} \cup {c} :
                 e \in {Append(line, c)[n] : n \in DOMAIN Append(line, c)}
  <1>1. /\ Append(line, c) \in Seq(OrderCalls) /\ Len(line) \in Nat /\ DOMAIN line = 1..Len(line)
        /\ Len(Append(line, c)) = Len(line) + 1
    OBVIOUS
  <1>2. DOMAIN Append(line, c) = 1..(Len(line) + 1) /\ Append(line, c) # <<>>
    BY <1>1
  <1>3. Append(line, c)[Len(line) + 1] = c /\ \A n \in 1..Len(line) : Append(line, c)[n] = line[n]
    BY <1>1
  <1>4. \A e \in {line[n] : n \in DOMAIN line} \cup {c} :
           e \in {Append(line, c)[n] : n \in DOMAIN Append(line, c)}
    <2> SUFFICES ASSUME NEW e \in {line[n] : n \in DOMAIN line} \cup {c}
                 PROVE  e \in {Append(line, c)[n] : n \in DOMAIN Append(line, c)}
      OBVIOUS
    <2>1. CASE e = c
      BY <1>1, <1>2, <1>3, <2>1
    <2>2. ASSUME NEW n \in DOMAIN line, e = line[n]
          PROVE  e \in {Append(line, c)[k] : k \in DOMAIN Append(line, c)}
      BY <1>1, <1>2, <1>3, <2>2
    <2> QED BY <2>1, <2>2
  <1>5. line # <<>> => Head(Append(line, c)) = Head(line)
    BY <1>1
  <1> QED BY <1>1, <1>2, <1>4, <1>5

\* An attempt that is over: the call is over with it and leaves the line, or is due again.
LEMMA Settling ==
    ASSUME OrdersInv,
           NEW c \in OrderCalls, NEW k \in CallRec, call' = [call EXCEPT ![c] = k],
           k.nonce = call[c].nonce, k.cost = call[c].cost, k.limit = call[c].limit,
           k.pc \in {"due", "ok", "failed"},
           k.pc = "due" => api # "kraken" /\ lock' = lock,
           k.pc # "due" => lock' = Released(c),
           UNCHANGED <<api, lastNonce, inFlight, highest, placed, outrun>>,
           replies' \subseteq replies, \A r \in replies' : r.call # c,
           unsure \subseteq unsure',
           k.pc = "ok" => placed[c] > 0,
           c \notin unsure' => (k.pc # "ok" => placed[c] = 0) /\ \A m \in inFlight : m.call # c
    PROVE  OrdersInv'
  <1>1. \A d \in OrderCalls : call'[d] = IF d = c THEN k ELSE call[d]
    BY DEF OrdersInv, OrderTypes
  <1>2. OrderTypes'
    <2>1. lock' \in Seq(OrderCalls)
      BY LineMoves DEF OrdersInv, OrderTypes, Released
    <2> QED BY <2>1 DEF OrdersInv, OrderTypes
  <1>3. Numbered'
    BY DEF OrdersInv, Numbered
  <1>4. Listened'
    <2>1. \A r \in replies : r.call \in OrderCalls
      BY DEF OrdersInv, OrderTypes, Answer
    <2> QED BY <1>1, <2>1 DEF OrdersInv, Listened
  <1>5. Heard'
    BY <1>1 DEF OrdersInv, Heard
  <1>6. Successes'
    BY <1>1 DEF OrdersInv, Successes
  <1>7. InLine'
    <2> SUFFICES ASSUME api = "kraken", NEW d \in OrderCalls, call'[d].pc \in {"due", "sent"}
                 PROVE  /\ d \in Waiting'
                        /\ call'[d].pc = "sent" => lock' # <<>> /\ d = Head(lock') /\ call'[d].nonce = lastNonce'
      BY DEF InLine
    <2>1. d # c /\ call'[d] = call[d]
      BY <1>1
    <2>2. d \in Waiting /\ (call[d].pc = "sent" => lock # <<>> /\ d = Head(lock) /\ call[d].nonce = lastNonce)
      BY <2>1 DEF OrdersInv, InLine
    <2>3. lock' = Released(c)
      OBVIOUS
    <2>4. CASE lock # <<>> /\ c = Head(lock)
      BY <2>1, <2>2, <2>3, <2>4, LineMoves DEF Released, Waiting, OrdersInv, OrderTypes
    <2>5. CASE ~(lock # <<>> /\ c = Head(lock))
      BY <2>1, <2>2, <2>3, <2>5 DEF Released, Waiting
    <2> QED BY <2>4, <2>5
  <1>8. Once'
    BY <1>1 DEF OrdersInv, Once
  <1>9. NoncesInOrder'
    BY DEF OrdersInv, NoncesInOrder
  <1> QED BY <1>2, <1>3, <1>4, <1>5, <1>6, <1>7, <1>8, <1>9 DEF OrdersInv

\* A request that arrives: it is placed or not, and its caller hears of it or does not.
LEMMA Arriving ==
    ASSUME OrdersInv,
           NEW request \in inFlight, Receives(request),
           NEW what \in {"ok", "lost", "5xx", "refused", "lockout", "declined", "nonce"},
           \/ UNCHANGED replies
           \/ /\ Listens(request)
              /\ replies' = replies \cup {[call |-> request.call, nonce |-> request.nonce, what |-> what]},
           \/ UNCHANGED placed
           \/ ~KnownOrder(request.call) /\ placed' = [placed EXCEPT ![request.call] = @ + 1],
           unsure \subseteq unsure',
           what = "ok" => placed'[request.call] > 0,
           request.call \notin unsure' => what = "ok" \/ UNCHANGED placed,
           outrun' = outrun \/ (Outrun(request) /\ outrun' = outrun \cup {request.call})
    PROVE  OrdersInv'
  <1> DEFINE c == request.call
             answer == [call |-> c, nonce |-> request.nonce, what |-> what]
  <1>1. request \in Request /\ c \in OrderCalls /\ request.nonce \in Nat
    BY DEF OrdersInv, OrderTypes, Request
  <1>2. /\ inFlight' = inFlight \ {request}
        /\ highest' = IF request.nonce > highest THEN request.nonce ELSE highest
        /\ UNCHANGED <<api, call, lock, lastNonce>>
    BY DEF Receives
  <1>3. \A d \in OrderCalls : /\ placed[d] \in Nat /\ placed'[d] \in Nat /\ placed'[d] >= placed[d]
                              /\ d # c => placed'[d] = placed[d]
                              /\ placed'[d] <= placed[d] + 1
    BY <1>1 DEF OrdersInv, OrderTypes
  <1>4. \A r \in replies' : r \in replies \/ (r = answer /\ Listens(request))
    OBVIOUS
  <1>5. \A m \in inFlight, d \in OrderCalls : m.call = d /\ m.nonce = request.nonce => m = request
    BY DEF OrdersInv, Numbered
  <1>6. OrderTypes'
    <2>1. answer \in Answer
      BY <1>1 DEF Answer
    <2>2. placed' \in [OrderCalls -> Nat]
      BY <1>1 DEF OrdersInv, OrderTypes
    <2>3. highest' \in Nat
      BY <1>1, <1>2 DEF OrdersInv, OrderTypes
    <2> HIDE DEF answer
    <2> QED BY <1>2, <1>4, <2>1, <2>2, <2>3 DEF OrdersInv, OrderTypes
  <1>7. Numbered'
    <2>1. lastNonce \in Nat /\ highest \in Nat /\ \A m \in inFlight : m.nonce \in Nat
      BY DEF OrdersInv, OrderTypes, Request
    <2> QED BY <1>1, <1>2, <2>1 DEF OrdersInv, Numbered
  <1>8. Listened'
    <2>1. \A r \in replies' : call'[r.call].pc = "sent" /\ r.nonce = call'[r.call].nonce
      BY <1>2, <1>4 DEF OrdersInv, Listened, Listens
    <2>2. \A r \in replies : r.nonce # request.nonce
      BY DEF OrdersInv, Listened
    <2>3. \A r, t \in replies' : r.nonce = t.nonce => r = t
      BY <1>4, <2>2 DEF OrdersInv, Listened
    <2>4. \A r \in replies', m \in inFlight' : r.nonce # m.nonce
      BY <1>2, <1>4 DEF OrdersInv, Listened, Numbered
    <2> QED BY <2>1, <2>3, <2>4 DEF Listened
  <1>9. Heard'
    <2> SUFFICES ASSUME NEW d \in OrderCalls, d \notin unsure'
                 PROVE  /\ call[d].pc \in {"idle", "due", "failed"} => placed'[d] = 0
                        /\ \A m \in inFlight' : m.call = d =>
                              call[d].pc = "sent" /\ m.nonce = call[d].nonce /\ placed'[d] = 0
                        /\ \A r \in replies' : r.call = d /\ r.what # "ok" => placed'[d] = 0
      BY <1>2 DEF Heard
    <2>1. d \notin unsure
      OBVIOUS
    <2>2. CASE d = c
      <3>1. call[d].pc = "sent" /\ request.nonce = call[d].nonce /\ placed[d] = 0
        BY <2>1, <2>2 DEF OrdersInv, Heard
      <3>2. \A m \in inFlight' : m.call # d
        BY <1>2, <1>5, <2>1, <2>2, <3>1 DEF OrdersInv, Heard
      <3>3. \A r \in replies : r.call # d
        BY <3>1 DEF OrdersInv, Listened
      <3>4. \A r \in replies' : r.call = d /\ r.what # "ok" => placed'[d] = 0
        BY <1>4, <2>2, <3>1, <3>3
      <3> QED BY <3>1, <3>2, <3>4
    <2>3. CASE d # c
      BY <1>2, <1>3, <1>4, <2>1, <2>3 DEF OrdersInv, Heard
    <2> QED BY <2>2, <2>3
  <1>10. Successes'
    <2>1. \A r \in replies : r.call \in OrderCalls
      BY DEF OrdersInv, OrderTypes, Answer
    <2> QED BY <1>1, <1>2, <1>3, <1>4, <2>1 DEF OrdersInv, Successes
  <1>11. InLine'
    BY <1>2 DEF OrdersInv, InLine, Waiting
  <1>12. Once'
    <2>1. ASSUME api = "kraken", NEW d \in OrderCalls
          PROVE  /\ placed'[d] <= 1
                 /\ call[d].pc \in {"idle", "due"} => placed'[d] = 0 /\ \A m \in inFlight' : m.call # d
                 /\ \A m \in inFlight' : m.call = d => m.nonce = call[d].nonce /\ placed'[d] = 0
      <3>1. CASE d = c
        <4>1. call[d].pc \notin {"idle", "due"} /\ request.nonce = call[d].nonce /\ placed[d] = 0
          BY <2>1, <3>1 DEF OrdersInv, Once
        <4>2. \A m \in inFlight' : m.call # d
          BY <1>2, <1>5, <2>1, <3>1, <4>1 DEF OrdersInv, Once
        <4> QED BY <1>3, <4>1, <4>2
      <3>2. CASE d # c
        BY <1>2, <1>3, <2>1, <3>2 DEF OrdersInv, Once
      <3> QED BY <3>1, <3>2
    <2>2. ASSUME api = "coinbase", NEW d \in OrderCalls PROVE placed'[d] <= 1
      BY <1>1, <1>3, <2>2 DEF OrdersInv, Once, OrderTypes, KnownOrder
    <2> QED BY <1>2, <2>1, <2>2 DEF OrdersInv, Once
  <1>13. NoncesInOrder'
    <2> SUFFICES ASSUME api = "kraken", Outrun(request), c \notin unsure PROVE FALSE
      BY <1>2 DEF OrdersInv, NoncesInOrder
    <2>1. call[c].pc = "sent" /\ request.nonce = call[c].nonce
      BY <1>1 DEF OrdersInv, Heard
    <2>2. request.nonce = lastNonce
      BY <1>1, <2>1 DEF OrdersInv, InLine
    <2>3. highest < request.nonce /\ highest \in Nat
      BY <2>2 DEF OrdersInv, Numbered, OrderTypes
    <2> QED BY <1>1, <2>3 DEF Outrun
  <1> QED BY <1>6, <1>7, <1>8, <1>9, <1>10, <1>11, <1>12, <1>13 DEF OrdersInv

\* A call is made: it is refused, or joins the line.
LEMMA PlaceKeeps ==
    ASSUME OrdersInv, NEW c \in OrderCalls, NEW cost \in Costs, NEW limit \in BOOLEAN,
           placeOrder(c, cost, limit)
    PROVE  OrdersInv'
  <1>1. /\ call[c].pc = "idle" /\ Costs \subseteq Nat /\ MAX_POSITION_USD \in Nat
        /\ UNCHANGED <<api, lastNonce, inFlight, replies, highest, placed, unsure, outrun>>
    BY VenueConstants DEF placeOrder
  <1>2. PICK k \in CallRec : /\ call' = [call EXCEPT ![c] = k]
                             /\ k.limit => k.cost <= MAX_POSITION_USD
                             /\ \/ k.pc = "failed" /\ lock' = lock
                                \/ k.pc = "due" /\ lock' = withLock(c)
    <2>1. CASE TooExpensive(cost, limit)
      <3> DEFINE k == [NoCall EXCEPT !.pc = "failed"]
      <3>1. NoCall \in CallRec /\ NoCall.limit = FALSE
        BY DEF NoCall, CallRec
      <3>2. k \in CallRec /\ k.pc = "failed" /\ k.limit = FALSE
        BY <3>1 DEF CallRec
      <3>3. call' = [call EXCEPT ![c] = k] /\ lock' = lock
        BY <2>1 DEF placeOrder
      <3> HIDE DEF k
      <3> QED BY <3>2, <3>3
    <2>2. CASE ~TooExpensive(cost, limit)
      <3> DEFINE k == [NoCall EXCEPT !.pc = "due", !.limit = limit, !.cost = IF limit THEN cost ELSE 0]
      <3> DEFINE due  == [NoCall EXCEPT !.pc = "due"]
                 ltd  == [due EXCEPT !.limit = limit]
      <3>1. NoCall \in CallRec
        BY DEF NoCall, CallRec
      <3>2. due \in CallRec /\ due.pc = "due"
        BY <3>1 DEF CallRec
      <3>3. ltd \in CallRec /\ ltd.pc = "due" /\ ltd.limit = limit
        BY <3>2 DEF CallRec
      <3> DEFINE price == IF limit THEN cost ELSE 0
      <3>4. k = [ltd EXCEPT !.cost = price]
        BY DEF NoCall
      <3>5. price \in Nat /\ (limit => price <= MAX_POSITION_USD)
        BY <1>1, <2>2 DEF TooExpensive
      <3> HIDE DEF price, ltd
      <3>6. k \in CallRec /\ k.pc = "due" /\ k.limit = limit /\ k.cost = price
        BY <3>3, <3>4, <3>5 DEF CallRec
      <3>7. call' = [call EXCEPT ![c] = k] /\ lock' = withLock(c)
        BY <2>2 DEF placeOrder
      <3> HIDE DEF k
      <3> QED BY <3>5, <3>6, <3>7
    <2> QED BY <2>1, <2>2
  <1>3. \A d \in OrderCalls : call'[d] = IF d = c THEN k ELSE call[d]
    BY <1>2 DEF OrdersInv, OrderTypes
  <1>4. OrderTypes'
    <2>1. lock' \in Seq(OrderCalls)
      BY <1>2, LineGrows DEF withLock, OrdersInv, OrderTypes
    <2> QED BY <1>1, <1>2, <2>1 DEF OrdersInv, OrderTypes
  <1>5. Numbered'
    BY <1>1 DEF OrdersInv, Numbered
  <1>6. Listened'
    <2>1. \A r \in replies : r.call \in OrderCalls
      BY DEF OrdersInv, OrderTypes, Answer
    <2> QED BY <1>1, <1>3, <2>1 DEF OrdersInv, Listened
  <1>7. Heard'
    BY <1>1, <1>2, <1>3 DEF OrdersInv, Heard
  <1>8. Successes'
    BY <1>1, <1>2, <1>3 DEF OrdersInv, Successes
  <1>9. InLine'
    <2> SUFFICES ASSUME api = "kraken", NEW d \in OrderCalls, call'[d].pc \in {"due", "sent"}
                 PROVE  /\ d \in Waiting'
                        /\ call'[d].pc = "sent" => lock' # <<>> /\ d = Head(lock') /\ call'[d].nonce = lastNonce'
      BY <1>1 DEF InLine
    <2>1. CASE d = c
      <3>1. lock' = Append(lock, c) /\ call'[d].pc = "due"
        BY <1>2, <1>3, <2>1 DEF withLock
      <3> QED BY <2>1, <3>1, LineGrows DEF Waiting, OrdersInv, OrderTypes
    <2>2. CASE d # c
      <3>1. d \in Waiting /\ (call[d].pc = "sent" => lock # <<>> /\ d = Head(lock) /\ call[d].nonce = lastNonce)
        BY <1>3, <2>2 DEF OrdersInv, InLine
      <3>2. CASE lock' = lock
        BY <1>1, <1>3, <2>2, <3>1, <3>2 DEF Waiting
      <3>3. CASE lock' = Append(lock, c)
        <4>1. lock \in Seq(OrderCalls)
          BY DEF OrdersInv, OrderTypes
        <4>2. lock' # <<>> /\ (lock # <<>> => Head(lock') = Head(lock))
          BY <3>3, <4>1, LineGrows
        <4>3. d \in Waiting'
          BY <3>1, <3>3, <4>1, LineGrows DEF Waiting
        <4> QED BY <1>1, <1>3, <2>2, <3>1, <4>2, <4>3
      <3> QED BY <1>2, <3>2, <3>3 DEF withLock
    <2> QED BY <2>1, <2>2
  <1>10. Once'
    BY <1>1, <1>2, <1>3 DEF OrdersInv, Once
  <1>11. NoncesInOrder'
    BY <1>1 DEF OrdersInv, NoncesInOrder
  <1> QED BY <1>4, <1>5, <1>6, <1>7, <1>8, <1>9, <1>10, <1>11 DEF OrdersInv

\* An attempt takes the next nonce; on Kraken, when no other is under way.
LEMMA AttemptKeeps ==
    ASSUME OrdersInv, NEW c \in OrderCalls, Attempt(c)
    PROVE  OrdersInv'
  <1> DEFINE k == [pc |-> "sent", tries |-> call[c].tries + 1, nonce |-> lastNonce + 1,
                   cost |-> call[c].cost, limit |-> call[c].limit]
             request == [call |-> c, nonce |-> lastNonce + 1]
  <1>1. /\ call[c].pc = "due" /\ call[c] \in CallRec /\ (c \in Waiting => c = Head(lock))
        /\ lastNonce \in Nat /\ lastNonce' = lastNonce + 1 /\ inFlight' = inFlight \cup {request}
        /\ UNCHANGED <<api, lock, replies, highest, placed, unsure, outrun>>
    BY DEF Attempt, MayCall, Waiting, OrdersInv, OrderTypes
  <1>2. call' = [call EXCEPT ![c] = k]
    <2> DEFINE k1 == [pc |-> "sent", tries |-> call[c].tries, nonce |-> call[c].nonce,
                      cost |-> call[c].cost, limit |-> call[c].limit]
               k2 == [pc |-> "sent", tries |-> call[c].tries + 1, nonce |-> call[c].nonce,
                      cost |-> call[c].cost, limit |-> call[c].limit]
    <2>1. call[c] \in CallRec /\ call \in [OrderCalls -> CallRec]
      BY <1>1 DEF OrdersInv, OrderTypes
    <2>2. [call EXCEPT ![c].pc = "sent"] = [call EXCEPT ![c] = k1]
      <3>1. call[c] = [pc |-> call[c].pc, tries |-> call[c].tries, nonce |-> call[c].nonce,
                       cost |-> call[c].cost, limit |-> call[c].limit]
        BY <2>1 DEF CallRec
      <3>2. [call[c] EXCEPT !.pc = "sent"] = k1
        BY <3>1
      <3> QED BY <3>2
    <2>3. [k1 EXCEPT !.tries = k1.tries + 1] = k2 /\ [k2 EXCEPT !.nonce = lastNonce + 1] = k
      OBVIOUS
    <2> HIDE DEF k, k1, k2
    <2>4. /\ [[call EXCEPT ![c] = k1] EXCEPT ![c].tries = @ + 1] = [call EXCEPT ![c] = k2]
          /\ [[call EXCEPT ![c] = k2] EXCEPT ![c].nonce = lastNonce + 1] = [call EXCEPT ![c] = k]
      BY <2>1, <2>3
    <2>5. call' = [[[call EXCEPT ![c].pc = "sent"] EXCEPT ![c].tries = @ + 1] EXCEPT ![c].nonce = lastNonce + 1]
      BY <2>1 DEF Attempt
    <2> QED BY <2>2, <2>4, <2>5
  <1>3. k \in CallRec /\ request \in Request
    BY <1>1 DEF CallRec, Request
  <1>4. \A d \in OrderCalls : call'[d] = IF d = c THEN k ELSE call[d]
    BY <1>2 DEF OrdersInv, OrderTypes
  <1>5. /\ highest \in Nat /\ highest <= lastNonce
        /\ \A m \in inFlight \cup replies : m.nonce \in Nat /\ m.nonce <= lastNonce /\ m.nonce # lastNonce + 1
    BY DEF OrdersInv, OrderTypes, Request, Answer, Numbered
  <1>6. \A r \in replies : r.call # c /\ r.call \in OrderCalls
    BY <1>1 DEF OrdersInv, OrderTypes, Answer, Listened
  <1>7. OrderTypes'
    BY <1>1, <1>2, <1>3 DEF OrdersInv, OrderTypes
  <1>8. Numbered'
    BY <1>1, <1>5 DEF OrdersInv, Numbered
  <1>9. Listened'
    BY <1>1, <1>4, <1>5, <1>6 DEF OrdersInv, Listened
  <1>10. Heard'
    BY <1>1, <1>4 DEF OrdersInv, Heard
  <1>11. Successes'
    BY <1>1, <1>4 DEF OrdersInv, Successes
  <1>12. InLine'
    <2> SUFFICES ASSUME api = "kraken", NEW d \in OrderCalls, call'[d].pc \in {"due", "sent"}
                 PROVE  /\ d \in Waiting
                        /\ call'[d].pc = "sent" => lock # <<>> /\ d = Head(lock) /\ call'[d].nonce = lastNonce'
      BY <1>1 DEF InLine, Waiting
    <2>1. c \in Waiting /\ c = Head(lock)
      BY <1>1 DEF OrdersInv, InLine
    <2>2. lock # <<>>
      BY <2>1 DEF Waiting
    <2> QED BY <1>1, <1>4, <2>1, <2>2 DEF OrdersInv, InLine
  <1>13. Once'
    BY <1>1, <1>4 DEF OrdersInv, Once
  <1>14. NoncesInOrder'
    BY <1>1 DEF OrdersInv, NoncesInOrder
  <1> QED BY <1>7, <1>8, <1>9, <1>10, <1>11, <1>12, <1>13, <1>14 DEF OrdersInv

\* An attempt that failed, on all but Kraken, may be made again.
LEMMA FailsSettles ==
    ASSUME OrdersInv, NEW c \in OrderCalls, Fails(c)
    PROVE  \E k \in CallRec :
              /\ call' = [call EXCEPT ![c] = k]
              /\ k.nonce = call[c].nonce /\ k.cost = call[c].cost /\ k.limit = call[c].limit
              /\ k.pc \in {"due", "failed"}
              /\ k.pc = "due" => api # "kraken" /\ lock' = lock
              /\ k.pc # "due" => lock' = Released(c)
  <1>1. call[c] \in CallRec /\ call \in [OrderCalls -> CallRec]
    BY DEF OrdersInv, OrderTypes
  <1>2. \A pc \in {"due", "failed"} :
           LET k == [call[c] EXCEPT !.pc = pc]
           IN  /\ k \in CallRec /\ [call EXCEPT ![c].pc = pc] = [call EXCEPT ![c] = k]
               /\ k.nonce = call[c].nonce /\ k.cost = call[c].cost /\ k.limit = call[c].limit /\ k.pc = pc
    BY <1>1 DEF CallRec
  <1> QED BY <1>2 DEF Fails, Ends

\* Every step of a client or the exchange keeps the invariant.
LEMMA StepOrders == OrdersInv /\ [VenueNext]_venueVars => OrdersInv'
  <1> SUFFICES ASSUME OrdersInv, [VenueNext]_venueVars PROVE OrdersInv'
    OBVIOUS
  <1>1. ASSUME NEW c \in OrderCalls, NEW pc \in {"ok", "failed"}, Ends(c, pc)
        PROVE  \E k \in CallRec :
                  /\ call' = [call EXCEPT ![c] = k]
                  /\ k.nonce = call[c].nonce /\ k.cost = call[c].cost /\ k.limit = call[c].limit
                  /\ k.pc = pc /\ lock' = Released(c)
    <2>1. call[c] \in CallRec /\ call \in [OrderCalls -> CallRec]
      BY DEF OrdersInv, OrderTypes
    <2> DEFINE k == [call[c] EXCEPT !.pc = pc]
    <2>2. /\ k \in CallRec /\ [call EXCEPT ![c].pc = pc] = [call EXCEPT ![c] = k]
          /\ k.nonce = call[c].nonce /\ k.cost = call[c].cost /\ k.limit = call[c].limit /\ k.pc = pc
      BY <2>1 DEF CallRec
    <2> HIDE DEF k
    <2> QED BY <1>1, <2>2 DEF Ends
  <1>2. \A r \in replies : r.call \in OrderCalls
    BY DEF OrdersInv, OrderTypes, Answer
  <1>3. ASSUME NEW c \in OrderCalls, MayCall(c)
        PROVE  /\ \A r \in replies : r.call # c
               /\ c \notin unsure => placed[c] = 0 /\ \A m \in inFlight : m.call # c
    BY <1>3 DEF MayCall, OrdersInv, Listened, Heard
  <1>4. ASSUME NEW c \in OrderCalls, CannotSend(c) PROVE OrdersInv'
    <2>1. /\ api = "binance-us" /\ MayCall(c)
          /\ UNCHANGED <<api, lastNonce, inFlight, replies, highest, placed, unsure, outrun>>
      BY <1>4 DEF CannotSend
    <2>2. CASE Ends(c, "failed")
      <3>1. PICK k \in CallRec :
                  /\ call' = [call EXCEPT ![c] = k]
                  /\ k.nonce = call[c].nonce /\ k.cost = call[c].cost /\ k.limit = call[c].limit
                  /\ k.pc = "failed" /\ lock' = Released(c)
        BY <1>1, <2>2
      <3> QED BY <1>3, <2>1, <3>1, Settling
    <2>3. CASE call' = [call EXCEPT ![c].tries = @ + 1] /\ UNCHANGED lock
      <3> DEFINE k == [call[c] EXCEPT !.tries = @ + 1]
      <3>1. call[c] \in CallRec /\ call \in [OrderCalls -> CallRec] /\ call[c].pc = "due"
        BY <2>1 DEF OrdersInv, OrderTypes, MayCall
      <3>2. /\ k \in CallRec /\ call' = [call EXCEPT ![c] = k]
            /\ k.nonce = call[c].nonce /\ k.cost = call[c].cost /\ k.limit = call[c].limit /\ k.pc = "due"
        BY <2>3, <3>1 DEF CallRec
      <3> HIDE DEF k
      <3> QED BY <1>3, <2>1, <2>3, <3>2, Settling
    <2> QED BY <1>4, <2>2, <2>3 DEF CannotSend
  <1>5. ASSUME NEW c \in OrderCalls, LockedOut(c) PROVE OrdersInv'
    <2>1. /\ MayCall(c) /\ Ends(c, "failed")
          /\ UNCHANGED <<api, lastNonce, inFlight, replies, highest, placed, unsure, outrun>>
      BY <1>5 DEF LockedOut
    <2>2. PICK k \in CallRec :
                  /\ call' = [call EXCEPT ![c] = k]
                  /\ k.nonce = call[c].nonce /\ k.cost = call[c].cost /\ k.limit = call[c].limit
                  /\ k.pc = "failed" /\ lock' = Released(c)
      BY <1>1, <2>1
    <2> QED BY <1>3, <2>1, <2>2, Settling
  <1>6. ASSUME NEW c \in OrderCalls, TimesOut(c) PROVE OrdersInv'
    <2>1. /\ Fails(c) /\ unsure' = unsure \cup {c} /\ replies' = {r \in replies : r.call # c}
          /\ UNCHANGED <<api, lastNonce, inFlight, highest, placed, outrun>>
      BY <1>6 DEF TimesOut
    <2>2. PICK k \in CallRec :
              /\ call' = [call EXCEPT ![c] = k]
              /\ k.nonce = call[c].nonce /\ k.cost = call[c].cost /\ k.limit = call[c].limit
              /\ k.pc \in {"due", "failed"}
              /\ k.pc = "due" => api # "kraken" /\ lock' = lock
              /\ k.pc # "due" => lock' = Released(c)
      BY <2>1, FailsSettles
    <2> QED BY <2>1, <2>2, Settling
  <1>7. ASSUME NEW reply \in replies, Answered(reply) PROVE OrdersInv'
    <2> DEFINE c == reply.call
    <2>1. /\ c \in OrderCalls /\ replies' = replies \ {reply}
          /\ UNCHANGED <<api, lastNonce, inFlight, highest, placed, unsure, outrun>>
      BY <1>2, <1>7 DEF Answered
    <2>2. \A r \in replies' : r.call # c
      BY <2>1 DEF OrdersInv, Listened
    <2>3. c \notin unsure => \A m \in inFlight : m.call # c
      BY <2>1 DEF OrdersInv, Listened, Heard
    <2>4. CASE reply.what = "ok"
      <3>1. placed[c] > 0 /\ Ends(c, "ok")
        BY <1>7, <2>4 DEF OrdersInv, Successes, Answered
      <3>2. PICK k \in CallRec :
                  /\ call' = [call EXCEPT ![c] = k]
                  /\ k.nonce = call[c].nonce /\ k.cost = call[c].cost /\ k.limit = call[c].limit
                  /\ k.pc = "ok" /\ lock' = Released(c)
        BY <1>1, <2>1, <3>1
      <3> QED BY <2>1, <2>2, <2>3, <3>1, <3>2, Settling
    <2>5. CASE reply.what # "ok"
      <3>1. c \notin unsure => placed[c] = 0
        BY <2>1, <2>5 DEF OrdersInv, Heard
      <3>2. PICK k \in CallRec :
              /\ call' = [call EXCEPT ![c] = k]
              /\ k.nonce = call[c].nonce /\ k.cost = call[c].cost /\ k.limit = call[c].limit
              /\ k.pc \in {"due", "failed"}
              /\ k.pc = "due" => api # "kraken" /\ lock' = lock
              /\ k.pc # "due" => lock' = Released(c)
        <4>1. CASE Ends(c, "failed")
          BY <1>1, <2>1, <4>1
        <4>2. CASE Fails(c)
          BY <2>1, <4>2, FailsSettles
        <4> QED BY <1>7, <2>5, <4>1, <4>2 DEF Answered
      <3> QED BY <2>1, <2>2, <2>3, <3>1, <3>2, Settling
    <2> QED BY <2>4, <2>5
  <1>8. ASSUME NEW request \in inFlight, Places(request) PROVE OrdersInv'
    <2>1. /\ Receives(request) /\ outrun' = outrun
          /\ placed' = IF KnownOrder(request.call) THEN placed ELSE [placed EXCEPT ![request.call] = @ + 1]
      BY <1>8 DEF Places
    <2>2. CASE Replies(request, "ok") /\ UNCHANGED unsure
      <3>1. placed'[request.call] > 0
        BY <2>1 DEF KnownOrder, OrdersInv, OrderTypes, Request
      <3> QED BY <2>1, <2>2, <3>1, Arriving DEF Replies
    <2>3. CASE unsure' = unsure \cup {request.call} /\ (UNCHANGED replies \/ Replies(request, "5xx"))
      BY <2>1, <2>3, Arriving DEF Replies
    <2> QED BY <1>8, <2>2, <2>3 DEF Places
  <1>9. ASSUME NEW request \in inFlight, Refuses(request) PROVE OrdersInv'
    <2>1. /\ Receives(request) /\ UNCHANGED <<placed, unsure, outrun>>
          /\ \E what \in {"refused", "lockout", "declined"} : Replies(request, what)
      BY <1>9 DEF Refuses, Refusals
    <2>2. PICK what \in {"refused", "lockout", "declined"} : Replies(request, what)
      BY <2>1
    <2> QED BY <2>1, <2>2, Arriving DEF Replies
  <1>10. ASSUME NEW request \in inFlight, RefusesNonce(request) PROVE OrdersInv'
    BY <1>10, Arriving DEF RefusesNonce, Replies
  <1>11. CASE UNCHANGED <<api, call, lock, lastNonce, inFlight, replies, highest, placed, unsure, outrun>>
    BY <1>11 DEF OrdersInv, OrderTypes, Numbered, Listened, Heard, Successes, InLine, Waiting, Once, NoncesInOrder
  <1> QED
    BY <1>4, <1>5, <1>6, <1>7, <1>8, <1>9, <1>10, <1>11, PlaceKeeps, AttemptKeeps
    DEF VenueNext, LockoutEnds, venueVars

\* A lost answer, a retry or a call that gave up never makes an order what its caller was not
\* told, nor, where the exchange or the lock can tell, two orders of one (*-private.ts).
THEOREM OrdersAreHonest == VenueSpec => []OrdersMeanIt
  <1>1. VenueInit => OrdersInv
    <2> SUFFICES ASSUME VenueInit PROVE OrdersInv
      OBVIOUS
    <2>1. OrderTypes
      BY DEF VenueInit, OrderTypes, CallRec, NoCall
    <2>2. Numbered /\ Listened /\ Heard /\ Successes
      BY DEF VenueInit, Numbered, Listened, Heard, Successes, NoCall
    <2>3. InLine /\ Once /\ NoncesInOrder
      BY DEF VenueInit, InLine, Once, NoncesInOrder, NoCall
    <2> QED BY <2>1, <2>2, <2>3 DEF OrdersInv
  <1>2. OrdersInv => OrdersMeanIt
    <2> SUFFICES ASSUME OrdersInv PROVE OrdersMeanIt
      OBVIOUS
    <2>1. CeilingHolds
      <3> SUFFICES ASSUME api \in {"kraken", "coinbase"}, NEW c \in OrderCalls
                   PROVE  placed[c] <= 1 /\ (call[c].limit => placed[c] * call[c].cost <= MAX_POSITION_USD)
        BY DEF CeilingHolds
      <3>1. placed[c] \in Nat /\ placed[c] <= 1 /\ call[c].cost \in Nat /\ MAX_POSITION_USD \in Nat
        BY VenueConstants DEF OrdersInv, OrderTypes, CallRec, Once
      <3>2. call[c].limit => call[c].cost <= MAX_POSITION_USD
        BY DEF OrdersInv, Once
      <3>3. CASE placed[c] = 0
        BY <3>1, <3>2, <3>3
      <3>4. CASE placed[c] = 1
        BY <3>1, <3>2, <3>4
      <3> QED BY <3>1, <3>3, <3>4
    <2>2. AnswersMeanIt
      BY DEF OrdersInv, Successes, Heard, AnswersMeanIt
    <2> QED BY <2>1, <2>2 DEF OrdersMeanIt, OrdersInv
  <1> QED BY <1>1, <1>2, StepOrders, PTL DEF VenueSpec

----------------------------------------------------------------------------
\* What fills the queue does so once and from recent quotes, and what becomes of the orders is
\* what their callers were told, whichever of the two runs.
THEOREM EdgesAreSafe == MCSpec => []EdgesSafe
  <1>1. MCInit => ObserversInit /\ VenueInit
    BY DEF MCInit
  <1>2. [MCNext]_<<focus, tradeVars, venueVars, observerVars>> => [ObserversNext]_observerVars /\ [VenueNext]_venueVars
    BY DEF MCNext, ObserversNext
  <1>3. MCSpec => ObserversSpec /\ VenueSpec
    BY <1>1, <1>2, PTL DEF MCSpec, ObserversSpec, VenueSpec
  <1>4. ObserversSafe /\ OrdersMeanIt => EdgesSafe
    BY DEF EdgesSafe
  <1> QED BY <1>3, <1>4, QueueIsFilledWell, OrdersAreHonest, PTL
====
