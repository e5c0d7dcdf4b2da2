---- MODULE Observers ----
(***************************************************************************)
(* What fills the queue: the pipeline that the workers' ticks build once   *)
(* for the process (apps/daemon/src/v2/pipeline.ts), the observer that     *)
(* asks every venue for quotes and ranks them, pair by pair, and the       *)
(* triangular engine, which prices a slice of its routes at a time.  Both  *)
(* tick on an interval that does not wait for the tick before.             *)
(*                                                                         *)
(* A quote is what its venue pays or asks for the same amount, in dollars, *)
(* and its age.  The in-memory channel answers at once.                    *)
(***************************************************************************)
EXTENDS Integers, FiniteSets

CONSTANTS Users,         \* whose worker ticks may build the pipeline
          ScanPairs, Adapters,
          Rates,         \* what a quote may say
          Cost, MinNet,  \* fees, gas and slippage of both legs; minNetUsd
          StaleQuote,    \* 15 s
          QueueTtl,      \* publishTtlMs
          ScanSlots,     \* ticks of one engine under way at once
          Routes, PerTick,      \* triangles, numbered from 0, and maxPerTick
          MaxScans, MaxVisits, MaxLate     \* bounds: ticks of the observer, turns of a route, time

ASSUME ObserverConstants ==
    /\ Routes \in Nat \ {0} /\ PerTick \in 1..Routes
    /\ Rates \subseteq Nat /\ {Cost, MinNet, StaleQuote, QueueTtl, MaxScans, MaxVisits, MaxLate} \subseteq Nat

VARIABLES building,      \* users whose tick runs initV2Pipeline()'s body
          initPromise, instance,
          observers,     \* observers that were started
          scan,          \* the observer's ticks
          scans,
          edges,         \* what was published: how old its quotes are, how long it lives
          triangleScan,  \* the triangular engine's ticks: the routes being priced
          cursor, visits,
          elapsed

pipelineVars == <<building, initPromise, instance, observers>>
scanVars == <<scan, scans, edges>>
triangleVars == <<triangleScan, cursor, visits>>
observerVars == <<pipelineVars, scanVars, triangleVars, elapsed>>

NoScan == [left |-> {}, asked |-> {}, quotes |-> {}]

ObserversInit ==
    /\ building = {} /\ initPromise = FALSE /\ instance = FALSE /\ observers = 0
    /\ scan = [s \in ScanSlots |-> NoScan] /\ scans = 0 /\ edges = {}
    /\ triangleScan = [s \in ScanSlots |-> {}] /\ cursor = 0 /\ visits = [r \in 0..Routes - 1 |-> 0]
    /\ elapsed = 0
-----------------------------------------------------------------------------
(* The pipeline: a tick of anybody's worker builds it, or waits for who does. *)

\* A mutant: a tick looks only for the pipeline, not for one being built.
Unbuilt(u) == ~instance

Builds(u) == ~instance /\ ~initPromise

\* The others wait for the one that builds, and change nothing.
initV2Pipeline(u) ==
    /\ Builds(u) /\ u \notin building
    /\ building' = building \cup {u} /\ initPromise' = TRUE
    /\ UNCHANGED <<instance, observers, scanVars, triangleVars, elapsed>>

\* Adapters, pairs and executors are there, and the engines start; or something throws, and
\* the next tick builds again.
Built(u) ==
    /\ u \in building /\ building' = building \ {u}
    /\ \/ instance' = TRUE /\ observers' = observers + 1 /\ UNCHANGED initPromise
       \/ initPromise' = FALSE /\ UNCHANGED <<instance, observers>>
    /\ UNCHANGED <<scanVars, triangleVars, elapsed>>
-----------------------------------------------------------------------------
(* The observer.                                                             *)

\* The first tick comes with start(), the others with the interval.
ObserveTick(s) ==
    /\ instance /\ scan[s] = NoScan /\ scans < MaxScans
    /\ scans' = scans + 1
    /\ \E first \in ScanPairs :
          scan' = [scan EXCEPT ![s] = [left |-> ScanPairs \ {first}, asked |-> Adapters \X {"buy", "sell"}, quotes |-> {}]]
    /\ UNCHANGED <<pipelineVars, edges, triangleVars, elapsed>>

\* An adapter has a quote, has none, or throws.
Quote(s, adapter, side) ==
    /\ <<adapter, side>> \in scan[s].asked
    /\ \E quote \in {{}} \cup {{[venue |-> adapter, side |-> side, rate |-> rate, age |-> 0]} : rate \in Rates} :
          scan' = [scan EXCEPT ![s] = [left |-> @.left, asked |-> @.asked \ {<<adapter, side>>}, quotes |-> @.quotes \cup quote]]
    /\ UNCHANGED <<pipelineVars, scans, edges, triangleVars, elapsed>>

\* A mutant: only the newer of the two quotes is asked for its age.
NewerIsFresh(buy, sell) == buy.age <= StaleQuote \/ sell.age <= StaleQuote

FreshQuotes(buy, sell) == buy.age <= StaleQuote /\ sell.age <= StaleQuote

Older(buy, sell) == IF buy.age > sell.age THEN buy.age ELSE sell.age

\* rankCrossVenueOpportunities: every buy with every sell elsewhere that has no blockers.
Ranked(quotes) ==
    {e \in quotes \X quotes :
        LET buy == e[1]  sell == e[2]
        IN  /\ buy.side = "buy" /\ sell.side = "sell" /\ buy.venue # sell.venue
            /\ sell.rate > buy.rate
            /\ sell.rate - buy.rate - Cost > MinNet
            /\ FreshQuotes(buy, sell)}

\* When everybody has answered: rank, publish what can be executed, and take the next pair.
RankAndPublish(s) ==
    /\ scan[s] # NoScan /\ scan[s].asked = {}
    /\ edges' = edges \cup {[age |-> Older(e[1], e[2]), ttl |-> QueueTtl, net |-> e[2].rate - e[1].rate - Cost] :
                            e \in Ranked(scan[s].quotes)}
    /\ IF scan[s].left = {}
       THEN scan' = [scan EXCEPT ![s] = NoScan]
       ELSE \E next \in scan[s].left :
               scan' = [scan EXCEPT ![s] = [left |-> @.left \ {next}, asked |-> Adapters \X {"buy", "sell"}, quotes |-> {}]]
    /\ UNCHANGED <<pipelineVars, scans, triangleVars, elapsed>>
-----------------------------------------------------------------------------
(* The triangular engine.                                                    *)

Batch == {(cursor + n) % Routes : n \in 0..PerTick - 1}

\* A mutant: the cursor follows the ticks that are over.
StepLater == cursor

\* The cursor moves before anything is awaited.
Advanced == (cursor + PerTick) % Routes

TriangleTick(s) ==
    /\ instance /\ triangleScan[s] = {} /\ \A r \in 0..Routes - 1 : visits[r] < MaxVisits
    /\ triangleScan' = [triangleScan EXCEPT ![s] = Batch]
    /\ cursor' = Advanced
    /\ visits' = [r \in 0..Routes - 1 |-> IF r \in Batch THEN visits[r] + 1 ELSE visits[r]]
    /\ UNCHANGED <<pipelineVars, scanVars, elapsed>>

\* Routes are priced together; those that earn minNetUsd before slippage are published.
Priced(s) ==
    /\ triangleScan[s] # {}
    /\ triangleScan' = [triangleScan EXCEPT ![s] = {}]
    /\ UNCHANGED <<pipelineVars, scanVars, cursor, visits, elapsed>>
-----------------------------------------------------------------------------
\* Time passes: quotes age, what is published expires.
GrowsLate ==
    /\ elapsed < MaxLate /\ elapsed' = elapsed + 1
    /\ scan' = [s \in ScanSlots |-> [scan[s] EXCEPT !.quotes = {[q EXCEPT !.age = @ + 1] : q \in @}]]
    /\ edges' = {[age |-> e.age + 1, ttl |-> e.ttl - 1, net |-> e.net] : e \in {x \in edges : x.ttl > 0}}
    /\ UNCHANGED <<pipelineVars, scans, triangleVars>>

PipelineNext == \E u \in Users : initV2Pipeline(u) \/ Built(u)

ScanNext ==
    \/ \E s \in ScanSlots :
          \/ ObserveTick(s) \/ RankAndPublish(s)
          \/ \E adapter \in Adapters, side \in {"buy", "sell"} : Quote(s, adapter, side)
    \/ GrowsLate

TriangleNext == \E s \in ScanSlots : TriangleTick(s) \/ Priced(s)

ObserversNext == PipelineNext \/ ScanNext \/ TriangleNext

ObserversSpec == ObserversInit /\ [][ObserversNext]_observerVars
-----------------------------------------------------------------------------
ObserversTypeOK ==
    /\ building \subseteq Users /\ {initPromise, instance} \subseteq BOOLEAN /\ observers \in Nat
    /\ scan \in [ScanSlots -> [left : SUBSET ScanPairs, asked : SUBSET (Adapters \X {"buy", "sell"}),
                 quotes : SUBSET [venue : Adapters, side : {"buy", "sell"}, rate : Rates, age : 0..MaxLate]]]
    /\ edges \subseteq [age : 0..(StaleQuote + MaxLate), ttl : 0..QueueTtl, net : Int]
    /\ triangleScan \in [ScanSlots -> SUBSET (0..Routes - 1)] /\ cursor \in 0..Routes - 1
    /\ visits \in [0..Routes - 1 -> 0..MaxVisits] /\ scans \in 0..MaxScans /\ elapsed \in 0..MaxLate

\* Ticks of several users ask for the pipeline while it is built, some of them after an
\* attempt that failed: one observer, one daemon and one queue are ever started.
OnePipeline == observers <= 1 /\ (instance => observers = 1)

\* However slowly venues answer while others have answered: an opportunity that can still be
\* claimed earns more than the minimum and rests on quotes no older than the ranking allows
\* and it was allowed to wait.
UnexpiredIsRecent == \A e \in edges : e.net > MinNet /\ e.age <= StaleQuote + QueueTtl - e.ttl

\* Though ticks overlap and a slice does not divide the routes, no route is priced twice
\* more often than another is.
RoutesTakeTurns == \A r, other \in 0..Routes - 1 : visits[r] <= visits[other] + 1

\* What fills the queue does so once, from recent quotes, and leaves no route out.
ObserversSafe == OnePipeline /\ UnexpiredIsRecent /\ RoutesTakeTurns
=============================================================================
