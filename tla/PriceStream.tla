---- MODULE PriceStream ----
(***************************************************************************)
(* The prices the workers trade on: the WebSocket connection to one        *)
(* exchange and its share of the price cache (packages/source-crypto-arb/  *)
(* src/feeds/ws-price-cache.ts), and the pairs it is asked to watch        *)
(* (pair-discovery.ts, apps/daemon/src/ws-bootstrap.ts).                   *)
(*                                                                         *)
(* The four exchanges share nothing but the watched pairs, which only      *)
(* synchronous code touches, so a behavior follows one of them.  Prices    *)
(* are abstracted to their age, delays to their order.  A frozen           *)
(* connection says nothing, and nobody is told.                            *)
(***************************************************************************)
EXTENDS Integers, FiniteSetsExt

CONSTANTS Feeds,                 \* the exchanges, of those below
          StreamPairs, Majors,   \* the pairs, and those watched before any is found
          Inside,                \* Inside[p]: the pairs whose symbol occurs in that of p
          Listings,              \* what Gemini may list
          StallAge, StaleAge,    \* STALL_THRESHOLD_MS, and the age at which a price is not served
          MaxRefs, MaxReleases, MaxFeedFaults   \* bounds

Exchange == {"kraken", "coinbase", "binance-us", "gemini"}

ASSUME StreamConstants ==
    /\ Feeds \subseteq Exchange
    /\ Majors \subseteq StreamPairs /\ Inside \in [StreamPairs -> SUBSET StreamPairs]
    /\ \A p \in StreamPairs : p \in Inside[p]
    /\ Listings \subseteq SUBSET StreamPairs
    /\ {StallAge, StaleAge, MaxRefs} \subseteq Nat \ {0}
    /\ {MaxReleases, MaxFeedFaults} \subseteq Nat

VARIABLES feed,        \* the exchange followed
          found,       \* cachedPairs of the discovery
          refs,        \* subscriptionRefs
          socket,      \* krakenWs and its readyState, or "none"
          subscribed,  \* krakenSubscribedSymbols: what this side believes it asked for
          streamed,    \* what the exchange sends on this connection
          wire,        \* quotes on their way
          priced,      \* the cache: how old its prices are
          silence,     \* age of lastMessageAt, or Never
          reconnectScheduled,
          listed, dead, fetching,   \* geminiListedSymbols, geminiDeadSymbols, a fetch in flight
          frozen, feedFaults, releases

socketVars == <<socket, subscribed, streamed, wire, silence, reconnectScheduled, frozen>>
geminiVars == <<listed, dead, fetching>>
streamVars == <<feed, found, refs, socketVars, priced, geminiVars, feedFaults, releases>>

Never == StallAge + 2
Unloaded == {"unloaded"}

\* subscribedPairs: a pair is watched while somebody refers to it.
Watched == {p \in StreamPairs : refs[p] > 0}

StreamInit ==
    /\ feed \in Feeds
    /\ found = Majors
    /\ refs = [p \in StreamPairs |-> 0]
    /\ socket = "none" /\ subscribed = {} /\ streamed = {} /\ wire = {}
    /\ priced = [p \in StreamPairs |-> StaleAge]
    /\ silence = Never /\ reconnectScheduled = FALSE
    /\ listed = Unloaded /\ dead = {} /\ fetching = FALSE
    /\ frozen = FALSE /\ feedFaults = 0 /\ releases = 0

FeedFault == feedFaults < MaxFeedFaults /\ feedFaults' = feedFaults + 1
-----------------------------------------------------------------------------
(* Subscriptions.                                                            *)

\* Gemini is not asked for what it does not list, nor ever again for what it did not.
Unlisted(pairs) == IF feed = "gemini" /\ listed # Unloaded THEN pairs \ listed ELSE {}

\* The pairs not asked for yet are asked for; a refusal is only logged.
SubscribePairs(pairs, asked) ==
    LET new == pairs \ (dead \cup Unlisted(pairs) \cup asked)
    IN  /\ subscribed' = asked \cup new
        /\ dead' = dead \cup Unlisted(pairs)
        /\ \/ streamed' = streamed \cup new /\ UNCHANGED feedFaults
           \/ new # {} /\ FeedFault /\ UNCHANGED streamed

\* There is one socket at a time; connectGemini() also fetches the list of symbols, unless
\* it did so less than GEMINI_SYMBOLS_TTL_MS ago.
Connect ==
    IF socket = "none"
    THEN /\ socket' = "connecting"
         /\ fetching' \in IF feed # "gemini" THEN {FALSE} ELSE IF listed = Unloaded THEN {TRUE} ELSE {fetching, TRUE}
    ELSE UNCHANGED <<socket, fetching>>

\* The pairs nobody watched before, or watches any more.
applyRetainCounts(pairs) == {p \in pairs : refs[p] = 0}
applyReleaseCounts(pairs) == {p \in pairs : refs[p] = 1}

\* retain(): an open socket asks for the pairs nobody watched so far, else there is to be one.
retain(pairs) ==
    LET new == applyRetainCounts(pairs)
    IN  /\ \A p \in pairs : refs[p] < MaxRefs
        /\ refs' = [p \in StreamPairs |-> IF p \in pairs THEN refs[p] + 1 ELSE refs[p]]
        /\ \/ new = {} /\ UNCHANGED <<socketVars, geminiVars, feedFaults>>
           \/ /\ new # {} /\ socket = "open"
              /\ SubscribePairs(new, subscribed)
              /\ UNCHANGED <<socket, wire, silence, reconnectScheduled, frozen, listed, fetching>>
           \/ /\ new # {} /\ socket # "open"
              /\ Connect
              /\ UNCHANGED <<subscribed, streamed, wire, silence, reconnectScheduled, frozen,
                             listed, dead, feedFaults>>
        /\ UNCHANGED <<feed, found, priced, releases>>

prunePairCache(gone) == [p \in StreamPairs |-> IF p \in gone THEN StaleAge ELSE priced[p]]

\* release(): the last to let go of a pair takes its price along; the exchange is told, if
\* there is a connection to tell it on.
release(pairs) ==
    LET gone == applyReleaseCounts(pairs)
    IN  /\ pairs \subseteq Watched
        /\ releases < MaxReleases /\ releases' = releases + 1
        /\ refs' = [p \in StreamPairs |-> IF p \in pairs THEN refs[p] - 1 ELSE refs[p]]
        /\ priced' = prunePairCache(gone)
        /\ subscribed' = subscribed \ gone
        /\ streamed' = IF socket = "open" THEN streamed \ gone ELSE streamed
        /\ UNCHANGED <<feed, found, socket, wire, silence, reconnectScheduled, frozen,
                       geminiVars, feedFaults>>
-----------------------------------------------------------------------------
(* Discovery, and the bootstrap that subscribes to what it found.            *)

\* The pairs that two venues trade are found; when there are none, or the venues do not answer,
\* the pairs stay as they were.
getActivePairs ==
    \E common \in SUBSET StreamPairs :
        /\ common # {} /\ found' = common
        /\ UNCHANGED <<feed, refs, socketVars, priced, geminiVars, feedFaults, releases>>

startWsBootstrap == Watched = {} /\ retain(Majors)
refreshPairs == Watched # {} /\ retain(found)
ViewerLeaves == \E pairs \in SUBSET StreamPairs : pairs # {} /\ release(pairs)
-----------------------------------------------------------------------------
(* The connection.                                                           *)

\* on('open'): everything watched is asked for, whatever an earlier connection was.
Open ==
    /\ socket = "connecting" /\ ~frozen
    /\ socket' = "open" /\ silence' = 0
    /\ SubscribePairs(Watched, {})
    /\ UNCHANGED <<feed, found, refs, wire, priced, reconnectScheduled, listed, fetching, frozen, releases>>

\* A mutant: a timer that runs already is all there is.
NoOther == reconnectScheduled

ReconnectDue == reconnectScheduled \/ Watched # {}

\* on('close'): the connection is forgotten, and another is due unless nobody watches anything
\* or a timer runs already.
Closed ==
    /\ socket' = "none" /\ subscribed' = {} /\ streamed' = {} /\ wire' = {} /\ frozen' = FALSE
    /\ reconnectScheduled' = ReconnectDue
    /\ UNCHANGED <<feed, found, refs, priced, silence, geminiVars, releases>>

SocketCloses == socket = "closing" /\ Closed /\ UNCHANGED feedFaults
ConnectionLost == socket \in {"connecting", "open"} /\ Closed /\ FeedFault

scheduleReconnect ==
    /\ reconnectScheduled /\ reconnectScheduled' = FALSE
    /\ Connect
    /\ UNCHANGED <<feed, found, refs, subscribed, streamed, wire, priced, silence, frozen, listed, dead,
                   feedFaults, releases>>

\* The watchdog closes what was heard once and is silent for too long, a handshake included.
Watchdog ==
    /\ socket \in {"connecting", "open"} /\ silence = StallAge + 1
    /\ socket' = "closing"
    /\ UNCHANGED <<feed, found, refs, subscribed, streamed, wire, priced, silence, reconnectScheduled,
                   frozen, geminiVars, feedFaults, releases>>

Freeze ==
    /\ socket \in {"connecting", "open"} /\ ~frozen
    /\ frozen' = TRUE /\ FeedFault
    /\ UNCHANGED <<feed, found, refs, socket, subscribed, streamed, wire, priced, silence,
                   reconnectScheduled, geminiVars, releases>>
-----------------------------------------------------------------------------
(* Quotes.                                                                   *)

Quoted(p) ==
    /\ socket = "open" /\ ~frozen /\ p \in streamed
    /\ wire' = wire \cup {p}
    /\ UNCHANGED <<feed, found, refs, socket, subscribed, streamed, priced, silence, reconnectScheduled,
                   frozen, geminiVars, feedFaults, releases>>

\* A mutant: whether anybody watches the pair is not asked.
AnyPair(p) == IF feed \in {"coinbase", "gemini"} THEN {p} ELSE Inside[p]

\* The pairs a quote may be booked under.  Kraken's and Binance's are matched with the watched
\* pairs, and the first whose symbol is part of the quote's will do; Gemini's with what it
\* was asked for; Coinbase's are taken as they are.
currentCanonicalPair(p) ==
    CASE feed = "coinbase" -> {p}
      [] feed = "gemini" -> {p} \cap subscribed
      [] OTHER -> Inside[p] \cap Watched

setPrice(p) == priced' = [priced EXCEPT ![p] = 0]

Receive(p) ==
    /\ socket \in {"open", "closing"} /\ ~frozen /\ p \in wire
    /\ wire' = wire \ {p} /\ silence' = 0
    /\ \/ \E pair \in currentCanonicalPair(p) : setPrice(pair)
       \/ currentCanonicalPair(p) = {} /\ UNCHANGED priced
    /\ UNCHANGED <<feed, found, refs, socket, subscribed, streamed, reconnectScheduled, frozen,
                   geminiVars, feedFaults, releases>>

\* A pong, or any message without a price.
Heartbeat ==
    /\ socket = "open" /\ ~frozen
    /\ silence' = 0
    /\ UNCHANGED <<feed, found, refs, socket, subscribed, streamed, wire, priced, reconnectScheduled,
                   frozen, geminiVars, feedFaults, releases>>

\* The list arrives, or its fetch fails and the last one stays.
refreshGeminiSymbols ==
    /\ fetching /\ fetching' = FALSE
    /\ \/ listed' \in Listings /\ UNCHANGED feedFaults
       \/ FeedFault /\ UNCHANGED listed
    /\ UNCHANGED <<feed, found, refs, socketVars, priced, dead, releases>>

\* Time passes; a connection that is well answers the pings before the watchdog bites.
Ages ==
    /\ socket = "open" /\ ~frozen => silence < StallAge
    /\ priced' = [p \in StreamPairs |-> Min({priced[p] + 1, StaleAge})]
    /\ silence' = IF silence = Never THEN Never ELSE Min({silence + 1, StallAge + 1})
    /\ UNCHANGED <<feed, found, refs, socket, subscribed, streamed, wire, reconnectScheduled, frozen,
                   geminiVars, feedFaults, releases>>

StreamNext ==
    \/ getActivePairs \/ startWsBootstrap \/ refreshPairs \/ ViewerLeaves
    \/ Open \/ SocketCloses \/ ConnectionLost \/ scheduleReconnect \/ Watchdog \/ Freeze
    \/ \E p \in StreamPairs : Quoted(p) \/ Receive(p)
    \/ Heartbeat \/ refreshGeminiSymbols \/ Ages

StreamSpec == StreamInit /\ [][StreamNext]_streamVars

\* Sockets close, timers run and time passes.  The watchdog may close a socket before it is
\* open, but not every time: a handshake is over in much less than the ten seconds between
\* its rounds.
StreamFairness ==
    /\ WF_streamVars(SocketCloses) /\ WF_streamVars(scheduleReconnect) /\ WF_streamVars(Watchdog)
    /\ WF_streamVars(Ages) /\ SF_streamVars(Open)
-----------------------------------------------------------------------------
(* Correctness.                                                              *)

\* The variables have the types the code gives them.
StreamTypeOK ==
    /\ feed \in Feeds /\ found \subseteq StreamPairs
    /\ refs \in [StreamPairs -> 0..MaxRefs]
    /\ socket \in {"none", "connecting", "open", "closing"}
    /\ subscribed \cup streamed \cup wire \cup dead \subseteq StreamPairs
    /\ priced \in [StreamPairs -> 0..StaleAge]
    /\ silence \in 0..(StallAge + 1) \cup {Never}
    /\ {reconnectScheduled, fetching, frozen} \subseteq BOOLEAN
    /\ listed \in Listings \cup {Unloaded}

\* Whoever comes and goes while the socket connects, closes and reconnects: an open connection
\* has been asked for what is watched and nothing else, but for what Gemini did not list.
AsksForWatched == socket = "open" => subscribed = Watched \ dead

\* release() takes a pair's price with it, and no quote on its way brings it back.  On
\* Coinbase, whose quotes are booked unseen, one does.
NoPriceUnwatched == feed # "coinbase" => \A p \in StreamPairs \ Watched : priced[p] = StaleAge

\* However the watched pairs and the connection change, the two agree, and so does the cache.
StreamsInStep == AsksForWatched /\ NoPriceUnwatched

\* While anybody watches, a connection heard from once, lost or gone silent, is replaced by an
\* open one (which AsksForWatched then says was asked for every watched pair).
StreamsResume ==
    (Watched # {} /\ silence # Never) ~> (Watched = {} \/ (socket = "open" /\ ~frozen))
=============================================================================
