---- MODULE VenueOrders ----
(***************************************************************************)
(* Orders placed over an exchange's private REST interface                 *)
(* (packages/source-crypto-arb/src/feeds/*-private.ts).  Each client signs *)
(* its requests, with a nonce that has to increase on Kraken and Gemini,   *)
(* and all but Kraken's send a request again when it failed or was not     *)
(* answered in time.  Only Coinbase is told which requests are one order.  *)
(*                                                                         *)
(* Amounts are what an order costs at its limit price; why an exchange     *)
(* refuses one is left out.  A behavior is of one exchange and its key.    *)
(***************************************************************************)
EXTENDS Integers, Sequences, FiniteSets

CONSTANTS Apis,          \* the exchanges, of those below
          OrderCalls,    \* calls of placeOrder()
          Costs, MAX_POSITION_USD,
          Retries,       \* attempts of a call, on all but Kraken
          MaxApiFaults   \* bound: answers lost or late, requests that cannot be sent

ASSUME VenueConstants ==
    /\ Apis \subseteq {"kraken", "coinbase", "binance-us", "gemini"}
    /\ Costs \subseteq Nat /\ MAX_POSITION_USD \in Nat
    /\ Retries \in Nat \ {0} /\ MaxApiFaults \in Nat

VARIABLES api,         \* the exchange
          call,       \* the calls of placeOrder()
          lock,        \* Kraken's: who holds it, and who waits for it
          lastNonce,
          blocked,     \* privateBlockedUntil has not come
          inFlight, replies,
          highest,     \* the highest nonce the exchange saw
          placed,      \* how often the exchange placed each call's order
          unsure,      \* history: calls that lost an answer, or gave up too early
          outrun,      \* history: calls refused for their nonce
          apiFaults

venueVars == <<api, call, lock, lastNonce, blocked, inFlight, replies, highest, placed, unsure, outrun, apiFaults>>

NoCall == [pc |-> "idle", tries |-> 0, nonce |-> 0, cost |-> 0, limit |-> FALSE]

VenueInit ==
    /\ api \in Apis
    /\ call = [c \in OrderCalls |-> NoCall]
    /\ lock = <<>> /\ lastNonce = 0 /\ blocked = FALSE
    /\ inFlight = {} /\ replies = {} /\ highest = 0
    /\ placed = [c \in OrderCalls |-> 0]
    /\ unsure = {} /\ outrun = {}
    /\ apiFaults = 0

ApiFault == apiFaults < MaxApiFaults /\ apiFaults' = apiFaults + 1

\* The exchanges whose requests carry a nonce that must be higher than any before.
Counts == api \in {"kraken", "gemini"}
-----------------------------------------------------------------------------
(* The client.                                                               *)

\* placeOrder() refuses what costs too much, if a limit price tells what it costs.
TooExpensive(cost, limit) == limit /\ cost > MAX_POSITION_USD

\* A mutant: Kraken's calls do not wait for each other.
NoLock(c) == lock

withLock(c) == IF api = "kraken" THEN Append(lock, c) ELSE lock

placeOrder(c, cost, limit) ==
    /\ call[c].pc = "idle"
    /\ api = "gemini" => limit
    /\ IF TooExpensive(cost, limit)
       THEN call' = [call EXCEPT ![c] = [NoCall EXCEPT !.pc = "failed"]] /\ UNCHANGED lock
       ELSE /\ call' = [call EXCEPT ![c] = [NoCall EXCEPT !.pc = "due", !.limit = limit,
                                                           !.cost = IF limit THEN cost ELSE 0]]
            /\ lock' = withLock(c)
    /\ UNCHANGED <<api, lastNonce, blocked, inFlight, replies, highest, placed, unsure, outrun, apiFaults>>

MayCall(c) == call[c].pc = "due" /\ (c \in {lock[n] : n \in DOMAIN lock} => c = Head(lock))

\* The first in the line lets the next one have the lock.
Released(c) == IF lock # <<>> /\ c = Head(lock) THEN Tail(lock) ELSE lock

\* A mutant: the lock is released by the calls that succeed.
EndsLocked(c, how) ==
    /\ call' = [call EXCEPT ![c].pc = how]
    /\ lock' = IF how = "ok" THEN Released(c) ELSE lock

\* A call that is over releases the lock.
Ends(c, how) ==
    /\ call' = [call EXCEPT ![c].pc = how]
    /\ lock' = Released(c)

\* Any error is worth another attempt, but on Kraken.
Fails(c) ==
    IF api = "kraken" \/ call[c].tries = Retries
    THEN Ends(c, "failed")
    ELSE call' = [call EXCEPT ![c].pc = "due"] /\ UNCHANGED lock

\* An attempt: a fresh nonce and a signature.
Attempt(c) ==
    /\ MayCall(c) /\ ~(api = "kraken" /\ blocked)
    /\ lastNonce' = lastNonce + 1
    /\ call' = [call EXCEPT ![c].pc = "sent", ![c].tries = @ + 1, ![c].nonce = lastNonce + 1]
    /\ inFlight' = inFlight \cup {[call |-> c, nonce |-> lastNonce + 1]}
    /\ UNCHANGED <<api, lock, blocked, replies, highest, placed, unsure, outrun, apiFaults>>

\* An attempt that fails before anything is sent: Binance's clock is asked for first.
CannotSend(c) ==
    /\ MayCall(c) /\ api = "binance-us" /\ ApiFault
    /\ IF call[c].tries + 1 = Retries
       THEN Ends(c, "failed")
       ELSE call' = [call EXCEPT ![c].tries = @ + 1] /\ UNCHANGED lock
    /\ UNCHANGED <<api, lastNonce, blocked, inFlight, replies, highest, placed, unsure, outrun>>

\* Kraken is not asked before a lockout is over.
LockedOut(c) ==
    /\ MayCall(c) /\ api = "kraken" /\ blocked
    /\ Ends(c, "failed")
    /\ UNCHANGED <<api, lastNonce, blocked, inFlight, replies, highest, placed, unsure, outrun, apiFaults>>

LockoutEnds ==
    /\ blocked /\ blocked' = FALSE
    /\ UNCHANGED <<api, call, lock, lastNonce, inFlight, replies, highest, placed, unsure, outrun, apiFaults>>

\* The answer to the attempt under way.
Answered(reply) ==
    LET c == reply.call
    IN  /\ reply \in replies /\ replies' = replies \ {reply}
        /\ CASE reply.what = "ok"       -> Ends(c, "ok")
             [] reply.what = "declined" -> Ends(c, "failed")
             [] OTHER                   -> Fails(c)
        /\ blocked' = (blocked \/ reply.what = "lockout")
        /\ UNCHANGED <<api, lastNonce, inFlight, highest, placed, unsure, outrun, apiFaults>>

\* AbortSignal.timeout(15_000): nobody listens any more, though the request may get there.
Underway(c) ==
    \E message \in inFlight \cup {[call |-> r.call, nonce |-> r.nonce] : r \in replies} :
        message = [call |-> c, nonce |-> call[c].nonce]

TimesOut(c) ==
    /\ call[c].pc = "sent"
    /\ IF Underway(c) THEN ApiFault ELSE UNCHANGED apiFaults
    /\ unsure' = unsure \cup {c}
    /\ replies' = {r \in replies : r.call # c}
    /\ Fails(c)
    /\ UNCHANGED <<api, lastNonce, blocked, inFlight, highest, placed, outrun>>
-----------------------------------------------------------------------------
(* The exchange, as the clients use it.                                      *)

Listens(request) == call[request.call].pc = "sent" /\ call[request.call].nonce = request.nonce

Replies(request, what) ==
    replies' = IF Listens(request)
               THEN replies \cup {[call |-> request.call, nonce |-> request.nonce, what |-> what]}
               ELSE replies

\* A mutant: every attempt is an order of its own to Coinbase.
NeverKnown(c) == FALSE

\* Every attempt of a call has its client_order_id.
KnownOrder(c) == api = "coinbase" /\ placed[c] > 0

Outrun(request) == Counts /\ request.nonce <= highest

Receives(request) ==
    /\ request \in inFlight /\ inFlight' = inFlight \ {request}
    /\ highest' = IF request.nonce > highest THEN request.nonce ELSE highest
    /\ UNCHANGED <<api, call, lock, lastNonce, blocked>>

Places(request) ==
    /\ Receives(request) /\ ~Outrun(request)
    /\ placed' = IF KnownOrder(request.call) THEN placed ELSE [placed EXCEPT ![request.call] = @ + 1]
    /\ \/ Replies(request, "ok") /\ UNCHANGED <<unsure, apiFaults>>
       \/ /\ ApiFault /\ unsure' = unsure \cup {request.call}
          /\ \E what \in {"lost", "5xx"} : IF what = "lost" THEN UNCHANGED replies ELSE Replies(request, what)
    /\ UNCHANGED outrun

\* Not enough funds, too small, too late; or, on Kraken, too many requests.  Coinbase may say
\* so in an answer that is no error to the client.
Refusals == {"refused"} \cup (IF api = "kraken" THEN {"lockout"} ELSE {})
                        \cup (IF api = "coinbase" THEN {"declined"} ELSE {})

Refuses(request) ==
    /\ Receives(request) /\ ~Outrun(request) /\ ~KnownOrder(request.call)
    /\ \E what \in Refusals : Replies(request, what)
    /\ UNCHANGED <<placed, unsure, outrun, apiFaults>>

RefusesNonce(request) ==
    /\ Receives(request) /\ Outrun(request)
    /\ Replies(request, "nonce")
    /\ outrun' = outrun \cup {request.call}
    /\ UNCHANGED <<placed, unsure, apiFaults>>

VenueNext ==
    \/ \E c \in OrderCalls :
          \/ \E cost \in Costs, limit \in BOOLEAN : placeOrder(c, cost, limit)
          \/ Attempt(c) \/ CannotSend(c) \/ LockedOut(c) \/ TimesOut(c)
    \/ \E request \in inFlight : Places(request) \/ Refuses(request) \/ RefusesNonce(request)
    \/ \E reply \in replies : Answered(reply)
    \/ LockoutEnds

VenueSpec == VenueInit /\ [][VenueNext]_venueVars

\* A call goes on: its turn comes, its attempt is made, and answered or given up.
CallProgress(c) == Attempt(c) \/ LockedOut(c) \/ TimesOut(c) \/ \E reply \in replies : reply.call = c /\ Answered(reply)

Delivery == \E request \in inFlight : Places(request) \/ Refuses(request) \/ RefusesNonce(request)

VenueFairness == WF_venueVars(Delivery) /\ \A c \in OrderCalls : WF_venueVars(CallProgress(c))
-----------------------------------------------------------------------------
(* Correctness.                                                              *)

\* The variables have the types the code gives them.
VenueTypeOK ==
    /\ api \in Apis
    /\ \A c \in OrderCalls :
          /\ call[c].pc \in {"idle", "due", "sent", "ok", "failed"}
          /\ call[c].tries \in 0..Retries /\ call[c].cost \in Costs \cup {0}
          /\ placed[c] \in 0..call[c].tries
    /\ {lock[n] : n \in DOMAIN lock} \cup unsure \cup outrun \subseteq OrderCalls
    /\ lastNonce \in 0..(Retries * Cardinality(OrderCalls)) /\ highest \in 0..lastNonce
    /\ blocked \in BOOLEAN

\* A lost answer and the attempts after it place one call, not several, so the ceiling
\* on a limit order's cost is one on what the call spends: on Coinbase, because the order
\* has an id, and on Kraken, which is asked once.  On Binance.US and Gemini every attempt
\* that arrives is placed.
CeilingHolds ==
    api \in {"kraken", "coinbase"} =>
        \A c \in OrderCalls :
            placed[c] <= 1 /\ (call[c].limit => placed[c] * call[c].cost <= MAX_POSITION_USD)

\* What a call returns is so: success was placed, and nothing hides behind a failure all
\* of whose answers were heard.
AnswersMeanIt ==
    \A c \in OrderCalls :
        /\ call[c].pc = "ok" => placed[c] > 0
        /\ call[c].pc = "failed" /\ c \notin unsure => placed[c] = 0

\* Kraken's lock keeps the nonces in order: only a request that was given up on can be
\* overtaken by a later one.
NoncesInOrder == api = "kraken" => outrun \subseteq unsure

\* What a call returns agrees with what was placed, and with the ceiling.
OrdersMeanIt == CeilingHolds /\ AnswersMeanIt /\ NoncesInOrder

\* Every call returns, whoever has the lock.
OrdersAnswered == \A c \in OrderCalls : call[c].pc = "due" ~> call[c].pc \in {"ok", "failed"}
=============================================================================
