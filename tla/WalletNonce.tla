---- MODULE WalletNonce ----
(***************************************************************************)
(* Nonce allocation and the life of one EVM transaction                    *)
(* (packages/wallet-service).  A call is one WalletService.execute(); its  *)
(* phases are cut at the awaits:                                           *)
(*                                                                         *)
(*   new -> preflight -> queued [-> counting] -> signing -> sending        *)
(*       -> tracking -> done          (sending -> failing -> done)         *)
(*                                                                         *)
(* Every WalletService owns one NonceManager, and all of them sign for the *)
(* same (chain, address).  The node behind the RPC is external.            *)
(***************************************************************************)
EXTENDS Integers, Sequences, FiniteSets

CONSTANTS Calls,      \* execute() invocations
          Services,   \* WalletService instances sharing the address
          Regimes,    \* ways the services are used, one per behavior
          MaxCrashes, \* bound on process restarts
          None        \* undefined

FaultNames == {"count",     \* eth_getTransactionCount fails
               "sign",      \* the wallet provider fails
               "broadcast", \* sendRawTransaction fails, nothing submitted
               "lostreply", \* it fails after the node took the transaction
               "poll",      \* a transport error while polling the receipt
               "timeout",   \* no receipt within receiptTimeoutMs
               "revert",    \* the transaction is mined and reverts
               "replace"}   \* the node lets a same-nonce transaction replace one

\* The faults after which execute() resyncs its nonce manager.
Resyncing == FaultNames \ {"count", "poll"}

\* What execute() may report.
Statuses == {"filled", "reverted", "stuck", "aborted", "threw"}

\* overlap: how many calls may be in flight; faults: what may go wrong; services: those
\* that are called.
ASSUME WalletConstants == /\ Regimes \subseteq [overlap : Nat \ {0}, faults : SUBSET FaultNames,
                                                  services : SUBSET Services]
                          /\ MaxCrashes \in Nat /\ IsFiniteSet(Calls)
                          /\ None \notin Nat /\ None \notin Services /\ None \notin Statuses

VARIABLES regime,  \* the member of Regimes this behavior lives under
          call,    \* call -> its local state
          cache,   \* service -> NonceManager.cache, the next nonce or None
          line,    \* service -> calls chained on NonceManager.locks, FIFO
          tx,      \* call -> what the network did with its transaction
          mined,   \* number of mined transactions of the address
          crashes

vars == <<regime, call, cache, line, tx, mined, crashes>>

Phases == {"new", "preflight", "queued", "counting", "signing", "sending",
           "failing", "tracking", "done", "dead"}
CallType == [pc : Phases, svc : Services \union {None}, nonce : Nat \union {None},
             seen : Nat \union {None},
             status : Statuses \union {None}]

NewCall == [pc |-> "new", svc |-> None, nonce |-> None, seen |-> None, status |-> None]

InFlight == {c \in Calls : call[c].pc \notin {"new", "done", "dead"}}
Pool     == {c \in Calls : tx[c] = "pool"}

Init == /\ regime \in Regimes
        /\ call = [c \in Calls |-> NewCall]
        /\ cache = [s \in Services |-> None]
        /\ line = [s \in Services |-> <<>>]
        /\ tx = [c \in Calls |-> "none"]
        /\ mined = 0
        /\ crashes = 0

\* The update of c's local state that most actions make.
Goto(c, pc)  == call' = [call EXCEPT ![c] = [@ EXCEPT !.pc = pc]]
Return(c, s) == call' = [call EXCEPT ![c] = [@ EXCEPT !.pc = "done", !.status = s]]

----------------------------------------------------------------------------
\* The node: transactions are mined in nonce order.

\* eth_getTransactionCount(pending): mined plus the unbroken run of pool nonces.
PendingCount ==
    CHOOSE n \in mined..(mined + Cardinality(Calls)) :
        /\ \A c \in Pool : call[c].nonce # n
        /\ \A m \in mined..(n - 1) : \E c \in Pool : call[c].nonce = m

Mine(c) ==
    /\ tx[c] = "pool" /\ call[c].nonce = mined
    /\ \/ tx' = [tx EXCEPT ![c] = "success"]
       \/ "revert" \in regime.faults /\ tx' = [tx EXCEPT ![c] = "reverted"]
    /\ mined' = mined + 1
    /\ UNCHANGED <<regime, call, cache, line, crashes>>

----------------------------------------------------------------------------
\* Up to the nonce.

Begin(c, s) ==
    /\ call[c].pc = "new" /\ Cardinality(InFlight) < regime.overlap /\ s \in regime.services
    /\ call' = [call EXCEPT ![c] = [@ EXCEPT !.pc = "preflight", !.svc = s]]
    /\ UNCHANGED <<regime, cache, line, tx, mined, crashes>>

\* No client, a preflight blocker, or the gas oracle fails.
Refuse(c) ==
    /\ call[c].pc = "preflight"
    /\ Return(c, "aborted")
    /\ UNCHANGED <<regime, cache, line, tx, mined, crashes>>

\* next() chains its gate behind the previous one before it yields.
Enqueue(c) ==
    /\ call[c].pc = "preflight"
    /\ Goto(c, "queued")
    /\ line' = [line EXCEPT ![call[c].svc] = Append(@, c)]
    /\ UNCHANGED <<regime, cache, tx, mined, crashes>>

AtHead(c) == LET l == line[call[c].svc] IN l # <<>> /\ Head(l) = c

\* Releasing the gate only when a nonce was allocated (mutant).
KeepGate(c) == UNCHANGED line

\* The finally block: the next caller in line may go on.
ReleaseGate(c) == line' = [line EXCEPT ![call[c].svc] = Tail(@)]

\* Remembering n + 2 (mutant).
AllocateSkipping(c, n) ==
    /\ call' = [call EXCEPT ![c] = [@ EXCEPT !.pc = "signing", !.nonce = n]]
    /\ cache' = [cache EXCEPT ![call[c].svc] = n + 2]

\* Hand nonce n to c and remember n + 1.
Allocate(c, n) ==
    /\ call' = [call EXCEPT ![c] = [@ EXCEPT !.pc = "signing", !.nonce = n]]
    /\ cache' = [cache EXCEPT ![call[c].svc] = n + 1]

AllocateCached(c) ==
    /\ call[c].pc = "queued" /\ AtHead(c)
    /\ cache[call[c].svc] # None
    /\ Allocate(c, cache[call[c].svc])
    /\ ReleaseGate(c)
    /\ UNCHANGED <<regime, tx, mined, crashes>>

\* blockTag `latest' (mutant).
FetchLatest == mined
\* blockTag `pending': the transactions of the pool count too.
FetchPending == PendingCount

\* Nothing cached: ask the node; the answer may be overtaken by broadcasts.
AskCount(c) ==
    /\ call[c].pc = "queued" /\ AtHead(c)
    /\ cache[call[c].svc] = None
    /\ call' = [call EXCEPT ![c] = [@ EXCEPT !.pc = "counting", !.seen = FetchPending]]
    /\ UNCHANGED <<regime, cache, line, tx, mined, crashes>>

AllocateCounted(c) ==
    /\ call[c].pc = "counting"
    /\ Allocate(c, call[c].seen)
    /\ ReleaseGate(c)
    /\ UNCHANGED <<regime, tx, mined, crashes>>

CountFails(c) ==
    /\ "count" \in regime.faults
    /\ call[c].pc = "counting"
    /\ Return(c, "aborted")
    /\ ReleaseGate(c)
    /\ UNCHANGED <<regime, cache, tx, mined, crashes>>

----------------------------------------------------------------------------
\* Sign, broadcast, track.

\* resync(): forget the cached nonce, without waiting for the gate.
ResyncNonce(c) == cache' = [cache EXCEPT ![call[c].svc] = None]

Sign(c) ==
    /\ call[c].pc = "signing"
    /\ Goto(c, "sending")
    /\ UNCHANGED <<regime, cache, line, tx, mined, crashes>>

SignFails(c) ==
    /\ "sign" \in regime.faults
    /\ call[c].pc = "signing"
    /\ Return(c, "aborted")
    /\ ResyncNonce(c)
    /\ UNCHANGED <<regime, line, tx, mined, crashes>>

\* sendRawTransaction reaches the node, which takes the transaction, possibly
\* in the place of one with the same nonce; the answer may get lost.
Broadcast(c) ==
    LET rivals == {d \in Pool : call[d].nonce = call[c].nonce}
    IN  /\ call[c].pc = "sending"
        /\ call[c].nonce >= mined
        /\ rivals = {} \/ "replace" \in regime.faults
        /\ tx' = [d \in Calls |-> IF d = c THEN "pool"
                                  ELSE IF d \in rivals THEN "replaced" ELSE tx[d]]
        /\ \/ Goto(c, "tracking")
           \/ "lostreply" \in regime.faults /\ Goto(c, "failing")
        /\ UNCHANGED <<regime, cache, line, mined, crashes>>

\* The node refuses the nonce, or the request fails.
BroadcastFails(c) ==
    /\ call[c].pc = "sending"
    /\ \/ call[c].nonce < mined
       \/ \E d \in Pool : call[d].nonce = call[c].nonce
       \/ "broadcast" \in regime.faults
    /\ Goto(c, "failing")
    /\ UNCHANGED <<regime, cache, line, tx, mined, crashes>>

\* The failure reaches execute().
BroadcastAborts(c) ==
    /\ call[c].pc = "failing"
    /\ Return(c, "aborted")
    /\ ResyncNonce(c)
    /\ UNCHANGED <<regime, line, tx, mined, crashes>>

\* classifyReceipt() and outcomeToStatus().
ReceiptStatus(receipt) == IF receipt = "success" THEN "filled" ELSE "reverted"

\* The receipt arrives; anything but "filled" resyncs.
Receipt(c) ==
    /\ call[c].pc = "tracking" /\ tx[c] \in {"success", "reverted"}
    /\ Return(c, ReceiptStatus(tx[c]))
    /\ IF ReceiptStatus(tx[c]) = "filled" THEN UNCHANGED cache ELSE ResyncNonce(c)
    /\ UNCHANGED <<regime, line, tx, mined, crashes>>

\* The deadline is tested before each poll, so a transaction mined since the
\* last one is given up too.
GiveUp(c) ==
    /\ "timeout" \in regime.faults \/ tx[c] = "replaced"
    /\ call[c].pc = "tracking"
    /\ Return(c, "stuck")
    /\ ResyncNonce(c)
    /\ UNCHANGED <<regime, line, tx, mined, crashes>>

\* trackReceipt() throws through execute(), past the resync.
PollThrows(c) ==
    /\ "poll" \in regime.faults
    /\ call[c].pc = "tracking"
    /\ Return(c, "threw")
    /\ UNCHANGED <<regime, cache, line, tx, mined, crashes>>

----------------------------------------------------------------------------
\* The process restarts with empty managers; the network goes on.
Crash ==
    /\ crashes < MaxCrashes
    /\ crashes' = crashes + 1
    /\ call' = [c \in Calls |-> IF c \in InFlight THEN [call[c] EXCEPT !.pc = "dead"]
                                                  ELSE call[c]]
    /\ cache' = [s \in Services |-> None]
    /\ line' = [s \in Services |-> <<>>]
    /\ UNCHANGED <<regime, tx, mined>>

CallStep(c) ==
    \/ Refuse(c) \/ Enqueue(c)
    \/ AllocateCached(c) \/ AskCount(c) \/ AllocateCounted(c) \/ CountFails(c)
    \/ Sign(c) \/ SignFails(c)
    \/ Broadcast(c) \/ BroadcastFails(c) \/ BroadcastAborts(c)
    \/ Receipt(c) \/ GiveUp(c) \/ PollThrows(c)

Next ==
    \/ \E c \in Calls, s \in Services : Begin(c, s)
    \/ \E c \in Calls : CallStep(c) \/ Mine(c)
    \/ Crash

Spec == Init /\ [][Next]_vars

\* Every await of a call settles; the network mines what is executable.
FairSpec == Spec /\ \A c \in Calls : WF_vars(CallStep(c)) /\ WF_vars(Mine(c))
----------------------------------------------------------------------------
TypeOK ==
    /\ regime \in Regimes
    /\ call \in [Calls -> CallType]
    /\ cache \in [Services -> Nat \union {None}]
    /\ \A s \in Services : /\ \A i \in DOMAIN line[s] : call[line[s][i]].pc \in {"queued", "counting"}
                           /\ Len(line[s]) <= regime.overlap
    /\ tx \in [Calls -> {"none", "pool", "replaced", "success", "reverted"}]
    /\ mined \in Nat

\* c is going to spend its nonce, or has spent it on the network.
Spends(c) == \/ call[c].pc \in {"signing", "sending"}
             \/ tx[c] \in {"pool", "success", "reverted"}

Clash(c, d) == c # d /\ Spends(c) /\ Spends(d) /\ call[c].nonce = call[d].nonce

\* nonce.ts: two transactions of one service never carry the same nonce, so none of
\* them is dropped or replaced for another.  Calls made one at a time keep this
\* whatever fails, and whatever other services of the address do in between...
SameService(c, d) == call[c].svc = call[d].svc
Sequential    == regime.overlap = 1
SequentialNoDoubleUse == Sequential => \A c, d \in Calls : SameService(c, d) => ~Clash(c, d)

\* ... and overlapping calls keep it until one of them has made the service resync, or
\* the process has restarted: a call that still holds a nonce is forgotten then.
Resynced(s) == \E c \in Calls : /\ call[c].svc = s /\ call[c].nonce # None
                                /\ call[c].status \in {"aborted", "reverted", "stuck"}
GatedNoDoubleUse ==
    crashes = 0 => \A c, d \in Calls :
        SameService(c, d) /\ ~Resynced(call[c].svc) => ~Clash(c, d)

\* A nonce is not skipped either, or everything after it would hang in the
\* mempool: whatever is in the pool of sequential calls can be mined.
NoGap == Sequential => \A c \in Pool : call[c].nonce < PendingCount

\* Nonces are neither shared nor skipped, under the conditions the allocator needs.
\* Services of one address do hand out each other's nonces: the node refuses or
\* replaces those, and no claim is made of it here.
NoncesSound == SequentialNoDoubleUse /\ GatedNoDoubleUse /\ NoGap

\* What execute() reports is what the network did: a fill or a revert was mined,
\* and an abort submitted nothing, unless the node's answer was lost.
ReportTruthful ==
    \A c \in Calls :
        /\ call[c].status = "filled" => tx[c] = "success"
        /\ call[c].status = "reverted" => tx[c] = "reverted"
        /\ call[c].status = "aborted" /\ "lostreply" \notin regime.faults => tx[c] = "none"

\* Sequential calls, and calls that overlap without resyncing or being cut off by
\* a restart, leave no hole that stays open: what the pool holds gets mined, unless the
\* transaction of another service takes its place.
NeverResyncs  == regime.faults \intersect Resyncing = {}
NoHoles == Sequential \/ (NeverResyncs /\ crashes = 0)
Overtaken(c) == tx[c] = "replaced" /\ regime.services # {call[c].svc}
SubmittedIsMined ==
    \A c \in Calls : tx[c] = "pool" /\ NoHoles
                        ~> tx[c] \in {"success", "reverted"} \/ Overtaken(c) \/ ~NoHoles

\* The gate never wedges: every call returns, also behind one whose count failed.
CallsReturn == \A c \in Calls : c \in InFlight ~> c \notin InFlight

\* wallet-service/index.ts: "Force a resync so the next allocation doesn't
\* double-use", whatever else is in flight.
NoDoubleUse == \A c, d \in Calls : ~Clash(c, d)
====
