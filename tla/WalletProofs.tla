---- MODULE WalletProofs ----
(***************************************************************************)
(* What the wallet service, the inventory, the executors and the swaps of  *)
(* the trading workers say of what was spent is so.                        *)
(*                                                                         *)
(* A wallet service never gives a nonce away twice, for any number of      *)
(* calls and whatever other services of the address do: while calls take   *)
(* turns whatever fails, restarts included, and while they overlap until   *)
(* one of them makes its service resync or the process restarts.  What it  *)
(* reports is what the chain did, and so is what the executors make of it. *)
(*                                                                         *)
(* Two books are kept beside a chain that may differ from them.  The       *)
(* inventory ledger never overstates what can be spent, for any balance,   *)
(* by more than transactions took beyond what they had reserved: the       *)
(* invariant ties the ledger's row to its callers' books, and what is free *)
(* by the row may only exceed the chain by what has landed and is not      *)
(* settled.  The position of a trading worker is covered by what its       *)
(* wallet is sure to hold: the sum of what swaps got, over those reported  *)
(* filled and those given up that came through.                            *)
(*                                                                         *)
(* The types come last: a service's line is no longer than calls may       *)
(* overlap, because each entry is another call in flight (LineOK), and     *)
(* what is final was once all the wallet had (FinalOK).                    *)
(***************************************************************************)
EXTENDS MCWalletNonce, Induction, FiniteSetTheorems, TLAPS

USE DEF Statuses

\* Phases before the nonce is allocated, and before the transaction is sent.
Unbound == {"new", "preflight", "queued", "counting"}
Unposted  == Unbound \cup {"signing", "sending"}

\* What is known of one call, k, whose transaction is in state t.
CallOK(k, t) ==
    /\ k \in CallType
    /\ k.pc \notin {"new", "done", "dead"} => k.svc \in Services
    /\ t # "none" \/ k.pc \in {"signing", "sending"} => k.nonce \in Nat
    /\ k.pc = "counting" => k.seen \in Nat
    /\ k.pc \in Unposted => t = "none"

WType ==
    /\ regime \in Regimes
    /\ call \in [Calls -> CallType]
    /\ cache \in [Services -> Nat \union {None}]
    /\ line \in [Services -> Seq(Calls)]
    /\ tx \in [Calls -> {"none", "pool", "replaced", "success", "reverted"}]
    /\ mined \in Nat
    /\ crashes \in Nat
    /\ \A c \in Calls : CallOK(call[c], tx[c])
    /\ \A c \in Calls : call[c].pc = "counting" => AtHead(c)

\* A step of one call that leaves the line alone.
LEMMA CallMoves ==
    ASSUME WType, NEW c \in Calls, NEW k, call' = [call EXCEPT ![c] = k], CallOK(k, tx'[c]),
           k.pc = "counting" => AtHead(c) /\ k.svc = call[c].svc,
           tx' \in [Calls -> {"none", "pool", "replaced", "success", "reverted"}],
           \A d \in Calls \ {c} : tx'[d] = "none" <=> tx[d] = "none",
           cache' \in [Services -> Nat \union {None}], mined' \in Nat, UNCHANGED <<regime, line, crashes>>
    PROVE  WType'
  <1>1. \A d \in Calls : call'[d] = IF d = c THEN k ELSE call[d]
    BY DEF WType
  <1>2. call' \in [Calls -> CallType]
    BY DEF WType, CallOK
  <1>3. \A d \in Calls : CallOK(call'[d], tx'[d])
    BY <1>1 DEF WType, CallOK
  <1>4. \A d \in Calls : call'[d].pc = "counting" => AtHead(d)'
    BY <1>1 DEF WType, AtHead
  <1> QED
    BY <1>2, <1>3, <1>4 DEF WType

\* The call at the head of the line leaves it.
LEMMA HeadMoves ==
    ASSUME WType, NEW c \in Calls, AtHead(c), call[c].svc \in Services, ReleaseGate(c),
           NEW k, call' = [call EXCEPT ![c] = k], CallOK(k, tx[c]), k.pc # "counting",
           cache' \in [Services -> Nat \union {None}], UNCHANGED <<regime, tx, mined, crashes>>
    PROVE  WType'
  <1> DEFINE s == call[c].svc
  <1>1. \A d \in Calls : call'[d] = IF d = c THEN k ELSE call[d]
    BY DEF WType
  <1>2. call' \in [Calls -> CallType]
    BY DEF WType, CallOK
  <1>3. line' \in [Services -> Seq(Calls)]
    <2>1. line[s] \in Seq(Calls) /\ line[s] # <<>>
      BY DEF WType, AtHead
    <2>2. Tail(line[s]) \in Seq(Calls)
      BY <2>1
    <2> QED BY <2>2 DEF WType, ReleaseGate
  <1>4. \A d \in Calls : CallOK(call'[d], tx'[d])
    BY <1>1 DEF WType
  <1>5. \A d \in Calls : call'[d].pc = "counting" => AtHead(d)'
    <2> SUFFICES ASSUME NEW d \in Calls, d # c, call[d].pc = "counting" PROVE AtHead(d)'
      BY <1>1
    <2>1. AtHead(d) /\ call[d].svc \in Services /\ call'[d] = call[d]
      BY <1>1 DEF WType, CallOK
    <2>2. call[d].svc # call[c].svc
      BY <2>1 DEF AtHead
    <2>3. line'[call[d].svc] = line[call[d].svc]
      BY <2>1, <2>2 DEF WType, ReleaseGate
    <2> QED BY <2>1, <2>3 DEF AtHead
  <1> QED
    BY <1>2, <1>3, <1>4, <1>5 DEF WType

\* What Goto and Return make of a call.
LEMMA GotoMakes ==
    ASSUME WType, NEW c \in Calls, NEW pc \in Phases, Goto(c, pc)
    PROVE  \E k \in CallType :
               /\ call' = [call EXCEPT ![c] = k]
               /\ k.pc = pc /\ k.svc = call[c].svc /\ k.nonce = call[c].nonce /\ k.seen = call[c].seen
               /\ k.status = call[c].status
  <1> DEFINE k == [call[c] EXCEPT !.pc = pc]
  <1>1. call' = [call EXCEPT ![c] = k]
    BY DEF Goto, WType
  <1>2. /\ k \in CallType
        /\ k.pc = pc /\ k.svc = call[c].svc /\ k.nonce = call[c].nonce /\ k.seen = call[c].seen
        /\ k.status = call[c].status
    BY DEF WType, CallType
  <1> QED
    BY <1>1, <1>2

\* A call that returns keeps its service and its nonce.
LEMMA ReturnMakes ==
    ASSUME WType, NEW c \in Calls, NEW status \in Statuses,
           Return(c, status)
    PROVE  \E k \in CallType :
               /\ call' = [call EXCEPT ![c] = k]
               /\ k.pc = "done" /\ k.svc = call[c].svc /\ k.nonce = call[c].nonce /\ k.seen = call[c].seen
  <1> DEFINE k == [call[c] EXCEPT !.pc = "done", !.status = status]
  <1>1. call' = [call EXCEPT ![c] = k]
    BY DEF Return, WType
  <1>2. /\ k \in CallType
        /\ k.pc = "done" /\ k.svc = call[c].svc /\ k.nonce = call[c].nonce /\ k.seen = call[c].seen
    BY DEF WType, CallType, Phases
  <1> QED
    BY <1>1, <1>2

\* The call that gets a nonce.
LEMMA AllocateMakes ==
    ASSUME WType, NEW c \in Calls, NEW n \in Nat, call[c].svc \in Services, Allocate(c, n)
    PROVE  /\ \E k \in CallType :
                 /\ call' = [call EXCEPT ![c] = k]
                 /\ k.pc = "signing" /\ k.svc = call[c].svc /\ k.nonce = n
           /\ cache' \in [Services -> Nat \union {None}]
           /\ cache'[call[c].svc] = n + 1
  <1> DEFINE k == [call[c] EXCEPT !.pc = "signing", !.nonce = n]
  <1>1. call' = [call EXCEPT ![c] = k]
    BY DEF Allocate, WType
  <1>2. k \in CallType /\ k.pc = "signing" /\ k.svc = call[c].svc /\ k.nonce = n
    BY DEF WType, CallType, Phases
  <1>3. cache' \in [Services -> Nat \union {None}] /\ cache'[call[c].svc] = n + 1
    BY DEF Allocate, WType
  <1> QED
    BY <1>1, <1>2, <1>3

\* Every step preserves the types, as long as the node counts in numbers.
LEMMA TypeStep ==
    ASSUME WType, [Next]_vars, \A c \in Calls : AskCount(c) => PendingCount \in Nat
    PROVE  WType'
  <1>0. /\ \A c \in Calls : call[c] \in CallType /\ CallOK(call[c], tx[c])
        /\ cache \in [Services -> Nat \union {None}] /\ mined \in Nat /\ mined + 1 \in Nat
        /\ tx \in [Calls -> {"none", "pool", "replaced", "success", "reverted"}]
    BY DEF WType, CallOK
  <1> USE DEF Unposted, Unbound
  <1>1. ASSUME NEW c \in Calls, NEW s \in Services, Begin(c, s) PROVE WType'
    <2> DEFINE k == [call[c] EXCEPT !.pc = "preflight", !.svc = s]
    <2>1. CallOK(k, tx[c]) /\ k.pc = "preflight"
      BY <1>0, <1>1 DEF Begin, CallOK, CallType, Phases
    <2>2. call' = [call EXCEPT ![c] = k] /\ UNCHANGED <<regime, cache, line, tx, mined, crashes>>
      BY <1>1 DEF Begin
    <2> HIDE DEF k
    <2> QED BY <1>0, <2>1, <2>2, CallMoves
  \* Calls that go on with the nonce they have.
  <1>2. ASSUME NEW c \in Calls, NEW pc \in {"sending", "failing", "tracking"}, Goto(c, pc),
               call[c].pc \notin {"new", "done", "dead"},
               pc = "sending" => call[c].pc = "signing",
               tx' \in [Calls -> {"none", "pool", "replaced", "success", "reverted"}],
               \A d \in Calls \ {c} : tx'[d] = "none" <=> tx[d] = "none",
               tx'[c] = tx[c] \/ (call[c].pc = "sending" /\ pc # "sending"),
               UNCHANGED <<regime, cache, line, mined, crashes>>
        PROVE  WType'
    <2>1. pc \in Phases
      BY DEF Phases
    <2>2. PICK k \in CallType :
               /\ call' = [call EXCEPT ![c] = k]
               /\ k.pc = pc /\ k.svc = call[c].svc /\ k.nonce = call[c].nonce /\ k.seen = call[c].seen
      BY <1>2, <2>1, GotoMakes
    <2>3. CallOK(k, tx'[c])
      BY <1>0, <1>2, <2>2 DEF CallOK
    <2>4. k.pc # "counting" /\ mined' \in Nat /\ cache' \in [Services -> Nat \union {None}]
      BY <1>0, <1>2, <2>2
    <2> QED
      BY <1>2, <2>2, <2>3, <2>4, CallMoves
  <1>3. ASSUME NEW c \in Calls, NEW status \in Statuses, Return(c, status),
               call[c].pc \notin {"new", "done", "dead"},
               UNCHANGED cache \/ ResyncNonce(c), UNCHANGED <<regime, line, tx, mined, crashes>>
        PROVE  WType'
    <2>1. PICK k \in CallType :
               /\ call' = [call EXCEPT ![c] = k]
               /\ k.pc = "done" /\ k.svc = call[c].svc /\ k.nonce = call[c].nonce /\ k.seen = call[c].seen
      BY <1>3, ReturnMakes
    <2>2. CallOK(k, tx'[c])
      BY <1>0, <1>3, <2>1 DEF CallOK
    <2>3. cache' \in [Services -> Nat \union {None}]
      BY <1>0, <1>3 DEF ResyncNonce
    <2> QED
      BY <1>0, <1>3, <2>1, <2>2, <2>3, CallMoves
  <1>4. ASSUME NEW c \in Calls, NEW n \in Nat, call[c].pc \in {"queued", "counting"}, AtHead(c),
               Allocate(c, n), ReleaseGate(c), UNCHANGED <<regime, tx, mined, crashes>>
        PROVE  WType'
    <2>1. call[c].svc \in Services /\ tx[c] = "none"
      BY <1>0, <1>4 DEF CallOK
    <2>2. PICK k \in CallType : /\ call' = [call EXCEPT ![c] = k]
                                /\ k.pc = "signing" /\ k.svc = call[c].svc /\ k.nonce = n
      BY <1>4, <2>1, AllocateMakes
    <2>3. cache' \in [Services -> Nat \union {None}]
      BY <1>4, <2>1, AllocateMakes
    <2>4. CallOK(k, tx[c])
      BY <2>1, <2>2 DEF CallOK
    <2> QED
      BY <1>4, <2>1, <2>2, <2>3, <2>4, HeadMoves
  <1>5. ASSUME NEW c \in Calls, Enqueue(c) PROVE WType'
    <2>1. PICK k \in CallType :
               /\ call' = [call EXCEPT ![c] = k]
               /\ k.pc = "queued" /\ k.svc = call[c].svc /\ k.nonce = call[c].nonce
      BY <1>5, GotoMakes DEF Enqueue, Phases
    <2>2. /\ call[c].pc = "preflight" /\ call[c].svc \in Services /\ UNCHANGED <<regime, cache, tx, mined, crashes>>
          /\ line' = [line EXCEPT ![call[c].svc] = Append(@, c)]
      BY <1>0, <1>5 DEF Enqueue, CallOK
    <2>3. /\ line' \in [Services -> Seq(Calls)]
          /\ \A s \in Services : line[s] # <<>> => line'[s] # <<>> /\ Head(line'[s]) = Head(line[s])
      <3> DEFINE l == line[call[c].svc]
      <3>1. l \in Seq(Calls)
        BY <2>2 DEF WType
      <3> HIDE DEF l
      <3>2. Append(l, c) \in Seq(Calls) /\ Len(Append(l, c)) = Len(l) + 1 /\ Len(l) \in Nat
        BY <3>1
      <3>3. l # <<>> => Append(l, c)[1] = l[1] /\ Len(l) > 0
        BY <3>1
      <3>4. Append(l, c) # <<>> /\ (l # <<>> => Head(Append(l, c)) = Head(l))
        BY <3>1, <3>2, <3>3
      <3> QED
        BY <2>2, <3>2, <3>4 DEF WType, l
    <2>4. \A d \in Calls : call'[d] = IF d = c THEN k ELSE call[d]
      BY <2>1 DEF WType
    <2>5. \A d \in Calls : CallOK(call'[d], tx'[d])
      BY <1>0, <2>1, <2>2, <2>4 DEF CallOK
    <2>6. \A d \in Calls : call'[d].pc = "counting" => AtHead(d)'
      <3> SUFFICES ASSUME NEW d \in Calls, call'[d].pc = "counting" PROVE AtHead(d)'
        OBVIOUS
      <3>1. call'[d] = call[d] /\ AtHead(d) /\ call[d].svc \in Services
        BY <2>1, <2>4 DEF WType, CallOK
      <3> QED
        BY <2>3, <3>1 DEF AtHead
    <2>7. call' \in [Calls -> CallType]
      BY <2>1 DEF WType
    <2> QED
      BY <2>2, <2>3, <2>5, <2>6, <2>7 DEF WType
  <1>6. ASSUME NEW c \in Calls, AskCount(c) PROVE WType'
    <2> DEFINE k == [call[c] EXCEPT !.pc = "counting", !.seen = PendingCount]
    <2>0. PendingCount \in Nat
      BY <1>6
    <2>1. CallOK(k, tx[c]) /\ k.svc = call[c].svc
      BY <1>0, <1>6, <2>0 DEF AskCount, CallOK, CallType, Phases
    <2>2. call' = [call EXCEPT ![c] = k] /\ AtHead(c) /\ UNCHANGED <<regime, cache, line, tx, mined, crashes>>
      BY <1>6 DEF AskCount, FetchPending
    <2> HIDE DEF k
    <2> QED BY <1>0, <2>1, <2>2, CallMoves
  <1>7. ASSUME NEW c \in Calls, CountFails(c) PROVE WType'
    <2>1. PICK k \in CallType :
               /\ call' = [call EXCEPT ![c] = k]
               /\ k.pc = "done" /\ k.svc = call[c].svc /\ k.nonce = call[c].nonce
      BY <1>7, ReturnMakes DEF CountFails
    <2>2. /\ call[c].pc = "counting" /\ AtHead(c) /\ call[c].svc \in Services /\ ReleaseGate(c)
          /\ UNCHANGED <<regime, cache, tx, mined, crashes>>
      BY <1>0, <1>7 DEF CountFails, CallOK, WType
    <2>3. CallOK(k, tx[c])
      BY <1>0, <2>1, <2>2 DEF CallOK
    <2> QED
      BY <1>0, <2>1, <2>2, <2>3, HeadMoves
  <1>8. ASSUME NEW c \in Calls, Mine(c) PROVE WType'
    <2>1. /\ tx' \in [Calls -> {"none", "pool", "replaced", "success", "reverted"}]
          /\ \A d \in Calls : tx'[d] = "none" <=> tx[d] = "none"
      BY <1>0, <1>8 DEF Mine
    <2>2. \A d \in Calls : CallOK(call[d], tx'[d])
      BY <1>0, <2>1 DEF CallOK
    <2>3. UNCHANGED <<regime, call, cache, line, crashes>> /\ mined' \in Nat
      BY <1>0, <1>8 DEF Mine
    <2> QED
      BY <2>1, <2>2, <2>3 DEF WType, AtHead
  <1>9. ASSUME NEW c \in Calls, Broadcast(c) PROVE WType'
    <2>1. /\ tx' \in [Calls -> {"none", "pool", "replaced", "success", "reverted"}]
          /\ \A d \in Calls \ {c} : tx'[d] = "none" <=> tx[d] = "none"
      BY <1>0, <1>9 DEF Broadcast, Pool
    <2> QED
      BY <1>2, <1>9, <2>1 DEF Broadcast
  <1>10. ASSUME NEW c \in Calls, BroadcastFails(c) PROVE WType'
    BY <1>0, <1>2, <1>10 DEF BroadcastFails
  <1>11. ASSUME NEW c \in Calls, Sign(c) PROVE WType'
    BY <1>0, <1>2, <1>11 DEF Sign
  <1>12. ASSUME NEW c \in Calls, Refuse(c) \/ SignFails(c) \/ BroadcastAborts(c) \/ GiveUp(c) \/ PollThrows(c)
         PROVE  WType'
    BY <1>3, <1>12 DEF Refuse, SignFails, BroadcastAborts, GiveUp, PollThrows
  <1>13. ASSUME NEW c \in Calls, Receipt(c) PROVE WType'
    <2>1. ReceiptStatus(tx[c]) \in {"filled", "reverted"}
      BY DEF ReceiptStatus
    <2> QED
      BY <1>3, <1>13, <2>1 DEF Receipt
  <1>14. ASSUME NEW c \in Calls, AllocateCached(c) PROVE WType'
    <2>1. cache[call[c].svc] \in Nat
      BY <1>0, <1>14 DEF AllocateCached, CallOK
    <2> QED
      BY <1>4, <1>14, <2>1 DEF AllocateCached
  <1>15. ASSUME NEW c \in Calls, AllocateCounted(c) PROVE WType'
    <2>1. call[c].seen \in Nat /\ AtHead(c)
      BY <1>0, <1>15 DEF AllocateCounted, CallOK, WType
    <2> QED
      BY <1>4, <1>15, <2>1 DEF AllocateCounted
  <1>16. CASE Crash
    <2>1. \A d \in Calls : \/ call'[d] = call[d] /\ d \notin InFlight
                           \/ call'[d] = [call[d] EXCEPT !.pc = "dead"]
      BY <1>16 DEF Crash
    <2>2. ASSUME NEW d \in Calls
          PROVE  CallOK(call'[d], tx[d]) /\ call'[d].pc # "counting" /\ call'[d] \in CallType
      <3>1. CASE call'[d] = call[d] /\ d \notin InFlight
        BY <1>0, <3>1 DEF InFlight
      <3>2. CASE call'[d] = [call[d] EXCEPT !.pc = "dead"]
        BY <1>0, <3>2 DEF CallOK, CallType, Phases
      <3> QED BY <2>1, <3>1, <3>2
    <2>3. call' \in [Calls -> CallType]
      BY <1>16, <2>2 DEF Crash
    <2>4. /\ cache' \in [Services -> Nat \union {None}] /\ line' \in [Services -> Seq(Calls)]
          /\ crashes' \in Nat /\ UNCHANGED <<regime, tx, mined>>
      <3>1. crashes \in Nat
        BY DEF WType
      <3>2. <<>> \in Seq(Calls)
        OBVIOUS
      <3> QED
        BY <1>16, <3>1, <3>2 DEF Crash
    <2> QED
      BY <2>2, <2>3, <2>4 DEF WType
  <1>17. CASE UNCHANGED vars
    BY <1>17 DEF vars, WType, AtHead
  <1> QED
    BY <1>1, <1>5, <1>6, <1>7, <1>8, <1>9, <1>10, <1>11, <1>12, <1>13, <1>14, <1>15, <1>16, <1>17
    DEF Next, CallStep

-----------------------------------------------------------------------------
(* What the node counts.                                                    *)

Frontier == mined + Cardinality(Pool)

\* The pool's transactions carry the nonces from mined on, each once.
PoolRuns ==
    /\ \A c \in Pool : call[c].nonce \in mined .. Frontier - 1
    /\ \A n \in mined .. Frontier - 1 : \E c \in Pool : call[c].nonce = n
    /\ \A c, d \in Pool : call[c].nonce = call[d].nonce => c = d

\* Pending transactions can be counted.
LEMMA PoolFinite ==
    /\ IsFiniteSet(Pool) /\ Cardinality(Pool) \in Nat /\ Cardinality(Calls) \in Nat
    /\ Cardinality(Pool) <= Cardinality(Calls)
  <1>1. Pool \subseteq Calls
    BY DEF Pool
  <1> QED
    BY <1>1, WalletConstants, FS_Subset, FS_CardinalityType

\* Fewer transactions are pending than there are nonces to ask for, so one is free and the
\* node has an answer.
LEMMA NodeAnswers == ASSUME WType PROVE PendingCount \in Nat
  <1> DEFINE size == Cardinality(Calls)
             top == mined + size
             Unused == {n \in Nat : n >= mined /\ n <= top /\ \A c \in Pool : call[c].nonce # n}
  <1>0. mined \in Nat /\ size \in Nat /\ IsFiniteSet(Pool) /\ Cardinality(Pool) \in Nat /\ Cardinality(Pool) <= size
    BY PoolFinite DEF WType
  <1> HIDE DEF size
  <1>1. Unused # {}
    <2> SUFFICES ASSUME Unused = {} PROVE FALSE
      OBVIOUS
    <2>1. top \in Int /\ mined \in Int /\ ~(mined > top) /\ top - mined + 1 = size + 1
      BY <1>0
    <2>2. IsFiniteSet(mined..top) /\ Cardinality(mined..top) = size + 1
      <3> HIDE DEF top
      <3> QED BY <2>1, FS_Interval
    <2>3. \A n \in mined..top : \E c \in Pool : call[c].nonce = n
      <3> TAKE n \in mined..top
      <3>1. n \in Nat /\ n >= mined /\ n <= top
        BY <1>0
      <3> QED BY <3>1
    <2> DEFINE f == [n \in mined..top |-> CHOOSE c \in Pool : call[c].nonce = n]
    <2>4. f \in [mined..top -> Pool] /\ \A n \in mined..top : call[f[n]].nonce = n
      BY <2>3
    <2> HIDE DEF f, top
    <2>5. Cardinality(Pool) < Cardinality(mined..top)
      BY <1>0, <2>2
    <2>6. \E x, y \in mined..top : x # y /\ f[x] = f[y]
      <3>1. PICK S : S = mined..top
        OBVIOUS
      <3>2. IsFiniteSet(S) /\ Cardinality(Pool) < Cardinality(S) /\ f \in [S -> Pool]
        BY <2>2, <2>4, <2>5, <3>1
      <3>3. \E x, y \in S : x # y /\ f[x] = f[y]
        BY <1>0, <3>2, FS_PigeonHole
      <3> QED BY <3>1, <3>3
    <2> QED BY <2>4, <2>6
  <1>2. PICK n \in Unused : \A m \in Unused : n <= m
    <2>1. Unused \in SUBSET Nat
      OBVIOUS
    <2> HIDE DEF Unused
    <2> QED BY <1>1, <2>1, LeastNatural
  <1>3. n \in mined..top /\ n \in Nat /\ \A c \in Pool : call[c].nonce # n
    BY <1>0
  <1>4. \A m \in mined..(n - 1) : \E c \in Pool : call[c].nonce = m
    <2> SUFFICES ASSUME NEW m \in mined..(n - 1), \A c \in Pool : call[c].nonce # m PROVE FALSE
      OBVIOUS
    <2>1. m \in Nat /\ m >= mined /\ m <= top /\ ~(n <= m)
      BY <1>0, <1>3
    <2> QED BY <1>2, <2>1
  <1> DEFINE Asked(k) == /\ \A c \in Pool : call[c].nonce # k
                         /\ \A m \in mined..(k - 1) : \E c \in Pool : call[c].nonce = m
  <1>5. PendingCount = CHOOSE k \in mined..(mined + size) : Asked(k)
    BY DEF PendingCount, size
  <1>6. Asked(n)
    BY <1>3, <1>4
  <1> HIDE DEF Asked
  <1>7. PendingCount \in mined..(mined + size)
    BY <1>3, <1>5, <1>6
  <1> QED BY <1>0, <1>7

\* When pending nonces run without a hole, the count the node answers is the first free one.
LEMMA CountsToFrontier ==
    ASSUME mined \in Nat, PoolRuns
    PROVE  PendingCount = Frontier /\ Frontier \in Nat
  <1> DEFINE size == Cardinality(Pool)
             P(n) == /\ \A c \in Pool : call[c].nonce # n
                     /\ \A m \in mined .. n - 1 : \E c \in Pool : call[c].nonce = m
  <1>1. size \in Nat /\ Cardinality(Calls) \in Nat /\ size <= Cardinality(Calls)
    BY PoolFinite
  <1>2. Frontier = mined + size
    BY DEF Frontier
  <1> HIDE DEF size
  <1>3. Frontier \in mined .. mined + Cardinality(Calls) /\ Frontier \in Nat
    BY <1>1, <1>2
  <1>4. P(Frontier)
    BY <1>3 DEF PoolRuns
  <1>5. ASSUME NEW n \in mined .. mined + Cardinality(Calls), P(n)
        PROVE  n = Frontier
    <2>1. CASE n < Frontier
      <3>1. n \in mined .. Frontier - 1
        BY <1>1, <1>3, <2>1
      <3> QED BY <1>5, <3>1 DEF PoolRuns
    <2>2. CASE n > Frontier
      <3>1. Frontier \in mined .. n - 1
        BY <1>1, <1>3, <2>2
      <3>2. PICK c \in Pool : call[c].nonce = Frontier
        BY <1>5, <3>1
      <3> QED BY <1>3, <3>2 DEF PoolRuns
    <2> QED
      BY <1>1, <1>3, <2>1, <2>2
  <1>6. PendingCount = CHOOSE n \in mined .. mined + Cardinality(Calls) : P(n)
    BY DEF PendingCount
  <1> HIDE DEF P
  <1> QED
    BY <1>3, <1>4, <1>5, <1>6

\* The pool takes the transaction that comes next.
LEMMA PoolTakes ==
    ASSUME mined \in Nat, PoolRuns, NEW c \in Calls, c \notin Pool, mined' = mined,
           Pool' = Pool \cup {c}, call'[c].nonce = Frontier, \A d \in Pool : call'[d].nonce = call[d].nonce
    PROVE  PoolRuns' /\ Frontier' = Frontier + 1
  <1>1. Cardinality(Pool \cup {c}) = Cardinality(Pool) + 1 /\ Cardinality(Pool) \in Nat
    BY PoolFinite, FS_AddElement
  <1>2. Frontier' = Frontier + 1 /\ Frontier \in Nat /\ mined <= Frontier
    BY <1>1 DEF Frontier
  <1>3. \A d \in Pool : call[d].nonce \in mined .. Frontier - 1
    BY DEF PoolRuns
  <1>4. ASSUME NEW n \in mined' .. Frontier' - 1
        PROVE  \E d \in Pool' : call'[d].nonce = n
    <2>1. CASE n = Frontier
      BY <2>1
    <2>2. CASE n # Frontier
      <3>1. n \in mined .. Frontier - 1
        BY <1>2, <2>2
      <3> QED BY <3>1 DEF PoolRuns
    <2> QED BY <2>1, <2>2
  <1>5. \A d \in Pool' : call'[d].nonce \in mined' .. Frontier' - 1
    BY <1>2, <1>3
  <1>6. ASSUME NEW d \in Pool', NEW e \in Pool', call'[d].nonce = call'[e].nonce
        PROVE  d = e
    <2>1. CASE d \in Pool /\ e \in Pool
      BY <1>6, <2>1 DEF PoolRuns
    <2>2. CASE d = c \/ e = c
      BY <1>2, <1>3, <1>6, <2>2
    <2> QED BY <2>1, <2>2
  <1> QED
    BY <1>2, <1>4, <1>5, <1>6 DEF PoolRuns

\* A transaction takes the place of another in the pool.
LEMMA PoolReplaces ==
    ASSUME mined \in Nat, PoolRuns, NEW c \in Calls, c \notin Pool, NEW r \in Pool, mined' = mined,
           Pool' = (Pool \ {r}) \cup {c}, call'[c].nonce = call[r].nonce,
           \A d \in Pool : call'[d].nonce = call[d].nonce
    PROVE  PoolRuns' /\ Frontier' = Frontier
  <1>1. /\ IsFiniteSet(Pool \ {r}) /\ Cardinality(Pool \ {r}) = Cardinality(Pool) - 1
        /\ Cardinality(Pool) \in Nat
    BY PoolFinite, FS_RemoveElement
  <1>2. Cardinality(Pool') = Cardinality(Pool)
    <2>1. c \notin Pool \ {r}
      OBVIOUS
    <2>2. Cardinality((Pool \ {r}) \cup {c}) = Cardinality(Pool \ {r}) + 1
      BY <1>1, <2>1, FS_AddElement
    <2> QED BY <1>1, <2>2
  <1>3. Frontier' = Frontier
    BY <1>2 DEF Frontier
  <1>4. \A d \in Pool' : \E e \in Pool : call'[d].nonce = call[e].nonce /\ (e = IF d = c THEN r ELSE d)
    OBVIOUS
  <1>5. \A d \in Pool' : call'[d].nonce \in mined' .. Frontier' - 1
    BY <1>3, <1>4 DEF PoolRuns
  <1>6. ASSUME NEW n \in mined' .. Frontier' - 1
        PROVE  \E d \in Pool' : call'[d].nonce = n
    <2>1. PICK e \in Pool : call[e].nonce = n
      BY <1>3 DEF PoolRuns
    <2>2. CASE e = r
      BY <2>1, <2>2
    <2>3. CASE e # r
      BY <2>1, <2>3
    <2> QED BY <2>2, <2>3
  <1>7. ASSUME NEW d \in Pool', NEW e \in Pool', call'[d].nonce = call'[e].nonce
        PROVE  d = e
    <2>1. PICK a \in Pool : call'[d].nonce = call[a].nonce /\ (a = IF d = c THEN r ELSE d)
      BY <1>4
    <2>2. PICK b \in Pool : call'[e].nonce = call[b].nonce /\ (b = IF e = c THEN r ELSE e)
      BY <1>4
    <2>3. call[a].nonce = call[b].nonce
      BY <1>7, <2>1, <2>2
    <2>4. a = b
      BY <2>3 DEF PoolRuns
    <2>5. c \notin Pool \ {r} /\ r \notin Pool' \ {c}
      OBVIOUS
    <2> QED BY <2>1, <2>2, <2>4, <2>5
  <1> QED
    BY <1>3, <1>5, <1>6, <1>7 DEF PoolRuns

\* The first of the pool is mined.
LEMMA PoolMines ==
    ASSUME mined \in Nat, PoolRuns, NEW c \in Pool, call[c].nonce = mined, mined' = mined + 1,
           Pool' = Pool \ {c}, call' = call
    PROVE  PoolRuns' /\ Frontier' = Frontier
  <1>1. Cardinality(Pool \ {c}) = Cardinality(Pool) - 1 /\ Cardinality(Pool) \in Nat
    BY PoolFinite, FS_RemoveElement
  <1>2. Frontier' = Frontier /\ Frontier \in Nat
    BY <1>1 DEF Frontier
  <1>3. \A d \in Pool : call[d].nonce \in mined .. Frontier - 1
    BY DEF PoolRuns
  <1>4. \A d \in Pool' : call[d].nonce \in mined .. Frontier - 1 /\ call[d].nonce # mined
    BY DEF PoolRuns
  <1>5. \A d \in Pool' : call'[d].nonce \in mined' .. Frontier' - 1
    BY <1>2, <1>4
  <1>6. ASSUME NEW n \in mined' .. Frontier' - 1
        PROVE  \E d \in Pool' : call'[d].nonce = n
    <2>1. n \in mined .. Frontier - 1 /\ n # mined
      BY <1>2
    <2>2. PICK d \in Pool : call[d].nonce = n
      BY <2>1 DEF PoolRuns
    <2> QED BY <2>1, <2>2
  <1>7. \A d, e \in Pool' : call'[d].nonce = call'[e].nonce => d = e
    BY DEF PoolRuns
  <1> QED
    BY <1>2, <1>5, <1>6, <1>7 DEF PoolRuns

\* Nothing reaches the node, and no transaction it has changes its nonce.
LEMMA PoolKeeps ==
    ASSUME PoolRuns, tx' = tx, mined' = mined, \A c \in Pool : call'[c].nonce = call[c].nonce
    PROVE  PoolRuns' /\ Frontier' = Frontier /\ Pool' = Pool
  <1>1. Pool' = Pool
    BY DEF Pool
  <1>2. Frontier' = Frontier
    BY <1>1 DEF Frontier
  <1>3. \A c \in Pool' : call'[c].nonce = call[c].nonce /\ call'[c].nonce \in mined' .. Frontier' - 1
    BY <1>1, <1>2 DEF PoolRuns
  <1>4. ASSUME NEW n \in mined' .. Frontier' - 1
        PROVE  \E c \in Pool' : call'[c].nonce = n
    BY <1>1, <1>2 DEF PoolRuns
  <1>5. \A c, d \in Pool' : call'[c].nonce = call'[d].nonce => c = d
    BY <1>1 DEF PoolRuns
  <1>6. PoolRuns'
    BY <1>3, <1>4, <1>5 DEF PoolRuns
  <1> QED
    BY <1>1, <1>2, <1>6

-----------------------------------------------------------------------------
(* Calls that take turns.                                                   *)

\* Whose nonce is bound but not on the network yet, or may be.
Holding(c) == call[c].pc \in {"signing", "sending", "failing"}

\* Whose transaction is on the network, and not replaced.
OnNet(c) == tx[c] \in {"pool", "success", "reverted"}

\* What a service remembers between its calls is at most the next nonce.
Remembers(s) == cache[s] = None \/ cache[s] <= Frontier

\* One call is under way, whatever service it is of.  What it holds is the next nonce or,
\* when its service has not seen what others sent, an earlier one; and it lies beyond what
\* the service gave to other calls.
Turns ==
    /\ \A c, d \in InFlight : c = d
    /\ \A c \in Calls : call[c].pc = "counting" => call[c].seen = Frontier
    /\ \A c \in Calls : call[c].pc \in {"signing", "sending"} =>
           /\ call[c].nonce <= Frontier /\ cache[call[c].svc] = call[c].nonce + 1
           /\ \A d \in Calls : OnNet(d) /\ SameService(c, d) => call[d].nonce < call[c].nonce
    /\ \A s \in Services : (\A c \in Calls : Holding(c) => call[c].svc # s) => Remembers(s)
    /\ \A s \in Services, d \in Calls :
           OnNet(d) /\ call[d].svc = s /\ cache[s] # None => call[d].nonce < cache[s]

\* What was mined came before the pool, each nonce once.
Past ==
    /\ \A c \in Calls : tx[c] \in {"success", "reverted"} => call[c].nonce \in 0 .. mined - 1
    /\ \A c, d \in Calls : tx[c] \in {"success", "reverted"} /\ tx[d] \in {"success", "reverted"}
                               /\ call[c].nonce = call[d].nonce => c = d

SInv == Sequential => WType /\ PoolRuns /\ Turns /\ Past

\* The invariant of calls that take turns holds at the start.
LEMMA SequentialStart == Init => SInv
  <1> SUFFICES ASSUME Init PROVE WType /\ PoolRuns /\ Turns /\ Past
    BY DEF SInv
  <1> USE DEF Init
  <1>1. \A c \in Calls : call[c] = NewCall /\ tx[c] = "none"
    OBVIOUS
  <1>2. NewCall \in CallType /\ NewCall.pc = "new"
    BY DEF NewCall, CallType, Phases
  <1>3. WType
    <2>1. \A c \in Calls : CallOK(call[c], tx[c])
      BY <1>1, <1>2 DEF CallOK
    <2>2. <<>> \in Seq(Calls)
      OBVIOUS
    <2> QED
      BY <1>1, <1>2, <2>1, <2>2 DEF WType
  <1>4. Pool = {}
    BY <1>1 DEF Pool
  <1>5. Frontier = 0
    BY <1>4, FS_EmptySet DEF Frontier
  <1>6. PoolRuns /\ Past
    BY <1>1, <1>4, <1>5 DEF PoolRuns, Past
  <1>7. Turns
    <2>1. \A c \in Calls : call[c].pc = "new"
      BY <1>1, <1>2
    <2>2. InFlight = {}
      BY <2>1 DEF InFlight
    <2>3. \A s \in Services : cache[s] = None
      OBVIOUS
    <2> QED
      BY <1>1, <2>1, <2>2, <2>3 DEF Turns, OnNet, Remembers, Holding
  <1> QED
    BY <1>3, <1>6, <1>7

\* The step of the one call under way that sends nothing.
LEMMA TurnTaken ==
    ASSUME WType, PoolRuns, Turns, Past, NEW c \in Calls, \A d \in InFlight : d = c,
           NEW k, call' = [call EXCEPT ![c] = k], UNCHANGED <<tx, mined>>,
           tx[c] # "none" => k.nonce = call[c].nonce /\ k.svc = call[c].svc,
           k.pc = "counting" => k.seen = Frontier,
           k.pc \in {"signing", "sending"} =>
               /\ k.nonce <= Frontier /\ cache'[k.svc] = k.nonce + 1
               /\ \A d \in Calls : OnNet(d) /\ call[d].svc = k.svc => d # c /\ call[d].nonce < k.nonce,
           \A s \in Services : k.pc \notin {"signing", "sending", "failing"} \/ k.svc # s
                                   => cache'[s] = None \/ cache'[s] <= Frontier,
           \A s \in Services, d \in Calls : OnNet(d) /\ call[d].svc = s /\ cache'[s] # None => call[d].nonce < cache'[s]
    PROVE  PoolRuns' /\ Turns' /\ Past'
  <1>1. \A d \in Calls : call'[d] = IF d = c THEN k ELSE call[d]
    BY DEF WType
  <1>2. \A d \in Calls : tx[d] # "none" => call'[d].nonce = call[d].nonce /\ call'[d].svc = call[d].svc
    BY <1>1
  <1>3. PoolRuns' /\ Frontier' = Frontier
    BY <1>2, PoolKeeps DEF Pool
  <1>4. Past'
    BY <1>2 DEF Past
  <1>5. \A d \in Calls \ {c} : call'[d].pc \in {"new", "done", "dead"}
    BY <1>1 DEF InFlight
  <1>6. \A d, e \in InFlight' : d = e
    BY <1>5 DEF InFlight
  <1>7. \A d \in Calls : OnNet(d)' <=> OnNet(d)
    BY DEF OnNet
  <1>8. \A d \in Calls : OnNet(d) => call'[d].nonce = call[d].nonce /\ call'[d].svc = call[d].svc
    BY <1>2 DEF OnNet
  <1>9. ASSUME NEW d \in Calls, call'[d].pc \in {"signing", "sending"}
        PROVE  /\ call'[d].nonce <= Frontier' /\ cache'[call'[d].svc] = call'[d].nonce + 1
               /\ \A e \in Calls : OnNet(e)' /\ SameService(d, e)' => call'[e].nonce < call'[d].nonce
    <2>1. d = c /\ call'[d] = k
      BY <1>1, <1>5, <1>9
    <2> QED
      BY <1>3, <1>7, <1>8, <1>9, <2>1 DEF SameService
  <1>10. ASSUME NEW s \in Services, \A d \in Calls : Holding(d)' => call'[d].svc # s
         PROVE  Remembers(s)'
    BY <1>1, <1>3, <1>10 DEF Remembers, Holding
  <1>11. Turns'
    BY <1>1, <1>3, <1>5, <1>6, <1>7, <1>8, <1>9, <1>10 DEF Turns
  <1> QED
    BY <1>3, <1>4, <1>11

\* No step of calls that take turns breaks it, whatever fails.
LEMMA StepSequential ==
    ASSUME Sequential, WType, PoolRuns, Turns, Past, [Next]_vars
    PROVE  WType' /\ PoolRuns' /\ Turns' /\ Past'
  <1>0. /\ PendingCount = Frontier /\ Frontier \in Nat /\ WType' /\ mined \in Nat
        /\ \A c \in Calls : CallOK(call[c], tx[c]) /\ call[c] \in CallType
        /\ cache \in [Services -> Nat \union {None}]
    BY CountsToFrontier, TypeStep DEF WType, CallOK
  <1>1. \A c, d \in InFlight : c = d
    BY DEF Turns
  <1>2. ASSUME NEW c \in InFlight, NEW s \in Services, ~Holding(c) \/ call[c].svc # s
        PROVE  cache[s] = None \/ cache[s] <= Frontier
    <2>1. \A d \in Calls : Holding(d) => d = c
      BY <1>1, <1>2 DEF InFlight, Holding
    <2> QED BY <1>2, <2>1 DEF Turns, Remembers
  <1>3. ASSUME NEW c \in InFlight, ResyncNonce(c)
        PROVE  \A s \in Services : cache'[s] = IF s = call[c].svc THEN None ELSE cache[s]
    BY <1>0, <1>3 DEF ResyncNonce, CallOK, InFlight
  \* The network knows of no nonce from the next one on.
  <1>n. \A d \in Calls : OnNet(d) => call[d].nonce \in 0 .. Frontier - 1
    <2>1. Cardinality(Pool) \in Nat
      BY PoolFinite
    <2> QED BY <1>0, <2>1 DEF OnNet, PoolRuns, Past, Pool, Frontier
  <1>4. ASSUME NEW c \in Calls, NEW s \in Services, Begin(c, s) PROVE PoolRuns' /\ Turns' /\ Past'
    <2> DEFINE k == [call[c] EXCEPT !.pc = "preflight", !.svc = s]
    <2>1. InFlight = {}
      <3>1. Cardinality(InFlight) < 1 /\ InFlight \subseteq Calls
        BY <1>4 DEF Begin, Sequential, InFlight
      <3>2. IsFiniteSet(InFlight)
        BY <3>1, WalletConstants, FS_Subset
      <3> QED
        BY <3>1, <3>2, FS_CardinalityType, FS_EmptySet
    <2>2. k.pc = "preflight" /\ k.nonce = call[c].nonce /\ tx[c] = "none"
      BY <1>0, <1>4 DEF Begin, CallOK, CallType, Unposted, Unbound
    <2>3. call' = [call EXCEPT ![c] = k] /\ UNCHANGED <<cache, tx, mined>>
      BY <1>4 DEF Begin
    <2>4. \A t \in Services : cache'[t] = None \/ cache'[t] <= Frontier
      <3>1. \A d \in Calls : ~Holding(d)
        BY <2>1 DEF InFlight, Holding
      <3> QED BY <2>3, <3>1 DEF Turns, Remembers
    <2>5. \A t \in Services, d \in Calls : OnNet(d) /\ call[d].svc = t /\ cache'[t] # None => call[d].nonce < cache'[t]
      BY <2>3 DEF Turns
    <2> HIDE DEF k
    <2> QED BY <2>1, <2>2, <2>3, <2>4, <2>5, TurnTaken
  <1>5. ASSUME NEW c \in Calls, NEW pc \in {"queued", "sending", "failing"}, Goto(c, pc), c \in InFlight,
               UNCHANGED <<cache, tx, mined>>,
               pc = "queued" => call[c].pc = "preflight", pc = "sending" => call[c].pc = "signing"
        PROVE  PoolRuns' /\ Turns' /\ Past'
    <2>1. PICK k \in CallType : /\ call' = [call EXCEPT ![c] = k]
                                /\ k.pc = pc /\ k.nonce = call[c].nonce /\ k.svc = call[c].svc
      BY <1>5, GotoMakes DEF Phases
    <2>2. pc = "sending" => /\ k.nonce <= Frontier /\ cache'[k.svc] = k.nonce + 1
                            /\ \A d \in Calls : OnNet(d) /\ call[d].svc = k.svc => d # c /\ call[d].nonce < k.nonce
      <3> SUFFICES ASSUME pc = "sending", NEW d \in Calls, OnNet(d), call[d].svc = k.svc PROVE d # c
        BY <1>5, <2>1 DEF Turns, SameService
      <3> QED BY <1>0, <1>5 DEF CallOK, Unposted, OnNet
    <2>3. \A s \in Services : pc = "queued" \/ k.svc # s => cache'[s] = None \/ cache'[s] <= Frontier
      BY <1>2, <1>5, <2>1 DEF Holding
    <2>4. \A s \in Services, d \in Calls : OnNet(d) /\ call[d].svc = s /\ cache'[s] # None => call[d].nonce < cache'[s]
      BY <1>5 DEF Turns
    <2> QED
      BY <1>1, <1>5, <2>1, <2>2, <2>3, <2>4, TurnTaken
  <1>6. ASSUME NEW c \in Calls, NEW status \in Statuses, Return(c, status),
               c \in InFlight, UNCHANGED <<tx, mined>>,
               ResyncNonce(c) \/ (UNCHANGED cache /\ ~Holding(c))
        PROVE  PoolRuns' /\ Turns' /\ Past'
    <2>1. PICK k \in CallType : /\ call' = [call EXCEPT ![c] = k]
                                /\ k.pc = "done" /\ k.nonce = call[c].nonce /\ k.svc = call[c].svc
      BY <1>6, ReturnMakes
    <2>2. \A s \in Services : cache'[s] = None \/ cache'[s] <= Frontier
      BY <1>2, <1>3, <1>6
    <2>3. \A s \in Services, d \in Calls : OnNet(d) /\ call[d].svc = s /\ cache'[s] # None => call[d].nonce < cache'[s]
      <3>1. CASE ResyncNonce(c)
        <4>1. cache' = [cache EXCEPT ![call[c].svc] = None] /\ call[c].svc \in Services
          BY <1>0, <1>6, <3>1 DEF ResyncNonce, InFlight, CallOK
        <4>2. \A s \in Services : cache'[s] # None => cache'[s] = cache[s]
          BY <1>0, <4>1
        <4> QED BY <4>2 DEF Turns
      <3>2. CASE UNCHANGED cache
        BY <3>2 DEF Turns
      <3> QED BY <1>6, <3>1, <3>2
    <2> QED
      BY <1>1, <1>6, <2>1, <2>2, <2>3, TurnTaken
  <1>7. ASSUME NEW c \in Calls, c \in InFlight, call[c].pc \in {"queued", "counting"}, NEW n \in Nat,
               Allocate(c, n), UNCHANGED <<tx, mined>>, n <= Frontier,
               \A d \in Calls : OnNet(d) /\ call[d].svc = call[c].svc => call[d].nonce < n
        PROVE  PoolRuns' /\ Turns' /\ Past'
    <2>1. call[c].svc \in Services /\ tx[c] = "none" /\ ~Holding(c)
      BY <1>0, <1>7 DEF CallOK, Unposted, Unbound, Holding
    <2>2. PICK k \in CallType : /\ call' = [call EXCEPT ![c] = k]
                                /\ k.pc = "signing" /\ k.nonce = n /\ k.svc = call[c].svc
      BY <1>7, <2>1, AllocateMakes
    <2>3. cache' = [cache EXCEPT ![call[c].svc] = n + 1] /\ cache'[call[c].svc] = n + 1
      BY <1>0, <1>7, <2>1 DEF Allocate
    <2>4. \A s \in Services : k.svc # s => cache'[s] = None \/ cache'[s] <= Frontier
      <3>1. \A s \in Services : k.svc # s => cache'[s] = cache[s]
        BY <1>0, <2>2, <2>3
      <3> QED BY <1>2, <1>7, <2>1, <3>1
    <2>5. \A s \in Services, d \in Calls : OnNet(d) /\ call[d].svc = s /\ cache'[s] # None => call[d].nonce < cache'[s]
      <3> SUFFICES ASSUME NEW s \in Services, NEW d \in Calls, OnNet(d), call[d].svc = s, cache'[s] # None
                   PROVE  call[d].nonce < cache'[s]
        OBVIOUS
      <3>1. CASE s = call[c].svc
        BY <1>7, <1>n, <2>3, <3>1
      <3>2. CASE s # call[c].svc
        <4>1. cache'[s] = cache[s]
          BY <1>0, <2>3, <3>2
        <4> QED BY <4>1 DEF Turns
      <3> QED BY <3>1, <3>2
    <2>6. \A d \in Calls : OnNet(d) /\ call[d].svc = k.svc => d # c /\ call[d].nonce < k.nonce
      BY <1>7, <2>1, <2>2 DEF OnNet
    <2> QED
      BY <1>1, <1>7, <2>1, <2>2, <2>3, <2>4, <2>5, <2>6, TurnTaken
  <1>8. ASSUME NEW c \in Calls, AskCount(c) PROVE PoolRuns' /\ Turns' /\ Past'
    <2> DEFINE k == [call[c] EXCEPT !.pc = "counting", !.seen = FetchPending]
    <2>1. k.pc = "counting" /\ k.nonce = call[c].nonce /\ k.seen = Frontier /\ k.svc = call[c].svc
      BY <1>0 DEF CallType, FetchPending
    <2>2. /\ call' = [call EXCEPT ![c] = k] /\ UNCHANGED <<cache, tx, mined>>
          /\ c \in InFlight /\ ~Holding(c)
      BY <1>8 DEF AskCount, InFlight, Holding
    <2>3. \A s \in Services : cache'[s] = None \/ cache'[s] <= Frontier
      BY <1>2, <2>2
    <2>4. \A s \in Services, d \in Calls : OnNet(d) /\ call[d].svc = s /\ cache'[s] # None => call[d].nonce < cache'[s]
      BY <2>2 DEF Turns
    <2> HIDE DEF k
    <2> QED BY <1>1, <2>1, <2>2, <2>3, <2>4, TurnTaken
  <1>9. ASSUME NEW c \in Calls, AllocateCached(c) PROVE PoolRuns' /\ Turns' /\ Past'
    <2>1. c \in InFlight /\ ~Holding(c) /\ call[c].svc \in Services /\ cache[call[c].svc] # None
      BY <1>0, <1>9 DEF AllocateCached, InFlight, Holding, CallOK
    <2>2. cache[call[c].svc] <= Frontier /\ cache[call[c].svc] \in Nat
      BY <1>0, <1>2, <2>1
    <2>3. \A d \in Calls : OnNet(d) /\ call[d].svc = call[c].svc => call[d].nonce < cache[call[c].svc]
      BY <2>1 DEF Turns
    <2> QED
      BY <1>7, <1>9, <2>1, <2>2, <2>3 DEF AllocateCached
  <1>10. ASSUME NEW c \in Calls, AllocateCounted(c) PROVE PoolRuns' /\ Turns' /\ Past'
    <2>1. c \in InFlight /\ call[c].seen = Frontier
      BY <1>10 DEF AllocateCounted, InFlight, Turns
    <2>2. \A d \in Calls : OnNet(d) => call[d].nonce < Frontier
      BY <1>0, <1>n
    <2> QED
      BY <1>0, <1>7, <1>10, <2>1, <2>2 DEF AllocateCounted
  <1>11. ASSUME NEW c \in Calls, CountFails(c) PROVE PoolRuns' /\ Turns' /\ Past'
    <2>1. c \in InFlight /\ ~Holding(c) /\ Return(c, "aborted") /\ UNCHANGED <<cache, tx, mined>>
      BY <1>11 DEF CountFails, InFlight, Holding
    <2> QED
      BY <1>6, <2>1
  <1>12. ASSUME NEW c \in Calls, Refuse(c) \/ SignFails(c) \/ BroadcastAborts(c) \/ GiveUp(c) \/ PollThrows(c)
         PROVE  PoolRuns' /\ Turns' /\ Past'
    <2>1. c \in InFlight /\ UNCHANGED <<tx, mined>> /\ (ResyncNonce(c) \/ (UNCHANGED cache /\ ~Holding(c)))
      BY <1>12 DEF Refuse, SignFails, BroadcastAborts, GiveUp, PollThrows, InFlight, Holding
    <2> QED
      BY <1>6, <1>12, <2>1 DEF Refuse, SignFails, BroadcastAborts, GiveUp, PollThrows
  <1>13. ASSUME NEW c \in Calls, Receipt(c) PROVE PoolRuns' /\ Turns' /\ Past'
    <2>1. ReceiptStatus(tx[c]) \in {"filled", "reverted"}
      BY DEF ReceiptStatus
    <2>2. /\ c \in InFlight /\ UNCHANGED <<tx, mined>> /\ Return(c, ReceiptStatus(tx[c]))
          /\ ResyncNonce(c) \/ (UNCHANGED cache /\ ~Holding(c))
      BY <1>13 DEF Receipt, InFlight, Holding
    <2> QED
      BY <1>6, <2>1, <2>2
  <1>14. ASSUME NEW c \in Calls, Enqueue(c) \/ Sign(c) \/ BroadcastFails(c) PROVE PoolRuns' /\ Turns' /\ Past'
    <2>1. c \in InFlight /\ UNCHANGED <<cache, tx, mined>>
      BY <1>14 DEF Enqueue, Sign, BroadcastFails, InFlight
    <2> QED
      BY <1>5, <1>14, <2>1 DEF Enqueue, Sign, BroadcastFails
  <1>15. ASSUME NEW c \in Calls, Broadcast(c) PROVE PoolRuns' /\ Turns' /\ Past'
    <2> DEFINE rivals == {d \in Pool : call[d].nonce = call[c].nonce}
    <2>1. /\ call[c].pc = "sending" /\ tx[c] = "none" /\ UNCHANGED <<mined, cache>>
          /\ call[c].nonce \in mined .. Frontier /\ call[c].svc \in Services
          /\ cache[call[c].svc] = call[c].nonce + 1
          /\ \A d \in Calls : OnNet(d) /\ SameService(c, d) => call[d].nonce < call[c].nonce
      BY <1>0, <1>15 DEF Broadcast, Turns, CallOK, Unposted, Unbound
    <2>2. /\ c \notin Pool
          /\ \A d \in Calls : tx'[d] = IF d = c THEN "pool" ELSE IF d \in rivals THEN "replaced" ELSE tx[d]
      BY <1>15, <2>1 DEF Broadcast, Pool
    <2>3. Pool' = (Pool \ rivals) \cup {c}
      BY <2>1, <2>2 DEF Pool
    <2>4. PICK pc \in {"tracking", "failing"} : Goto(c, pc)
      BY <1>15 DEF Broadcast
    <2>5. PICK k \in CallType : /\ call' = [call EXCEPT ![c] = k]
                                /\ k.pc = pc /\ k.nonce = call[c].nonce /\ k.svc = call[c].svc
      BY <2>4, GotoMakes DEF Phases
    <2>6. \A d \in Calls : call'[d] = IF d = c THEN k ELSE call[d]
      BY <2>5 DEF WType
    <2>7. \A d \in Calls : call'[d].nonce = call[d].nonce /\ call'[d].svc = call[d].svc
      BY <2>5, <2>6
    <2>8. PoolRuns' /\ Frontier' \in Nat /\ Frontier <= Frontier' /\ call[c].nonce < Frontier'
      <3>1. CASE call[c].nonce = Frontier
        <4>1. rivals = {}
          BY <1>0, <3>1 DEF PoolRuns
        <4>2. \A d \in Pool : call'[d].nonce = call[d].nonce
          BY <2>7 DEF Pool
        <4> QED
          BY <1>0, <2>1, <2>2, <2>3, <2>7, <3>1, <4>1, <4>2, PoolTakes
      <3>2. CASE call[c].nonce # Frontier
        <4>1. call[c].nonce \in mined .. Frontier - 1
          BY <1>0, <2>1, <3>2
        <4>2. PICK r \in Pool : call[r].nonce = call[c].nonce
          BY <4>1 DEF PoolRuns
        <4>3. rivals = {r}
          BY <4>2 DEF PoolRuns
        <4>4. \A d \in Pool : call'[d].nonce = call[d].nonce
          BY <2>7 DEF Pool
        <4>5. PoolRuns' /\ Frontier' = Frontier
          <5>1. call'[c].nonce = call[r].nonce /\ mined' = mined /\ Pool' = (Pool \ {r}) \cup {c}
            BY <2>1, <2>3, <2>7, <4>2, <4>3
          <5> HIDE DEF rivals
          <5> QED BY <1>0, <2>2, <4>4, <5>1, PoolReplaces
        <4> QED BY <1>0, <4>1, <4>5
      <3> QED BY <3>1, <3>2
    <2>9. \A d \in Calls \ {c} : OnNet(d)' => OnNet(d) /\ tx'[d] = tx[d]
      BY <2>2 DEF OnNet
    <2>10. Past'
      BY <2>1, <2>2, <2>7, <2>9 DEF Past
    <2>11. \A d \in Calls \ {c} : call'[d].pc \in {"new", "done", "dead"}
      <3>1. c \in InFlight
        BY <2>1 DEF InFlight
      <3> QED BY <1>1, <2>6, <3>1 DEF InFlight
    <2>12. \A d, e \in InFlight' : d = e
      BY <2>11 DEF InFlight
    <2>13. ASSUME NEW s \in Services PROVE Remembers(s)'
      <3>1. CASE s = call[c].svc
        BY <1>0, <2>1, <2>8, <3>1 DEF Remembers
      <3>2. CASE s # call[c].svc
        <4>1. c \in InFlight
          BY <2>1 DEF InFlight
        <4>2. cache[s] = None \/ (cache[s] \in Nat /\ cache[s] <= Frontier)
          BY <1>0, <1>2, <3>2, <4>1
        <4> QED BY <1>0, <2>1, <2>8, <4>2 DEF Remembers
      <3> QED BY <3>1, <3>2
    <2>14. ASSUME NEW s \in Services, NEW d \in Calls, OnNet(d)', call'[d].svc = s, cache'[s] # None
           PROVE  call'[d].nonce < cache'[s]
      <3>1. CASE d = c
        <4>1. PICK n \in Int : n = call[c].nonce
          BY <2>1
        <4>2. s = call[c].svc /\ call'[d].nonce = n /\ cache'[s] = n + 1
          BY <2>1, <2>7, <2>14, <3>1, <4>1
        <4> QED BY <4>2
      <3>2. CASE d # c
        BY <2>1, <2>7, <2>9, <2>14, <3>2 DEF Turns
      <3> QED BY <3>1, <3>2
    <2>15. call'[c].pc \notin {"counting", "signing", "sending"}
      BY <2>5, <2>6
    <2>16. \A d \in Calls : call'[d].pc \notin {"counting", "signing", "sending"}
      BY <2>11, <2>15
    <2>17. Turns'
      BY <2>12, <2>13, <2>14, <2>16 DEF Turns
    <2> QED
      BY <2>8, <2>10, <2>17
  <1>16. ASSUME NEW c \in Calls, Mine(c) PROVE PoolRuns' /\ Turns' /\ Past'
    <2>1. /\ c \in Pool /\ call[c].nonce = mined /\ mined' = mined + 1 /\ UNCHANGED <<call, cache>>
          /\ \A d \in Calls \ {c} : tx'[d] = tx[d]
          /\ tx'[c] \in {"success", "reverted"}
      BY <1>16 DEF Mine, WType, Pool
    <2>2. Pool' = Pool \ {c}
      BY <2>1 DEF Pool
    <2>3. PoolRuns' /\ Frontier' = Frontier
      BY <1>0, <2>1, <2>2, PoolMines
    <2>4. \A d \in Calls : OnNet(d)' <=> OnNet(d)
      BY <2>1 DEF OnNet, Pool
    <2>5. /\ \A d \in Calls : Holding(d)' <=> Holding(d)
          /\ \A s \in Services : Remembers(s)' <=> Remembers(s)
          /\ \A d, e \in Calls : SameService(d, e)' <=> SameService(d, e)
          /\ InFlight' = InFlight
      BY <2>1, <2>3 DEF InFlight, Holding, Remembers, SameService
    <2>6. Turns'
      BY <2>1, <2>3, <2>4, <2>5 DEF Turns
    <2>7. Past'
      BY <1>0, <2>1 DEF Past
    <2> QED
      BY <2>3, <2>6, <2>7
  <1>17. CASE Crash
    <2>1. /\ \A c \in Calls : call'[c].nonce = call[c].nonce /\ call'[c].pc \in {"new", "done", "dead"}
          /\ cache' = [s \in Services |-> None]
          /\ UNCHANGED <<tx, mined>>
      BY <1>0, <1>17 DEF Crash, InFlight, CallOK, CallType
    <2>2. PoolRuns' /\ Frontier' = Frontier
      BY <2>1, PoolKeeps DEF Pool
    <2>4. Turns'
      BY <2>1 DEF Turns, InFlight, Holding, Remembers
    <2>5. Past'
      BY <2>1 DEF Past
    <2> QED
      BY <1>0, <2>2, <2>4, <2>5
  <1>18. CASE UNCHANGED vars
    <2>1. Frontier' = Frontier /\ PoolRuns'
      BY <1>18, PoolKeeps DEF vars
    <2> QED
      BY <1>0, <1>18, <2>1 DEF vars, Turns, InFlight, Holding, OnNet, Remembers, SameService, Past
  <1> QED
    BY <1>0, <1>4, <1>8, <1>9, <1>10, <1>11, <1>12, <1>13, <1>14, <1>15, <1>16, <1>17, <1>18 DEF Next, CallStep

-----------------------------------------------------------------------------
(* Calls that overlap.                                                      *)

Bound(c) == call[c].nonce # None

\* What a call has in each phase: a service from the start, a nonce from signing on, and a
\* status when it is done.
PhaseOK(k) ==
    /\ k.pc \in Unbound => k.nonce = None
    /\ k.pc \in {"signing", "sending", "failing", "tracking"} => k.nonce # None
    /\ k.pc # "done" => k.status = None
    /\ k.pc # "new" => k.svc \in Services

\* A nonce of service s belongs to one of its calls; what s remembers lies beyond all of
\* them, and while it remembers nothing none was given.
Given(s) ==
    /\ \A c, d \in Calls : call[c].svc = s /\ call[d].svc = s /\ Bound(c) /\ call[c].nonce = call[d].nonce => c = d
    /\ \A c \in Calls : call[c].svc = s /\ Bound(c) => cache[s] # None /\ call[c].nonce < cache[s]
    /\ \A c \in Calls : call[c].svc = s /\ call[c].pc = "counting" => cache[s] = None

Alive == \A c \in Calls : PhaseOK(call[c])

GInv == WType /\ (crashes = 0 => Alive /\ \A s \in Services : ~Resynced(s) => Given(s))

\* The invariant of overlapping calls holds at the start.
LEMMA GatedStart == Init => GInv
  <1> SUFFICES ASSUME Init PROVE WType /\ Alive /\ \A s \in Services : Given(s)
    BY DEF GInv
  <1> USE DEF Init
  <1>1. \A c \in Calls : call[c] = NewCall /\ tx[c] = "none"
    OBVIOUS
  <1>2. NewCall \in CallType /\ NewCall.pc = "new" /\ NewCall.nonce = None /\ NewCall.status = None
    BY DEF NewCall, CallType, Phases
  <1>3. WType
    <2>1. \A c \in Calls : CallOK(call[c], tx[c])
      BY <1>1, <1>2 DEF CallOK
    <2>2. <<>> \in Seq(Calls)
      OBVIOUS
    <2> QED
      BY <1>1, <1>2, <2>1, <2>2 DEF WType
  <1>4. Alive /\ \A s \in Services : Given(s)
    BY <1>1, <1>2 DEF Alive, PhaseOK, Given, Bound
  <1> QED
    BY <1>3, <1>4

\* A service resyncs for good: the call that made it stays done.
LEMMA ResyncedStays ==
    ASSUME WType, Alive, NEW c \in Calls, call[c].pc # "done", NEW k, call' = [call EXCEPT ![c] = k],
           NEW s, Resynced(s)
    PROVE  Resynced(s)'
  <1>1. PICK e \in Calls : /\ call[e].svc = s /\ call[e].nonce # None
                           /\ call[e].status \in {"aborted", "reverted", "stuck"}
    BY DEF Resynced
  <1>2. e # c
    <2>1. call[c].status = None
      BY DEF Alive, PhaseOK
    <2> QED BY <1>1, <2>1, WalletConstants
  <1>3. call'[e] = call[e]
    BY <1>2 DEF WType
  <1> QED BY <1>1, <1>3 DEF Resynced

\* A call moves, and neither its nonce nor what service s remembers does.
LEMMA GivenKeeps ==
    ASSUME NEW s, WType, Given(s), NEW c \in Calls, NEW k, call' = [call EXCEPT ![c] = k],
           k.nonce = call[c].nonce, k.svc = call[c].svc \/ k.nonce = None,
           cache'[s] = cache[s], k.pc = "counting" /\ k.svc = s => cache[s] = None
    PROVE  Given(s)'
  <1>1. \A d \in Calls : call'[d] = IF d = c THEN k ELSE call[d]
    BY DEF WType
  <1>2. \A d \in Calls : /\ call'[d].nonce = call[d].nonce
                         /\ Bound(d) => call'[d].svc = call[d].svc
    BY <1>1 DEF Bound
  <1>3. ASSUME NEW d \in Calls, NEW e \in Calls, call'[d].svc = s, call'[e].svc = s, Bound(d)',
               call'[d].nonce = call'[e].nonce
        PROVE  d = e
    BY <1>2, <1>3 DEF Given, Bound
  <1>4. \A d \in Calls : call'[d].svc = s /\ Bound(d)' => cache'[s] # None /\ call'[d].nonce < cache'[s]
    BY <1>2 DEF Given, Bound
  <1>5. \A d \in Calls : call'[d].svc = s /\ call'[d].pc = "counting" => cache'[s] = None
    BY <1>1 DEF Given
  <1> QED
    BY <1>3, <1>4, <1>5 DEF Given

\* No step of overlapping calls breaks it, as long as the process lives.
LEMMA StepGated ==
    ASSUME WType, Alive, \A s \in Services : ~Resynced(s) => Given(s), [Next]_vars, crashes' = crashes
    PROVE  Alive' /\ \A s \in Services : ~Resynced(s)' => Given(s)'
  <1>0. /\ cache \in [Services -> Nat \union {None}] /\ crashes \in Nat
        /\ \A c \in Calls : call[c] \in CallType /\ CallOK(call[c], tx[c]) /\ PhaseOK(call[c])
    BY DEF WType, CallOK, Alive
  <1> DEFINE Good == Alive' /\ \A s \in Services : ~Resynced(s)' => Given(s)'
  \* A call takes a step that gives no nonce.
  <1>1. ASSUME NEW c \in Calls, call[c].pc # "done", NEW k, call' = [call EXCEPT ![c] = k], PhaseOK(k),
               k.nonce = call[c].nonce, k.svc = call[c].svc \/ k.nonce = None,
               \A s \in Services : ~Resynced(s)' => cache'[s] = cache[s],
               \A s \in Services : k.pc = "counting" /\ k.svc = s => cache[s] = None
        PROVE  Good
    <2>1. \A d \in Calls : call'[d] = IF d = c THEN k ELSE call[d]
      BY <1>1 DEF WType
    <2>2. Alive'
      BY <1>0, <1>1, <2>1 DEF Alive
    <2>3. ASSUME NEW s \in Services, ~Resynced(s)' PROVE Given(s)'
      <3>1. ~Resynced(s)
        BY <1>1, <2>3, ResyncedStays
      <3> QED
        BY <1>1, <2>3, <3>1, GivenKeeps
    <2> QED BY <2>2, <2>3
  <1>2. ASSUME NEW c \in Calls, NEW s \in Services, Begin(c, s) PROVE Good
    <2> DEFINE k == [call[c] EXCEPT !.pc = "preflight", !.svc = s]
    <2>1. /\ call[c].pc = "new" /\ k.pc = "preflight" /\ k.nonce = call[c].nonce /\ k.status = call[c].status
          /\ k.svc \in Services
          /\ call' = [call EXCEPT ![c] = k] /\ UNCHANGED cache
      BY <1>0, <1>2 DEF Begin, CallType
    <2> HIDE DEF k
    <2>2. PhaseOK(k) /\ k.nonce = None
      BY <1>0, <2>1 DEF PhaseOK, Unbound
    <2> QED BY <1>1, <2>1, <2>2
  <1>3. ASSUME NEW c \in Calls, NEW pc \in {"queued", "sending", "failing", "tracking"}, Goto(c, pc), UNCHANGED cache,
               pc = "queued" => call[c].pc = "preflight",
               pc # "queued" => call[c].pc \in {"signing", "sending"}
        PROVE  Good
    <2>1. PICK k \in CallType : /\ call' = [call EXCEPT ![c] = k]
                                /\ k.pc = pc /\ k.nonce = call[c].nonce /\ k.svc = call[c].svc
                                /\ k.status = call[c].status
      BY <1>3, GotoMakes DEF Phases
    <2>2. PhaseOK(k) /\ call[c].pc # "done"
      BY <1>0, <1>3, <2>1 DEF PhaseOK, Unbound
    <2> QED
      BY <1>1, <1>3, <2>1, <2>2
  <1>4. ASSUME NEW c \in Calls, NEW status \in Statuses, Return(c, status), call[c].pc \notin {"new", "done", "dead"},
               \/ UNCHANGED cache
               \/ ResyncNonce(c) /\ status \in {"aborted", "reverted", "stuck"}
                                 /\ call[c].pc \in {"signing", "sending", "failing", "tracking"}
        PROVE  Good
    <2> DEFINE k == [call[c] EXCEPT !.pc = "done", !.status = status]
    <2>1. /\ call' = [call EXCEPT ![c] = k] /\ k.pc = "done" /\ k.nonce = call[c].nonce /\ k.svc = call[c].svc
          /\ k.status = status
      BY <1>0, <1>4 DEF Return, CallType
    <2> HIDE DEF k
    <2>2. PhaseOK(k)
      BY <1>0, <1>4, <2>1 DEF PhaseOK, Unbound
    <2>3. ASSUME NEW s \in Services, ~Resynced(s)' PROVE cache'[s] = cache[s]
      <3> SUFFICES ASSUME ResyncNonce(c), status \in {"aborted", "reverted", "stuck"},
                          call[c].pc \in {"signing", "sending", "failing", "tracking"}
                   PROVE  cache'[s] = cache[s]
        BY <1>4
      <3>1. call'[c] = k /\ k.nonce # None
        BY <1>0, <2>1 DEF WType, PhaseOK
      <3>2. s # call[c].svc
        BY <2>1, <2>3, <3>1 DEF Resynced
      <3> QED BY <1>0, <3>2 DEF ResyncNonce
    <2> QED
      BY <1>1, <1>4, <2>1, <2>2, <2>3
  <1>5. ASSUME NEW c \in Calls, AskCount(c) PROVE Good
    <2> DEFINE k == [call[c] EXCEPT !.pc = "counting", !.seen = FetchPending]
    <2>1. /\ call[c].pc = "queued" /\ k.pc = "counting" /\ k.nonce = call[c].nonce /\ k.svc = call[c].svc
          /\ k.status = call[c].status
          /\ call' = [call EXCEPT ![c] = k] /\ UNCHANGED cache /\ cache[call[c].svc] = None
      BY <1>0, <1>5 DEF AskCount, CallType
    <2> HIDE DEF k
    <2>2. PhaseOK(k)
      BY <1>0, <2>1 DEF PhaseOK, Unbound
    <2> QED BY <1>1, <2>1, <2>2
  \* A nonce is given: for its service it is a new one.
  <1>6. ASSUME NEW c \in Calls, call[c].pc \in {"queued", "counting"}, AtHead(c), NEW n \in Nat, Allocate(c, n),
               \A s \in Services : /\ Given(s) /\ call[c].svc = s
                                   => \A d \in Calls : call[d].svc = s /\ Bound(d) => call[d].nonce < n
        PROVE  Good
    <2> DEFINE k == [call[c] EXCEPT !.pc = "signing", !.nonce = n]
    <2>1. /\ call' = [call EXCEPT ![c] = k] /\ k.pc = "signing" /\ k.nonce = n /\ k.svc = call[c].svc
          /\ k.status = call[c].status /\ call[c].nonce = None /\ call[c].svc \in Services
          /\ cache' = [cache EXCEPT ![call[c].svc] = n + 1] /\ n # None
      BY <1>0, <1>6, WalletConstants DEF Allocate, CallType, PhaseOK, Unbound, CallOK
    <2> HIDE DEF k
    <2>2. PhaseOK(k)
      BY <1>0, <1>6, <2>1 DEF PhaseOK, Unbound
    <2>3. \A d \in Calls : call'[d] = IF d = c THEN k ELSE call[d]
      BY <2>1 DEF WType
    <2>4. Alive'
      BY <1>0, <2>2, <2>3 DEF Alive
    <2>5. ASSUME NEW s \in Services, ~Resynced(s)' PROVE Given(s)'
      <3>1. Given(s)
        BY <1>6, <2>1, <2>5, ResyncedStays
      <3>2. CASE s = call[c].svc
        <4>1. /\ cache'[s] = n + 1 /\ n + 1 # None
              /\ \A d \in Calls \ {c} : call[d].svc = s /\ Bound(d) => call[d].nonce < n
          BY <1>0, <1>6, <2>1, <3>1, <3>2, WalletConstants
        <4>2. \A d \in Calls : call'[d].pc = "counting" => call'[d].svc # s
          <5> SUFFICES ASSUME NEW d \in Calls, d # c, call[d].pc = "counting", call[d].svc = s PROVE FALSE
            BY <2>1, <2>3
          <5>1. AtHead(d)
            BY DEF WType
          <5> QED BY <1>6, <3>2, <5>1 DEF AtHead
        <4>3. \A d \in Calls : call'[d].svc = s /\ Bound(d)' => cache'[s] # None /\ call'[d].nonce < cache'[s]
          <5> SUFFICES ASSUME NEW d \in Calls, call'[d].svc = s, Bound(d)' PROVE call'[d].nonce < n + 1
            BY <4>1
          <5>1. CASE d = c
            BY <2>1, <2>3, <5>1
          <5>2. CASE d # c
            <6>1. call'[d] = call[d] /\ call[d].nonce \in Nat
              BY <1>0, <2>3, <5>2 DEF Bound, CallType
            <6> QED BY <4>1, <5>2, <6>1 DEF Bound
          <5> QED BY <5>1, <5>2
        <4>4. ASSUME NEW d \in Calls, NEW e \in Calls, call'[d].svc = s, call'[e].svc = s, Bound(d)',
                     call'[d].nonce = call'[e].nonce
              PROVE  d = e
          <5>1. CASE d # c /\ e # c
            BY <2>3, <3>1, <4>4, <5>1 DEF Given, Bound
          <5>2. ASSUME NEW f \in Calls, f # c, call'[f].svc = s, call'[f].nonce = n PROVE FALSE
            <6>1. call[f].nonce = n /\ call[f].svc = s
              BY <2>3, <5>2
            <6> QED BY <2>1, <4>1, <5>2, <6>1 DEF Bound
          <5> QED BY <2>1, <2>3, <4>4, <5>1, <5>2
        <4> QED BY <4>2, <4>3, <4>4 DEF Given
      <3>3. CASE s # call[c].svc
        <4>1. cache'[s] = cache[s]
          BY <1>0, <2>1, <3>3
        <4>2. \A d \in Calls : call'[d].svc = s => call'[d] = call[d] /\ call[d].svc = s
          BY <2>1, <2>3, <3>3
        <4> QED BY <3>1, <4>1, <4>2 DEF Given, Bound
      <3> QED BY <3>2, <3>3
    <2> QED BY <2>4, <2>5
  <1>7. ASSUME NEW c \in Calls, AllocateCached(c) PROVE Good
    <2>1. cache[call[c].svc] \in Nat
      BY <1>0, <1>7 DEF AllocateCached, CallOK
    <2>2. \A s \in Services : Given(s) /\ call[c].svc = s
                              => \A d \in Calls : call[d].svc = s /\ Bound(d) => call[d].nonce < cache[call[c].svc]
      BY DEF Given
    <2> QED
      BY <1>6, <1>7, <2>1, <2>2 DEF AllocateCached
  <1>8. ASSUME NEW c \in Calls, AllocateCounted(c) PROVE Good
    <2>1. call[c].seen \in Nat /\ AtHead(c) /\ call[c].pc = "counting"
      BY <1>0, <1>8 DEF AllocateCounted, CallOK, WType
    <2>2. \A s \in Services : Given(s) /\ call[c].svc = s
                              => \A d \in Calls : ~(call[d].svc = s /\ Bound(d))
      BY <2>1 DEF Given
    <2> QED
      BY <1>6, <1>8, <2>1, <2>2 DEF AllocateCounted
  <1>9. ASSUME NEW c \in Calls, Refuse(c) \/ CountFails(c) \/ PollThrows(c) PROVE Good
    BY <1>4, <1>9 DEF Refuse, CountFails, PollThrows
  <1>10. ASSUME NEW c \in Calls, SignFails(c) \/ BroadcastAborts(c) \/ GiveUp(c) PROVE Good
    BY <1>4, <1>10 DEF SignFails, BroadcastAborts, GiveUp
  <1>11. ASSUME NEW c \in Calls, Receipt(c) PROVE Good
    <2>1. ReceiptStatus(tx[c]) \in {"filled", "reverted"}
      BY DEF ReceiptStatus
    <2>2. /\ call[c].pc = "tracking" /\ Return(c, ReceiptStatus(tx[c]))
          /\ UNCHANGED cache \/ (ResyncNonce(c) /\ ReceiptStatus(tx[c]) \in {"aborted", "reverted", "stuck"})
      BY <1>11, <2>1 DEF Receipt
    <2> QED
      BY <1>4, <2>1, <2>2
  <1>12. ASSUME NEW c \in Calls, Enqueue(c) \/ Sign(c) \/ Broadcast(c) \/ BroadcastFails(c) PROVE Good
    BY <1>3, <1>12 DEF Enqueue, Sign, Broadcast, BroadcastFails
  <1>13. ASSUME UNCHANGED <<call, cache>> PROVE Good
    BY <1>13 DEF Alive, Given, Bound, Resynced
  <1>14. ASSUME Crash PROVE FALSE
    BY <1>0, <1>14 DEF Crash
  <1>15. ASSUME NEW c \in Calls, Mine(c) PROVE Good
    BY <1>13, <1>15 DEF Mine
  <1>16. CASE UNCHANGED vars
    BY <1>13, <1>16 DEF vars
  <1> QED
    BY <1>2, <1>5, <1>7, <1>8, <1>9, <1>10, <1>11, <1>12, <1>14, <1>15, <1>16 DEF Next, CallStep

-----------------------------------------------------------------------------
\* The regime is fixed for a behavior, and restarts are counted one by one.
LEMMA RegimeStays ==
    ASSUME [Next]_vars
    PROVE  regime' = regime /\ (crashes' = crashes \/ crashes' = crashes + 1)
  BY DEF Next, CallStep, Begin, Refuse, Enqueue, AllocateCached, AskCount, AllocateCounted, CountFails, Sign,
     SignFails, Broadcast, BroadcastFails, BroadcastAborts, Receipt, GiveUp, PollThrows, Mine, Crash, vars

\* However many services the address has, none gives the same nonce to two of its calls,
\* and none is skipped: while calls take turns, whatever fails and however often the
\* process restarts; while they overlap, until one of them makes its service resync or the
\* process restarts (nonce.ts).
THEOREM NoncesAreSound == Spec => []NoncesSound
  <1>1. SInv /\ [Next]_vars => SInv'
    <2> SUFFICES ASSUME SInv, [Next]_vars, Sequential' PROVE WType' /\ PoolRuns' /\ Turns' /\ Past'
      BY DEF SInv
    <2>1. Sequential
      BY RegimeStays DEF Sequential
    <2> QED
      BY <2>1, StepSequential DEF SInv
  <1>2. GInv /\ [Next]_vars => GInv'
    <2> SUFFICES ASSUME GInv, [Next]_vars
                 PROVE  WType' /\ (crashes' = 0 => Alive' /\ \A s \in Services : ~Resynced(s)' => Given(s)')
      BY DEF GInv
    <2>1. WType'
      BY TypeStep, NodeAnswers DEF GInv
    <2>2. ASSUME crashes' = 0 PROVE crashes = 0
      BY <2>2, RegimeStays DEF GInv, WType
    <2> QED
      BY <2>1, <2>2, StepGated DEF GInv
  <1>3. SInv => SequentialNoDoubleUse /\ NoGap
    <2> SUFFICES ASSUME SInv, Sequential
                 PROVE  /\ \A c, d \in Calls : SameService(c, d) => ~Clash(c, d)
                        /\ \A c \in Pool : call[c].nonce < PendingCount
      BY DEF SequentialNoDoubleUse, NoGap
    <2>1. WType /\ PoolRuns /\ Turns /\ Past /\ PendingCount = Frontier /\ Frontier \in Nat /\ mined \in Nat
      BY CountsToFrontier DEF SInv, WType
    <2>2. \A c \in Pool : call[c].nonce \in mined .. Frontier - 1
      BY <2>1 DEF PoolRuns
    <2>3. ASSUME NEW c \in Calls, NEW d \in Calls, SameService(c, d), Clash(c, d) PROVE FALSE
      <3>1. /\ c # d /\ call[c].nonce = call[d].nonce /\ SameService(d, c)
            /\ call[c].pc \in {"signing", "sending"} \/ OnNet(c)
            /\ call[d].pc \in {"signing", "sending"} \/ OnNet(d)
        BY <2>3 DEF Clash, Spends, OnNet, SameService
      <3>2. ASSUME NEW e \in Calls, NEW f \in Calls, e # f, SameService(e, f), call[e].nonce = call[f].nonce,
                   call[e].pc \in {"signing", "sending"}
            PROVE  ~OnNet(f) /\ call[f].pc \notin {"signing", "sending"}
        <4>1. ~OnNet(f)
          <5> SUFFICES ASSUME OnNet(f) PROVE FALSE
            OBVIOUS
          <5>1. call[f].nonce < call[e].nonce /\ call[e].nonce \in Nat
            BY <2>1, <3>2 DEF Turns, WType, CallOK
          <5> QED BY <3>2, <5>1
        <4> QED BY <2>1, <3>2, <4>1 DEF Turns, InFlight
      <3>3. OnNet(c) /\ OnNet(d)
        BY <2>3, <3>1, <3>2
      <3>4. CASE c \in Pool /\ d \in Pool
        BY <2>1, <3>1, <3>4 DEF PoolRuns
      <3>5. CASE tx[c] \in {"success", "reverted"} /\ tx[d] \in {"success", "reverted"}
        BY <2>1, <3>1, <3>5 DEF Past
      <3>6. CASE \/ c \in Pool /\ tx[d] \in {"success", "reverted"}
                 \/ d \in Pool /\ tx[c] \in {"success", "reverted"}
        BY <2>1, <2>2, <3>1, <3>6 DEF Past
      <3> QED
        BY <3>3, <3>4, <3>5, <3>6 DEF OnNet, Pool
    <2>4. \A c \in Pool : call[c].nonce < Frontier
      BY <2>1, <2>2
    <2> QED
      BY <2>1, <2>3, <2>4
  <1>4. GInv => GatedNoDoubleUse
    <2> SUFFICES ASSUME GInv, crashes = 0, NEW c \in Calls, NEW d \in Calls, SameService(c, d),
                        ~Resynced(call[c].svc), Clash(c, d)
                 PROVE  FALSE
      BY DEF GatedNoDoubleUse
    <2>1. call[c].nonce \in Nat /\ CallOK(call[c], tx[c]) /\ CallOK(call[d], tx[d])
      BY DEF Clash, Spends, GInv, WType, CallOK
    <2>2. Bound(c) /\ Bound(d)
      BY <2>1, WalletConstants DEF Bound, Clash
    <2>3. call[c].svc \in Services
      <3>1. PhaseOK(call[c]) /\ CallOK(call[c], tx[c]) /\ Spends(c)
        BY DEF GInv, WType, Alive, Clash
      <3> QED BY <3>1 DEF PhaseOK, CallOK, Spends, Unposted, Unbound
    <2> QED
      BY <2>2, <2>3 DEF Clash, GInv, Given, SameService
  <1>5. SInv /\ GInv => NoncesSound
    BY <1>3, <1>4 DEF NoncesSound
  <1> QED
    BY <1>1, <1>2, <1>5, SequentialStart, GatedStart, PTL DEF Spec

-----------------------------------------------------------------------------
(* What execute() reports.                                                  *)

\* A call has reported nothing before it returns, and is what execute() made of it.
Fields(k) == k = [pc |-> k.pc, svc |-> k.svc, nonce |-> k.nonce, seen |-> k.seen, status |-> k.status]

\* The report of call k, whose transaction is in state t, under faults f.
ReportOK(k, t, f) ==
    /\ Fields(k)
    /\ k.pc \in Unposted => t = "none"
    /\ k.pc = "failing" => t = "none" \/ "lostreply" \in f
    /\ k.pc # "done" => k.status = None
    /\ k.status = "filled" => t = "success"
    /\ k.status = "reverted" => t = "reverted"
    /\ k.status = "aborted" /\ "lostreply" \notin f => t = "none"

\* What was reported of every call is so.
RInv == /\ call = [c \in Calls |-> call[c]] /\ tx = [c \in Calls |-> tx[c]]
        /\ \A c \in Calls : ReportOK(call[c], tx[c], regime.faults)

\* A phase and one more field.
LEMMA FieldsSet ==
    ASSUME NEW r, Fields(r), NEW pc, NEW x
    PROVE  /\ [r EXCEPT !.pc = pc] = [pc |-> pc, svc |-> r.svc, nonce |-> r.nonce, seen |-> r.seen, status |-> r.status]
           /\ [r EXCEPT !.pc = pc, !.svc = x]
                  = [pc |-> pc, svc |-> x, nonce |-> r.nonce, seen |-> r.seen, status |-> r.status]
           /\ [r EXCEPT !.pc = pc, !.nonce = x]
                  = [pc |-> pc, svc |-> r.svc, nonce |-> x, seen |-> r.seen, status |-> r.status]
           /\ [r EXCEPT !.pc = pc, !.seen = x]
                  = [pc |-> pc, svc |-> r.svc, nonce |-> r.nonce, seen |-> x, status |-> r.status]
           /\ [r EXCEPT !.pc = pc, !.status = x]
                  = [pc |-> pc, svc |-> r.svc, nonce |-> r.nonce, seen |-> r.seen, status |-> x]
  <1> DEFINE q == [pc |-> pc, svc |-> r.svc, nonce |-> r.nonce, seen |-> r.seen, status |-> r.status]
  <1>1. [r EXCEPT !.pc = pc] = q
    BY DEF Fields
  <1>2. /\ [q EXCEPT !.svc = x] = [pc |-> pc, svc |-> x, nonce |-> r.nonce, seen |-> r.seen, status |-> r.status]
        /\ [q EXCEPT !.nonce = x] = [pc |-> pc, svc |-> r.svc, nonce |-> x, seen |-> r.seen, status |-> r.status]
        /\ [q EXCEPT !.seen = x] = [pc |-> pc, svc |-> r.svc, nonce |-> r.nonce, seen |-> x, status |-> r.status]
        /\ [q EXCEPT !.status = x] = [pc |-> pc, svc |-> r.svc, nonce |-> r.nonce, seen |-> r.seen, status |-> x]
    OBVIOUS
  <1> QED
    BY <1>1, <1>2

\* A call gets new fields.
LEMMA ReportMoves ==
    ASSUME RInv, NEW c \in Calls, NEW k, call' = [call EXCEPT ![c] = k], tx' = [d \in Calls |-> tx'[d]],
           \A d \in Calls \ {c} : tx'[d] = tx[d] \/ (tx[d] = "pool" /\ tx'[d] = "replaced"),
           ReportOK(k, tx'[c], regime.faults), regime' = regime
    PROVE  RInv'
  <1>1. call' = [d \in Calls |-> IF d = c THEN k ELSE call[d]]
    BY DEF RInv
  <1>2. \A d \in Calls : ReportOK(call'[d], tx'[d], regime'.faults)
    BY <1>1 DEF RInv, ReportOK, Unposted, Unbound
  <1> QED
    BY <1>1, <1>2 DEF RInv

\* What Goto and Return make of the fields.
LEMMA GotoFields ==
    ASSUME RInv, NEW c \in Calls, NEW pc, Goto(c, pc)
    PROVE  \E k : /\ call' = [call EXCEPT ![c] = k] /\ Fields(k)
                  /\ k.pc = pc /\ k.status = call[c].status
  <1> DEFINE k == [pc |-> pc, svc |-> call[c].svc, nonce |-> call[c].nonce, seen |-> call[c].seen,
                   status |-> call[c].status]
  <1>1. Fields(call[c])
    BY DEF RInv, ReportOK
  <1>2. [call[c] EXCEPT !.pc = pc] = k
    BY <1>1 DEF Fields
  <1>3. call' = [call EXCEPT ![c] = k]
    BY <1>2 DEF Goto, RInv
  <1>4. Fields(k) /\ k.pc = pc /\ k.status = call[c].status
    BY DEF Fields
  <1> HIDE DEF k
  <1> QED
    BY <1>3, <1>4

\* A call that returns changes its place and its status only.
LEMMA ReturnFields ==
    ASSUME RInv, NEW c \in Calls, NEW status, Return(c, status)
    PROVE  \E k : /\ call' = [call EXCEPT ![c] = k] /\ Fields(k)
                  /\ k.pc = "done" /\ k.status = status
  <1> DEFINE k == [pc |-> "done", svc |-> call[c].svc, nonce |-> call[c].nonce, seen |-> call[c].seen,
                   status |-> status]
  <1>1. Fields(call[c])
    BY DEF RInv, ReportOK
  <1>2. [call[c] EXCEPT !.pc = "done", !.status = status] = k
    <2> DEFINE q == [pc |-> "done", svc |-> call[c].svc, nonce |-> call[c].nonce, seen |-> call[c].seen,
                     status |-> call[c].status]
    <2>1. [call[c] EXCEPT !.pc = "done"] = q
      BY <1>1 DEF Fields
    <2>2. [q EXCEPT !.status = status] = k
      OBVIOUS
    <2> QED
      BY <2>1, <2>2
  <1>3. call' = [call EXCEPT ![c] = k]
    BY <1>2 DEF Return, RInv
  <1>4. Fields(k) /\ k.pc = "done" /\ k.status = status
    <2>1. k.pc = "done" /\ k.svc = call[c].svc /\ k.nonce = call[c].nonce /\ k.seen = call[c].seen /\ k.status = status
      OBVIOUS
    <2> QED BY <2>1 DEF Fields
  <1> HIDE DEF k
  <1> QED
    BY <1>3, <1>4

\* No step makes a report say what the chain does not.
LEMMA ReportStep ==
    ASSUME RInv, [Next]_vars
    PROVE  RInv'
  <1>0. \A c \in Calls : Fields(call[c]) /\ ReportOK(call[c], tx[c], regime.faults)
    BY DEF RInv, ReportOK
  <1> USE DEF Unposted, Unbound
  \* Steps that send nothing and report nothing.
  <1>1. ASSUME NEW c \in Calls, NEW k, call' = [call EXCEPT ![c] = k], Fields(k), k.status = call[c].status,
               call[c].pc \in Unposted, k.pc \in Unposted \cup {"failing"}, UNCHANGED <<regime, tx>>
        PROVE  RInv'
    <2>1. ReportOK(k, tx[c], regime.faults)
      BY <1>0, <1>1, WalletConstants DEF ReportOK
    <2>2. tx' = [d \in Calls |-> tx'[d]]
      BY <1>1 DEF RInv
    <2> QED
      BY <1>1, <2>1, <2>2, ReportMoves
  <1>2. ASSUME NEW c \in Calls, NEW pc, Goto(c, pc), call[c].pc \in Unposted,
               pc \in Unposted \cup {"failing"}, UNCHANGED <<regime, tx>>
        PROVE  RInv'
    <2>1. PICK k : call' = [call EXCEPT ![c] = k] /\ Fields(k) /\ k.pc = pc /\ k.status = call[c].status
      BY <1>2, GotoFields
    <2> QED
      BY <1>1, <1>2, <2>1
  <1>3. ASSUME NEW c \in Calls, Enqueue(c) \/ Sign(c) \/ BroadcastFails(c) PROVE RInv'
    BY <1>2, <1>3 DEF Enqueue, Sign, BroadcastFails
  <1>4. ASSUME NEW c \in Calls, NEW s \in Services, Begin(c, s) PROVE RInv'
    <2> DEFINE k == [pc |-> "preflight", svc |-> s, nonce |-> call[c].nonce, seen |-> call[c].seen,
                     status |-> call[c].status]
    <2>1. [call[c] EXCEPT !.pc = "preflight", !.svc = s] = k
      <3> DEFINE q == [pc |-> "preflight", svc |-> call[c].svc, nonce |-> call[c].nonce, seen |-> call[c].seen,
                       status |-> call[c].status]
      <3>0. Fields(call[c])
        BY <1>0
      <3>1. [call[c] EXCEPT !.pc = "preflight"] = q
        BY <3>0 DEF Fields
      <3>2. [q EXCEPT !.svc = s] = k
        OBVIOUS
      <3> QED
        BY <3>1, <3>2
    <2>2. call' = [call EXCEPT ![c] = k]
      BY <1>4, <2>1 DEF Begin, RInv
    <2>4. Fields(k) /\ k.pc = "preflight" /\ k.status = call[c].status
      <3>1. k.pc = "preflight" /\ k.svc = s /\ k.nonce = call[c].nonce /\ k.seen = call[c].seen /\ k.status = call[c].status
        OBVIOUS
      <3> QED BY <3>1 DEF Fields
    <2>3. call[c].pc = "new" /\ UNCHANGED <<regime, tx>>
      BY <1>4 DEF Begin
    <2> HIDE DEF k
    <2> QED BY <1>1, <2>2, <2>3, <2>4
  <1>5. ASSUME NEW c \in Calls, NEW n, Allocate(c, n), call[c].pc \in Unposted, UNCHANGED <<regime, tx>> PROVE RInv'
    <2> DEFINE k == [pc |-> "signing", svc |-> call[c].svc, nonce |-> n, seen |-> call[c].seen,
                     status |-> call[c].status]
    <2>1. [call[c] EXCEPT !.pc = "signing", !.nonce = n] = k
      BY <1>0, FieldsSet
    <2>2. call' = [call EXCEPT ![c] = k] /\ Fields(k) /\ k.pc = "signing" /\ k.status = call[c].status
      BY <1>5, <2>1 DEF Allocate, RInv, Fields
    <2> HIDE DEF k
    <2> QED BY <1>1, <1>5, <2>2
  <1>6. ASSUME NEW c \in Calls, AllocateCached(c) \/ AllocateCounted(c) PROVE RInv'
    BY <1>5, <1>6 DEF AllocateCached, AllocateCounted
  <1>7. ASSUME NEW c \in Calls, AskCount(c) PROVE RInv'
    <2> DEFINE k == [pc |-> "counting", svc |-> call[c].svc, nonce |-> call[c].nonce, seen |-> FetchPending,
                     status |-> call[c].status]
    <2>1. [call[c] EXCEPT !.pc = "counting", !.seen = FetchPending] = k
      BY <1>0, FieldsSet
    <2>2. call' = [call EXCEPT ![c] = k] /\ Fields(k) /\ k.pc = "counting" /\ k.status = call[c].status
      BY <1>7, <2>1 DEF AskCount, RInv, Fields
    <2>3. call[c].pc = "queued" /\ UNCHANGED <<regime, tx>>
      BY <1>7 DEF AskCount
    <2> HIDE DEF k
    <2> QED BY <1>1, <2>2, <2>3
  \* Steps that report.
  <1>8. ASSUME NEW c \in Calls, NEW status, Return(c, status), UNCHANGED <<regime, tx>>,
               status = "filled" => tx[c] = "success",
               status = "reverted" => tx[c] = "reverted",
               status = "aborted" => tx[c] = "none" \/ "lostreply" \in regime.faults
        PROVE  RInv'
    <2>1. PICK k : call' = [call EXCEPT ![c] = k] /\ Fields(k) /\ k.pc = "done" /\ k.status = status
      BY <1>8, ReturnFields
    <2>2. ReportOK(k, tx[c], regime.faults)
      BY <1>8, <2>1 DEF ReportOK
    <2>3. tx' = [d \in Calls |-> tx'[d]]
      BY <1>8 DEF RInv
    <2> QED
      BY <1>8, <2>1, <2>2, <2>3, ReportMoves
  <1>9. ASSUME NEW c \in Calls, Refuse(c) \/ CountFails(c) \/ SignFails(c) \/ BroadcastAborts(c) PROVE RInv'
    <2>1. tx[c] = "none" \/ "lostreply" \in regime.faults
      BY <1>0, <1>9 DEF Refuse, CountFails, SignFails, BroadcastAborts, ReportOK
    <2>2. Return(c, "aborted") /\ UNCHANGED <<regime, tx>>
      BY <1>9 DEF Refuse, CountFails, SignFails, BroadcastAborts
    <2> QED BY <1>8, <2>1, <2>2
  <1>10. ASSUME NEW c \in Calls, GiveUp(c) \/ PollThrows(c) PROVE RInv'
    BY <1>8, <1>10 DEF GiveUp, PollThrows
  <1>11. ASSUME NEW c \in Calls, Receipt(c) PROVE RInv'
    <2>1. Return(c, ReceiptStatus(tx[c])) /\ UNCHANGED <<regime, tx>> /\ tx[c] \in {"success", "reverted"}
      BY <1>11 DEF Receipt
    <2>2. ReceiptStatus(tx[c]) = IF tx[c] = "success" THEN "filled" ELSE "reverted"
      BY DEF ReceiptStatus
    <2> QED BY <1>8, <2>1, <2>2
  \* Steps of the transaction.
  <1>12. ASSUME NEW c \in Calls, Broadcast(c) PROVE RInv'
    <2>1. /\ call[c].pc = "sending" /\ regime' = regime /\ tx'[c] = "pool"
          /\ tx' = [d \in Calls |-> tx'[d]]
          /\ \A d \in Calls \ {c} : tx'[d] = tx[d] \/ (tx[d] = "pool" /\ tx'[d] = "replaced")
      BY <1>12 DEF Broadcast, Pool
    <2>2. PICK pc \in {"tracking", "failing"} : Goto(c, pc) /\ (pc = "failing" => "lostreply" \in regime.faults)
      BY <1>12 DEF Broadcast
    <2>3. PICK k : call' = [call EXCEPT ![c] = k] /\ Fields(k) /\ k.pc = pc /\ k.status = call[c].status
      BY <2>2, GotoFields
    <2>4. ReportOK(k, tx'[c], regime.faults)
      BY <1>0, <2>1, <2>2, <2>3, WalletConstants DEF ReportOK
    <2> QED
      BY <2>1, <2>3, <2>4, ReportMoves
  <1>13. ASSUME NEW c \in Calls, Mine(c) PROVE RInv'
    <2>1. /\ UNCHANGED <<regime, call>> /\ tx[c] = "pool"
          /\ tx' = [d \in Calls |-> tx'[d]]
          /\ \A d \in Calls \ {c} : tx'[d] = tx[d]
      BY <1>13 DEF Mine, RInv
    <2>2. \A d \in Calls : ReportOK(call[d], tx'[d], regime.faults)
      BY <1>0, <2>1 DEF ReportOK
    <2> QED
      BY <2>1, <2>2 DEF RInv
  <1>14. ASSUME Crash PROVE RInv'
    <2>1. /\ UNCHANGED <<regime, tx>>
          /\ call' = [c \in Calls |-> IF c \in InFlight THEN [call[c] EXCEPT !.pc = "dead"] ELSE call[c]]
      BY <1>14 DEF Crash
    <2>2. ASSUME NEW c \in Calls PROVE ReportOK(call'[c], tx'[c], regime'.faults)
      <3>1. CASE c \in InFlight
        <4>1. call'[c] = [pc |-> "dead", svc |-> call[c].svc, nonce |-> call[c].nonce, seen |-> call[c].seen,
                          status |-> call[c].status]
          BY <1>0, <2>1, <3>1, FieldsSet
        <4>2. call[c].status = None
          BY <1>0, <3>1 DEF ReportOK, InFlight
        <4>3. Fields(call'[c]) /\ call'[c].pc = "dead" /\ call'[c].status = None
          BY <4>1, <4>2 DEF Fields
        <4> QED
          BY <1>0, <2>1, <4>2, <4>3 DEF ReportOK
      <3>2. CASE c \notin InFlight
        BY <1>0, <2>1, <3>2
      <3> QED BY <3>1, <3>2
    <2> QED
      BY <2>1, <2>2 DEF RInv
  <1>15. CASE UNCHANGED vars
    BY <1>15 DEF vars, RInv
  <1> QED
    BY <1>3, <1>4, <1>6, <1>7, <1>9, <1>10, <1>11, <1>12, <1>13, <1>14, <1>15 DEF Next, CallStep

\* Whatever fails, and however many services sign for the address: a call reported
\* filled or reverted is a transaction that was, and one reported aborted submitted
\* nothing, unless the node's answer to the broadcast was lost (execute()).
THEOREM ReportsAreTrue == Spec => []ReportTruthful
  <1>1. Init => RInv
    <2> SUFFICES ASSUME Init PROVE RInv
      OBVIOUS
    <2>1. \A c \in Calls : ReportOK(call[c], tx[c], regime.faults)
      BY WalletConstants DEF Init, NewCall, ReportOK, Fields
    <2> QED
      BY <2>1 DEF Init, RInv
  <1>2. RInv => ReportTruthful
    BY DEF RInv, ReportOK, ReportTruthful
  <1> QED
    BY <1>1, <1>2, ReportStep, PTL DEF Spec

-----------------------------------------------------------------------------
(* What the executors report, and the allowances they set (Executors).      *)

\* What is known of an opportunity whatever the wallet does: how far an exchange trade is
\* long, and how a swap's outcome relates to its transaction.
CexOK(k) ==
    k.by = "cex" =>
        /\ k.pc \in {"new", "buying", "selling", "done"} /\ k.tx = "none"
        /\ k.pc \in {"new", "buying"} => k.base = 0 /\ ~k.lost
        /\ k.pc = "selling" => k.base \in {0, 1} /\ (~k.lost => k.base = 1)
        /\ k.pc = "done" /\ ~k.lost => (k.base # 0 <=> k.outcome = "stuck")

SwapOK(k) ==
    /\ k.pc \in {"new", "buying", "selling"} => k.by = "cex"
    /\ k.pc \in {"quoting", "approving", "approvalSent"} => k.by = "aggregator"
    /\ k.pc \notin {"swapSent", "done"} => k.tx = "none"
    /\ k.pc = "swapSent" => k.tx # "none"
    /\ k.pc # "done" => k.outcome = Unmet
    /\ k.by # "cex" =>
        /\ k.outcome = "filled" => k.tx = "mined"
        /\ k.outcome = "reverted" => k.tx \in {"reverted", "disallowed"}
        /\ k.outcome = "aborted" /\ ~k.lost => k.tx = "none"
    /\ k.tx = "disallowed" => k.behind

Going(k) == k.pc \notin {"new", "done"}

Entry(o, what) == [of |-> o, what |-> what]

\* Opportunity o, in state k, read its allowance with nothing unmined: until its swap is
\* mined nothing else comes first, and the allowance it needs is there or on its way.
Reserved(o, k, q, a) ==
    k.by = "aggregator" /\ ~k.behind =>
        /\ k.pc = "approving" => q = <<>>
        /\ k.pc = "approvalSent" => q = <<Entry(o, "approve")>> \/ (q = <<>> /\ a = k.size)
        /\ k.pc = "swapping" => q = <<>> /\ a >= k.size
        /\ k.tx = "pool" => q # <<>> /\ Head(q) = Entry(o, "swap") /\ a >= k.size

XType == opp \in [Opps -> OppType] /\ pool \in Seq(PoolType) /\ allowance \in Nat

\* The daemon runs one opportunity at a time.
OneGoing == \A o, p \in Opps : Going(opp[o]) /\ Going(opp[p]) => o = p

\* A swap is in the pool once, and its opportunity says so.
PoolOK ==
    \A i \in DOMAIN pool : pool[i].what = "swap" =>
        /\ opp[pool[i].of].tx = "pool"
        /\ \A j \in DOMAIN pool : pool[j] = pool[i] => i = j

XInv == /\ XType /\ OneGoing /\ PoolOK
        /\ \A o \in Opps : CexOK(opp[o]) /\ SwapOK(opp[o]) /\ Reserved(o, opp[o], pool, allowance)

\* A transaction of the pool belongs to an opportunity.
LEMMA InPool ==
    ASSUME XInv, NEW i \in DOMAIN pool
    PROVE  pool[i] \in PoolType /\ pool[i].of \in Opps /\ i \in Nat
  <1>1. pool \in Seq(PoolType)
    BY DEF XInv, XType
  <1>2. DOMAIN pool = 1 .. Len(pool) /\ Len(pool) \in Nat
    BY <1>1
  <1>3. pool[i] \in PoolType /\ i \in Nat
    BY <1>1, <1>2
  <1> QED
    BY <1>3 DEF PoolType

\* A size is a number.
LEMMA SizeIsNat == ASSUME NEW k \in OppType PROVE k.size \in Nat
  <1>1. k.size \in Sizes \union {0}
    BY DEF OppType
  <1>2. \A n \in Sizes : n \in Nat
    BY ExecutorConstants
  <1> QED
    BY <1>1, <1>2

\* An opportunity goes on, and the wallet is left alone.
LEMMA OppMoves ==
    ASSUME XInv, NEW o \in Opps, NEW k \in OppType, Becomes(o, k), UNCHANGED <<pool, allowance>>,
           Going(opp[o]) \/ ~Busy, CexOK(k), SwapOK(k), Reserved(o, k, pool, allowance),
           k.tx = opp[o].tx
    PROVE  XInv'
  <1>1. \A p \in Opps : opp'[p] = IF p = o THEN k ELSE opp[p]
    BY DEF XInv, XType, Becomes
  <1>2. XType'
    BY DEF XInv, XType, Becomes
  <1>3. OneGoing'
    BY <1>1 DEF XInv, OneGoing, Going, Busy
  <1>4. PoolOK'
    <2>1. \A i \in DOMAIN pool : pool[i].of \in Opps
      BY InPool
    <2> QED
      BY <1>1, <2>1 DEF XInv, PoolOK
  <1>5. \A p \in Opps : CexOK(opp'[p]) /\ SwapOK(opp'[p]) /\ Reserved(p, opp'[p], pool', allowance')
    BY <1>1 DEF XInv
  <1> QED
    BY <1>2, <1>3, <1>4, <1>5 DEF XInv

\* An opportunity sends a transaction.
LEMMA OppSends ==
    ASSUME XInv, NEW o \in Opps, NEW k \in OppType, NEW what \in {"approve", "swap"}, Becomes(o, k),
           pool' = Append(pool, Entry(o, what)), UNCHANGED allowance,
           Going(opp[o]), CexOK(k), SwapOK(k), Reserved(o, k, pool', allowance),
           opp[o].tx = "none", k.tx = IF what = "swap" THEN "pool" ELSE "none"
    PROVE  XInv'
  <1>1. \A p \in Opps : opp'[p] = IF p = o THEN k ELSE opp[p]
    BY DEF XInv, XType, Becomes
  <1>2. Entry(o, what) \in PoolType /\ Entry(o, what).of = o /\ Entry(o, what).what = what
    BY DEF PoolType, Entry
  <1>3. XType'
    BY <1>2 DEF XInv, XType, Becomes
  <1>4. OneGoing'
    BY <1>1 DEF XInv, OneGoing, Going
  <1>5. pool \in Seq(PoolType) /\ Len(pool) \in Nat /\ pool' \in Seq(PoolType)
    BY <1>3 DEF XInv, XType
  <1>6. /\ DOMAIN pool' = 1 .. Len(pool) + 1 /\ DOMAIN pool = 1 .. Len(pool)
        /\ \A i \in 1 .. Len(pool) : pool'[i] = pool[i]
        /\ pool'[Len(pool) + 1] = Entry(o, what)
    BY <1>5, <1>2
  <1>7. \A i \in DOMAIN pool : pool[i] \in PoolType /\ pool[i].of \in Opps
    BY InPool
  <1>8. \A i \in DOMAIN pool : pool[i].what = "swap" => pool[i].of # o
    BY DEF XInv, PoolOK
  <1>9. PoolOK'
    <2> SUFFICES ASSUME NEW i \in 1 .. Len(pool) + 1, pool'[i].what = "swap"
                 PROVE  /\ opp'[pool'[i].of].tx = "pool"
                        /\ \A j \in 1 .. Len(pool) + 1 : pool'[j] = pool'[i] => i = j
      BY <1>6 DEF PoolOK
    <2>1. CASE i = Len(pool) + 1
      <3>1. pool'[i] = Entry(o, "swap") /\ what = "swap" /\ pool'[i].of = o
        BY <1>2, <1>6, <2>1
      <3>2. opp'[o].tx = "pool"
        BY <1>1, <3>1
      <3>3. \A j \in 1 .. Len(pool) : pool[j] # pool'[i]
        BY <1>2, <1>6, <1>8, <3>1
      <3> QED BY <1>5, <1>6, <2>1, <3>1, <3>2, <3>3
    <2>2. CASE i \in 1 .. Len(pool)
      <3>1. pool'[i] = pool[i] /\ pool[i].of # o /\ pool[i].of \in Opps /\ opp[pool[i].of].tx = "pool"
        BY <1>6, <1>7, <1>8, <2>2 DEF XInv, PoolOK
      <3>2. opp'[pool'[i].of].tx = "pool"
        BY <1>1, <3>1
      <3>3. ASSUME NEW j \in 1 .. Len(pool) + 1, pool'[j] = pool'[i] PROVE i = j
        <4>1. j # Len(pool) + 1
          BY <1>2, <1>6, <3>1, <3>3
        <4>2. j \in 1 .. Len(pool) /\ pool[j] = pool[i] /\ pool[i].what = "swap"
          BY <1>5, <1>6, <3>1, <3>3, <4>1
        <4> QED BY <1>6, <2>2, <4>2 DEF XInv, PoolOK
      <3> QED BY <3>2, <3>3
    <2> QED BY <1>5, <2>1, <2>2
  <1>10. pool # <<>> => pool' # <<>> /\ Head(pool') = Head(pool)
    <2>1. pool # <<>> => Len(pool) > 0
      BY <1>5
    <2> QED BY <1>5, <1>6, <2>1
  <1>11. ASSUME NEW p \in Opps, p # o PROVE Reserved(p, opp'[p], pool', allowance')
    <2>1. opp'[p] = opp[p] /\ ~Going(opp[p]) /\ Reserved(p, opp[p], pool, allowance)
      BY <1>1, <1>11 DEF XInv, OneGoing
    <2> QED
      BY <1>10, <2>1 DEF Reserved, Going
  <1>12. \A p \in Opps : CexOK(opp'[p]) /\ SwapOK(opp'[p]) /\ Reserved(p, opp'[p], pool', allowance')
    BY <1>1, <1>11 DEF XInv
  <1> QED
    BY <1>3, <1>4, <1>9, <1>12 DEF XInv

\* The first transaction of the pool is mined.
LEMMA PoolShrinks ==
    ASSUME XInv, pool # <<>>, pool' = Tail(pool)
    PROVE  /\ Head(pool) \in PoolType /\ pool' \in Seq(PoolType)
           /\ Head(pool) = pool[1] /\ 1 \in DOMAIN pool
           /\ \A i \in DOMAIN pool' : i + 1 \in DOMAIN pool /\ pool'[i] = pool[i + 1]
  <1>1. pool \in Seq(PoolType)
    BY DEF XInv, XType
  <1>2. Len(pool) \in Nat /\ Len(pool) > 0
    BY <1>1
  <1>3. Tail(pool) \in Seq(PoolType) /\ Len(Tail(pool)) = Len(pool) - 1
        /\ \A i \in 1 .. Len(pool) - 1 : Tail(pool)[i] = pool[i + 1]
    BY <1>1, <1>2
  <1>4. DOMAIN Tail(pool) = 1 .. Len(pool) - 1 /\ DOMAIN pool = 1 .. Len(pool)
    BY <1>1, <1>3
  <1>5. Head(pool) = pool[1] /\ pool[1] \in PoolType
    BY <1>1, <1>2
  <1> QED
    BY <1>2, <1>3, <1>4, <1>5

\* Mining the head of the pool keeps the invariant of the executors.
LEMMA MineStep ==
    ASSUME XInv, Mine1
    PROVE  XInv'
  <1> DEFINE o == Head(pool).of
             q == Tail(pool)
  <1>0. pool # <<>> /\ pool' = Tail(pool)
    BY DEF Mine1
  <1>1. /\ Head(pool) \in PoolType /\ pool' \in Seq(PoolType)
        /\ Head(pool) = pool[1] /\ 1 \in DOMAIN pool
        /\ \A i \in DOMAIN pool' : i + 1 \in DOMAIN pool /\ pool'[i] = pool[i + 1]
    BY <1>0, PoolShrinks
  <1>2. o \in Opps /\ Head(pool).what \in {"approve", "swap"} /\ Head(pool) = Entry(o, Head(pool).what)
    BY <1>1 DEF PoolType, Entry
  <1>3. \A p \in Opps : opp[p] \in OppType /\ opp[p].size \in Nat /\ CexOK(opp[p]) /\ SwapOK(opp[p])
    <2>1. \A p \in Opps : opp[p] \in OppType /\ CexOK(opp[p]) /\ SwapOK(opp[p])
      BY DEF XInv, XType
    <2>2. \A p \in Opps : opp[p].size \in Nat
      BY <2>1, SizeIsNat
    <2> QED BY <2>1, <2>2
  <1>4. DOMAIN pool' \subseteq Nat /\ DOMAIN pool \subseteq Nat
    <2>1. DOMAIN pool' = 1 .. Len(pool')
      BY <1>1
    <2> QED BY <2>1, InPool
  <1>5. \A i \in DOMAIN pool : pool[i] \in PoolType /\ pool[i].of \in Opps
    BY InPool
  \* Of those whose allowance is reserved, only the one in front can have anything mined.
  <1>6. ASSUME NEW p \in Opps, opp[p].by = "aggregator", ~opp[p].behind
        PROVE  /\ opp[p].pc \notin {"approving", "swapping"}
               /\ opp[p].pc = "approvalSent" => Head(pool) = Entry(p, "approve") /\ pool' = <<>>
               /\ opp[p].tx = "pool" => Head(pool) = Entry(p, "swap") /\ allowance >= opp[p].size
    <2>1. Reserved(p, opp[p], pool, allowance)
      BY DEF XInv
    <2>2. opp[p].pc = "approvalSent" => pool = <<Entry(p, "approve")>>
      BY <1>0, <1>6, <2>1 DEF Reserved
    <2>3. \A e : Head(<<e>>) = e /\ Tail(<<e>>) = <<>>
      OBVIOUS
    <2>4. opp[p].pc = "approvalSent" => Head(pool) = Entry(p, "approve") /\ pool' = <<>>
      BY <1>0, <2>2, <2>3
    <2> QED
      BY <1>0, <1>6, <2>1, <2>4 DEF Reserved
  <1>7. CASE Head(pool).what = "approve"
    <2>1. allowance' = opp[o].size /\ opp' = opp /\ allowance' \in Nat
      BY <1>2, <1>3, <1>7 DEF Mine1
    <2>2. PoolOK'
      BY <1>1, <1>4, <2>1 DEF XInv, PoolOK
    <2>3. ASSUME NEW p \in Opps PROVE Reserved(p, opp[p], pool', allowance')
      <3> SUFFICES ASSUME opp[p].by = "aggregator", ~opp[p].behind
                   PROVE  /\ opp[p].pc \notin {"approving", "swapping"}
                          /\ opp[p].pc = "approvalSent" => pool' = <<>> /\ allowance' = opp[p].size
                          /\ opp[p].tx # "pool"
        BY DEF Reserved
      <3>1. opp[p].tx # "pool"
        BY <1>6, <1>7 DEF Entry
      <3>2. opp[p].pc = "approvalSent" => o = p
        BY <1>6 DEF Entry
      <3> QED
        BY <1>6, <2>1, <3>1, <3>2
    <2> QED
      BY <1>1, <2>1, <2>2, <2>3 DEF XInv, XType, OneGoing
  <1>8. CASE Head(pool).what = "swap"
    <2>1. opp[o].tx = "pool" /\ \A j \in DOMAIN pool : pool[j] = pool[1] => j = 1
      BY <1>1, <1>8 DEF XInv, PoolOK
    <2>2. PICK fate \in {"mined", "reverted", "disallowed"} :
              /\ Becomes(o, [opp[o] EXCEPT !.tx = fate]) /\ allowance' \in Nat
              /\ fate = "disallowed" => opp[o].by = "aggregator" /\ opp[o].size > allowance
      <3> DEFINE spends == IF opp[o].by = "aggregator" THEN opp[o].size ELSE 0
      <3>1. \/ /\ spends <= allowance
                /\ \/ allowance' = allowance - spends /\ Becomes(o, [opp[o] EXCEPT !.tx = "mined"])
                   \/ UNCHANGED allowance /\ Becomes(o, [opp[o] EXCEPT !.tx = "reverted"])
            \/ /\ spends > allowance /\ UNCHANGED allowance
               /\ Becomes(o, [opp[o] EXCEPT !.tx = "disallowed"])
        BY <1>8 DEF Mine1
      <3>2. spends \in Nat /\ allowance \in Nat
        BY <1>2, <1>3 DEF XInv, XType
      <3>3. spends > allowance => opp[o].by = "aggregator" /\ opp[o].size > allowance
        BY <3>2
      <3>4. spends <= allowance => allowance - spends \in Nat
        BY <3>2
      <3> HIDE DEF spends
      <3> QED
        BY <3>1, <3>2, <3>3, <3>4
    <2> DEFINE k == [opp[o] EXCEPT !.tx = fate]
    <2>3. /\ k \in OppType /\ k.tx = fate /\ k.pc = opp[o].pc /\ k.by = opp[o].by /\ k.size = opp[o].size
          /\ k.base = opp[o].base /\ k.outcome = opp[o].outcome /\ k.lost = opp[o].lost /\ k.behind = opp[o].behind
      BY <1>2, <1>3 DEF OppType
    <2>4. \A p \in Opps : opp'[p] = IF p = o THEN k ELSE opp[p]
      BY <2>2 DEF XInv, XType, Becomes
    <2>5. opp' \in [Opps -> OppType]
      BY <2>2, <2>3 DEF XInv, XType, Becomes
    <2> HIDE DEF k
    <2>6. opp[o].tx = "pool" => opp[o].by # "cex" /\ opp[o].pc \in {"swapSent", "done"} /\ opp[o].outcome \notin {"filled", "reverted"}
      BY <1>2, <1>3 DEF CexOK, SwapOK
    <2>7. fate = "disallowed" => opp[o].behind
      <3> SUFFICES ASSUME fate = "disallowed", ~opp[o].behind PROVE FALSE
        OBVIOUS
      <3>1. opp[o].by = "aggregator" /\ opp[o].size > allowance /\ allowance >= opp[o].size
        BY <1>2, <1>6, <2>1, <2>2
      <3> QED BY <1>2, <1>3, <3>1 DEF XInv, XType
    <2>8. CexOK(k) /\ SwapOK(k)
      BY <1>2, <1>3, <2>1, <2>3, <2>6, <2>7 DEF CexOK, SwapOK
    <2>9. Reserved(o, k, pool', allowance')
      BY <1>2, <1>6, <2>1, <2>3, <2>6 DEF Reserved
    <2>10. ASSUME NEW p \in Opps, p # o PROVE Reserved(p, opp[p], pool', allowance')
      <3> SUFFICES ASSUME opp[p].by = "aggregator", ~opp[p].behind
                   PROVE  opp[p].pc \notin {"approving", "swapping", "approvalSent"} /\ opp[p].tx # "pool"
        BY DEF Reserved
      <3>1. opp[p].pc # "approvalSent"
        BY <1>6, <1>8 DEF Entry
      <3>2. opp[p].tx # "pool"
        BY <1>6, <2>10 DEF Entry
      <3> QED
        BY <1>6, <3>1, <3>2
    <2>11. PoolOK'
      <3> SUFFICES ASSUME NEW i \in DOMAIN pool', pool'[i].what = "swap"
                   PROVE  /\ opp'[pool'[i].of].tx = "pool"
                          /\ \A j \in DOMAIN pool' : pool'[j] = pool'[i] => i = j
        BY DEF PoolOK
      <3>1. /\ i + 1 \in DOMAIN pool /\ pool'[i] = pool[i + 1] /\ i \in Nat /\ i + 1 # 1
            /\ pool[i + 1] \in PoolType /\ pool[i + 1].of \in Opps
        BY <1>1, <1>4, <1>5
      <3>2. pool[i + 1] # pool[1]
        BY <2>1, <3>1
      <3>3. pool[i + 1].of # o
        BY <1>1, <1>2, <1>8, <3>1, <3>2 DEF PoolType, Entry
      <3>4. opp'[pool'[i].of].tx = "pool"
        BY <2>4, <3>1, <3>3 DEF XInv, PoolOK
      <3>5. ASSUME NEW j \in DOMAIN pool', pool'[j] = pool'[i] PROVE i = j
        <4>1. j + 1 \in DOMAIN pool /\ pool'[j] = pool[j + 1] /\ j \in Nat
          BY <1>1, <1>4
        <4>2. i + 1 = j + 1
          BY <3>1, <3>5, <4>1 DEF XInv, PoolOK
        <4> QED BY <3>1, <4>1, <4>2
      <3> QED BY <3>4, <3>5
    <2>12. OneGoing'
      BY <2>3, <2>4 DEF XInv, OneGoing, Going
    <2>13. \A p \in Opps : CexOK(opp'[p]) /\ SwapOK(opp'[p]) /\ Reserved(p, opp'[p], pool', allowance')
      BY <1>3, <2>4, <2>8, <2>9, <2>10
    <2> QED
      BY <1>1, <2>2, <2>5, <2>11, <2>12, <2>13 DEF XInv, XType
  <1> QED
    BY <1>2, <1>7, <1>8

\* No step breaks the invariant of the executors.
LEMMA ExecStep ==
    ASSUME XInv, [ExecNext]_execVars
    PROVE  XInv'
  <1>0. \A o \in Opps : opp[o] \in OppType /\ CexOK(opp[o]) /\ SwapOK(opp[o]) /\ Reserved(o, opp[o], pool, allowance)
    BY DEF XInv, XType
  <1> USE DEF Going
  <1>1. ASSUME NEW o \in Opps, NEW status \in {"filled", "aborted", "stuck", "reverted"}, Done(o, status),
               UNCHANGED <<pool, allowance>>, Going(opp[o]),
               opp[o].by = "cex" /\ ~opp[o].lost => (opp[o].base # 0 <=> status = "stuck"),
               opp[o].by # "cex" => /\ status = "filled" => opp[o].tx = "mined"
                                    /\ status = "reverted" => opp[o].tx \in {"reverted", "disallowed"}
                                    /\ status = "aborted" => opp[o].tx = "none"
        PROVE  XInv'
    <2> DEFINE k == [opp[o] EXCEPT !.pc = "done", !.outcome = status]
    <2>1. /\ k \in OppType /\ k.pc = "done" /\ k.outcome = status /\ k.by = opp[o].by /\ k.size = opp[o].size
          /\ k.base = opp[o].base /\ k.lost = opp[o].lost /\ k.behind = opp[o].behind /\ k.tx = opp[o].tx
      BY <1>0 DEF OppType
    <2>2. Becomes(o, k)
      BY <1>1 DEF Done
    <2> HIDE DEF k
    <2>3. CexOK(k) /\ SwapOK(k)
      BY <1>0, <1>1, <2>1 DEF CexOK, SwapOK
    <2>4. Reserved(o, k, pool, allowance)
      BY <1>0, <2>1 DEF Reserved
    <2> QED
      BY <1>1, <2>1, <2>2, <2>3, <2>4, OppMoves
  <1>2. ASSUME NEW o \in Opps, Dispatch(o) PROVE XInv'
    <2>1. PICK by \in Executor, size \in Sizes :
              Becomes(o, [opp[o] EXCEPT !.by = by, !.size = size,
                                        !.pc = CASE by = "cex" -> "buying" [] by = "swap" -> "swapping"
                                                 [] by = "aggregator" -> "quoting"])
      BY <1>2 DEF Dispatch
    <2> DEFINE pc == CASE by = "cex" -> "buying" [] by = "swap" -> "swapping" [] by = "aggregator" -> "quoting"
    <2>2. /\ by = "cex" => pc = "buying"
          /\ by = "swap" => pc = "swapping"
          /\ by = "aggregator" => pc = "quoting"
          /\ by \in {"cex", "swap", "aggregator"}
      BY DEF Executor
    <2> DEFINE k == [opp[o] EXCEPT !.by = by, !.size = size, !.pc = pc]
    <2>3. Becomes(o, k)
      BY <2>1
    <2> HIDE DEF pc
    <2>4. /\ k \in OppType /\ k.pc = pc /\ k.outcome = opp[o].outcome /\ k.by = by /\ k.size = size
          /\ k.base = opp[o].base /\ k.lost = opp[o].lost /\ k.behind = opp[o].behind /\ k.tx = opp[o].tx
      BY <1>0, <2>2 DEF OppType
    <2> HIDE DEF k
    <2>5. opp[o].pc = "new" /\ ~Busy /\ UNCHANGED <<pool, allowance>>
      BY <1>2 DEF Dispatch
    <2>6. opp[o].tx = "none" /\ opp[o].base = 0 /\ ~opp[o].lost /\ opp[o].outcome = Unmet
      BY <1>0, <2>5 DEF CexOK, SwapOK
    <2>7. CexOK(k) /\ SwapOK(k) /\ Reserved(o, k, pool, allowance)
      BY <2>2, <2>4, <2>6, ExecutorConstants DEF CexOK, SwapOK, Reserved
    <2> QED
      BY <2>3, <2>4, <2>5, <2>7, OppMoves
  <1>3. ASSUME NEW o \in Opps, Abort(o) \/ BuyRefused(o) \/ ApprovalGivenUp(o) PROVE XInv'
    <2>1. /\ Done(o, "aborted") /\ UNCHANGED <<pool, allowance>>
          /\ opp[o].pc \in {"buying", "swapping", "quoting", "approvalSent"}
      BY <1>3 DEF Abort, BuyRefused, ApprovalGivenUp
    <2>2. opp[o].tx = "none" /\ (opp[o].by = "cex" => opp[o].base = 0)
      BY <1>0, <2>1 DEF CexOK, SwapOK
    <2> QED
      BY <1>1, <2>1, <2>2
  <1>4. ASSUME NEW o \in Opps, SellRefused(o) PROVE XInv'
    <2>1. Done(o, "stuck") /\ UNCHANGED <<pool, allowance>> /\ opp[o].pc = "selling"
      BY <1>4 DEF SellRefused, HalfDone
    <2>2. opp[o].by = "cex" /\ (~opp[o].lost => opp[o].base = 1)
      BY <1>0, <2>1 DEF CexOK, SwapOK
    <2> QED
      BY <1>1, <2>1, <2>2
  <1>5. ASSUME NEW o \in Opps, SwapReceipt(o) \/ SwapGivenUp(o) PROVE XInv'
    <2>1. PICK status \in {"filled", "reverted", "stuck"} :
              /\ Done(o, status) /\ UNCHANGED <<pool, allowance>> /\ opp[o].pc = "swapSent"
              /\ status = "filled" => opp[o].tx = "mined"
              /\ status = "reverted" => opp[o].tx \notin {"pool", "mined"}
      BY <1>5 DEF SwapReceipt, SwapGivenUp
    <2>2. opp[o].by # "cex" /\ opp[o].tx # "none" /\ opp[o].tx \in {"none", "pool", "mined", "reverted", "disallowed"}
      BY <1>0, <2>1 DEF CexOK, SwapOK, OppType
    <2> QED
      BY <1>1, <2>1, <2>2
  \* The legs of an exchange trade: new phase, outcome, base and answers.
  <1>6. ASSUME NEW o \in Opps, NEW k \in OppType, Becomes(o, k), UNCHANGED <<pool, allowance>>,
               opp[o].pc \in {"buying", "selling"}, k.pc \in {"selling", "done"},
               k.by = opp[o].by, k.behind = opp[o].behind, k.tx = opp[o].tx, CexOK(k),
               k.pc = "selling" => k.outcome = Unmet
        PROVE  XInv'
    <2>1. opp[o].by = "cex" /\ opp[o].tx = "none"
      BY <1>0, <1>6 DEF SwapOK
    <2>2. SwapOK(k) /\ Reserved(o, k, pool, allowance)
      BY <1>6, <2>1 DEF SwapOK, Reserved
    <2> QED
      BY <1>6, <2>2, OppMoves
  <1>7. ASSUME NEW o \in Opps, Buy(o) PROVE XInv'
    <2>0. opp[o].pc = "buying" /\ UNCHANGED <<pool, allowance>>
      BY <1>7 DEF Buy
    <2>1. opp[o].by = "cex" /\ opp[o].tx = "none" /\ opp[o].outcome = Unmet
      BY <1>0, <2>0 DEF SwapOK
    <2>2. PICK fill \in {0, 1} :
              \/ Becomes(o, [opp[o] EXCEPT !.pc = "selling", !.base = fill, !.lost = fill = 0])
              \/ Becomes(o, [opp[o] EXCEPT !.pc = "done", !.outcome = "aborted", !.base = fill, !.lost = TRUE])
      BY <1>7 DEF Buy
    <2>3. CASE Becomes(o, [opp[o] EXCEPT !.pc = "selling", !.base = fill, !.lost = fill = 0])
      <3> DEFINE k == [opp[o] EXCEPT !.pc = "selling", !.base = fill, !.lost = fill = 0]
      <3>1. /\ k \in OppType /\ k.pc = "selling" /\ k.outcome = opp[o].outcome /\ k.by = opp[o].by
            /\ k.base = fill /\ k.behind = opp[o].behind /\ k.tx = opp[o].tx
        <4>1. fill \in -1 .. 1
          OBVIOUS
        <4> QED BY <1>0, <4>1 DEF OppType
      <3>2. ~k.lost => fill # 0
        BY <1>0 DEF OppType
      <3> HIDE DEF k
      <3>3. CexOK(k)
        BY <2>1, <3>1, <3>2 DEF CexOK
      <3> QED
        BY <1>6, <2>0, <2>1, <2>3, <3>1, <3>3 DEF k
    <2>4. CASE Becomes(o, [opp[o] EXCEPT !.pc = "done", !.outcome = "aborted", !.base = fill, !.lost = TRUE])
      <3> DEFINE k == [opp[o] EXCEPT !.pc = "done", !.outcome = "aborted", !.base = fill, !.lost = TRUE]
      <3>1. /\ k \in OppType /\ k.pc = "done" /\ k.by = opp[o].by
            /\ k.lost /\ k.behind = opp[o].behind /\ k.tx = opp[o].tx
        <4>1. fill \in -1 .. 1
          OBVIOUS
        <4> QED BY <1>0, <4>1 DEF OppType
      <3> HIDE DEF k
      <3>3. CexOK(k)
        BY <2>1, <3>1 DEF CexOK
      <3> QED
        BY <1>6, <2>0, <2>4, <3>1, <3>3 DEF k
    <2> QED BY <2>2, <2>3, <2>4
  <1>8. ASSUME NEW o \in Opps, Sell(o) PROVE XInv'
    <2>0. opp[o].pc = "selling" /\ UNCHANGED <<pool, allowance>>
      BY <1>8 DEF Sell
    <2>1. opp[o].by = "cex" /\ opp[o].tx = "none" /\ opp[o].base \in {0, 1} /\ (~opp[o].lost => opp[o].base = 1)
      BY <1>0, <2>0 DEF SwapOK, CexOK
    <2>2. PICK fill \in {0, 1}, heard \in BOOLEAN :
              Becomes(o, [opp[o] EXCEPT !.pc = "done", !.outcome = IF heard THEN "filled" ELSE HalfDone,
                                        !.base = @ - fill, !.lost = @ \/ fill = 0 \/ ~heard])
      BY <1>8 DEF Sell
    <2> DEFINE k == [opp[o] EXCEPT !.pc = "done", !.outcome = IF heard THEN "filled" ELSE HalfDone,
                                   !.base = @ - fill, !.lost = @ \/ fill = 0 \/ ~heard]
    <2>3. opp[o].base - fill \in -1 .. 1
      BY <2>1
    <2>4. /\ k \in OppType /\ k.pc = "done" /\ k.outcome = (IF heard THEN "filled" ELSE HalfDone)
          /\ k.by = opp[o].by /\ k.base = opp[o].base - fill /\ k.behind = opp[o].behind /\ k.tx = opp[o].tx
      BY <1>0, <2>3 DEF OppType, HalfDone
    <2>5. ~k.lost => ~opp[o].lost /\ fill = 1 /\ heard
      BY <1>0 DEF OppType
    <2>6. Becomes(o, k)
      BY <2>2
    <2> HIDE DEF k
    <2>7. CexOK(k)
      BY <2>1, <2>4, <2>5 DEF CexOK
    <2> QED
      BY <1>6, <2>0, <2>4, <2>6, <2>7
  \* A swap's phase, and whether its allowance was read behind something.
  <1>9. ASSUME NEW o \in Opps, NEW k \in OppType, Becomes(o, k), UNCHANGED <<pool, allowance>>,
               opp[o].pc \in {"quoting", "approvalSent"}, k.pc \in {"approving", "swapping"},
               k.by = opp[o].by, k.tx = opp[o].tx, k.outcome = opp[o].outcome, Reserved(o, k, pool, allowance)
        PROVE  XInv'
    <2>1. opp[o].by = "aggregator" /\ opp[o].tx = "none" /\ opp[o].outcome = Unmet
      BY <1>0, <1>9 DEF SwapOK
    <2>2. CexOK(k) /\ SwapOK(k)
      BY <1>9, <2>1, ExecutorConstants DEF SwapOK, CexOK
    <2> QED
      BY <1>9, <2>2, OppMoves
  <1>10. ASSUME NEW o \in Opps, CheckApproval(o) PROVE XInv'
    <2> DEFINE pc == IF AllowanceShort(opp[o].size) THEN "approving" ELSE "swapping"
               k  == [opp[o] EXCEPT !.pc = pc, !.behind = pool # <<>>]
    <2>1. Becomes(o, k) /\ opp[o].pc = "quoting" /\ UNCHANGED <<pool, allowance>>
      BY <1>10 DEF CheckApproval
    <2>2. pc \in {"approving", "swapping"} /\ (pc = "swapping" => ~(allowance < opp[o].size))
      BY DEF AllowanceShort
    <2> HIDE DEF pc
    <2>3. /\ k \in OppType /\ k.pc = pc /\ k.outcome = opp[o].outcome /\ k.by = opp[o].by /\ k.size = opp[o].size
          /\ k.tx = opp[o].tx
      BY <1>0, <2>2 DEF OppType
    <2>4. ~k.behind => pool = <<>>
      BY <1>0 DEF OppType
    <2> HIDE DEF k
    <2>5. opp[o].tx = "none"
      BY <1>0, <2>1 DEF SwapOK
    <2>6. allowance \in Nat /\ opp[o].size \in Nat
      BY <1>0, SizeIsNat DEF XInv, XType
    <2>7. Reserved(o, k, pool, allowance)
      BY <2>2, <2>3, <2>4, <2>5, <2>6 DEF Reserved
    <2> QED
      BY <1>9, <2>1, <2>2, <2>3, <2>7
  <1>11. ASSUME NEW o \in Opps, Approved(o) PROVE XInv'
    <2> DEFINE k == [opp[o] EXCEPT !.pc = "swapping"]
    <2>1. Becomes(o, k) /\ opp[o].pc = "approvalSent" /\ ~Unmined(o, "approve") /\ UNCHANGED <<pool, allowance>>
      BY <1>11 DEF Approved
    <2>2. /\ k \in OppType /\ k.pc = "swapping" /\ k.outcome = opp[o].outcome /\ k.by = opp[o].by
          /\ k.size = opp[o].size /\ k.tx = opp[o].tx /\ k.behind = opp[o].behind
      BY <1>0 DEF OppType
    <2> HIDE DEF k
    <2>3. pool # <<Entry(o, "approve")>>
      <3> SUFFICES ASSUME pool = <<Entry(o, "approve")>> PROVE FALSE
        OBVIOUS
      <3>1. DOMAIN pool = 1 .. 1 /\ pool[1] = Entry(o, "approve")
        OBVIOUS
      <3> QED BY <2>1, <3>1 DEF Unmined, Entry
    <2>4. allowance \in Nat /\ opp[o].size \in Nat /\ opp[o].tx = "none"
      BY <1>0, <2>1, SizeIsNat DEF XInv, XType, SwapOK
    <2>5. Reserved(o, k, pool, allowance)
      <3> SUFFICES ASSUME k.by = "aggregator", ~k.behind PROVE pool = <<>> /\ allowance >= k.size
        BY <2>2, <2>4 DEF Reserved
      <3>1. pool = <<>> /\ allowance = opp[o].size
        BY <1>0, <2>1, <2>2, <2>3 DEF Reserved
      <3> QED BY <2>2, <2>4, <3>1
    <2> QED
      BY <1>9, <2>1, <2>2, <2>5
  \* What goes into the pool, and what is known of it there.
  <1>12. ASSUME NEW o \in Opps, NEW k \in OppType, NEW what \in {"approve", "swap"}, Becomes(o, k),
                pool' = Append(pool, Entry(o, what)), UNCHANGED allowance,
                opp[o].pc = IF what = "swap" THEN "swapping" ELSE "approving",
                k.by = opp[o].by, k.size = opp[o].size, k.behind = opp[o].behind,
                k.tx = IF what = "swap" THEN "pool" ELSE "none",
                \/ k.pc = (IF what = "swap" THEN "swapSent" ELSE "approvalSent") /\ k.outcome = opp[o].outcome
                \/ k.pc = "done" /\ k.outcome = "aborted" /\ k.lost
         PROVE  XInv'
    <2>1. opp[o].by # "cex" /\ opp[o].tx = "none" /\ opp[o].outcome = Unmet /\ (what = "approve" => opp[o].by = "aggregator")
      BY <1>0, <1>12 DEF SwapOK, CexOK
    <2>2. CexOK(k) /\ SwapOK(k)
      BY <1>12, <2>1, ExecutorConstants DEF CexOK, SwapOK
    <2>3. Entry(o, what) \in PoolType /\ pool \in Seq(PoolType)
      BY DEF Entry, PoolType, XInv, XType
    <2>4. pool = <<>> => pool' = <<Entry(o, what)>> /\ pool' # <<>> /\ Head(pool') = Entry(o, what)
      BY <1>12, <2>3
    <2>5. Reserved(o, opp[o], pool, allowance)
      BY <1>0
    <2>6. Reserved(o, k, pool', allowance)
      BY <1>12, <2>1, <2>4, <2>5 DEF Reserved
    <2> QED
      BY <1>12, <2>1, <2>2, <2>6, OppSends
  <1>13. ASSUME NEW o \in Opps, Approve(o) PROVE XInv'
    <2> DEFINE k == [opp[o] EXCEPT !.pc = "approvalSent", !.tx = @]
    <2>1. /\ Becomes(o, k) /\ pool' = Append(pool, Entry(o, "approve"))
          /\ UNCHANGED allowance /\ opp[o].pc = "approving"
      BY <1>13 DEF Approve, Send, Entry
    <2>2. opp[o].tx = "none"
      BY <1>0, <2>1 DEF SwapOK
    <2>3. /\ k \in OppType /\ k.by = opp[o].by /\ k.size = opp[o].size /\ k.behind = opp[o].behind
          /\ k.tx = "none" /\ k.pc = "approvalSent" /\ k.outcome = opp[o].outcome
      BY <1>0, <2>2 DEF OppType
    <2> HIDE DEF k
    <2> QED BY <1>12, <2>1, <2>3
  <1>14. ASSUME NEW o \in Opps, Swap(o) PROVE XInv'
    <2> DEFINE k == [opp[o] EXCEPT !.pc = "swapSent", !.tx = "pool"]
    <2>1. /\ Becomes(o, k) /\ pool' = Append(pool, Entry(o, "swap"))
          /\ UNCHANGED allowance /\ opp[o].pc = "swapping"
      BY <1>14 DEF Swap, Send, Entry
    <2>3. /\ k \in OppType /\ k.by = opp[o].by /\ k.size = opp[o].size /\ k.behind = opp[o].behind
          /\ k.tx = "pool" /\ k.pc = "swapSent" /\ k.outcome = opp[o].outcome
      BY <1>0 DEF OppType
    <2> HIDE DEF k
    <2> QED BY <1>12, <2>1, <2>3
  <1>15. ASSUME NEW o \in Opps, NotSent(o) PROVE XInv'
    <2>0. opp[o].pc \in {"approving", "swapping"} /\ opp[o].tx = "none" /\ opp[o].by # "cex"
      BY <1>0, <1>15 DEF NotSent, SwapOK, CexOK
    <2>1. CASE Done(o, "aborted") /\ UNCHANGED <<pool, allowance>>
      BY <1>1, <2>0, <2>1
    <2>2. CASE ~(Done(o, "aborted") /\ UNCHANGED <<pool, allowance>>)
      <3> DEFINE what == IF opp[o].pc = "approving" THEN "approve" ELSE "swap"
                 k == [opp[o] EXCEPT !.pc = "done", !.outcome = "aborted", !.lost = TRUE,
                                     !.tx = IF what = "swap" THEN "pool" ELSE @]
      <3>1. Becomes(o, k) /\ pool' = Append(pool, Entry(o, what)) /\ UNCHANGED allowance
        BY <1>15, <2>2 DEF NotSent, Entry
      <3>2. what \in {"approve", "swap"} /\ opp[o].pc = IF what = "swap" THEN "swapping" ELSE "approving"
        BY <2>0
      <3> HIDE DEF what
      <3>3. /\ k \in OppType /\ k.by = opp[o].by /\ k.size = opp[o].size /\ k.behind = opp[o].behind
            /\ k.tx = (IF what = "swap" THEN "pool" ELSE "none") /\ k.pc = "done" /\ k.outcome = "aborted"
            /\ k.lost
        BY <1>0, <2>0, <3>2 DEF OppType
      <3> HIDE DEF k
      <3> QED BY <1>12, <3>1, <3>2, <3>3
    <2> QED BY <2>1, <2>2
  <1>16. CASE UNCHANGED execVars
    <2>1. opp' = opp /\ pool' = pool /\ allowance' = allowance
      BY <1>16 DEF execVars
    <2> QED
      BY <2>1 DEF XInv, XType, OneGoing, PoolOK
  <1> QED
    BY <1>2, <1>3, <1>4, <1>5, <1>7, <1>8, <1>10, <1>11, <1>13, <1>14, <1>15, <1>16, MineStep DEF ExecNext

\* It holds before anything is traded.
LEMMA ExecStart == ExecInit => XInv
  <1> SUFFICES ASSUME ExecInit PROVE XInv
    OBVIOUS
  <1>1. opp = [o \in Opps |-> NewOpp] /\ pool = <<>> /\ allowance = 0
    BY DEF ExecInit
  <1>2. /\ NewOpp \in OppType /\ NewOpp.pc = "new" /\ NewOpp.by = "cex" /\ NewOpp.base = 0 /\ ~NewOpp.lost
        /\ NewOpp.tx = "none" /\ NewOpp.outcome = Unmet
    BY DEF NewOpp, OppType, Executor
  <1>3. pool \in Seq(PoolType) /\ DOMAIN pool = {}
    BY <1>1
  <1>4. XType
    BY <1>1, <1>2, <1>3 DEF XType
  <1>5. \A o \in Opps : opp[o] = NewOpp
    BY <1>1
  <1>6. CexOK(NewOpp) /\ SwapOK(NewOpp) /\ \A o \in Opps : Reserved(o, NewOpp, pool, allowance)
    BY <1>2, ExecutorConstants DEF CexOK, SwapOK, Reserved
  <1>7. OneGoing /\ PoolOK
    BY <1>2, <1>3, <1>5 DEF OneGoing, PoolOK, Going
  <1> QED
    BY <1>4, <1>5, <1>6, <1>7 DEF XInv

\* The executors report an exchange trade stuck exactly when it is long (every order answered
\* and filled), never report a swap with more certainty than the chain has, and a swap is
\* disallowed only if its allowance was read behind unmined transactions (executors/).
THEOREM ExecutorsReport == ExecSpec => [](StuckMeansLong /\ SwapReported /\ SwapsAllowed)
  <1>1. XInv => StuckMeansLong /\ SwapReported /\ SwapsAllowed
    BY DEF XInv, CexOK, SwapOK, StuckMeansLong, SwapReported, SwapsAllowed
  <1> QED
    BY <1>1, ExecStart, ExecStep, PTL DEF ExecSpec

-----------------------------------------------------------------------------
(* The inventory ledger.                                                    *)

\* The row's totals are the callers'.
BooksMatch == /\ reserved = held /\ pendingTx = sent + landed
              /\ used <= landed + owing /\ owing <= overran
              /\ ~known => held = 0 /\ sent = 0 /\ landed = 0 /\ used = 0 /\ owing = 0

\* The row, and a read that no settlement has overtaken, are at most what the chain
\* has and what of it has landed unsettled.
RowIsThere  == known /\ ~stale => available <= chain + used
ReadIsThere == reading # NoRead /\ ~torn => reading <= chain + used

LedgerInv == /\ LedgerTypeOK /\ BooksMatch /\ RowIsThere /\ ReadIsThere
             /\ ~known => available = 0
             /\ stale => everStale
             /\ ReservedIsCovered

\* The invariant holds at first.
LEMMA LedgerStarts == LedgerInit => LedgerInv
<1> SUFFICES ASSUME LedgerInit PROVE LedgerInv
  OBVIOUS
<1>1. LedgerTypeOK
  <2>1. /\ chain \in 0..Balance /\ outside \in 0..MaxOutside
        /\ available \in Int /\ reserved \in Nat /\ pendingTx \in Nat
        /\ held \in Nat /\ sent \in Nat /\ landed \in Nat /\ used \in Nat
        /\ owing \in Nat /\ overran \in 0..MaxOverrun
    BY LedgerConstants DEF LedgerInit
  <2> QED
    BY <2>1, Zenon DEF LedgerTypeOK, LedgerInit
<1>2. BooksMatch /\ ReservedIsCovered
  BY LedgerConstants DEF LedgerInit, BooksMatch, ReservedIsCovered
<1>3. RowIsThere /\ ReadIsThere /\ (~known => available = 0) /\ (stale => everStale)
  BY DEF LedgerInit, RowIsThere, ReadIsThere
<1> QED
  BY <1>1, <1>2, <1>3 DEF LedgerInv

\* Every step keeps it.
LEMMA LedgerKept == LedgerInv /\ [LedgerNext]_ledgerVars => LedgerInv'
<1> SUFFICES ASSUME LedgerInv, [LedgerNext]_ledgerVars PROVE LedgerInv'
  OBVIOUS
<1> USE LedgerConstants DEF LedgerInv, LedgerTypeOK, BooksMatch, RowIsThere, ReadIsThere,
        ReservedIsCovered, entry, books, settling, marks
<1>1. CASE Fetch
  <2>1. UNCHANGED <<chain, known, available, reserved, pendingTx, held, sent, landed, used, owing, overran,
                    stale, everStale, outside>>
    BY <1>1 DEF Fetch
  <2>2. reading' = chain /\ torn' = FALSE
    BY <1>1 DEF Fetch
  <2>3. LedgerTypeOK'
    BY <2>1, <2>2
  <2>4. ReadIsThere'
    BY <2>1, <2>2
  <2> QED
    BY <2>1, <2>3, <2>4
<1>2. CASE WriteRow
  BY <1>2 DEF WriteRow, KeepBooked
<1>3. CASE FetchFails
  BY <1>3 DEF FetchFails
<1>4. CASE Deposit
  BY <1>4 DEF Deposit
<1>5. CASE SpendOutside
  BY <1>5 DEF SpendOutside
<1>6. ASSUME NEW amount \in 1..Balance, Reserve(amount) PROVE LedgerInv'
  BY <1>6 DEF Reserve, Free
<1>7. ASSUME NEW amount \in 1..Balance, Release(amount) PROVE LedgerInv'
  BY <1>7 DEF Release
<1>8. ASSUME NEW amount \in 1..Balance, MarkPending(amount) PROVE LedgerInv'
  BY <1>8 DEF MarkPending
<1>9. ASSUME NEW amount \in 1..Balance, NEW consumed \in 0..Balance, Land(amount, consumed)
      PROVE LedgerInv'
  <2>1. UNCHANGED <<known, available, reserved, pendingTx, reading, held, torn, stale, everStale, outside>>
    BY <1>9 DEF Land
  <2> DEFINE over == Excess(consumed, amount)
  <2>2. /\ amount \in Nat /\ consumed \in Nat /\ over \in Nat /\ consumed <= amount + over
        /\ ~known => amount > sent
    BY DEF Excess
  <2>3. /\ amount <= sent /\ consumed <= chain /\ overran + over <= MaxOverrun
        /\ chain' = chain - consumed
        /\ sent' = sent - amount /\ landed' = landed + amount /\ used' = used + consumed
        /\ owing' = owing + over /\ overran' = overran + over
    BY <1>9 DEF Land
  <2> HIDE DEF over
  <2>4. LedgerTypeOK'
    <3>1. /\ chain' \in 0..Balance /\ sent' \in Nat /\ landed' \in Nat /\ used' \in Nat
          /\ owing' \in Nat /\ overran' \in 0..MaxOverrun
      BY <2>2, <2>3
    <3> QED
      BY <3>1, <2>1
  <2>5. BooksMatch' /\ RowIsThere' /\ ReadIsThere' /\ ReservedIsCovered'
    BY <2>1, <2>2, <2>3
  <2> QED
    BY <2>1, <2>4, <2>5
<1>10. ASSUME NEW amount \in 1..Balance, NEW consumed \in 0..Balance, Settle(amount, consumed)
       PROVE LedgerInv'
  <2>1. UNCHANGED <<chain, known, reserved, reading, held, sent, overran, stale, everStale, outside>>
    BY <1>10 DEF Settle
  <2> DEFINE over == Excess(consumed, amount)
             under == Excess(amount, consumed)
  <2>0. over \in Nat /\ under \in Nat /\ amount - consumed = under - over
    BY DEF Excess
  <2>2. /\ consumed \in Nat /\ amount \in Nat
        /\ pendingTx' = pendingTx - amount /\ available' = available - consumed
        /\ landed' = landed - amount /\ used' = used - consumed /\ owing' = owing - over
        /\ amount <= landed /\ consumed <= used /\ over <= owing
        /\ under <= landed - used + owing
        /\ known
    BY <1>10 DEF Settle, Accounted
  <2>3. torn' \in BOOLEAN /\ (~torn' => ~torn /\ reading = NoRead)
    BY <1>10, Zenon DEF Settle
  <2> HIDE DEF over, under
  <2>4. LedgerTypeOK'
    <3>1. /\ pendingTx' \in Nat /\ landed' \in Nat /\ used' \in Nat /\ available' \in Int
          /\ owing' \in Nat
      BY <2>0, <2>2
    <3> QED
      BY <3>1, <2>1, <2>3
  <2>5. BooksMatch' /\ RowIsThere' /\ ReservedIsCovered'
    BY <2>0, <2>1, <2>2
  <2>6. ReadIsThere'
    BY <2>1, <2>3
  <2> QED
    BY <2>1, <2>2, <2>4, <2>5, <2>6
<1>11. CASE UNCHANGED ledgerVars
  BY <1>11 DEF ledgerVars
<1> QED
  BY <1>1, <1>2, <1>3, <1>4, <1>5, <1>6, <1>7, <1>8, <1>9, <1>10, <1>11 DEF LedgerNext

\* The invariant holds throughout.
LEMMA LedgerAlways == LedgerSpec => []LedgerInv
BY LedgerStarts, LedgerKept, PTL DEF LedgerSpec

\* What canAfford() calls free is on chain and promised to nobody, and what is reserved
\* can be paid, but for what transactions took beyond their reservations, and under the
\* provisos of the two invariants.
THEOREM LedgerIsHonest == LedgerSpec => []LedgerHonest
<1>1. LedgerInv => FreeIsThere
  BY LedgerConstants DEF LedgerInv, LedgerTypeOK, BooksMatch, RowIsThere, ReservedIsCovered,
     FreeIsThere, Free
<1>2. LedgerInv => LedgerHonest
  BY <1>1 DEF LedgerInv, LedgerHonest
<1> QED
  BY <1>2, LedgerAlways, PTL

-----------------------------------------------------------------------------
(* The swaps of the trading workers.                                         *)

Swaps == [pc : {"new", "quoting", "sent", "done"}, side : {"buy", "sell"},
          amount : Nat, got : Int, unheard : BOOLEAN, undone : BOOLEAN, below : SUBSET SwapIds,
          tx : {"none", "pending", "processed", "confirmed", "final", "faulty", "failed", "lapsed"},
          answer : {Untold, "refused", "aborted", "reverted", "timeout", "stuck", "threw", "filled"}]

\* The sum over all swaps of a weight.
SwapSum(w) == LET Sum[n \in 0..MaxSwaps] == IF n = 0 THEN 0 ELSE Sum[n - 1] + w[n] IN Sum[MaxSwaps]

\* What a swap adds to what is reported bought, to what is final, and to what is sure: what
\* was reported, and what came in and stays although its buy was given up.
FilledPart(s) == IF s.answer = "filled" THEN s.got ELSE 0
FinalPart(s) == IF s.tx = "final" THEN s.got ELSE 0
SurePart(s) == IF \/ s.answer = "filled"
                  \/ s.pc = "done" /\ s.got > 0 /\ s.tx \in {"confirmed", "final"}
               THEN s.got ELSE 0

Gots == [n \in SwapIds |-> swap[n].got]
Filleds == [n \in SwapIds |-> FilledPart(swap[n])]
Finals == [n \in SwapIds |-> FinalPart(swap[n])]
Sures == [n \in SwapIds |-> SurePart(swap[n])]
Belows(n) == [m \in SwapIds |-> IF m \in swap[n].below THEN swap[m].got ELSE 0]

\* The recursion has a solution, and SwapSum takes one.
LEMMA SwapSumUnfolds ==
    ASSUME NEW w \in [SwapIds -> Int]
    PROVE  \E S : /\ S \in [0..MaxSwaps -> Int] /\ S[0] = 0
                  /\ \A n \in SwapIds : S[n] = S[n - 1] + w[n]
                  /\ SwapSum(w) = S[MaxSwaps]
  <1> DEFINE Solved(n) == {S \in [0..n -> Int] :
                              \A d \in 0..n : S[d] = IF d = 0 THEN 0 ELSE S[d - 1] + w[d]}
             T == {n \in Nat : n <= MaxSwaps => Solved(n) # {}}
  <1>1. MaxSwaps \in Nat
    BY DexConstants
  <1>2. 0 \in T
    <2> DEFINE S == [d \in 0..0 |-> 0]
    <2>1. S \in [0..0 -> Int]
      OBVIOUS
    <2>2. \A d \in 0..0 : S[d] = IF d = 0 THEN 0 ELSE S[d - 1] + w[d]
      OBVIOUS
    <2>3. Solved(0) # {}
      BY <2>1, <2>2
    <2> QED BY <2>3
  <1>3. ASSUME NEW n \in Nat, n \in T PROVE n + 1 \in T
    <2> SUFFICES ASSUME n + 1 <= MaxSwaps PROVE Solved(n + 1) # {}
      OBVIOUS
    <2> HIDE DEF Solved
    <2>0. PICK S : S \in Solved(n)
      BY <1>1, <1>3
    <2>1. S \in [0..n -> Int] /\ \A d \in 0..n : S[d] = IF d = 0 THEN 0 ELSE S[d - 1] + w[d]
      BY <2>0 DEF Solved
    <2> DEFINE R == [d \in 0..n + 1 |-> IF d = n + 1 THEN S[n] + w[n + 1] ELSE S[d]]
    <2>2. n + 1 \in SwapIds /\ S[n] + w[n + 1] \in Int
      <3>1. n + 1 \in SwapIds
        BY <1>1 DEF SwapIds
      <3>2. S[n] \in Int /\ w[n + 1] \in Int
        BY <2>1, <3>1
      <3> QED BY <3>1, <3>2
    <2>3. R \in [0..n + 1 -> Int]
      <3>1. \A d \in 0..n : S[d] \in Int
        BY <2>1
      <3>2. \A d \in 0..n + 1 : d = n + 1 \/ d \in 0..n
        OBVIOUS
      <3> QED BY <2>2, <3>1, <3>2
    <2>4. ASSUME NEW d \in 0..n + 1 PROVE R[d] = IF d = 0 THEN 0 ELSE R[d - 1] + w[d]
      <3>1. CASE d = n + 1
        <4>1. R[d] = S[n] + w[n + 1] /\ d - 1 = n /\ R[d - 1] = S[n] /\ d # 0
          BY <3>1
        <4> HIDE DEF R
        <4> QED BY <3>1, <4>1
      <3>2. CASE d # n + 1
        <4>1. d \in 0..n /\ R[d] = S[d]
          BY <3>2
        <4>2. d # 0 => d - 1 \in 0..n + 1 /\ d - 1 # n + 1 /\ R[d - 1] = S[d - 1]
          BY <3>2
        <4> HIDE DEF R
        <4> QED BY <2>1, <4>1, <4>2
      <3> QED BY <3>1, <3>2
    <2> HIDE DEF R
    <2> QED BY <2>3, <2>4 DEF Solved
  <1> HIDE DEF T
  <1>4. MaxSwaps \in T
    BY <1>1, <1>2, <1>3, SetInduction
  <1>5. PICK S \in [0..MaxSwaps -> Int] :
            \A d \in 0..MaxSwaps : S[d] = IF d = 0 THEN 0 ELSE S[d - 1] + w[d]
    BY <1>1, <1>4 DEF T
  <1>6. S = [d \in 0..MaxSwaps |-> IF d = 0 THEN 0 ELSE S[d - 1] + w[d]]
    BY <1>5
  <1> DEFINE Is(R) == R = [d \in 0..MaxSwaps |-> IF d = 0 THEN 0 ELSE R[d - 1] + w[d]]
             C == CHOOSE R : Is(R)
  <1>7. Is(C)
    BY <1>6
  <1>8. SwapSum(w) = C[MaxSwaps]
    BY DEF SwapSum
  <1> HIDE DEF C
  <1>9. C[0] = 0 /\ \A d \in SwapIds : C[d] = C[d - 1] + w[d]
    BY <1>1, <1>7 DEF SwapIds
  <1> DEFINE U == {n \in Nat : n <= MaxSwaps => C[n] \in Int}
  <1>10. 0 \in U
    BY <1>9
  <1>11. ASSUME NEW n \in Nat, n \in U PROVE n + 1 \in U
    <2> SUFFICES ASSUME n + 1 <= MaxSwaps PROVE C[n + 1] \in Int
      OBVIOUS
    <2>1. n + 1 \in SwapIds /\ (n + 1) - 1 = n /\ C[n] \in Int
      BY <1>1, <1>11 DEF SwapIds
    <2> QED BY <1>9, <2>1
  <1> HIDE DEF U
  <1>12. Nat \subseteq U
    BY <1>10, <1>11, SetInduction
  <1>13. \A d \in 0..MaxSwaps : C[d] \in Int
    BY <1>1, <1>12 DEF U
  <1>14. C \in [0..MaxSwaps -> Int]
    BY <1>7, <1>13
  <1> QED BY <1>8, <1>9, <1>14

\* A sum grows with its weights, and with one of them by as much.
LEMMA SwapSumGrows ==
    ASSUME NEW w \in [SwapIds -> Int], NEW v \in [SwapIds -> Int]
    PROVE  /\ SwapSum(w) \in Int
           /\ (\A m \in SwapIds : w[m] <= v[m]) => SwapSum(w) <= SwapSum(v)
           /\ (\A m \in SwapIds : w[m] = 0) => SwapSum(w) = 0
           /\ \A n \in SwapIds : (\A m \in SwapIds \ {n} : v[m] = w[m])
                                    => SwapSum(v) = SwapSum(w) + v[n] - w[n]
  <1>1. PICK S : /\ S \in [0..MaxSwaps -> Int] /\ S[0] = 0
                 /\ \A n \in SwapIds : S[n] = S[n - 1] + w[n]
                 /\ SwapSum(w) = S[MaxSwaps]
    BY SwapSumUnfolds
  <1>2. PICK R : /\ R \in [0..MaxSwaps -> Int] /\ R[0] = 0
                 /\ \A n \in SwapIds : R[n] = R[n - 1] + v[n]
                 /\ SwapSum(v) = R[MaxSwaps]
    BY SwapSumUnfolds
  <1>3. MaxSwaps \in Nat
    BY DexConstants
  <1>4. ASSUME NEW k \in Nat, k + 1 <= MaxSwaps
        PROVE  /\ k + 1 \in SwapIds /\ k \in 0..MaxSwaps /\ k + 1 \in 0..MaxSwaps
               /\ S[k + 1] = S[k] + w[k + 1] /\ R[k + 1] = R[k] + v[k + 1]
               /\ {S[k], S[k + 1], R[k], R[k + 1], w[k + 1], v[k + 1]} \subseteq Int
    <2>1. k + 1 \in SwapIds /\ k \in 0..MaxSwaps /\ k + 1 \in 0..MaxSwaps /\ (k + 1) - 1 = k
      BY <1>3, <1>4 DEF SwapIds
    <2> QED BY <1>1, <1>2, <2>1
  <1>5. ASSUME \A m \in SwapIds : w[m] <= v[m] PROVE SwapSum(w) <= SwapSum(v)
    <2> DEFINE T == {k \in Nat : k <= MaxSwaps => S[k] <= R[k]}
    <2>1. 0 \in T
      BY <1>1, <1>2
    <2>2. ASSUME NEW k \in Nat, k \in T PROVE k + 1 \in T
      <3> SUFFICES ASSUME k + 1 <= MaxSwaps PROVE S[k + 1] <= R[k + 1]
        OBVIOUS
      <3>1. S[k] <= R[k] /\ w[k + 1] <= v[k + 1]
        BY <1>3, <1>4, <1>5, <2>2
      <3> QED BY <1>4, <3>1
    <2> HIDE DEF T
    <2>3. MaxSwaps \in T
      BY <1>3, <2>1, <2>2, SetInduction
    <2> QED BY <1>1, <1>2, <1>3, <2>3 DEF T
  <1>6. ASSUME \A m \in SwapIds : w[m] = 0 PROVE SwapSum(w) = 0
    <2> DEFINE T == {k \in Nat : k <= MaxSwaps => S[k] = 0}
    <2>1. 0 \in T
      BY <1>1
    <2>2. ASSUME NEW k \in Nat, k \in T PROVE k + 1 \in T
      <3> SUFFICES ASSUME k + 1 <= MaxSwaps PROVE S[k + 1] = 0
        OBVIOUS
      <3>1. S[k] = 0 /\ w[k + 1] = 0
        BY <1>3, <1>4, <1>6, <2>2
      <3> QED BY <1>4, <3>1
    <2> HIDE DEF T
    <2>3. MaxSwaps \in T
      BY <1>3, <2>1, <2>2, SetInduction
    <2> QED BY <1>1, <1>3, <2>3 DEF T
  <1>7. ASSUME NEW n \in SwapIds, \A m \in SwapIds \ {n} : v[m] = w[m]
        PROVE  SwapSum(v) = SwapSum(w) + v[n] - w[n]
    <2> DEFINE T == {k \in Nat : k <= MaxSwaps => R[k] = S[k] + IF n <= k THEN v[n] - w[n] ELSE 0}
    <2>0. n \in Nat /\ 1 <= n /\ n <= MaxSwaps /\ v[n] \in Int /\ w[n] \in Int
      BY <1>3 DEF SwapIds
    <2>1. 0 \in T
      BY <1>1, <1>2, <2>0
    <2>2. ASSUME NEW k \in Nat, k \in T PROVE k + 1 \in T
      <3> SUFFICES ASSUME k + 1 <= MaxSwaps
                   PROVE  R[k + 1] = S[k + 1] + IF n <= k + 1 THEN v[n] - w[n] ELSE 0
        OBVIOUS
      <3>1. R[k] = S[k] + IF n <= k THEN v[n] - w[n] ELSE 0
        BY <1>3, <2>2
      <3>2. CASE n = k + 1
        BY <1>4, <2>0, <3>1, <3>2
      <3>3. CASE n # k + 1
        <4>1. v[k + 1] = w[k + 1] /\ (n <= k + 1 <=> n <= k)
          BY <1>4, <1>7, <2>0, <3>3
        <4> QED BY <1>4, <2>0, <3>1, <4>1
      <3> QED BY <3>2, <3>3
    <2> HIDE DEF T
    <2>3. MaxSwaps \in T
      BY <1>3, <2>1, <2>2, SetInduction
    <2> QED BY <1>1, <1>2, <1>3, <2>0, <2>3 DEF T
  <1> QED BY <1>1, <1>3, <1>5, <1>6, <1>7

\* A swap's sides add up, and what it says is so.
SoundSwap(s) ==
    /\ s.pc = "new" => s.answer = Untold /\ s.side = "buy" /\ s.amount = 0
    /\ s.pc \in {"new", "quoting"} => s.tx = "none"
    /\ s.pc \in {"quoting", "sent"} => s.answer = Untold
    /\ s.got # 0 => s.tx \in {"processed", "confirmed", "final"}
    /\ s.side = "buy" => 0 <= s.got /\ s.got <= s.amount
    /\ s.side = "sell" => s.got <= 0 /\ (s.tx \in {"processed", "confirmed", "final"} => s.got = -s.amount)
    /\ ~Solana => s.tx \notin {"processed", "confirmed", "faulty"}
    /\ dexVenue # "pumpfun" /\ s.side = "buy" => s.amount <= DexMaxUsd
    /\ s.side = "buy" /\ (s.pc = "quoting" \/ s.tx # "none") => DexSlippage <= s.amount
    /\ s.answer = "filled" => s.tx \in {"confirmed", "final"}
    /\ s.answer \in {"refused", "aborted", "reverted"} /\ ~s.unheard /\ ~s.undone
          => s.tx \in {"none", "faulty", "failed"}

Live(s) == s.pc \in {"quoting", "sent"}

\* A swap under way buys while nothing is held, or sells what is.
OfBooks(s) == Live(s) => /\ s.side = "buy" => position = 0
                         /\ s.side = "sell" /\ dexVenue # "pumpfun" => s.amount = position

\* One swap at a time.
InTurn == \A n \in SwapIds : swap[n].pc # "new" => \A m \in 1..n - 1 : swap[m].pc = "done"

Settled(n) == swap[n].tx \in {"confirmed", "final", "failed"}

\* The blocks are in a row: what is settled is so down to the first, and a swap under way
\* came after all that were reported.
ChainOK ==
    /\ \A n \in SwapIds : swap[n].below \subseteq Chain \ {n}
    /\ \A n \in SwapIds \ Chain : swap[n].below = {}
    /\ \A m, n \in Chain : m = n \/ m \in swap[n].below \/ n \in swap[m].below
    /\ \A n \in SwapIds : Settled(n) => \A m \in swap[n].below : Settled(m)
    /\ \A m, n \in SwapIds : Live(swap[n]) /\ n \in Chain /\ swap[m].answer = "filled" => m \in swap[n].below

\* The wallet is what the swaps got, and was at every block.
WalletOK ==
    /\ wallet = SwapSum(Gots) /\ wallet >= 0
    /\ finalized = SwapSum(Finals)
    /\ \A n \in Chain : SwapSum(Belows(n)) >= 0 /\ SwapSum(Belows(n)) + swap[n].got >= 0

\* What was reported bought is no more than the position and the limit, and what is sure
\* covers the position.
PositionOK ==
    /\ dexVenue # "pumpfun" => SwapSum(Filleds) <= position /\ SwapSum(Filleds) <= DexMaxUsd
    /\ excused = {} => position <= SwapSum(Sures)

DexInv ==
    /\ dexVenue \in DexVenues /\ swap \in [SwapIds -> Swaps] /\ position \in Nat
    /\ wallet \in Int /\ finalized \in Int
    /\ \A n \in SwapIds : SoundSwap(swap[n]) /\ OfBooks(swap[n])
    /\ InTurn /\ ChainOK /\ WalletOK /\ PositionOK

\* What the sums are of.
LEMMA SumTypes ==
    ASSUME swap \in [SwapIds -> Swaps]
    PROVE  /\ {Gots, Filleds, Finals, Sures} \subseteq [SwapIds -> Int]
           /\ \A n \in SwapIds : Belows(n) \in [SwapIds -> Int]
           /\ SwapSum(Gots) \in Int /\ SwapSum(Filleds) \in Int
           /\ SwapSum(Finals) \in Int /\ SwapSum(Sures) \in Int
           /\ \A n \in SwapIds : SwapSum(Belows(n)) \in Int
  <1>1. \A n \in SwapIds : swap[n].got \in Int
    BY DEF Swaps
  <1>2. /\ Gots \in [SwapIds -> Int] /\ Filleds \in [SwapIds -> Int]
        /\ Finals \in [SwapIds -> Int] /\ Sures \in [SwapIds -> Int]
    BY <1>1 DEF Gots, Filleds, Finals, Sures, FilledPart, FinalPart, SurePart
  <1>3. \A n \in SwapIds : Belows(n) \in [SwapIds -> Int]
    BY <1>1 DEF Belows
  <1> QED BY <1>2, <1>3, SwapSumGrows

\* One swap moves on, and the sums by what it adds.
LEMMA Recount ==
    ASSUME swap \in [SwapIds -> Swaps], NEW n \in SwapIds, NEW r \in Swaps, TurnsInto(n, r)
    PROVE  /\ swap' \in [SwapIds -> Swaps] /\ swap'[n] = r
           /\ \A m \in SwapIds \ {n} : swap'[m] = swap[m]
           /\ SwapSum(Gots') = SwapSum(Gots) + r.got - swap[n].got
           /\ SwapSum(Filleds') = SwapSum(Filleds) + FilledPart(r) - FilledPart(swap[n])
           /\ SwapSum(Finals') = SwapSum(Finals) + FinalPart(r) - FinalPart(swap[n])
           /\ SwapSum(Sures') = SwapSum(Sures) + SurePart(r) - SurePart(swap[n])
           /\ {r.got, FilledPart(r), FinalPart(r), SurePart(r)} \subseteq Int
           /\ {swap[n].got, FilledPart(swap[n]), FinalPart(swap[n]), SurePart(swap[n])} \subseteq Int
           /\ SwapSum(Gots') \in Int /\ SwapSum(Filleds') \in Int
           /\ SwapSum(Finals') \in Int /\ SwapSum(Sures') \in Int
  <1>1. /\ swap' \in [SwapIds -> Swaps] /\ swap'[n] = r
        /\ \A m \in SwapIds \ {n} : swap'[m] = swap[m]
    BY DEF TurnsInto
  <1>2. \A s \in Swaps : {s.got, FilledPart(s), FinalPart(s), SurePart(s)} \subseteq Int
    BY DEF Swaps, FilledPart, FinalPart, SurePart
  <1>3. /\ Gots' \in [SwapIds -> Int] /\ Filleds' \in [SwapIds -> Int]
        /\ Finals' \in [SwapIds -> Int] /\ Sures' \in [SwapIds -> Int]
    BY <1>1, <1>2 DEF Gots, Filleds, Finals, Sures
  <1>4. /\ Gots \in [SwapIds -> Int] /\ Filleds \in [SwapIds -> Int]
        /\ Finals \in [SwapIds -> Int] /\ Sures \in [SwapIds -> Int]
    BY SumTypes
  <1>5. SwapSum(Gots') = SwapSum(Gots) + r.got - swap[n].got
    <2>1. /\ \A m \in SwapIds \ {n} : Gots'[m] = Gots[m]
          /\ Gots'[n] = r.got /\ Gots[n] = swap[n].got
      BY <1>1 DEF Gots
    <2> QED BY <1>3, <1>4, <2>1, SwapSumGrows
  <1>6. SwapSum(Filleds') = SwapSum(Filleds) + FilledPart(r) - FilledPart(swap[n])
    <2>1. /\ \A m \in SwapIds \ {n} : Filleds'[m] = Filleds[m]
          /\ Filleds'[n] = FilledPart(r) /\ Filleds[n] = FilledPart(swap[n])
      BY <1>1 DEF Filleds
    <2> QED BY <1>3, <1>4, <2>1, SwapSumGrows
  <1>7. SwapSum(Finals') = SwapSum(Finals) + FinalPart(r) - FinalPart(swap[n])
    <2>1. /\ \A m \in SwapIds \ {n} : Finals'[m] = Finals[m]
          /\ Finals'[n] = FinalPart(r) /\ Finals[n] = FinalPart(swap[n])
      BY <1>1 DEF Finals
    <2> QED BY <1>3, <1>4, <2>1, SwapSumGrows
  <1>8. SwapSum(Sures') = SwapSum(Sures) + SurePart(r) - SurePart(swap[n])
    <2>1. /\ \A m \in SwapIds \ {n} : Sures'[m] = Sures[m]
          /\ Sures'[n] = SurePart(r) /\ Sures[n] = SurePart(swap[n])
      BY <1>1 DEF Sures
    <2> QED BY <1>3, <1>4, <2>1, SwapSumGrows
  <1>9. /\ SwapSum(Gots') \in Int /\ SwapSum(Filleds') \in Int
        /\ SwapSum(Finals') \in Int /\ SwapSum(Sures') \in Int
    BY <1>3, SwapSumGrows
  <1>10. swap[n] \in Swaps
    OBVIOUS
  <1> QED BY <1>1, <1>2, <1>5, <1>6, <1>7, <1>8, <1>9, <1>10

\* While a swap is under way no other is.
LEMMA OneLive ==
    ASSUME DexInv, NEW n \in SwapIds, Live(swap[n])
    PROVE  \A m \in SwapIds \ {n} : swap[m].pc \in {"new", "done"}
  <1> SUFFICES ASSUME NEW m \in SwapIds, m # n, Live(swap[m]) PROVE FALSE
    BY DEF DexInv, Swaps, Live
  <1>1. m \in 1..n - 1 \/ n \in 1..m - 1
    BY DexConstants DEF SwapIds
  <1> QED BY <1>1 DEF DexInv, InTurn, Live

\* One swap moves on, and neither the books nor what was reported change.
LEMMA Moves ==
    ASSUME DexInv, NEW n \in SwapIds, NEW r \in Swaps, TurnsInto(n, r), UNCHANGED dexVenue,
           SoundSwap(r), OfBooks(r)',
           swap[n].pc = "done" => r.pc = "done", swap[n].pc = "new" => Turn(n),
           position' = position \/ Live(swap[n]), position' \in Nat,
           ChainOK', wallet' \in Int, finalized' \in Int, WalletOK', PositionOK'
    PROVE  DexInv'
  <1>1. /\ swap' \in [SwapIds -> Swaps] /\ swap'[n] = r
        /\ \A m \in SwapIds \ {n} : swap'[m] = swap[m]
    BY Recount DEF DexInv
  <1>2. ASSUME NEW m \in SwapIds PROVE SoundSwap(swap[m])' /\ OfBooks(swap[m])'
    <2>1. CASE m = n
      <3>1. SoundSwap(r)' = SoundSwap(r)
        BY DEF SoundSwap, Solana
      <3>2. swap'[m] = r
        BY <1>1, <2>1
      <3> QED BY <3>1, <3>2 DEF SoundSwap, Solana, OfBooks, Live
    <2>2. CASE m # n
      <3>1. swap'[m] = swap[m] /\ SoundSwap(swap[m]) /\ OfBooks(swap[m])
        BY <1>1, <2>2 DEF DexInv
      <3>2. Live(swap[n]) => ~Live(swap[m])
        BY <2>2, OneLive DEF Live
      <3> QED BY <3>1, <3>2 DEF SoundSwap, Solana, OfBooks
    <2> QED BY <2>1, <2>2
  <1>3. InTurn'
    <2> SUFFICES ASSUME NEW k \in SwapIds, swap'[k].pc # "new", NEW m \in 1..k - 1
                 PROVE  swap'[m].pc = "done"
      BY DEF InTurn
    <2>1. m \in SwapIds /\ m # k
      BY DexConstants DEF SwapIds
    <2>2. swap[k].pc # "new" \/ (k = n /\ Turn(n))
      BY <1>1
    <2>3. swap[m].pc = "done"
      BY <2>1, <2>2 DEF DexInv, InTurn, Turn
    <2> QED BY <1>1, <2>1, <2>3
  <1> QED BY <1>1, <1>2, <1>3 DEF DexInv

\* What is sure does not shrink while the books stay as they are.
LEMMA BooksStay ==
    ASSUME DexInv, NEW n \in SwapIds, NEW r \in Swaps, TurnsInto(n, r),
           UNCHANGED <<dexVenue, position, excused>>,
           FilledPart(r) = FilledPart(swap[n]), SurePart(swap[n]) <= SurePart(r)
    PROVE  PositionOK'
  <1>1. /\ SwapSum(Filleds') = SwapSum(Filleds) + FilledPart(r) - FilledPart(swap[n])
        /\ SwapSum(Sures') = SwapSum(Sures) + SurePart(r) - SurePart(swap[n])
        /\ {FilledPart(r), SurePart(r), FilledPart(swap[n]), SurePart(swap[n])} \subseteq Int
    BY Recount DEF DexInv
  <1>2. SwapSum(Filleds) \in Int /\ SwapSum(Sures) \in Int /\ position \in Nat
    BY SumTypes DEF DexInv
  <1>3. SwapSum(Filleds') = SwapSum(Filleds) /\ SwapSum(Sures) <= SwapSum(Sures')
    BY <1>1, <1>2
  <1>4. SwapSum(Sures') \in Int
    BY Recount DEF DexInv
  <1> QED BY <1>2, <1>3, <1>4 DEF PositionOK, DexInv

\* The chain stays as it is, up to what is settled of it.
LEMMA ChainStays ==
    ASSUME DexInv, NEW n \in SwapIds, NEW r \in Swaps, TurnsInto(n, r), UNCHANGED wallet,
           r.got = swap[n].got, r.below = swap[n].below,
           finalized' = finalized + FinalPart(r) - FinalPart(swap[n]),
           r.tx \in {"processed", "confirmed", "final", "faulty", "failed"} <=> InBlock(n),
           Settled(n) => r.tx \in {"confirmed", "final", "failed"},
           r.tx \in {"confirmed", "final", "failed"} => \A m \in swap[n].below : Settled(m),
           Live(r) => Live(swap[n]) \/ ~InBlock(n),
           r.answer = "filled" => swap[n].answer = "filled" \/ (Live(swap[n]) /\ ~Live(r))
    PROVE  ChainOK' /\ WalletOK' /\ wallet' \in Int /\ finalized' \in Int
  <1>1. /\ swap' \in [SwapIds -> Swaps] /\ swap'[n] = r
        /\ \A m \in SwapIds \ {n} : swap'[m] = swap[m]
        /\ SwapSum(Gots') = SwapSum(Gots) + r.got - swap[n].got
        /\ SwapSum(Finals') = SwapSum(Finals) + FinalPart(r) - FinalPart(swap[n])
        /\ {r.got, swap[n].got, FinalPart(r), FinalPart(swap[n])} \subseteq Int
    BY Recount DEF DexInv
  <1>2. /\ \A m \in SwapIds : swap'[m].got = swap[m].got /\ swap'[m].below = swap[m].below
        /\ \A m \in SwapIds : InBlock(m)' = InBlock(m)
        /\ \A m \in SwapIds : Settled(m) => Settled(m)'
    BY <1>1 DEF InBlock, Settled
  <1>3. Chain' = Chain
    BY <1>2 DEF Chain
  <1>4. \A m \in SwapIds : Belows(m)' = Belows(m)
    BY <1>2 DEF Belows
  <1>5. WalletOK' /\ finalized' \in Int
    <2>1. SwapSum(Gots) \in Int /\ SwapSum(Finals) \in Int
      BY SumTypes DEF DexInv
    <2>2. SwapSum(Gots') = SwapSum(Gots)
      BY <1>1, <2>1
    <2>3. finalized' = SwapSum(Finals') /\ finalized' \in Int
      BY <1>1, <2>1 DEF DexInv, WalletOK
    <2>4. \A m \in Chain : m \in SwapIds
      BY DEF Chain
    <2> QED BY <1>2, <1>3, <1>4, <2>2, <2>3, <2>4 DEF DexInv, WalletOK
  <1>6. \A k \in SwapIds : Settled(k)' => \A m \in swap'[k].below : Settled(m)'
    <2> SUFFICES ASSUME NEW k \in SwapIds, Settled(k)', NEW m \in swap'[k].below PROVE Settled(m)'
      OBVIOUS
    <2>1. m \in swap[k].below /\ m \in SwapIds
      BY <1>2 DEF DexInv, ChainOK, Chain
    <2>2. Settled(m)
      BY <1>1, <2>1 DEF DexInv, ChainOK, Settled
    <2> QED BY <1>2, <2>1, <2>2
  <1>7. ASSUME NEW m \in SwapIds, NEW k \in SwapIds, Live(swap'[k]), k \in Chain, swap'[m].answer = "filled"
        PROVE  m \in swap[k].below
    <2>1. Live(swap[k])
      BY <1>1, <1>7 DEF Chain
    <2>2. CASE swap[m].answer = "filled"
      BY <1>7, <2>1, <2>2 DEF DexInv, ChainOK
    <2>3. CASE swap[m].answer # "filled"
      <3>1. m = n /\ Live(swap[n]) /\ ~Live(r)
        BY <1>1, <1>7, <2>3
      <3>2. k # n
        BY <1>1, <1>7, <3>1
      <3> QED BY <2>1, <3>1, <3>2, OneLive DEF Live
    <2> QED BY <2>2, <2>3
  <1>8. ChainOK'
    <2>1. \A m \in SwapIds : swap'[m].below \subseteq Chain \ {m}
      BY <1>2 DEF DexInv, ChainOK
    <2>2. \A m \in SwapIds \ Chain : swap'[m].below = {}
      BY <1>2 DEF DexInv, ChainOK
    <2>3. \A m, k \in Chain : m = k \/ m \in swap'[k].below \/ k \in swap'[m].below
      BY <1>2 DEF DexInv, ChainOK, Chain
    <2>4. \A m, k \in SwapIds : Live(swap'[k]) /\ k \in Chain /\ swap'[m].answer = "filled"
             => m \in swap'[k].below
      BY <1>2, <1>7
    <2> QED BY <1>3, <1>6, <2>1, <2>2, <2>3, <2>4 DEF ChainOK
  <1> QED BY <1>5, <1>8 DEF DexInv

\* A swap moves on without moving anything.
LEMMA Follows ==
    ASSUME DexInv, NEW n \in SwapIds, NEW r \in Swaps, TurnsInto(n, r),
           UNCHANGED <<dexVenue, wallet, position, excused>>,
           finalized' = finalized + FinalPart(r) - FinalPart(swap[n]),
           SoundSwap(r), OfBooks(r),
           swap[n].pc = "done" => r.pc = "done", swap[n].pc = "new" => Turn(n),
           r.got = swap[n].got, r.below = swap[n].below,
           r.tx \in {"processed", "confirmed", "final", "faulty", "failed"} <=> InBlock(n),
           Settled(n) => r.tx \in {"confirmed", "final", "failed"},
           r.tx \in {"confirmed", "final", "failed"} => \A m \in swap[n].below : Settled(m),
           Live(r) => Live(swap[n]) \/ ~InBlock(n),
           r.answer = "filled" <=> swap[n].answer = "filled",
           SurePart(swap[n]) <= SurePart(r)
    PROVE  DexInv'
  <1>1. FilledPart(r) = FilledPart(swap[n])
    BY DEF FilledPart
  <1>2. PositionOK'
    BY <1>1, BooksStay
  <1>3. ChainOK' /\ WalletOK' /\ wallet' \in Int /\ finalized' \in Int
    BY ChainStays
  <1>4. OfBooks(r)' /\ position' \in Nat
    BY DEF OfBooks, DexInv
  <1> QED BY <1>2, <1>3, <1>4, Moves

\* Before it is sent, a swap is on no chain.
LEMMA NotSentYet ==
    ASSUME DexInv, NEW n \in SwapIds
    PROVE  /\ swap[n] \in Swaps /\ SoundSwap(swap[n]) /\ OfBooks(swap[n])
           /\ swap[n].tx \notin {"processed", "confirmed", "final", "faulty", "failed"}
                 => swap[n].got = 0 /\ ~InBlock(n) /\ ~Settled(n) /\ swap[n].below = {}
           /\ swap[n].tx \in {"confirmed", "final", "failed"} => \A m \in swap[n].below : Settled(m)
           /\ swap[n].pc \in {"new", "quoting"} => swap[n].tx = "none"
           /\ finalized \in Int /\ wallet \in Int /\ position \in Nat /\ swap[n].got \in Int
  BY DEF DexInv, SoundSwap, InBlock, Settled, ChainOK, Chain, Swaps

\* Asking for a swap keeps the invariant.
LEMMA AskStep == ASSUME DexInv, NEW n \in SwapIds, (\E usd \in DexSizes : AskBuy(n, usd)) \/ AskSell(n)
                 PROVE  DexInv'
  <1>1. /\ Turn(n) /\ swap[n].pc = "new" /\ swap[n].tx = "none" /\ swap[n].side = "buy" /\ swap[n].amount = 0
        /\ swap[n].answer = Untold /\ swap[n].got = 0 /\ swap[n].below = {}
        /\ UNCHANGED <<dexVenue, wallet, finalized, position, excused>>
    BY NotSentYet DEF AskBuy, AskSell, Turn, SoundSwap, UnchangedBooks, UnchangedChain
  <1>0. PICK s \in Swaps : s = swap[n]
    BY NotSentYet
  <1> DEFINE Asked(r) ==
           /\ r.tx = "none" /\ r.got = 0 /\ r.below = {}
           /\ \/ r.pc = "done" /\ r.answer = "refused" /\ r.side = "buy" /\ r.amount = 0
              \/ /\ r.pc = "quoting" /\ r.answer = Untold
                 /\ \/ /\ r.side = "buy" /\ position = 0 /\ DexSlippage <= r.amount
                       /\ dexVenue # "pumpfun" => r.amount <= DexMaxUsd
                    \/ r.side = "sell" /\ (dexVenue # "pumpfun" => r.amount = position)
  <1>2. \E r \in Swaps : TurnsInto(n, r) /\ Asked(r)
    <2>1. ASSUME NEW usd \in DexSizes, AskBuy(n, usd), TooLarge(usd) PROVE \E r \in Swaps : TurnsInto(n, r) /\ Asked(r)
      <3> DEFINE r == [s EXCEPT !.pc = "done", !.answer = "refused"]
      <3>1. /\ r \in Swaps /\ r.tx = "none" /\ r.got = 0 /\ r.below = {}
            /\ r.pc = "done" /\ r.answer = "refused" /\ r.side = "buy" /\ r.amount = 0
        BY <1>0, <1>1 DEF Swaps
      <3>2. TurnsInto(n, r)
        BY <1>0, <2>1 DEF AskBuy, Answered
      <3> QED BY <3>1, <3>2
    <2>2. ASSUME NEW usd \in DexSizes, AskBuy(n, usd), ~TooLarge(usd) PROVE \E r \in Swaps : TurnsInto(n, r) /\ Asked(r)
      <3> DEFINE r == [s EXCEPT !.pc = "quoting", !.amount = usd]
      <3>1. usd \in Nat /\ position = 0 /\ DexSlippage <= usd /\ (dexVenue # "pumpfun" => usd <= DexMaxUsd)
        <4>1. usd \in Nat /\ DexMaxUsd \in Nat /\ DexSlippage <= usd
          BY DexConstants
        <4>2. dexVenue # "pumpfun" => ~(usd > DexMaxUsd)
          BY <2>2 DEF TooLarge
        <4>3. position = 0
          BY <2>2 DEF AskBuy
        <4> QED BY <4>1, <4>2, <4>3
      <3>2. /\ r \in Swaps /\ r.tx = "none" /\ r.got = 0 /\ r.below = {}
            /\ r.pc = "quoting" /\ r.answer = Untold /\ r.side = "buy" /\ r.amount = usd
        BY <1>0, <1>1, <3>1 DEF Swaps
      <3>3. TurnsInto(n, r)
        BY <1>0, <2>2 DEF AskBuy
      <3> QED BY <3>1, <3>2, <3>3
    <2>3. ASSUME AskSell(n) PROVE \E r \in Swaps : TurnsInto(n, r) /\ Asked(r)
      <3> DEFINE size == IF dexVenue = "pumpfun" THEN wallet ELSE position
                 r == [s EXCEPT !.pc = "quoting", !.side = "sell", !.amount = size]
      <3>1. size \in Nat
        BY NotSentYet DEF DexInv, WalletOK
      <3>2. /\ r \in Swaps /\ r.tx = "none" /\ r.got = 0 /\ r.below = {}
            /\ r.pc = "quoting" /\ r.answer = Untold /\ r.side = "sell" /\ r.amount = size
        BY <1>0, <1>1, <3>1 DEF Swaps
      <3>3. TurnsInto(n, r)
        BY <1>0, <2>3 DEF AskSell
      <3> QED BY <3>2, <3>3
    <2> QED BY <2>1, <2>2, <2>3
  <1>3. PICK r \in Swaps : TurnsInto(n, r) /\ Asked(r)
    BY <1>2
  <1>4. SoundSwap(r)
    BY <1>3, DexConstants DEF SoundSwap, Swaps
  <1>5. OfBooks(r)
    BY <1>3 DEF OfBooks, Live
  <1>6. ~InBlock(n) /\ ~Settled(n)
    BY <1>1 DEF InBlock, Settled
  <1>7. FinalPart(r) = 0 /\ FinalPart(swap[n]) = 0 /\ SurePart(r) = 0 /\ SurePart(swap[n]) = 0
    BY <1>1, <1>3 DEF FinalPart, SurePart
  <1>8. finalized' = finalized + FinalPart(r) - FinalPart(swap[n])
    BY <1>1, <1>7, NotSentYet
  <1>9. r.answer # "filled" /\ swap[n].answer # "filled"
    BY <1>1, <1>3, DexConstants
  <1>10. r.pc # "new" /\ (swap[n].pc = "new" => Turn(n))
    BY <1>1, <1>3
  <1>11. r.tx \notin {"processed", "confirmed", "final", "faulty", "failed"}
    BY <1>3
  <1> HIDE DEF Asked
  <1>12. r.got = swap[n].got /\ r.below = swap[n].below
    BY <1>1, <1>3 DEF Asked
  <1>13. r.tx \in {"processed", "confirmed", "final", "faulty", "failed"} <=> InBlock(n)
    BY <1>6, <1>11
  <1>14. SurePart(swap[n]) <= SurePart(r)
    BY <1>7
  <1>15. UNCHANGED <<dexVenue, wallet, position, excused>>
    BY <1>1
  <1>16. swap[n].pc = "done" => r.pc = "done"
    BY <1>1
  <1> QED BY <1>3, <1>4, <1>5, <1>6, <1>8, <1>9, <1>10, <1>11, <1>12, <1>13, <1>14, <1>15, <1>16, Follows

\* A swap that was asked for moves on as it was asked for.
LEMMA Goes ==
    ASSUME DexInv, NEW n \in SwapIds, NEW r \in Swaps, TurnsInto(n, r),
           UNCHANGED <<dexVenue, wallet, position, excused>>,
           finalized' = finalized + FinalPart(r) - FinalPart(swap[n]),
           SoundSwap(r), swap[n].pc # "new",
           r.side = swap[n].side, r.amount = swap[n].amount, r.got = swap[n].got, r.below = swap[n].below,
           r.pc \in {swap[n].pc, "done"} \/ (swap[n].pc = "quoting" /\ r.pc = "sent"),
           r.tx \in {"processed", "confirmed", "final", "faulty", "failed"} <=> InBlock(n),
           swap[n].tx \in {"confirmed", "final"} => r.tx \in {"confirmed", "final"},
           swap[n].tx = "failed" => r.tx = "failed",
           r.tx \in {"confirmed", "final", "failed"} => \A m \in swap[n].below : Settled(m),
           r.answer = "filled" <=> swap[n].answer = "filled"
    PROVE  DexInv'
  <1>1. OfBooks(r)
    BY NotSentYet DEF OfBooks, Live
  <1>2. SurePart(swap[n]) <= SurePart(r)
    BY NotSentYet DEF SurePart
  <1>3. Settled(n) => r.tx \in {"confirmed", "final", "failed"}
    BY DEF Settled
  <1>4. Live(r) => Live(swap[n])
    BY DEF Live
  <1>5. swap[n].pc = "done" => r.pc = "done"
    OBVIOUS
  <1> QED BY <1>1, <1>2, <1>3, <1>4, <1>5, Follows

\* The adapter's steps short of a fill keep the invariant.
LEMMA AdapterStep ==
    ASSUME DexInv, NEW n \in SwapIds,
           Unsent(n) \/ SignAndSend(n) \/ Reverted(n) \/ TimesOutSwap(n) \/ PollFails(n)
    PROVE  DexInv'
  <1>0. PICK s \in Swaps : s = swap[n]
    BY NotSentYet
  <1>1. s.pc \in {"quoting", "sent"} /\ UNCHANGED <<dexVenue, wallet, finalized, position, excused>>
    BY <1>0 DEF Unsent, SignAndSend, Reverted, TimesOutSwap, PollFails, UnchangedBooks, UnchangedChain
  <1> DEFINE Answers(r) == /\ r.side = s.side /\ r.amount = s.amount /\ r.got = s.got /\ r.below = s.below
                           /\ \/ /\ r.pc = "done" /\ r.tx = s.tx
                                 /\ r.answer \in {"aborted", "reverted"} /\ ~r.unheard /\ ~r.undone
                                       => s.tx \in {"none", "faulty", "failed"}
                              \/ r.pc = "done" /\ s.pc = "quoting" /\ s.tx = "none" /\ r.tx = "pending" /\ r.unheard
                              \/ r.pc = "sent" /\ s.pc = "quoting" /\ r.tx = "pending"
                           /\ r.pc = "done" => r.answer \in {"aborted", "reverted", "timeout", "stuck", "threw"}
                           /\ r.pc = "sent" => r.answer = s.answer
  <1>2. \E r \in Swaps : TurnsInto(n, r) /\ Answers(r)
    <2>1. CASE Unsent(n)
      <3> DEFINE r == [s EXCEPT !.pc = "done", !.answer = NothingSent]
      <3>1. s.tx = "none"
        BY <1>0, <2>1, NotSentYet DEF Unsent
      <3>2. NothingSent \in {"aborted", "reverted"}
        BY DEF NothingSent
      <3>3. r \in Swaps /\ Answers(r)
        BY <3>1, <3>2 DEF Swaps
      <3>4. TurnsInto(n, r)
        BY <1>0, <2>1 DEF Unsent, Answered
      <3> QED BY <3>3, <3>4
    <2>2. CASE SignAndSend(n)
      <3> DEFINE r == [s EXCEPT !.pc = "sent", !.tx = "pending"]
                 q == [s EXCEPT !.pc = "done", !.tx = "pending", !.answer = NothingSent, !.unheard = TRUE]
      <3>1. s.tx = "none" /\ s.pc = "quoting"
        BY <1>0, <2>2, NotSentYet DEF SignAndSend
      <3>2. NothingSent \in {"aborted", "reverted"}
        BY DEF NothingSent
      <3>3. r \in Swaps /\ Answers(r)
        BY <3>1 DEF Swaps
      <3>4. q \in Swaps /\ Answers(q)
        BY <3>1, <3>2 DEF Swaps
      <3>5. TurnsInto(n, r) \/ TurnsInto(n, q)
        BY <1>0, <2>2 DEF SignAndSend
      <3> QED BY <3>3, <3>4, <3>5
    <2>3. CASE Reverted(n)
      <3> DEFINE r == [s EXCEPT !.pc = "done", !.answer = "reverted"]
      <3>1. s.tx \in {"faulty", "failed"}
        BY <1>0, <2>3 DEF Reverted
      <3>2. r \in Swaps /\ Answers(r)
        BY <3>1 DEF Swaps
      <3>3. TurnsInto(n, r)
        BY <1>0, <2>3 DEF Reverted, Answered
      <3> QED BY <3>2, <3>3
    <2>4. CASE TimesOutSwap(n)
      <3> DEFINE r == [s EXCEPT !.pc = "done", !.answer = GivenUp]
      <3>1. GivenUp \in {"timeout", "stuck"}
        BY DEF GivenUp
      <3>2. r \in Swaps /\ Answers(r)
        BY <3>1 DEF Swaps
      <3>3. TurnsInto(n, r)
        BY <1>0, <2>4 DEF TimesOutSwap, Answered
      <3> QED BY <3>2, <3>3
    <2>5. CASE PollFails(n)
      <3>1. PICK answer \in {"threw", "timeout", "stuck", "aborted", "reverted"} : Unheard(n, answer)
        BY <2>5 DEF PollFails, GivenUp, NothingSent
      <3> DEFINE r == [s EXCEPT !.pc = "done", !.answer = answer, !.unheard = TRUE]
      <3>2. r \in Swaps /\ Answers(r)
        BY DEF Swaps
      <3>3. TurnsInto(n, r)
        BY <1>0, <3>1 DEF Unheard
      <3> QED BY <3>2, <3>3
    <2> QED BY <2>1, <2>2, <2>3, <2>4, <2>5
  <1>3. PICK r \in Swaps : TurnsInto(n, r) /\ Answers(r)
    BY <1>2
  <1>4. SoundSwap(s) /\ s.answer = Untold /\ s.tx \in {"none", "pending", "processed", "confirmed", "final",
                                                  "faulty", "failed", "lapsed"}
    BY <1>0, <1>1, NotSentYet DEF SoundSwap, Swaps
  <1>5. r.tx = s.tx \/ (s.tx = "none" /\ r.tx = "pending") \/ (s.pc = "quoting" /\ r.tx = "pending")
    BY <1>3
  <1>6. s.pc = "quoting" => s.tx = "none"
    BY <1>4 DEF SoundSwap
  <1>7. SoundSwap(r)
    BY <1>1, <1>3, <1>4, <1>6, DexConstants DEF SoundSwap
  <1>8. FinalPart(r) = FinalPart(s) /\ FinalPart(s) \in Int
    BY <1>3, <1>5, <1>6 DEF FinalPart, Swaps
  <1>9. finalized' = finalized + FinalPart(r) - FinalPart(swap[n])
    BY <1>0, <1>1, <1>8, NotSentYet
  <1>10. /\ r.tx \in {"processed", "confirmed", "final", "faulty", "failed"} <=> InBlock(n)
         /\ swap[n].tx \in {"confirmed", "final"} => r.tx \in {"confirmed", "final"}
         /\ swap[n].tx = "failed" => r.tx = "failed"
         /\ r.tx \in {"confirmed", "final", "failed"} => swap[n].tx = r.tx
    BY <1>0, <1>5, <1>6 DEF InBlock
  <1>11. r.tx \in {"confirmed", "final", "failed"} => \A m \in swap[n].below : Settled(m)
    BY <1>10, NotSentYet
  <1>12. r.answer # "filled" /\ swap[n].answer # "filled"
    BY <1>0, <1>1, <1>3, <1>4, DexConstants
  <1>13. /\ r.side = swap[n].side /\ r.amount = swap[n].amount /\ r.got = swap[n].got /\ r.below = swap[n].below
         /\ r.pc \in {swap[n].pc, "done"} \/ (swap[n].pc = "quoting" /\ r.pc = "sent")
         /\ swap[n].pc # "new"
    BY <1>0, <1>1, <1>3
  <1>14. UNCHANGED <<dexVenue, wallet, position, excused>> /\ TurnsInto(n, r)
    BY <1>1, <1>3
  <1> HIDE DEF Answers
  <1> QED BY <1>7, <1>9, <1>10, <1>11, <1>12, <1>13, <1>14, Goes

\* Blocks that are voted for, and blockhashes that grow old, keep it.
LEMMA VoteStep ==
    ASSUME DexInv, NEW n \in SwapIds, Confirms(n) \/ Finalizes(n) \/ Lapses(n)
    PROVE  DexInv'
  <1>0. PICK s \in Swaps : s = swap[n]
    BY NotSentYet
  <1>1. SoundSwap(s)
    BY <1>0, NotSentYet
  <1>2. \E fate : /\ Lands(n, fate)
                  /\ \/ s.tx = "pending" /\ fate = "lapsed"
                     \/ s.tx = "processed" /\ fate = "confirmed"
                     \/ s.tx = "faulty" /\ fate = "failed"
                     \/ s.tx = "confirmed" /\ fate = "final"
    BY <1>0 DEF Confirms, Finalizes, Lapses
  <1>3. PICK fate : /\ Lands(n, fate)
                    /\ \/ s.tx = "pending" /\ fate = "lapsed"
                       \/ s.tx = "processed" /\ fate = "confirmed"
                       \/ s.tx = "faulty" /\ fate = "failed"
                       \/ s.tx = "confirmed" /\ fate = "final"
    BY <1>2
  <1> DEFINE r == [s EXCEPT !.tx = fate]
  <1>4. /\ r \in Swaps /\ r.tx = fate /\ r.pc = s.pc /\ r.side = s.side /\ r.amount = s.amount /\ r.got = s.got
        /\ r.below = s.below /\ r.answer = s.answer /\ r.unheard = s.unheard /\ r.undone = s.undone
    BY <1>3 DEF Swaps
  <1>5. TurnsInto(n, r)
    BY <1>0, <1>3 DEF Lands
  <1> HIDE DEF r
  <1>6. UNCHANGED <<dexVenue, wallet, position, excused>>
    BY DEF Confirms, Finalizes, Lapses, UnchangedBooks, UnchangedChain
  <1>7. s.got \in Int /\ finalized \in Int
    BY NotSentYet DEF Swaps
  <1>8. finalized' = finalized + FinalPart(r) - FinalPart(swap[n])
    <2>1. FinalPart(s) = 0 /\ FinalPart(r) = IF fate = "final" THEN s.got ELSE 0
      BY <1>3, <1>4 DEF FinalPart
    <2>2. CASE Finalizes(n)
      <3>1. finalized' = finalized + s.got /\ s.tx = "confirmed"
        BY <1>0, <2>2 DEF Finalizes
      <3> QED BY <1>0, <1>3, <1>7, <2>1, <3>1
    <2>3. CASE Confirms(n) \/ Lapses(n)
      <3>1. finalized' = finalized /\ s.tx # "confirmed"
        BY <1>0, <2>3 DEF Confirms, Lapses, UnchangedChain
      <3> QED BY <1>0, <1>3, <1>7, <2>1, <3>1
    <2> QED BY <2>2, <2>3
  <1>9. SoundSwap(r)
    BY <1>1, <1>3, <1>4 DEF SoundSwap
  <1>10. s.pc # "new"
    BY <1>1, <1>3 DEF SoundSwap
  <1>11. /\ r.tx \in {"processed", "confirmed", "final", "faulty", "failed"} <=> InBlock(n)
         /\ s.tx \in {"confirmed", "final"} => r.tx \in {"confirmed", "final"}
         /\ s.tx = "failed" => r.tx = "failed"
    BY <1>0, <1>3, <1>4 DEF InBlock
  <1>12. r.tx \in {"confirmed", "final", "failed"} => \A m \in swap[n].below : Settled(m)
    <2>1. CASE Confirms(n)
      <3> SUFFICES ASSUME NEW m \in swap[n].below PROVE Settled(m)
        OBVIOUS
      <3>1. m \in SwapIds /\ InBlock(m)
        BY DEF DexInv, ChainOK, Chain
      <3>2. swap[m].tx \notin {"processed", "faulty"}
        BY <2>1 DEF Confirms
      <3> QED BY <3>1, <3>2 DEF InBlock, Settled
    <2>2. CASE Finalizes(n) \/ Lapses(n)
      <3>1. swap[n].tx = "confirmed" \/ r.tx = "lapsed"
        BY <1>0, <1>3, <1>4, <2>2 DEF Finalizes, Lapses
      <3> QED BY <3>1, NotSentYet
    <2> QED BY <2>1, <2>2
  <1> QED BY <1>0, <1>4, <1>5, <1>6, <1>8, <1>9, <1>10, <1>11, <1>12, Goes

\* A sell that is confirmed has nothing uncertain under it: what is left is sure.
LEMMA SellLeaves ==
    ASSUME DexInv, NEW n \in SwapIds, NEW r \in Swaps, TurnsInto(n, r), Live(swap[n]), Settled(n),
           r.answer = "filled", r.got = swap[n].got
    PROVE  0 <= SwapSum(Sures')
  <1> DEFINE w == [m \in SwapIds |-> IF m = n THEN swap[n].got ELSE Belows(n)[m]]
  <1>1. swap[n].got \in Int /\ n \in Chain /\ n \notin swap[n].below
    BY NotSentYet DEF DexInv, ChainOK, Chain, InBlock, Settled
  <1>2. Belows(n) \in [SwapIds -> Int] /\ SwapSum(Belows(n)) \in Int
    BY SumTypes DEF DexInv
  <1>3. w \in [SwapIds -> Int]
    BY <1>1, <1>2
  <1>4. SwapSum(w) = SwapSum(Belows(n)) + swap[n].got
    <2>1. Belows(n)[n] = 0
      BY <1>1 DEF Belows
    <2>2. w[n] = swap[n].got /\ \A m \in SwapIds \ {n} : w[m] = Belows(n)[m]
      OBVIOUS
    <2> HIDE DEF w
    <2> QED BY <1>1, <1>2, <1>3, <2>1, <2>2, SwapSumGrows
  <1>5. SwapSum(w) >= 0
    BY <1>1, <1>4 DEF DexInv, WalletOK
  <1>6. /\ swap' \in [SwapIds -> Swaps] /\ swap'[n] = r
        /\ \A m \in SwapIds \ {n} : swap'[m] = swap[m]
    BY Recount DEF DexInv
  <1>7. Sures' \in [SwapIds -> Int]
    <2>1. \A s \in Swaps : SurePart(s) \in Int
      BY DEF Swaps, SurePart
    <2> QED BY <1>6, <2>1 DEF Sures
  <1>8. ASSUME NEW m \in SwapIds PROVE w[m] <= Sures'[m]
    <2>1. CASE m = n
      BY <1>1, <1>6, <2>1 DEF Sures, SurePart
    <2>2. CASE m # n
      <3>1. Sures'[m] = SurePart(swap[m])
        BY <1>6, <2>2 DEF Sures
      <3>2. swap[m].got \in Int /\ SoundSwap(swap[m]) /\ swap[m].pc \in {"new", "done"}
        BY <2>2, NotSentYet, OneLive
      <3>3. CASE m \in swap[n].below
        <4>1. w[m] = swap[m].got
          BY <2>2, <3>3 DEF Belows
        <4>2. Settled(m)
          BY <3>3 DEF DexInv, ChainOK
        <4>3. swap[m].pc = "done"
          BY <3>2, <4>2 DEF SoundSwap, Settled
        <4>4. swap[m].got > 0 => swap[m].tx \in {"confirmed", "final"}
          BY <3>2, <4>2 DEF SoundSwap, Settled
        <4> HIDE DEF w
        <4> QED BY <3>1, <3>2, <4>1, <4>3, <4>4 DEF SurePart
      <3>4. CASE m \notin swap[n].below
        <4>1. w[m] = 0
          BY <2>2, <3>4 DEF Belows
        <4>2. swap[m].answer # "filled"
          BY <1>1, <3>4 DEF DexInv, ChainOK
        <4> HIDE DEF w
        <4> QED BY <3>1, <3>2, <4>1, <4>2 DEF SurePart
      <3> QED BY <3>3, <3>4
    <2> QED BY <2>1, <2>2
  <1> HIDE DEF w
  <1>9. SwapSum(w) <= SwapSum(Sures') /\ SwapSum(w) \in Int /\ SwapSum(Sures') \in Int
    BY <1>3, <1>7, <1>8, SwapSumGrows
  <1> QED BY <1>5, <1>9

\* What is recorded of a fill keeps it.
LEMMA FilledStep == ASSUME DexInv, NEW n \in SwapIds, Filled(n) PROVE DexInv'
  <1>0. PICK s \in Swaps : s = swap[n]
    BY NotSentYet
  <1>1. /\ s.pc = "sent" /\ s.tx \in {"confirmed", "final"} /\ Live(s) /\ Settled(n) /\ InBlock(n)
        /\ UNCHANGED <<dexVenue, wallet, finalized>>
    BY <1>0 DEF Filled, Confirmed, Live, Settled, InBlock, UnchangedChain
  <1>2. SoundSwap(s) /\ OfBooks(s) /\ s.answer = Untold
    BY <1>0, <1>1, NotSentYet DEF SoundSwap
  <1> DEFINE r == [s EXCEPT !.pc = "done", !.answer = "filled"]
  <1>3. /\ r \in Swaps /\ r.pc = "done" /\ r.answer = "filled" /\ r.tx = s.tx /\ r.side = s.side /\ r.below = s.below
        /\ r.amount = s.amount /\ r.got = s.got /\ r.unheard = s.unheard /\ r.undone = s.undone
    BY DEF Swaps
  <1>4. TurnsInto(n, r)
    BY <1>0 DEF Filled, Answered
  <1> HIDE DEF r
  <1>5. s.amount \in Nat /\ s.got \in Int /\ s.side \in {"buy", "sell"} /\ position \in Nat /\ finalized \in Int
    BY NotSentYet DEF Swaps
  <1>6. /\ s.side = "buy" => /\ position' = s.amount
                             /\ excused' = IF s.got < s.amount THEN excused \cup {"slipped"} ELSE excused
        /\ s.side = "sell" => position' = 0 /\ excused' = excused
    BY <1>0 DEF Filled
  <1>7. ChainOK' /\ WalletOK' /\ wallet' \in Int /\ finalized' \in Int
    <2>1. FinalPart(r) = FinalPart(swap[n]) /\ FinalPart(r) \in Int
      BY <1>0, <1>3, <1>5 DEF FinalPart
    <2>2. finalized' = finalized + FinalPart(r) - FinalPart(swap[n])
      BY <1>1, <1>5, <2>1
    <2>3. \A m \in swap[n].below : Settled(m)
      BY <1>0, <1>1, NotSentYet
    <2>4. r.tx \in {"processed", "confirmed", "final", "faulty", "failed"} <=> InBlock(n)
      BY <1>1, <1>3
    <2>5. ~Live(r) /\ Live(swap[n])
      BY <1>0, <1>1, <1>3 DEF Live
    <2>6. r.tx \in {"confirmed", "final", "failed"} /\ r.got = swap[n].got /\ r.below = swap[n].below
      BY <1>0, <1>1, <1>3
    <2> QED BY <1>1, <1>3, <1>4, <2>2, <2>3, <2>4, <2>5, <2>6, ChainStays
  <1>8. PositionOK'
    <2>1. /\ SwapSum(Filleds') = SwapSum(Filleds) + s.got /\ SwapSum(Sures') = SwapSum(Sures) + s.got
          /\ {SwapSum(Filleds), SwapSum(Sures)} \subseteq Int
      <3>1. FilledPart(r) = s.got /\ FilledPart(s) = 0 /\ SurePart(r) = s.got /\ SurePart(s) = 0
        BY <1>1, <1>2, <1>3, DexConstants DEF FilledPart, SurePart
      <3>2. /\ SwapSum(Filleds') = SwapSum(Filleds) + FilledPart(r) - FilledPart(swap[n])
            /\ SwapSum(Sures') = SwapSum(Sures) + SurePart(r) - SurePart(swap[n])
        BY <1>3, <1>4, Recount DEF DexInv
      <3>3. SwapSum(Filleds) \in Int /\ SwapSum(Sures) \in Int
        BY SumTypes DEF DexInv
      <3> QED BY <1>0, <1>5, <3>1, <3>2, <3>3
    <2>2. /\ dexVenue # "pumpfun" => SwapSum(Filleds) <= position /\ SwapSum(Filleds) <= DexMaxUsd
          /\ excused = {} => position <= SwapSum(Sures)
          /\ DexMaxUsd \in Nat
      BY DexConstants DEF DexInv, PositionOK
    <2>3. CASE s.side = "buy"
      <3>1. /\ position = 0 /\ 0 <= s.got /\ s.got <= s.amount
            /\ dexVenue # "pumpfun" => s.amount <= DexMaxUsd
        BY <1>1, <1>2, <2>3 DEF OfBooks, SoundSwap
      <3>2. dexVenue # "pumpfun" => SwapSum(Filleds') <= position' /\ SwapSum(Filleds') <= DexMaxUsd
        BY <1>5, <1>6, <2>1, <2>2, <2>3, <3>1
      <3>3. excused' = {} => excused = {} /\ s.got = s.amount
        BY <1>5, <1>6, <2>3, <3>1
      <3>4. excused' = {} => position' <= SwapSum(Sures')
        BY <1>5, <1>6, <2>1, <2>2, <2>3, <3>1, <3>3
      <3> QED BY <1>1, <3>2, <3>4 DEF PositionOK
    <2>4. CASE s.side = "sell"
      <3>1. s.got = -s.amount /\ (dexVenue # "pumpfun" => s.amount = position) /\ position' = 0 /\ excused' = excused
        BY <1>1, <1>2, <1>6, <2>4 DEF OfBooks, SoundSwap
      <3>2. dexVenue # "pumpfun" => SwapSum(Filleds') <= position' /\ SwapSum(Filleds') <= DexMaxUsd
        BY <1>5, <2>1, <2>2, <3>1
      <3>3. 0 <= SwapSum(Sures')
        BY <1>0, <1>1, <1>3, <1>4, SellLeaves
      <3> QED BY <1>1, <3>1, <3>2, <3>3 DEF PositionOK
    <2> QED BY <1>5, <2>3, <2>4
  <1>9. SoundSwap(r)
    BY <1>1, <1>2, <1>3 DEF SoundSwap
  <1>10. OfBooks(r)' /\ position' \in Nat /\ Live(swap[n])
    BY <1>0, <1>1, <1>3, <1>5, <1>6 DEF OfBooks, Live
  <1>11. r.pc = "done" /\ swap[n].pc # "new" /\ UNCHANGED dexVenue
    BY <1>0, <1>1, <1>3
  <1> QED BY <1>3, <1>4, <1>7, <1>8, <1>9, <1>10, <1>11, Moves

\* Reading the wallet between swaps keeps it: what is there then is sure, or excused.
LEMMA RestoreStep == ASSUME DexInv, Restore PROVE DexInv'
  <1> DEFINE balance == IF Solana THEN finalized ELSE wallet
  <1>1. /\ dexVenue # "pumpfun" /\ position = 0 /\ AtRest /\ balance > 0 /\ position' = balance
        /\ excused' = IF \E n \in SwapIds : swap[n].tx \in {"processed", "confirmed"}
                      THEN excused \cup {"read before final"} ELSE excused
        /\ UNCHANGED <<dexVenue, wallet, finalized, swap>>
    BY DEF Restore, UnchangedChain
  <1>2. position' \in Nat /\ balance \in Int
    <2>1. wallet \in Int /\ finalized \in Int
      BY DEF DexInv
    <2>2. balance \in Int
      BY <2>1
    <2>3. position' = balance /\ balance > 0
      BY <1>1
    <2> HIDE DEF balance
    <2> QED BY <2>2, <2>3
  <1>3. \A n \in SwapIds : ~Live(swap[n]) /\ swap[n].pc \in {"new", "done"}
    BY <1>1 DEF AtRest, Live
  <1>4. \A n \in SwapIds : (SoundSwap(swap[n]) /\ OfBooks(swap[n]))'
    BY <1>1, <1>3 DEF DexInv, SoundSwap, Solana, OfBooks, Live
  <1>5. InTurn' /\ ChainOK'
    BY <1>1 DEF DexInv, InTurn, ChainOK, Chain, InBlock, Settled
  <1>6. /\ Gots' = Gots /\ Filleds' = Filleds /\ Finals' = Finals /\ Sures' = Sures
        /\ \A n \in SwapIds : Belows(n)' = Belows(n)
    BY <1>1 DEF Gots, Filleds, Finals, Sures, Belows
  <1>7. WalletOK'
    BY <1>1, <1>6 DEF DexInv, WalletOK, Chain, InBlock
  <1>8. PositionOK'
    <2>1. SwapSum(Filleds) <= position' /\ SwapSum(Filleds) <= DexMaxUsd
      <3>1. SwapSum(Filleds) \in Int /\ SwapSum(Filleds) <= 0 /\ SwapSum(Filleds) <= DexMaxUsd
        BY <1>1, SumTypes DEF DexInv, PositionOK
      <3> HIDE DEF balance
      <3>2. position' > 0 /\ position' \in Nat
        BY <1>1, <1>2
      <3>3. SwapSum(Filleds) <= position'
        BY <3>1, <3>2
      <3> QED BY <3>1, <3>3
    <2>2. ASSUME excused' = {} PROVE position' <= SwapSum(Sures)
      <3>1. \A n \in SwapIds : swap[n].tx \notin {"processed", "confirmed"}
        BY <1>1, <2>2
      <3>2. ASSUME NEW n \in SwapIds
            PROVE  Gots[n] <= Sures[n] /\ Finals[n] <= Sures[n]
        <4>1. /\ swap[n].got \in Int /\ SoundSwap(swap[n]) /\ swap[n].pc \in {"new", "done"}
              /\ swap[n].got # 0 => swap[n].tx = "final" /\ swap[n].pc = "done"
          BY <1>3, <3>1, NotSentYet DEF SoundSwap
        <4>2. swap[n].got <= SurePart(swap[n]) /\ FinalPart(swap[n]) <= SurePart(swap[n])
          BY <4>1 DEF SurePart, FinalPart
        <4> QED BY <4>2 DEF Gots, Finals, Sures
      <3>3. Gots \in [SwapIds -> Int] /\ Finals \in [SwapIds -> Int] /\ Sures \in [SwapIds -> Int]
        BY SumTypes DEF DexInv
      <3>4. SwapSum(Gots) <= SwapSum(Sures) /\ SwapSum(Finals) <= SwapSum(Sures)
        BY <3>2, <3>3, SwapSumGrows
      <3> QED BY <1>1, <3>4 DEF DexInv, WalletOK
    <2> QED BY <1>1, <1>6, <2>1, <2>2 DEF PositionOK
  <1> QED BY <1>1, <1>2, <1>4, <1>5, <1>7, <1>8 DEF DexInv

\* A swap a block takes lands on top of all the others.
LEMMA LandsOnTop ==
    ASSUME DexInv, NEW n \in SwapIds, NEW r \in Swaps, TurnsInto(n, r), UNCHANGED dexVenue,
           ~InBlock(n), r.below = Chain,
           r.tx \in {"processed", "faulty"} \/ (~Solana /\ r.tx \in {"final", "failed"}),
           r.answer # "filled",
           wallet' = wallet + r.got, wallet' >= 0, finalized' = finalized + FinalPart(r)
    PROVE  ChainOK' /\ WalletOK' /\ wallet' \in Int /\ finalized' \in Int
  <1>1. /\ swap' \in [SwapIds -> Swaps] /\ swap'[n] = r
        /\ \A m \in SwapIds \ {n} : swap'[m] = swap[m]
        /\ SwapSum(Gots') = SwapSum(Gots) + r.got - swap[n].got
        /\ SwapSum(Finals') = SwapSum(Finals) + FinalPart(r) - FinalPart(swap[n])
        /\ r.got \in Int /\ FinalPart(r) \in Int
    BY Recount DEF DexInv
  <1>2. /\ swap[n].got = 0 /\ FinalPart(swap[n]) = 0 /\ ~Settled(n) /\ n \notin Chain
        /\ swap[n].answer # "filled"
    BY NotSentYet DEF InBlock, Settled, FinalPart, Chain, SoundSwap
  <1>3. /\ \A m \in SwapIds \ {n} : InBlock(m)' = InBlock(m) /\ Settled(m)' = Settled(m)
        /\ InBlock(n)'
    BY <1>1 DEF InBlock, Settled
  <1>4. Chain' = Chain \cup {n}
    BY <1>3 DEF Chain
  <1>5. /\ swap'[n].below = Chain
        /\ \A m \in SwapIds \ {n} : swap'[m].below = swap[m].below
        /\ \A m \in SwapIds : n \notin swap[m].below
    BY <1>1, <1>2 DEF DexInv, ChainOK
  <1>6. ChainOK'
    <2>1. \A m \in SwapIds : swap'[m].below \subseteq Chain' \ {m}
      BY <1>2, <1>4, <1>5 DEF DexInv, ChainOK
    <2>2. \A m \in SwapIds \ Chain' : swap'[m].below = {}
      BY <1>4, <1>5 DEF DexInv, ChainOK
    <2>3. \A m, k \in Chain' : m = k \/ m \in swap'[k].below \/ k \in swap'[m].below
      <3>1. \A m, k \in Chain : m = k \/ m \in swap'[k].below \/ k \in swap'[m].below
        BY <1>2, <1>5 DEF DexInv, ChainOK, Chain
      <3> QED BY <1>4, <1>5, <3>1
    <2>4. ASSUME NEW k \in SwapIds, Settled(k)', NEW m \in swap'[k].below PROVE Settled(m)'
      <3>1. CASE k = n
        <4>1. ~Solana /\ m \in Chain /\ m # n /\ m \in SwapIds
          BY <1>1, <1>2, <1>5, <2>4, <3>1 DEF Settled, Chain
        <4>2. Settled(m)
          BY <4>1 DEF DexInv, SoundSwap, Chain, InBlock, Settled
        <4> QED BY <1>3, <4>1, <4>2
      <3>2. CASE k # n
        <4>1. Settled(k) /\ m \in swap[k].below /\ m \in SwapIds /\ m # n
          BY <1>3, <1>5, <2>4, <3>2 DEF DexInv, ChainOK, Chain
        <4> QED BY <1>3, <4>1 DEF DexInv, ChainOK
      <3> QED BY <3>1, <3>2
    <2>5. ASSUME NEW m \in SwapIds, NEW k \in SwapIds, Live(swap'[k]), k \in Chain', swap'[m].answer = "filled"
          PROVE  m \in swap'[k].below
      <3>1. m # n /\ swap[m].answer = "filled"
        BY <1>1, <2>5
      <3>2. m \in Chain
        BY <3>1 DEF DexInv, SoundSwap, Chain, InBlock
      <3>3. CASE k = n
        BY <1>5, <3>2, <3>3
      <3>4. CASE k # n
        BY <1>1, <1>4, <1>5, <2>5, <3>1, <3>4 DEF DexInv, ChainOK
      <3> QED BY <3>3, <3>4
    <2> QED BY <2>1, <2>2, <2>3, <2>4, <2>5 DEF ChainOK
  <1>7. wallet' \in Int /\ finalized' \in Int
    BY <1>1 DEF DexInv
  <1>8. WalletOK'
    <2>1. SwapSum(Gots) \in Int /\ SwapSum(Finals) \in Int
      BY SumTypes DEF DexInv
    <2>2. wallet' = SwapSum(Gots') /\ finalized' = SwapSum(Finals')
      BY <1>1, <1>2, <2>1 DEF DexInv, WalletOK
    <2>3. Belows(n)' = Gots
      <3>1. \A m \in SwapIds : (IF m \in Chain THEN swap'[m].got ELSE 0) = swap[m].got
        BY <1>1, <1>2, NotSentYet DEF Chain, InBlock
      <3> QED BY <1>5, <3>1 DEF Belows, Gots
    <2>4. \A k \in Chain : Belows(k)' = Belows(k)
      BY <1>1, <1>2, <1>5 DEF Belows, Chain
    <2>5. ASSUME NEW k \in Chain' PROVE SwapSum(Belows(k)') >= 0 /\ SwapSum(Belows(k)') + swap'[k].got >= 0
      <3>1. CASE k = n
        BY <1>1, <2>3, <3>1 DEF DexInv, WalletOK
      <3>2. CASE k # n
        <4>1. k \in Chain /\ swap'[k] = swap[k]
          BY <1>1, <1>4, <3>2 DEF Chain
        <4> QED BY <2>4, <4>1 DEF DexInv, WalletOK
      <3> QED BY <3>1, <3>2
    <2> QED BY <2>2, <2>5 DEF WalletOK
  <1> QED BY <1>6, <1>7, <1>8

\* On Base what a block has is final.
LEMMA BaseIsFinal == ASSUME DexInv, ~Solana PROVE finalized = wallet
  <1>1. \A n \in SwapIds : swap[n].got # 0 => swap[n].tx = "final"
    BY DEF DexInv, SoundSwap
  <1>2. Finals = Gots
    BY <1>1 DEF Finals, Gots, FinalPart
  <1> QED BY <1>2 DEF DexInv, WalletOK

\* A block that takes a swap, or its failure, keeps the invariant.
LEMMA ExecutesStep == ASSUME DexInv, NEW n \in SwapIds, Executes(n) PROVE DexInv'
  <1>0. PICK s \in Swaps : s = swap[n]
    BY NotSentYet
  <1>1. /\ s.tx = "pending" /\ ~InBlock(n) /\ s.got = 0 /\ SoundSwap(s) /\ OfBooks(s)
        /\ s.pc # "new" /\ s.answer # "filled"
        /\ UNCHANGED <<dexVenue, position, excused>>
    BY <1>0, NotSentYet DEF Executes, InBlock, SoundSwap, UnchangedBooks
  <1>2. wallet \in Int /\ wallet >= 0 /\ finalized \in Int /\ position \in Nat
    BY DEF DexInv, WalletOK
  <1> DEFINE Taken(r) == /\ r.pc = s.pc /\ r.side = s.side /\ r.amount = s.amount /\ r.answer = s.answer
                         /\ r.unheard = s.unheard /\ r.undone = s.undone /\ r.below = Chain
                         /\ wallet' = wallet + r.got /\ wallet' >= 0
                         /\ \/ /\ r.tx = IF Solana THEN "processed" ELSE "final"
                               /\ finalized' = IF Solana THEN finalized ELSE wallet'
                               /\ s.side = "buy" => 0 <= r.got /\ r.got <= s.amount
                               /\ s.side = "sell" => r.got = -s.amount /\ r.got <= 0
                            \/ /\ r.tx = IF Solana THEN "faulty" ELSE "failed"
                               /\ r.got = 0 /\ finalized' = finalized
  <1>3. \E r \in Swaps : TurnsInto(n, r) /\ Taken(r)
    <2>0. s.amount \in Nat /\ s.side \in {"buy", "sell"} /\ Chain \in SUBSET SwapIds
      BY DEF Swaps, Chain
    <2>1. \/ /\ TurnsInto(n, [s EXCEPT !.tx = IF Solana THEN "faulty" ELSE "failed", !.below = Chain])
             /\ UNCHANGED <<wallet, finalized>>
          \/ \E loss \in IF s.side = "buy" THEN 0..DexSlippage ELSE {0} :
                LET got == IF s.side = "buy" THEN s.amount - loss ELSE -s.amount
                IN  /\ s.side = "sell" => s.amount <= wallet
                    /\ wallet' = wallet + got
                    /\ finalized' = IF Solana THEN finalized ELSE wallet + got
                    /\ TurnsInto(n, [s EXCEPT !.tx = IF Solana THEN "processed" ELSE "final",
                                            !.got = got, !.below = Chain])
      BY <1>0 DEF Executes
    <2>2. CASE /\ TurnsInto(n, [s EXCEPT !.tx = IF Solana THEN "faulty" ELSE "failed", !.below = Chain])
               /\ UNCHANGED <<wallet, finalized>>
      <3> DEFINE fate == IF Solana THEN "faulty" ELSE "failed"
                 r == [s EXCEPT !.tx = fate, !.below = Chain]
      <3>1. fate \in {"faulty", "failed"}
        OBVIOUS
      <3> HIDE DEF fate
      <3>2. /\ r \in Swaps /\ r.pc = s.pc /\ r.side = s.side /\ r.amount = s.amount /\ r.answer = s.answer
            /\ r.unheard = s.unheard /\ r.undone = s.undone /\ r.below = Chain /\ r.tx = fate /\ r.got = 0
        BY <1>1, <2>0, <3>1 DEF Swaps
      <3> HIDE DEF r
      <3>3. Taken(r)
        BY <1>1, <1>2, <2>2, <3>2 DEF fate
      <3> QED BY <2>2, <3>2, <3>3 DEF r, fate
    <2>3. ASSUME NEW loss \in IF s.side = "buy" THEN 0..DexSlippage ELSE {0},
                 NEW got, got = IF s.side = "buy" THEN s.amount - loss ELSE -s.amount,
                 s.side = "sell" => s.amount <= wallet, wallet' = wallet + got,
                 finalized' = IF Solana THEN finalized ELSE wallet + got,
                 TurnsInto(n, [s EXCEPT !.tx = IF Solana THEN "processed" ELSE "final",
                                      !.got = got, !.below = Chain])
          PROVE  \E r \in Swaps : TurnsInto(n, r) /\ Taken(r)
      <3>1. got \in Int /\ wallet' >= 0
        /\ (s.side = "buy" => 0 <= got /\ got <= s.amount)
        /\ (s.side = "sell" => got = -s.amount /\ got <= 0)
        <4>1. CASE s.side = "buy"
          <5>1. DexSlippage \in Nat /\ DexSlippage <= s.amount
            BY <1>1, <4>1, DexConstants DEF SoundSwap
          <5>2. loss \in 0..DexSlippage /\ got = s.amount - loss
            BY <2>3, <4>1
          <5> QED BY <1>2, <2>0, <2>3, <4>1, <5>1, <5>2
        <4>2. CASE s.side = "sell"
          <5>1. got = -s.amount /\ s.amount <= wallet
            BY <2>3, <4>2
          <5> QED BY <1>2, <2>0, <2>3, <4>2, <5>1
        <4> QED BY <2>0, <4>1, <4>2
      <3> DEFINE fate == IF Solana THEN "processed" ELSE "final"
                 r == [s EXCEPT !.tx = fate, !.got = got, !.below = Chain]
      <3>2. fate \in {"processed", "final"}
        OBVIOUS
      <3> HIDE DEF fate
      <3>3. /\ r \in Swaps /\ r.pc = s.pc /\ r.side = s.side /\ r.amount = s.amount /\ r.answer = s.answer
            /\ r.unheard = s.unheard /\ r.undone = s.undone /\ r.below = Chain /\ r.tx = fate /\ r.got = got
        BY <2>0, <3>1, <3>2 DEF Swaps
      <3>4. TurnsInto(n, r)
        BY <2>3 DEF fate
      <3> HIDE DEF r
      <3>5. finalized' = IF Solana THEN finalized ELSE wallet'
        BY <2>3
      <3>6. Taken(r)
        BY <2>3, <3>1, <3>3, <3>5 DEF fate
      <3> HIDE DEF Taken
      <3> QED BY <3>3, <3>4, <3>6
    <2> HIDE DEF Taken
    <2>4. CASE \E loss \in IF s.side = "buy" THEN 0..DexSlippage ELSE {0} :
                LET got == IF s.side = "buy" THEN s.amount - loss ELSE -s.amount
                IN  /\ s.side = "sell" => s.amount <= wallet
                    /\ wallet' = wallet + got
                    /\ finalized' = IF Solana THEN finalized ELSE wallet + got
                    /\ TurnsInto(n, [s EXCEPT !.tx = IF Solana THEN "processed" ELSE "final",
                                            !.got = got, !.below = Chain])
      BY <2>3, <2>4
    <2> QED BY <2>1, <2>2, <2>4
  <1>4. PICK r \in Swaps : TurnsInto(n, r) /\ Taken(r)
    BY <1>3
  <1>5. r.tx \in {"processed", "faulty"} \/ (~Solana /\ r.tx \in {"final", "failed"})
    BY <1>4
  <1>6. r.got \in Int
    BY DEF Swaps
  <1>7. finalized' = finalized + FinalPart(r)
    <2>1. CASE Solana
      BY <1>2, <1>4, <2>1 DEF FinalPart
    <2>2. CASE ~Solana
      <3>1. finalized = wallet
        BY <2>2, BaseIsFinal
      <3> QED BY <1>2, <1>4, <1>6, <2>2, <3>1 DEF FinalPart
    <2> QED BY <2>1, <2>2
  <1>8. SoundSwap(r)
    BY <1>1, <1>4, <1>6 DEF SoundSwap, Swaps
  <1>9. ChainOK' /\ WalletOK' /\ wallet' \in Int /\ finalized' \in Int
    BY <1>1, <1>4, <1>5, <1>7, LandsOnTop
  <1>10. FilledPart(r) = FilledPart(swap[n]) /\ SurePart(swap[n]) <= SurePart(r)
    BY <1>0, <1>1, <1>4, <1>6 DEF FilledPart, SurePart
  <1>11. PositionOK'
    BY <1>1, <1>4, <1>10, BooksStay
  <1>12. OfBooks(r)' /\ position' \in Nat /\ position' = position
    BY <1>1, <1>2, <1>4 DEF OfBooks, Live
  <1>13. (swap[n].pc = "done" => r.pc = "done") /\ swap[n].pc # "new"
    BY <1>0, <1>1, <1>4
  <1> HIDE DEF Taken
  <1> QED BY <1>1, <1>4, <1>8, <1>9, <1>11, <1>12, <1>13, Moves

\* A block that is dropped, the newest, leaves the wallet as it was under it.
LEMMA ForksStep == ASSUME DexInv, NEW n \in SwapIds, Forks(n) PROVE DexInv'
  <1>0. PICK s \in Swaps : s = swap[n]
    BY NotSentYet
  <1>1. /\ s.tx \in {"processed", "faulty"} /\ InBlock(n) /\ ~Settled(n) /\ n \in Chain
        /\ SoundSwap(s) /\ OfBooks(s) /\ s.pc # "new" /\ s.answer # "filled"
        /\ \A m \in SwapIds : n \notin swap[m].below
        /\ wallet' = wallet - s.got /\ UNCHANGED <<dexVenue, finalized, position, excused>>
    <2>1. s.tx \in {"processed", "faulty"} /\ SoundSwap(s) /\ OfBooks(s)
      BY <1>0, NotSentYet DEF Forks
    <2>2. /\ \A m \in SwapIds : n \notin swap[m].below
          /\ wallet' = wallet - s.got /\ UNCHANGED <<dexVenue, finalized, position, excused>>
      BY <1>0 DEF Forks, UnchangedBooks
    <2>3. InBlock(n) /\ ~Settled(n) /\ n \in Chain
      BY <1>0, <2>1 DEF InBlock, Settled, Chain
    <2>4. s.pc # "new" /\ s.answer # "filled"
      BY <2>1 DEF SoundSwap
    <2> QED BY <2>1, <2>2, <2>3, <2>4
  <1>2. wallet \in Int /\ finalized \in Int /\ position \in Nat /\ s.got \in Int
    BY DEF DexInv, Swaps
  <1> DEFINE r == [s EXCEPT !.tx = "pending", !.got = 0, !.below = {}, !.undone = TRUE]
  <1>3. /\ r \in Swaps /\ r.pc = s.pc /\ r.side = s.side /\ r.amount = s.amount /\ r.answer = s.answer
        /\ r.unheard = s.unheard /\ r.undone = TRUE /\ r.below = {} /\ r.tx = "pending" /\ r.got = 0
    <2>1. /\ r.pc = s.pc /\ r.side = s.side /\ r.amount = s.amount /\ r.answer = s.answer
          /\ r.unheard = s.unheard /\ r.undone = TRUE /\ r.below = {} /\ r.tx = "pending" /\ r.got = 0
      BY DEF Swaps
    <2>2. PICK none \in Int : none = 0
      OBVIOUS
    <2>3. {} \in SUBSET SwapIds
      OBVIOUS
    <2>4. PICK empty \in SUBSET SwapIds : empty = {}
      BY <2>3, Zenon
    <2>5. [s EXCEPT !.tx = "pending", !.got = none, !.below = empty, !.undone = TRUE] \in Swaps
      BY DEF Swaps
    <2> QED BY <2>1, <2>2, <2>4, <2>5
  <1>4. TurnsInto(n, r)
    BY <1>0 DEF Forks
  <1> HIDE DEF r
  <1>5. /\ swap' \in [SwapIds -> Swaps] /\ swap'[n] = r
        /\ \A m \in SwapIds \ {n} : swap'[m] = swap[m]
        /\ SwapSum(Gots') = SwapSum(Gots) + r.got - swap[n].got
        /\ SwapSum(Finals') = SwapSum(Finals) + FinalPart(r) - FinalPart(swap[n])
    BY <1>3, <1>4, Recount DEF DexInv
  <1>6. /\ \A m \in SwapIds \ {n} : InBlock(m)' = InBlock(m) /\ Settled(m)' = Settled(m)
        /\ ~InBlock(n)' /\ ~Settled(n)'
    BY <1>3, <1>5 DEF InBlock, Settled
  <1>7. Chain' = Chain \ {n}
    BY <1>6 DEF Chain
  <1>8. ChainOK'
    <2>1. \A m \in SwapIds : swap'[m].below \subseteq Chain' \ {m}
      BY <1>1, <1>3, <1>5, <1>7 DEF DexInv, ChainOK
    <2>2. \A m \in SwapIds \ Chain' : swap'[m].below = {}
      BY <1>3, <1>5, <1>7 DEF DexInv, ChainOK
    <2>3. \A m, k \in Chain' : m = k \/ m \in swap'[k].below \/ k \in swap'[m].below
      BY <1>5, <1>7 DEF DexInv, ChainOK, Chain
    <2>4. ASSUME NEW k \in SwapIds, Settled(k)', NEW m \in swap'[k].below PROVE Settled(m)'
      <3>1. k # n /\ Settled(k) /\ m \in swap[k].below /\ m \in SwapIds /\ m # n
        BY <1>1, <1>5, <1>6, <2>4 DEF DexInv, ChainOK, Chain
      <3> QED BY <1>6, <3>1 DEF DexInv, ChainOK
    <2>5. ASSUME NEW m \in SwapIds, NEW k \in SwapIds, Live(swap'[k]), k \in Chain', swap'[m].answer = "filled"
          PROVE  m \in swap'[k].below
      <3>1. m # n /\ k # n
        BY <1>1, <1>3, <1>5, <1>7, <2>5
      <3> QED BY <1>5, <1>7, <2>5, <3>1 DEF DexInv, ChainOK
    <2> QED BY <2>1, <2>2, <2>3, <2>4, <2>5 DEF ChainOK
  <1>9. Gots' = Belows(n)
    <2>1. \A m \in SwapIds : swap'[m].got = IF m \in swap[n].below THEN swap[m].got ELSE 0
      <3> SUFFICES ASSUME NEW m \in SwapIds
                   PROVE  swap'[m].got = IF m \in swap[n].below THEN swap[m].got ELSE 0
        OBVIOUS
      <3>1. CASE m = n
        BY <1>1, <1>3, <1>5, <3>1
      <3>2. CASE m # n /\ m \in Chain
        BY <1>1, <1>5, <3>2 DEF DexInv, ChainOK
      <3>3. CASE m # n /\ m \notin Chain
        <4>1. swap[m].got = 0 /\ m \notin swap[n].below
          BY <3>3, NotSentYet DEF Chain, InBlock, DexInv, ChainOK
        <4> QED BY <1>5, <3>3, <4>1
      <3> QED BY <3>1, <3>2, <3>3
    <2> QED BY <2>1 DEF Gots, Belows
  <1>10. WalletOK' /\ wallet' \in Int
    <2>1. SwapSum(Gots) \in Int /\ SwapSum(Finals) \in Int
      BY SumTypes DEF DexInv
    <2>2. FinalPart(r) = 0 /\ FinalPart(swap[n]) = 0
      BY <1>0, <1>1, <1>3 DEF FinalPart
    <2>3. wallet' = SwapSum(Gots') /\ finalized' = SwapSum(Finals')
      BY <1>0, <1>1, <1>2, <1>3, <1>5, <2>1, <2>2 DEF DexInv, WalletOK
    <2>4. wallet' >= 0
      BY <1>1, <1>9, <2>3 DEF DexInv, WalletOK
    <2>5. ASSUME NEW k \in Chain' PROVE SwapSum(Belows(k)') >= 0 /\ SwapSum(Belows(k)') + swap'[k].got >= 0
      <3>1. k \in Chain /\ k \in SwapIds /\ swap'[k] = swap[k]
        BY <1>5, <1>7 DEF Chain
      <3>2. Belows(k)' = Belows(k)
        BY <1>1, <1>5, <3>1 DEF Belows
      <3> QED BY <3>1, <3>2 DEF DexInv, WalletOK
    <2> QED BY <1>1, <1>2, <2>3, <2>4, <2>5 DEF WalletOK
  <1>11. SoundSwap(r)
    BY <1>1, <1>3 DEF SoundSwap, Swaps
  <1>12. FilledPart(r) = FilledPart(swap[n]) /\ SurePart(swap[n]) <= SurePart(r)
    BY <1>0, <1>1, <1>3 DEF FilledPart, SurePart
  <1>13. PositionOK'
    BY <1>1, <1>3, <1>4, <1>12, BooksStay
  <1>14. OfBooks(r)' /\ position' \in Nat /\ position' = position /\ finalized' \in Int
    BY <1>1, <1>2, <1>3 DEF OfBooks, Live
  <1>15. (swap[n].pc = "done" => r.pc = "done") /\ swap[n].pc # "new"
    BY <1>0, <1>1, <1>3
  <1> QED BY <1>1, <1>3, <1>4, <1>8, <1>10, <1>11, <1>13, <1>14, <1>15, Moves

\* Nothing is held before the first swap.
LEMMA DexStart == DexInit => DexInv
  <1> SUFFICES ASSUME DexInit PROVE DexInv
    OBVIOUS
  <1>1. /\ swap = [n \in SwapIds |-> NewSwap] /\ wallet = 0 /\ finalized = 0 /\ position = 0
        /\ excused = {} /\ dexVenue \in DexVenues
    BY DEF DexInit
  <1>2. NewSwap \in Swaps
    BY DEF NewSwap, Swaps
  <1>3. swap \in [SwapIds -> Swaps] /\ \A n \in SwapIds : swap[n] = NewSwap
    BY <1>1, <1>2
  <1>4. SoundSwap(NewSwap) /\ OfBooks(NewSwap)
    BY DexConstants DEF SoundSwap, OfBooks, Live, NewSwap
  <1>5. InTurn
    BY <1>3 DEF InTurn, NewSwap
  <1>6. Chain = {}
    BY <1>3 DEF Chain, InBlock, NewSwap
  <1>7. ChainOK
    BY <1>3, <1>6 DEF ChainOK, Settled, NewSwap
  <1>8. /\ SwapSum(Gots) = 0 /\ SwapSum(Filleds) = 0 /\ SwapSum(Finals) = 0 /\ SwapSum(Sures) = 0
    <2>1. \A n \in SwapIds : Gots[n] = 0 /\ Filleds[n] = 0 /\ Finals[n] = 0 /\ Sures[n] = 0
      BY <1>3 DEF Gots, Filleds, Finals, Sures, FilledPart, FinalPart, SurePart, NewSwap
    <2>2. /\ Gots \in [SwapIds -> Int] /\ Filleds \in [SwapIds -> Int]
          /\ Finals \in [SwapIds -> Int] /\ Sures \in [SwapIds -> Int]
      BY <1>3, SumTypes
    <2> QED BY <2>1, <2>2, SwapSumGrows
  <1>9. WalletOK /\ PositionOK
    BY <1>1, <1>6, <1>8, DexConstants DEF WalletOK, PositionOK
  <1> QED BY <1>1, <1>3, <1>4, <1>5, <1>7, <1>9 DEF DexInv

\* No step breaks the invariant of the swaps.
LEMMA DexStep == DexInv /\ [DexNext]_dexVars => DexInv'
  <1> SUFFICES ASSUME DexInv, [DexNext]_dexVars PROVE DexInv'
    OBVIOUS
  <1>1. CASE Restore
    BY <1>1, RestoreStep
  <1>2. ASSUME NEW n \in SwapIds, NEW usd \in DexSizes, AskBuy(n, usd) PROVE DexInv'
    BY <1>2, AskStep
  <1>3. ASSUME NEW n \in SwapIds, AskSell(n) PROVE DexInv'
    BY <1>3, AskStep
  <1>4. ASSUME NEW n \in SwapIds, Unsent(n) \/ SignAndSend(n) \/ Reverted(n) \/ TimesOutSwap(n) \/ PollFails(n)
        PROVE  DexInv'
    BY <1>4, AdapterStep
  <1>5. ASSUME NEW n \in SwapIds, Filled(n) PROVE DexInv'
    BY <1>5, FilledStep
  <1>6. ASSUME NEW n \in SwapIds, Executes(n) PROVE DexInv'
    BY <1>6, ExecutesStep
  <1>7. ASSUME NEW n \in SwapIds, Confirms(n) \/ Finalizes(n) \/ Lapses(n) PROVE DexInv'
    BY <1>7, VoteStep
  <1>8. ASSUME NEW n \in SwapIds, Forks(n) PROVE DexInv'
    BY <1>8, ForksStep
  <1>9. CASE UNCHANGED dexVars
    <2>1. UNCHANGED <<dexVenue, swap, wallet, finalized, position, excused>>
      BY <1>9 DEF dexVars
    <2>2. /\ Gots' = Gots /\ Filleds' = Filleds /\ Finals' = Finals /\ Sures' = Sures /\ Chain' = Chain
          /\ \A n \in SwapIds : Belows(n)' = Belows(n)
      BY <2>1 DEF Gots, Filleds, Finals, Sures, Belows, Chain, InBlock
    <2>3. WalletOK' /\ PositionOK'
      BY <2>1, <2>2 DEF DexInv, WalletOK, PositionOK, Chain
    <2>4. ChainOK' /\ InTurn'
      BY <2>1, <2>2 DEF DexInv, ChainOK, InTurn, Settled
    <2>5. \A n \in SwapIds : SoundSwap(swap[n])' /\ OfBooks(swap[n])'
      BY <2>1 DEF DexInv, SoundSwap, OfBooks, Live, Solana
    <2> QED BY <2>1, <2>3, <2>4, <2>5 DEF DexInv
  <1> QED
    BY <1>1, <1>2, <1>3, <1>4, <1>5, <1>6, <1>7, <1>8, <1>9 DEF DexNext

\* What the invariant says of what swaps tell, of the limit and of exits.
LEMMA DexInvIsHonest == DexInv => DexHonest
  <1> SUFFICES ASSUME DexInv PROVE DexHonest
    OBVIOUS
  <1>1. SwapsTold
    BY DEF DexInv, SoundSwap, SwapsTold, OnChain
  <1>2. Gots \in [SwapIds -> Int] /\ Filleds \in [SwapIds -> Int] /\ Sures \in [SwapIds -> Int]
    BY SumTypes DEF DexInv
  <1>3. /\ SwapSum(Gots) \in Int /\ SwapSum(Filleds) \in Int /\ SwapSum(Sures) \in Int
        /\ position \in Nat /\ wallet = SwapSum(Gots)
    BY SumTypes DEF DexInv, WalletOK
  <1>4. DexCapHolds
    <2> SUFFICES ASSUME dexVenue # "pumpfun", \A n \in SwapIds : ~(swap[n].got > 0 /\ swap[n].answer # "filled")
                 PROVE  wallet <= DexMaxUsd
      BY DEF DexCapHolds
    <2>1. \A n \in SwapIds : Gots[n] <= Filleds[n]
      BY NotSentYet DEF Gots, Filleds, FilledPart
    <2>2. SwapSum(Gots) <= SwapSum(Filleds)
      BY <1>2, <2>1, SwapSumGrows
    <2> QED BY <1>3, <2>2, DexConstants DEF DexInv, PositionOK
  <1>5. ExitsFit
    <2> SUFFICES ASSUME AtRest, excused = {}, \A n \in SwapIds : ~(swap[n].got < 0 /\ swap[n].answer # "filled")
                 PROVE  position <= wallet
      BY <1>3 DEF ExitsFit
    <2>1. ASSUME NEW n \in SwapIds PROVE Sures[n] <= Gots[n]
      BY NotSentYet DEF Sures, Gots, SurePart
    <2>2. SwapSum(Sures) <= SwapSum(Gots)
      BY <1>2, <2>1, SwapSumGrows
    <2> QED BY <1>3, <2>2 DEF DexInv, PositionOK
  <1> QED BY <1>1, <1>4, <1>5 DEF DexHonest

\* Whatever the venue, the sizes and the slippage, and however many swaps are made, not heard
\* of, given up or dropped by forks: a swap reported filled stays, a failure that was heard of is
\* one, DEX_TRADE_MAX_USD bounds the wallet but for given-up buys, and an exit finds what it
\* sells but for slippage, given-up sells and a wallet read too early (dex-trade-executor.ts).
THEOREM SwapsAreHonest == DexSpec => []DexHonest
  <1>1. DexInv /\ [DexNext]_dexVars => DexInv'
    BY DexStep
  <1> QED
    BY <1>1, DexStart, DexInvIsHonest, PTL DEF DexSpec
-----------------------------------------------------------------------------
\* What is told of what was spent is so, at every level of the chain of calls: by the wallet
\* service of its transactions (wallet-direct), by the executors of their opportunities, by the
\* trading workers' swaps of theirs, whichever of them runs.
THEOREM ExecutorsAreHonest == MCSpec => []ExecutorsHonest
  <1>1. MCInit => Init /\ ExecInit /\ DexInit
    BY DEF MCInit
  <1>2. [MCNext]_<<focus, walletVars, execVars, ledgerVars, dexVars>>
           => [Next]_vars /\ [ExecNext]_execVars /\ [DexNext]_dexVars
    BY DEF MCNext, walletVars
  <1>3. MCSpec => Spec /\ ExecSpec /\ DexSpec
    BY <1>1, <1>2, PTL DEF MCSpec, Spec, ExecSpec, DexSpec
  <1>4. ReportTruthful /\ (StuckMeansLong /\ SwapReported /\ SwapsAllowed) /\ DexHonest => ExecutorsHonest
    BY DEF ExecutorsHonest
  <1> QED BY <1>3, <1>4, ReportsAreTrue, ExecutorsReport, SwapsAreHonest, PTL

----------------------------------------------------------------------------
(* The types, whoever shares the address and whatever fails.                *)

\* A service's line has its own waiting calls in it, each once.
LineOK ==
    \A s \in Services : \A i \in DOMAIN line[s] :
        /\ call[line[s][i]].pc \in {"queued", "counting"} /\ call[line[s][i]].svc = s
        /\ \A j \in DOMAIN line[s] : line[s][i] = line[s][j] => i = j

\* A call outside the lines, or one that stays in its line, moves.
LEMMA LineStays ==
    ASSUME WType, LineOK, NEW c \in Calls, NEW k, call' = [call EXCEPT ![c] = k], UNCHANGED line,
           call[c].pc \in {"queued", "counting"} => k.pc \in {"queued", "counting"} /\ k.svc = call[c].svc
    PROVE  LineOK'
  <1>1. \A d \in Calls : call'[d] = IF d = c THEN k ELSE call[d]
    BY DEF WType
  <1>2. \A s \in Services : \A i \in DOMAIN line[s] : line[s][i] \in Calls
    <2> TAKE s \in Services
    <2>1. line[s] \in Seq(Calls)
      BY DEF WType
    <2> QED BY <2>1
  <1> QED BY <1>1, <1>2 DEF LineOK

\* The call at the head leaves its line.
LEMMA LineMoves ==
    ASSUME WType, LineOK, NEW c \in Calls, AtHead(c), call[c].svc \in Services, ReleaseGate(c),
           NEW k, call' = [call EXCEPT ![c] = k]
    PROVE  LineOK'
  <1> DEFINE t == call[c].svc
  <1>1. \A d \in Calls : call'[d] = IF d = c THEN k ELSE call[d]
    BY DEF WType
  <1>2. \A s \in Services : line[s] \in Seq(Calls) /\ line'[s] = IF s = t THEN Tail(line[s]) ELSE line[s]
    BY DEF WType, ReleaseGate
  <1>3. line[t] # <<>> /\ line[t][1] = c
    BY DEF AtHead
  <1>4. ASSUME NEW s \in Services, NEW i \in DOMAIN line'[s]
        PROVE  \E m \in DOMAIN line[s] : /\ line[s][m] = line'[s][i] /\ line'[s][i] \in Calls /\ line'[s][i] # c
                                         /\ m = IF s = t THEN i + 1 ELSE i
    <2>1. CASE s = t
      <3>1. PICK l \in Seq(Calls) : l = line[t] /\ line'[s] = Tail(l)
        BY <1>2, <2>1
      <3>2. i \in 1..Len(l) - 1 /\ Len(l) \in Nat /\ i + 1 \in 1..Len(l) /\ 1 \in 1..Len(l)
            /\ Tail(l)[i] = l[i + 1] /\ i + 1 # 1
        BY <1>3, <1>4, <3>1
      <3>3. l[i + 1] # l[1] /\ l[i + 1] \in Calls
        BY <2>1, <3>1, <3>2 DEF LineOK
      <3> QED BY <1>3, <2>1, <3>1, <3>2, <3>3
    <2>2. CASE s # t
      <3>1. PICK l \in Seq(Calls) : l = line[s] /\ line'[s] = l
        BY <1>2, <2>2
      <3>2. i \in DOMAIN l /\ l[i] \in Calls
        BY <1>4, <3>1
      <3>3. call[l[i]].svc = s
        BY <3>1, <3>2 DEF LineOK
      <3> QED BY <2>2, <3>1, <3>2, <3>3
    <2> QED BY <2>1, <2>2
  <1>5. ASSUME NEW s \in Services, NEW i \in DOMAIN line'[s]
        PROVE  /\ call'[line'[s][i]].pc \in {"queued", "counting"} /\ call'[line'[s][i]].svc = s
               /\ \A j \in DOMAIN line'[s] : line'[s][i] = line'[s][j] => i = j
    <2>1. PICK m \in DOMAIN line[s] : /\ line[s][m] = line'[s][i] /\ line'[s][i] \in Calls /\ line'[s][i] # c
                                      /\ m = IF s = t THEN i + 1 ELSE i
      BY <1>4, <1>5
    <2>2. call'[line'[s][i]] = call[line[s][m]]
      BY <1>1, <2>1
    <2>3. ASSUME NEW j \in DOMAIN line'[s], line'[s][i] = line'[s][j] PROVE i = j
      <3>1. PICK o \in DOMAIN line[s] : line[s][o] = line'[s][j] /\ o = IF s = t THEN j + 1 ELSE j
        BY <1>4, <2>3
      <3>2. m = o
        BY <2>1, <2>3, <3>1 DEF LineOK
      <3>3. CASE s = t
        <4>1. i \in Int /\ j \in Int
          <5>1. PICK l \in Seq(Calls) : line'[s] = l
            <6>1. line[t] \in Seq(Calls) /\ line[t] # <<>> /\ line'[s] = Tail(line[t])
              BY <1>2, <1>3, <3>3
            <6>2. Tail(line[t]) \in Seq(Calls)
              BY <6>1
            <6> QED BY <6>1, <6>2
          <5> QED BY <1>5, <2>3, <5>1
        <4> QED BY <2>1, <3>1, <3>2, <3>3, <4>1
      <3> QED BY <2>1, <3>1, <3>2, <3>3
    <2> QED BY <2>1, <2>2, <2>3 DEF LineOK
  <1> QED BY <1>5 DEF LineOK

\* A call that waits for nothing yet joins its line.
LEMMA LineGrows == ASSUME WType, LineOK, NEW c \in Calls, Enqueue(c) PROVE LineOK'
  <1> DEFINE t == call[c].svc
  <1>1. PICK k \in CallType : call' = [call EXCEPT ![c] = k] /\ k.pc = "queued" /\ k.svc = call[c].svc
    BY GotoMakes DEF Enqueue, Phases
  <1>2. \A d \in Calls : call'[d] = IF d = c THEN k ELSE call[d]
    BY <1>1 DEF WType
  <1>3. call[c].pc = "preflight" /\ t \in Services
    BY DEF Enqueue, WType, CallOK
  <1>4. \A s \in Services : line[s] \in Seq(Calls) /\ line'[s] = IF s = t THEN Append(line[s], c) ELSE line[s]
    BY DEF WType, Enqueue
  <1>5. \A s \in Services : \A i \in DOMAIN line[s] : line[s][i] # c /\ line[s][i] \in Calls
    <2> SUFFICES ASSUME NEW s \in Services, NEW i \in DOMAIN line[s] PROVE line[s][i] # c /\ line[s][i] \in Calls
      OBVIOUS
    <2>1. line[s] \in Seq(Calls) /\ call[line[s][i]].pc \in {"queued", "counting"}
      BY <1>4 DEF LineOK
    <2> QED BY <1>3, <2>1
  <1>6. ASSUME NEW s \in Services, NEW i \in DOMAIN line'[s]
        PROVE  /\ call'[line'[s][i]].pc \in {"queued", "counting"} /\ call'[line'[s][i]].svc = s
               /\ \A j \in DOMAIN line'[s] : line'[s][i] = line'[s][j] => i = j
    <2>1. CASE s = t
      <3>1. PICK l \in Seq(Calls) : l = line[s] /\ line'[s] = Append(l, c)
        BY <1>4, <2>1
      <3>2. /\ Len(l) \in Nat /\ DOMAIN l = 1..Len(l) /\ DOMAIN Append(l, c) = 1..Len(l) + 1
            /\ Append(l, c)[Len(l) + 1] = c /\ \A m \in DOMAIN l : Append(l, c)[m] = l[m]
        BY <3>1
      <3>3. \A m \in DOMAIN l : /\ l[m] # c /\ l[m] \in Calls
                                /\ call[l[m]].pc \in {"queued", "counting"} /\ call[l[m]].svc = s
                                /\ \A o \in DOMAIN l : l[m] = l[o] => m = o
        BY <1>5, <3>1 DEF LineOK
      <3>4. \A m \in DOMAIN Append(l, c) : m \in DOMAIN l \/ m = Len(l) + 1
        BY <3>2
      <3>5. call'[c].pc = "queued" /\ call'[c].svc = s
        BY <1>1, <1>2, <2>1
      <3>6. \A m \in DOMAIN l : call'[l[m]] = call[l[m]]
        BY <1>2, <3>3
      <3>7. i \in DOMAIN Append(l, c)
        BY <1>6, <3>1
      <3> HIDE DEF t
      <3>8. /\ call'[Append(l, c)[i]].pc \in {"queued", "counting"} /\ call'[Append(l, c)[i]].svc = s
            /\ \A j \in DOMAIN Append(l, c) : Append(l, c)[i] = Append(l, c)[j] => i = j
        BY <3>2, <3>3, <3>4, <3>5, <3>6, <3>7
      <3> QED BY <3>1, <3>8
    <2>2. CASE s # t
      BY <1>2, <1>4, <1>5, <1>6, <2>2 DEF LineOK
    <2> QED BY <2>1, <2>2
  <1> QED BY <1>6 DEF LineOK

\* Lines stay as they should.
LEMMA LineKept == WType /\ LineOK /\ [Next]_vars => LineOK'
  <1> SUFFICES ASSUME WType, LineOK, [Next]_vars PROVE LineOK'
    OBVIOUS
  <1>0. \A c \in Calls : call[c] \in CallType /\ CallOK(call[c], tx[c])
    BY DEF WType, CallOK
  <1>1. ASSUME NEW c \in Calls, NEW s \in Services, Begin(c, s) PROVE LineOK'
    <2> DEFINE k == [call[c] EXCEPT !.pc = "preflight", !.svc = s]
    <2>1. call' = [call EXCEPT ![c] = k] /\ UNCHANGED line /\ call[c].pc = "new"
      BY <1>1 DEF Begin
    <2> HIDE DEF k
    <2> QED BY <2>1, LineStays
  <1>2. ASSUME NEW c \in Calls, NEW pc \in Phases, Goto(c, pc), call[c].pc \notin {"queued", "counting"}, UNCHANGED line
        PROVE  LineOK'
    <2>1. PICK k \in CallType : call' = [call EXCEPT ![c] = k]
      BY <1>2, GotoMakes
    <2> QED BY <1>2, <2>1, LineStays
  <1>3. ASSUME NEW c \in Calls, NEW status \in Statuses, Return(c, status), call[c].pc \notin {"queued", "counting"}, UNCHANGED line
        PROVE  LineOK'
    <2>1. PICK k \in CallType : call' = [call EXCEPT ![c] = k]
      BY <1>3, ReturnMakes
    <2> QED BY <1>3, <2>1, LineStays
  <1>4. ASSUME NEW c \in Calls, NEW n, call[c].pc \in {"queued", "counting"}, AtHead(c), Allocate(c, n), ReleaseGate(c)
        PROVE  LineOK'
    <2> DEFINE k == [call[c] EXCEPT !.pc = "signing", !.nonce = n]
    <2>1. call' = [call EXCEPT ![c] = k] /\ call[c].svc \in Services
      BY <1>0, <1>4 DEF Allocate, CallOK
    <2> HIDE DEF k
    <2> QED BY <1>4, <2>1, LineMoves
  <1>5. ASSUME NEW c \in Calls, AllocateCached(c) PROVE LineOK'
    BY <1>4, <1>5 DEF AllocateCached
  <1>6. ASSUME NEW c \in Calls, AllocateCounted(c) PROVE LineOK'
    BY <1>4, <1>6 DEF AllocateCounted, WType
  <1>7. ASSUME NEW c \in Calls, AskCount(c) PROVE LineOK'
    <2> DEFINE k == [call[c] EXCEPT !.pc = "counting", !.seen = FetchPending]
    <2>1. call' = [call EXCEPT ![c] = k] /\ UNCHANGED line
      BY <1>7 DEF AskCount
    <2>2. k.pc = "counting" /\ k.svc = call[c].svc
      BY <1>0 DEF CallType
    <2> HIDE DEF k
    <2> QED BY <2>1, <2>2, LineStays
  <1>8. ASSUME NEW c \in Calls, CountFails(c) PROVE LineOK'
    <2>1. PICK k \in CallType : call' = [call EXCEPT ![c] = k]
      BY <1>8, ReturnMakes DEF CountFails
    <2>2. AtHead(c) /\ call[c].svc \in Services /\ ReleaseGate(c)
      BY <1>0, <1>8 DEF CountFails, CallOK, WType
    <2> QED BY <2>1, <2>2, LineMoves
  <1>9. ASSUME NEW c \in Calls, Refuse(c) \/ SignFails(c) \/ BroadcastAborts(c) \/ GiveUp(c) \/ PollThrows(c) PROVE LineOK'
    BY <1>3, <1>9 DEF Refuse, SignFails, BroadcastAborts, GiveUp, PollThrows
  <1>10. ASSUME NEW c \in Calls, Receipt(c) PROVE LineOK'
    <2>1. ReceiptStatus(tx[c]) \in Statuses
      BY DEF ReceiptStatus
    <2> QED BY <1>3, <1>10, <2>1 DEF Receipt
  <1>11. ASSUME NEW c \in Calls, Sign(c) \/ Broadcast(c) \/ BroadcastFails(c) PROVE LineOK'
    <2>1. {"sending", "tracking", "failing"} \subseteq Phases
      BY DEF Phases
    <2> QED BY <1>2, <1>11, <2>1 DEF Sign, Broadcast, BroadcastFails
  <1>12. ASSUME NEW c \in Calls, Mine(c) PROVE LineOK'
    BY <1>12 DEF Mine, LineOK
  <1>13. CASE Crash
    BY <1>13 DEF Crash, LineOK
  <1>14. CASE UNCHANGED vars
    BY <1>14 DEF vars, LineOK
  <1> QED
    BY <1>1, <1>5, <1>6, <1>7, <1>8, <1>9, <1>10, <1>11, <1>12, <1>13, <1>14, LineGrows DEF Next, CallStep

\* No more calls are in flight than the regime allows.
FlightOK == Cardinality(InFlight) <= regime.overlap

\* Calls in flight can be counted, and so can any that were.
LEMMA FlightsFinite ==
    ASSUME NEW S \in SUBSET InFlight
    PROVE  IsFiniteSet(S) /\ Cardinality(S) \in Nat /\ Cardinality(InFlight) \in Nat /\ Cardinality(S) <= Cardinality(InFlight)
  <1>1. IsFiniteSet(InFlight)
    BY FS_Subset, WalletConstants DEF InFlight
  <1> QED BY <1>1, FS_Subset, FS_CardinalityType

\* Only a call that begins adds to them.
LEMMA FlightKept == WType /\ FlightOK /\ [Next]_vars => FlightOK'
  <1> SUFFICES ASSUME WType, FlightOK, [Next]_vars PROVE FlightOK'
    OBVIOUS
  <1>0. \A c \in Calls : call[c] \in CallType /\ CallOK(call[c], tx[c])
    BY DEF WType, CallOK
  <1>1. regime' = regime /\ regime.overlap \in Nat
    BY RegimeStays, WalletConstants DEF WType
  <1>2. ASSUME InFlight' \subseteq InFlight PROVE FlightOK'
    <2>1. PICK S : S = InFlight'
      OBVIOUS
    <2>2. Cardinality(S) \in Nat /\ Cardinality(InFlight) \in Nat /\ Cardinality(S) <= Cardinality(InFlight)
      BY <1>2, <2>1, FlightsFinite
    <2>3. Cardinality(S) <= regime.overlap
      BY <1>1, <2>2 DEF FlightOK
    <2> QED BY <1>1, <2>1, <2>3 DEF FlightOK
  <1>3. ASSUME NEW c \in Calls, NEW k, call' = [call EXCEPT ![c] = k], call[c].pc \notin {"new", "done", "dead"} PROVE FlightOK'
    <2>1. \A d \in Calls : call'[d] = IF d = c THEN k ELSE call[d]
      BY <1>3 DEF WType
    <2> QED BY <1>2, <1>3, <2>1 DEF InFlight
  <1>4. ASSUME NEW c \in Calls, NEW s \in Services, Begin(c, s) PROVE FlightOK'
    <2> DEFINE k == [call[c] EXCEPT !.pc = "preflight", !.svc = s]
    <2>1. call' = [call EXCEPT ![c] = k] /\ Cardinality(InFlight) < regime.overlap
      BY <1>4 DEF Begin
    <2>2. k.pc = "preflight"
      BY <1>0 DEF CallType
    <2> HIDE DEF k
    <2>3. \A d \in Calls : call'[d] = IF d = c THEN k ELSE call[d]
      BY <2>1 DEF WType
    <2>4. InFlight' = InFlight \cup {c}
      BY <2>2, <2>3 DEF InFlight
    <2>5. IsFiniteSet(InFlight) /\ Cardinality(InFlight) \in Nat
      BY FlightsFinite
    <2>6. Cardinality(InFlight \cup {c}) = IF c \in InFlight THEN Cardinality(InFlight) ELSE Cardinality(InFlight) + 1
      BY <2>5, FS_AddElement
    <2>7. Cardinality(InFlight \cup {c}) <= regime.overlap
      BY <1>1, <2>1, <2>5, <2>6
    <2> QED BY <1>1, <2>4, <2>7 DEF FlightOK
  <1>5. ASSUME NEW c \in Calls, CallStep(c)
        PROVE  call[c].pc \notin {"new", "done", "dead"} /\ \E k : call' = [call EXCEPT ![c] = k]
    BY <1>5 DEF CallStep, Refuse, Enqueue, AllocateCached, AskCount, AllocateCounted, CountFails, Sign,
       SignFails, Broadcast, BroadcastFails, BroadcastAborts, Receipt, GiveUp, PollThrows, Goto, Return, Allocate
  <1>6. ASSUME NEW c \in Calls, CallStep(c) PROVE FlightOK'
    BY <1>3, <1>5, <1>6
  <1>7. ASSUME NEW c \in Calls, Mine(c) PROVE FlightOK'
    BY <1>2, <1>7 DEF Mine, InFlight
  <1>8. CASE Crash
    <2>1. \A d \in Calls : d \in InFlight => call'[d].pc = "dead"
      BY <1>0, <1>8 DEF Crash, CallType
    <2>2. \A d \in Calls : d \notin InFlight => call'[d] = call[d]
      BY <1>8 DEF Crash
    <2>3. InFlight' \subseteq InFlight
      BY <2>1, <2>2 DEF InFlight
    <2> QED BY <1>2, <2>3
  <1>9. CASE UNCHANGED vars
    BY <1>2, <1>9 DEF vars, InFlight
  <1> QED BY <1>4, <1>6, <1>7, <1>8, <1>9 DEF Next

\* A line is no longer than there are calls in flight, and what is known is of the types.
LEMMA NonceTypesAre == WType /\ LineOK /\ FlightOK => TypeOK
  <1> SUFFICES ASSUME WType, LineOK, FlightOK PROVE TypeOK
    OBVIOUS
  <1>1. ASSUME NEW s \in Services PROVE Len(line[s]) <= regime.overlap
    <2>1. PICK l \in Seq(Calls) : l = line[s]
      BY DEF WType
    <2>2. /\ \A i \in DOMAIN l : l[i] \in InFlight
          /\ \A i, j \in DOMAIN l : l[i] = l[j] => i = j
      BY <2>1 DEF LineOK, InFlight
    <2>3. DOMAIN l = 1..Len(l) /\ Len(l) \in Nat /\ l \in [1..Len(l) -> InFlight]
      BY <2>2
    <2>4. l \in Injection(1..Len(l), InFlight)
      BY <2>2, <2>3 DEF Injection, IsInjective
    <2>5. IsFiniteSet(InFlight) /\ Cardinality(InFlight) \in Nat
      BY FlightsFinite
    <2>6. Cardinality(1..Len(l)) <= Cardinality(InFlight)
      BY <2>4, <2>5, FS_Injection
    <2>7. Cardinality(1..Len(l)) = Len(l)
      <3>1. 1 \in Int /\ Len(l) \in Int
        BY <2>3
      <3>2. Cardinality(1..Len(l)) = IF 1 > Len(l) THEN 0 ELSE Len(l) - 1 + 1
        BY <3>1, FS_Interval
      <3> QED BY <2>3, <3>2
    <2>8. regime.overlap \in Nat
      BY WalletConstants DEF WType
    <2> QED BY <2>1, <2>3, <2>5, <2>6, <2>7, <2>8 DEF FlightOK
  <1> QED BY <1>1 DEF WType, LineOK, TypeOK

\* Every step keeps them.
LEMMA NonceTypes == WType /\ LineOK /\ FlightOK /\ [Next]_vars => WType' /\ LineOK' /\ FlightOK'
  BY TypeStep, NodeAnswers, LineKept, FlightKept

----------------------------------------------------------------------------
(* The types of the swaps, and what is final of them.                       *)

\* Under a final block all is settled for good, so what is final was once all the wallet had.
FinalOK ==
    /\ finalized >= 0
    /\ \A n \in SwapIds : swap[n].tx = "final" => \A m \in swap[n].below : swap[m].tx # "confirmed"

\* The block that becomes final is on top of all that are: with it, what is final is what the
\* wallet had at it.
LEMMA FinalsAreBelow ==
    ASSUME DexInv, FinalOK, NEW n \in SwapIds, Finalizes(n)
    PROVE  finalized + swap[n].got \in Nat
  <1>1. /\ swap[n].tx = "confirmed" /\ \A m \in swap[n].below : swap[m].tx # "confirmed"
        /\ n \in Chain /\ Settled(n)
    BY DEF Finalizes, Chain, InBlock, Settled
  <1>2. \A k \in SwapIds : swap[k] \in Swaps /\ SoundSwap(swap[k]) /\ swap[k].got \in Int /\ swap[k].below \subseteq Chain \ {k}
    BY DEF DexInv, Swaps, ChainOK
  <1>3. ASSUME NEW k \in SwapIds PROVE Finals[k] = Belows(n)[k]
    <2>0. /\ Finals[k] = IF swap[k].tx = "final" THEN swap[k].got ELSE 0
          /\ Belows(n)[k] = IF k \in swap[n].below THEN swap[k].got ELSE 0
      BY DEF Finals, FinalPart, Belows
    <2>1. CASE k \in swap[n].below
      <3>1. Settled(k) /\ swap[k].tx # "confirmed"
        BY <1>1, <2>1 DEF DexInv, ChainOK
      <3>2. swap[k].tx = "final" \/ swap[k].got = 0
        BY <1>2, <3>1 DEF Settled, SoundSwap
      <3> QED BY <2>0, <2>1, <3>2
    <2>2. CASE k \notin swap[n].below
      <3>1. swap[k].tx # "final"
        <4> SUFFICES ASSUME swap[k].tx = "final" PROVE FALSE
          OBVIOUS
        <4>1. k \in Chain /\ k # n
          BY <1>1 DEF Chain, InBlock
        <4>2. n \in swap[k].below
          BY <1>1, <2>2, <4>1 DEF DexInv, ChainOK
        <4> QED BY <1>1, <4>2 DEF FinalOK
      <3> QED BY <2>0, <2>2, <3>1
    <2> QED BY <2>1, <2>2
  <1>4. Finals = Belows(n)
    BY <1>3 DEF Finals, Belows
  <1>5. finalized = SwapSum(Belows(n)) /\ SwapSum(Belows(n)) + swap[n].got >= 0
    BY <1>1, <1>4 DEF DexInv, WalletOK
  <1>6. finalized \in Int /\ swap[n].got \in Int
    BY <1>2 DEF DexInv
  <1> QED BY <1>5, <1>6

\* Blocks become final in order.
LEMMA FinalKept == DexInv /\ FinalOK /\ [DexNext]_dexVars => FinalOK'
  <1> SUFFICES ASSUME DexInv, FinalOK, [DexNext]_dexVars PROVE FinalOK'
    OBVIOUS
  <1>0. /\ \A k \in SwapIds : swap[k] \in Swaps /\ SoundSwap(swap[k]) /\ swap[k].below \subseteq SwapIds \ {k}
        /\ wallet \in Int /\ wallet >= 0 /\ finalized \in Int /\ finalized >= 0 /\ swap \in [SwapIds -> Swaps]
        /\ Chain \subseteq SwapIds
    BY DEF DexInv, WalletOK, ChainOK, FinalOK, Chain
  <1>1. ASSUME NEW n \in SwapIds, NEW r, TurnsInto(n, r), UNCHANGED finalized, r.tx = swap[n].tx, r.below = swap[n].below
        PROVE  FinalOK'
    <2>1. \A k \in SwapIds : swap'[k].tx = swap[k].tx /\ swap'[k].below = swap[k].below
      BY <1>0, <1>1 DEF TurnsInto
    <2>2. \A k \in SwapIds : \A m \in swap[k].below : swap'[m].tx = swap[m].tx
      BY <1>0, <2>1
    <2> QED BY <1>1, <2>1, <2>2 DEF FinalOK
  <1>2. ASSUME NEW n \in SwapIds, NEW pc, NEW answer, UNCHANGED finalized, 
               TurnsInto(n, [swap[n] EXCEPT !.pc = pc, !.answer = answer])
        PROVE  FinalOK'
    BY <1>0, <1>1, <1>2 DEF Swaps
  <1>3. ASSUME NEW n \in SwapIds, NEW pc, NEW answer, UNCHANGED finalized, 
               TurnsInto(n, [swap[n] EXCEPT !.pc = pc, !.answer = answer, !.unheard = TRUE])
        PROVE  FinalOK'
    <2> DEFINE r == [swap[n] EXCEPT !.pc = pc, !.answer = answer, !.unheard = TRUE]
    <2>1. r.tx = swap[n].tx /\ r.below = swap[n].below
      BY <1>0 DEF Swaps
    <2> HIDE DEF r
    <2> QED BY <1>1, <1>3, <2>1 DEF r
  <1>4. ASSUME NEW n \in SwapIds, \/ Unsent(n) \/ Filled(n) \/ Reverted(n) \/ TimesOutSwap(n) \/ PollFails(n)
        PROVE  FinalOK'
    BY <1>2, <1>3, <1>4 DEF Unsent, Filled, Reverted, TimesOutSwap, PollFails, Answered, Unheard, UnchangedChain
  <1>5. ASSUME NEW n \in SwapIds, NEW usd \in DexSizes, AskBuy(n, usd) PROVE FinalOK'
    <2>1. CASE TurnsInto(n, [swap[n] EXCEPT !.pc = "quoting", !.amount = usd])
      <3> DEFINE r == [swap[n] EXCEPT !.pc = "quoting", !.amount = usd]
      <3>1. r.tx = swap[n].tx /\ r.below = swap[n].below
        BY <1>0 DEF Swaps
      <3> HIDE DEF r
      <3> QED BY <1>1, <1>5, <2>1, <3>1 DEF r, AskBuy, UnchangedChain
    <2> QED BY <1>2, <1>5, <2>1 DEF AskBuy, Answered, UnchangedChain
  <1>6. ASSUME NEW n \in SwapIds, AskSell(n) PROVE FinalOK'
    <2> DEFINE r == [swap[n] EXCEPT !.pc = "quoting", !.side = "sell",
                                  !.amount = IF dexVenue = "pumpfun" THEN wallet ELSE position]
    <2>1. r.tx = swap[n].tx /\ r.below = swap[n].below /\ TurnsInto(n, r) /\ UNCHANGED finalized
      BY <1>0, <1>6 DEF Swaps, AskSell, UnchangedChain
    <2> HIDE DEF r
    <2> QED BY <1>1, <2>1
  <1>7. ASSUME NEW n \in SwapIds, NEW r, TurnsInto(n, r), UNCHANGED finalized, swap[n].tx # "final",
               r.tx \notin {"confirmed", "final"} \/ (r.tx = "confirmed" /\ ~Settled(n)),
               r.below = swap[n].below \/ r.below = {}
        PROVE  FinalOK'
    <2>1. \A k \in SwapIds : swap'[k] = IF k = n THEN r ELSE swap[k]
      BY <1>0, <1>7 DEF TurnsInto
    <2>2. ASSUME NEW k \in SwapIds, swap'[k].tx = "final", NEW m \in swap'[k].below PROVE swap'[m].tx # "confirmed"
      <3>1. k # n /\ swap[k].tx = "final" /\ m \in swap[k].below /\ m \in SwapIds
        BY <1>0, <1>7, <2>1, <2>2
      <3>2. swap[m].tx # "confirmed" /\ Settled(m)
        BY <3>1 DEF FinalOK, DexInv, ChainOK, Settled
      <3>3. CASE m = n
        BY <1>7, <2>1, <3>1, <3>2, <3>3
      <3>4. CASE m # n
        BY <2>1, <3>1, <3>2, <3>4
      <3> QED BY <3>3, <3>4
    <2> QED BY <1>7, <2>2 DEF FinalOK
  <1>8. ASSUME NEW n \in SwapIds, SignAndSend(n) PROVE FinalOK'
    <2>1. swap[n].tx = "none" /\ UNCHANGED finalized
      BY <1>0, <1>8 DEF SignAndSend, SoundSwap, UnchangedChain
    <2>2. \E r : TurnsInto(n, r) /\ r.tx = "pending" /\ r.below = swap[n].below
      <3>1. CASE TurnsInto(n, [swap[n] EXCEPT !.pc = "sent", !.tx = "pending"])
        <4> DEFINE r == [swap[n] EXCEPT !.pc = "sent", !.tx = "pending"]
        <4>1. r.tx = "pending" /\ r.below = swap[n].below
          BY <1>0 DEF Swaps
        <4> QED BY <3>1, <4>1
      <3>2. CASE TurnsInto(n, [swap[n] EXCEPT !.pc = "done", !.tx = "pending", !.answer = NothingSent, !.unheard = TRUE])
        <4> DEFINE r == [swap[n] EXCEPT !.pc = "done", !.tx = "pending", !.answer = NothingSent, !.unheard = TRUE]
        <4>1. r.tx = "pending" /\ r.below = swap[n].below
          BY <1>0 DEF Swaps
        <4> QED BY <3>2, <4>1
      <3> QED BY <1>8, <3>1, <3>2 DEF SignAndSend
    <2> QED BY <1>7, <2>1, <2>2
  <1>9. ASSUME NEW n \in SwapIds, Confirms(n) \/ Lapses(n) PROVE FinalOK'
    <2>1. /\ swap[n].tx \in {"processed", "faulty", "pending"} /\ UNCHANGED finalized
          /\ \E fate \in {"confirmed", "failed", "lapsed"} : TurnsInto(n, [swap[n] EXCEPT !.tx = fate])
      BY <1>9 DEF Confirms, Lapses, Lands, UnchangedChain
    <2>2. PICK fate \in {"confirmed", "failed", "lapsed"} : TurnsInto(n, [swap[n] EXCEPT !.tx = fate])
      BY <2>1
    <2> DEFINE r == [swap[n] EXCEPT !.tx = fate]
    <2>3. r.tx = fate /\ r.below = swap[n].below /\ TurnsInto(n, r)
      BY <1>0, <2>2 DEF Swaps
    <2> HIDE DEF r
    <2> QED BY <1>7, <2>1, <2>3 DEF Settled
  <1>10. ASSUME NEW n \in SwapIds, Forks(n) PROVE FinalOK'
    <2> DEFINE r == [swap[n] EXCEPT !.tx = "pending", !.got = 0, !.below = {}, !.undone = TRUE]
    <2>1. r.tx = "pending" /\ r.below = {} /\ TurnsInto(n, r) /\ UNCHANGED finalized /\ swap[n].tx # "final"
      BY <1>0, <1>10 DEF Swaps, Forks
    <2> HIDE DEF r
    <2> QED BY <1>7, <2>1
  <1>11. ASSUME NEW n \in SwapIds, Finalizes(n) PROVE FinalOK'
    <2> DEFINE r == [swap[n] EXCEPT !.tx = "final"]
    <2>1. /\ r.tx = "final" /\ r.below = swap[n].below /\ TurnsInto(n, r)
          /\ finalized' = finalized + swap[n].got /\ \A m \in swap[n].below : swap[m].tx # "confirmed"
      BY <1>0, <1>11 DEF Swaps, Finalizes, Lands
    <2>2. finalized' >= 0
      BY <1>11, <2>1, FinalsAreBelow
    <2> HIDE DEF r
    <2>3. \A k \in SwapIds : swap'[k] = IF k = n THEN r ELSE swap[k]
      BY <1>0, <2>1 DEF TurnsInto
    <2>4. \A k \in SwapIds : swap'[k].tx = "confirmed" => swap[k].tx = "confirmed"
      BY <2>1, <2>3
    <2>5. \A k \in SwapIds : swap'[k].tx = "final" => \A m \in swap'[k].below : m \in SwapIds /\ swap[m].tx # "confirmed"
      BY <1>0, <2>1, <2>3 DEF FinalOK
    <2> QED BY <2>2, <2>4, <2>5 DEF FinalOK
  <1>12. ASSUME NEW n \in SwapIds, Executes(n) PROVE FinalOK'
    <2>1. DexInv'
      BY <1>12, ExecutesStep
    <2>2. PICK fate, got : /\ TurnsInto(n, [swap[n] EXCEPT !.tx = fate, !.got = got, !.below = Chain])
                         /\ (fate \in {"processed", "faulty"} \/ (~Solana /\ fate \in {"final", "failed"}))
      <3>1. swap[n].got = swap[n].got
        OBVIOUS
      <3>2. CASE TurnsInto(n, [swap[n] EXCEPT !.tx = IF Solana THEN "faulty" ELSE "failed", !.below = Chain])
        <4>1. [swap[n] EXCEPT !.tx = IF Solana THEN "faulty" ELSE "failed", !.below = Chain]
                = [swap[n] EXCEPT !.tx = IF Solana THEN "faulty" ELSE "failed", !.got = swap[n].got, !.below = Chain]
          BY <1>0 DEF Swaps
        <4> QED BY <3>2, <4>1
      <3>3. CASE \E got : TurnsInto(n, [swap[n] EXCEPT !.tx = IF Solana THEN "processed" ELSE "final", !.got = got, !.below = Chain])
        BY <3>3
      <3> QED BY <1>12, <3>2, <3>3 DEF Executes
    <2> DEFINE r == [swap[n] EXCEPT !.tx = fate, !.got = got, !.below = Chain]
    <2>3. r.tx = fate /\ r.below = Chain /\ TurnsInto(n, r)
      <3>1. swap[n] \in Swaps /\ TurnsInto(n, r)
        BY <1>0, <2>2
      <3>2. r.tx = fate /\ r.below = Chain
        BY <3>1 DEF Swaps
      <3> QED BY <3>1, <3>2
    <2> HIDE DEF r
    <2>4. \A k \in SwapIds : swap'[k] = IF k = n THEN r ELSE swap[k]
      BY <1>0, <2>3 DEF TurnsInto
    <2>5. finalized' >= 0
      <3>1. CASE Solana
        BY <1>0, <1>12, <3>1 DEF Executes
      <3>2. CASE ~Solana
        <4>1. ~Solana' /\ wallet' >= 0
          BY <1>12, <2>1, <3>2 DEF Executes, Solana, DexInv, WalletOK
        <4>2. finalized' = wallet'
          <5>1. finalized = wallet
            BY <3>2, BaseIsFinal
          <5>2. CASE UNCHANGED <<wallet, finalized>>
            BY <5>1, <5>2
          <5>3. CASE \E d : wallet' = wallet + d /\ finalized' = wallet + d
            BY <5>3
          <5> QED BY <1>12, <3>2, <5>2, <5>3 DEF Executes
        <4> QED BY <4>1, <4>2
      <3> QED BY <3>1, <3>2
    <2>6. ASSUME NEW k \in SwapIds, swap'[k].tx = "final", NEW m \in swap'[k].below PROVE swap'[m].tx # "confirmed"
      <3>1. r.tx # "confirmed" /\ swap[n].tx = "pending"
        BY <1>12, <2>2, <2>3 DEF Executes
      <3>2. CASE ~Solana
        <4>1. m \in SwapIds
          BY <1>0, <2>3, <2>4, <2>6
        <4>2. swap[m].tx # "confirmed"
          BY <1>0, <3>2, <4>1 DEF SoundSwap
        <4> QED BY <2>4, <3>1, <4>1, <4>2
      <3>3. CASE Solana
        <4>1. k # n /\ m \in SwapIds /\ swap[m].tx # "confirmed"
          BY <1>0, <2>2, <2>3, <2>4, <2>6, <3>3 DEF FinalOK
        <4> QED BY <2>4, <3>1, <4>1
      <3> QED BY <3>2, <3>3
    <2> QED BY <2>5, <2>6 DEF FinalOK
  <1>13. CASE Restore \/ UNCHANGED dexVars
    BY <1>13 DEF Restore, UnchangedChain, dexVars, FinalOK
  <1> QED
    BY <1>4, <1>5, <1>6, <1>8, <1>9, <1>10, <1>11, <1>12, <1>13 DEF DexNext

\* What is counted and excused.
DexTyped == DexInv /\ FinalOK /\ dexFaults \in Nat /\ excused \subseteq {"slipped", "read before final"}

\* Faults are counted one by one, and there are two excuses.
LEMMA DexTypesKept == DexTyped /\ [DexNext]_dexVars => DexTyped'
  <1> SUFFICES ASSUME DexTyped, [DexNext]_dexVars PROVE DexTyped'
    OBVIOUS
  <1>1. dexFaults' = dexFaults \/ dexFaults' = dexFaults + 1
    BY DEF DexNext, Restore, AskBuy, AskSell, Unsent, SignAndSend, Filled, Reverted, TimesOutSwap, PollFails,
       Executes, Confirms, Finalizes, Forks, Lapses, DexFault, dexVars
  <1>2. excused' \subseteq excused \cup {"slipped", "read before final"}
    BY DEF DexNext, Restore, AskBuy, AskSell, Unsent, SignAndSend, Filled, Reverted, TimesOutSwap, PollFails,
       Executes, Confirms, Finalizes, Forks, Lapses, UnchangedBooks, dexVars
  <1>3. DexInv' /\ FinalOK'
    BY DexStep, FinalKept DEF DexTyped
  <1>4. dexFaults' \in Nat
    <2>1. PICK k \in Nat : k = dexFaults
      BY DEF DexTyped
    <2> QED BY <1>1, <2>1
  <1>5. excused' \subseteq {"slipped", "read before final"}
    BY <1>2 DEF DexTyped
  <1> QED BY <1>3, <1>4, <1>5 DEF DexTyped

\* They are the types the code gives them.
LEMMA DexTypesAre == DexTyped => DexTypeOK
  <1> SUFFICES ASSUME DexTyped PROVE DexTypeOK
    OBVIOUS
  <1>1. wallet \in Int /\ finalized \in Int /\ position \in Nat /\ dexFaults \in Nat
    BY DEF DexTyped, DexInv
  <1>2. wallet >= 0 /\ finalized >= 0
    BY DEF DexTyped, DexInv, WalletOK, FinalOK
  <1>3. {wallet, finalized, position, dexFaults} \subseteq Nat
    BY <1>1, <1>2
  <1> QED BY <1>3 DEF DexTyped, DexInv, DexTypeOK, Swaps

\* Whichever part runs, the variables of all four keep their types, however many wallet
\* services share an address, calls overlap and processes restart, and whatever forks do.
THEOREM WalletTypes == MCSpec => []MCTypeOK
  <1> DEFINE I == /\ WType /\ LineOK /\ FlightOK /\ XInv /\ LedgerInv /\ DexTyped
             mcVars == <<focus, walletVars, execVars, ledgerVars, dexVars>>
  <1>1. MCInit => I
    <2> SUFFICES ASSUME MCInit PROVE I
      OBVIOUS
    <2>0. Init /\ ExecInit /\ LedgerInit /\ DexInit
      BY DEF MCInit
    <2>1. WType
      <3>1. /\ NewCall \in CallType /\ NewCall.pc = "new" /\ \A c \in Calls : call[c] = NewCall /\ tx[c] = "none"
        BY <2>0 DEF Init, NewCall, CallType, Phases
      <3>2. <<>> \in Seq(Calls)
        OBVIOUS
      <3> QED BY <2>0, <3>1, <3>2 DEF Init, WType, CallOK, Unposted, Unbound
    <2>2. LineOK
      BY <2>0 DEF Init, LineOK
    <2>3. FlightOK
      <3>1. InFlight = {}
        BY <2>0 DEF Init, InFlight, NewCall
      <3>2. regime.overlap \in Nat
        BY <2>0, WalletConstants DEF Init
      <3> QED BY <3>1, <3>2, FS_EmptySet DEF FlightOK
    <2>4. DexTyped
      BY <2>0, DexStart DEF DexTyped, DexInit, FinalOK, NewSwap
    <2> QED BY <2>0, <2>1, <2>2, <2>3, <2>4, ExecStart, LedgerStarts
  <1>2. I /\ [MCNext]_mcVars => I'
    <2> SUFFICES ASSUME I, [MCNext]_mcVars PROVE I'
      OBVIOUS
    <2>1. [Next]_vars /\ [ExecNext]_execVars /\ [LedgerNext]_ledgerVars /\ [DexNext]_dexVars
      BY DEF MCNext, walletVars
    <2> QED BY <2>1, NonceTypes, ExecStep, LedgerKept, DexTypesKept
  <1>3. I => MCTypeOK
    <2> SUFFICES ASSUME I PROVE MCTypeOK
      OBVIOUS
    <2>1. ExecTypeOK
      <3>1. opp \in [Opps -> OppType] /\ allowance \in Nat /\ pool \in Seq(PoolType)
        BY DEF XInv, XType
      <3> QED BY <3>1 DEF ExecTypeOK
    <2> QED BY <2>1, NonceTypesAre, DexTypesAre DEF MCTypeOK, LedgerInv
  <1> HIDE DEF I
  <1> QED BY <1>1, <1>2, <1>3, PTL DEF MCSpec
====
