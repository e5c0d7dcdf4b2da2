---- MODULE EventChannel ----
(***************************************************************************)
(* The durable queue between the observers and the trade daemons           *)
(* (packages/event-channel).  Two implementations share one interface:     *)
(*                                                                         *)
(*   "memory"    InMemoryEventChannel: claim() is one synchronous pass.    *)
(*   "supabase"  SupabaseEventChannel: claim() is a SELECT of candidate    *)
(*               ids followed by an UPDATE conditional on status='pending'.*)
(*                                                                         *)
(* A row is one queueId.  Its payload is abstracted to what the daemon's   *)
(* gates tell apart:                                                       *)
(*   "good"       passes every risk gate                                   *)
(*   "weak"       fails a gate on net, size, gas, slippage or hops         *)
(*   "escalated"  passes those, but opp.execution asks for more than the   *)
(*                daemon can run (mode, realizability, MEV)                *)
(*   "unroutable" passes every gate, but no executor handles it            *)
(***************************************************************************)
EXTENDS Integers, FiniteSets

CONSTANTS Rows,      \* queueIds that may be published
          Daemons,   \* trade daemon processes (one claimer id each)
          Backend,   \* "memory" or "supabase"
          Kinds,     \* the opportunities observers publish
          TTLs,      \* the ttlMs publishers pass, in clock units
          BatchSize, \* limit of a claim
          MaxTime,   \* bound: the clock stops here
          None       \* null

ASSUME ChannelConstants == /\ Backend \in {"memory", "supabase"}
                           /\ Kinds \subseteq {"good", "weak", "escalated", "unroutable"}
                           /\ TTLs \subseteq Nat
                           /\ BatchSize \in Nat \ {0}
                           /\ MaxTime \in Nat
                           /\ None \notin Rows
                           /\ None \notin Daemons

\* "Not suitable for multi-worker deployments": the in-memory queue belongs to
\* one process and dies with it.
ASSUME InMemoryIsOneProcess == Backend = "memory" => \A d, e \in Daemons : d = e

VARIABLES clock, \* Date.now()
          row    \* queueId -> the queue row

Terminal == {"filled", "rejected", "failed", "expired"}

\* "absent": not published yet; "gone": lost with the process that held it.
Status == {"absent", "pending", "claimed", "gone"} \union Terminal

RowType == [status : Status, kind : Kinds \union {None},
            claimedBy : Daemons \union {None}, createdAt : Nat, expiresAt : Nat]

AbsentRow == [status |-> "absent", kind |-> None, claimedBy |-> None,
              createdAt |-> 0, expiresAt |-> 0]

ChannelInit == /\ clock = 0
               /\ row = [q \in Rows |-> AbsentRow]

\* publish(): insert a row in `pending' with its deadline.
Publish(q, k, ttl) ==
    /\ row[q].status = "absent"
    /\ row' = [row EXCEPT ![q] = [status |-> "pending", kind |-> k, claimedBy |-> None,
                                  createdAt |-> clock, expiresAt |-> clock + ttl]]
    /\ UNCHANGED clock

Pending(q) == row[q].status = "pending"
Live(q)    == Pending(q) /\ row[q].expiresAt > clock

LiveRows == {q \in Rows : Live(q)}

\* `order by created_at limit n': the oldest live rows, at most BatchSize.
OldestBatch(S) ==
    /\ S \subseteq LiveRows
    /\ Cardinality(S) <= BatchSize
    /\ S # LiveRows => Cardinality(S) = BatchSize
    /\ \A q \in S, r \in LiveRows \ S : row[q].createdAt <= row[r].createdAt

\* Recording the claimer but not the status (mutant).
MarkOwnerOnly(S, d) ==
    [q \in Rows |-> IF q \in S THEN [row[q] EXCEPT !.claimedBy = d] ELSE row[q]]

\* The rows of S become claimed by d.
MarkClaimed(S, d) ==
    [q \in Rows |-> IF q \in S THEN [row[q] EXCEPT !.status = "claimed", !.claimedBy = d]
                               ELSE row[q]]

\* Walking every row, not only the pending ones (mutant), and never walking
\* past the first live row (mutant).
WalkedAnyStatus(S) == {q \in Rows : row[q].status # "absent" /\ row[q].expiresAt <= clock}
WalkedNone(S) == {}

\* In memory, the pass that collects the batch expires the dead rows it walks
\* over; it stops early once the batch is full, so rows created after the whole
\* batch are not looked at.
WalkedDead(S) ==
    {q \in Rows : /\ Pending(q) /\ row[q].expiresAt <= clock
                  /\ \/ Cardinality(S) < BatchSize
                     \/ \E r \in S : row[q].createdAt <= row[r].createdAt}

ClaimInMemory(S, d) ==
    LET marked == MarkClaimed(S, d)
    IN  [q \in Rows |-> IF q \in WalkedDead(S) THEN [row[q] EXCEPT !.status = "expired"]
                                               ELSE marked[q]]

\* Updating by id alone (mutant).
AnyCandidate(cand) == cand

\* `update ... where id in (cand) and status = 'pending'': what it returns.
StillPending(cand) == {q \in cand : Pending(q)}

\* Resolving only what is still pending, as claim() does (mutant).
ResolvedIfPending(q, status) == IF Pending(q) THEN [row EXCEPT ![q].status = status] ELSE row

\* resolve(): unconditional on the row's present status.
Resolved(q, status) == [row EXCEPT ![q] = [@ EXCEPT !.status = status]]

\* rowToQueued(): the Postgres table has no column for opp.execution, so the
\* execution metadata of a published opportunity does not come back.
KeepsExecutionMeta == Backend = "memory"
====
