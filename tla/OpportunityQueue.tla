---- MODULE OpportunityQueue ----
(***************************************************************************)
(* What the queue and its daemons promise together, without ticks,         *)
(* candidates, batches or breakers ("multiple trade daemons can claim work *)
(* without double-processing", event-channel/types.ts): an opportunity is  *)
(* offered once, taken by one daemon or left to expire, executed at most   *)
(* once and only while it is taken, and settled once and for all.          *)
(***************************************************************************)
EXTENDS Naturals

CONSTANTS Rows, Daemons, None

VARIABLES status,   \* the status of each opportunity
          holder,   \* who took it
          runs      \* how often it was executed

queue == <<status, holder, runs>>

Settled == {"filled", "rejected", "failed", "expired"}

QueueInit ==
    /\ status = [q \in Rows |-> "absent"]
    /\ holder = [q \in Rows |-> None]
    /\ runs = [q \in Rows |-> 0]

Offer(q) ==
    /\ status[q] = "absent"
    /\ status' = [status EXCEPT ![q] = "pending"]
    /\ holder' = [holder EXCEPT ![q] = None]
    /\ UNCHANGED runs

\* A daemon takes the opportunities of S; those of E are found to have expired.
Take(d, S, E) ==
    /\ S \cap E = {}
    /\ \A q \in S \cup E : status[q] = "pending"
    /\ status' = [q \in Rows |-> IF q \in S THEN "claimed" ELSE IF q \in E THEN "expired" ELSE status[q]]
    /\ holder' = [q \in Rows |-> IF q \in S THEN d ELSE holder[q]]
    /\ UNCHANGED runs

Run(q) ==
    /\ status[q] = "claimed" /\ runs[q] = 0
    /\ runs' = [runs EXCEPT ![q] = 1]
    /\ UNCHANGED <<status, holder>>

Settle(q, s) ==
    /\ status[q] = "claimed"
    /\ status' = [status EXCEPT ![q] = s]
    /\ UNCHANGED <<holder, runs>>

\* A queue kept in memory dies with its process.
Lose ==
    /\ status' = [q \in Rows |-> IF status[q] = "absent" THEN "absent" ELSE "gone"]
    /\ UNCHANGED <<holder, runs>>

QueueNext ==
    \/ \E q \in Rows : Offer(q) \/ Run(q) \/ \E s \in Settled : Settle(q, s)
    \/ \E d \in Daemons : \E S \in SUBSET Rows : \E E \in SUBSET Rows : Take(d, S, E)
    \/ Lose

QueueSpec == QueueInit /\ [][QueueNext]_queue
====
