---- MODULE TradeDaemon ----
(***************************************************************************)
(* The trade daemons that drain the event channel                          *)
(* (packages/trade-daemon/index.ts), with their circuit breakers.          *)
(*                                                                         *)
(* start() polls with setInterval and does not wait for the previous       *)
(* tick(), so one daemon has several ticks in flight: a tick is a process  *)
(* <<d, s>>, s one of the slots that bound how many overlap.  Between two  *)
(* awaits a tick runs alone, so the actions are cut at the awaits:         *)
(*                                                                         *)
(*   idle -> [claiming ->] deciding -> (next row)                          *)
(*        deciding -> affording -> executing -> resolving -> deciding      *)
(***************************************************************************)
EXTENDS EventChannel, CircuitBreaker

CONSTANTS Slots,        \* overlapping ticks per daemon: a bound
          Mode,         \* daemon -> TradeMode: "observe", "paper" or "live"
          HasInventory, \* an InventoryCheck is wired
          PnLs,         \* what pnlFromOutcome may return
          DayLength,    \* clock units per UTC day (dayBucket)
          Faults,       \* subset of {"crash", "db", "external_trip"}
          MaxResets     \* bound on operator resets and restarts

\* ExecutorOutcomeStatus; "declined" is an abort with executorRan = false, which
\* executors return when they placed nothing (bad size, short balance).
Outcomes == {"filled", "reverted", "stuck", "aborted", "declined"}

ASSUME DaemonConstants == /\ Mode \in [Daemons -> {"observe", "paper", "live"}]
                          /\ HasInventory \in BOOLEAN
                          /\ PnLs \subseteq Int
                          /\ DayLength \in Nat \ {0}
                          /\ Faults \subseteq {"crash", "db", "external_trip"}
                          /\ MaxResets \in Nat
                          /\ None \notin Outcomes

\* A daemon's timer has fired finitely often.
ASSUME SlotsFinite == IsFiniteSet(Slots)

VARIABLES tick,     \* <<daemon, slot>> -> state of that tick() invocation
          running,  \* daemon -> `this.running' (the timer is armed)
          circuit,  \* daemon -> its CircuitBreaker
          resets,   \* resets and restarts so far (bounded)
          ran,      \* history: queueId -> how often an executor ran for it
          outcome,  \* history: queueId -> what the last execution returned
          late      \* history: daemon -> executions begun on an open breaker

channelVars == <<clock, row>>
vars == <<clock, row, tick, running, circuit, resets, ran, outcome, late>>

Ticks == Daemons \X Slots

Phases == {"idle", "claiming", "deciding", "affording", "executing", "resolving"}

IdleTick == [pc |-> "idle", cand |-> {}, batch |-> {}, cur |-> None, final |-> None]

TickType == [pc : Phases, cand : SUBSET Rows, batch : SUBSET Rows,
             cur : Rows \union {None}, final : Terminal \union {None}]

\* The rows a tick has claimed and not yet resolved.
Held(t) == tick[t].batch \union ({tick[t].cur} \ {None})

\* dayBucket(Date.now())
Today == clock \div DayLength

Init == /\ ChannelInit
        /\ tick = [t \in Ticks |-> IdleTick]
        /\ running = [d \in Daemons |-> TRUE]
        /\ circuit = [d \in Daemons |-> FreshBreaker(Today)]
        /\ resets = 0
        /\ ran = [q \in Rows |-> 0]
        /\ outcome = [q \in Rows |-> None]
        /\ late = [d \in Daemons |-> 0]

----------------------------------------------------------------------------
\* An observer publishes, and time passes.

Observe(q, k, ttl) ==
    /\ Publish(q, k, ttl)
    /\ UNCHANGED <<tick, running, circuit, resets, ran, outcome, late>>

Elapse ==
    /\ clock < MaxTime
    /\ clock' = clock + 1
    /\ UNCHANGED <<row, tick, running, circuit, resets, ran, outcome, late>>

----------------------------------------------------------------------------
\* tick(): claim a batch.

\* After a claim that returned S: an empty batch ends the tick.
WithBatch(S) == IF S = {} THEN IdleTick
                          ELSE [IdleTick EXCEPT !.pc = "deciding", !.batch = S]

\* The timer fires and the in-memory channel claims synchronously.
ClaimAtOnce(t, S) ==
    /\ Backend = "memory"
    /\ tick[t].pc = "idle" /\ running[t[1]]
    /\ LiveRows # {} \/ WalkedDead({}) # {}
    /\ OldestBatch(S)
    /\ row' = ClaimInMemory(S, t[1])
    /\ tick' = [tick EXCEPT ![t] = WithBatch(S)]
    /\ UNCHANGED <<clock, running, circuit, resets, ran, outcome, late>>

\* The timer fires and the Supabase channel selects its candidates.
SelectCandidates(t, S) ==
    /\ Backend = "supabase"
    /\ tick[t].pc = "idle" /\ running[t[1]]
    /\ S # {} /\ OldestBatch(S)
    /\ tick' = [tick EXCEPT ![t] = [@ EXCEPT !.pc = "claiming", !.cand = S]]
    /\ UNCHANGED <<clock, row, running, circuit, resets, ran, outcome, late>>

\* The conditional update; other workers may have taken candidates since.
ClaimCandidates(t) ==
    LET won == StillPending(tick[t].cand)
    IN  /\ tick[t].pc = "claiming"
        /\ row' = MarkClaimed(won, t[1])
        /\ tick' = [tick EXCEPT ![t] = WithBatch(won)]
        /\ UNCHANGED <<clock, running, circuit, resets, ran, outcome, late>>

\* The update fails, or succeeds with its response lost: claim() throws, the
\* loop logs `tick FAILED', and rows already marked stay claimed.
ClaimThrows(t, S) ==
    /\ "db" \in Faults
    /\ tick[t].pc = "claiming"
    /\ S \in {{}, StillPending(tick[t].cand)}
    /\ row' = MarkClaimed(S, t[1])
    /\ tick' = [tick EXCEPT ![t] = IdleTick]
    /\ UNCHANGED <<clock, running, circuit, resets, ran, outcome, late>>

----------------------------------------------------------------------------
\* decideOpportunity() and runLive().

\* The reasons to reject a claimed row: a risk gate or its deadline.
Rejects(q) ==
    \/ row[q].kind = "weak"
    \/ row[q].kind = "escalated" /\ KeepsExecutionMeta
    \/ row[q].expiresAt <= clock

Routable(q) == row[q].kind # "unroutable"

\* Take row q of the batch up to phase pc, with the status to resolve it with.
Advance(t, q, pc, final) ==
    tick' = [tick EXCEPT ![t] = [@ EXCEPT !.pc = pc, !.batch = tick[t].batch \ {q},
                                         !.cur = q, !.final = final]]

\* Dropping the breaker from the gate (mutant).
ClearedUnguarded(t, q) == Mode[t[1]] = "live" /\ ~Rejects(q)

\* The row is live and unobjectionable, and the breaker is closed.
Cleared(t, q) == Mode[t[1]] = "live" /\ ~Rejects(q) /\ MayExecute(circuit[t[1]])

\* No execution: a gate, the mode, the open breaker, or no executor.
DecideWithout(t, q) ==
    /\ tick[t].pc = "deciding" /\ q \in tick[t].batch
    /\ \/ Mode[t[1]] # "paper" /\ ~Cleared(t, q)         /\ Advance(t, q, "resolving", "rejected")
       \/ Cleared(t, q) /\ ~HasInventory /\ ~Routable(q) /\ Advance(t, q, "resolving", "rejected")
       \/ Mode[t[1]] = "paper" /\ Rejects(q)             /\ Advance(t, q, "resolving", "rejected")
       \/ Mode[t[1]] = "paper" /\ ~Rejects(q)            /\ Advance(t, q, "resolving", "filled")
    /\ UNCHANGED <<clock, row, running, circuit, resets, ran, outcome, late>>

\* The breaker lets the row through; the inventory check is awaited first.
DecideToCheck(t, q) ==
    /\ tick[t].pc = "deciding" /\ q \in tick[t].batch
    /\ HasInventory /\ Cleared(t, q)
    /\ Advance(t, q, "affording", None)
    /\ UNCHANGED <<clock, row, running, circuit, resets, ran, outcome, late>>

\* executor.execute(opp) is called; it is awaited in phase "executing".
BeginExecution(t, q) ==
    /\ ran' = [ran EXCEPT ![q] = @ + 1]
    /\ late' = IF MayExecute(circuit[t[1]]) THEN late
                                            ELSE [late EXCEPT ![t[1]] = @ + 1]

\* Without an inventory the executor is called in the turn that read the breaker.
DecideToExecute(t, q) ==
    /\ tick[t].pc = "deciding" /\ q \in tick[t].batch
    /\ ~HasInventory /\ Cleared(t, q) /\ Routable(q)
    /\ Advance(t, q, "executing", None)
    /\ BeginExecution(t, q)
    /\ UNCHANGED <<clock, row, running, circuit, resets, outcome>>

\* canAfford() settles: blocked, unroutable, or on to the executor.
Afforded(t) ==
    /\ tick[t].pc = "affording"
    /\ LET q == tick[t].cur
       IN  \/ /\ tick' = [tick EXCEPT ![t] = [@ EXCEPT !.pc = "resolving", !.final = "rejected"]]
              /\ UNCHANGED <<ran, late>>
           \/ /\ Routable(q)
              /\ tick' = [tick EXCEPT ![t] = [@ EXCEPT !.pc = "executing"]]
              /\ BeginExecution(t, q)
    /\ UNCHANGED <<clock, row, running, circuit, resets, outcome>>

\* Filing a reverted trade as never attempted (mutant).
RevertedIsRejected(o) == IF o = "filled" THEN "filled" ELSE "rejected"

\* mapExecutorStatus()
FinalStatus(o) == CASE o = "filled"                   -> "filled"
                    [] o \in {"reverted", "stuck"}     -> "failed"
                    [] o \in {"aborted", "declined"} -> "rejected"

\* execute() settles; a throw is caught and counted as "aborted".  Whatever the
\* executor said, runLive() sets executorRan = true, so every outcome counts.
Executed(t, o, pnl) ==
    /\ tick[t].pc = "executing"
    /\ circuit' = [circuit EXCEPT ![t[1]] =
                       RecordExecution(@, o = "filled", pnl, Today)]
    /\ outcome' = [outcome EXCEPT ![tick[t].cur] = o]
    /\ tick' = [tick EXCEPT ![t] = [@ EXCEPT !.pc = "resolving", !.final = FinalStatus(o)]]
    /\ UNCHANGED <<clock, row, running, resets, ran, late>>

----------------------------------------------------------------------------
\* channel.resolve(), whose failure is only logged.

NextRow(t) == tick' = [tick EXCEPT ![t] = WithBatch(tick[t].batch)]

Resolve(t) ==
    /\ tick[t].pc = "resolving"
    /\ row' = Resolved(tick[t].cur, tick[t].final)
    /\ NextRow(t)
    /\ UNCHANGED <<clock, running, circuit, resets, ran, outcome, late>>

ResolveFails(t) ==
    /\ "db" \in Faults
    /\ tick[t].pc = "resolving"
    /\ NextRow(t)
    /\ UNCHANGED <<clock, row, running, circuit, resets, ran, outcome, late>>

----------------------------------------------------------------------------
\* start(), stop(), the operator and the outside world.

\* stop() clears the timer; ticks in flight go on through their batches.
Stop(d) ==
    /\ running[d]
    /\ running' = [running EXCEPT ![d] = FALSE]
    /\ UNCHANGED <<clock, row, tick, circuit, resets, ran, outcome, late>>

\* start() after stop(): bounded with the resets.
Start(d) ==
    /\ ~running[d] /\ resets < MaxResets
    /\ running' = [running EXCEPT ![d] = TRUE]
    /\ resets' = resets + 1
    /\ UNCHANGED <<clock, row, tick, circuit, ran, outcome, late>>

\* getCircuit().trip(): gas, RPC or wallet trouble seen by another part.
ExternalTrip(d) ==
    /\ "external_trip" \in Faults
    /\ MayExecute(circuit[d])
    /\ circuit' = [circuit EXCEPT ![d] = Tripped(@)]
    /\ UNCHANGED <<clock, row, tick, running, resets, ran, outcome, late>>

\* getCircuit().reset() by an operator.
Reset(d) ==
    /\ ~MayExecute(circuit[d]) /\ resets < MaxResets
    /\ circuit' = [circuit EXCEPT ![d] = FreshBreaker(Today)]
    /\ resets' = resets + 1
    /\ late' = [late EXCEPT ![d] = 0]
    /\ UNCHANGED <<clock, row, tick, running, ran, outcome>>

\* The process dies and is restarted: the breaker, the ticks in flight and (in
\* memory) the queue are gone; nothing returns claimed rows to `pending'.
Crash(d) ==
    /\ "crash" \in Faults /\ resets < MaxResets
    /\ tick' = [t \in Ticks |-> IF t[1] = d THEN IdleTick ELSE tick[t]]
    /\ running' = [running EXCEPT ![d] = TRUE]
    /\ circuit' = [circuit EXCEPT ![d] = FreshBreaker(Today)]
    /\ late' = [late EXCEPT ![d] = 0]
    /\ resets' = resets + 1
    /\ row' = IF Backend = "memory"
              THEN [q \in Rows |-> IF row[q].status = "absent" THEN row[q]
                                   ELSE [row[q] EXCEPT !.status = "gone"]]
              ELSE row
    /\ UNCHANGED <<clock, ran, outcome>>

----------------------------------------------------------------------------
TickStep(t) ==
    \/ \E S \in SUBSET Rows : ClaimAtOnce(t, S) \/ SelectCandidates(t, S)
                              \/ ClaimThrows(t, S)
    \/ ClaimCandidates(t)
    \/ \E q \in Rows : DecideWithout(t, q) \/ DecideToCheck(t, q) \/ DecideToExecute(t, q)
    \/ Afforded(t)
    \/ \E o \in Outcomes, pnl \in PnLs : Executed(t, o, pnl)
    \/ Resolve(t)
    \/ ResolveFails(t)

Next ==
    \/ \E q \in Rows, k \in Kinds, ttl \in TTLs : Observe(q, k, ttl)
    \/ Elapse
    \/ \E t \in Ticks : TickStep(t)
    \/ \E d \in Daemons : Stop(d) \/ Start(d) \/ ExternalTrip(d) \/ Reset(d) \/ Crash(d)

Spec == Init /\ [][Next]_vars

\* Every await of a tick settles, and an armed timer fires: WF on each tick.
FairSpec == Spec /\ \A t \in Ticks : WF_vars(TickStep(t))
----------------------------------------------------------------------------
TypeOK ==
    /\ clock \in Nat
    /\ row \in [Rows -> RowType]
    /\ tick \in [Ticks -> TickType]
    /\ running \in [Daemons -> BOOLEAN]
    /\ circuit \in [Daemons -> Breaker]
    /\ resets \in Nat
    /\ ran \in [Rows -> Nat]
    /\ outcome \in [Rows -> Outcomes \union {None}]
    /\ late \in [Daemons -> Nat]

\* Each queue row is executed at most once, whatever the number of workers,
\* overlapping ticks, failed writes and restarts: the reason claim() is a
\* conditional update (types.ts: "without double-processing").
AtMostOnce == \A q \in Rows : ran[q] <= 1

\* What a tick still has to process is claimed, by its own daemon, and no other
\* tick has it too.
Ownership ==
    \A t \in Ticks : \A q \in Held(t) :
        /\ row[q].status = "claimed" /\ row[q].claimedBy = t[1]
        /\ \A u \in Ticks \ {t} : q \notin Held(u)

\* What AtMostOnce needs to be inductive: rows still to be claimed, or claimed
\* and not yet handed to an executor, have not run; the row in hand has left
\* the batch, and its final status is known once it is being resolved.
Fresh ==
    \A q \in Rows :
        /\ row[q].status \in {"absent", "pending"} => ran[q] = 0
        /\ \A t \in Ticks : q \in tick[t].batch => ran[q] = 0
        /\ \A t \in Ticks : tick[t].pc = "affording" /\ tick[t].cur = q => ran[q] = 0

Shape ==
    \A t \in Ticks :
        /\ tick[t].cur \notin tick[t].batch
        /\ tick[t].pc \in {"affording", "executing", "resolving"} => tick[t].cur \in Rows
        /\ tick[t].pc = "resolving" => tick[t].final \in Terminal

IInv == TypeOK /\ Ownership /\ Fresh /\ Shape /\ AtMostOnce

\* The daemons implement the queue that event-channel/types.ts promises: of all they
\* do, only publishing, claiming, executing and resolving show, each once per row.
Queue == INSTANCE OpportunityQueue
         WITH status <- [q \in Rows |-> row[q].status],
              holder <- [q \in Rows |-> row[q].claimedBy],
              runs   <- ran
ImplementsQueue == Queue!QueueSpec

\* A row once claimed never returns to the queue, and a terminal status is
\* final: resolve() overwrites unconditionally, so this rests on ownership.
RowsOnlyAdvance ==
    [][\A q \in Rows :
          /\ row[q].status \in Terminal \union {"gone"} =>
                row'[q].status \in {row[q].status, "gone"}
          /\ row[q].status = "claimed" => row'[q].status # "pending"]_vars

\* The audit trail repeats what the executors told the daemon of live executions: "filled"
\* only for a fill, "failed" only for a revert or a stuck transaction, and what they said
\* was filled or reverted is never filed as rejected.  (Where a stuck transaction belongs
\* is left open: mapExecutorStatus() files it under "failed", its comment says
\* 'rejected'.  A throw counts as "aborted", whatever the executor had submitted.)
AuditTruthful ==
    \A q \in Rows :
        LET d == row[q].claimedBy
        IN  d # None /\ Mode[d] = "live" =>
            /\ row[q].status = "filled" => outcome[q] = "filled"
            /\ row[q].status = "failed" => outcome[q] \in {"reverted", "stuck"}
            /\ row[q].status = "rejected" => outcome[q] \notin {"filled", "reverted"}

\* A breaker that is still closed is below its failure and loss limits, with any
\* number of executions settling in any order.
ClosedBelowLimits ==
    \A d \in Daemons : MayExecute(circuit[d]) => BelowLimits(circuit[d])

\* With an inventory check, each tick that had passed the breaker before it opened may
\* begin one execution after it, and no more.
LateExecutionsBounded ==
    \A d \in Daemons :
        ~MayExecute(circuit[d]) =>
            late[d] + Cardinality({s \in Slots : tick[<<d, s>>].pc = "affording"})
                <= Cardinality(Slots)

\* The in-memory queue does not keep dead rows forever: a row past its deadline
\* leaves `pending' unless its daemon is stopped.
DeadRowsSwept ==
    \A q \in Rows : Pending(q) /\ row[q].expiresAt <= clock
                        ~> ~Pending(q) \/ \A d \in Daemons : ~running[d]

\* When no write fails and no process dies, every claimed row reaches a terminal
\* status, also if its daemon was stopped meanwhile.
ClaimedIsResolved ==
    \A q \in Rows : row[q].status = "claimed" ~> row[q].status \in Terminal

\* cex-cex.ts: an abort with executorRan = false is "reported with
\* executorRan=false so the circuit breaker doesn't trip".
DeclinedSparesCircuit ==
    [][\A q \in Rows : outcome[q] # "declined" /\ outcome'[q] = "declined"
                           => circuit' = circuit]_vars
====
