---- MODULE DaemonRuntime ----
(***************************************************************************)
(* The multi-user scheduler of the daemon (apps/daemon/src/runtime.ts),    *)
(* the leases it takes in Redis (packages/core/src/runtime-cache.ts) and   *)
(* the overlay of a user's settings on process.env (user-config.ts).       *)
(*                                                                         *)
(* A job is one (user, source) pair.  A tick is a process <<d, j, s>>, s   *)
(* one of the slots that bound how many ticks of a job one daemon has in   *)
(* flight, cut at its awaits:                                              *)
(*                                                                         *)
(*   idle -> leasing -> loading -> waiting -> body -> releasing            *)
(*        -> clearing -> idle                                              *)
(***************************************************************************)
EXTENDS Integers, Sequences

CONSTANTS Daemons, Jobs,
          Ticks,       \* the ticks there may be, <<daemon, job, slot>>
          UserOf,      \* job -> the user it belongs to
          Deployments, \* what runs where, one per behavior
          MaxMoves,    \* bound on what users, operators and failures do
          None         \* no lease, no entry, the operator's own environment

Ghost == <<>> \* a token in the lease key that no running tick holds

\* redis: REDIS_URL is set.  stalls: a process may stop renewing its leases.
ASSUME RuntimeConstants ==
    /\ Deployments \subseteq [daemons : SUBSET Daemons, jobs : SUBSET Jobs,
                              redis : BOOLEAN, stalls : BOOLEAN]
    /\ \A t \in Ticks : t[1] \in Daemons /\ t[2] \in Jobs
    /\ MaxMoves \in Nat
    /\ None \notin {UserOf[j] : j \in Jobs}
    /\ None \notin Ticks /\ Ghost \notin Ticks

VARIABLES dep,      \* the deployment
          creds,    \* jobs whose source_state row has credentials
          entry,    \* <<daemon, job>> -> scheduled entry [gen, running] or None
          tick,     \* tick -> [pc, gen]: gen names the entry it started from
          holder,   \* job -> tick whose token is in the lease key, Ghost or None
          overlay,  \* daemon -> ticks chained on envOverlayMutex, FIFO
          env,      \* daemon -> whose settings process.env holds
          lost,     \* history: ticks whose lease expired under them
          moves     \* bounded events so far

vars == <<dep, creds, entry, tick, holder, overlay, env, lost, moves>>

IdleTick == [pc |-> "idle", gen |-> 0]

D(t) == t[1]
J(t) == t[2]
At(t) == <<t[1], t[2]>> \* where the entry of t's job is scheduled

Init ==
    /\ dep \in Deployments
    /\ creds = dep.jobs
    /\ entry = [x \in Daemons \X Jobs |-> None]
    /\ tick = [t \in Ticks |-> IdleTick]
    /\ holder = [j \in Jobs |-> None]
    /\ overlay = [d \in Daemons |-> <<>>]
    /\ env = [d \in Daemons |-> None]
    /\ lost = {}
    /\ moves = 0

Goto(t, pc) == tick' = [tick EXCEPT ![t] = [@ EXCEPT !.pc = pc]]
Count == moves < MaxMoves /\ moves' = moves + 1

----------------------------------------------------------------------------
\* discover(): the rows read from source_state decide what is scheduled.

Schedule(d, j) ==
    /\ d \in dep.daemons /\ j \in creds /\ entry[<<d, j>>] = None
    /\ entry' = [entry EXCEPT ![<<d, j>>] = [gen |-> moves, running |-> FALSE]]
    /\ UNCHANGED <<dep, creds, tick, holder, overlay, env, lost, moves>>

\* The timer is cleared; a tick in flight goes on.
Unschedule(d, j) ==
    /\ j \notin creds /\ entry[<<d, j>>] # None
    /\ entry' = [entry EXCEPT ![<<d, j>>] = None]
    /\ UNCHANGED <<dep, creds, tick, holder, overlay, env, lost, moves>>

----------------------------------------------------------------------------
\* One tick.

\* The interval fires and the entry is not running.
Fire(t) ==
    /\ tick[t].pc = "idle"
    /\ entry[At(t)] # None /\ ~entry[At(t)].running
    /\ entry' = [entry EXCEPT ![At(t)] = [@ EXCEPT !.running = TRUE]]
    /\ tick' = [tick EXCEPT ![t] = [pc |-> "leasing", gen |-> entry[At(t)].gen]]
    /\ lost' = lost \ {t}
    /\ UNCHANGED <<dep, creds, holder, overlay, env, moves>>

\* SET key token NX
LeaseFree(j) == holder[j] = None

Acquire(t) ==
    /\ tick[t].pc = "leasing"
    /\ \/ dep.redis /\ LeaseFree(J(t)) /\ holder' = [holder EXCEPT ![J(t)] = t]
       \/ ~dep.redis /\ UNCHANGED holder
    /\ Goto(t, "loading")
    /\ UNCHANGED <<dep, creds, entry, overlay, env, lost, moves>>

\* No lease although Redis is configured: it is taken, or Redis failed, maybe
\* after the SET.  `sched' is the entry the tick started from.
SkipTick(t) ==
    /\ entry' = IF entry[At(t)] # None /\ entry[At(t)].gen = tick[t].gen
                THEN [entry EXCEPT ![At(t)] = [@ EXCEPT !.running = FALSE]]
                ELSE entry
    /\ tick' = [tick EXCEPT ![t] = IdleTick]

AcquireFails(t) ==
    /\ dep.redis /\ tick[t].pc = "leasing"
    /\ \/ ~LeaseFree(J(t)) /\ UNCHANGED <<holder, moves>>
       \/ Count /\ UNCHANGED holder
       \/ LeaseFree(J(t)) /\ Count /\ holder' = [holder EXCEPT ![J(t)] = Ghost]
    /\ SkipTick(t)
    /\ UNCHANGED <<dep, creds, overlay, env, lost>>

\* The context is made, the user's secrets unsealed, the status saved: a locked
\* user's tick ends here, any other joins the overlay queue.
Load(t) ==
    /\ tick[t].pc = "loading"
    /\ \/ Goto(t, "releasing") /\ UNCHANGED overlay
       \/ Goto(t, "waiting") /\ overlay' = [overlay EXCEPT ![D(t)] = Append(@, t)]
    /\ UNCHANGED <<dep, creds, entry, holder, env, lost, moves>>

\* The context, the load or the save throws: status `error'.
TickThrows(t) ==
    /\ tick[t].pc = "loading"
    /\ Count
    /\ Goto(t, "releasing")
    /\ UNCHANGED <<dep, creds, entry, holder, overlay, env, lost>>

\* `await prev': the overlays before this one are done.
MyTurn(t) == Head(overlay[D(t)]) = t

\* applyEnvOverlay(): the user's settings are in process.env while the source runs.
EnterBody(t) ==
    /\ tick[t].pc = "waiting" /\ MyTurn(t)
    /\ env' = [env EXCEPT ![D(t)] = UserOf[J(t)]]
    /\ Goto(t, "body")
    /\ UNCHANGED <<dep, creds, entry, holder, overlay, lost, moves>>

\* release()
LeaveOverlay(t) == overlay' = [overlay EXCEPT ![D(t)] = Tail(@)]

\* Leaving the overlay of a finished tick in place (mutant).
KeepEnv(d) == UNCHANGED env
\* The originals are put back: overlays do not nest, so these are the operator's.
RestoreEnv(d) == env' = [env EXCEPT ![d] = None]

\* source.tick() resolves or rejects.
LeaveBody(t) ==
    /\ tick[t].pc = "body"
    /\ RestoreEnv(D(t))
    /\ LeaveOverlay(t)
    /\ Goto(t, "releasing")
    /\ UNCHANGED <<dep, creds, entry, holder, lost, moves>>

\* DEL without comparing the token (mutant).
DeleteLease(t) == holder' = [holder EXCEPT ![J(t)] = None]
\* `if GET key == token then DEL key'
ReleaseLease(t) == holder' = [holder EXCEPT ![J(t)] = IF @ = t THEN None ELSE @]

Release(t) ==
    /\ tick[t].pc = "releasing"
    /\ \/ ReleaseLease(t) /\ UNCHANGED moves
       \/ /\ dep.redis /\ Count
          /\ holder' = [holder EXCEPT ![J(t)] = IF @ = t THEN Ghost ELSE @]
    /\ Goto(t, "clearing")
    /\ UNCHANGED <<dep, creds, entry, overlay, env, lost>>

\* Leaving `running' set on the entry (mutant).
LeaveRunning(t) == UNCHANGED entry
\* `current' is whatever entry the job has by now.
ClearRunning(t) ==
    entry' = IF entry[At(t)] # None
             THEN [entry EXCEPT ![At(t)] = [@ EXCEPT !.running = FALSE]]
             ELSE entry

Clear(t) ==
    /\ tick[t].pc = "clearing"
    /\ ClearRunning(t)
    /\ tick' = [tick EXCEPT ![t] = IdleTick]
    /\ UNCHANGED <<dep, creds, holder, overlay, env, lost, moves>>

----------------------------------------------------------------------------
\* Time, users, operators and failures.

\* The lease of a tick that ended or died runs out.
ExpireGhost(j) ==
    /\ holder[j] = Ghost
    /\ holder' = [holder EXCEPT ![j] = None]
    /\ UNCHANGED <<dep, creds, entry, tick, overlay, env, lost, moves>>

\* The lease of a running tick does: its process stalls or cannot reach Redis.
ExpireHeld(j) ==
    /\ holder[j] \in Ticks /\ dep.stalls /\ Count
    /\ lost' = lost \union {holder[j]}
    /\ holder' = [holder EXCEPT ![j] = None]
    /\ UNCHANGED <<dep, creds, entry, tick, overlay, env>>

\* A user removes or adds a source's credentials.
SetCredentials(j) ==
    /\ j \in dep.jobs /\ Count
    /\ creds' = IF j \in creds THEN creds \ {j} ELSE creds \union {j}
    /\ UNCHANGED <<dep, entry, tick, holder, overlay, env, lost>>

\* A crash, or stop() followed by process.exit(0): the ticks in flight die with
\* the process, the leases stay until they expire.
Restart(d) ==
    /\ d \in dep.daemons /\ Count
    /\ entry' = [x \in DOMAIN entry |-> IF x[1] = d THEN None ELSE entry[x]]
    /\ tick' = [t \in Ticks |-> IF D(t) = d THEN IdleTick ELSE tick[t]]
    /\ overlay' = [overlay EXCEPT ![d] = <<>>]
    /\ env' = [env EXCEPT ![d] = None]
    /\ holder' = [j \in Jobs |-> IF holder[j] \in {t \in Ticks : D(t) = d} THEN Ghost ELSE holder[j]]
    /\ UNCHANGED <<dep, creds, lost>>

Discover(d) == \E j \in Jobs : Schedule(d, j) \/ Unschedule(d, j)

TickStep(t) ==
    \/ Fire(t) \/ Acquire(t) \/ AcquireFails(t)
    \/ Load(t) \/ TickThrows(t)
    \/ EnterBody(t) \/ LeaveBody(t) \/ Release(t) \/ Clear(t)

Next ==
    \/ \E t \in Ticks : TickStep(t)
    \/ \E d \in Daemons : Discover(d) \/ Restart(d)
    \/ \E j \in Jobs : ExpireGhost(j) \/ ExpireHeld(j) \/ SetCredentials(j)

Spec == Init /\ [][Next]_vars

\* Timers fire, awaits settle (source.tick() included), unrenewed leases expire
\* and discover() comes around.
Fairness ==
    /\ \A t \in Ticks : WF_vars(TickStep(t))
    /\ \A j \in Jobs : WF_vars(ExpireGhost(j))
    /\ \A d \in Daemons : WF_vars(Discover(d))

FairSpec == Spec /\ Fairness
----------------------------------------------------------------------------
InFlight == {"loading", "waiting", "body", "releasing"}
TypeOK ==
    /\ dep \in Deployments /\ creds \subseteq dep.jobs /\ moves \in 0..MaxMoves
    /\ entry \in [Daemons \X Jobs -> [gen : Nat, running : BOOLEAN] \union {None}]
    /\ tick \in [Ticks -> [pc : InFlight \union {"idle", "leasing", "clearing"}, gen : Nat]]
    /\ holder \in [Jobs -> Ticks \union {None, Ghost}]
    /\ overlay \in [Daemons -> Seq(Ticks)]
    /\ env \in [Daemons -> {UserOf[j] : j \in Jobs} \union {None}]
    /\ lost \subseteq Ticks

\* With Redis, one job is worked on by one tick at a time, across daemons,
\* reschedules and restarts; a second one only beside a tick whose lease expired
\* while its process stalled, and that tick never frees the lease of its successor.
OneTickPerJob ==
    dep.redis => \A t, u \in Ticks \ lost :
                    t # u /\ J(t) = J(u) => ~(tick[t].pc \in InFlight /\ tick[u].pc \in InFlight)

\* While a source runs for a user inside applyEnvOverlay(), process.env holds that
\* user's settings, and when no source runs it holds the operator's.  Timers that
\* run outside any overlay, as the pipeline's of v2/pipeline.ts do, read whichever
\* settings are there: the property says nothing of them.
EnvIsTheUsers ==
    /\ \A t \in Ticks : tick[t].pc = "body" => env[D(t)] = UserOf[J(t)]
    /\ \A d \in Daemons :
          (\A t \in Ticks : D(t) = d => tick[t].pc # "body") => env[d] = None

\* A job that some daemon has scheduled keeps being worked on, through failed
\* acquires, orphaned leases, reschedules and restarts, and however the ticks of
\* the other jobs queue for the overlay.
Scheduled(j) == \E d \in dep.daemons : entry[<<d, j>>] # None
Working(j)   == \E t \in Ticks : J(t) = j /\ tick[t].pc = "loading"
JobsKeepTicking == \A j \in Jobs : Scheduled(j) ~> Working(j) \/ ~Scheduled(j)
====
