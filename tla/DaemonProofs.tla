---- MODULE DaemonProofs ----
(***************************************************************************)
(* The daemon's own parts.  The scheduler for any daemons, jobs and        *)
(* deployments: one tick per job under Redis, and one user's settings at a *)
(* time in process.env.  The sealed settings for any jobs and tokens: no   *)
(* token is lost, and no session without a cause.  The price streams for   *)
(* any pairs: what is asked for and what is cached follow what is watched. *)
(* And the variables of all of them keep their types.                      *)
(*                                                                         *)
(* The argument for the leases: a tick in flight whose lease did not       *)
(* expire under it holds it (Leased), and one key names one tick.          *)
(* For the environment: the ticks of a daemon that wait for it, or run     *)
(* under it, are exactly those of its queue, once each (Queued), and only  *)
(* the first of them runs (HeadRuns).                                      *)
(* For the settings: whatever copy of the row somebody holds is the row,   *)
(* unless a write has come between (Known), and who seals merges into it.  *)
(* For the streams: whatever state the connection is in, it was asked for  *)
(* watched pairs only (StreamInv).                                         *)
(***************************************************************************)
EXTENDS MCDaemon, TLAPS

Phases == InFlight \union {"idle", "leasing", "clearing"}

\* With Redis, whoever is in flight with a live lease is who the key names.
Leased == dep.redis => \A t \in Ticks \ lost : tick[t].pc \in InFlight => holder[J(t)] = t

\* A daemon's queue holds its own ticks, those that wait or run, each once.
Queued ==
    \A d \in Daemons :
        /\ \A i \in 1..Len(overlay[d]) : /\ D(overlay[d][i]) = d
                                         /\ tick[overlay[d][i]].pc \in {"waiting", "body"}
        /\ \A i, k \in 1..Len(overlay[d]) : overlay[d][i] = overlay[d][k] => i = k

InQueue == \A t \in Ticks : tick[t].pc \in {"waiting", "body"} =>
                \E i \in 1..Len(overlay[D(t)]) : overlay[D(t)][i] = t

HeadRuns == \A t \in Ticks : tick[t].pc = "body" => overlay[D(t)] # <<>> /\ overlay[D(t)][1] = t

\* The environment's part: the queue of the overlay, and what it makes of process.env.
QueueInv == Queued /\ InQueue /\ HeadRuns /\ EnvIsTheUsers

DaemonInv == TypeOK /\ Leased /\ QueueInv

----------------------------------------------------------------------------
\* A tick names its daemon and its job.
LEMMA TickParts == \A t \in Ticks : D(t) \in Daemons /\ J(t) \in Jobs /\ At(t) \in Daemons \X Jobs
  BY RuntimeConstants DEF D, J, At

\* A tick at rest has the type of one.
LEMMA IdleType == IdleTick \in [pc : Phases, gen : Nat] /\ IdleTick.pc = "idle"
  BY DEF IdleTick, Phases

\* Moving one tick on changes that tick only.
LEMMA GotoType ==
  ASSUME tick \in [Ticks -> [pc : Phases, gen : Nat]], NEW t \in Ticks, NEW pc \in Phases, Goto(t, pc)
  PROVE  /\ tick' \in [Ticks -> [pc : Phases, gen : Nat]]
         /\ tick'[t].pc = pc
         /\ \A u \in Ticks \ {t} : tick'[u] = tick[u]
  BY DEF Goto

\* A skipped tick leaves the types alone.
LEMMA SkipType ==
  ASSUME TypeOK, NEW t \in Ticks, SkipTick(t)
  PROVE  /\ tick' \in [Ticks -> [pc : Phases, gen : Nat]]
         /\ entry' \in [Daemons \X Jobs -> [gen : Nat, running : BOOLEAN] \union {None}]
         /\ tick'[t].pc = "idle"
         /\ \A u \in Ticks \ {t} : tick'[u] = tick[u]
  <1>1. At(t) \in Daemons \X Jobs
    BY TickParts
  <1>2. /\ tick' \in [Ticks -> [pc : Phases, gen : Nat]]
        /\ tick'[t].pc = "idle"
        /\ \A u \in Ticks \ {t} : tick'[u] = tick[u]
    BY IdleType DEF SkipTick, TypeOK, Phases
  <1>3. entry[At(t)] # None => [entry[At(t)] EXCEPT !.running = FALSE] \in [gen : Nat, running : BOOLEAN]
    BY <1>1 DEF TypeOK
  <1>4. entry' \in [Daemons \X Jobs -> [gen : Nat, running : BOOLEAN] \union {None}]
    BY <1>1, <1>3 DEF SkipTick, TypeOK
  <1> QED BY <1>2, <1>4

\* A daemon starts with every variable of its type.
LEMMA InitTyped == Init => TypeOK
  <1> SUFFICES ASSUME Init PROVE TypeOK
    OBVIOUS
  <1>1. dep \in Deployments /\ creds \subseteq dep.jobs /\ moves \in 0..MaxMoves
    BY RuntimeConstants DEF Init
  <1>2. tick \in [Ticks -> [pc : Phases, gen : Nat]]
    BY IdleType DEF Init
  <1>3. overlay \in [Daemons -> Seq(Ticks)]
    BY DEF Init
  <1> QED BY <1>1, <1>2, <1>3 DEF Init, TypeOK, Phases

\* What a step leaves alone keeps its type.
LEMMA TypedStep == TypeOK /\ HeadRuns /\ [Next]_vars => TypeOK'
  <1> SUFFICES ASSUME TypeOK, HeadRuns, [Next]_vars PROVE TypeOK'
    OBVIOUS
  <1> USE RuntimeConstants
  <1>0. moves \in Nat /\ MaxMoves \in Nat /\ (Count => moves' \in 0..MaxMoves)
    BY DEF TypeOK, Count
  <1>1. ASSUME NEW t \in Ticks, TickStep(t) PROVE TypeOK'
    <2> USE TickParts
    <2>1. CASE Fire(t)
      <3>1. entry[At(t)] \in [gen : Nat, running : BOOLEAN]
        BY <2>1 DEF Fire, TypeOK
      <3>2. tick' \in [Ticks -> [pc : Phases, gen : Nat]]
        BY <2>1, <3>1 DEF Fire, TypeOK, Phases
      <3>3. entry' \in [Daemons \X Jobs -> [gen : Nat, running : BOOLEAN] \union {None}]
        BY <2>1, <3>1 DEF Fire, TypeOK
      <3> QED BY <2>1, <3>2, <3>3 DEF Fire, TypeOK, Phases
    <2>2. CASE Acquire(t)
      <3>1. tick' \in [Ticks -> [pc : Phases, gen : Nat]]
        BY <2>2, GotoType DEF Acquire, TypeOK, Phases, InFlight
      <3>2. holder' \in [Jobs -> Ticks \union {None, Ghost}]
        BY <2>2 DEF Acquire, TypeOK
      <3> QED BY <2>2, <3>1, <3>2 DEF Acquire, TypeOK, Phases
    <2>3. CASE AcquireFails(t)
      <3>1. SkipTick(t)
        BY <2>3 DEF AcquireFails
      <3>2. holder' \in [Jobs -> Ticks \union {None, Ghost}] /\ moves' \in 0..MaxMoves
        BY <2>3, <1>0 DEF AcquireFails, TypeOK
      <3> QED BY <2>3, <3>1, <3>2, SkipType DEF AcquireFails, TypeOK, Phases
    <2>4. CASE Load(t)
      <3>1. tick' \in [Ticks -> [pc : Phases, gen : Nat]]
        BY <2>4, GotoType DEF Load, TypeOK, Phases, InFlight
      <3>2. Append(overlay[D(t)], t) \in Seq(Ticks)
        BY DEF TypeOK
      <3>3. overlay' \in [Daemons -> Seq(Ticks)]
        BY <2>4, <3>2 DEF Load, TypeOK
      <3> QED BY <2>4, <3>1, <3>3 DEF Load, TypeOK, Phases
    <2>5. CASE TickThrows(t)
      <3>1. tick' \in [Ticks -> [pc : Phases, gen : Nat]]
        BY <2>5, GotoType DEF TickThrows, TypeOK, Phases, InFlight
      <3> QED BY <2>5, <3>1, <1>0 DEF TickThrows, TypeOK, Phases
    <2>6. CASE EnterBody(t)
      <3>1. tick' \in [Ticks -> [pc : Phases, gen : Nat]]
        BY <2>6, GotoType DEF EnterBody, TypeOK, Phases, InFlight
      <3>2. env' \in [Daemons -> {UserOf[j] : j \in Jobs} \union {None}]
        BY <2>6 DEF EnterBody, TypeOK
      <3> QED BY <2>6, <3>1, <3>2 DEF EnterBody, TypeOK, Phases
    <2>7. CASE LeaveBody(t)
      <3>1. tick' \in [Ticks -> [pc : Phases, gen : Nat]]
        BY <2>7, GotoType DEF LeaveBody, TypeOK, Phases, InFlight
      <3>2. env' \in [Daemons -> {UserOf[j] : j \in Jobs} \union {None}]
        BY <2>7 DEF LeaveBody, RestoreEnv, TypeOK
      <3>3. overlay' \in [Daemons -> Seq(Ticks)]
        <4>1. overlay[D(t)] \in Seq(Ticks) /\ overlay[D(t)] # <<>>
          BY <2>7 DEF LeaveBody, HeadRuns, TypeOK
        <4>2. Tail(overlay[D(t)]) \in Seq(Ticks)
          BY <4>1
        <4> QED BY <2>7, <4>2 DEF LeaveBody, LeaveOverlay, TypeOK
      <3> QED BY <2>7, <3>1, <3>2, <3>3 DEF LeaveBody, TypeOK, Phases
    <2>8. CASE Release(t)
      <3>1. tick' \in [Ticks -> [pc : Phases, gen : Nat]]
        BY <2>8, GotoType DEF Release, TypeOK, Phases, InFlight
      <3>2. holder' \in [Jobs -> Ticks \union {None, Ghost}] /\ moves' \in 0..MaxMoves
        BY <2>8, <1>0 DEF Release, ReleaseLease, TypeOK
      <3> QED BY <2>8, <3>1, <3>2 DEF Release, TypeOK, Phases
    <2>9. CASE Clear(t)
      <3>1. tick' \in [Ticks -> [pc : Phases, gen : Nat]]
        BY <2>9, IdleType DEF Clear, TypeOK, Phases
      <3>2. entry' \in [Daemons \X Jobs -> [gen : Nat, running : BOOLEAN] \union {None}]
        BY <2>9 DEF Clear, ClearRunning, TypeOK
      <3> QED BY <2>9, <3>1, <3>2 DEF Clear, TypeOK, Phases
    <2> QED BY <1>1, <2>1, <2>2, <2>3, <2>4, <2>5, <2>6, <2>7, <2>8, <2>9 DEF TickStep
  <1>2. ASSUME NEW d \in Daemons, Discover(d) PROVE TypeOK'
    <2>1. PICK j \in Jobs : Schedule(d, j) \/ Unschedule(d, j)
      BY <1>2 DEF Discover
    <2>2. entry' \in [Daemons \X Jobs -> [gen : Nat, running : BOOLEAN] \union {None}]
      <3>1. [gen |-> moves, running |-> FALSE] \in [gen : Nat, running : BOOLEAN]
        BY <1>0
      <3>2. entry \in [Daemons \X Jobs -> [gen : Nat, running : BOOLEAN] \union {None}]
        BY DEF TypeOK
      <3>3. CASE Schedule(d, j)
        <4>1. entry' = [entry EXCEPT ![<<d, j>>] = [gen |-> moves, running |-> FALSE]]
          BY <3>3 DEF Schedule
        <4> QED BY <3>1, <3>2, <4>1
      <3>4. CASE Unschedule(d, j)
        <4>1. entry' = [entry EXCEPT ![<<d, j>>] = None]
          BY <3>4 DEF Unschedule
        <4> QED BY <3>2, <4>1
      <3> QED BY <2>1, <3>3, <3>4
    <2> QED BY <2>1, <2>2 DEF Schedule, Unschedule, TypeOK
  <1>3. ASSUME NEW d \in Daemons, Restart(d) PROVE TypeOK'
    <2>1. tick' \in [Ticks -> [pc : Phases, gen : Nat]]
      BY <1>3, IdleType DEF Restart, TypeOK, Phases
    <2>2. entry' \in [Daemons \X Jobs -> [gen : Nat, running : BOOLEAN] \union {None}]
      BY <1>3 DEF Restart, TypeOK
    <2>3. overlay' \in [Daemons -> Seq(Ticks)]
      BY <1>3 DEF Restart, TypeOK
    <2>4. holder' \in [Jobs -> Ticks \union {None, Ghost}]
      BY <1>3 DEF Restart, TypeOK
    <2> QED BY <1>0, <1>3, <2>1, <2>2, <2>3, <2>4 DEF Restart, TypeOK, Phases
  <1>4. ASSUME NEW j \in Jobs, ExpireGhost(j) \/ ExpireHeld(j) \/ SetCredentials(j) PROVE TypeOK'
    <2>1. CASE ExpireGhost(j)
      BY <2>1 DEF ExpireGhost, TypeOK
    <2>2. CASE ExpireHeld(j)
      BY <2>2, <1>0 DEF ExpireHeld, TypeOK
    <2>3. CASE SetCredentials(j)
      BY <2>3, <1>0 DEF SetCredentials, TypeOK
    <2> QED BY <1>4, <2>1, <2>2, <2>3
  <1>5. CASE UNCHANGED vars
    BY <1>5 DEF vars, TypeOK
  <1> QED BY <1>1, <1>2, <1>3, <1>4, <1>5 DEF Next

----------------------------------------------------------------------------
(* The leases.                                                              *)

\* Every step keeps a running tick behind its lease.
LEMMA LeasedStep == TypeOK /\ Leased /\ [Next]_vars => Leased'
  <1> SUFFICES ASSUME TypeOK, Leased, [Next]_vars, dep'.redis,
                      NEW u \in Ticks \ lost', tick'[u].pc \in InFlight
               PROVE  holder'[J(u)] = u
    BY DEF Leased
  <1> USE RuntimeConstants, TickParts
  <1>0. dep' = dep /\ dep.redis
    BY DEF Next, TickStep, Fire, Acquire, AcquireFails, Load, TickThrows, EnterBody, LeaveBody, Release,
           Clear, Discover, Schedule, Unschedule, Restart, ExpireGhost, ExpireHeld, SetCredentials, vars
  \* In flight before, with a lease: the key named u.
  <1>a. u \notin lost /\ tick[u].pc \in InFlight => holder[J(u)] = u
    BY <1>0 DEF Leased
  <1>1. ASSUME NEW t \in Ticks, TickStep(t) PROVE holder'[J(u)] = u
    <2> USE DEF TypeOK
    <2>a. t # u => tick'[u] = tick[u]
      BY <1>1, GotoType, SkipType DEF TickStep, Fire, Acquire, AcquireFails, Load, TickThrows, EnterBody, LeaveBody,
                                      Release, Clear, Goto, SkipTick, Phases
    <2>1. CASE Fire(t)
      <3>1. tick'[t].pc = "leasing"
        BY <2>1 DEF Fire
      <3> QED BY <1>a, <2>a, <2>1, <3>1 DEF Fire, InFlight
    <2>2. CASE Acquire(t)
      <3>1. CASE u = t
        BY <1>0, <2>2, <3>1 DEF Acquire
      <3>2. CASE u # t
        BY <1>a, <2>a, <2>2, <3>2 DEF Acquire, LeaseFree
      <3> QED BY <3>1, <3>2
    <2>3. CASE AcquireFails(t)
      <3>1. tick'[t].pc = "idle"
        BY <2>3, SkipType DEF AcquireFails
      <3> QED BY <1>a, <2>a, <2>3, <3>1 DEF AcquireFails, LeaseFree, InFlight
    <2>4. CASE Load(t) \/ TickThrows(t) \/ EnterBody(t) \/ LeaveBody(t)
      <3>1. tick[t].pc \in InFlight /\ UNCHANGED <<holder, lost>>
        BY <2>4 DEF Load, TickThrows, EnterBody, LeaveBody, InFlight
      <3> QED BY <1>a, <2>a, <3>1
    <2>5. CASE Release(t)
      <3>1. tick'[t].pc = "clearing"
        BY <2>5 DEF Release, Goto
      <3> QED BY <1>a, <2>a, <2>5, <3>1 DEF Release, ReleaseLease, InFlight
    <2>6. CASE Clear(t)
      <3>1. tick'[t].pc = "idle"
        BY <2>6, IdleType DEF Clear
      <3> QED BY <1>a, <2>a, <2>6, <3>1 DEF Clear, InFlight
    <2> QED BY <1>1, <2>1, <2>2, <2>3, <2>4, <2>5, <2>6 DEF TickStep
  <1>2. ASSUME NEW d \in Daemons, Discover(d) PROVE holder'[J(u)] = u
    BY <1>2, <1>a DEF Discover, Schedule, Unschedule
  <1>3. ASSUME NEW d \in Daemons, Restart(d) PROVE holder'[J(u)] = u
    <2>1. D(u) # d
      BY <1>3, IdleType DEF Restart, InFlight
    <2> QED BY <1>3, <1>a, <2>1 DEF Restart
  <1>4. ASSUME NEW j \in Jobs, ExpireGhost(j) \/ ExpireHeld(j) \/ SetCredentials(j) PROVE holder'[J(u)] = u
    BY <1>4, <1>a DEF ExpireGhost, ExpireHeld, SetCredentials, TypeOK
  <1>5. CASE UNCHANGED vars
    BY <1>5, <1>a DEF vars
  <1> QED BY <1>1, <1>2, <1>3, <1>4, <1>5 DEF Next

----------------------------------------------------------------------------
(* The overlay.                                                             *)

\* A step of a tick that neither waits nor runs, before or after, leaves the queue as it is.
LEMMA QueueFrame ==
  ASSUME TypeOK, QueueInv, NEW t \in Ticks, UNCHANGED <<overlay, env>>,
         tick[t].pc \notin {"waiting", "body"}, tick'[t].pc \notin {"waiting", "body"},
         \A u \in Ticks \ {t} : tick'[u] = tick[u]
  PROVE  QueueInv'
  <1> USE TickParts
  <1>1. \A u \in Ticks : tick'[u].pc \in {"waiting", "body"} => tick'[u].pc = tick[u].pc
    OBVIOUS
  <1>2. \A u \in Ticks : tick[u].pc \in {"waiting", "body"} => tick'[u].pc = tick[u].pc
    OBVIOUS
  <1>3. \A d \in Daemons : \A i \in 1..Len(overlay[d]) : overlay[d][i] \in Ticks
    BY DEF TypeOK
  <1>4. Queued'
    BY <1>2, <1>3 DEF QueueInv, Queued
  <1>5. InQueue' /\ HeadRuns'
    BY <1>1 DEF QueueInv, InQueue, HeadRuns
  <1>6. EnvIsTheUsers'
    BY <1>1, <1>2 DEF QueueInv, EnvIsTheUsers
  <1> QED BY <1>4, <1>5, <1>6 DEF QueueInv

\* A tick that joins the queue stands behind those that wait.
LEMMA JoinStep ==
  ASSUME TypeOK, QueueInv, NEW t \in Ticks, tick[t].pc = "loading",
         Goto(t, "waiting"), overlay' = [overlay EXCEPT ![D(t)] = Append(@, t)], UNCHANGED env
  PROVE  QueueInv'
  <1> DEFINE q == overlay[D(t)]
  <1> USE TickParts
  <1>1. /\ tick'[t].pc = "waiting"
        /\ \A u \in Ticks \ {t} : tick'[u] = tick[u]
    BY GotoType DEF TypeOK, Phases, InFlight
  <1>2. /\ q \in Seq(Ticks)
        /\ overlay'[D(t)] = Append(q, t)
        /\ \A d \in Daemons \ {D(t)} : overlay'[d] = overlay[d]
    BY DEF TypeOK
  <1>3. /\ Len(overlay'[D(t)]) = Len(q) + 1 /\ Len(q) \in Nat
        /\ \A i \in 1..Len(q) : overlay'[D(t)][i] = q[i] /\ q[i] \in Ticks
        /\ overlay'[D(t)][Len(q) + 1] = t
    BY <1>2
  <1>4. \A i \in 1..Len(q) : q[i] # t
    BY DEF QueueInv, Queued
  <1>5. Queued'
    <2>1. ASSUME NEW d \in Daemons, NEW i \in 1..Len(overlay'[d])
          PROVE  /\ D(overlay'[d][i]) = d
                 /\ tick'[overlay'[d][i]].pc \in {"waiting", "body"}
      <3>1. CASE d = D(t)
        <4>1. CASE i \in 1..Len(q)
          BY <1>1, <1>3, <1>4, <3>1, <4>1 DEF QueueInv, Queued
        <4>2. CASE i = Len(q) + 1
          BY <1>1, <1>3, <3>1, <4>2
        <4> QED BY <1>3, <2>1, <3>1, <4>1, <4>2
      <3>2. CASE d # D(t)
        <4>1. overlay'[d] = overlay[d] /\ overlay[d][i] \in Ticks
          BY <1>2, <2>1, <3>2 DEF TypeOK
        <4>2. D(overlay[d][i]) = d /\ tick[overlay[d][i]].pc \in {"waiting", "body"}
          BY <2>1, <4>1 DEF QueueInv, Queued
        <4> QED BY <1>1, <3>2, <4>1, <4>2
      <3> QED BY <3>1, <3>2
    <2>2. ASSUME NEW d \in Daemons, NEW i \in 1..Len(overlay'[d]), NEW k \in 1..Len(overlay'[d]),
                 overlay'[d][i] = overlay'[d][k]
          PROVE  i = k
      <3>1. CASE d = D(t)
        <4>1. CASE i \in 1..Len(q) /\ k \in 1..Len(q)
          BY <1>3, <2>2, <3>1, <4>1 DEF QueueInv, Queued
        <4>2. CASE i = Len(q) + 1 \/ k = Len(q) + 1
          BY <1>3, <1>4, <2>2, <3>1, <4>2
        <4> QED BY <1>3, <2>2, <3>1, <4>1, <4>2
      <3>2. CASE d # D(t)
        BY <1>2, <2>2, <3>2 DEF QueueInv, Queued
      <3> QED BY <3>1, <3>2
    <2> QED BY <2>1, <2>2 DEF Queued
  <1>6. InQueue'
    <2> SUFFICES ASSUME NEW u \in Ticks, tick'[u].pc \in {"waiting", "body"}
                 PROVE  \E i \in 1..Len(overlay'[D(u)]) : overlay'[D(u)][i] = u
      BY DEF InQueue
    <2>1. CASE u = t
      BY <1>3, <2>1
    <2>2. CASE u # t
      <3>1. PICK i \in 1..Len(overlay[D(u)]) : overlay[D(u)][i] = u
        BY <1>1, <2>2 DEF QueueInv, InQueue
      <3>2. i \in 1..Len(overlay'[D(u)]) /\ overlay'[D(u)][i] = u
        BY <1>2, <1>3, <3>1
      <3> QED BY <3>2
    <2> QED BY <2>1, <2>2
  <1>7. HeadRuns'
    <2> SUFFICES ASSUME NEW u \in Ticks, tick'[u].pc = "body"
                 PROVE  overlay'[D(u)] # <<>> /\ overlay'[D(u)][1] = u
      BY DEF HeadRuns
    <2>1. overlay[D(u)] # <<>> /\ overlay[D(u)][1] = u /\ overlay[D(u)] \in Seq(Ticks)
      BY <1>1 DEF QueueInv, HeadRuns, TypeOK
    <2>2. 1 \in 1..Len(overlay[D(u)])
      BY <2>1
    <2> QED BY <1>2, <1>3, <2>1, <2>2
  <1>8. EnvIsTheUsers'
    BY <1>1 DEF QueueInv, EnvIsTheUsers
  <1> QED BY <1>5, <1>6, <1>7, <1>8 DEF QueueInv

\* The source of the first of the queue starts: nobody else of its daemon runs.
LEMMA EnterStep ==
  ASSUME TypeOK, QueueInv, NEW t \in Ticks, EnterBody(t)
  PROVE  QueueInv'
  <1> USE TickParts
  <1>1. /\ tick'[t].pc = "body" /\ tick[t].pc = "waiting"
        /\ \A u \in Ticks \ {t} : tick'[u] = tick[u]
        /\ overlay' = overlay
    BY GotoType DEF EnterBody, TypeOK, Phases, InFlight
  <1>2. /\ env'[D(t)] = UserOf[J(t)]
        /\ \A d \in Daemons \ {D(t)} : env'[d] = env[d]
    BY DEF EnterBody, TypeOK
  <1>3. overlay[D(t)] \in Seq(Ticks) /\ overlay[D(t)] # <<>>
    <2>1. PICK i \in 1..Len(overlay[D(t)]) : overlay[D(t)][i] = t
      BY <1>1 DEF QueueInv, InQueue
    <2> QED BY <2>1 DEF TypeOK
  <1>4. overlay[D(t)][1] = t
    BY <1>3 DEF EnterBody, MyTurn
  <1>5. \A u \in Ticks : D(u) = D(t) => tick[u].pc # "body"
    BY <1>1, <1>4 DEF QueueInv, HeadRuns
  <1>6. Queued'
    <2>1. \A d \in Daemons : \A i \in 1..Len(overlay[d]) : overlay[d][i] \in Ticks
      BY DEF TypeOK
    <2> QED BY <1>1, <2>1 DEF QueueInv, Queued
  <1>7. InQueue' /\ HeadRuns'
    BY <1>1, <1>3, <1>4 DEF QueueInv, InQueue, HeadRuns
  <1>8. EnvIsTheUsers'
    <2>1. \A u \in Ticks : tick'[u].pc = "body" => env'[D(u)] = UserOf[J(u)]
      BY <1>1, <1>2, <1>5 DEF QueueInv, EnvIsTheUsers
    <2>2. \A d \in Daemons : (\A u \in Ticks : D(u) = d => tick'[u].pc # "body") => env'[d] = None
      BY <1>1, <1>2 DEF QueueInv, EnvIsTheUsers
    <2> QED BY <2>1, <2>2 DEF EnvIsTheUsers
  <1> QED BY <1>6, <1>7, <1>8 DEF QueueInv

\* It ends: the queue moves up, the environment is the operator's.
LEMMA LeaveStep ==
  ASSUME TypeOK, QueueInv, NEW t \in Ticks, LeaveBody(t)
  PROVE  QueueInv'
  <1> DEFINE q == overlay[D(t)]
  <1> USE TickParts
  <1>1. /\ tick'[t].pc = "releasing" /\ tick[t].pc = "body"
        /\ \A u \in Ticks \ {t} : tick'[u] = tick[u]
    BY GotoType DEF LeaveBody, TypeOK, Phases, InFlight
  <1>2. /\ env'[D(t)] = None
        /\ \A d \in Daemons \ {D(t)} : env'[d] = env[d]
    BY DEF LeaveBody, RestoreEnv, TypeOK
  <1>3. q \in Seq(Ticks) /\ q # <<>> /\ q[1] = t
    BY <1>1 DEF QueueInv, HeadRuns, TypeOK
  <1>4. /\ overlay'[D(t)] = Tail(q)
        /\ \A d \in Daemons \ {D(t)} : overlay'[d] = overlay[d]
    BY DEF LeaveBody, LeaveOverlay, TypeOK
  <1>5. /\ Len(q) \in Nat \ {0} /\ Len(overlay'[D(t)]) = Len(q) - 1
        /\ \A i \in 1..(Len(q) - 1) : overlay'[D(t)][i] = q[i + 1] /\ q[i + 1] \in Ticks
    BY <1>3, <1>4
  <1>6. \A i \in 1..Len(q) : i # 1 => q[i] # t
    BY <1>3, <1>5 DEF QueueInv, Queued
  <1>7. \A u \in Ticks : u # t /\ D(u) = D(t) => tick[u].pc # "body"
    BY <1>3 DEF QueueInv, HeadRuns
  <1>8. Queued'
    <2>1. ASSUME NEW d \in Daemons, NEW i \in 1..Len(overlay'[d])
          PROVE  /\ D(overlay'[d][i]) = d
                 /\ tick'[overlay'[d][i]].pc \in {"waiting", "body"}
      <3>1. CASE d = D(t)
        <4>1. i + 1 \in 1..Len(q) /\ i + 1 # 1 /\ overlay'[d][i] = q[i + 1]
          BY <1>5, <2>1, <3>1
        <4>2. D(q[i + 1]) = d /\ tick[q[i + 1]].pc \in {"waiting", "body"}
          BY <3>1, <4>1 DEF QueueInv, Queued
        <4>3. q[i + 1] \in Ticks \ {t}
          BY <1>5, <1>6, <2>1, <3>1, <4>1
        <4> QED BY <1>1, <4>1, <4>2, <4>3
      <3>2. CASE d # D(t)
        <4>1. overlay'[d] = overlay[d] /\ overlay[d][i] \in Ticks
          BY <1>4, <2>1, <3>2 DEF TypeOK
        <4>2. D(overlay[d][i]) = d /\ tick[overlay[d][i]].pc \in {"waiting", "body"}
          BY <2>1, <4>1 DEF QueueInv, Queued
        <4> QED BY <1>1, <3>2, <4>1, <4>2
      <3> QED BY <3>1, <3>2
    <2>2. ASSUME NEW d \in Daemons, NEW i \in 1..Len(overlay'[d]), NEW k \in 1..Len(overlay'[d]),
                 overlay'[d][i] = overlay'[d][k]
          PROVE  i = k
      <3>1. CASE d = D(t)
        <4>1. q[i + 1] = q[k + 1] /\ i + 1 \in 1..Len(q) /\ k + 1 \in 1..Len(q)
          BY <1>5, <2>2, <3>1
        <4>2. i + 1 = k + 1
          BY <4>1 DEF QueueInv, Queued
        <4> QED BY <2>2, <4>2
      <3>2. CASE d # D(t)
        BY <1>4, <2>2, <3>2 DEF QueueInv, Queued
      <3> QED BY <3>1, <3>2
    <2> QED BY <2>1, <2>2 DEF Queued
  <1>9. InQueue'
    <2> SUFFICES ASSUME NEW u \in Ticks, tick'[u].pc \in {"waiting", "body"}
                 PROVE  \E i \in 1..Len(overlay'[D(u)]) : overlay'[D(u)][i] = u
      BY DEF InQueue
    <2>1. u # t
      BY <1>1
    <2>2. PICK i \in 1..Len(overlay[D(u)]) : overlay[D(u)][i] = u
      BY <1>1, <2>1 DEF QueueInv, InQueue
    <2>3. CASE D(u) = D(t)
      <3>1. i - 1 \in 1..(Len(q) - 1) /\ (i - 1) + 1 = i
        BY <1>3, <1>5, <2>1, <2>2, <2>3
      <3>2. overlay'[D(t)][i - 1] = q[(i - 1) + 1]
        BY <1>5, <3>1
      <3>3. overlay'[D(u)][i - 1] = u
        BY <2>2, <2>3, <3>1, <3>2
      <3> QED BY <1>5, <2>3, <3>1, <3>3
    <2>4. CASE D(u) # D(t)
      BY <1>4, <2>2, <2>4
    <2> QED BY <2>3, <2>4
  <1>10. HeadRuns'
    BY <1>1, <1>4, <1>7 DEF QueueInv, HeadRuns
  <1>11. EnvIsTheUsers'
    BY <1>1, <1>2, <1>7 DEF QueueInv, EnvIsTheUsers
  <1> QED BY <1>8, <1>9, <1>10, <1>11 DEF QueueInv

\* Every step keeps the overlay queue in the order in which its ticks run.
LEMMA QueueStep == TypeOK /\ QueueInv /\ [Next]_vars => QueueInv'
  <1> SUFFICES ASSUME TypeOK, QueueInv, [Next]_vars PROVE QueueInv'
    OBVIOUS
  <1> USE TickParts
  <1>1. ASSUME NEW t \in Ticks, TickStep(t) PROVE QueueInv'
    <2>1. CASE Fire(t) \/ Clear(t)
      <3>1. /\ tick[t].pc \notin {"waiting", "body"} /\ tick'[t].pc \notin {"waiting", "body"}
            /\ \A u \in Ticks \ {t} : tick'[u] = tick[u]
        BY <2>1, IdleType DEF Fire, Clear, TypeOK
      <3> QED BY <2>1, <3>1, QueueFrame DEF Fire, Clear
    <2>2. CASE Acquire(t) \/ TickThrows(t) \/ Release(t)
      <3>1. /\ tick[t].pc \notin {"waiting", "body"} /\ tick'[t].pc \notin {"waiting", "body"}
            /\ \A u \in Ticks \ {t} : tick'[u] = tick[u]
        BY <2>2, GotoType DEF Acquire, TickThrows, Release, TypeOK, Phases, InFlight
      <3> QED BY <2>2, <3>1, QueueFrame DEF Acquire, TickThrows, Release
    <2>3. CASE AcquireFails(t)
      <3>1. /\ tick[t].pc \notin {"waiting", "body"} /\ tick'[t].pc \notin {"waiting", "body"}
            /\ \A u \in Ticks \ {t} : tick'[u] = tick[u]
        BY <2>3, SkipType DEF AcquireFails
      <3> QED BY <2>3, <3>1, QueueFrame DEF AcquireFails
    <2>4. CASE Load(t)
      <3>1. CASE Goto(t, "releasing") /\ UNCHANGED overlay
        <4>1. /\ tick[t].pc \notin {"waiting", "body"} /\ tick'[t].pc \notin {"waiting", "body"}
              /\ \A u \in Ticks \ {t} : tick'[u] = tick[u]
          BY <2>4, <3>1, GotoType DEF Load, TypeOK, Phases, InFlight
        <4> QED BY <2>4, <3>1, <4>1, QueueFrame DEF Load
      <3>2. CASE Goto(t, "waiting") /\ overlay' = [overlay EXCEPT ![D(t)] = Append(@, t)]
        BY <2>4, <3>2, JoinStep DEF Load
      <3> QED BY <2>4, <3>1, <3>2 DEF Load
    <2>5. CASE EnterBody(t)
      BY <2>5, EnterStep
    <2>6. CASE LeaveBody(t)
      BY <2>6, LeaveStep
    <2> QED BY <1>1, <2>1, <2>2, <2>3, <2>4, <2>5, <2>6 DEF TickStep
  <1>2. ASSUME NEW d \in Daemons, Discover(d) PROVE QueueInv'
    <2>1. UNCHANGED <<tick, overlay, env>>
      BY <1>2 DEF Discover, Schedule, Unschedule
    <2> QED BY <2>1 DEF QueueInv, Queued, InQueue, HeadRuns, EnvIsTheUsers
  <1>3. ASSUME NEW d \in Daemons, Restart(d) PROVE QueueInv'
    <2>1. \A u \in Ticks : /\ D(u) = d => tick'[u].pc = "idle"
                           /\ D(u) # d => tick'[u] = tick[u]
      BY <1>3, IdleType DEF Restart
    <2>2. /\ overlay'[d] = <<>> /\ env'[d] = None
          /\ \A e \in Daemons \ {d} : overlay'[e] = overlay[e] /\ env'[e] = env[e]
      BY <1>3 DEF Restart, TypeOK
    <2>3. Queued'
      <3>1. \A e \in Daemons \ {d} : \A i \in 1..Len(overlay[e]) : overlay[e][i] \in Ticks
        BY DEF TypeOK
      <3>2. Len(overlay'[d]) = 0
        BY <2>2
      <3> QED BY <2>1, <2>2, <3>1, <3>2 DEF QueueInv, Queued
    <2>4. InQueue' /\ HeadRuns'
      BY <2>1, <2>2 DEF QueueInv, InQueue, HeadRuns
    <2>5. EnvIsTheUsers'
      BY <2>1, <2>2 DEF QueueInv, EnvIsTheUsers
    <2> QED BY <2>3, <2>4, <2>5 DEF QueueInv
  <1>4. ASSUME NEW j \in Jobs, ExpireGhost(j) \/ ExpireHeld(j) \/ SetCredentials(j) PROVE QueueInv'
    <2>1. UNCHANGED <<tick, overlay, env>>
      BY <1>4 DEF ExpireGhost, ExpireHeld, SetCredentials
    <2> QED BY <2>1 DEF QueueInv, Queued, InQueue, HeadRuns, EnvIsTheUsers
  <1>5. CASE UNCHANGED vars
    BY <1>5 DEF vars, QueueInv, Queued, InQueue, HeadRuns, EnvIsTheUsers
  <1> QED BY <1>1, <1>2, <1>3, <1>4, <1>5 DEF Next

----------------------------------------------------------------------------
\* The invariant of the scheduler holds at the start,
LEMMA InitDaemonInv == Init => DaemonInv
  <1> SUFFICES ASSUME Init PROVE DaemonInv
    OBVIOUS
  <1>1. TypeOK
    BY InitTyped
  <1>2. \A t \in Ticks : tick[t].pc = "idle"
    BY IdleType DEF Init
  <1>3. \A d \in Daemons : overlay[d] = <<>> /\ Len(overlay[d]) = 0 /\ env[d] = None
    BY DEF Init
  <1>4. Leased
    BY <1>2 DEF Leased, InFlight
  <1>5. QueueInv
    BY <1>2, <1>3 DEF QueueInv, Queued, InQueue, HeadRuns, EnvIsTheUsers
  <1> QED BY <1>1, <1>4, <1>5 DEF DaemonInv

\* no step breaks it,
LEMMA DaemonInvStep == DaemonInv /\ [Next]_vars => DaemonInv'
  BY TypedStep, LeasedStep, QueueStep DEF DaemonInv, QueueInv

\* and so it holds throughout.
LEMMA DaemonInvariant == Spec => []DaemonInv
  BY InitDaemonInv, DaemonInvStep, PTL DEF Spec

(* Whatever users, operators and failures do, the scheduler's variables keep their types.    *)
THEOREM SchedulerTypes == Spec => []TypeOK
  BY DaemonInvariant, PTL DEF DaemonInv

(* runtime-cache.ts: with Redis, no two ticks of a job are in flight together, on any number *)
(* of daemons and through restarts, reschedules and failing acquires and releases, except    *)
(* beside a tick whose lease expired under it.                                               *)
THEOREM LeasesExclude == Spec => []OneTickPerJob
  <1>1. TypeOK /\ Leased => OneTickPerJob
    BY DEF Leased, OneTickPerJob
  <1> QED BY <1>1, DaemonInvariant, PTL DEF DaemonInv

(* user-config.ts: while a source runs inside its overlay, process.env holds its user's      *)
(* settings, and when none does the operator's, for any number of users whose ticks overlap  *)
(* on one daemon.  Timers that run outside any overlay are not sources and not covered.      *)
THEOREM OverlaysDoNotMix == Spec => []EnvIsTheUsers
  BY DaemonInvariant, PTL DEF DaemonInv, QueueInv

----------------------------------------------------------------------------
(* The sealed settings.                                                     *)

Keys     == Tokens \cup {NoToken}
RowLike  == [ver : Int, key : {"user", "zeros", "none"}, secrets : SUBSET Keys, inbox : SUBSET Keys]
Snapshot == {<<>>} \cup {<<r>> : r \in RowLike}
JobType  == [op : {"none", "load", "reread", "merge", "unlock"},
             pc : {"idle", "fetching", "fetched", "looking", "opening", "merging", "storing"},
             buf : Nat, snap : Snapshot, tok : Keys, key : {"user", "zeros", "none"}]

\* A copy of the row is the row while the version is, and is under zeros only if a blob was.
Known(s, r, sp) ==
    /\ s \in Snapshot
    /\ s # <<>> => /\ s[1].ver <= r.ver
                   /\ s[1].ver = r.ver => s[1] = r
                   /\ s[1].key = "zeros" => sp
                   /\ s[1].key = "none" => s[1] = Unreadable

\* A job past the row's fetch has a copy; a load that opens it does so with the user's key.
JobOK(k, r, sp) ==
    /\ k \in JobType /\ Known(k.snap, r, sp)
    /\ k.pc \in {"fetched", "looking", "opening", "merging", "storing"} => k.snap # <<>>
    /\ k.pc = "opening" /\ k.op = "load" => k.key = "user" /\ k.snap[1] # Unreadable
    /\ k.pc = "storing" => k.key \in {"user", "zeros"}

RequestOK(w, r, sp) ==
    /\ w \in [kind : {"link", "save"}, tok : Keys, snap : RowLike]
    /\ Known(<<w.snap>>, r, sp)

SettingsInv ==
    /\ row \in RowLike /\ row.ver \in Nat /\ row.key # "none" /\ (row.key = "zeros" => spoiled)
    /\ Known(cache, row, spoiled)
    /\ buffers \in Nat /\ session \in Nat
    /\ job \in [Loads -> JobType]
    /\ \A j \in Loads : JobOK(job[j], row, spoiled)
    /\ \/ web = <<>>
       \/ \E w \in [kind : {"link", "save"}, tok : Keys, snap : RowLike] :
              web = <<w>> /\ RequestOK(w, row, spoiled)
    /\ KeepsTokens

\* A job at rest knows nothing that could be outdated.
LEMMA IdleJobOK == \A r, sp : JobOK(IdleJob, r, sp)
  BY DEF JobOK, IdleJob, JobType, Snapshot, Known, Keys

\* A failed read tells nothing of the row.
LEMMA UnreadableKnown ==
    ASSUME NEW r \in RowLike, r.ver \in Nat, NEW sp
    PROVE  Known(<<Unreadable>>, r, sp)
  BY DEF Unreadable, Row, RowLike, Known, Snapshot

\* The row as it is, read a moment ago, is known.
LEMMA RowKnown ==
    ASSUME NEW r \in RowLike, r.key # "none", NEW sp, r.key = "zeros" => sp
    PROVE  Known(<<r>>, r, sp)
  BY DEF RowLike, Known, Snapshot

\* The invariant of the settings holds before anything is read.
LEMMA SettingsStart == SettingsInit => SettingsInv
  <1> SUFFICES ASSUME SettingsInit PROVE SettingsInv
    OBVIOUS
  <1> USE DEF SettingsInit
  <1>1. row \in RowLike /\ row.ver = 0 /\ row.key = "user"
    BY DEF Row, RowLike
  <1>2. Known(cache, row, spoiled)
    BY DEF Known, Snapshot
  <1>3. \A j \in Loads : JobOK(job[j], row, spoiled) /\ job[j] \in JobType
    BY IdleJobOK DEF JobOK
  <1>4. KeepsTokens
    BY DEF KeepsTokens
  <1> QED
    BY <1>1, <1>2, <1>3, <1>4 DEF SettingsInv

\* A job moves, and the row stays.
LEMMA JobMoves ==
    ASSUME SettingsInv, NEW j \in Loads, NEW k, JobOK(k, row, spoiled), job' = [job EXCEPT ![j] = k],
           Known(cache', row, spoiled), buffers' \in Nat, session' \in Nat,
           UNCHANGED <<row, web, linked, outrun, spoiled>>
    PROVE  SettingsInv'
  <1>1. job' \in [Loads -> JobType] /\ \A l \in Loads : job'[l] = IF l = j THEN k ELSE job[l]
    BY DEF SettingsInv, JobOK
  <1>2. KeepsTokens'
    BY DEF SettingsInv, KeepsTokens
  <1> QED
    BY <1>1, <1>2 DEF SettingsInv

\* Nobody touches the row or a job.
LEMMA RowRests ==
    ASSUME SettingsInv, Known(cache', row, spoiled), session' \in Nat,
           job' = job \/ job' = [j \in Loads |-> IdleJob],
           UNCHANGED <<row, buffers, web, linked, outrun, spoiled>>
    PROVE  SettingsInv'
  <1>1. job' \in [Loads -> JobType] /\ \A l \in Loads : JobOK(job'[l], row, spoiled)
    BY IdleJobOK DEF SettingsInv, JobOK
  <1>2. KeepsTokens'
    BY DEF SettingsInv, KeepsTokens
  <1> QED
    BY <1>1, <1>2 DEF SettingsInv

\* A newer row makes no copy of an older one the row.
LEMMA KnownLasts ==
    ASSUME NEW r \in RowLike, NEW n \in RowLike, n.ver = r.ver + 1, NEW sp, NEW sq, sp => sq, NEW s, Known(s, r, sp)
    PROVE  Known(s, n, sq)
  <1>1. CASE s = <<>>
    BY <1>1 DEF Known
  <1>2. CASE s # <<>>
    <2>1. s[1].ver <= r.ver /\ s[1].ver \in Int /\ r.ver \in Int
      BY <1>2 DEF Known, Snapshot, RowLike
    <2> QED
      BY <1>2, <2>1 DEF Known
  <1> QED
    BY <1>1, <1>2

\* What a job knows of the row stays true of its successor.
LEMMA JobLasts ==
    ASSUME NEW r \in RowLike, NEW n \in RowLike, n.ver = r.ver + 1, NEW sp, NEW sq, sp => sq, NEW k, JobOK(k, r, sp)
    PROVE  JobOK(k, n, sq)
  <1>1. Known(k.snap, n, sq)
    BY KnownLasts DEF JobOK
  <1> QED
    BY <1>1 DEF JobOK

\* The row is written.
LEMMA RowWritten ==
    ASSUME SettingsInv, row' \in RowLike, row'.ver = row.ver + 1, row'.key # "none", row'.key = "zeros" => spoiled',
           spoiled => spoiled', cache' = cache \/ cache' = <<>>, UNCHANGED <<buffers, session>>,
           job' = job \/ \E j \in Loads, k \in JobType : job' = [job EXCEPT ![j] = k] /\ JobOK(k, row, spoiled),
           web' = web \/ web' = <<>>, KeepsTokens'
    PROVE  SettingsInv'
  <1>0. row \in RowLike /\ row.ver \in Nat /\ row'.ver \in Nat
    BY DEF SettingsInv
  <1>1. Known(cache', row', spoiled')
    <2>1. Known(cache, row', spoiled')
      BY <1>0, KnownLasts DEF SettingsInv
    <2>2. Known(<<>>, row', spoiled')
      BY DEF Known, Snapshot
    <2> QED BY <2>1, <2>2
  <1>2. \A j \in Loads : JobOK(job'[j], row, spoiled)
    BY DEF SettingsInv
  <1>3. \A j \in Loads : JobOK(job'[j], row', spoiled')
    BY <1>0, <1>2, JobLasts
  <1>4. job' \in [Loads -> JobType]
    BY DEF SettingsInv
  <1>5. \/ web' = <<>>
        \/ \E w \in [kind : {"link", "save"}, tok : Keys, snap : RowLike] :
               web' = <<w>> /\ RequestOK(w, row', spoiled')
    <2>1. CASE web' = <<>>
      BY <2>1
    <2>2. CASE web' = web /\ web # <<>>
      <3>1. PICK w \in [kind : {"link", "save"}, tok : Keys, snap : RowLike] :
                web = <<w>> /\ RequestOK(w, row, spoiled)
        BY <2>2 DEF SettingsInv
      <3>2. Known(<<w.snap>>, row', spoiled')
        BY <1>0, <3>1, KnownLasts DEF RequestOK
      <3>3. RequestOK(w, row', spoiled')
        BY <3>2 DEF RequestOK
      <3> QED
        BY <2>2, <3>1, <3>3
    <2> QED BY <2>1, <2>2
  <1> QED
    BY <1>0, <1>1, <1>3, <1>4, <1>5 DEF SettingsInv

\* writeSealed's update is taken: what is lost of what was linked, the job had not read.
LEMMA SealWritten ==
    ASSUME SettingsInv, NEW j \in Loads, job[j].pc = "storing", Written(j)
    PROVE  /\ row' \in RowLike /\ row'.ver = row.ver + 1 /\ row'.key # "none" /\ (row'.key = "zeros" => spoiled')
           /\ (spoiled => spoiled') /\ KeepsTokens'
  <1>0. /\ row \in RowLike /\ row.ver \in Nat /\ JobOK(job[j], row, spoiled)
    BY DEF SettingsInv
  <1>1. /\ job[j] \in JobType /\ job[j].snap # <<>> /\ job[j].key \in {"user", "zeros"}
        /\ Held(j) \in RowLike /\ (Held(j).ver = row.ver => Held(j) = row) /\ job[j].tok \in Keys
    BY <1>0 DEF JobOK, Known, Snapshot, Held, JobType
  <1> DEFINE new == Row(row.ver + 1, job[j].key, MergedSecrets(j), InboxLeft(j))
  <1>2. row' = new /\ spoiled' = (spoiled \/ job[j].key = "zeros")
        /\ Overwrites(Held(j).secrets, IF job[j].op = "load" THEN Held(j).inbox ELSE row.inbox)
        /\ linked' = IF job[j].op = "merge" THEN linked \union {job[j].tok} ELSE linked
    BY DEF Written
  <1>3. MergedSecrets(j) \in SUBSET Keys /\ InboxLeft(j) \in SUBSET Keys
    BY <1>0, <1>1 DEF MergedSecrets, InboxLeft, RowLike
  <1>4. new \in RowLike /\ new.ver = row.ver + 1 /\ new.key = job[j].key
        /\ new.secrets = MergedSecrets(j) /\ new.inbox = InboxLeft(j)
    BY <1>0, <1>1, <1>3 DEF Row, RowLike
  <1>5. KeepsTokens'
    <2>1. linked \subseteq row.secrets \union row.inbox \union outrun
      BY DEF SettingsInv, KeepsTokens
    <2>2. row'.secrets = Held(j).secrets \union (IF job[j].op = "load" THEN Held(j).inbox ELSE {job[j].tok})
          /\ row'.inbox = IF job[j].op = "load" THEN {} ELSE row.inbox
      BY <1>2, <1>4 DEF MergedSecrets, InboxLeft
    <2>3. outrun' = (outrun \union (row.secrets \ Held(j).secrets)
                       \union (row.inbox \ IF job[j].op = "load" THEN Held(j).inbox ELSE row.inbox))
                      \ (row'.secrets \union row'.inbox)
      BY <1>2 DEF Overwrites
    <2>4. CASE job[j].op = "load"
      BY <1>2, <2>1, <2>2, <2>3, <2>4 DEF KeepsTokens
    <2>5. CASE job[j].op # "load"
      BY <1>2, <2>1, <2>2, <2>3, <2>5 DEF KeepsTokens
    <2> QED
      BY <2>4, <2>5
  <1> QED
    BY <1>1, <1>2, <1>4, <1>5

\* No step of a job, the web, a lock or a restart breaks the invariant of the settings.
LEMMA SettingsStep == SettingsInv /\ [SettingsNext]_settingsVars => SettingsInv'
  <1> SUFFICES ASSUME SettingsInv, [SettingsNext]_settingsVars PROVE SettingsInv'
    OBVIOUS
  <1>0. /\ row \in RowLike /\ row.ver \in Nat /\ row.key # "none" /\ (row.key = "zeros" => spoiled)
        /\ Known(cache, row, spoiled) /\ Known(<<>>, row, spoiled) /\ buffers \in Nat /\ session \in Nat
        /\ \A j \in Loads : job[j] \in JobType /\ JobOK(job[j], row, spoiled) /\ Known(job[j].snap, row, spoiled)
        /\ Known(<<row>>, row, spoiled) /\ Known(<<Unreadable>>, row, spoiled)
    BY RowKnown, UnreadableKnown DEF SettingsInv, JobOK, Known, Snapshot
  <1>1. ASSUME NEW j \in Loads, Done(j), cache' = cache \/ cache' = <<>>, buffers' \in Nat, session' \in Nat,
               UNCHANGED <<row, web, linked, outrun, spoiled>>
        PROVE  SettingsInv'
    BY <1>0, <1>1, IdleJobOK, JobMoves DEF Done
  <1>2. ASSUME NEW j \in Loads, StartLoad(j) \/ StartUnlock(j) \/ (\E k \in Tokens : StartMerge(j, k))
        PROVE  SettingsInv'
    <2>1. CASE StartLoad(j)
      <3> DEFINE k == [IdleJob EXCEPT !.op = "load", !.snap = cache,
                                      !.pc = IF cache = <<>> THEN "fetching" ELSE "looking"]
      <3>1. JobOK(k, row, spoiled)
        BY <1>0 DEF JobOK, IdleJob, JobType, Keys, Known
      <3> HIDE DEF k
      <3> QED BY <1>0, <2>1, <3>1, JobMoves DEF StartLoad, k
    <2>2. CASE StartUnlock(j)
      <3> DEFINE k == [IdleJob EXCEPT !.op = "unlock", !.pc = "fetching"]
      <3>1. JobOK(k, row, spoiled)
        BY <1>0 DEF JobOK, IdleJob, JobType, Keys, Snapshot
      <3> HIDE DEF k
      <3> QED BY <1>0, <2>2, <3>1, JobMoves DEF StartUnlock, k
    <2>3. ASSUME NEW t \in Tokens, StartMerge(j, t)
          PROVE  SettingsInv'
      <3> DEFINE k == [IdleJob EXCEPT !.op = "merge", !.pc = "fetching", !.buf = session, !.tok = t]
      <3>1. JobOK(k, row, spoiled)
        BY <1>0 DEF JobOK, IdleJob, JobType, Keys, Snapshot
      <3> HIDE DEF k
      <3> QED BY <1>0, <2>3, <3>1, JobMoves DEF StartMerge, k
    <2> QED BY <1>2, <2>1, <2>2, <2>3
  <1>3. ASSUME NEW j \in Loads, FetchAnswers(j) PROVE SettingsInv'
    <2>1. ASSUME NEW r \in {row, Unreadable}, job' = [job EXCEPT ![j] = [@ EXCEPT !.pc = "fetched", !.snap = <<r>>]]
          PROVE  SettingsInv'
      <3> DEFINE k == [job[j] EXCEPT !.pc = "fetched", !.snap = <<r>>]
      <3>1. Known(<<r>>, row, spoiled) /\ <<r>> \in Snapshot
        BY <1>0 DEF Known
      <3>2. /\ k \in JobType /\ k.pc = "fetched" /\ k.snap = <<r>>
        BY <1>0, <3>1 DEF JobType
      <3>3. JobOK(k, row, spoiled) /\ job' = [job EXCEPT ![j] = k]
        BY <2>1, <3>1, <3>2 DEF JobOK
      <3> HIDE DEF k
      <3> QED BY <1>0, <1>3, <3>3, JobMoves DEF FetchAnswers
    <2> QED BY <1>3, <2>1 DEF FetchAnswers
  <1>4. ASSUME NEW j \in Loads, FetchReturns(j) PROVE SettingsInv'
    <2>1. Known(cache', row, spoiled) /\ UNCHANGED <<row, session, buffers, web, linked, outrun, spoiled>>
      BY <1>0, <1>4 DEF FetchReturns
    <2>2. CASE Done(j)
      BY <1>0, <2>1, <2>2, IdleJobOK, JobMoves DEF Done
    <2>3. CASE GoOn(j, "looking")
      <3> DEFINE k == [job[j] EXCEPT !.pc = "looking"]
      <3>1. JobOK(k, row, spoiled)
        BY <1>0, <1>4 DEF FetchReturns, JobOK, JobType
      <3> HIDE DEF k
      <3> QED BY <1>0, <2>1, <2>3, <3>1, JobMoves DEF GoOn, k
    <2> QED BY <1>4, <2>2, <2>3 DEF FetchReturns
  <1>5. ASSUME NEW j \in Loads, Look(j) PROVE SettingsInv'
    <2>1. UNCHANGED <<row, cache, session, buffers, web, linked, outrun, spoiled>> /\ job[j].pc = "looking"
      BY <1>5 DEF Look
    <2>2. CASE Done(j)
      BY <1>0, <1>1, <2>1, <2>2
    <2>3. CASE MayOpen(j)
      <3> DEFINE k == [job[j] EXCEPT !.pc = "opening", !.buf = Buffer(j), !.key = KeyIn(Buffer(j))]
      <3>1. Buffer(j) \in Nat /\ KeyIn(Buffer(j)) \in {"user", "zeros"}
            /\ (job[j].op = "load" => KeyIn(Buffer(j)) = "user" /\ Held(j) # Unreadable)
        BY <1>0, <2>3 DEF Buffer, KeyIn, JobType, MayOpen, SealPresent, Readable
      <3>2. /\ k \in JobType /\ k.pc = "opening" /\ k.op = job[j].op /\ k.snap = job[j].snap
            /\ k.key = KeyIn(Buffer(j))
        BY <1>0, <3>1 DEF JobType
      <3>3. JobOK(k, row, spoiled)
        BY <1>0, <2>1, <3>1, <3>2 DEF JobOK, Held
      <3>4. job' = [job EXCEPT ![j] = k]
        BY <1>5, <2>3 DEF Look
      <3> HIDE DEF k
      <3> QED BY <1>0, <2>1, <3>3, <3>4, JobMoves
    <2> QED BY <1>5, <2>2, <2>3 DEF Look
  <1>6. ASSUME NEW j \in Loads, Unlock(j) \/ LoadLocks(j) \/ MergeThrows(j) PROVE SettingsInv'
    BY <1>0, <1>1, <1>6 DEF Unlock, LoadLocks, MergeThrows
  <1>7. ASSUME NEW j \in Loads, LoadOpened(j) PROVE SettingsInv'
    <2>1. CASE Done(j)
      BY <1>0, <1>1, <1>7, <2>1 DEF LoadOpened
    <2>2. CASE GoOn(j, "merging")
      <3> DEFINE k == [job[j] EXCEPT !.pc = "merging"]
      <3>1. JobOK(k, row, spoiled)
        BY <1>0, <1>7 DEF LoadOpened, JobOK, JobType
      <3> HIDE DEF k
      <3> QED BY <1>0, <1>7, <2>2, <3>1, JobMoves DEF LoadOpened, GoOn, k
    <2> QED BY <1>7, <2>1, <2>2 DEF LoadOpened
  <1>8. ASSUME NEW j \in Loads, Seal(j) PROVE SettingsInv'
    <2> DEFINE k == [job[j] EXCEPT !.pc = "storing", !.key = KeyIn(job[j].buf)]
    <2>1. KeyIn(job[j].buf) \in {"user", "zeros"} /\ job[j].pc \in {"merging", "opening"}
      BY <1>8 DEF KeyIn, Seal
    <2>2. /\ k \in JobType /\ k.pc = "storing" /\ k.snap = job[j].snap /\ k.key = KeyIn(job[j].buf)
      BY <1>0, <2>1 DEF JobType
    <2>3. JobOK(k, row, spoiled) /\ job' = [job EXCEPT ![j] = k]
      BY <1>0, <1>8, <2>1, <2>2 DEF JobOK, Seal
    <2> HIDE DEF k
    <2> QED BY <1>0, <1>8, <2>3, JobMoves DEF Seal
  <1>9. ASSUME NEW j \in Loads, Store(j) PROVE SettingsInv'
    <2> DEFINE again == [IdleJob EXCEPT !.op = "reread", !.pc = "fetching"]
    <2>1. JobOK(again, row, spoiled) /\ JobOK(IdleJob, row, spoiled) /\ again \in JobType /\ IdleJob \in JobType
      BY <1>0, IdleJobOK DEF JobOK, IdleJob, JobType, Keys
    <2>2. \E k \in JobType : job' = [job EXCEPT ![j] = k] /\ JobOK(k, row, spoiled)
      BY <1>9, <2>1 DEF Store, Done
    <2> HIDE DEF again
    <2>3. Written(j) /\ job[j].pc = "storing" /\ UNCHANGED <<buffers, session, web>> /\ cache' = <<>>
      BY <1>9 DEF Store
    <2>4. /\ row' \in RowLike /\ row'.ver = row.ver + 1 /\ row'.key # "none"
          /\ row'.key = "zeros" => spoiled'
          /\ spoiled => spoiled'
          /\ KeepsTokens'
      BY <2>3, SealWritten
    <2>5. job' = job \/ \E l \in Loads, k \in JobType : job' = [job EXCEPT ![l] = k] /\ JobOK(k, row, spoiled)
      BY <2>2
    <2> QED
      BY <2>3, <2>4, <2>5, RowWritten
  <1>10. ASSUME NEW j \in Loads, StoreFails(j) PROVE SettingsInv'
    <2>1. CASE UNCHANGED <<row, linked, outrun, spoiled>>
      BY <1>0, <1>1, <1>10, <2>1 DEF StoreFails
    <2>2. CASE Written(j)
      <3>1. JobOK(IdleJob, row, spoiled) /\ IdleJob \in JobType /\ job' = [job EXCEPT ![j] = IdleJob]
        BY <1>10, IdleJobOK DEF JobOK, StoreFails, Done
      <3>2. job[j].pc = "storing" /\ UNCHANGED <<buffers, session, web, cache>>
        BY <1>10 DEF StoreFails
      <3>3. /\ row' \in RowLike /\ row'.ver = row.ver + 1 /\ row'.key # "none"
            /\ row'.key = "zeros" => spoiled'
            /\ spoiled => spoiled'
            /\ KeepsTokens'
        BY <2>2, <3>2, SealWritten
      <3>4. job' = job \/ \E l \in Loads, k \in JobType : job' = [job EXCEPT ![l] = k] /\ JobOK(k, row, spoiled)
        BY <3>1
      <3> QED
        BY <3>2, <3>3, <3>4, RowWritten
    <2> QED BY <1>10, <2>1, <2>2 DEF StoreFails
  <1>11. CASE Lock \/ SessionExpires \/ CacheExpires \/ DaemonRestarts \/ UNCHANGED settingsVars
    BY <1>0, <1>11, RowRests DEF Lock, SessionExpires, CacheExpires, DaemonRestarts, settingsVars
  <1>12. ASSUME NEW t \in Tokens, NEW kind \in {"link", "save"}, WebReads(t, kind) PROVE SettingsInv'
    <2> DEFINE w == [kind |-> kind, tok |-> t, snap |-> row]
    <2>1. w \in [kind : {"link", "save"}, tok : Keys, snap : RowLike] /\ RequestOK(w, row, spoiled) /\ web' = <<w>>
      BY <1>0, <1>12 DEF Keys, RequestOK, WebReads
    <2>2. UNCHANGED <<row, cache, session, buffers, job, linked, outrun, spoiled>>
      BY <1>12 DEF WebReads
    <2> HIDE DEF w
    <2> QED BY <2>1, <2>2 DEF SettingsInv, KeepsTokens
  <1>13. CASE WebWrites
    <2>1. PICK w \in [kind : {"link", "save"}, tok : Keys, snap : RowLike] :
              web = <<w>> /\ RequestOK(w, row, spoiled)
      BY <1>13 DEF WebWrites, SettingsInv
    <2>2. /\ row' = IF w.kind = "link"
                    THEN [row EXCEPT !.ver = @ + 1, !.inbox = w.snap.inbox \union {w.tok}]
                    ELSE Row(row.ver + 1, "user", w.snap.secrets \union {w.tok}, w.snap.inbox)
          /\ linked' = linked \union {w.tok}
          /\ Overwrites(IF w.kind = "link" THEN row.secrets ELSE w.snap.secrets, w.snap.inbox)
          /\ web' = <<>> /\ UNCHANGED <<cache, session, buffers, job, spoiled>>
      BY <1>13, <2>1 DEF WebWrites
    <2>3. w.snap \in RowLike /\ w.tok \in Keys /\ (w.snap.ver = row.ver => w.snap = row)
      BY <2>1 DEF RequestOK, Known
    <2>4. /\ row' \in RowLike /\ row'.ver = row.ver + 1 /\ (w.kind = "link" => row'.key = row.key)
          /\ w.kind # "link" => row'.key = "user"
          /\ row'.secrets = IF w.kind = "link" THEN row.secrets ELSE w.snap.secrets \union {w.tok}
          /\ row'.inbox = IF w.kind = "link" THEN w.snap.inbox \union {w.tok} ELSE w.snap.inbox
      <3>1. w.snap.secrets \in SUBSET Keys /\ w.snap.inbox \in SUBSET Keys
        BY <2>3 DEF RowLike
      <3>2. CASE w.kind = "link"
        <4>1. row' = [row EXCEPT !.ver = @ + 1, !.inbox = w.snap.inbox \union {w.tok}]
          BY <2>2, <3>2
        <4>2. row \in [ver : Int, key : {"user", "zeros", "none"}, secrets : SUBSET Keys, inbox : SUBSET Keys]
          BY <1>0 DEF RowLike
        <4>3. (w.snap.inbox \union {w.tok}) \in SUBSET Keys /\ row.ver + 1 \in Int
          BY <1>0, <2>3, <3>1
        <4>4. /\ row' \in [ver : Int, key : {"user", "zeros", "none"}, secrets : SUBSET Keys, inbox : SUBSET Keys]
              /\ row'.ver = row.ver + 1 /\ row'.key = row.key /\ row'.secrets = row.secrets
              /\ row'.inbox = w.snap.inbox \union {w.tok}
          BY <4>1, <4>2, <4>3
        <4> QED
          BY <3>2, <4>4 DEF RowLike
      <3>3. CASE w.kind # "link"
        <4>1. row' = Row(row.ver + 1, "user", w.snap.secrets \union {w.tok}, w.snap.inbox)
          BY <2>2, <3>3
        <4> QED
          BY <1>0, <2>3, <3>1, <3>3, <4>1 DEF RowLike, Row
      <3> QED
        BY <3>2, <3>3
    <2>5. KeepsTokens'
      <3>1. linked \subseteq row.secrets \union row.inbox \union outrun
        BY DEF SettingsInv, KeepsTokens
      <3>2. outrun' = (outrun \union (row.secrets \ IF w.kind = "link" THEN row.secrets ELSE w.snap.secrets)
                         \union (row.inbox \ w.snap.inbox)) \ (row'.secrets \union row'.inbox)
        BY <2>2 DEF Overwrites
      <3>3. CASE w.kind = "link"
        BY <2>2, <2>4, <3>1, <3>2, <3>3 DEF KeepsTokens
      <3>4. CASE w.kind # "link"
        BY <2>2, <2>4, <3>1, <3>2, <3>4 DEF KeepsTokens
      <3> QED BY <3>3, <3>4
    <2> QED
      BY <1>0, <2>2, <2>4, <2>5, RowWritten
  <1> QED
    BY <1>2, <1>3, <1>4, <1>5, <1>6, <1>7, <1>8, <1>9, <1>10, <1>11, <1>12, <1>13 DEF SettingsNext, JobStep

\* A token that was linked, saved or refreshed is lost only by a write whose writer had read
\* the column before the token entered it: for any jobs, tokens, failures, locks and restarts
\* (user-config.ts; the settings and callback routes of the web app).
THEOREM TokensAreKept == SettingsSpec => []KeepsTokens
  BY SettingsStart, SettingsStep, PTL DEF SettingsSpec, SettingsInv

MovesCounted == moved \in Nat

\* Moves are counted one by one.
LEMMA MovesAreCounted ==
    /\ SettingsInit => MovesCounted
    /\ MovesCounted /\ [SettingsNext]_settingsVars => MovesCounted'
  <1>1. SettingsInit => MovesCounted
    BY DEF SettingsInit, MovesCounted
  <1>2. [SettingsNext]_settingsVars => moved' = moved \/ moved' = moved + 1
    BY DEF SettingsNext, JobStep, StartLoad, StartUnlock, StartMerge, FetchAnswers, FetchReturns, Look, Unlock,
       LoadLocks, LoadOpened, Seal, MergeThrows, Store, StoreFails, WebReads, WebWrites, Lock, SessionExpires,
       CacheExpires, DaemonRestarts, Move, settingsVars
  <1> QED
    BY <1>1, <1>2 DEF MovesCounted

\* The daemon takes a session from a user who did not end it only after a blob was sealed
\* under zeros (user-config.ts, loadUserConfigState).
THEOREM LocksHaveCause == SettingsSpec => LocksForCause
  <1>1. SettingsInv /\ MovesCounted /\ [SettingsNext]_settingsVars =>
            [session # 0 /\ session' = 0 => moved' # moved \/ spoiled]_settingsVars
    <2> SUFFICES ASSUME SettingsInv, MovesCounted, SettingsNext, session # 0, session' = 0, moved' = moved
                 PROVE  spoiled
      OBVIOUS
    <2>1. ~Move /\ session' # session
      BY DEF Move, MovesCounted
    <2>2. ASSUME NEW j \in Loads, Unlock(j) PROVE FALSE
      BY <2>2 DEF Unlock, SettingsInv
    <2>3. ASSUME NEW j \in Loads, LoadLocks(j) PROVE spoiled
      <3>1. JobOK(job[j], row, spoiled) /\ job[j].pc = "opening" /\ job[j].op = "load" /\ ~Opens(j)
        BY <2>3 DEF LoadLocks, SettingsInv
      <3>2. Held(j) # Unreadable /\ KeyImported(j) = "user" /\ job[j].snap # <<>>
        BY <3>1 DEF JobOK, Held, KeyImported
      <3>3. Held(j).key # "user"
        BY <3>1, <3>2 DEF Opens, Readable
      <3> QED
        BY <3>1, <3>2, <3>3 DEF JobOK, Known, Held, Snapshot, RowLike
    <2> QED
      BY <2>1, <2>2, <2>3 DEF SettingsNext, JobStep, StartLoad, StartUnlock, StartMerge, FetchAnswers, FetchReturns,
         Look, LoadOpened, Seal, MergeThrows, Store, StoreFails, WebReads, WebWrites, Lock, SessionExpires,
         CacheExpires, DaemonRestarts
  <1>2. SettingsSpec => []SettingsInv
    BY SettingsStart, SettingsStep, PTL DEF SettingsSpec
  <1>3. SettingsSpec => []MovesCounted
    BY MovesAreCounted, PTL DEF SettingsSpec
  <1> QED
    BY <1>1, <1>2, <1>3, PTL DEF SettingsSpec, LocksForCause

----------------------------------------------------------------------------
(* The price streams.                                                       *)

\* What this side believes it asked for is watched, whatever state the connection is in.
StreamInv ==
    /\ refs \in [StreamPairs -> Nat] /\ priced \in [StreamPairs -> Nat] /\ found \subseteq StreamPairs
    /\ subscribed \subseteq Watched
    /\ StreamsInStep

\* The least of two numbers.
LEMMA SmallerOfTwo ==
    ASSUME NEW a \in Nat, NEW b \in Nat
    PROVE  Min({a, b}) = IF a <= b THEN a ELSE b
  <1> DEFINE m == IF a <= b THEN a ELSE b
  <1>1. m \in {a, b} /\ \A y \in {a, b} : m <= y
    OBVIOUS
  <1>2. \A x \in {a, b} : (\A y \in {a, b} : x <= y) => x = m
    OBVIOUS
  <1>3. Min({a, b}) = CHOOSE x \in {a, b} : \A y \in {a, b} : x <= y
    BY DEF Min
  <1> HIDE DEF m
  <1>4. Min({a, b}) = m
    BY <1>1, <1>2, <1>3
  <1> QED
    BY <1>4 DEF m

\* A stream starts with nothing watched and nothing asked for.
LEMMA StreamStart == StreamInit => StreamInv
  BY StreamConstants DEF StreamInit, StreamInv, StreamsInStep, AsksForWatched, NoPriceUnwatched, Watched

\* Asking for pairs nobody asked for leaves out what is dead, and only that.
LEMMA Asked ==
    ASSUME NEW pairs, NEW asked, SubscribePairs(pairs, asked)
    PROVE  /\ subscribed' = asked \cup (pairs \ dead')
           /\ dead' = dead \cup Unlisted(pairs) /\ Unlisted(pairs) \subseteq pairs
  BY DEF SubscribePairs, Unlisted

\* Counting the references up keeps the invariant: the pairs not yet watched are asked for.
LEMMA RetainStep ==
    ASSUME StreamInv, NEW pairs \in SUBSET StreamPairs, retain(pairs)
    PROVE  StreamInv'
  <1> DEFINE new == applyRetainCounts(pairs)
  <1>1. /\ refs' = [p \in StreamPairs |-> IF p \in pairs THEN refs[p] + 1 ELSE refs[p]]
        /\ UNCHANGED <<feed, found, priced>>
    BY DEF retain
  <1>2. refs' \in [StreamPairs -> Nat] /\ Watched' = Watched \cup new /\ Watched \cap new = {}
    <2>1. \A p \in StreamPairs : refs'[p] > 0 <=> p \in new \/ refs[p] > 0
      BY <1>1 DEF StreamInv, applyRetainCounts
    <2>2. new \subseteq StreamPairs /\ \A p \in new : refs[p] = 0
      BY DEF applyRetainCounts
    <2>3. refs' \in [StreamPairs -> Nat]
      BY <1>1 DEF StreamInv
    <2> HIDE DEF new
    <2> QED BY <2>1, <2>2, <2>3 DEF Watched
  <1>3. NoPriceUnwatched'
    BY <1>1, <1>2 DEF NoPriceUnwatched, StreamInv, StreamsInStep
  <1>4. subscribed' \subseteq Watched' /\ AsksForWatched'
    <2>1. CASE new = {} /\ UNCHANGED <<socketVars, geminiVars, feedFaults>>
      BY <1>2, <2>1 DEF StreamInv, StreamsInStep, AsksForWatched, socketVars, geminiVars
    <2>2. CASE socket = "open" /\ SubscribePairs(new, subscribed)
      <3>1. /\ subscribed' = subscribed \cup (new \ dead')
            /\ dead' = dead \cup Unlisted(new) /\ Unlisted(new) \subseteq new
        BY <2>2, Asked
      <3> HIDE DEF new
      <3>2. subscribed = Watched \ dead
        BY <2>2 DEF StreamInv, StreamsInStep, AsksForWatched
      <3> QED BY <1>2, <3>1, <3>2 DEF AsksForWatched
    <2>3. CASE socket # "open" /\ Connect /\ UNCHANGED subscribed
      <3>1. socket' # "open"
        BY <2>3 DEF Connect
      <3> QED BY <1>2, <2>3, <3>1 DEF StreamInv, AsksForWatched
    <2> QED BY <2>1, <2>2, <2>3 DEF retain
  <1> QED
    BY <1>1, <1>2, <1>3, <1>4 DEF StreamInv, StreamsInStep

\* Counting them down keeps it: the pairs nobody watches any more are dropped.
LEMMA ReleaseStep ==
    ASSUME StreamInv, NEW pairs \in SUBSET StreamPairs, release(pairs)
    PROVE  StreamInv'
  <1> DEFINE gone == applyReleaseCounts(pairs)
  <1>1. /\ refs' = [p \in StreamPairs |-> IF p \in pairs THEN refs[p] - 1 ELSE refs[p]]
        /\ priced' = [p \in StreamPairs |-> IF p \in gone THEN StaleAge ELSE priced[p]]
        /\ subscribed' = subscribed \ gone /\ pairs \subseteq Watched
        /\ UNCHANGED <<feed, found, socket, dead>>
    BY DEF release, prunePairCache, geminiVars
  <1>2. refs' \in [StreamPairs -> Nat] /\ Watched' = Watched \ gone
    <2>1. \A p \in pairs : refs[p] \in Nat \ {0}
      BY <1>1 DEF StreamInv, Watched
    <2>2. \A p \in StreamPairs : refs'[p] \in Nat /\ (refs'[p] > 0 <=> refs[p] > 0 /\ p \notin gone)
      BY <1>1, <2>1 DEF StreamInv, applyReleaseCounts
    <2>3. refs' \in [StreamPairs -> Nat]
      BY <1>1, <2>2
    <2> HIDE DEF gone
    <2> QED BY <2>2, <2>3 DEF Watched
  <1>3. priced' \in [StreamPairs -> Nat]
    BY <1>1, StreamConstants DEF StreamInv
  <1>4. NoPriceUnwatched'
    BY <1>1, <1>2 DEF NoPriceUnwatched, StreamInv, StreamsInStep
  <1> QED
    BY <1>1, <1>2, <1>3, <1>4 DEF StreamInv, StreamsInStep, AsksForWatched

\* A price is booked under a pair that is watched, whatever it was asked for.
LEMMA ReceiveStep ==
    ASSUME StreamInv, NEW p \in StreamPairs, Receive(p)
    PROVE  StreamInv'
  <1>1. UNCHANGED <<feed, found, refs, socket, subscribed, dead>> /\ Watched' = Watched
    BY DEF Receive, geminiVars, Watched
  <1>2. CASE UNCHANGED priced
    BY <1>1, <1>2 DEF StreamInv, StreamsInStep, AsksForWatched, NoPriceUnwatched
  <1>3. ASSUME NEW pair \in currentCanonicalPair(p), setPrice(pair)
        PROVE  StreamInv'
    <2>1. priced' = [priced EXCEPT ![pair] = 0]
      BY <1>3 DEF setPrice
    <2>2. priced' \in [StreamPairs -> Nat] /\ \A q \in StreamPairs : q # pair => priced'[q] = priced[q]
      BY <2>1 DEF StreamInv
    <2>3. feed # "coinbase" => pair \in Watched
      BY <1>3 DEF currentCanonicalPair, StreamInv
    <2> QED
      BY <1>1, <2>2, <2>3 DEF StreamInv, StreamsInStep, AsksForWatched, NoPriceUnwatched
  <1> QED
    BY <1>2, <1>3 DEF Receive

\* Growing old changes nothing but ages.
LEMMA AgesStep == StreamInv /\ Ages => StreamInv'
  <1> SUFFICES ASSUME StreamInv, Ages PROVE StreamInv'
    OBVIOUS
  <1>1. /\ UNCHANGED <<feed, found, refs, socket, subscribed, dead>> /\ Watched' = Watched
        /\ priced' = [p \in StreamPairs |-> Min({priced[p] + 1, StaleAge})]
    BY DEF Ages, geminiVars, Watched
  <1>2. ASSUME NEW p \in StreamPairs
        PROVE  priced'[p] = IF priced[p] + 1 <= StaleAge THEN priced[p] + 1 ELSE StaleAge
    <2>1. priced[p] + 1 \in Nat /\ StaleAge \in Nat
      BY StreamConstants DEF StreamInv
    <2>2. Min({priced[p] + 1, StaleAge}) = IF priced[p] + 1 <= StaleAge THEN priced[p] + 1 ELSE StaleAge
      BY <2>1, SmallerOfTwo
    <2> QED BY <1>1, <2>2
  <1>3. priced' \in [StreamPairs -> Nat] /\ \A p \in StreamPairs : priced[p] = StaleAge => priced'[p] = StaleAge
    BY <1>1, <1>2, StreamConstants DEF StreamInv
  <1> QED
    BY <1>1, <1>3 DEF StreamInv, StreamsInStep, AsksForWatched, NoPriceUnwatched

\* No step of the socket, its watchers or the exchange breaks the invariant of the stream.
LEMMA StreamStep == StreamInv /\ [StreamNext]_streamVars => StreamInv'
  <1> SUFFICES ASSUME StreamInv, [StreamNext]_streamVars PROVE StreamInv'
    OBVIOUS
  <1> USE DEF StreamInv, StreamsInStep, AsksForWatched, NoPriceUnwatched, Watched, socketVars, geminiVars
  <1>1. CASE getActivePairs
    BY <1>1 DEF getActivePairs
  <1>2. CASE startWsBootstrap \/ refreshPairs
    BY <1>2, RetainStep, StreamConstants DEF startWsBootstrap, refreshPairs
  <1>3. CASE ViewerLeaves
    BY <1>3, ReleaseStep DEF ViewerLeaves
  <1>4. CASE Open
    <2>1. subscribed' = Watched \ dead' /\ UNCHANGED <<feed, found, refs, priced>>
      BY <1>4, Asked DEF Open
    <2> QED BY <2>1
  <1>5. CASE SocketCloses \/ ConnectionLost
    BY <1>5 DEF SocketCloses, ConnectionLost, Closed
  <1>6. CASE scheduleReconnect
    BY <1>6 DEF scheduleReconnect, Connect
  <1>7. CASE Watchdog \/ Freeze \/ Heartbeat
    BY <1>7 DEF Watchdog, Freeze, Heartbeat
  <1>8. ASSUME NEW p \in StreamPairs, Quoted(p) PROVE StreamInv'
    BY <1>8 DEF Quoted
  <1>9. ASSUME NEW p \in StreamPairs, Receive(p) PROVE StreamInv'
    BY <1>9, ReceiveStep
  <1>10. CASE refreshGeminiSymbols
    BY <1>10 DEF refreshGeminiSymbols
  <1>11. CASE Ages
    BY <1>11, AgesStep
  <1>12. CASE UNCHANGED streamVars
    BY <1>12 DEF streamVars
  <1> QED
    BY <1>1, <1>2, <1>3, <1>4, <1>5, <1>6, <1>7, <1>8, <1>9, <1>10, <1>11, <1>12 DEF StreamNext

\* For any exchange, pairs, viewers, listings, faults and reconnects: an open connection has
\* been asked for exactly the watched pairs (but for what Gemini never listed), and, save on
\* Coinbase, a pair nobody watches has no price (ws-price-cache.ts).
THEOREM StreamsAgree == StreamSpec => []StreamsInStep
  BY StreamStart, StreamStep, PTL DEF StreamSpec, StreamInv
----------------------------------------------------------------------------
(* The types of the three, and of what runs in one process.                 *)

\* A copy of the row: none, a failed read's, or a row's.
Copies == {<<>>, <<Unreadable>>} \cup {<<r>> : r \in RowType}

\* Jobs, their buffers among the first b and their tokens issued, of u.
TypedJobs(b, u) ==
    [op : {"none", "load", "reread", "merge", "unlock"},
     pc : {"idle", "fetching", "fetched", "looking", "opening", "merging", "storing"},
     buf : 0..b, snap : Copies, tok : u \cup {NoToken}, key : {"user", "zeros", "none"}]

\* A job works from a row it could read; what it seals is a load's or a merge's.
WorksFromRow(k) ==
    /\ k.pc \in {"fetched", "looking"} => k.snap # <<>>
    /\ k.pc \in {"opening", "merging", "storing"} => k.snap \in {<<r>> : r \in RowType}
    /\ k.pc = "merging" => k.op = "load"
    /\ k.pc = "storing" => k.op \in {"load", "merge"} /\ k.key \in {"user", "zeros"}
    /\ k.op = "merge" => k.tok # NoToken

TypedRequests(u) == {<<>>} \cup {<<w>> : w \in [kind : {"link", "save"}, tok : u, snap : RowType]}

SettingsTypes ==
    /\ row \in RowType /\ cache \in Copies /\ buffers \in Nat
    /\ session \in 0..buffers /\ moved \in 0..SettingsMoves
    /\ linked \subseteq used /\ used \subseteq Tokens
    /\ job \in [Loads -> TypedJobs(buffers, used)] /\ \A j \in Loads : WorksFromRow(job[j])
    /\ web \in TypedRequests(used)

\* A job at rest is of every type.
LEMMA IdleTyped == \A u : \A b \in Nat : IdleJob \in TypedJobs(b, u) /\ WorksFromRow(IdleJob)
  BY DEF IdleJob, TypedJobs, WorksFromRow, Copies

\* More buffers and more tokens leave the types alone.
LEMMA TypesGrow ==
    ASSUME NEW b \in Nat, NEW c \in Nat, b <= c, NEW u, NEW v, u \subseteq v
    PROVE  TypedJobs(b, u) \subseteq TypedJobs(c, v) /\ TypedRequests(u) \subseteq TypedRequests(v)
  <1>1. 0..b \subseteq 0..c /\ u \cup {NoToken} \subseteq v \cup {NoToken}
    OBVIOUS
  <1>2. TypedJobs(b, u) \subseteq TypedJobs(c, v)
    BY <1>1 DEF TypedJobs
  <1>3. TypedRequests(u) \subseteq TypedRequests(v)
    BY DEF TypedRequests
  <1> QED BY <1>2, <1>3

\* The types hold before anything is read.
LEMMA SettingsTypedAtStart == SettingsInit => SettingsTypes
  <1> SUFFICES ASSUME SettingsInit PROVE SettingsTypes
    OBVIOUS
  <1>1. row \in RowType
    BY DEF SettingsInit, Row, RowType
  <1>2. job \in [Loads -> TypedJobs(buffers, used)] /\ \A j \in Loads : WorksFromRow(job[j])
    BY IdleTyped DEF SettingsInit
  <1> QED BY <1>1, <1>2, SealedConstants DEF SettingsInit, SettingsTypes, Copies, TypedRequests

\* A job moves on.
LEMMA TypedJobMoves ==
    ASSUME SettingsTypes, NEW j \in Loads, NEW k \in TypedJobs(buffers', used'), WorksFromRow(k),
           job' = [job EXCEPT ![j] = k], row' = row \/ row' \in RowType, cache' \in Copies, buffers' \in Nat,
           buffers <= buffers', session' \in 0..buffers', moved' \in 0..SettingsMoves,
           used \subseteq used', used' \subseteq Tokens, linked' \subseteq used', web' = web
    PROVE  SettingsTypes'
  <1>1. TypedJobs(buffers, used) \subseteq TypedJobs(buffers', used') /\ TypedRequests(used) \subseteq TypedRequests(used')
    BY TypesGrow DEF SettingsTypes
  <1>2. job' \in [Loads -> TypedJobs(buffers', used')] /\ \A l \in Loads : WorksFromRow(job'[l])
    BY <1>1 DEF SettingsTypes
  <1>3. web' \in TypedRequests(used')
    BY <1>1 DEF SettingsTypes
  <1> QED BY <1>2, <1>3 DEF SettingsTypes

\* Nothing but one job moves.
LEMMA TypedJobGoesOn ==
    ASSUME SettingsTypes, NEW j \in Loads, NEW k \in TypedJobs(buffers, used), WorksFromRow(k),
           job' = [job EXCEPT ![j] = k], cache' \in Copies, session' \in {0, session}, moved' \in 0..SettingsMoves,
           UNCHANGED <<row, buffers, web, used, linked>>
    PROVE  SettingsTypes'
  <1>1. /\ k \in TypedJobs(buffers', used') /\ buffers' \in Nat /\ buffers <= buffers' /\ session' \in 0..buffers'
        /\ used \subseteq used' /\ used' \subseteq Tokens /\ linked' \subseteq used'
    BY DEF SettingsTypes
  <1> QED BY <1>1, TypedJobMoves

\* What writeSealed() writes is a row of issued tokens.
LEMMA WrittenTyped ==
    ASSUME SettingsTypes, NEW j \in Loads, job[j].pc = "storing", Written(j)
    PROVE  row' \in RowType /\ linked' \subseteq used
  <1>1. /\ job[j] \in TypedJobs(buffers, used) /\ WorksFromRow(job[j])
        /\ row \in RowType /\ used \subseteq Tokens /\ linked \subseteq used
    BY DEF SettingsTypes
  <1>2. PICK r \in RowType : job[j].snap = <<r>>
    BY <1>1 DEF WorksFromRow
  <1>3. Held(j) = r /\ job[j].key \in {"user", "zeros"} /\ job[j].op \in {"load", "merge"}
    BY <1>1, <1>2 DEF Held, WorksFromRow
  <1>4. job[j].op = "merge" => job[j].tok \in used
    BY <1>1 DEF TypedJobs, WorksFromRow
  <1>5. r.secrets \subseteq Tokens /\ r.inbox \subseteq Tokens /\ row.inbox \subseteq Tokens /\ row.ver + 1 \in Nat
    BY <1>1 DEF RowType
  <1>6. MergedSecrets(j) \subseteq Tokens /\ InboxLeft(j) \subseteq Tokens
    BY <1>1, <1>3, <1>4, <1>5 DEF MergedSecrets, InboxLeft
  <1>7. row' \in RowType
    BY <1>3, <1>5, <1>6 DEF Written, Row, RowType
  <1> QED BY <1>1, <1>4, <1>7 DEF Written

\* Moves are bounded.
LEMMA MoveTyped == SettingsTypes /\ (Move \/ UNCHANGED moved) => moved' \in 0..SettingsMoves
  BY SealedConstants DEF Move, SettingsTypes

\* No step of a job, the web, a lock or a restart leaves the types.
LEMMA SettingsTypesKept == SettingsTypes /\ [SettingsNext]_settingsVars => SettingsTypes'
  <1> SUFFICES ASSUME SettingsTypes, [SettingsNext]_settingsVars PROVE SettingsTypes'
    OBVIOUS
  <1>0. /\ row \in RowType /\ cache \in Copies /\ <<>> \in Copies /\ <<row>> \in Copies /\ <<Unreadable>> \in Copies
        /\ buffers \in Nat /\ session \in 0..buffers /\ moved \in 0..SettingsMoves
        /\ linked \subseteq used /\ used \subseteq Tokens /\ NoToken \notin Tokens
        /\ \A j \in Loads : job[j] \in TypedJobs(buffers, used) /\ WorksFromRow(job[j])
        /\ IdleJob \in TypedJobs(buffers, used) /\ WorksFromRow(IdleJob)
    BY IdleTyped, SealedConstants DEF SettingsTypes, Copies
  <1>1. ASSUME NEW j \in Loads, Done(j), cache' \in {<<>>, cache}, session' \in {0, session}, Move \/ UNCHANGED moved,
               UNCHANGED <<row, buffers, web, used, linked>>
        PROVE  SettingsTypes'
    BY <1>0, <1>1, MoveTyped, TypedJobGoesOn DEF Done
  <1>2. ASSUME NEW j \in Loads, StartLoad(j) PROVE SettingsTypes'
    <2> DEFINE k == [IdleJob EXCEPT !.op = "load", !.snap = cache,
                                    !.pc = IF cache = <<>> THEN "fetching" ELSE "looking"]
    <2>1. k \in TypedJobs(buffers, used) /\ WorksFromRow(k)
      BY <1>0 DEF IdleJob, TypedJobs, WorksFromRow
    <2>2. /\ job' = [job EXCEPT ![j] = k]
          /\ UNCHANGED <<row, cache, session, buffers, web, used, linked, moved>>
      BY <1>2 DEF StartLoad
    <2> HIDE DEF k
    <2> QED BY <1>0, <2>1, <2>2, TypedJobGoesOn
  <1>3. ASSUME NEW j \in Loads, NEW t \in Tokens, StartMerge(j, t) PROVE SettingsTypes'
    <2> DEFINE k == [IdleJob EXCEPT !.op = "merge", !.pc = "fetching", !.buf = session, !.tok = t]
    <2>1. k \in TypedJobs(buffers, used \cup {t}) /\ WorksFromRow(k)
      BY <1>0 DEF IdleJob, TypedJobs, WorksFromRow
    <2>2. /\ job' = [job EXCEPT ![j] = k] /\ used' = used \cup {t} /\ cache' = <<>>
          /\ UNCHANGED <<row, session, buffers, web, linked>> /\ Move
      BY <1>3 DEF StartMerge
    <2>3. moved' \in 0..SettingsMoves
      BY <2>2, MoveTyped
    <2> HIDE DEF k
    <2>4. /\ k \in TypedJobs(buffers', used') /\ buffers' \in Nat /\ buffers <= buffers' /\ session' \in 0..buffers'
          /\ used \subseteq used' /\ used' \subseteq Tokens /\ linked' \subseteq used' /\ cache' \in Copies
      BY <1>0, <2>1, <2>2
    <2> QED BY <2>1, <2>2, <2>3, <2>4, TypedJobMoves
  <1>4. ASSUME NEW j \in Loads, StartUnlock(j) PROVE SettingsTypes'
    <2> DEFINE k == [IdleJob EXCEPT !.op = "unlock", !.pc = "fetching"]
    <2>1. k \in TypedJobs(buffers, used) /\ WorksFromRow(k)
      BY <1>0 DEF IdleJob, TypedJobs, WorksFromRow
    <2>2. /\ job' = [job EXCEPT ![j] = k] /\ cache' = <<>>
          /\ UNCHANGED <<row, session, buffers, web, used, linked>> /\ Move
      BY <1>4 DEF StartUnlock
    <2> HIDE DEF k
    <2> QED BY <1>0, <2>1, <2>2, MoveTyped, TypedJobGoesOn
  <1>5. ASSUME NEW j \in Loads, FetchAnswers(j) PROVE SettingsTypes'
    <2>1. /\ UNCHANGED <<row, cache, session, buffers, web, used, linked>> /\ (Move \/ UNCHANGED moved)
          /\ \E r \in {row, Unreadable} : job' = [job EXCEPT ![j] = [job[j] EXCEPT !.pc = "fetched", !.snap = <<r>>]]
      BY <1>5 DEF FetchAnswers, SettingsTypes
    <2>2. PICK r \in {row, Unreadable} : job' = [job EXCEPT ![j] = [job[j] EXCEPT !.pc = "fetched", !.snap = <<r>>]]
      BY <2>1
    <2> DEFINE k == [job[j] EXCEPT !.pc = "fetched", !.snap = <<r>>]
    <2>3. k \in TypedJobs(buffers, used) /\ WorksFromRow(k)
      BY <1>0 DEF TypedJobs, WorksFromRow
    <2> HIDE DEF k
    <2> QED BY <1>0, <2>1, <2>2, <2>3, MoveTyped, TypedJobGoesOn DEF k
  <1>6. ASSUME NEW j \in Loads, FetchReturns(j) PROVE SettingsTypes'
    <2>1. /\ UNCHANGED <<row, session, buffers, web, used, linked, moved>>
          /\ cache' = job[j].snap /\ cache' \in Copies /\ job[j].pc = "fetched"
      BY <1>0, <1>6 DEF FetchReturns, TypedJobs
    <2>2. CASE Done(j)
      <3>1. job' = [job EXCEPT ![j] = IdleJob] /\ session' \in {0, session}
        BY <2>1, <2>2 DEF Done
      <3> QED BY <1>0, <2>1, <3>1, TypedJobGoesOn
    <2>3. CASE GoOn(j, "looking")
      <3> DEFINE k == [job[j] EXCEPT !.pc = "looking"]
      <3>1. k \in TypedJobs(buffers, used) /\ WorksFromRow(k) /\ job' = [job EXCEPT ![j] = k]
        BY <1>0, <2>1, <2>3 DEF GoOn, TypedJobs, WorksFromRow, SettingsTypes
      <3> HIDE DEF k
      <3> QED BY <1>0, <2>1, <3>1, TypedJobGoesOn
    <2> QED BY <1>6, <2>2, <2>3 DEF FetchReturns
  <1>7. ASSUME NEW j \in Loads, Look(j) PROVE SettingsTypes'
    <2>1. UNCHANGED <<row, cache, session, buffers, web, used, linked, moved>> /\ job[j].pc = "looking"
      BY <1>7 DEF Look
    <2>2. CASE Done(j)
      BY <1>1, <2>1, <2>2
    <2>3. CASE MayOpen(j)
      <3> DEFINE k == [job[j] EXCEPT !.pc = "opening", !.buf = Buffer(j), !.key = KeyIn(Buffer(j))]
      <3>1. Buffer(j) \in 0..buffers /\ KeyIn(Buffer(j)) \in {"user", "zeros", "none"}
        BY <1>0 DEF Buffer, KeyIn, TypedJobs
      <3>2. job[j].snap \in {<<r>> : r \in RowType}
        <4>1. job[j].snap \in Copies /\ job[j].snap # <<>> /\ Held(j) # Unreadable
          BY <1>0, <2>1, <2>3 DEF MayOpen, SealPresent, Readable, TypedJobs, WorksFromRow
        <4> QED BY <4>1 DEF Held, Copies
      <3>3. k \in TypedJobs(buffers, used) /\ WorksFromRow(k)
        BY <1>0, <2>1, <3>1, <3>2 DEF TypedJobs, WorksFromRow
      <3>4. job' = [job EXCEPT ![j] = k]
        BY <1>7, <2>3 DEF Look
      <3> HIDE DEF k
      <3> QED BY <1>0, <2>1, <3>3, <3>4, TypedJobGoesOn
    <2> QED BY <1>7, <2>2, <2>3 DEF Look
  <1>8. ASSUME NEW j \in Loads, Unlock(j) PROVE SettingsTypes'
    <2>1. /\ job' = [job EXCEPT ![j] = IdleJob] /\ buffers' = buffers + 1 /\ session' = buffers + 1 /\ cache' = <<>>
          /\ UNCHANGED <<row, web, used, linked, moved>>
      BY <1>8 DEF Unlock, Done
    <2>2. IdleJob \in TypedJobs(buffers', used') /\ buffers' \in Nat /\ buffers <= buffers' /\ session' \in 0..buffers'
      BY <1>0, <2>1, IdleTyped
    <2> QED BY <1>0, <2>1, <2>2, TypedJobMoves
  <1>9. ASSUME NEW j \in Loads, LoadLocks(j) \/ MergeThrows(j) PROVE SettingsTypes'
    BY <1>1, <1>9 DEF LoadLocks, MergeThrows
  <1>10. ASSUME NEW j \in Loads, LoadOpened(j) PROVE SettingsTypes'
    <2>1. UNCHANGED <<row, cache, session, buffers, web, used, linked, moved>> /\ job[j].pc = "opening" /\ job[j].op = "load"
      BY <1>10 DEF LoadOpened
    <2>2. CASE Done(j)
      BY <1>1, <2>1, <2>2
    <2>3. CASE GoOn(j, "merging")
      <3> DEFINE k == [job[j] EXCEPT !.pc = "merging"]
      <3>1. k \in TypedJobs(buffers, used) /\ WorksFromRow(k) /\ job' = [job EXCEPT ![j] = k]
        BY <1>0, <2>1, <2>3 DEF GoOn, TypedJobs, WorksFromRow, SettingsTypes
      <3> HIDE DEF k
      <3> QED BY <1>0, <2>1, <3>1, TypedJobGoesOn
    <2> QED BY <1>10, <2>2, <2>3 DEF LoadOpened
  <1>11. ASSUME NEW j \in Loads, Seal(j) PROVE SettingsTypes'
    <2> DEFINE k == [job[j] EXCEPT !.pc = "storing", !.key = KeyIn(job[j].buf)]
    <2>1. /\ KeyIn(job[j].buf) \in {"user", "zeros"} /\ job[j].pc \in {"merging", "opening"}
          /\ job[j].pc = "opening" => job[j].op = "merge"
          /\ UNCHANGED <<row, cache, session, buffers, web, used, linked, moved>>
      BY <1>11 DEF KeyIn, Seal
    <2>2. k \in TypedJobs(buffers, used) /\ WorksFromRow(k)
      BY <1>0, <2>1 DEF TypedJobs, WorksFromRow
    <2>3. job' = [job EXCEPT ![j] = k]
      BY <1>11 DEF Seal, SettingsTypes
    <2> HIDE DEF k
    <2> QED BY <1>0, <2>1, <2>2, <2>3, TypedJobGoesOn
  <1>12. ASSUME NEW j \in Loads, job[j].pc = "storing", Written(j), NEW k \in TypedJobs(buffers, used), WorksFromRow(k),
                job' = [job EXCEPT ![j] = k], cache' \in {<<>>, cache}, UNCHANGED <<session, buffers, web, used>>,
                Move \/ UNCHANGED moved
         PROVE  SettingsTypes'
    <2>1. /\ row' \in RowType /\ linked' \subseteq used' /\ k \in TypedJobs(buffers', used') /\ cache' \in Copies
          /\ buffers' \in Nat /\ buffers <= buffers' /\ session' \in 0..buffers' /\ used \subseteq used' /\ used' \subseteq Tokens
      BY <1>0, <1>12, WrittenTyped
    <2>2. moved' \in 0..SettingsMoves
      BY <1>12, MoveTyped
    <2> QED BY <1>12, <2>1, <2>2, TypedJobMoves
  <1>13. ASSUME NEW j \in Loads, Store(j) PROVE SettingsTypes'
    <2> DEFINE again == [IdleJob EXCEPT !.op = "reread", !.pc = "fetching"]
    <2>1. again \in TypedJobs(buffers, used) /\ WorksFromRow(again)
      BY <1>0 DEF IdleJob, TypedJobs, WorksFromRow
    <2>2. /\ job[j].pc = "storing" /\ Written(j) /\ cache' = <<>> /\ UNCHANGED <<session, buffers, web, used, moved>>
          /\ job' = [job EXCEPT ![j] = again] \/ job' = [job EXCEPT ![j] = IdleJob]
      BY <1>13 DEF Store, Done
    <2> HIDE DEF again
    <2> QED BY <1>0, <1>12, <2>1, <2>2
  <1>14. ASSUME NEW j \in Loads, StoreFails(j) PROVE SettingsTypes'
    <2>1. job[j].pc = "storing" /\ Move /\ Done(j) /\ UNCHANGED <<cache, session, buffers, web, used>>
          /\ (Written(j) \/ UNCHANGED <<row, linked>>)
      BY <1>14 DEF StoreFails
    <2>2. CASE Written(j)
      BY <1>0, <1>12, <2>1, <2>2 DEF Done
    <2>3. CASE UNCHANGED <<row, linked>>
      BY <1>1, <2>1, <2>3
    <2> QED BY <2>1, <2>2, <2>3
  <1>15. ASSUME NEW t \in Tokens, NEW kind \in {"link", "save"}, WebReads(t, kind) PROVE SettingsTypes'
    <2>1. /\ web' = <<[kind |-> kind, tok |-> t, snap |-> row]>> /\ used' = used \cup {t}
          /\ UNCHANGED <<row, cache, session, buffers, job, linked>> /\ Move
      BY <1>15 DEF WebReads
    <2>2. web' \in TypedRequests(used') /\ used' \subseteq Tokens /\ linked' \subseteq used'
      BY <1>0, <2>1 DEF TypedRequests
    <2>3. TypedJobs(buffers, used) \subseteq TypedJobs(buffers', used')
      <3>1. buffers <= buffers /\ used \subseteq used' /\ buffers' = buffers
        BY <1>0, <2>1
      <3>2. TypedJobs(buffers, used) \subseteq TypedJobs(buffers, used')
        BY <1>0, <3>1, TypesGrow
      <3> QED BY <3>1, <3>2
    <2>4. moved' \in 0..SettingsMoves
      BY <2>1, MoveTyped
    <2> QED BY <1>0, <2>1, <2>2, <2>3, <2>4 DEF SettingsTypes
  <1>16. CASE WebWrites
    <2>1. PICK w \in [kind : {"link", "save"}, tok : used, snap : RowType] : web = <<w>>
      BY <1>16 DEF WebWrites, SettingsTypes, TypedRequests
    <2>2. /\ row' = IF w.kind = "link"
                    THEN [row EXCEPT !.ver = @ + 1, !.inbox = w.snap.inbox \union {w.tok}]
                    ELSE Row(row.ver + 1, "user", w.snap.secrets \union {w.tok}, w.snap.inbox)
          /\ linked' = linked \union {w.tok} /\ web' = <<>> /\ UNCHANGED <<cache, session, buffers, job, used, moved>>
      BY <1>16, <2>1 DEF WebWrites
    <2>3. w.snap.inbox \subseteq Tokens /\ w.snap.secrets \subseteq Tokens /\ w.tok \in used /\ w.tok \in Tokens /\ row.ver + 1 \in Nat
      BY <1>0, <2>1 DEF RowType
    <2>4. row' \in RowType
      <3>1. CASE w.kind = "link"
        <4>1. row' = [row EXCEPT !.ver = @ + 1, !.inbox = w.snap.inbox \union {w.tok}]
          BY <2>2, <3>1
        <4>2. (w.snap.inbox \union {w.tok}) \in SUBSET Tokens
          BY <2>3
        <4> QED BY <1>0, <2>3, <4>1, <4>2 DEF RowType
      <3>2. CASE w.kind # "link"
        BY <1>0, <2>2, <2>3, <3>2 DEF Row, RowType
      <3> QED BY <3>1, <3>2
    <2> QED BY <1>0, <2>2, <2>3, <2>4 DEF SettingsTypes, TypedRequests
  <1>17. ASSUME Lock \/ SessionExpires \/ CacheExpires \/ DaemonRestarts \/ UNCHANGED settingsVars PROVE SettingsTypes'
    <2>1. /\ UNCHANGED <<row, buffers, web, used, linked>> /\ cache' \in {<<>>, cache} /\ session' \in {0, session}
          /\ (Move \/ UNCHANGED moved) /\ job' \in {job, [j \in Loads |-> IdleJob]}
      BY <1>17 DEF Lock, SessionExpires, CacheExpires, DaemonRestarts, settingsVars
    <2>2. moved' \in 0..SettingsMoves /\ cache' \in Copies /\ session' \in 0..buffers
      BY <1>0, <2>1, MoveTyped
    <2>3. job' \in [Loads -> TypedJobs(buffers, used)] /\ \A j \in Loads : WorksFromRow(job'[j])
      BY <1>0, <2>1 DEF SettingsTypes
    <2> QED BY <2>1, <2>2, <2>3 DEF SettingsTypes
  <1> QED
    BY <1>2, <1>3, <1>4, <1>5, <1>6, <1>7, <1>8, <1>9, <1>10, <1>11, <1>13, <1>14, <1>15, <1>16, <1>17
       DEF SettingsNext, JobStep

\* What a writer overwrote had been in a column.
LEMMA OutrunTyped ==
    SettingsTypes /\ outrun \subseteq Tokens /\ [SettingsNext]_settingsVars => outrun' \subseteq Tokens
  <1> SUFFICES ASSUME SettingsTypes, outrun \subseteq Tokens, [SettingsNext]_settingsVars
               PROVE  outrun' \subseteq Tokens
    OBVIOUS
  <1>1. row.secrets \subseteq Tokens /\ row.inbox \subseteq Tokens
    BY DEF SettingsTypes, RowType
  <1>2. ASSUME NEW secrets, NEW inbox, Overwrites(secrets, inbox) PROVE outrun' \subseteq Tokens
    BY <1>1, <1>2 DEF Overwrites
  <1>3. ASSUME NEW j \in Loads, Written(j) PROVE outrun' \subseteq Tokens
    BY <1>2, <1>3 DEF Written
  <1>4. ASSUME NEW j \in Loads, JobStep(j) PROVE outrun' \subseteq Tokens
    <2>1. CASE FetchAnswers(j) \/ FetchReturns(j) \/ Look(j) \/ Unlock(j)
      BY <2>1 DEF FetchAnswers, FetchReturns, Look, Unlock
    <2>2. CASE LoadLocks(j) \/ LoadOpened(j) \/ Seal(j) \/ MergeThrows(j)
      BY <2>2 DEF LoadLocks, LoadOpened, Seal, MergeThrows
    <2>3. CASE Store(j) \/ StoreFails(j)
      BY <1>3, <2>3 DEF Store, StoreFails
    <2> QED BY <1>4, <2>1, <2>2, <2>3 DEF JobStep
  <1>5. CASE WebWrites
    BY <1>2, <1>5 DEF WebWrites
  <1>6. CASE UNCHANGED outrun
    BY <1>6
  <1> QED
    BY <1>4, <1>5, <1>6 DEF SettingsNext, StartLoad, StartUnlock, StartMerge, WebReads, Lock,
       SessionExpires, CacheExpires, DaemonRestarts, settingsVars

\* They are what the model declares.
LEMMA SettingsTypesAre == SettingsTypes /\ outrun \subseteq Tokens => SettingsTypeOK
  <1> SUFFICES ASSUME SettingsTypes, outrun \subseteq Tokens PROVE SettingsTypeOK
    OBVIOUS
  <1>1. cache = <<>> \/ cache = <<Unreadable>> \/ cache[1] \in RowType
    BY DEF SettingsTypes, Copies
  <1>2. ASSUME NEW j \in Loads
        PROVE  /\ job[j].op \in {"none", "load", "reread", "merge", "unlock"} /\ job[j].buf \in 0..buffers
               /\ job[j].pc \in {"opening", "merging", "storing"} => Held(j) \in RowType
    <2>1. job[j] \in TypedJobs(buffers, used) /\ WorksFromRow(job[j])
      BY DEF SettingsTypes
    <2> QED BY <2>1 DEF TypedJobs, WorksFromRow, Held
  <1>3. /\ row \in RowType /\ session \in 0..buffers /\ moved \in 0..SettingsMoves
        /\ linked \subseteq used /\ used \subseteq Tokens
    BY DEF SettingsTypes
  <1> QED BY <1>1, <1>2, <1>3 DEF SettingsTypeOK

\* The stream's types hold with nothing watched.
LEMMA StreamTypedAtStart == StreamInit => StreamTypeOK
  <1> SUFFICES ASSUME StreamInit PROVE StreamTypeOK
    OBVIOUS
  <1>1. 0 \in 0..MaxRefs /\ StaleAge \in 0..StaleAge
    BY StreamConstants
  <1>2. refs \in [StreamPairs -> 0..MaxRefs] /\ priced \in [StreamPairs -> 0..StaleAge]
    BY <1>1 DEF StreamInit
  <1> QED BY <1>2, StreamConstants DEF StreamInit, StreamTypeOK

\* Asking for pairs keeps the sets of pairs what they are.
LEMMA AskedTyped ==
    ASSUME StreamTypeOK, NEW pairs \in SUBSET StreamPairs, NEW asked \in SUBSET StreamPairs, SubscribePairs(pairs, asked)
    PROVE  subscribed' \cup streamed' \cup dead' \subseteq StreamPairs
  BY DEF SubscribePairs, Unlisted, StreamTypeOK

\* No step of the socket, its watchers or the exchange leaves the types.
LEMMA StreamTypesKept == StreamTypeOK /\ [StreamNext]_streamVars => StreamTypeOK'
  <1> SUFFICES ASSUME StreamTypeOK, [StreamNext]_streamVars PROVE StreamTypeOK'
    OBVIOUS
  <1>0. /\ feed \in Feeds /\ found \subseteq StreamPairs /\ refs \in [StreamPairs -> 0..MaxRefs]
        /\ subscribed \subseteq StreamPairs /\ streamed \subseteq StreamPairs /\ wire \subseteq StreamPairs
        /\ dead \subseteq StreamPairs /\ priced \in [StreamPairs -> 0..StaleAge] /\ fetching \in BOOLEAN
        /\ silence \in 0..(StallAge + 1) \cup {Never} /\ StallAge \in Nat /\ StaleAge \in Nat /\ MaxRefs \in Nat
        /\ Watched \subseteq StreamPairs
    BY StreamConstants DEF StreamTypeOK, Watched
  <1>1. CASE getActivePairs
    BY <1>1 DEF getActivePairs, StreamTypeOK, socketVars, geminiVars
  <1>2. ASSUME NEW pairs \in SUBSET StreamPairs, retain(pairs) PROVE StreamTypeOK'
    <2>1. /\ refs' = [p \in StreamPairs |-> IF p \in pairs THEN refs[p] + 1 ELSE refs[p]]
          /\ \A p \in pairs : refs[p] < MaxRefs
          /\ UNCHANGED <<feed, found, priced>>
      BY <1>2 DEF retain
    <2>2. refs' \in [StreamPairs -> 0..MaxRefs]
      <3>1. ASSUME NEW p \in StreamPairs PROVE refs'[p] \in 0..MaxRefs
        <4>1. PICK n \in 0..MaxRefs : n = refs[p]
          BY <1>0
        <4>2. CASE p \in pairs
          <5>1. n < MaxRefs /\ refs'[p] = n + 1
            BY <2>1, <4>1, <4>2
          <5> QED BY <1>0, <5>1
        <4>3. CASE p \notin pairs
          BY <2>1, <4>1, <4>3
        <4> QED BY <4>2, <4>3
      <3> QED BY <2>1, <3>1
    <2>3. CASE UNCHANGED <<socketVars, geminiVars, feedFaults>>
      BY <2>1, <2>2, <2>3 DEF StreamTypeOK, socketVars, geminiVars
    <2>4. CASE /\ SubscribePairs(applyRetainCounts(pairs), subscribed)
               /\ UNCHANGED <<socket, wire, silence, reconnectScheduled, frozen, listed, fetching>>
      <3>1. applyRetainCounts(pairs) \in SUBSET StreamPairs
        BY DEF applyRetainCounts
      <3>2. subscribed' \cup streamed' \cup dead' \subseteq StreamPairs
        BY <1>0, <2>4, <3>1, AskedTyped
      <3> QED BY <2>1, <2>2, <2>4, <3>2 DEF StreamTypeOK
    <2>5. CASE Connect /\ UNCHANGED <<subscribed, streamed, wire, silence, reconnectScheduled, frozen, listed, dead, feedFaults>>
      <3>1. socket' \in {"none", "connecting", "open", "closing"} /\ fetching' \in BOOLEAN
        BY <2>5 DEF Connect, StreamTypeOK
      <3> QED BY <2>1, <2>2, <2>5, <3>1 DEF StreamTypeOK
    <2> QED BY <1>2, <2>3, <2>4, <2>5 DEF retain
  <1>3. CASE startWsBootstrap \/ refreshPairs
    BY <1>0, <1>2, <1>3, StreamConstants DEF startWsBootstrap, refreshPairs
  <1>4. CASE ViewerLeaves
    <2>1. PICK pairs \in SUBSET StreamPairs : release(pairs)
      BY <1>4 DEF ViewerLeaves
    <2>2. /\ refs' = [p \in StreamPairs |-> IF p \in pairs THEN refs[p] - 1 ELSE refs[p]]
          /\ pairs \subseteq Watched
          /\ priced' = [p \in StreamPairs |-> IF p \in applyReleaseCounts(pairs) THEN StaleAge ELSE priced[p]]
          /\ subscribed' \subseteq subscribed /\ streamed' \subseteq streamed
          /\ UNCHANGED <<feed, found, socket, wire, silence, reconnectScheduled, frozen, listed, dead, fetching>>
      BY <2>1 DEF release, prunePairCache, geminiVars
    <2>3. refs' \in [StreamPairs -> 0..MaxRefs]
      <3>1. ASSUME NEW p \in StreamPairs PROVE refs'[p] \in 0..MaxRefs
        <4>1. PICK n \in 0..MaxRefs : n = refs[p]
          BY <1>0
        <4>2. CASE p \in pairs
          <5>1. n > 0 /\ refs'[p] = n - 1
            BY <2>2, <4>1, <4>2 DEF Watched
          <5> QED BY <1>0, <5>1
        <4>3. CASE p \notin pairs
          BY <2>2, <4>1, <4>3
        <4> QED BY <4>2, <4>3
      <3> QED BY <2>2, <3>1
    <2>4. priced' \in [StreamPairs -> 0..StaleAge]
      BY <1>0, <2>2
    <2> QED BY <1>0, <2>2, <2>3, <2>4 DEF StreamTypeOK
  <1>5. CASE Open
    <2>1. SubscribePairs(Watched, {}) /\ socket' = "open" /\ silence' = 0
          /\ UNCHANGED <<feed, found, refs, wire, priced, reconnectScheduled, listed, fetching, frozen>>
      BY <1>5 DEF Open
    <2>2. subscribed' \cup streamed' \cup dead' \subseteq StreamPairs
      BY <1>0, <2>1, AskedTyped
    <2> QED BY <1>0, <2>1, <2>2 DEF StreamTypeOK
  <1>6. CASE SocketCloses \/ ConnectionLost
    BY <1>6 DEF SocketCloses, ConnectionLost, Closed, ReconnectDue, StreamTypeOK, geminiVars
  <1>7. CASE scheduleReconnect
    <2>1. socket' \in {"none", "connecting", "open", "closing"} /\ fetching' \in BOOLEAN
      BY <1>7 DEF scheduleReconnect, Connect, StreamTypeOK
    <2> QED BY <1>7, <2>1 DEF scheduleReconnect, StreamTypeOK
  <1>8. CASE Watchdog \/ Freeze
    BY <1>8 DEF Watchdog, Freeze, StreamTypeOK, geminiVars
  <1>9. CASE Heartbeat
    BY <1>0, <1>9 DEF Heartbeat, StreamTypeOK, geminiVars
  <1>10. ASSUME NEW p \in StreamPairs, Quoted(p) PROVE StreamTypeOK'
    BY <1>10 DEF Quoted, StreamTypeOK, geminiVars
  <1>11. ASSUME NEW p \in StreamPairs, Receive(p) PROVE StreamTypeOK'
    <2>1. priced' \in [StreamPairs -> 0..StaleAge]
      BY <1>0, <1>11 DEF Receive, setPrice
    <2>2. wire' \subseteq wire /\ silence' = 0
          /\ UNCHANGED <<feed, found, refs, socket, subscribed, streamed, reconnectScheduled, frozen, listed, dead, fetching>>
      BY <1>11 DEF Receive, geminiVars
    <2> QED BY <1>0, <2>1, <2>2 DEF StreamTypeOK
  <1>12. CASE refreshGeminiSymbols
    BY <1>12 DEF refreshGeminiSymbols, StreamTypeOK, socketVars
  <1>13. CASE Ages
    <2>1. /\ priced' = [p \in StreamPairs |-> Min({priced[p] + 1, StaleAge})]
          /\ silence' = IF silence = Never THEN Never ELSE Min({silence + 1, StallAge + 1})
          /\ UNCHANGED <<feed, found, refs, socket, subscribed, streamed, wire, reconnectScheduled, frozen, listed, dead, fetching>>
      BY <1>13 DEF Ages, geminiVars
    <2>2. priced' \in [StreamPairs -> 0..StaleAge]
      <3>1. ASSUME NEW p \in StreamPairs PROVE priced'[p] \in 0..StaleAge
        <4>1. PICK n \in 0..StaleAge : n = priced[p]
          BY <1>0
        <4>2. Min({n + 1, StaleAge}) = IF n + 1 <= StaleAge THEN n + 1 ELSE StaleAge
          BY <1>0, SmallerOfTwo
        <4>3. priced'[p] = Min({n + 1, StaleAge})
          BY <2>1, <4>1
        <4> QED BY <1>0, <4>2, <4>3
      <3> QED BY <2>1, <3>1
    <2>3. silence' \in 0..(StallAge + 1) \cup {Never}
      <3>1. CASE silence # Never
        <4>1. PICK n \in 0..(StallAge + 1) : n = silence
          BY <1>0, <3>1
        <4>2. Min({n + 1, StallAge + 1}) = IF n + 1 <= StallAge + 1 THEN n + 1 ELSE StallAge + 1
          BY <1>0, SmallerOfTwo
        <4>3. silence' = Min({n + 1, StallAge + 1})
          BY <2>1, <3>1, <4>1
        <4> QED BY <1>0, <4>2, <4>3
      <3> QED BY <2>1, <3>1
    <2> QED BY <2>1, <2>2, <2>3 DEF StreamTypeOK
  <1>14. CASE UNCHANGED streamVars
    BY <1>14 DEF streamVars, socketVars, geminiVars, StreamTypeOK
  <1> QED
    BY <1>1, <1>3, <1>4, <1>5, <1>6, <1>7, <1>8, <1>9, <1>10, <1>11, <1>12, <1>13, <1>14 DEF StreamNext

\* Whichever of the three runs, the variables of all keep their types: the types of a daemon's
\* deployment and leases, of one user's row, copies and jobs, and of an exchange's connection.
THEOREM DaemonTypes == MCSpec => []MCTypeOK
  <1> DEFINE I == DaemonInv /\ SettingsTypes /\ outrun \subseteq Tokens /\ StreamTypeOK
             mcVars == <<focus, vars, settingsVars, streamVars>>
  <1>1. MCInit => I
    BY InitDaemonInv, SettingsTypedAtStart, StreamTypedAtStart DEF MCInit, SettingsInit
  <1>2. I /\ [MCNext]_mcVars => I'
    <2> SUFFICES ASSUME I, [MCNext]_mcVars PROVE I'
      OBVIOUS
    <2>1. [Next]_vars /\ [SettingsNext]_settingsVars /\ [StreamNext]_streamVars
      BY DEF MCNext
    <2> QED BY <2>1, DaemonInvStep, SettingsTypesKept, OutrunTyped, StreamTypesKept
  <1>3. I => MCTypeOK
    BY SettingsTypesAre DEF DaemonInv, MCTypeOK
  <1> HIDE DEF I
  <1> QED BY <1>1, <1>2, <1>3, PTL DEF MCSpec
=============================================================================
