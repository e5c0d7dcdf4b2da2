---- MODULE TradeDaemonProofs ----
(***************************************************************************)
(* What the trade daemons owe their operator, for any number of rows,      *)
(* daemons and overlapping ticks, either channel, and any faults: a row is *)
(* executed at most once, the breaker opens at its limits and then holds   *)
(* executions back, rows only move forward, and the audit trail says what  *)
(* the executors did.                                                      *)
(*                                                                         *)
(* The argument: a row is in the hands of at most one tick (Ownership), a  *)
(* tick hands each of its rows to an executor at most once (Shape, Fresh), *)
(* and a claimed row never becomes claimable again.                        *)
(***************************************************************************)
EXTENDS TradeDaemon, FiniteSetTheorems, TLAPS

\* Marking rows as claimed changes nothing but the rows it marks.
LEMMA MarkClaimedType ==
    ASSUME row \in [Rows -> RowType], NEW S \in SUBSET Rows, NEW d \in Daemons
    PROVE  /\ MarkClaimed(S, d) \in [Rows -> RowType]
           /\ \A q \in S : /\ MarkClaimed(S, d)[q].status = "claimed"
                           /\ MarkClaimed(S, d)[q].claimedBy = d
           /\ \A q \in Rows \ S : MarkClaimed(S, d)[q] = row[q]
  BY DEF MarkClaimed, RowType, Status

\* The in-memory pass claims S and expires pending rows outside S.
LEMMA ClaimInMemoryType ==
    ASSUME row \in [Rows -> RowType], NEW S \in SUBSET LiveRows, NEW d \in Daemons,
           clock \in Nat
    PROVE  /\ ClaimInMemory(S, d) \in [Rows -> RowType]
           /\ \A q \in S : /\ ClaimInMemory(S, d)[q].status = "claimed"
                           /\ ClaimInMemory(S, d)[q].claimedBy = d
           /\ \A q \in Rows \ S : \/ ClaimInMemory(S, d)[q] = row[q]
                                  \/ /\ row[q].status = "pending"
                                     /\ ClaimInMemory(S, d)[q].status = "expired"
  <1>1. S \subseteq Rows
    BY DEF LiveRows
  <1>2. \A q \in S : q \notin WalkedDead(S)
    BY DEF LiveRows, Live, WalkedDead, RowType
  <1>3. \A q \in WalkedDead(S) : row[q].status = "pending" /\ q \in Rows
    BY DEF WalkedDead, Pending
  <1> QED
    BY <1>1, <1>2, <1>3, MarkClaimedType DEF ClaimInMemory, RowType, Status, Terminal

\* recordExecution() keeps a breaker a breaker.
LEMMA RecordExecutionType ==
    ASSUME NEW cb \in Breaker, NEW filled \in BOOLEAN, NEW pnl \in Int, NEW today \in Nat
    PROVE  RecordExecution(cb, filled, pnl, today) \in Breaker
  <1> DEFINE rolled   == RollDay(cb, today)
             failures == IF filled THEN 0 ELSE rolled.failures + 1
             loss     == IF pnl < 0 THEN rolled.loss - pnl ELSE rolled.loss
             trips    == \/ ~filled /\ failures >= MaxConsecutiveFailures
                         \/ pnl < 0 /\ loss >= MaxDailyLossUsd
             state    == IF trips THEN "open" ELSE rolled.state
  <1>1. rolled \in Breaker
    BY DEF RollDay, Breaker
  <1>2. failures \in Nat /\ loss \in Nat
    BY <1>1 DEF Breaker
  <1>3. state \in {"closed", "open"}
    BY <1>1 DEF Breaker
  <1>4. [rolled EXCEPT !.failures = failures, !.loss = loss, !.state = state] \in Breaker
    <2> HIDE DEF rolled, failures, loss, trips, state
    <2> QED BY <1>1, <1>2, <1>3 DEF Breaker
  <1> QED
    BY <1>4 DEF RecordExecution

\* The day of a time is a number.
LEMMA TodayType == ASSUME clock \in Nat PROVE Today \in Nat
  BY DaemonConstants DEF Today

\* The updates of one tick's locals that the actions make.
LEMMA TickUpdateType ==
    ASSUME NEW k \in TickType, NEW pc \in Phases
    PROVE  /\ [k EXCEPT !.pc = pc] \in TickType
           /\ \A S \in SUBSET Rows : [k EXCEPT !.pc = pc, !.cand = S] \in TickType
           /\ \A final \in Terminal \union {None} :
                 /\ [k EXCEPT !.pc = pc, !.final = final] \in TickType
                 /\ \A q \in Rows :
                       [k EXCEPT !.pc = pc, !.batch = k.batch \ {q}, !.cur = q, !.final = final]
                           \in TickType
  BY DEF TickType

\* The constructor's state satisfies the inductive invariant.
LEMMA InitIInv == Init => IInv
  <1> SUFFICES ASSUME Init PROVE IInv
    OBVIOUS
  <1> USE DEF Init, ChannelInit
  <1>1. TypeOK
    BY TodayType DEF TypeOK, RowType, AbsentRow, Status, TickType, IdleTick, Phases,
                     FreshBreaker, Breaker
  <1>2. Ownership
    BY DEF Ownership, Held, IdleTick
  <1>3. Fresh /\ AtMostOnce
    BY DEF Fresh, IdleTick, AtMostOnce
  <1>4. Shape
    BY DEF Shape, IdleTick
  <1> QED
    BY <1>1, <1>2, <1>3, <1>4 DEF IInv

----------------------------------------------------------------------------
\* Every step keeps the types.
LEMMA StepType == TypeOK /\ Shape /\ [Next]_vars => TypeOK'
  <1> SUFFICES ASSUME TypeOK, Shape, [Next]_vars PROVE TypeOK'
    OBVIOUS
  <1> USE DEF TypeOK
  <1>1. ASSUME NEW q \in Rows, NEW k \in Kinds, NEW ttl \in TTLs, Observe(q, k, ttl)
        PROVE  TypeOK'
    BY <1>1, ChannelConstants DEF Observe, Publish, RowType, Status
  <1>2. CASE Elapse
    BY <1>2 DEF Elapse
  <1>3. ASSUME NEW t \in Ticks, TickStep(t)
        PROVE  TypeOK'
    <2> tick[t] \in TickType
      OBVIOUS
    <2> t[1] \in Daemons
      BY DEF Ticks
    <2> \A S \in SUBSET Rows : WithBatch(S) \in TickType
      BY DEF WithBatch, IdleTick, TickType, Phases
    <2>1. ASSUME NEW S \in SUBSET Rows, ClaimAtOnce(t, S) PROVE TypeOK'
      <3>1. S \in SUBSET LiveRows
        BY <2>1 DEF ClaimAtOnce, OldestBatch
      <3>2. row' \in [Rows -> RowType]
        BY <2>1, <3>1, ClaimInMemoryType DEF ClaimAtOnce
      <3> QED
        BY <2>1, <3>2 DEF ClaimAtOnce
    <2>2. ASSUME NEW S \in SUBSET Rows, SelectCandidates(t, S) PROVE TypeOK'
      <3>1. [tick[t] EXCEPT !.pc = "claiming", !.cand = S] \in TickType
        BY TickUpdateType DEF Phases
      <3> QED
        BY <2>2, <3>1 DEF SelectCandidates
    <2>3. ASSUME NEW S \in SUBSET Rows, ClaimThrows(t, S) PROVE TypeOK'
      <3>1. row' \in [Rows -> RowType]
        BY <2>3, MarkClaimedType DEF ClaimThrows
      <3> QED
        BY <2>3, <3>1 DEF ClaimThrows, IdleTick, TickType, Phases
    <2>4. CASE ClaimCandidates(t)
      <3>1. StillPending(tick[t].cand) \in SUBSET Rows
        BY DEF StillPending, TickType
      <3>2. row' \in [Rows -> RowType]
        BY <2>4, <3>1, MarkClaimedType DEF ClaimCandidates
      <3> QED
        BY <2>4, <3>1, <3>2 DEF ClaimCandidates
    <2>5. ASSUME NEW q \in Rows, NEW pc \in Phases, NEW final \in Terminal \union {None},
                 Advance(t, q, pc, final)
          PROVE  tick' \in [Ticks -> TickType]
      BY <2>5, TickUpdateType DEF Advance
    <2>6. ASSUME NEW q \in Rows, BeginExecution(t, q)
          PROVE  ran' \in [Rows -> Nat] /\ late' \in [Daemons -> Nat]
      BY <2>6 DEF BeginExecution
    <2>7. ASSUME NEW q \in Rows, DecideWithout(t, q) PROVE TypeOK'
      BY <2>5, <2>7 DEF DecideWithout, Phases, Terminal
    <2>8. ASSUME NEW q \in Rows, DecideToCheck(t, q) PROVE TypeOK'
      BY <2>5, <2>8 DEF DecideToCheck, Phases
    <2>9. ASSUME NEW q \in Rows, DecideToExecute(t, q) PROVE TypeOK'
      BY <2>5, <2>6, <2>9 DEF DecideToExecute, Phases
    <2>10. CASE Afforded(t)
      <3>1. /\ [tick[t] EXCEPT !.pc = "resolving", !.final = "rejected"] \in TickType
            /\ [tick[t] EXCEPT !.pc = "executing"] \in TickType
        BY TickUpdateType DEF Phases, Terminal
      <3>2. tick' \in [Ticks -> TickType]
        BY <2>10, <3>1 DEF Afforded
      <3>3. ran' \in [Rows -> Nat] /\ late' \in [Daemons -> Nat]
        BY <2>10 DEF Afforded, BeginExecution
      <3> QED
        BY <2>10, <3>2, <3>3 DEF Afforded
    <2>11. ASSUME NEW o \in Outcomes, NEW pnl \in PnLs, Executed(t, o, pnl) PROVE TypeOK'
      <3>1. FinalStatus(o) \in Terminal
        BY DEF FinalStatus, Outcomes, Terminal
      <3>2. circuit' \in [Daemons -> Breaker]
        BY <2>11, DaemonConstants, RecordExecutionType, TodayType DEF Executed
      <3>3. [tick[t] EXCEPT !.pc = "resolving", !.final = FinalStatus(o)] \in TickType
        BY <3>1, TickUpdateType DEF Phases
      <3> QED
        BY <2>11, <3>2, <3>3 DEF Executed
    <2>12. CASE Resolve(t)
      <3>1. tick[t].final \in Terminal => row' \in [Rows -> RowType]
        BY <2>12 DEF Resolve, Resolved, RowType, Status
      <3> QED
        BY <2>12, <3>1 DEF Resolve, NextRow, TickType, Shape
    <2>13. CASE ResolveFails(t)
      BY <2>13 DEF ResolveFails, NextRow, TickType
    <2> QED
      BY <1>3, <2>1, <2>2, <2>3, <2>4, <2>7, <2>8, <2>9, <2>10, <2>11, <2>12, <2>13 DEF TickStep
  <1>4. ASSUME NEW d \in Daemons, Stop(d) \/ Start(d) \/ ExternalTrip(d) \/ Reset(d) \/ Crash(d)
        PROVE  TypeOK'
    <2> FreshBreaker(Today) \in Breaker /\ Tripped(circuit[d]) \in Breaker
      BY TodayType DEF FreshBreaker, Tripped, Breaker
    <2>1. CASE Stop(d)
      BY <2>1 DEF Stop
    <2>2. CASE Start(d)
      BY <2>2 DEF Start
    <2>3. CASE ExternalTrip(d)
      BY <2>3 DEF ExternalTrip
    <2>4. CASE Reset(d)
      BY <2>4 DEF Reset
    <2>5. CASE Crash(d)
      <3>1. row' \in [Rows -> RowType]
        BY <2>5 DEF Crash, RowType, Status
      <3>2. IdleTick \in TickType
        BY DEF IdleTick, TickType, Phases
      <3>3. tick' \in [Ticks -> TickType]
        BY <2>5, <3>2 DEF Crash
      <3>4. resets' \in Nat /\ running' \in [Daemons -> BOOLEAN]
            /\ circuit' \in [Daemons -> Breaker] /\ late' \in [Daemons -> Nat]
        BY <2>5 DEF Crash
      <3> QED
        BY <2>5, <3>1, <3>3, <3>4 DEF Crash
    <2> QED
      BY <1>4, <2>1, <2>2, <2>3, <2>4, <2>5
  <1>5. CASE UNCHANGED vars
    BY <1>5 DEF vars
  <1> QED
    BY <1>1, <1>2, <1>3, <1>4, <1>5 DEF Next

----------------------------------------------------------------------------
\* What a tick holds are rows.
LEMMA HeldRows == ASSUME TypeOK, NEW u \in Ticks PROVE Held(u) \subseteq Rows
  <1>1. tick[u] \in TickType
    BY DEF TypeOK
  <1> QED
    BY <1>1 DEF Held, TickType

\* Claiming: the rows S were pending and become the claimer's, tick t restarts
\* with some of them as its batch, and nothing else that matters changes.
LEMMA ClaimStep ==
    ASSUME IInv, TypeOK', ran' = ran,
           NEW t \in Ticks, NEW S \in SUBSET Rows, NEW B \in SUBSET S,
           \A q \in S : /\ row[q].status = "pending"
                        /\ row'[q].status = "claimed" /\ row'[q].claimedBy = t[1],
           \A q \in Rows \ S : \/ row'[q] = row[q]
                               \/ row[q].status = "pending" /\ row'[q].status = "expired",
           tick' = [tick EXCEPT ![t] = WithBatch(B)]
    PROVE  IInv'
  <1> USE DEF IInv
  <1>1. \A u \in Ticks : tick'[u] = IF u = t THEN WithBatch(B) ELSE tick[u]
    BY DEF TypeOK
  <1>2. /\ WithBatch(B).batch = B /\ WithBatch(B).cur = None
        /\ WithBatch(B).pc \in {"idle", "deciding"}
    BY DEF WithBatch, IdleTick
  <1>3. \A u \in Ticks : Held(u)' = IF u = t THEN B ELSE Held(u)
    BY <1>1, <1>2 DEF Held
  <1>4. \A u \in Ticks : \A q \in Held(u) : q \in Rows /\ q \notin S
    BY HeldRows DEF Ownership
  <1>5. \A u \in Ticks : \A q \in Held(u) : row'[q] = row[q]
    BY <1>4 DEF Ownership
  <1>6. Ownership'
    BY <1>3, <1>4, <1>5 DEF Ownership
  <1>7. \A q \in S : ran[q] = 0
    BY DEF Fresh
  <1>8. Fresh'
    BY <1>1, <1>2, <1>7 DEF Fresh
  <1>9. Shape'
    BY <1>1, <1>2, ChannelConstants DEF Shape
  <1> QED
    BY <1>6, <1>8, <1>9 DEF AtMostOnce

\* Moving one tick along, when the rows it holds only become fewer, the row
\* statuses stay, and no row runs.
LEMMA MoveStep ==
    ASSUME IInv, TypeOK', ran' = ran, row' = row,
           NEW t \in Ticks, NEW k \in TickType, tick' = [tick EXCEPT ![t] = k],
           k.batch \subseteq tick[t].batch,
           k.cur \in Held(t) \union {None} \/ k.cur = tick[t].cur,
           k.cur \notin k.batch,
           k.pc = "affording" => k.cur \in tick[t].batch,
           k.pc \in {"affording", "executing", "resolving"} => k.cur \in Rows,
           k.pc = "resolving" => k.final \in Terminal
    PROVE  IInv'
  <1> USE DEF IInv
  <1>1. \A u \in Ticks : tick'[u] = IF u = t THEN k ELSE tick[u]
    BY DEF TypeOK
  <1>2. \A u \in Ticks : Held(u)' \subseteq Held(u)
    BY <1>1 DEF Held
  <1>3. Ownership'
    BY <1>2 DEF Ownership
  <1>4. Fresh'
    BY <1>1 DEF Fresh
  <1>5. Shape'
    BY <1>1 DEF Shape
  <1> QED
    BY <1>3, <1>4, <1>5 DEF AtMostOnce

\* Beginning an execution of a row that was held and had not run.
LEMMA RunStep ==
    ASSUME IInv, TypeOK', row' = row,
           NEW t \in Ticks, NEW k \in TickType, tick' = [tick EXCEPT ![t] = k],
           NEW q \in Held(t), ran[q] = 0, q \in Rows, ran' = [ran EXCEPT ![q] = @ + 1],
           k.batch \subseteq tick[t].batch, q \notin k.batch,
           k.cur = q, k.pc = "executing"
    PROVE  IInv'
  <1> USE DEF IInv
  <1>1. \A u \in Ticks : tick'[u] = IF u = t THEN k ELSE tick[u]
    BY DEF TypeOK
  <1>2. \A u \in Ticks : Held(u)' \subseteq Held(u)
    BY <1>1 DEF Held
  <1>3. Ownership'
    BY <1>2 DEF Ownership
  <1>4. ran'[q] = 1 /\ \A r \in Rows \ {q} : ran'[r] = ran[r]
    BY DEF TypeOK
  <1>5. /\ row[q].status = "claimed"
        /\ \A u \in Ticks \ {t} : q \notin tick[u].batch /\ tick[u].cur # q
    <2>1. q # None
      BY ChannelConstants
    <2> QED
      BY <2>1 DEF Ownership, Held
  <1>6. Fresh'
    BY <1>1, <1>4, <1>5 DEF Fresh
  <1>7. Shape'
    BY <1>1 DEF Shape
  <1>8. AtMostOnce'
    BY <1>4 DEF AtMostOnce
  <1> QED
    BY <1>3, <1>6, <1>7, <1>8

\* Every step keeps the inductive invariant.
LEMMA StepIInv == IInv /\ [Next]_vars => IInv'
  <1> SUFFICES ASSUME IInv, [Next]_vars PROVE IInv'
    OBVIOUS
  <1> USE DEF IInv
  <1>0. TypeOK'
    BY StepType
  <1>1. ASSUME NEW q \in Rows, NEW k \in Kinds, NEW ttl \in TTLs, Observe(q, k, ttl)
        PROVE  IInv'
    <2>1. /\ row[q].status = "absent" /\ row'[q].status = "pending"
          /\ \A r \in Rows \ {q} : row'[r] = row[r]
          /\ tick' = tick /\ ran' = ran
      BY <1>1 DEF Observe, Publish, TypeOK
    <2>2. \A u \in Ticks : Held(u)' = Held(u) /\ q \notin Held(u)
      BY <2>1 DEF Held, Ownership
    <2>3. Ownership'
      BY <2>1, <2>2, HeldRows DEF Ownership
    <2> QED
      BY <1>0, <2>1, <2>3 DEF Fresh, Shape, AtMostOnce
  <1>2. CASE UNCHANGED <<row, tick, ran>>
    BY <1>0, <1>2 DEF Ownership, Held, Fresh, Shape, AtMostOnce
  <1>3. ASSUME NEW t \in Ticks, TickStep(t)
        PROVE  IInv'
    <2>1. tick[t] \in TickType /\ t[1] \in Daemons
      BY DEF TypeOK, Ticks
    <2>2. ASSUME NEW S \in SUBSET Rows, ClaimAtOnce(t, S) PROVE IInv'
      <3>1. S \in SUBSET LiveRows
        BY <2>2 DEF ClaimAtOnce, OldestBatch
      <3>2. \A q \in S : row[q].status = "pending"
        BY <3>1 DEF LiveRows, Live, Pending
      <3>3. /\ row' = ClaimInMemory(S, t[1]) /\ ran' = ran
            /\ tick' = [tick EXCEPT ![t] = WithBatch(S)]
        BY <2>2 DEF ClaimAtOnce
      <3>4. /\ \A q \in S : row'[q].status = "claimed" /\ row'[q].claimedBy = t[1]
            /\ \A q \in Rows \ S : \/ row'[q] = row[q]
                                   \/ row[q].status = "pending" /\ row'[q].status = "expired"
        <4>1. \A q \in S : q \in Rows /\ q \notin WalkedDead(S)
          BY <3>1 DEF LiveRows, Live, WalkedDead, TypeOK, RowType
        <4>2. \A q \in WalkedDead(S) : q \in Rows /\ row[q].status = "pending"
          BY DEF WalkedDead, Pending
        <4> QED
          BY <2>1, <3>3, <4>1, <4>2 DEF TypeOK, ClaimInMemory, MarkClaimed, RowType
      <3>5. S \in SUBSET Rows
        BY <3>1 DEF LiveRows
      <3> QED
        BY <1>0, <3>2, <3>3, <3>4, <3>5, ClaimStep
    <2>3. ASSUME NEW S \in SUBSET Rows, SelectCandidates(t, S) PROVE IInv'
      <3> DEFINE k == [tick[t] EXCEPT !.pc = "claiming", !.cand = S]
      <3>1. k \in TickType
        BY <2>1, TickUpdateType DEF Phases
      <3>2. k.pc = "claiming" /\ k.batch = tick[t].batch /\ k.cur = tick[t].cur
        BY <2>1 DEF TickType
      <3>3. tick' = [tick EXCEPT ![t] = k] /\ row' = row /\ ran' = ran
        BY <2>3 DEF SelectCandidates
      <3> HIDE DEF k
      <3> QED
        BY <1>0, <3>1, <3>2, <3>3, MoveStep DEF Shape
    <2>4. ASSUME NEW S \in SUBSET Rows, ClaimThrows(t, S) PROVE IInv'
      <3>1. \A q \in S : row[q].status = "pending"
        BY <2>4 DEF ClaimThrows, StillPending, Pending
      <3>2. /\ row' = MarkClaimed(S, t[1]) /\ ran' = ran
            /\ tick' = [tick EXCEPT ![t] = WithBatch({})]
        BY <2>4 DEF ClaimThrows, WithBatch
      <3>3. /\ \A q \in S : row'[q].status = "claimed" /\ row'[q].claimedBy = t[1]
            /\ \A q \in Rows \ S : row'[q] = row[q]
        BY <2>1, <3>1, <3>2 DEF TypeOK, MarkClaimed, RowType
      <3>4. {} \in SUBSET S
        OBVIOUS
      <3> QED
        BY <1>0, <3>1, <3>2, <3>3, <3>4, ClaimStep
    <2>5. CASE ClaimCandidates(t)
      <3> DEFINE S == StillPending(tick[t].cand)
      <3>1. S \in SUBSET Rows /\ \A q \in S : row[q].status = "pending"
        BY <2>1 DEF StillPending, Pending, TickType
      <3>2. /\ row' = MarkClaimed(S, t[1]) /\ ran' = ran
            /\ tick' = [tick EXCEPT ![t] = WithBatch(S)]
        BY <2>5 DEF ClaimCandidates
      <3> HIDE DEF S
      <3>3. /\ \A q \in S : row'[q].status = "claimed" /\ row'[q].claimedBy = t[1]
            /\ \A q \in Rows \ S : row'[q] = row[q]
        BY <2>1, <3>1, <3>2 DEF TypeOK, MarkClaimed, RowType
      <3> QED
        BY <1>0, <3>1, <3>2, <3>3, ClaimStep
    <2>6. ASSUME NEW q \in tick[t].batch, NEW pc \in {"affording", "resolving"},
                 NEW final \in Terminal \union {None}, Advance(t, q, pc, final),
                 pc = "resolving" => final \in Terminal, row' = row, ran' = ran
          PROVE  IInv'
      <3> DEFINE k == [tick[t] EXCEPT !.pc = pc, !.batch = tick[t].batch \ {q},
                                      !.cur = q, !.final = final]
      <3>1. q \in Rows
        BY <2>1 DEF TickType
      <3>2. k \in TickType
        BY <2>1, <3>1, TickUpdateType DEF Phases
      <3>3. k.pc = pc /\ k.batch = tick[t].batch \ {q} /\ k.cur = q /\ k.final = final
        BY <2>1 DEF TickType
      <3>4. tick' = [tick EXCEPT ![t] = k]
        BY <2>6 DEF Advance
      <3>5. q \in Held(t)
        BY DEF Held
      <3> HIDE DEF k
      <3> QED
        BY <1>0, <2>6, <3>1, <3>2, <3>3, <3>4, <3>5, MoveStep
    <2>7. ASSUME NEW q \in Rows, DecideWithout(t, q) PROVE IInv'
      BY <2>6, <2>7 DEF DecideWithout, Terminal
    <2>8. ASSUME NEW q \in Rows, DecideToCheck(t, q) PROVE IInv'
      BY <2>6, <2>8 DEF DecideToCheck
    <2>9. ASSUME NEW q \in Rows, DecideToExecute(t, q) PROVE IInv'
      <3> DEFINE k == [tick[t] EXCEPT !.pc = "executing", !.batch = tick[t].batch \ {q},
                                      !.cur = q, !.final = None]
      <3>1. k \in TickType
        BY <2>1, TickUpdateType DEF Phases
      <3>2. k.pc = "executing" /\ k.batch = tick[t].batch \ {q} /\ k.cur = q
        BY <2>1 DEF TickType
      <3>3. /\ tick' = [tick EXCEPT ![t] = k] /\ row' = row
            /\ ran' = [ran EXCEPT ![q] = @ + 1]
        BY <2>9 DEF DecideToExecute, Advance, BeginExecution
      <3>4. q \in Held(t) /\ ran[q] = 0
        BY <2>9 DEF DecideToExecute, Held, Fresh
      <3> HIDE DEF k
      <3> QED
        BY <1>0, <3>1, <3>2, <3>3, <3>4, RunStep
    <2>10. CASE Afforded(t)
      <3>1. tick[t].pc = "affording" /\ tick[t].cur \in Rows /\ row' = row
        BY <2>10 DEF Afforded, Shape
      <3>2. CASE /\ tick' = [tick EXCEPT ![t] = [@ EXCEPT !.pc = "resolving", !.final = "rejected"]]
                 /\ ran' = ran
        <4> DEFINE k == [tick[t] EXCEPT !.pc = "resolving", !.final = "rejected"]
        <4>1. k \in TickType
          BY <2>1, TickUpdateType DEF Phases, Terminal
        <4>2. k.pc = "resolving" /\ k.batch = tick[t].batch /\ k.cur = tick[t].cur
              /\ k.final = "rejected"
          BY <2>1 DEF TickType
        <4>3. tick' = [tick EXCEPT ![t] = k]
          BY <3>2
        <4> HIDE DEF k
        <4> QED
          BY <1>0, <3>1, <3>2, <4>1, <4>2, <4>3, MoveStep DEF Shape, Terminal
      <3>3. CASE /\ tick' = [tick EXCEPT ![t] = [@ EXCEPT !.pc = "executing"]]
                 /\ BeginExecution(t, tick[t].cur)
        <4> DEFINE k == [tick[t] EXCEPT !.pc = "executing"]
                   q == tick[t].cur
        <4>1. k \in TickType
          BY <2>1, TickUpdateType DEF Phases
        <4>2. k.pc = "executing" /\ k.batch = tick[t].batch /\ k.cur = q
          BY <2>1 DEF TickType
        <4>3. tick' = [tick EXCEPT ![t] = k] /\ ran' = [ran EXCEPT ![q] = @ + 1]
          BY <3>3 DEF BeginExecution
        <4>4. q \in Rows /\ q \in Held(t) /\ q \notin tick[t].batch /\ ran[q] = 0
          BY <3>1, ChannelConstants DEF Held, Shape, Fresh
        <4> HIDE DEF k, q
        <4> QED
          BY <1>0, <3>1, <4>1, <4>2, <4>3, <4>4, RunStep
      <3> QED
        BY <2>10, <3>2, <3>3 DEF Afforded
    <2>11. ASSUME NEW o \in Outcomes, NEW pnl \in PnLs, Executed(t, o, pnl) PROVE IInv'
      <3> DEFINE k == [tick[t] EXCEPT !.pc = "resolving", !.final = FinalStatus(o)]
      <3>1. FinalStatus(o) \in Terminal
        BY DEF FinalStatus, Outcomes, Terminal
      <3>2. k \in TickType
        BY <2>1, <3>1, TickUpdateType DEF Phases
      <3>3. k.pc = "resolving" /\ k.batch = tick[t].batch /\ k.cur = tick[t].cur
            /\ k.final = FinalStatus(o)
        BY <2>1 DEF TickType
      <3>4. tick' = [tick EXCEPT ![t] = k] /\ row' = row /\ ran' = ran
        BY <2>11 DEF Executed
      <3>5. tick[t].cur \in Rows
        BY <2>11 DEF Executed, Shape
      <3> HIDE DEF k
      <3> QED
        BY <1>0, <3>1, <3>2, <3>3, <3>4, <3>5, MoveStep DEF Shape
    <2> DEFINE rest == WithBatch(tick[t].batch)
    <2>12. /\ rest \in TickType /\ rest.batch = tick[t].batch /\ rest.cur = None
           /\ rest.pc \in {"idle", "deciding"}
      BY <2>1 DEF WithBatch, IdleTick, TickType, Phases
    <2>13. rest.cur \notin rest.batch
      BY <2>1, <2>12, ChannelConstants DEF TickType
    <2>14. CASE Resolve(t)
      <3> DEFINE q == tick[t].cur
      <3>1. q \in Rows /\ q \in Held(t) /\ q \notin tick[t].batch /\ tick[t].final \in Terminal
        BY <2>14, ChannelConstants DEF Resolve, Shape, Held
      <3>2. /\ tick' = [tick EXCEPT ![t] = rest] /\ ran' = ran
            /\ row'[q].status = tick[t].final
            /\ \A r \in Rows \ {q} : row'[r] = row[r]
        BY <2>14, <3>1 DEF Resolve, Resolved, NextRow, TypeOK, RowType
      <3>3. \A u \in Ticks : tick'[u] = IF u = t THEN rest ELSE tick[u]
        BY <3>2 DEF TypeOK
      <3> HIDE DEF rest, q
      <3>4. \A u \in Ticks : Held(u)' \subseteq Held(u) \ {q}
        BY <2>12, <3>1, <3>3 DEF Held, Ownership
      <3>5. Ownership'
        BY <3>2, <3>4, HeldRows DEF Ownership
      <3>6. Fresh'
        BY <2>12, <3>1, <3>2, <3>3 DEF Fresh, Terminal
      <3>7. Shape'
        BY <2>12, <2>13, <3>3 DEF Shape
      <3> QED
        BY <1>0, <3>2, <3>5, <3>6, <3>7 DEF AtMostOnce
    <2>15. CASE ResolveFails(t)
      <3>1. tick' = [tick EXCEPT ![t] = rest] /\ ran' = ran /\ row' = row
        BY <2>15 DEF ResolveFails, NextRow
      <3> HIDE DEF rest
      <3> QED
        BY <1>0, <2>12, <2>13, <3>1, MoveStep
    <2> QED
      BY <1>3, <2>2, <2>3, <2>4, <2>5, <2>7, <2>8, <2>9, <2>10, <2>11, <2>14, <2>15 DEF TickStep
  <1>4. ASSUME NEW d \in Daemons, Crash(d)
        PROVE  IInv'
    <2>1. /\ \A u \in Ticks : tick'[u] = IF u[1] = d THEN IdleTick ELSE tick[u]
          /\ ran' = ran
      BY <1>4 DEF Crash
    <2>2. \A u \in Ticks : u[1] \in Daemons
      BY DEF Ticks
    <2>3. \A u \in Ticks : u[1] = d => tick'[u].batch = {} /\ tick'[u].cur = None
                                     /\ tick'[u].pc = "idle"
      BY <2>1 DEF IdleTick
    <2>4. \A u \in Ticks : Held(u)' = IF u[1] = d THEN {} ELSE Held(u)
      BY <2>1, <2>3 DEF Held
    <2>5. CASE Backend = "memory"
      <3>1. \A u \in Ticks : u[1] = d
        BY <2>2, <2>5, InMemoryIsOneProcess
      <3>2. \A q \in Rows : row'[q].status \in {"absent", "pending"} => row[q].status = "absent"
        BY <1>4, <2>5 DEF Crash, TypeOK, RowType
      <3>3. Ownership'
        BY <2>4, <3>1 DEF Ownership
      <3>4. Fresh'
        BY <2>1, <2>3, <3>1, <3>2 DEF Fresh
      <3>5. Shape'
        BY <2>3, <3>1, ChannelConstants DEF Shape
      <3> QED
        BY <1>0, <2>1, <3>3, <3>4, <3>5 DEF AtMostOnce
    <2>6. CASE Backend # "memory"
      <3>1. row' = row
        BY <1>4, <2>6 DEF Crash
      <3>2. Ownership'
        BY <2>4, <3>1 DEF Ownership
      <3>3. Fresh'
        BY <2>1, <2>3, <3>1 DEF Fresh
      <3>4. Shape'
        BY <2>1, <2>3, ChannelConstants DEF Shape
      <3> QED
        BY <1>0, <2>1, <3>2, <3>3, <3>4 DEF AtMostOnce
    <2> QED
      BY <2>5, <2>6
  <1> QED
    BY <1>1, <1>2, <1>3, <1>4 DEF Next, vars, Elapse, Stop, Start, ExternalTrip, Reset

\* The inductive invariant holds throughout.
THEOREM Invariance == Spec => []IInv
  BY InitIInv, StepIInv, PTL DEF Spec

\* The daemons' variables keep their types.
THEOREM TypeCorrect == Spec => []TypeOK
  BY Invariance, PTL DEF IInv

\* Every queue row is executed at most once, by whichever of the ticks won it
\* (types.ts: multiple workers share the queue without double-processing).
THEOREM AtMostOnceExecution == Spec => []AtMostOnce
  BY Invariance, PTL DEF IInv

\* What a tick still has to process is claimed by its daemon and by no other tick.
THEOREM OwnershipHolds == Spec => []Ownership
  BY Invariance, PTL DEF IInv

----------------------------------------------------------------------------
(* The refinement: the daemons and the channel implement OpportunityQueue.  *)
(* Ownership makes every row a tick executes or resolves a claimed one, and *)
(* Fresh makes its execution the first.                                     *)

\* A step that leaves statuses, claimers and executions alone is a stutter.
LEMMA SameQueue ==
    ASSUME \A q \in Rows : row'[q].status = row[q].status /\ row'[q].claimedBy = row[q].claimedBy,
           ran' = ran
    PROVE  UNCHANGED Queue!queue
  BY DEF Queue!queue

\* Rows taken and rows expired by one pass.
LEMMA TakeMaps ==
    ASSUME NEW d \in Daemons, NEW S \in SUBSET Rows, NEW E \in SUBSET Rows, S \cap E = {},
           \A q \in S \cup E : row[q].status = "pending",
           \A q \in S : row'[q].status = "claimed" /\ row'[q].claimedBy = d,
           \A q \in E : row'[q].status = "expired" /\ row'[q].claimedBy = row[q].claimedBy,
           \A q \in Rows \ (S \cup E) : row'[q] = row[q],
           ran' = ran
    PROVE  Queue!QueueNext
  <1>1. Queue!Take(d, S, E)
    BY DEF Queue!Take
  <1> QED BY <1>1 DEF Queue!QueueNext

\* A claim by update marks exactly the rows it returns.
LEMMA MarkMaps ==
    ASSUME TypeOK, NEW d \in Daemons, NEW S \in SUBSET Rows, \A q \in S : row[q].status = "pending",
           row' = MarkClaimed(S, d), ran' = ran
    PROVE  Queue!QueueNext
  <1>1. row \in [Rows -> RowType]
    BY DEF TypeOK
  <1>2. /\ \A q \in S : row'[q].status = "claimed" /\ row'[q].claimedBy = d
        /\ \A q \in Rows \ S : row'[q] = row[q]
    BY <1>1, MarkClaimedType
  <1>3. Queue!Take(d, S, {})
    BY <1>2 DEF Queue!Take
  <1> QED BY <1>3 DEF Queue!QueueNext

\* The first execution of a claimed row.
LEMMA RunMaps ==
    ASSUME TypeOK, NEW q \in Rows, row[q].status = "claimed", ran[q] = 0,
           ran' = [ran EXCEPT ![q] = @ + 1], row' = row
    PROVE  Queue!QueueNext
  <1>1. ran' = [ran EXCEPT ![q] = 1]
    BY DEF TypeOK
  <1>2. Queue!Run(q)
    BY <1>1 DEF Queue!Run
  <1> QED BY <1>2 DEF Queue!QueueNext

\* Every step of the daemons is a step of the abstract queue or leaves it alone.
LEMMA QueueStep == IInv /\ [Next]_vars => [Queue!QueueNext]_(Queue!queue)
  <1> SUFFICES ASSUME IInv, [Next]_vars PROVE [Queue!QueueNext]_(Queue!queue)
    OBVIOUS
  <1> USE DEF IInv
  <1>1. ASSUME NEW q \in Rows, NEW k \in Kinds, NEW ttl \in TTLs, Observe(q, k, ttl)
        PROVE  Queue!QueueNext
    <2>1. /\ row[q].status = "absent" /\ row'[q].status = "pending"
          /\ row'[q].claimedBy = None
          /\ \A r \in Rows \ {q} : row'[r] = row[r]
          /\ ran' = ran
      BY <1>1 DEF Observe, Publish, TypeOK
    <2>2. Queue!Offer(q)
      BY <2>1 DEF Queue!Offer
    <2> QED BY <2>2 DEF Queue!QueueNext
  <1>2. CASE UNCHANGED <<row, ran>>
    BY <1>2, SameQueue
  <1>3. ASSUME NEW t \in Ticks, TickStep(t) PROVE [Queue!QueueNext]_(Queue!queue)
    <2>0. t[1] \in Daemons /\ tick[t] \in TickType /\ row \in [Rows -> RowType]
      BY DEF Ticks, TypeOK
    <2>1. ASSUME NEW S \in SUBSET Rows, ClaimAtOnce(t, S) PROVE Queue!QueueNext
      <3>1. S \subseteq LiveRows /\ row' = ClaimInMemory(S, t[1]) /\ ran' = ran
        BY <2>1 DEF ClaimAtOnce, OldestBatch
      <3> DEFINE dead == WalkedDead(S)
      <3>2. \A q \in S : row[q].status = "pending" /\ q \notin dead
        BY <3>1 DEF LiveRows, Live, Pending, WalkedDead, TypeOK, RowType
      <3>3. \A q \in dead : q \in Rows /\ row[q].status = "pending"
        BY DEF WalkedDead, Pending
      <3>4. \A q \in dead : row'[q].status = "expired" /\ row'[q].claimedBy = row[q].claimedBy
        BY <2>0, <3>1, <3>3 DEF ClaimInMemory, RowType
      <3>5. \A q \in S : row'[q].status = "claimed" /\ row'[q].claimedBy = t[1]
        BY <2>0, <3>1, <3>2, MarkClaimedType DEF ClaimInMemory
      <3>6. \A q \in Rows \ (S \cup dead) : row'[q] = row[q]
        BY <2>0, <3>1, MarkClaimedType DEF ClaimInMemory
      <3> HIDE DEF dead
      <3>7. dead \in SUBSET Rows /\ S \cap dead = {}
        BY <3>2, <3>3
      <3>8. \A q \in S \cup dead : row[q].status = "pending"
        BY <3>2, <3>3
      <3>9. PICK E \in SUBSET Rows, d \in Daemons : E = dead /\ d = t[1]
        BY <2>0, <3>7
      <3> QED BY <3>1, <3>4, <3>5, <3>6, <3>7, <3>8, <3>9, TakeMaps
    <2>2. CASE ClaimCandidates(t)
      <3> DEFINE won == StillPending(tick[t].cand)
      <3>1. won \in SUBSET Rows /\ \A q \in won : row[q].status = "pending"
        BY <2>0 DEF StillPending, Pending, TickType
      <3>2. row' = MarkClaimed(won, t[1]) /\ ran' = ran
        BY <2>2 DEF ClaimCandidates
      <3> HIDE DEF won
      <3> QED BY <2>0, <3>1, <3>2, MarkMaps
    <2>3. ASSUME NEW S \in SUBSET Rows, ClaimThrows(t, S) PROVE Queue!QueueNext
      <3>1. \A q \in S : row[q].status = "pending"
        BY <2>3 DEF ClaimThrows, StillPending, Pending
      <3>2. row' = MarkClaimed(S, t[1]) /\ ran' = ran
        BY <2>3 DEF ClaimThrows
      <3> QED BY <2>0, <3>1, <3>2, MarkMaps
    <2>4. ASSUME NEW q \in Rows, DecideToExecute(t, q) PROVE Queue!QueueNext
      <3>1. q \in tick[t].batch
        BY <2>4 DEF DecideToExecute
      <3>2. ran[q] = 0 /\ row[q].status = "claimed"
        BY <3>1 DEF Fresh, Ownership, Held
      <3> QED BY <2>4, <3>2, RunMaps DEF DecideToExecute, BeginExecution
    <2>5. CASE Afforded(t) /\ row' = row /\ ran' # ran
      <3>1. tick[t].pc = "affording" /\ ran' = [ran EXCEPT ![tick[t].cur] = @ + 1]
        BY <2>5 DEF Afforded, BeginExecution
      <3>2. tick[t].cur \in Rows /\ tick[t].cur # None
        BY <3>1, ChannelConstants DEF Shape
      <3>3. ran[tick[t].cur] = 0 /\ row[tick[t].cur].status = "claimed"
        BY <3>1, <3>2 DEF Fresh, Ownership, Held
      <3> QED BY <2>5, <3>1, <3>2, <3>3, RunMaps
    <2>6. CASE Resolve(t)
      <3> DEFINE q == tick[t].cur
                 s == tick[t].final
      <3>1. tick[t].pc = "resolving" /\ row' = Resolved(q, s) /\ ran' = ran
        BY <2>6 DEF Resolve
      <3>2. q \in Rows /\ q # None /\ s \in Terminal
        BY <3>1, ChannelConstants DEF Shape
      <3>3. row[q].status = "claimed"
        BY <3>2 DEF Ownership, Held
      <3>4. /\ row'[q].status = s /\ row'[q].claimedBy = row[q].claimedBy
            /\ \A r \in Rows \ {q} : row'[r] = row[r]
        BY <2>0, <3>1, <3>2 DEF Resolved, RowType
      <3> HIDE DEF q, s
      <3>5. PICK r \in Rows, final \in Terminal : r = q /\ final = s
        BY <3>2
      <3>6. Queue!Settle(r, final)
        BY <3>1, <3>3, <3>4, <3>5 DEF Queue!Settle
      <3> QED BY <3>6 DEF Queue!QueueNext, Queue!Settled, Terminal
    <2>7. CASE UNCHANGED <<row, ran>>
      BY <2>7, SameQueue
    <2>8. CASE Afforded(t)
      <3>1. row' = row
        BY <2>8 DEF Afforded
      <3> QED BY <2>5, <2>7, <2>8, <3>1
    <2>9. ASSUME NEW q \in Rows, DecideWithout(t, q) \/ DecideToCheck(t, q) PROVE UNCHANGED <<row, ran>>
      BY <2>9 DEF DecideWithout, DecideToCheck
    <2>10. ASSUME NEW S \in SUBSET Rows, SelectCandidates(t, S) PROVE UNCHANGED <<row, ran>>
      BY <2>10 DEF SelectCandidates
    <2>11. ASSUME NEW o \in Outcomes, NEW pnl \in PnLs, Executed(t, o, pnl) PROVE UNCHANGED <<row, ran>>
      BY <2>11 DEF Executed
    <2>12. ResolveFails(t) => UNCHANGED <<row, ran>>
      BY DEF ResolveFails
    <2>13. ASSUME NEW S \in SUBSET Rows, ClaimAtOnce(t, S) \/ SelectCandidates(t, S) \/ ClaimThrows(t, S)
           PROVE  [Queue!QueueNext]_(Queue!queue)
      BY <2>1, <2>3, <2>7, <2>10, <2>13
    <2>14. ASSUME NEW q \in Rows, DecideWithout(t, q) \/ DecideToCheck(t, q) \/ DecideToExecute(t, q)
           PROVE  [Queue!QueueNext]_(Queue!queue)
      BY <2>4, <2>7, <2>9, <2>14
    <2>15. ASSUME NEW o \in Outcomes, NEW pnl \in PnLs, Executed(t, o, pnl)
           PROVE  [Queue!QueueNext]_(Queue!queue)
      BY <2>7, <2>11, <2>15
    <2>16. ResolveFails(t) => [Queue!QueueNext]_(Queue!queue)
      BY <2>7, <2>12
    <2> QED BY <1>3, <2>2, <2>6, <2>8, <2>13, <2>14, <2>15, <2>16 DEF TickStep
  <1>4. ASSUME NEW d \in Daemons, Crash(d) PROVE [Queue!QueueNext]_(Queue!queue)
    <2>1. CASE Backend = "memory"
      <3>1. \A q \in Rows : /\ row'[q].status = IF row[q].status = "absent" THEN "absent" ELSE "gone"
                            /\ row'[q].claimedBy = row[q].claimedBy
        BY <1>4, <2>1 DEF Crash, TypeOK, RowType
      <3>2. ran' = ran
        BY <1>4 DEF Crash
      <3>3. Queue!Lose
        BY <3>1, <3>2 DEF Queue!Lose
      <3> QED BY <3>3 DEF Queue!QueueNext
    <2>2. CASE Backend # "memory"
      BY <1>4, <2>2, SameQueue DEF Crash
    <2> QED BY <2>1, <2>2
  <1> QED
    BY <1>1, <1>2, <1>3, <1>4 DEF Next, vars, Elapse, Stop, Start, ExternalTrip, Reset

\* The daemons start where the abstract queue does.
LEMMA QueueStart == Init => Queue!QueueInit
  <1> SUFFICES ASSUME Init PROVE Queue!QueueInit
    OBVIOUS
  <1>1. \A q \in Rows : row[q].status = "absent" /\ row[q].claimedBy = None
    BY DEF Init, ChannelInit, AbsentRow
  <1> QED BY <1>1 DEF Init, Queue!QueueInit

\* Whatever the daemons do looks, row by row, like the queue of types.ts: taken by one
\* daemon, executed at most once while taken, settled once.
THEOREM DaemonsImplementQueue == Spec => ImplementsQueue
  BY QueueStart, QueueStep, Invariance, PTL DEF Spec, ImplementsQueue, Queue!QueueSpec
-----------------------------------------------------------------------------
(* What the daemons owe their operator: limits, order and a true audit trail.  *)

\* What an update of one tick leaves of the others.
LEMMA OtherTicks ==
    ASSUME TypeOK, NEW t \in Ticks, NEW k, tick' = [tick EXCEPT ![t] = k]
    PROVE  \A u \in Ticks : tick'[u] = IF u = t THEN k ELSE tick[u]
  BY DEF TypeOK

----------------------------------------------------------------------------
(* The breaker's limits.                                                    *)

\* recordExecution() leaves a breaker closed only if it was, and only below both limits.
LEMMA RecordKeepsLimits ==
    ASSUME NEW cb \in Breaker, NEW filled \in BOOLEAN, NEW pnl \in Int, NEW today \in Nat
    PROVE  LET after == RecordExecution(cb, filled, pnl, today)
           IN  /\ MayExecute(after) => MayExecute(cb)
               /\ MayExecute(after) /\ BelowLimits(cb) => BelowLimits(after)
  <1> DEFINE rolled   == RollDay(cb, today)
             failures == IF filled THEN 0 ELSE rolled.failures + 1
             loss     == IF pnl < 0 THEN rolled.loss - pnl ELSE rolled.loss
             trips    == \/ ~filled /\ failures >= MaxConsecutiveFailures
                         \/ pnl < 0 /\ loss >= MaxDailyLossUsd
             after    == RecordExecution(cb, filled, pnl, today)
  <1>1. /\ rolled \in Breaker /\ rolled.state = cb.state /\ rolled.failures = cb.failures
        /\ rolled.loss = cb.loss \/ rolled.loss = 0
    BY DEF RollDay, Breaker
  <1>2. failures \in Nat /\ loss \in Nat
    BY <1>1 DEF Breaker
  <1>3. /\ after.state = IF trips THEN "open" ELSE rolled.state
        /\ after.failures = failures /\ after.loss = loss
    <2>1. after = [rolled EXCEPT !.failures = failures, !.loss = loss,
                                 !.state = IF trips THEN "open" ELSE @]
      BY DEF RecordExecution
    <2> HIDE DEF after, rolled, failures, loss, trips
    <2> QED BY <1>1, <2>1 DEF Breaker
  <1>4. trips \in BOOLEAN
    OBVIOUS
  <1>5. MayExecute(after) => ~trips /\ MayExecute(cb)
    <2> HIDE DEF after, trips, rolled, failures, loss
    <2> QED BY <1>1, <1>3, <1>4 DEF MayExecute
  <1>6. ASSUME ~trips, BelowLimits(cb) PROVE BelowLimits(after)
    <2>1. failures < MaxConsecutiveFailures
      BY <1>1, <1>2, <1>6, BreakerLimits DEF BelowLimits, Breaker
    <2>2. loss < MaxDailyLossUsd
      BY <1>1, <1>2, <1>6, BreakerLimits DEF BelowLimits, Breaker
    <2> HIDE DEF failures, loss, trips, rolled, after
    <2> QED BY <1>3, <2>1, <2>2 DEF BelowLimits
  <1> HIDE DEF after, trips
  <1> QED
    BY <1>5, <1>6 DEF after

\* What one step does to a breaker: nothing, one execution recorded, a trip, or a new one.
LEMMA CircuitStep ==
    ASSUME TypeOK, [Next]_vars, NEW d \in Daemons
    PROVE  \/ circuit'[d] = circuit[d]
           \/ \E filled \in BOOLEAN, pnl \in Int :
                 circuit'[d] = RecordExecution(circuit[d], filled, pnl, Today)
           \/ circuit'[d] = Tripped(circuit[d])
           \/ circuit'[d] = FreshBreaker(Today) /\ late'[d] = 0
  <1> USE DEF TypeOK
  <1>1. ASSUME NEW t \in Ticks, NEW o \in Outcomes, NEW pnl \in PnLs, Executed(t, o, pnl)
        PROVE  \/ circuit'[d] = circuit[d]
               \/ \E filled \in BOOLEAN, p \in Int :
                     circuit'[d] = RecordExecution(circuit[d], filled, p, Today)
    <2>1. circuit'[d] = IF d = t[1] THEN RecordExecution(circuit[d], o = "filled", pnl, Today)
                                    ELSE circuit[d]
      BY <1>1 DEF Executed
    <2>2. (o = "filled") \in BOOLEAN /\ pnl \in Int
      BY DaemonConstants
    <2> QED BY <2>1, <2>2
  <1>2. ASSUME NEW e \in Daemons, ExternalTrip(e) \/ Reset(e) \/ Crash(e)
        PROVE  \/ circuit'[d] = circuit[d]
               \/ circuit'[d] = Tripped(circuit[d])
               \/ circuit'[d] = FreshBreaker(Today) /\ late'[d] = 0
    BY <1>2 DEF ExternalTrip, Reset, Crash
  <1>3. CASE UNCHANGED circuit
    BY <1>3
  <1> QED
    BY <1>1, <1>2, <1>3
    DEF Next, vars, Observe, Elapse, TickStep, ClaimAtOnce, SelectCandidates, ClaimThrows,
        ClaimCandidates, DecideWithout, DecideToCheck, DecideToExecute, Afforded, Resolve,
        ResolveFails, Stop, Start

\* No step closes a breaker that has reached a limit.
LEMMA StepLimits == TypeOK /\ ClosedBelowLimits /\ [Next]_vars => ClosedBelowLimits'
  <1> SUFFICES ASSUME TypeOK, ClosedBelowLimits, [Next]_vars, NEW d \in Daemons,
                      MayExecute(circuit'[d])
               PROVE  BelowLimits(circuit'[d])
    BY DEF ClosedBelowLimits
  <1>1. circuit[d] \in Breaker /\ Today \in Nat
    BY TodayType DEF TypeOK
  <1>2. CASE circuit'[d] = circuit[d]
    BY <1>2 DEF ClosedBelowLimits
  <1>3. ASSUME NEW filled \in BOOLEAN, NEW pnl \in Int,
               circuit'[d] = RecordExecution(circuit[d], filled, pnl, Today)
        PROVE  BelowLimits(circuit'[d])
    BY <1>1, <1>3, RecordKeepsLimits DEF ClosedBelowLimits
  <1>4. CASE circuit'[d] = Tripped(circuit[d])
    BY <1>1, <1>4 DEF Tripped, MayExecute, Breaker
  <1>5. CASE circuit'[d] = FreshBreaker(Today)
    BY <1>5, BreakerLimits DEF FreshBreaker, BelowLimits
  <1> QED
    BY <1>2, <1>3, <1>4, <1>5, CircuitStep

\* In whatever order executions settle, days pass and operators reset it, a breaker that
\* lets executions through is below its failure and its loss limit (circuit.ts).
THEOREM BreakerHoldsLimits == Spec => []ClosedBelowLimits
  <1>1. Init => ClosedBelowLimits
    BY BreakerLimits DEF Init, ClosedBelowLimits, FreshBreaker, BelowLimits
  <1> QED
    BY <1>1, StepLimits, TypeCorrect, PTL DEF Spec

----------------------------------------------------------------------------
(* Executions on an open breaker.                                           *)

\* The ticks of a daemon that passed the breaker and wait for canAfford().
Affording(d) == {s \in Slots : tick[<<d, s>>].pc = "affording"}

\* A closed breaker has let nothing begin late, and an open one no more than the ticks that
\* passed it.
LateInv ==
    /\ \A d \in Daemons : MayExecute(circuit[d]) => late[d] = 0
    /\ LateExecutionsBounded

\* The counting that the bound rests on.
LEMMA AffordingFinite ==
    \A d : /\ IsFiniteSet(Affording(d)) /\ Cardinality(Affording(d)) \in Nat
           /\ Cardinality(Affording(d)) <= Cardinality(Slots) /\ Cardinality(Slots) \in Nat
  BY SlotsFinite, FS_Subset, FS_CardinalityType DEF Affording

\* A step that begins no execution, and lets no further tick through an open breaker.
LEMMA NoneBegun ==
    ASSUME TypeOK, TypeOK', LateInv, NEW d \in Daemons,
           late'[d] = late[d] \/ late'[d] = 0,
           MayExecute(circuit'[d]) => MayExecute(circuit[d]) \/ late'[d] = 0,
           ~MayExecute(circuit'[d]) =>
               MayExecute(circuit[d]) \/ Affording(d)' \subseteq Affording(d)
    PROVE  /\ MayExecute(circuit'[d]) => late'[d] = 0
           /\ ~MayExecute(circuit'[d]) =>
                 late'[d] + Cardinality(Affording(d)') <= Cardinality(Slots)
  <1>1. MayExecute(circuit'[d]) => late'[d] = 0
    BY DEF LateInv
  <1>2. late[d] \in Nat /\ late'[d] \in Nat /\ late'[d] <= late[d]
    BY DEF TypeOK
  <1>3. /\ IsFiniteSet(Affording(d)') /\ Cardinality(Affording(d)') \in Nat
        /\ Cardinality(Affording(d)') <= Cardinality(Slots) /\ Cardinality(Slots) \in Nat
    BY SlotsFinite, FS_Subset, FS_CardinalityType DEF Affording
  <1>4. ASSUME ~MayExecute(circuit'[d])
        PROVE  late'[d] + Cardinality(Affording(d)') <= Cardinality(Slots)
    <2>1. CASE MayExecute(circuit[d])
      <3>1. late'[d] = 0
        BY <1>2, <2>1 DEF LateInv
      <3> QED BY <1>3, <3>1
    <2>2. CASE ~MayExecute(circuit[d])
      <3>1. Affording(d)' \subseteq Affording(d)
        BY <1>4, <2>2
      <3>2. Cardinality(Affording(d)') <= Cardinality(Affording(d))
        BY <3>1, AffordingFinite, FS_Subset
      <3>3. late[d] + Cardinality(Affording(d)) <= Cardinality(Slots)
        BY <2>2 DEF LateInv, LateExecutionsBounded, Affording
      <3> QED
        BY <1>2, <1>3, <3>2, <3>3, AffordingFinite
    <2> QED BY <2>1, <2>2
  <1> QED BY <1>1, <1>4

\* A step that begins no execution, opens no breaker under a waiting tick and sends no new one there keeps the bound.
LEMMA NoneBegunAnywhere ==
    ASSUME TypeOK, TypeOK', LateInv,
           \A d \in Daemons : late'[d] = late[d] \/ late'[d] = 0,
           \A d \in Daemons : MayExecute(circuit'[d]) => MayExecute(circuit[d]) \/ late'[d] = 0,
           \A d \in Daemons :
               ~MayExecute(circuit'[d]) =>
                   MayExecute(circuit[d]) \/ Affording(d)' \subseteq Affording(d)
    PROVE  LateInv'
  <1>2. \A d \in Daemons : MayExecute(circuit'[d]) => late'[d] = 0
    BY NoneBegun
  <1>3. LateExecutionsBounded'
    <2>1. \A d \in Daemons : ~MayExecute(circuit'[d]) =>
              late'[d] + Cardinality(Affording(d)') <= Cardinality(Slots)
      BY NoneBegun
    <2> QED BY <2>1 DEF LateExecutionsBounded, Affording
  <1> QED BY <1>2, <1>3 DEF LateInv

\* A step of one tick that does not leave it waiting for canAfford().
LEMMA LeavesAffording ==
    ASSUME TypeOK, NEW t \in Ticks, NEW k, tick' = [tick EXCEPT ![t] = k], k.pc # "affording"
    PROVE  \A d \in Daemons : Affording(d)' = IF d = t[1] THEN Affording(d) \ {t[2]}
                                                          ELSE Affording(d)
  <1>1. \A u \in Ticks : tick'[u] = IF u = t THEN k ELSE tick[u]
    BY OtherTicks
  <1>2. \A d \in Daemons, s \in Slots : <<d, s>> \in Ticks
    BY DEF Ticks
  <1>3. t = <<t[1], t[2]>>
    BY DEF Ticks
  <1>4. \A d \in Daemons, s \in Slots : <<d, s>> = t <=> d = t[1] /\ s = t[2]
    BY <1>3
  <1>5. \A d \in Daemons, s \in Slots :
            tick'[<<d, s>>].pc = "affording" <=>
               tick[<<d, s>>].pc = "affording" /\ ~(d = t[1] /\ s = t[2])
    BY <1>1, <1>2, <1>4
  <1> QED
    BY <1>5 DEF Affording

\* An open breaker closes only by a reset or a restart.
LEMMA StaysOpen ==
    ASSUME TypeOK, [Next]_vars, NEW d \in Daemons, MayExecute(circuit'[d])
    PROVE  MayExecute(circuit[d]) \/ late'[d] = 0
  <1>1. circuit[d] \in Breaker /\ Today \in Nat
    BY TodayType DEF TypeOK
  <1>2. ASSUME NEW filled \in BOOLEAN, NEW pnl \in Int,
               circuit'[d] = RecordExecution(circuit[d], filled, pnl, Today)
        PROVE  MayExecute(circuit[d])
    BY <1>1, <1>2, RecordKeepsLimits
  <1>3. circuit'[d] # Tripped(circuit[d])
    BY <1>1 DEF Tripped, MayExecute, Breaker
  <1> QED
    BY <1>2, <1>3, CircuitStep

\* No step exceeds the bound on late executions.
LEMMA StepLate == IInv /\ TypeOK' /\ LateInv /\ [Next]_vars => LateInv'
  <1> SUFFICES ASSUME IInv, TypeOK', LateInv, [Next]_vars PROVE LateInv'
    OBVIOUS
  <1>1. TypeOK
    BY DEF IInv
  <1>2. \A d \in Daemons : MayExecute(circuit'[d]) => MayExecute(circuit[d]) \/ late'[d] = 0
    BY <1>1, StaysOpen
  <1>3. ASSUME tick' = tick, \A d \in Daemons : late'[d] = late[d] \/ late'[d] = 0
        PROVE  LateInv'
    BY <1>1, <1>2, <1>3, NoneBegunAnywhere DEF Affording
  <1>4. ASSUME NEW t \in Ticks, NEW k, tick' = [tick EXCEPT ![t] = k], k.pc # "affording",
               late' = late
        PROVE  LateInv'
    BY <1>1, <1>2, <1>4, LeavesAffording, NoneBegunAnywhere
  <1>5. ASSUME NEW t \in Ticks, TickStep(t)
        PROVE  LateInv'
    <2>1. tick[t] \in TickType /\ t[1] \in Daemons /\ t[2] \in Slots /\ t = <<t[1], t[2]>>
      BY <1>1 DEF TypeOK, Ticks
    <2>2. \A S : WithBatch(S).pc # "affording" /\ IdleTick.pc # "affording"
      BY DEF WithBatch, IdleTick
    <2>3. ASSUME NEW S \in SUBSET Rows,
                 ClaimAtOnce(t, S) \/ SelectCandidates(t, S) \/ ClaimThrows(t, S)
          PROVE  LateInv'
      <3>1. [tick[t] EXCEPT !.pc = "claiming", !.cand = S].pc # "affording"
        BY <2>1 DEF TickType
      <3> QED
        BY <1>4, <2>2, <2>3, <3>1 DEF ClaimAtOnce, SelectCandidates, ClaimThrows
    <2>4. CASE ClaimCandidates(t)
      BY <1>4, <2>2, <2>4 DEF ClaimCandidates
    <2>5. ASSUME NEW q \in Rows, NEW pc \in Phases, pc # "affording", NEW final,
                 Advance(t, q, pc, final), late' = late
          PROVE  LateInv'
      <3> DEFINE k == [tick[t] EXCEPT !.pc = pc, !.batch = tick[t].batch \ {q},
                                      !.cur = q, !.final = final]
      <3>1. k.pc # "affording"
        BY <2>1, <2>5 DEF TickType
      <3>2. tick' = [tick EXCEPT ![t] = k]
        BY <2>5 DEF Advance
      <3> HIDE DEF k
      <3> QED BY <1>4, <2>5, <3>1, <3>2
    <2>6. ASSUME NEW q \in Rows, DecideWithout(t, q) PROVE LateInv'
      BY <2>5, <2>6 DEF DecideWithout, Phases
    <2>7. ASSUME NEW q \in Rows, DecideToExecute(t, q) PROVE LateInv'
      <3>1. late' = late
        BY <2>7 DEF DecideToExecute, Cleared, BeginExecution
      <3> QED
        BY <2>5, <2>7, <3>1 DEF DecideToExecute, Phases
    <2>8. ASSUME NEW q \in Rows, DecideToCheck(t, q) PROVE LateInv'
      <3>1. /\ MayExecute(circuit[t[1]]) /\ late' = late
            /\ \A u \in Ticks \ {t} : tick'[u] = tick[u]
        BY <1>1, <2>8 DEF DecideToCheck, Cleared, Advance, TypeOK
      <3>2. ASSUME NEW d \in Daemons, d # t[1]
            PROVE  Affording(d)' = Affording(d)
        <4>1. \A s \in Slots : <<d, s>> \in Ticks \ {t}
          BY <2>1, <3>2 DEF Ticks
        <4> QED BY <3>1, <4>1 DEF Affording
      <3> QED
        BY <1>1, <1>2, <3>1, <3>2, NoneBegunAnywhere
    <2>9. CASE Afforded(t)
      <3>1. tick[t].pc = "affording"
        BY <2>9 DEF Afforded
      <3>2. CASE /\ tick' = [tick EXCEPT ![t] = [@ EXCEPT !.pc = "resolving", !.final = "rejected"]]
                 /\ late' = late
        <4>1. [tick[t] EXCEPT !.pc = "resolving", !.final = "rejected"].pc # "affording"
          BY <2>1 DEF TickType
        <4> QED BY <1>4, <3>2, <4>1
      <3>3. CASE /\ tick' = [tick EXCEPT ![t] = [@ EXCEPT !.pc = "executing"]]
                 /\ BeginExecution(t, tick[t].cur)
        <4> DEFINE k == [tick[t] EXCEPT !.pc = "executing"]
                   d == t[1]
        <4>1. k.pc # "affording" /\ tick' = [tick EXCEPT ![t] = k]
          BY <2>1, <3>3 DEF TickType
        <4>2. CASE MayExecute(circuit[d])
          BY <1>4, <3>3, <4>1, <4>2 DEF BeginExecution
        <4>3. CASE ~MayExecute(circuit[d])
          <5>1. /\ late'[d] = late[d] + 1 /\ circuit' = circuit
                /\ \A e \in Daemons \ {d} : late'[e] = late[e]
            BY <1>1, <2>1, <2>9, <3>3, <4>3 DEF BeginExecution, Afforded, TypeOK
          <5>2. \A e \in Daemons : Affording(e)' = IF e = d THEN Affording(e) \ {t[2]}
                                                           ELSE Affording(e)
            <6> HIDE DEF k
            <6> QED BY <1>1, <4>1, LeavesAffording
          <5>3. t[2] \in Affording(d)
            BY <2>1, <3>1 DEF Affording
          <5>4. Cardinality(Affording(d)') = Cardinality(Affording(d)) - 1
            BY <2>1, <5>2, <5>3, AffordingFinite, FS_RemoveElement
          <5>5. late[d] + Cardinality(Affording(d)) <= Cardinality(Slots)
            BY <2>1, <4>3 DEF LateInv, LateExecutionsBounded, Affording
          <5>6. late'[d] + Cardinality(Affording(d)') <= Cardinality(Slots)
            BY <1>1, <2>1, <5>1, <5>4, <5>5, AffordingFinite DEF TypeOK
          <5>7. \A e \in Daemons \ {d} : ~MayExecute(circuit'[e]) =>
                    late'[e] + Cardinality(Affording(e)') <= Cardinality(Slots)
            BY <5>1, <5>2 DEF LateInv, LateExecutionsBounded, Affording
          <5>8. \A e \in Daemons : MayExecute(circuit'[e]) => late'[e] = 0
            BY <4>3, <5>1 DEF LateInv
          <5>9. LateExecutionsBounded'
            BY <5>6, <5>7 DEF LateExecutionsBounded, Affording
          <5> QED BY <5>8, <5>9 DEF LateInv
        <4> QED BY <4>2, <4>3
      <3> QED BY <2>9, <3>2, <3>3 DEF Afforded
    <2>10. ASSUME NEW o \in Outcomes, NEW pnl \in PnLs, Executed(t, o, pnl) PROVE LateInv'
      <3>1. [tick[t] EXCEPT !.pc = "resolving", !.final = FinalStatus(o)].pc # "affording"
        BY <2>1 DEF TickType
      <3> QED BY <1>4, <2>10, <3>1 DEF Executed
    <2>11. CASE Resolve(t) \/ ResolveFails(t)
      BY <1>4, <2>2, <2>11 DEF Resolve, ResolveFails, NextRow
    <2> QED
      BY <1>5, <2>3, <2>4, <2>6, <2>7, <2>8, <2>9, <2>10, <2>11 DEF TickStep
  <1>6. ASSUME NEW d \in Daemons, Reset(d)
        PROVE  LateInv'
    BY <1>1, <1>3, <1>6 DEF Reset, TypeOK
  <1>7. ASSUME NEW d \in Daemons, Crash(d)
        PROVE  LateInv'
    <2>1. /\ \A u \in Ticks : tick'[u] = IF u[1] = d THEN IdleTick ELSE tick[u]
          /\ \A e \in Daemons : late'[e] = late[e] \/ late'[e] = 0
      BY <1>1, <1>7 DEF Crash, TypeOK
    <2>2. \A e \in Daemons, s \in Slots : <<e, s>> \in Ticks
      BY DEF Ticks
    <2>3. \A e \in Daemons : Affording(e)' \subseteq Affording(e)
      BY <2>1, <2>2 DEF Affording, IdleTick
    <2> QED
      BY <1>1, <1>2, <2>1, <2>3, NoneBegunAnywhere
  <1> QED
    BY <1>3, <1>5, <1>6, <1>7 DEF Next, vars, Observe, Elapse, Stop, Start, ExternalTrip

\* The bound holds throughout, with the invariant it rests on.
LEMMA LateInvariant == Spec => [](IInv /\ LateInv)
  <1>1. Init => LateInv
    <2> SUFFICES ASSUME Init PROVE LateInv
      OBVIOUS
    <2>1. \A d \in Daemons : late[d] = 0 /\ MayExecute(circuit[d])
      BY DEF Init, FreshBreaker, MayExecute
    <2> QED
      BY <2>1 DEF LateInv, LateExecutionsBounded
  <1>2. IInv /\ LateInv /\ [Next]_vars => LateInv'
    BY StepIInv, StepLate DEF IInv
  <1> QED
    BY <1>1, <1>2, Invariance, PTL DEF Spec

\* No more executions begin on an open breaker than ticks were waiting for canAfford() when
\* it opened (index.ts, runLive).
THEOREM LateOnesAreBounded == Spec => []LateExecutionsBounded
  <1>1. LateInv => LateExecutionsBounded
    BY DEF LateInv
  <1> QED
    BY <1>1, LateInvariant, PTL

----------------------------------------------------------------------------
(* Rows and the audit trail.                                                *)

\* What one step may do to the status of a row.
LEMMA RowStep ==
    ASSUME IInv, [Next]_vars, NEW q \in Rows
    PROVE  \/ row'[q] = row[q]
           \/ row[q].status = "absent" /\ row'[q].status = "pending" /\ row'[q].claimedBy = None
           \/ row[q].status = "pending" /\ row'[q].status \in {"claimed", "expired"}
           \/ \E t \in Ticks : /\ Resolve(t) /\ q = tick[t].cur /\ q \in Held(t)
                               /\ row[q].status = "claimed"
                               /\ row'[q] = [row[q] EXCEPT !.status = tick[t].final]
           \/ row'[q].status = "gone"
  <1> USE DEF IInv, TypeOK
  <1>1. CASE UNCHANGED row
    BY <1>1
  <1>2. ASSUME NEW r \in Rows, NEW k \in Kinds, NEW ttl \in TTLs, Observe(r, k, ttl)
        PROVE  \/ row'[q] = row[q]
               \/ row[q].status = "absent" /\ row'[q].status = "pending" /\ row'[q].claimedBy = None
    BY <1>2 DEF Observe, Publish
  <1>3. ASSUME NEW t \in Ticks, NEW S \in SUBSET Rows, ClaimAtOnce(t, S)
        PROVE  \/ row'[q] = row[q]
               \/ row[q].status = "pending" /\ row'[q].status \in {"claimed", "expired"}
    <2>1. S \in SUBSET LiveRows /\ t[1] \in Daemons
      BY <1>3 DEF ClaimAtOnce, OldestBatch, Ticks
    <2>2. row' = ClaimInMemory(S, t[1]) /\ \A r \in S : row[r].status = "pending"
      BY <1>3, <2>1 DEF ClaimAtOnce, LiveRows, Live, Pending
    <2>3. /\ \A r \in S : row'[r].status = "claimed"
          /\ \A r \in Rows \ S : \/ row'[r] = row[r]
                                 \/ row[r].status = "pending" /\ row'[r].status = "expired"
      <3>1. \A r \in S : r \in Rows /\ r \notin WalkedDead(S)
        BY <2>1 DEF LiveRows, Live, WalkedDead, RowType
      <3>2. \A r \in WalkedDead(S) : r \in Rows /\ row[r].status = "pending"
        BY DEF WalkedDead, Pending
      <3> QED
        BY <2>1, <2>2, <3>1, <3>2 DEF ClaimInMemory, MarkClaimed, RowType
    <2> QED
      BY <2>2, <2>3
  <1>4. ASSUME NEW d \in Daemons, NEW S \in SUBSET Rows, row' = MarkClaimed(S, d),
               \A r \in S : Pending(r)
        PROVE  \/ row'[q] = row[q]
               \/ row[q].status = "pending" /\ row'[q].status \in {"claimed", "expired"}
    <2>1. /\ \A r \in S : row'[r].status = "claimed"
          /\ \A r \in Rows \ S : row'[r] = row[r]
      BY <1>4 DEF MarkClaimed, RowType
    <2> QED
      BY <1>4, <2>1 DEF Pending
  <1>5. ASSUME NEW t \in Ticks, ClaimCandidates(t)
        PROVE  \/ row'[q] = row[q]
               \/ row[q].status = "pending" /\ row'[q].status \in {"claimed", "expired"}
    <2>1. StillPending(tick[t].cand) \in SUBSET Rows /\ t[1] \in Daemons
      BY DEF StillPending, TickType, Ticks
    <2> QED
      BY <1>4, <1>5, <2>1 DEF ClaimCandidates, StillPending
  <1>6. ASSUME NEW t \in Ticks, NEW S \in SUBSET Rows, ClaimThrows(t, S)
        PROVE  \/ row'[q] = row[q]
               \/ row[q].status = "pending" /\ row'[q].status \in {"claimed", "expired"}
    BY <1>4, <1>6 DEF ClaimThrows, StillPending, Ticks
  <1>7. ASSUME NEW t \in Ticks, Resolve(t)
        PROVE  \/ row'[q] = row[q]
               \/ /\ Resolve(t) /\ q = tick[t].cur /\ q \in Held(t) /\ row[q].status = "claimed"
                  /\ row'[q] = [row[q] EXCEPT !.status = tick[t].final]
    <2>1. q = tick[t].cur => q \in Held(t) /\ row[q].status = "claimed"
      BY ChannelConstants DEF Held, Ownership
    <2>2. row'[q] = IF q = tick[t].cur THEN [row[q] EXCEPT !.status = tick[t].final] ELSE row[q]
      BY <1>7 DEF Resolve, Resolved
    <2> QED BY <1>7, <2>1, <2>2
  <1>8. ASSUME NEW d \in Daemons, Crash(d)
        PROVE  row'[q] = row[q] \/ row'[q].status = "gone"
    <2>1. row' = row \/ row'[q] = row[q] \/ row'[q] = [row[q] EXCEPT !.status = "gone"]
      BY <1>8 DEF Crash
    <2>2. row[q] \in RowType
      OBVIOUS
    <2> QED BY <2>1, <2>2 DEF RowType
  <1> QED
    BY <1>1, <1>2, <1>3, <1>5, <1>6, <1>7, <1>8
    DEF Next, vars, Elapse, TickStep, SelectCandidates, DecideWithout, DecideToCheck,
        DecideToExecute, Afforded, Executed, ResolveFails, Stop, Start, ExternalTrip, Reset

\* A claimed row never returns to the queue and a terminal status is final, although
\* resolve() asks nothing of the row it overwrites (event-channel/index.ts).
THEOREM RowsAdvance == Spec => RowsOnlyAdvance
  <1>1. ASSUME IInv, [Next]_vars, NEW q \in Rows
        PROVE  /\ row[q].status \in Terminal \union {"gone"} =>
                      row'[q].status \in {row[q].status, "gone"}
               /\ row[q].status = "claimed" => row'[q].status # "pending"
    <2>1. ASSUME NEW t \in Ticks, Resolve(t), row[q].status = "claimed",
                 row'[q] = [row[q] EXCEPT !.status = tick[t].final]
          PROVE  row'[q].status # "pending"
      <3>1. row[q] \in RowType /\ tick[t].final \in Terminal
        BY <1>1, <2>1 DEF IInv, TypeOK, Shape, Resolve
      <3> QED BY <2>1, <3>1 DEF RowType, Terminal
    <2> QED BY <1>1, <2>1, RowStep DEF Terminal
  <1>2. IInv /\ [Next]_vars =>
            [\A q \in Rows :
                 /\ row[q].status \in Terminal \union {"gone"} =>
                       row'[q].status \in {row[q].status, "gone"}
                 /\ row[q].status = "claimed" => row'[q].status # "pending"]_vars
    BY <1>1
  <1> QED
    BY <1>2, Invariance, PTL DEF Spec, RowsOnlyAdvance

\* What AuditTruthful needs to be inductive: a row that was claimed by a live daemon has a
\* status that agrees with what an executor returned, if one was called ...
Agrees(status, returned, runs) ==
    /\ status = "filled" => returned = "filled"
    /\ status = "failed" => returned \in {"reverted", "stuck"}
    /\ status = "rejected" => returned \in {"aborted", "declined"} \/ runs = 0

Audited == \A q \in Rows : row[q].claimedBy # None /\ Mode[row[q].claimedBy] = "live" =>
               Agrees(row[q].status, outcome[q], ran[q])

\* ... and so has the tick about to resolve it ...
Told == \A t \in Ticks : tick[t].pc = "resolving" /\ Mode[t[1]] = "live" =>
            Agrees(tick[t].final, outcome[tick[t].cur], ran[tick[t].cur])

\* ... while nothing is returned for a row before an executor is called.
Called == /\ \A q \in Rows : ran[q] = 0 => outcome[q] = None
          /\ \A t \in Ticks : tick[t].pc = "executing" => ran[tick[t].cur] # 0

\* Only what a tick holds is executed, and has an outcome.
LEMMA OutcomeStep ==
    ASSUME IInv, [Next]_vars, NEW q \in Rows
    PROVE  \/ outcome'[q] = outcome[q] /\ ran'[q] = ran[q]
           \/ row[q].status = "claimed"
  <1> USE DEF IInv, TypeOK
  <1>1. CASE outcome' = outcome /\ ran' = ran
    BY <1>1
  <1>2. ASSUME NEW t \in Ticks, NEW r \in Rows, DecideToExecute(t, r)
        PROVE  (outcome'[q] = outcome[q] /\ ran'[q] = ran[q]) \/ row[q].status = "claimed"
    BY <1>2 DEF DecideToExecute, BeginExecution, Ownership, Held
  <1>3. ASSUME NEW t \in Ticks, tick[t].pc \in {"affording", "executing"},
               Afforded(t) \/ \E o \in Outcomes, pnl \in PnLs : Executed(t, o, pnl)
        PROVE  (outcome'[q] = outcome[q] /\ ran'[q] = ran[q]) \/ row[q].status = "claimed"
    <2>1. tick[t].cur = q => row[q].status = "claimed"
      BY ChannelConstants DEF Ownership, Held
    <2>2. tick[t].cur # q => outcome'[q] = outcome[q] /\ ran'[q] = ran[q]
      BY <1>3 DEF Afforded, Executed, BeginExecution
    <2> QED BY <2>1, <2>2
  <1> QED
    BY <1>1, <1>2, <1>3
    DEF Next, vars, Observe, Elapse, TickStep, ClaimAtOnce, SelectCandidates, ClaimThrows,
        ClaimCandidates, DecideWithout, DecideToCheck, Afforded, Executed, Resolve,
        ResolveFails, Stop, Start, ExternalTrip, Reset, Crash

\* No step files a row under something that did not happen to it.
LEMMA StepAudit == IInv /\ Told /\ Audited /\ [Next]_vars => Audited'
  <1> SUFFICES ASSUME IInv, Told, Audited, [Next]_vars, NEW q \in Rows,
                      row'[q].claimedBy # None, Mode[row'[q].claimedBy] = "live"
               PROVE  Agrees(row'[q].status, outcome'[q], ran'[q])
    BY DEF Audited, Agrees
  <1>1. CASE row'[q] = row[q]
    <2>1. Agrees(row[q].status, outcome[q], ran[q])
      BY <1>1 DEF Audited, Agrees
    <2> QED
      BY <1>1, <2>1, OutcomeStep DEF Agrees
  <1>2. ASSUME NEW t \in Ticks, Resolve(t), q = tick[t].cur, q \in Held(t),
               row'[q] = [row[q] EXCEPT !.status = tick[t].final]
        PROVE  Agrees(row'[q].status, outcome'[q], ran'[q])
    <2>1. row[q] \in RowType /\ row[q].claimedBy = t[1]
      BY <1>2 DEF IInv, TypeOK, Ownership
    <2>2. row'[q].status = tick[t].final /\ row'[q].claimedBy = t[1]
      BY <1>2, <2>1 DEF RowType
    <2>3. Agrees(tick[t].final, outcome[q], ran[q])
      BY <1>2, <2>2 DEF Told, Resolve
    <2>4. outcome' = outcome /\ ran' = ran
      BY <1>2 DEF Resolve
    <2> QED
      BY <2>2, <2>3, <2>4 DEF Agrees
  <1>3. CASE row'[q].status \in {"pending", "claimed", "expired", "gone"}
    BY <1>3 DEF Agrees
  <1> QED
    BY <1>1, <1>2, <1>3, RowStep

\* A step of tick t that ends outside `resolving', or in it with a status that agrees.
LEMMA ToldTick ==
    ASSUME IInv, Told, [Next]_vars, NEW t \in Ticks, NEW k \in TickType, tick' = [tick EXCEPT ![t] = k],
           \A q \in Rows \ Held(t) : outcome'[q] = outcome[q] /\ ran'[q] = ran[q],
           k.pc = "resolving" /\ Mode[t[1]] = "live" => Agrees(k.final, outcome'[k.cur], ran'[k.cur])
    PROVE  Told'
  <1>1. \A u \in Ticks : tick'[u] = IF u = t THEN k ELSE tick[u]
    BY DEF IInv, TypeOK
  <1>2. ASSUME NEW u \in Ticks \ {t}, tick[u].pc = "resolving", Mode[u[1]] = "live"
        PROVE  Agrees(tick[u].final, outcome'[tick[u].cur], ran'[tick[u].cur])
    <2>1. tick[u].cur \in Rows /\ tick[u].cur \in Held(u)
      BY <1>2, ChannelConstants DEF IInv, Shape, Held
    <2>2. tick[u].cur \notin Held(t)
      BY <1>2, <2>1 DEF IInv, Ownership
    <2>3. Agrees(tick[u].final, outcome[tick[u].cur], ran[tick[u].cur]) /\ tick'[u] = tick[u]
      BY <1>1, <1>2 DEF Told
    <2> QED
      BY <2>1, <2>2, <2>3 DEF Agrees
  <1> QED
    BY <1>1, <1>2 DEF Told

\* No step makes a tick believe what its executor did not answer.
LEMMA StepTold == IInv /\ Told /\ [Next]_vars => Told'
  <1> SUFFICES ASSUME IInv, Told, [Next]_vars PROVE Told'
    OBVIOUS
  <1>1. CASE UNCHANGED <<tick, outcome, ran>>
    BY <1>1 DEF Told
  <1>2. ASSUME NEW t \in Ticks, TickStep(t)
        PROVE  Told'
    <2>1. tick[t] \in TickType /\ t[1] \in Daemons
      BY DEF IInv, TypeOK, Ticks
    <2>2. ASSUME NEW k \in TickType, tick' = [tick EXCEPT ![t] = k], k.pc # "resolving",
                 outcome' = outcome, ran' = ran
          PROVE  Told'
      BY <2>2, ToldTick
    <2>3. \A S \in SUBSET Rows : WithBatch(S) \in TickType /\ WithBatch(S).pc # "resolving"
      BY DEF WithBatch, IdleTick, TickType, Phases
    <2>4. IdleTick \in TickType /\ IdleTick.pc # "resolving"
      BY DEF IdleTick, TickType, Phases
    <2>5. ASSUME NEW S \in SUBSET Rows,
                 ClaimAtOnce(t, S) \/ SelectCandidates(t, S) \/ ClaimThrows(t, S)
          PROVE  Told'
      <3>1. [tick[t] EXCEPT !.pc = "claiming", !.cand = S] \in TickType
        BY <2>1, TickUpdateType DEF Phases
      <3>2. [tick[t] EXCEPT !.pc = "claiming", !.cand = S].pc = "claiming"
        BY <2>1 DEF TickType
      <3> QED
        BY <2>2, <2>3, <2>4, <2>5, <3>1, <3>2 DEF ClaimAtOnce, SelectCandidates, ClaimThrows
    <2>6. CASE ClaimCandidates(t)
      <3>1. StillPending(tick[t].cand) \in SUBSET Rows
        BY <2>1 DEF StillPending, TickType
      <3> QED
        BY <2>2, <2>3, <2>6, <3>1 DEF ClaimCandidates
    <2>7. ASSUME NEW q \in tick[t].batch, NEW pc \in Phases, NEW final \in Terminal \union {None},
                 Advance(t, q, pc, final),
                 \A r \in Rows \ Held(t) : outcome'[r] = outcome[r] /\ ran'[r] = ran[r],
                 pc = "resolving" /\ Mode[t[1]] = "live" =>
                     Agrees(final, outcome'[q], ran'[q])
          PROVE  Told'
      <3> DEFINE k == [tick[t] EXCEPT !.pc = pc, !.batch = tick[t].batch \ {q},
                                      !.cur = q, !.final = final]
      <3>1. k \in TickType /\ k.pc = pc /\ k.cur = q /\ k.final = final
        <4>1. q \in Rows
          BY <2>1 DEF TickType
        <4>2. k \in TickType
          BY <2>1, <4>1, TickUpdateType
        <4> QED BY <2>1, <4>2 DEF TickType
      <3>2. tick' = [tick EXCEPT ![t] = k]
        BY <2>7 DEF Advance
      <3> HIDE DEF k
      <3> QED BY <2>7, <3>1, <3>2, ToldTick
    <2>8. ASSUME NEW q \in Rows, DecideWithout(t, q) PROVE Told'
      <3>1. q \in tick[t].batch /\ outcome' = outcome /\ ran' = ran
        BY <2>8 DEF DecideWithout
      <3>2. Agrees("rejected", outcome'[q], ran'[q])
        BY <3>1 DEF IInv, Fresh, Agrees
      <3> QED
        BY <2>7, <2>8, <3>1, <3>2 DEF DecideWithout, Phases, Terminal
    <2>9. ASSUME NEW q \in Rows, DecideToCheck(t, q) PROVE Told'
      BY <2>7, <2>9 DEF DecideToCheck, Phases
    <2>10. ASSUME NEW q \in Rows, DecideToExecute(t, q) PROVE Told'
      <3>1. \A r \in Rows \ Held(t) : outcome'[r] = outcome[r] /\ ran'[r] = ran[r]
        BY <2>10 DEF DecideToExecute, BeginExecution, Held, IInv, TypeOK
      <3> QED
        BY <2>7, <2>10, <3>1 DEF DecideToExecute, Phases
    <2>11. CASE Afforded(t)
      <3>1. /\ tick[t].pc = "affording" /\ outcome' = outcome
            /\ tick[t].cur \in Rows /\ tick[t].cur \in Held(t) /\ ran[tick[t].cur] = 0
        BY <2>11, ChannelConstants DEF Afforded, IInv, Shape, Fresh, Held
      <3>2. CASE /\ tick' = [tick EXCEPT ![t] = [@ EXCEPT !.pc = "resolving", !.final = "rejected"]]
                 /\ ran' = ran
        <4> DEFINE k == [tick[t] EXCEPT !.pc = "resolving", !.final = "rejected"]
        <4>1. k \in TickType
          BY <2>1, TickUpdateType DEF Phases, Terminal
        <4>2. k.cur = tick[t].cur /\ k.final = "rejected" /\ tick' = [tick EXCEPT ![t] = k]
          BY <2>1, <3>2 DEF TickType
        <4> HIDE DEF k
        <4>3. Agrees(k.final, outcome'[k.cur], ran'[k.cur])
          BY <3>1, <3>2, <4>2 DEF Agrees
        <4> QED BY <3>1, <3>2, <4>1, <4>2, <4>3, ToldTick
      <3>3. CASE /\ tick' = [tick EXCEPT ![t] = [@ EXCEPT !.pc = "executing"]]
                 /\ BeginExecution(t, tick[t].cur)
        <4> DEFINE k == [tick[t] EXCEPT !.pc = "executing"]
        <4>1. k \in TickType
          BY <2>1, TickUpdateType DEF Phases
        <4>2. k.pc = "executing" /\ tick' = [tick EXCEPT ![t] = k]
          BY <2>1, <3>3 DEF TickType
        <4>3. \A r \in Rows \ Held(t) : outcome'[r] = outcome[r] /\ ran'[r] = ran[r]
          BY <3>1, <3>3 DEF BeginExecution, IInv, TypeOK
        <4> HIDE DEF k
        <4> QED BY <4>1, <4>2, <4>3, ToldTick
      <3> QED BY <2>11, <3>2, <3>3 DEF Afforded
    <2>12. ASSUME NEW o \in Outcomes, NEW pnl \in PnLs, Executed(t, o, pnl) PROVE Told'
      <3> DEFINE k == [tick[t] EXCEPT !.pc = "resolving", !.final = FinalStatus(o)]
      <3>1. FinalStatus(o) \in Terminal
        BY DEF FinalStatus, Outcomes, Terminal
      <3>2. k \in TickType
        BY <2>1, <3>1, TickUpdateType DEF Phases
      <3>3. k.cur = tick[t].cur /\ k.final = FinalStatus(o) /\ tick' = [tick EXCEPT ![t] = k]
        BY <2>1, <2>12 DEF TickType, Executed
      <3>4. tick[t].cur \in Rows /\ tick[t].cur \in Held(t)
        BY <2>12, ChannelConstants DEF Executed, IInv, Shape, Held
      <3>5. /\ outcome'[tick[t].cur] = o /\ ran' = ran
            /\ \A r \in Rows \ Held(t) : outcome'[r] = outcome[r]
        BY <2>12, <3>4 DEF Executed, IInv, TypeOK
      <3>6. \A n : Agrees(FinalStatus(o), o, n)
        BY DEF Agrees, FinalStatus, Outcomes
      <3> HIDE DEF k
      <3> QED BY <3>2, <3>3, <3>5, <3>6, ToldTick
    <2>13. CASE Resolve(t) \/ ResolveFails(t)
      <3>1. tick[t].batch \in SUBSET Rows
        BY <2>1 DEF TickType
      <3> QED
        BY <2>2, <2>3, <2>13, <3>1 DEF Resolve, ResolveFails, NextRow
    <2> QED
      BY <1>2, <2>5, <2>6, <2>8, <2>9, <2>10, <2>11, <2>12, <2>13 DEF TickStep
  <1>3. ASSUME NEW d \in Daemons, Crash(d)
        PROVE  Told'
    BY <1>3 DEF Crash, Told, IdleTick
  <1> QED
    BY <1>1, <1>2, <1>3 DEF Next, vars, Observe, Elapse, Stop, Start, ExternalTrip, Reset

\* An executor answers only after it was called.
LEMMA StepCalled == IInv /\ Called /\ [Next]_vars => Called'
  <1> SUFFICES ASSUME IInv, Called, [Next]_vars PROVE Called'
    OBVIOUS
  <1>0. /\ \A t \in Ticks : tick[t] \in TickType
        /\ ran \in [Rows -> Nat] /\ \A q \in Rows : ran[q] \in Nat
        /\ tick \in [Ticks -> TickType]
    BY DEF IInv, TypeOK
  \* A tick that does not begin to execute.
  <1>1. ASSUME NEW t \in Ticks, NEW k, tick' = [tick EXCEPT ![t] = k], k.pc # "executing",
               ran' = ran, outcome' = outcome
        PROVE  Called'
    BY <1>0, <1>1 DEF Called
  \* One that does.
  <1>2. ASSUME NEW t \in Ticks, NEW k, tick' = [tick EXCEPT ![t] = k], BeginExecution(t, k.cur),
               k.cur \in Rows, outcome' = outcome
        PROVE  Called'
    <2>1. \A q \in Rows : ran'[q] = IF q = k.cur THEN ran[q] + 1 ELSE ran[q]
      BY <1>0, <1>2 DEF BeginExecution
    <2>2. \A q \in Rows : ran'[q] = 0 => ran[q] = 0
      BY <1>0, <2>1
    <2>3. \A u \in Ticks : tick'[u] = IF u = t THEN k ELSE tick[u]
      BY <1>0, <1>2
    <2>4. ASSUME NEW u \in Ticks, tick'[u].pc = "executing" PROVE ran'[tick'[u].cur] # 0
      <3>1. CASE u = t
        BY <1>0, <1>2, <2>1, <2>3, <3>1
      <3>2. CASE u # t
        <4>1. tick'[u] = tick[u] /\ tick[u].pc = "executing"
          BY <2>3, <2>4, <3>2
        <4>2. ran[tick[u].cur] # 0 /\ tick[u].cur \in Rows
          BY <4>1, ChannelConstants DEF Called, IInv, Shape
        <4> QED BY <2>2, <4>1, <4>2
      <3> QED BY <3>1, <3>2
    <2> QED BY <1>2, <2>2, <2>4 DEF Called
  \* The executor answers the tick that called it.
  <1>3. ASSUME NEW t \in Ticks, NEW o \in Outcomes, NEW pnl \in PnLs, Executed(t, o, pnl)
        PROVE  Called'
    <2> DEFINE k == [tick[t] EXCEPT !.pc = "resolving", !.final = FinalStatus(o)]
    <2>1. k.pc # "executing" /\ tick' = [tick EXCEPT ![t] = k]
      BY <1>0, <1>3 DEF Executed, TickType
    <2> HIDE DEF k
    <2>2. /\ ran' = ran /\ ran[tick[t].cur] # 0
          /\ \A q \in Rows : outcome'[q] = outcome[q] \/ q = tick[t].cur
      BY <1>3 DEF Executed, Called, IInv, TypeOK
    <2> QED BY <1>0, <2>1, <2>2 DEF Called
  <1>4. ASSUME NEW t \in Ticks, NEW q \in Rows, NEW pc \in Phases, NEW final, Advance(t, q, pc, final),
               outcome' = outcome,
               (pc # "executing" /\ ran' = ran) \/ BeginExecution(t, q)
        PROVE  Called'
    <2> DEFINE k == [tick[t] EXCEPT !.pc = pc, !.batch = tick[t].batch \ {q}, !.cur = q, !.final = final]
    <2>1. k.pc = pc /\ k.cur = q /\ tick' = [tick EXCEPT ![t] = k]
      BY <1>0, <1>4 DEF Advance, TickType
    <2> HIDE DEF k
    <2> QED BY <1>1, <1>2, <1>4, <2>1
  <1>5. ASSUME NEW t \in Ticks, Afforded(t) PROVE Called'
    <2>1. CASE /\ tick' = [tick EXCEPT ![t] = [@ EXCEPT !.pc = "resolving", !.final = "rejected"]]
               /\ ran' = ran /\ outcome' = outcome
      <3>1. [tick[t] EXCEPT !.pc = "resolving", !.final = "rejected"].pc # "executing"
        BY <1>0 DEF TickType
      <3> QED BY <1>1, <2>1, <3>1
    <2>2. CASE /\ tick' = [tick EXCEPT ![t] = [@ EXCEPT !.pc = "executing"]]
               /\ BeginExecution(t, tick[t].cur) /\ outcome' = outcome
      <3>1. [tick[t] EXCEPT !.pc = "executing"].cur = tick[t].cur /\ tick[t].cur \in Rows
        BY <1>0, <1>5, ChannelConstants DEF TickType, Afforded, IInv, Shape
      <3> QED BY <1>2, <2>2, <3>1
    <2> QED BY <1>5, <2>1, <2>2 DEF Afforded
  <1>6. \A S : WithBatch(S).pc # "executing" /\ IdleTick.pc # "executing"
    BY DEF WithBatch, IdleTick
  <1>7. ASSUME NEW t \in Ticks, NEW S \in SUBSET Rows,
               \/ ClaimAtOnce(t, S) \/ SelectCandidates(t, S) \/ ClaimThrows(t, S)
               \/ ClaimCandidates(t) \/ Resolve(t) \/ ResolveFails(t)
        PROVE  Called'
    <2>1. [tick[t] EXCEPT !.pc = "claiming", !.cand = S].pc # "executing"
      BY <1>0 DEF TickType
    <2> QED
      BY <1>1, <1>6, <1>7, <2>1
      DEF ClaimAtOnce, SelectCandidates, ClaimThrows, ClaimCandidates, Resolve, ResolveFails, NextRow
  <1>8. ASSUME NEW t \in Ticks, NEW q \in Rows,
               DecideWithout(t, q) \/ DecideToCheck(t, q) \/ DecideToExecute(t, q)
        PROVE  Called'
    BY <1>4, <1>8 DEF DecideWithout, DecideToCheck, DecideToExecute, Phases
  <1>9. CASE UNCHANGED <<tick, ran, outcome>>
    BY <1>9 DEF Called
  <1>10. ASSUME NEW d \in Daemons, Crash(d) PROVE Called'
    BY <1>0, <1>6, <1>10 DEF Crash, Called
  <1>11. ASSUME NEW t \in Ticks, TickStep(t) PROVE Called'
    <2>1. {} \in SUBSET Rows
      OBVIOUS
    <2> QED BY <1>3, <1>5, <1>7, <1>8, <1>11, <2>1 DEF TickStep
  <1> QED
    BY <1>9, <1>10, <1>11 DEF Next, vars, Observe, Elapse, Stop, Start, ExternalTrip, Reset

\* What the audit trail says of live executions is what the executors told the daemon,
\* however many ticks and daemons share the queue and whichever writes fail (index.ts,
\* runLive and mapExecutorStatus).
THEOREM AuditIsTruthful == Spec => []AuditTruthful
  <1> DEFINE Inv == Told /\ Audited /\ Called
  <1>1. Init => Inv
    BY DEF Init, ChannelInit, Told, Audited, Called, IdleTick, AbsentRow
  <1>2. IInv /\ Inv /\ [Next]_vars => Inv'
    BY StepTold, StepAudit, StepCalled
  <1>3. Inv => AuditTruthful
    <2> SUFFICES ASSUME Audited, Called, NEW q \in Rows, row[q].claimedBy # None,
                        Mode[row[q].claimedBy] = "live"
                 PROVE  /\ row[q].status = "filled" => outcome[q] = "filled"
                        /\ row[q].status = "failed" => outcome[q] \in {"reverted", "stuck"}
                        /\ row[q].status = "rejected" => outcome[q] \notin {"filled", "reverted"}
      BY DEF AuditTruthful
    <2> QED BY DaemonConstants DEF Audited, Agrees, Called, Outcomes
  <1> QED
    BY <1>1, <1>2, <1>3, Invariance, PTL DEF Spec
====
