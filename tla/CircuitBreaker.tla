---- MODULE CircuitBreaker ----
(***************************************************************************)
(* The kill switch of the trade daemon (packages/trade-daemon/circuit.ts)  *)
(* as operators on a breaker record.  The breaker holds no lock: every     *)
(* method runs to completion on the event loop, so each operator is one    *)
(* atomic step of whatever action calls it.                                *)
(*                                                                         *)
(* Time enters only through the day bucket of Date.now(), which the caller *)
(* passes as `today'.  Dollars are small integers; an absent PnL (the      *)
(* default pnlFromOutcome returns null) counts as 0.                       *)
(***************************************************************************)
EXTENDS Integers

CONSTANTS MaxConsecutiveFailures, \* CircuitConfig.maxConsecutiveFailures
          MaxDailyLossUsd         \* CircuitConfig.maxDailyLossUsd

ASSUME BreakerLimits == /\ MaxConsecutiveFailures \in Nat \ {0}
                        /\ MaxDailyLossUsd \in Nat \ {0}

Breaker == [state : {"closed", "open"}, failures : Nat, loss : Nat, day : Nat]

\* new CircuitBreaker(), which is also what reset() leaves behind.
FreshBreaker(today) ==
    [state |-> "closed", failures |-> 0, loss |-> 0, day |-> today]

MayExecute(cb) == cb.state = "closed"

\* maybeRollDay(): only recordExecution() calls it, never canExecute().
RollDay(cb, today) ==
    IF cb.day # today THEN [cb EXCEPT !.loss = 0, !.day = today] ELSE cb

Tripped(cb) == [cb EXCEPT !.state = "open"]

\* Tripping one failure too late (mutant).
RecordOffByOne(cb, filled, pnl, today) ==
    LET rolled   == RollDay(cb, today)
        failures == IF filled THEN 0 ELSE rolled.failures + 1
        loss     == IF pnl < 0 THEN rolled.loss - pnl ELSE rolled.loss
    IN  [rolled EXCEPT !.failures = failures, !.loss = loss,
                       !.state = IF failures > MaxConsecutiveFailures THEN "open" ELSE @]

\* recordExecution(): roll the day, count the failure streak, add the loss,
\* and trip on either limit.
RecordExecution(cb, filled, pnl, today) ==
    LET rolled   == RollDay(cb, today)
        failures == IF filled THEN 0 ELSE rolled.failures + 1
        loss     == IF pnl < 0 THEN rolled.loss - pnl ELSE rolled.loss
        trips    == \/ ~filled /\ failures >= MaxConsecutiveFailures
                    \/ pnl < 0 /\ loss >= MaxDailyLossUsd
    IN  [rolled EXCEPT !.failures = failures, !.loss = loss,
                       !.state = IF trips THEN "open" ELSE @]

\* A closed breaker is below both of its limits.
BelowLimits(cb) == /\ cb.failures < MaxConsecutiveFailures
                   /\ cb.loss < MaxDailyLossUsd
====
