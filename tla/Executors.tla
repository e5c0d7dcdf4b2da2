---- MODULE Executors ----
(***************************************************************************)
(* What execute() of the daemon's executors does with an opportunity, and  *)
(* what it reports of it (apps/daemon/src/executors).  The daemon hands    *)
(* them opportunities one at a time.  "cex" buys on one exchange and sells *)
(* on another; "swap" is the Uniswap executor and the swap of the trading  *)
(* source, whose allowance was granted by hand; "aggregator" grants the    *)
(* allowance of each trade with a transaction of its own.  The wallet's    *)
(* transactions are mined in order (WalletNonce), also after execute() has *)
(* given them up.                                                          *)
(***************************************************************************)
EXTENDS Integers, Sequences

CONSTANTS Opps,    \* opportunities
          Sizes,   \* what a trade spends
          Unmet    \* not reported yet

ASSUME ExecutorConstants == Sizes \subseteq Nat \ {0} /\ Unmet \notin {"filled", "aborted", "stuck", "reverted"}

Executor == {"cex", "swap", "aggregator"}

OppType == [pc : {"new", "buying", "selling", "quoting", "approving", "approvalSent",
                  "swapping", "swapSent", "done"},
            by : Executor, size : Sizes \union {0}, base : -1..1,
            outcome : {"filled", "aborted", "stuck", "reverted", Unmet},
            lost : BOOLEAN, behind : BOOLEAN,
            tx : {"none", "pool", "mined", "reverted", "disallowed"}]
PoolType == [of : Opps, what : {"approve", "swap"}]

VARIABLES opp,       \* the opportunity and how far execute() is with it
          pool,      \* the wallet's transactions not mined yet, in nonce order
          allowance  \* what the aggregator's contract may spend

execVars == <<opp, pool, allowance>>

NewOpp == [pc |-> "new", by |-> "cex", size |-> 0, outcome |-> Unmet,
           base |-> 0,       \* bought and not sold, on exchanges
           lost |-> FALSE,   \* an answer got lost, or an order filled in part
           tx |-> "none",    \* its swap
           behind |-> FALSE] \* the allowance was read with transactions unmined

ExecInit == opp = [o \in Opps |-> NewOpp] /\ pool = <<>> /\ allowance = 0

Busy == \E o \in Opps : opp[o].pc \notin {"new", "done"}

Becomes(o, k)   == opp' = [opp EXCEPT ![o] = k]
Done(o, status) == Becomes(o, [opp[o] EXCEPT !.pc = "done", !.outcome = status])

\* The daemon picks the first executor whose canExecute() accepts it.
Dispatch(o) ==
    /\ ~Busy /\ opp[o].pc = "new"
    /\ \E by \in Executor, size \in Sizes :
          Becomes(o, [opp[o] EXCEPT !.by = by, !.size = size,
                                    !.pc = CASE by = "cex" -> "buying" [] by = "swap" -> "swapping"
                                             [] by = "aggregator" -> "quoting"])
    /\ UNCHANGED <<pool, allowance>>

\* A size, quote or token the executor does not take, too little quote currency, no
\* calldata from the aggregator, or a failed read: nothing has been sent.
Abort(o) ==
    /\ opp[o].pc \in {"buying", "swapping", "quoting"} /\ opp[o].tx = "none"
    /\ Done(o, "aborted")
    /\ UNCHANGED <<pool, allowance>>

----------------------------------------------------------------------------
\* Two immediate-or-cancel orders.  An order is refused, or taken and filled, wholly
\* or not; the answer to an order that was taken may get lost.

Buy(o) ==
    /\ opp[o].pc = "buying"
    /\ \E fill \in {0, 1} :
          \/ Becomes(o, [opp[o] EXCEPT !.pc = "selling", !.base = fill, !.lost = fill = 0])
          \/ Becomes(o, [opp[o] EXCEPT !.pc = "done", !.outcome = "aborted", !.base = fill,
                                       !.lost = TRUE])
    /\ UNCHANGED <<pool, allowance>>

BuyRefused(o) ==
    /\ opp[o].pc = "buying"
    /\ Done(o, "aborted")
    /\ UNCHANGED <<pool, allowance>>

\* The sell leg's failure read as the buy leg's (mutant).
HalfAborted == "aborted"
\* The base that was bought stays on the buy venue.
HalfDone == "stuck"

Sell(o) ==
    /\ opp[o].pc = "selling"
    /\ \E fill \in {0, 1}, heard \in BOOLEAN :
          Becomes(o, [opp[o] EXCEPT !.pc = "done", !.outcome = IF heard THEN "filled" ELSE HalfDone,
                                    !.base = @ - fill, !.lost = @ \/ fill = 0 \/ ~heard])
    /\ UNCHANGED <<pool, allowance>>

SellRefused(o) ==
    /\ opp[o].pc = "selling"
    /\ Done(o, HalfDone)
    /\ UNCHANGED <<pool, allowance>>

----------------------------------------------------------------------------
\* The wallet service, as WalletNonce's callers see it.

Unmined(o, what) == \E i \in DOMAIN pool : pool[i] = [of |-> o, what |-> what]

Send(o, what, pc) ==
    /\ pool' = Append(pool, [of |-> o, what |-> what])
    /\ Becomes(o, [opp[o] EXCEPT !.pc = pc, !.tx = IF what = "swap" THEN "pool" ELSE @])
    /\ UNCHANGED allowance

\* checkApproval()
AllowanceShort(size) == allowance < size

\* The aggregator has made the calldata; is the allowance there?
CheckApproval(o) ==
    /\ opp[o].pc = "quoting"
    /\ Becomes(o, [opp[o] EXCEPT !.pc = IF AllowanceShort(opp[o].size) THEN "approving" ELSE "swapping",
                                 !.behind = pool # <<>>])
    /\ UNCHANGED <<pool, allowance>>

Approve(o) == opp[o].pc = "approving" /\ Send(o, "approve", "approvalSent")
Swap(o)    == opp[o].pc = "swapping" /\ Send(o, "swap", "swapSent")

\* The wallet service could not submit it; or it did, and the node's answer or a poll
\* for the receipt failed, which the executors report as aborted all the same.
NotSent(o) ==
    /\ opp[o].pc \in {"approving", "swapping"}
    /\ \/ Done(o, "aborted") /\ UNCHANGED <<pool, allowance>>
       \/ LET what == IF opp[o].pc = "approving" THEN "approve" ELSE "swap"
          IN  /\ pool' = Append(pool, [of |-> o, what |-> what])
              /\ Becomes(o, [opp[o] EXCEPT !.pc = "done", !.outcome = "aborted", !.lost = TRUE,
                                           !.tx = IF what = "swap" THEN "pool" ELSE @])
              /\ UNCHANGED allowance

\* The first transaction is mined.  A swap reverts on its price, or when the
\* aggregator may not spend enough.
Mine1 ==
    /\ pool # <<>> /\ pool' = Tail(pool)
    /\ LET o == Head(pool).of
           spends == IF opp[o].by = "aggregator" THEN opp[o].size ELSE 0
       IN  IF Head(pool).what = "approve"
           THEN allowance' = opp[o].size /\ UNCHANGED opp
           ELSE \/ /\ spends <= allowance
                   /\ \/ allowance' = allowance - spends /\ Becomes(o, [opp[o] EXCEPT !.tx = "mined"])
                      \/ UNCHANGED allowance /\ Becomes(o, [opp[o] EXCEPT !.tx = "reverted"])
                \/ /\ spends > allowance
                   /\ UNCHANGED allowance /\ Becomes(o, [opp[o] EXCEPT !.tx = "disallowed"])

\* The approval's receipt is a success.
Approved(o) ==
    /\ opp[o].pc = "approvalSent" /\ ~Unmined(o, "approve")
    /\ Becomes(o, [opp[o] EXCEPT !.pc = "swapping"])
    /\ UNCHANGED <<pool, allowance>>

\* The approval is stuck, or reverted.
ApprovalGivenUp(o) ==
    /\ opp[o].pc = "approvalSent"
    /\ Done(o, "aborted")
    /\ UNCHANGED <<pool, allowance>>

SwapReceipt(o) ==
    /\ opp[o].pc = "swapSent" /\ opp[o].tx # "pool"
    /\ Done(o, IF opp[o].tx = "mined" THEN "filled" ELSE "reverted")
    /\ UNCHANGED <<pool, allowance>>

SwapGivenUp(o) ==
    /\ opp[o].pc = "swapSent"
    /\ Done(o, "stuck")
    /\ UNCHANGED <<pool, allowance>>

ExecNext ==
    \/ Mine1
    \/ \E o \in Opps :
          \/ Dispatch(o) \/ Abort(o)
          \/ Buy(o) \/ BuyRefused(o) \/ Sell(o) \/ SellRefused(o)
          \/ CheckApproval(o) \/ Approve(o) \/ Swap(o) \/ NotSent(o)
          \/ Approved(o) \/ ApprovalGivenUp(o) \/ SwapReceipt(o) \/ SwapGivenUp(o)

ExecSpec == ExecInit /\ [][ExecNext]_execVars
----------------------------------------------------------------------------
ExecTypeOK ==
    /\ opp \in [Opps -> OppType]
    /\ allowance \in Nat
    /\ \A i \in DOMAIN pool : pool[i] \in PoolType

\* cex-cex.ts: "stuck" is what tells the operator that the account is long.  When
\* every order was answered and filled, an exchange trade leaves base behind exactly
\* when it is reported stuck.
StuckMeansLong ==
    \A o \in Opps : opp[o].by = "cex" /\ opp[o].pc = "done" /\ ~opp[o].lost
                        => (opp[o].base # 0 <=> opp[o].outcome = "stuck")

\* A swap is never reported with more certainty than the chain has: filled and
\* reverted swaps are mined, and an aborted trade sent no swap unless the node's
\* answers were lost.
SwapReported ==
    \A o \in Opps : opp[o].by # "cex" =>
        /\ opp[o].outcome = "filled" => opp[o].tx = "mined"
        /\ opp[o].outcome = "reverted" => opp[o].tx \in {"reverted", "disallowed"}
        /\ opp[o].outcome = "aborted" /\ ~opp[o].lost => opp[o].tx = "none"

\* approvals.ts: a swap's allowance is set first.  Trades whose approvals and swaps
\* are given up unmined, and mined later, leave the allowance at values no trade
\* asked for; a swap is disallowed only if it read the allowance ahead of such a one.
SwapsAllowed == \A o \in Opps : opp[o].tx = "disallowed" => opp[o].behind
====
