---- MODULE MCTradeDaemon ----
(* Bounded instances of TradeDaemon for TLC. *)
EXTENDS TradeDaemon, TLC

CONSTANTS d1, d2, d3

AllLive         == [d \in Daemons |-> "live"]
TwoLiveOnePaper == (d1 :> "live") @@ (d2 :> "live") @@ (d3 :> "paper")

\* Rows, slots and the two live daemons are interchangeable.
Symm == Permutations(Rows) \union Permutations(Slots) \union Permutations({d1, d2})

LossOrNothing == {-2, 0}
NoPnL         == {0}
====
