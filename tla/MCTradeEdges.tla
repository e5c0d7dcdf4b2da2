---- MODULE MCTradeEdges ----
(* One thing at a time: a bounded instance of TradeDaemon, or of what is at its edges:  *)
(* the observers that fill its queue, the orders that executors place on one exchange.  *)
EXTENDS MCTradeDaemon, VenueOrders, Observers

CONSTANT Focuses            \* which of the four an instance is about

VARIABLE focus

tradeVars == vars

MCInit == /\ focus \in Focuses
          /\ Init /\ VenueInit /\ ObserversInit
          /\ focus # "orders" => api = CHOOSE a \in Apis : TRUE

MCNext == \/ focus = "daemons" /\ Next /\ UNCHANGED <<focus, venueVars, observerVars>>
          \/ focus = "orders" /\ VenueNext /\ UNCHANGED <<focus, tradeVars, observerVars>>
          \/ /\ focus \in {"observer", "triangles"} /\ UNCHANGED <<focus, tradeVars, venueVars>>
             /\ \/ PipelineNext
                \/ focus = "observer" /\ ScanNext
                \/ focus = "triangles" /\ TriangleNext

MCSpec == MCInit /\ [][MCNext]_<<focus, tradeVars, venueVars, observerVars>>

\* FairSpec, while the daemons are what runs; VenueFairness, while orders are.
MCFairSpec ==
    /\ MCSpec
    /\ \A t \in Ticks : WF_tradeVars(focus = "daemons" /\ TickStep(t))
    /\ \A c \in OrderCalls : WF_venueVars(focus = "orders" /\ CallProgress(c))
    /\ WF_venueVars(focus = "orders" /\ Delivery)
\* What fills the queue, and what becomes of the orders.
EdgesSafe == ObserversSafe /\ OrdersMeanIt
====
