---- MODULE PumpTrade ----
(***************************************************************************)
(* The pump.fun worker of one user (apps/daemon/src/sources/               *)
(* pumpfun-trade.ts, trading through packages/adapters-pumpfun) and the    *)
(* web's "Sell now" button (apps/web/src/lib/use-source-state.ts).  A tick *)
(* checks every position of the payload it was given, buys what it finds   *)
(* worth buying, and saves the positions that are left.  Market caps, ages *)
(* and holders are abstracted to what they decide: hold, sell, enter.      *)
(***************************************************************************)
EXTENDS Integers, FiniteSets

CONSTANTS Mints,
          MaxPositions,      \* PUMPFUN_MAX_POSITIONS
          Throttles,         \* whether a save may miss the row: DB_SAVE_INTERVAL_MS > 0
          MaxPumpSlips,      \* restarts, timed-out trades, and requests lost or put late
          MaxRequests        \* clicks on "Sell now"

ASSUME PumpConstants ==
    /\ MaxPositions \in Nat \ {0} /\ Throttles \subseteq BOOLEAN
    /\ MaxPumpSlips \in Nat /\ MaxRequests \in Nat

VARIABLES bag,         \* the mints of which the wallet holds tokens
          pumpRow, pumpLive,
          throttled,
          pumpTick,    \* the tick under way
          pumpWeb,     \* a click between its GET and its PUT
          wanted,      \* history: requests put that no tick has drained
          requests, pumpSlips

pumpVars == <<bag, pumpRow, pumpLive, throttled, pumpTick, pumpWeb, wanted, requests, pumpSlips>>

Worker == INSTANCE WorkerPayload WITH row <- pumpRow, live <- pumpLive

Positions(payload) == Worker!Field(payload, "positions", {})
ManualSells(payload) == Worker!Field(payload, "manualSellRequests", {})

NoPumpTick == [pc |-> "idle", todo |-> {}, left |-> {}, drained |-> {}, tried |-> {}, queue |-> {}]
NoClick == [mint |-> "none", read |-> Worker!Nothing]

PumpInit ==
    /\ bag = {}
    /\ pumpRow = Worker!Nothing /\ pumpLive = Worker!Nothing
    /\ throttled \in Throttles
    /\ pumpTick = NoPumpTick
    /\ pumpWeb = NoClick
    /\ wanted = {}
    /\ requests = 0 /\ pumpSlips = 0

Flushing == IF throttled THEN BOOLEAN ELSE {TRUE}
MaySlip == pumpSlips < MaxPumpSlips /\ pumpSlips' = pumpSlips + 1

outside == <<throttled, pumpWeb, requests>>
payloads == <<pumpRow, pumpLive>>

-----------------------------------------------------------------------------
(* A tick.                                                                  *)

PumpStart ==
    /\ pumpTick.pc = "idle"
    /\ pumpTick' = [NoPumpTick EXCEPT !.pc = "exit", !.todo = Positions(pumpRow),
                                      !.drained = ManualSells(pumpRow)]
    /\ \E flush \in Flushing : Worker!SaveStatus(flush)
    /\ UNCHANGED <<bag, outside, wanted, pumpSlips>>

\* Without PUMPFUN_TRADE_EXECUTION the positions are saved as they were read; without
\* keys, nothing is.
Observe ==
    /\ pumpTick.pc = "exit" /\ pumpTick.left = {} /\ pumpTick.todo = Positions(pumpRow)
    /\ pumpTick.drained = {}
    /\ \/ \E flush \in Flushing : Worker!SavePayload([positions |-> pumpTick.todo], flush)
       \/ UNCHANGED payloads
    /\ pumpTick' = NoPumpTick
    /\ UNCHANGED <<bag, outside, wanted, pumpSlips>>

Checked(m, kept) == pumpTick' = [pumpTick EXCEPT !.todo = @ \ {m}, !.left = @ \cup kept]

\* No status of the coin, no reason to sell, a partial sale, or a sale that failed.
Hold(m) ==
    /\ pumpTick.pc = "exit" /\ m \in pumpTick.todo
    /\ Checked(m, {m})
    /\ UNCHANGED <<bag, payloads, outside, wanted, pumpSlips>>

\* A sale of the whole bag: confirmed, or landed without the worker knowing.  A mutant:
\* a sale that is not confirmed drops the position too.
DropAlways(m) == {}
KeptUnconfirmed(m) == {m}
Sell(m) ==
    /\ pumpTick.pc = "exit" /\ m \in pumpTick.todo
    /\ \/ Checked(m, {}) /\ bag' = bag \ {m} /\ UNCHANGED pumpSlips
       \/ Checked(m, KeptUnconfirmed(m)) /\ UNCHANGED <<bag, pumpSlips>>
       \/ Checked(m, KeptUnconfirmed(m)) /\ bag' = bag \ {m} /\ MaySlip
    /\ UNCHANGED <<payloads, outside, wanted>>

Discover ==
    /\ pumpTick.pc = "exit" /\ pumpTick.todo = {}
    /\ pumpTick' = [pumpTick EXCEPT !.pc = "enter"]
    /\ UNCHANGED <<bag, payloads, outside, wanted, pumpSlips>>

shouldEnter(m) == m \notin pumpTick.left /\ Cardinality(pumpTick.left) < MaxPositions

\* A buy: confirmed and tracked, or landed while its confirmation timed out.  (One that
\* is refused changes nothing.)
Buy(m) ==
    /\ pumpTick.pc = "enter" /\ m \notin pumpTick.tried
    /\ shouldEnter(m)
    /\ \/ /\ bag' = bag \cup {m}
          /\ pumpTick' = [pumpTick EXCEPT !.left = @ \cup {m}, !.tried = @ \cup {m}]
          /\ UNCHANGED pumpSlips
       \/ /\ pumpTick' = [pumpTick EXCEPT !.tried = @ \cup {m}]
          /\ bag' = bag \cup {m} /\ MaySlip
    /\ UNCHANGED <<payloads, outside, wanted>>

\* The queue is read again at the end, for the requests put meanwhile.  A mutant: it is
\* just emptied.
EmptyQueue == {}
RemainingQueue == ManualSells(pumpLive) \ pumpTick.drained

ReadQueue ==
    /\ pumpTick.pc = "enter"
    /\ pumpTick' = [pumpTick EXCEPT !.pc = "save", !.queue = RemainingQueue]
    /\ UNCHANGED <<bag, payloads, outside, wanted, pumpSlips>>

PumpSave ==
    /\ pumpTick.pc = "save"
    /\ \E flush \in Flushing :
          Worker!SavePayload([positions |-> pumpTick.left, manualSellRequests |-> pumpTick.queue], flush)
    /\ wanted' = wanted \ pumpTick.drained
    /\ pumpTick' = NoPumpTick
    /\ UNCHANGED <<bag, outside, pumpSlips>>

-----------------------------------------------------------------------------
(* The web, and restarts.                                                   *)

\* requestPumpfunSell reads the payload, from the cache or else the row...
Click(m) ==
    /\ pumpWeb = NoClick /\ requests < MaxRequests
    /\ pumpWeb' = [mint |-> m, read |-> IF pumpLive = Worker!Nothing THEN pumpRow ELSE pumpLive]
    /\ requests' = requests + 1
    /\ UNCHANGED <<bag, payloads, throttled, pumpTick, wanted, pumpSlips>>

\* ...and writes all of it back, with the request, over whatever was saved since.
Late == pumpWeb.read # pumpLive \/ pumpTick.pc = "save"

PutRequest ==
    /\ pumpWeb # NoClick
    /\ pumpWeb' = NoClick
    /\ LET queue == ManualSells(pumpWeb.read)
       IN IF pumpWeb.mint \in queue
          THEN UNCHANGED <<payloads, wanted, pumpSlips>>
          ELSE /\ Worker!PutPayload(Worker!Merge([manualSellRequests |-> queue \cup {pumpWeb.mint}], pumpWeb.read))
               /\ wanted' = wanted \cup {pumpWeb.mint}
               /\ IF Late THEN MaySlip ELSE UNCHANGED pumpSlips
    /\ UNCHANGED <<bag, throttled, pumpTick, requests>>

PumpCrash ==
    /\ MaySlip
    /\ pumpTick' = NoPumpTick
    /\ Worker!EntryAfterRestart
    /\ UNCHANGED <<bag, pumpRow, outside, wanted>>

PumpNext ==
    \/ PumpStart \/ Observe \/ Discover \/ ReadQueue \/ PumpSave \/ PutRequest \/ PumpCrash
    \/ \E m \in Mints : Hold(m) \/ Sell(m) \/ Buy(m) \/ Click(m)

PumpSpec == PumpInit /\ [][PumpNext]_pumpVars

-----------------------------------------------------------------------------
(* Properties.                                                              *)

PumpTypeOK ==
    /\ bag \subseteq Mints /\ wanted \subseteq Mints
    /\ \A p \in {pumpRow, pumpLive, pumpWeb.read} : Positions(p) \subseteq Mints /\ ManualSells(p) \subseteq Mints
    /\ throttled \in Throttles
    /\ pumpTick.pc \in {"idle", "exit", "enter", "save"}
    /\ pumpTick.todo \cup pumpTick.left \cup pumpTick.drained \cup pumpTick.tried \cup pumpTick.queue \subseteq Mints
    /\ pumpWeb.mint \in Mints \cup {"none"}
    /\ requests \in 0..MaxRequests /\ pumpSlips \in 0..MaxPumpSlips

\* Between two ticks every bag in the wallet is a position some tick will look after,
\* unless a restart, a timeout or a late request interfered, or saves miss the row
\* (then the next tick is given positions of up to 30 s ago).
BagsTracked ==
    pumpTick.pc = "idle" /\ pumpSlips = 0 /\ ~throttled => bag \subseteq Positions(pumpRow)

\* A request put while a tick runs is not lost ("survive into the next tick instead of
\* being clobbered", pumpfun-trade.ts:559), whatever reaches the row.
RequestsSurvive ==
    pumpSlips = 0 => wanted \subseteq ManualSells(pumpLive) \cup pumpTick.drained
====
