---- MODULE CryptoDca ----
(***************************************************************************)
(* Dollar-cost averaging on one exchange (apps/daemon/src/sources/         *)
(* crypto-dca.ts with the planner of packages/source-crypto-trade/src/     *)
(* dca-planner.ts).  Every poll of the worker reads when it last bought    *)
(* each coin, buys what is due, and saves the new times.  Time is counted  *)
(* in units of the default DB_SAVE_INTERVAL_MS, 30 s.                      *)
(***************************************************************************)
EXTENDS Integers, Sequences, FiniteSets

CONSTANTS NumCoins,        \* config.coins, in order
          MaxCoins,        \* config.maxCoins
          IntervalTime,    \* config.intervalMs
          PollTime,        \* POLL_INTERVAL_MS
          FlushTimes,      \* the values DB_SAVE_INTERVAL_MS may have
          LastTime,        \* when the model stops
          MaxDcaSlips      \* ticks without funds, orders refused or unanswered, restarts

ASSUME DcaConstants ==
    /\ {NumCoins, MaxCoins, IntervalTime, PollTime} \subseteq Nat \ {0}
    /\ FlushTimes \subseteq Nat /\ LastTime \in Nat /\ MaxDcaSlips \in Nat

VARIABLES dcaNow, dcaRow, dcaLive,
          dcaFlushTime,   \* DB_SAVE_INTERVAL_MS of this deployment
          dcaFlushed,     \* lastDbFlushAt, or -1 in a process that has not flushed
          dcaTick,        \* the tick under way: its poll, the times it read, its plan
          dcaOrders,      \* history: when each coin was bought
          dcaSlips

dcaVars == <<dcaNow, dcaRow, dcaLive, dcaFlushTime, dcaFlushed, dcaTick, dcaOrders, dcaSlips>>

Store == INSTANCE WorkerPayload WITH row <- dcaRow, live <- dcaLive

Coins == 1..NumCoins
NoTimes == Store!Nothing        \* lastBuyAt, with no coin bought yet
NoDcaTick(poll) == [pc |-> "idle", poll |-> poll, last |-> NoTimes, plan |-> {}]

DcaInit ==
    /\ dcaNow = 0
    /\ dcaRow = Store!Nothing /\ dcaLive = Store!Nothing
    /\ dcaFlushTime \in FlushTimes
    /\ dcaFlushed = -1
    /\ dcaTick = NoDcaTick(-1)
    /\ dcaOrders = [c \in Coins |-> <<>>]
    /\ dcaSlips = 0

Flushes == dcaFlushed = -1 \/ dcaNow - dcaFlushed >= dcaFlushTime
Flushed == dcaFlushed' = IF Flushes THEN dcaNow ELSE dcaFlushed

\* decideDcaBuys: the coins whose interval is over, in order, up to maxCoins of them;
\* the worker passes it no current holdings.  Mutants: the interval is not looked at; nor
\* is maxCoins.
AnyTime(c, last) == TRUE
IntervalOver(c, last) == c \notin DOMAIN last \/ dcaNow - last[c] >= IntervalTime

AllDue(last) == {c \in Coins : IntervalOver(c, last)}

decideDcaBuys(last) ==
    LET due == {c \in Coins : IntervalOver(c, last)}
    IN  {c \in due : Cardinality({d \in due : d < c}) < MaxCoins}

PollDue == dcaNow % PollTime = 0 /\ dcaTick.poll # dcaNow

\* makeContext() and the status; what the tick knows of earlier ones is the row.
DcaStart ==
    /\ dcaTick.pc = "idle" /\ PollDue
    /\ dcaTick' = [pc |-> "plan", poll |-> dcaNow, plan |-> {},
                   last |-> Store!Field(dcaRow, "lastBuyAt", NoTimes)]
    /\ Store!SaveStatus(Flushes) /\ Flushed
    /\ UNCHANGED <<dcaNow, dcaFlushTime, dcaOrders, dcaSlips>>

DcaSave ==
    /\ Store!SavePayload([lastBuyAt |-> dcaTick.last], Flushes) /\ Flushed
    /\ dcaTick' = NoDcaTick(dcaTick.poll)
    /\ UNCHANGED <<dcaNow, dcaFlushTime, dcaOrders>>

Slip == dcaSlips < MaxDcaSlips /\ dcaSlips' = dcaSlips + 1

\* With nothing due, without funds, or switched off, the times are saved as they were read.
DcaIdle ==
    /\ dcaTick.pc = "plan"
    /\ (decideDcaBuys(dcaTick.last) = {} /\ UNCHANGED dcaSlips) \/ Slip
    /\ DcaSave

\* The tick, with this left to buy and these times to save.
Buying(last, plan) == dcaTick' = [pc |-> "buy", poll |-> dcaTick.poll, last |-> last, plan |-> plan]

DcaPlan ==
    /\ dcaTick.pc = "plan"
    /\ decideDcaBuys(dcaTick.last) # {}
    /\ Buying(dcaTick.last, decideDcaBuys(dcaTick.last))
    /\ UNCHANGED <<dcaNow, dcaRow, dcaLive, dcaFlushTime, dcaFlushed, dcaOrders, dcaSlips>>

Ordered(c) == dcaOrders' = [dcaOrders EXCEPT ![c] = Append(@, dcaNow)]
Noted(c) == Store!Merge([d \in {c} |-> dcaNow], dcaTick.last)

\* executeDcaBuy, of the first coin left in the plan: the order is accepted, and its time
\* noted; refused; or accepted while its answer is lost.
DcaBuy ==
    /\ dcaTick.pc = "buy"
    /\ \E c \in dcaTick.plan :
          /\ \A d \in dcaTick.plan : c <= d
          /\ \/ Ordered(c) /\ Buying(Noted(c), dcaTick.plan \ {c}) /\ UNCHANGED dcaSlips
             \/ Slip /\ (Ordered(c) \/ UNCHANGED dcaOrders) /\ Buying(dcaTick.last, dcaTick.plan \ {c})
    /\ UNCHANGED <<dcaNow, dcaRow, dcaLive, dcaFlushTime, dcaFlushed>>

DcaFinish ==
    /\ dcaTick.pc = "buy" /\ dcaTick.plan = {}
    /\ DcaSave
    /\ UNCHANGED dcaSlips

\* Time passes between ticks and during them; a poll that finds one running is skipped.
DcaWait ==
    /\ dcaNow < LastTime
    /\ dcaTick.pc # "idle" \/ ~PollDue
    /\ dcaNow' = dcaNow + 1
    /\ UNCHANGED <<dcaRow, dcaLive, dcaFlushTime, dcaFlushed, dcaTick, dcaOrders, dcaSlips>>

DcaCrash ==
    /\ Slip
    /\ dcaTick' = NoDcaTick(dcaTick.poll)
    /\ dcaFlushed' = -1
    /\ Store!EntryAfterRestart
    /\ UNCHANGED <<dcaNow, dcaRow, dcaFlushTime, dcaOrders>>

DcaNext == DcaStart \/ DcaIdle \/ DcaPlan \/ DcaBuy \/ DcaFinish \/ DcaWait \/ DcaCrash

DcaSpec == DcaInit /\ [][DcaNext]_dcaVars

-----------------------------------------------------------------------------
(* Properties.                                                              *)

DcaTypeOK ==
    /\ dcaNow \in 0..LastTime /\ dcaFlushed \in -1..LastTime
    /\ dcaFlushTime \in FlushTimes
    /\ \A p \in {dcaRow, dcaLive} : DOMAIN Store!Field(p, "lastBuyAt", NoTimes) \subseteq Coins
    /\ dcaTick.pc \in {"idle", "plan", "buy"} /\ dcaTick.plan \subseteq Coins
    /\ Cardinality(dcaTick.plan) <= MaxCoins
    /\ \A c \in Coins : dcaOrders[c] \in Seq(0..LastTime)
    /\ dcaSlips \in 0..MaxDcaSlips

Apart(orders, k) == \A i \in 1..Len(orders) : i + k <= Len(orders) => orders[i + k] - orders[i] >= IntervalTime

\* "interval gate inside decideDcaBuys handles pacing" (crypto-dca.ts:49): a coin is not
\* bought again before its interval is over.
DcaPaced == \A c \in Coins : Apart(dcaOrders[c], 1)

\* If every save reaches the row, a coin is bought once in an interval, and once more for
\* each restart and each lost answer.
PacedWhenFlushed ==
    dcaFlushTime = 0 => \A c \in Coins : Apart(dcaOrders[c], 1 + dcaSlips)
====
