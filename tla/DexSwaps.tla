---- MODULE DexSwaps ----
(***************************************************************************)
(* Swaps the trading workers make from the wallet: through Uniswap on Base *)
(* and Jupiter on Solana for the crypto-trade source                       *)
(* (apps/daemon/src/executors/dex-trade-executor.ts, actOnDex), through    *)
(* pumpportal for pump.fun (packages/adapters-pumpfun/src/execute.ts).     *)
(* A swap is quoted, signed, sent once and followed until it is confirmed  *)
(* or given up; the chain may still take it afterwards.  What a buy is     *)
(* recorded with is what its quote promised, not what it got.              *)
(*                                                                         *)
(* One token is bought at a dollar a unit.  A behavior is of one venue,    *)
(* and swaps are numbered in the order the worker makes them.              *)
(***************************************************************************)
EXTENDS Integers

CONSTANTS DexVenues,       \* of "uniswap-v3", "jupiter", "pumpfun"
          MaxSwaps,        \* bound: swaps asked for
          DexSizes,        \* dollars of a buy
          DexMaxUsd,       \* DEX_TRADE_MAX_USD
          DexSlippage,     \* units a buy may get less than quoted
          MaxDexFaults,    \* bound: answers not heard, swaps given up, forks
          Untold           \* not answered yet

ASSUME DexConstants ==
    /\ DexVenues \subseteq {"uniswap-v3", "jupiter", "pumpfun"}
    /\ DexSizes \subseteq Nat \ {0} /\ {MaxSwaps, DexMaxUsd, DexSlippage, MaxDexFaults} \subseteq Nat
    /\ \A usd \in DexSizes : DexSlippage <= usd
    /\ Untold \notin {"refused", "aborted", "reverted", "timeout", "stuck", "threw", "filled"}

VARIABLES dexVenue,
          swap,
          wallet,      \* units of the token, by the newest block
          finalized,   \* ... by the newest block that is final
          position,    \* the volume recorded for it, 0 for none
          excused,     \* history: other reasons why the position may exceed the wallet
          dexFaults

dexVars == <<dexVenue, swap, wallet, finalized, position, excused, dexFaults>>

SwapIds == 1..MaxSwaps
NewSwap == [pc |-> "new", side |-> "buy", amount |-> 0, tx |-> "none", got |-> 0,
            answer |-> Untold,
            below |-> {},       \* the swaps in the blocks its own came after
            unheard |-> FALSE,  \* the answer to sending or following it was not heard
            undone |-> FALSE]   \* a fork took it out of the chain again

DexInit ==
    /\ dexVenue \in DexVenues
    /\ swap = [n \in SwapIds |-> NewSwap]
    /\ wallet = 0 /\ finalized = 0 /\ position = 0
    /\ excused = {} /\ dexFaults = 0

DexFault == dexFaults < MaxDexFaults /\ dexFaults' = dexFaults + 1
Solana == dexVenue # "uniswap-v3"
TurnsInto(n, next) == swap' = [swap EXCEPT ![n] = next]
Answered(n, answer) == TurnsInto(n, [swap[n] EXCEPT !.pc = "done", !.answer = answer])
Unheard(n, answer) == TurnsInto(n, [swap[n] EXCEPT !.pc = "done", !.answer = answer, !.unheard = TRUE])
Lands(n, tx) == TurnsInto(n, [swap[n] EXCEPT !.tx = tx])
UnchangedBooks == UNCHANGED <<position, excused>>
UnchangedChain == UNCHANGED <<dexVenue, wallet, finalized>>
-----------------------------------------------------------------------------
(* The worker.                                                               *)

\* Swaps are awaited one after the other.
Turn(n) ==
    /\ n \in SwapIds /\ swap[n].pc = "new"
    /\ \A earlier \in 1..n - 1 : swap[earlier].pc = "done"

AtRest == \A n \in SwapIds : swap[n].pc \in {"new", "done"}

TooLarge(usd) == dexVenue # "pumpfun" /\ usd > DexMaxUsd

AskBuy(n, usd) ==
    /\ Turn(n) /\ position = 0
    /\ IF TooLarge(usd) THEN Answered(n, "refused")
                        ELSE TurnsInto(n, [swap[n] EXCEPT !.pc = "quoting", !.amount = usd])
    /\ UnchangedBooks /\ UnchangedChain /\ UNCHANGED dexFaults

\* pumpportal is asked to sell 100%, the others the recorded volume.
AskSell(n) ==
    /\ Turn(n) /\ position > 0
    /\ TurnsInto(n, [swap[n] EXCEPT !.pc = "quoting", !.side = "sell",
                                  !.amount = IF dexVenue = "pumpfun" THEN wallet ELSE position])
    /\ UnchangedBooks /\ UnchangedChain /\ UNCHANGED dexFaults

\* hydrateDexPositions: a balance nobody tracks becomes a position, if there is a quote for
\* it.  Solana's nodes answer with what is final.
Restore ==
    /\ dexVenue # "pumpfun" /\ position = 0
    /\ AtRest
    /\ LET balance == IF Solana THEN finalized ELSE wallet
       IN  /\ balance > 0 /\ position' = balance
           /\ excused' = IF \E n \in SwapIds : swap[n].tx \in {"processed", "confirmed"}
                       THEN excused \cup {"read before final"} ELSE excused
    /\ UnchangedChain /\ UNCHANGED <<swap, dexFaults>>
-----------------------------------------------------------------------------
(* The adapters.                                                             *)

NothingSent == IF dexVenue = "pumpfun" THEN "reverted" ELSE "aborted"
GivenUp == IF Solana THEN "timeout" ELSE "stuck"

\* No quote, no calldata, no signature, or the node does not take it.
Unsent(n) ==
    /\ swap[n].pc = "quoting"
    /\ Answered(n, NothingSent)
    /\ UnchangedBooks /\ UnchangedChain /\ UNCHANGED dexFaults

\* The node takes it, whether or not its answer arrives.
SignAndSend(n) ==
    /\ swap[n].pc = "quoting"
    /\ \/ TurnsInto(n, [swap[n] EXCEPT !.pc = "sent", !.tx = "pending"]) /\ UNCHANGED dexFaults
       \/ /\ TurnsInto(n, [swap[n] EXCEPT !.pc = "done", !.tx = "pending",
                                        !.answer = NothingSent, !.unheard = TRUE])
          /\ DexFault
    /\ UnchangedBooks /\ UnchangedChain

\* A mutant: a block that may still be dropped will do.
ProcessedWillDo(n) == swap[n].tx \in {"processed", "confirmed", "final"}

Confirmed(n) == swap[n].tx \in {"confirmed", "final"}

\* What a buy is recorded with is the quoted amount.
Filled(n) ==
    /\ swap[n].pc = "sent" /\ Confirmed(n)
    /\ Answered(n, "filled")
    /\ IF swap[n].side = "buy"
       THEN /\ position' = swap[n].amount
            /\ excused' = IF swap[n].got < swap[n].amount THEN excused \cup {"slipped"} ELSE excused
       ELSE position' = 0 /\ UNCHANGED excused
    /\ UnchangedChain /\ UNCHANGED dexFaults

\* An error counts whatever the commitment of its block.
Reverted(n) ==
    /\ swap[n].pc = "sent" /\ swap[n].tx \in {"faulty", "failed"}
    /\ Answered(n, "reverted")
    /\ UnchangedBooks /\ UnchangedChain /\ UNCHANGED dexFaults

TimesOutSwap(n) ==
    /\ swap[n].pc = "sent" /\ DexFault
    /\ Answered(n, GivenUp)
    /\ UnchangedBooks /\ UnchangedChain

\* One poll that fails ends the following: Jupiter's swap throws, Uniswap's is reported as
\* aborted, pump.fun's as timed out.
PollFails(n) ==
    /\ swap[n].pc = "sent" /\ DexFault
    /\ Unheard(n, CASE dexVenue = "jupiter" -> "threw" [] dexVenue = "pumpfun" -> GivenUp
                     [] OTHER -> NothingSent)
    /\ UnchangedBooks /\ UnchangedChain
-----------------------------------------------------------------------------
(* The chain.                                                                *)

InBlock(n) == swap[n].tx \in {"processed", "confirmed", "final", "faulty", "failed"}
Chain == {n \in SwapIds : InBlock(n)}

\* A block takes it: it buys or sells what it says, within its slippage, or fails.  On Base a
\* block is final, and the wallet's transactions come in order.
Executes(n) ==
    /\ swap[n].tx = "pending"
    /\ Solana \/ \A earlier \in 1..n - 1 : swap[earlier].tx # "pending"
    /\ \/ /\ swap[n].side = "sell" => swap[n].amount <= wallet
          /\ \E loss \in IF swap[n].side = "buy" THEN 0..DexSlippage ELSE {0} :
                LET got == IF swap[n].side = "buy" THEN swap[n].amount - loss ELSE -swap[n].amount
                IN  /\ wallet' = wallet + got
                    /\ finalized' = IF Solana THEN finalized ELSE wallet + got
                    /\ TurnsInto(n, [swap[n] EXCEPT !.tx = IF Solana THEN "processed" ELSE "final",
                                                  !.got = got, !.below = Chain])
       \/ /\ TurnsInto(n, [swap[n] EXCEPT !.tx = IF Solana THEN "faulty" ELSE "failed", !.below = Chain])
          /\ UNCHANGED <<wallet, finalized>>
    /\ UnchangedBooks /\ UNCHANGED <<dexVenue, dexFaults>>

\* Its block is voted for, and with it those before ...
Confirms(n) ==
    /\ swap[n].tx \in {"processed", "faulty"}
    /\ \A m \in swap[n].below : swap[m].tx \notin {"processed", "faulty"}
    /\ Lands(n, IF swap[n].tx = "processed" THEN "confirmed" ELSE "failed")
    /\ UnchangedBooks /\ UnchangedChain /\ UNCHANGED dexFaults

\* ... and becomes final, after them;
Finalizes(n) ==
    /\ swap[n].tx = "confirmed"
    /\ \A m \in swap[n].below : swap[m].tx # "confirmed"
    /\ Lands(n, "final")
    /\ finalized' = finalized + swap[n].got
    /\ UnchangedBooks /\ UNCHANGED <<dexVenue, wallet, dexFaults>>

\* or it is dropped, the newest first, and the swap waits again.
Forks(n) ==
    /\ swap[n].tx \in {"processed", "faulty"} /\ DexFault
    /\ \A m \in SwapIds : n \notin swap[m].below
    /\ wallet' = wallet - swap[n].got
    /\ TurnsInto(n, [swap[n] EXCEPT !.tx = "pending", !.got = 0, !.below = {}, !.undone = TRUE])
    /\ UnchangedBooks /\ UNCHANGED <<dexVenue, finalized>>

\* No block took it while its blockhash was recent.
Lapses(n) ==
    /\ Solana /\ swap[n].tx = "pending"
    /\ Lands(n, "lapsed")
    /\ UnchangedBooks /\ UnchangedChain /\ UNCHANGED dexFaults

DexNext ==
    \/ Restore
    \/ \E n \in SwapIds :
          \/ \E usd \in DexSizes : AskBuy(n, usd)
          \/ AskSell(n) \/ Unsent(n) \/ SignAndSend(n)
          \/ Filled(n) \/ Reverted(n) \/ TimesOutSwap(n) \/ PollFails(n)
          \/ Executes(n) \/ Confirms(n) \/ Finalizes(n) \/ Forks(n) \/ Lapses(n)

DexSpec == DexInit /\ [][DexNext]_dexVars
-----------------------------------------------------------------------------
(* Correctness.                                                              *)

DexTypeOK ==
    /\ dexVenue \in DexVenues /\ {wallet, finalized, position, dexFaults} \subseteq Nat
    /\ swap \in [SwapIds -> [pc : {"new", "quoting", "sent", "done"}, side : {"buy", "sell"},
                             amount : Nat, got : Int, unheard : BOOLEAN, undone : BOOLEAN,
                             below : SUBSET SwapIds,
                             tx : {"none", "pending", "processed", "confirmed", "final", "faulty", "failed", "lapsed"},
                             answer : {Untold, "refused", "aborted", "reverted", "timeout", "stuck", "threw", "filled"}]]
    /\ excused \subseteq {"slipped", "read before final"}

OnChain(n) == swap[n].tx \in {"confirmed", "final"}

\* What is reported filled cannot be undone any more, and what is reported failed has not
\* happened and will not, unless an answer of the node was not heard or a fork took back the
\* failure that was reported.
SwapsTold ==
    \A n \in SwapIds :
        /\ swap[n].answer = "filled" => OnChain(n)
        /\ swap[n].answer \in {"refused", "aborted", "reverted"} /\ ~swap[n].unheard /\ ~swap[n].undone
              => swap[n].tx \in {"none", "faulty", "failed"}

\* DEX_TRADE_MAX_USD is a limit on what is held, not just on one swap, except for buys that
\* came through after they were given up: each of those may add as much again.
DexCapHolds ==
    dexVenue # "pumpfun" =>
        wallet <= DexMaxUsd \/ \E n \in SwapIds : swap[n].got > 0 /\ swap[n].answer # "filled"

\* Between swaps, the volume an exit will try to sell is there, unless a buy got less than its quote, a sell
\* came through after it was given up, or the wallet was read before a swap was final.
ExitsFit ==
    AtRest /\ position > wallet =>
        excused # {} \/ \E n \in SwapIds : swap[n].got < 0 /\ swap[n].answer # "filled"

\* What swaps say, how large a position gets, and whether it can be sold.
DexHonest == SwapsTold /\ DexCapHolds /\ ExitsFit
=============================================================================
