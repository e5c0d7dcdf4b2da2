---- MODULE MCWalletNonce ----
(* What is spent and what is believed of it, one part at a time: the nonces of one    *)
(* wallet's transactions, the executors that send them, the ledger of its balances,   *)
(* and the swaps of the trading workers.                                              *)
EXTENDS WalletNonce, Executors, InventoryLedger, DexSwaps

CONSTANT s1

VARIABLE focus

walletVars == vars

\* One call at a time with every fault; two services in turns, whose transactions may
\* replace each other's; overlapping calls with the faults that do not resync; overlapping
\* calls with every fault but a lost answer.
AllRegimes == {[overlap |-> 1, faults |-> FaultNames, services |-> {s1}],
               [overlap |-> 1, faults |-> {"timeout", "replace"}, services |-> Services],
               [overlap |-> 3, faults |-> {"count", "poll"}, services |-> {s1}],
               [overlap |-> 2, faults |-> FaultNames \ {"lostreply", "replace"}, services |-> {s1}]}

\* Two overlapping calls, one of which may revert.
OverlapWithReverts == {[overlap |-> 2, faults |-> {"revert"}, services |-> Services]}

MCInit == /\ focus \in {"nonces", "executors", "ledger", "dex"}
          /\ Init /\ ExecInit /\ LedgerInit /\ DexInit
          /\ focus # "nonces" => regime = CHOOSE r \in Regimes : TRUE
          /\ focus # "dex" => dexVenue = CHOOSE v \in DexVenues : TRUE

MCNext == \/ focus = "nonces" /\ Next /\ UNCHANGED <<focus, execVars, ledgerVars, dexVars>>
          \/ focus = "executors" /\ ExecNext /\ UNCHANGED <<focus, walletVars, ledgerVars, dexVars>>
          \/ focus = "ledger" /\ LedgerNext /\ UNCHANGED <<focus, walletVars, execVars, dexVars>>
          \/ focus = "dex" /\ DexNext /\ UNCHANGED <<focus, walletVars, execVars, ledgerVars>>

MCSpec == MCInit /\ [][MCNext]_<<focus, walletVars, execVars, ledgerVars, dexVars>>

\* FairSpec, while the wallet is what runs.
MCFairSpec ==
    /\ MCSpec
    /\ \A c \in Calls : /\ WF_walletVars(focus = "nonces" /\ CallStep(c))
                         /\ WF_walletVars(focus = "nonces" /\ Mine(c))

\* The variables of the modules keep their types.
MCTypeOK == TypeOK /\ ExecTypeOK /\ LedgerTypeOK /\ DexTypeOK

\* What the wallet service tells the executors, and they the daemon and the workers,
\* is so.
ExecutorsHonest == ReportTruthful /\ StuckMeansLong /\ SwapReported /\ SwapsAllowed /\ DexHonest
====
