---- MODULE MCPositions ----
(* What the workers hold and remember of it, one worker at a time: the crypto-trade   *)
(* source, dollar-cost averaging, pump.fun, or cross-exchange arbitrage; and what the  *)
(* trading source's backtests say of its positions.                                    *)
EXTENDS CryptoTrade, CryptoDca, PumpTrade, ArbWorker, Backtest, TLC

CONSTANTS v1, p1, p2, m1, m2, xch, kra

VARIABLE focus

\* The trading source either restarts, on an exchange it found empty, or shares its
\* account with a user who trades.
Restarts == crashes = 0 /\ moves = MaxUserMoves /\ held = {} /\ \A w \in Venues : kind[w] = "cex"
Shares == crashes = MaxCrashes

\* The exchanges xch and kra (Kraken) hold dollars and one of p1, or only the other of p2.
AccountOf(usd, of1, of2) == [stable |-> usd, base |-> p1 :> of1 @@ p2 :> of2]
MCAccounts == {xch :> AccountOf(40, 0, 0) @@ kra :> AccountOf(20, 20, 0), xch :> AccountOf(0, 0, 40) @@ kra :> AccountOf(0, 0, 0)}

\* What p1's candles may be: hardly a move, with a signal; the lock is reached; the stop is
\* hit, in a falling market and in a rising one; the target is, and then the stop; the
\* price falls through the stop.  And p2's: a better signal, and a dip.
Candle(low, high, close, lowFirst, score, bull) ==
    [low |-> low, high |-> high, close |-> close, lowFirst |-> lowFirst, score |-> score, bull |-> bull]
MCBars ==
    p1 :> {Candle(1000, 1001, 1001, TRUE, 1, FALSE), Candle(1000, 1006, 1005, TRUE, 0, FALSE),
          Candle(995, 1000, 999, TRUE, 0, FALSE), Candle(995, 1000, 999, TRUE, 1, TRUE),
          Candle(995, 1017, 1000, FALSE, 0, FALSE), Candle(970, 1000, 975, FALSE, 0, TRUE)}
    @@ p2 :> {Candle(990, 1001, 1000, TRUE, 2, FALSE)}
TwoPairs == <<p1, p2>>

MCInit ==
    /\ focus \in {"trade", "dca", "pump", "arb", "backtest"}
    /\ TradeInit /\ DcaInit /\ PumpInit /\ ArbInit /\ BacktestInit
    /\ focus # "arb" => tradingEnabled /\ account = CHOOSE f \in MCAccounts : TRUE
    /\ focus = "trade" => Restarts \/ Shares
    /\ focus # "trade" => Restarts
    /\ focus # "pump" => throttled = (TRUE \in Throttles)

MCNext ==
    \/ focus = "trade" /\ TradeNext /\ UNCHANGED <<focus, dcaVars, pumpVars, arbVars, backtestVars>>
    \/ focus = "dca" /\ DcaNext /\ UNCHANGED <<focus, tradeVars, pumpVars, arbVars, backtestVars>>
    \/ focus = "pump" /\ PumpNext /\ UNCHANGED <<focus, tradeVars, dcaVars, arbVars, backtestVars>>
    \/ focus = "arb" /\ ArbNext /\ UNCHANGED <<focus, tradeVars, dcaVars, pumpVars, backtestVars>>
    \/ focus = "backtest" /\ BacktestNext /\ UNCHANGED <<focus, tradeVars, dcaVars, pumpVars, arbVars>>

MCSpec == MCInit /\ [][MCNext]_<<focus, tradeVars, dcaVars, pumpVars, arbVars, backtestVars>>

\* TradeFairness, while the trading source is what runs.
MCFairness ==
    LET Fair(A) == focus = "trade" /\ A
    IN  /\ WF_tradeVars(Fair(TickStep))
        /\ SF_tradeVars(Fair(BeginPoll))
        /\ \A w \in Venues : SF_tradeVars(Fair(ReadHoldings(w))) /\ WF_tradeVars(Fair(HydrationLapses(w)))

MCFairSpec == MCSpec /\ MCFairness

\* The variables of the modules keep their types.
MCTypeOK == TradeTypeOK /\ DcaTypeOK /\ PumpTypeOK /\ ArbTypeOK /\ BacktestTypeOK

\* What the simpler workers promise, of the payloads they are given and of the money they
\* spend; and what the backtests do of the trading source.
WorkersSafe == PacedWhenFlushed /\ BagsTracked /\ RequestsSurvive /\ ArbSafe /\ BacktestsAgree

\* No holding of the trading source stays unmanaged.
MCHoldingsManaged == focus = "trade" => HoldingsManaged
====
