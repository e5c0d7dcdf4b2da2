---- MODULE MCDaemon ----
(* What runs in the daemon's process, one part at a time: its scheduler over a  *)
(* deployment; the sealed settings of one user; the price stream of one         *)
(* exchange.                                                                    *)
(*                                                                              *)
(* Deployments: two daemons that share one job through Redis, one of which may  *)
(* stall; a daemon alone, without Redis, with the jobs of two users.            *)
EXTENDS DaemonRuntime, SealedConfig, PriceStream, TLC

CONSTANTS d1, d2, j1, j2, s1, s2, u1, u2, sol, msol

VARIABLE focus

Shared == [daemons |-> {d1, d2}, jobs |-> {j1}, redis |-> TRUE, stalls |-> TRUE]
Alone  == [daemons |-> {d1}, jobs |-> {j1, j2}, redis |-> FALSE, stalls |-> FALSE]
Off    == [daemons |-> {}, jobs |-> {}, redis |-> FALSE, stalls |-> FALSE]

MCDeployments == {Shared, Alone, Off}
MCTicks  == {<<d1, j1, s1>>, <<d1, j1, s2>>, <<d2, j1, s1>>, <<d1, j2, s1>>}
MCUserOf == (j1 :> u1) @@ (j2 :> u2)

\* SOL/USD is part of MSOL/USD.
MCInside == (sol :> {sol}) @@ (msol :> {sol, msol})

MCInit == /\ focus \in {"jobs", "settings", "stream"}
          /\ Init /\ SettingsInit /\ StreamInit
          /\ focus = "jobs" <=> dep # Off
          /\ focus # "stream" => feed = CHOOSE f \in Feeds : TRUE

MCNext == \/ focus = "jobs" /\ Next /\ UNCHANGED <<focus, settingsVars, streamVars>>
          \/ focus = "settings" /\ SettingsNext /\ UNCHANGED <<focus, vars, streamVars>>
          \/ focus = "stream" /\ StreamNext /\ UNCHANGED <<focus, vars, settingsVars>>

MCSpec == MCInit /\ [][MCNext]_<<focus, vars, settingsVars, streamVars>>

\* An Off deployment enables nothing of the scheduler; the fairness of the others is asked
\* for where they are what moves.
MCFairSpec ==
    /\ MCSpec /\ Fairness
    /\ \A l \in Loads : /\ WF_settingsVars(focus = "settings" /\ JobStep(l))
                         /\ WF_settingsVars(focus = "settings" /\ StartLoad(l))
    /\ WF_settingsVars(focus = "settings" /\ CacheExpires)
    /\ WF_streamVars(focus = "stream" /\ SocketCloses)
    /\ WF_streamVars(focus = "stream" /\ scheduleReconnect)
    /\ WF_streamVars(focus = "stream" /\ Watchdog)
    /\ WF_streamVars(focus = "stream" /\ Ages)
    /\ SF_streamVars(focus = "stream" /\ Open)

\* The variables of the modules keep their types.
MCTypeOK == TypeOK /\ SettingsTypeOK /\ StreamTypeOK
====
