------------------------------ MODULE MCTools ------------------------------
(***************************************************************************)
(* The programs and functions that share no state with one another, side   *)
(* by side in one run of TLC: a behaviour is one of tool alone.            *)
(***************************************************************************)
EXTENDS Testbed, Launcher, Dashboard, Candles, Signals, Feeds, RateLimiter

\* What a killed run may leave: all of the set-up, and its engine may live, or
\* one that stopped between the nodes, before any engine was started.
Everything == [n \in Node |-> Item]
TestbedLeftovers ==
    {Everything,
     [Everything EXCEPT !["engine-node"] = Item \ {"env"}, !["strat-0"] = {"dp", "venv"}]}

PipelineProcs == <<"ME", "RG", "FH", "S1", "S2">>

FromMinute == [fetch |-> 1, train |-> 3]
UntilMinute == [fetch |-> 5, train |-> 6]

ReplayOffsets == [i \in 0..3 |-> <<0, 2, 2, 5>>[i + 1]]

-----------------------------------------------------------------------------
VARIABLE tool

ToolsInit ==
    /\ tool \in {"testbed", "launcher", "charts", "kill switch", "candles", "signals", "feeds",
                "limiter"}
    /\ TestbedInit /\ (tool # "testbed" => ~slice)
    /\ has # Everything => live = NoTrial
    /\ LauncherInit /\ DashboardInit /\ CandlesInit
    /\ SignalsInit /\ (tool # "signals" => node.kind = Classifier)
    /\ FeedsInit /\ (tool # "feeds" => feedMode = "gbm")
    /\ Init

Only(t) ==
    /\ tool = t /\ UNCHANGED tool
    /\ t # "testbed" => UNCHANGED testbedVars
    /\ t # "launcher" => UNCHANGED launcherVars
    /\ t \notin {"charts", "kill switch"} => UNCHANGED dashboardVars
    /\ t # "candles" => UNCHANGED candlesVars
    /\ t # "signals" => UNCHANGED signalsVars
    /\ t # "feeds" => UNCHANGED feedsVars
    /\ t # "limiter" => UNCHANGED vars

ToolsNext ==
    \/ Only("testbed") /\ TestbedNext
    \/ Only("launcher") /\ LauncherNext
    \/ Only("charts") /\ ChartsNext
    \/ Only("kill switch") /\ KillNext
    \/ Only("candles") /\ CandlesNext
    \/ Only("signals") /\ SignalsNext
    \/ Only("feeds") /\ FeedsNext
    \/ Only("limiter") /\ Next

toolsVars ==
    <<tool, testbedVars, launcherVars, dashboardVars, candlesVars, signalsVars, feedsVars, vars>>

\* LauncherFairness, of the behaviours in which the launcher runs.
ToolsSpec ==
    /\ ToolsInit /\ [][ToolsNext]_toolsVars
    /\ WF_toolsVars(Only("launcher") /\ LauncherStep)
    /\ \A p \in Proc : WF_toolsVars(Only("launcher") /\ ProcessStep(p))

ToolsTypeOK ==
    /\ TestbedTypeOK /\ LauncherTypeOK /\ DashboardTypeOK
    /\ CandlesTypeOK /\ SignalsTypeOK /\ FeedsTypeOK /\ TypeOK
=============================================================================
