----------------------------- MODULE Dashboard -----------------------------
(***************************************************************************)
(* notebooks/dashboard.ipynb: a thread that reads heartbeats and reports   *)
(* off its sockets, one of each kind a cycle, a timer that redraws what it *)
(* shows once a second, and the operator's two-stage kill switch.          *)
(***************************************************************************)
EXTENDS Topology, Sequences

CONSTANTS KnownNodes,     \* KNOWN_NODES
          StaleAfter,     \* STALE_THRESHOLD * HEARTBEAT_INTERVAL_S, in ticks of the clock
          RefreshPeriod,  \* the timer's second, in ticks
          Lag,            \* how long a heartbeat may wait for the poll thread
          KillHwm,        \* high-water mark of kill_push
          MaxClock,       \* bound: the last tick
          MaxFills        \* bound: fills reported

ASSUME DashboardAssumption ==
    /\ {StaleAfter, RefreshPeriod, KillHwm, MaxClock} \subseteq Nat \ {0}
    /\ {Lag, MaxFills} \subseteq Nat

Never == 0    \* the clock starts at 1

VARIABLES
    clock,      \* time.monotonic()
    due,        \* when the timer fires
    nodeUp,     \* [KnownNodes -> does the node run?]
    upSince,      \* history: since when
    beats,      \* heartbeats on the way to hb_sub and in its queue
    lastHb,     \* last_hb_time
    shown,      \* [KnownNodes -> what its widget says]
    times,      \* length of pnl_timestamps of a strategy
    values,     \* length of its pnl_values
    drawn,      \* points of its P&L curve
    clicks,     \* clicks the kernel has not handled
    view,       \* the kill switch buttons the browser shows
    buttons,    \* the buttons as the kernel set them last
    status,     \* ks_status
    killQueue   \* messages queued on kill_push

healthVars == <<clock, due, nodeUp, upSince, beats, lastHb, shown>>
pnlVars == <<times, values, drawn>>
killVars == <<clicks, view, buttons, status, killQueue>>
dashboardVars == <<healthVars, pnlVars, killVars>>

DashboardInit ==
    /\ clock = 1 /\ due = 1
    /\ nodeUp = [n \in KnownNodes |-> TRUE] /\ upSince = [n \in KnownNodes |-> 1]
    /\ beats = <<>> /\ lastHb = [n \in KnownNodes |-> Never]
    /\ shown = [n \in KnownNodes |-> "STALE"]
    /\ times = 0 /\ values = 0 /\ drawn = 0
    /\ clicks = <<>> /\ view = "safe" /\ buttons = "safe" /\ status = "SAFE" /\ killQueue = 0

-----------------------------------------------------------------------------
(* Node health.                                                            *)

\* Time passes: the timer is on time, and the poll thread no more than Lag late.
Pass ==
    /\ clock < MaxClock /\ clock < due
    /\ beats # <<>> => clock < Head(beats).sent + Lag
    /\ clock' = clock + 1
    /\ UNCHANGED <<due, nodeUp, upSince, beats, lastHb, shown, pnlVars, killVars>>

\* A node that runs beats now and then: the gateway every 1000 cycles of its
\* loop, the feed not at all in replay mode.
Beat(n) ==
    /\ nodeUp[n] /\ Len(beats) < 2
    /\ beats' = Append(beats, [node |-> n, sent |-> clock])
    /\ UNCHANGED <<clock, due, nodeUp, upSince, lastHb, shown, pnlVars, killVars>>

\* A node dies or starts again.
Flip(n) ==
    /\ nodeUp' = [nodeUp EXCEPT ![n] = ~@]
    /\ upSince' = [upSince EXCEPT ![n] = clock]
    /\ UNCHANGED <<clock, due, beats, lastHb, shown, pnlVars, killVars>>

\* _poll_loop reads a heartbeat and notes when it did, not when it was sent.
ReadBeat ==
    /\ beats # <<>>
    /\ lastHb' = [lastHb EXCEPT ![Head(beats).node] = clock]
    /\ beats' = Tail(beats)
    /\ UNCHANGED <<clock, due, nodeUp, upSince, shown, pnlVars, killVars>>

StaleMutant(n) == lastHb[n] = Never
Stale(n) == lastHb[n] = Never \/ clock - lastHb[n] > StaleAfter

\* _schedule_refresh: update_node_health and the charts.  A P&L curve whose two
\* lists the poll thread is between differ in length: matplotlib raises, the
\* error is swallowed and the curve stays as it was.
Refresh ==
    /\ clock = due
    /\ due' = clock + RefreshPeriod
    /\ shown' = [n \in KnownNodes |-> IF Stale(n) THEN "STALE" ELSE "OK"]
    /\ drawn' = IF times = values THEN values ELSE drawn
    /\ UNCHANGED <<clock, nodeUp, upSince, beats, lastHb, times, values, killVars>>

-----------------------------------------------------------------------------
(* P&L of a strategy: the poll thread appends the time of a fill, then its *)
(* value.                                                                  *)

FillTime ==
    /\ times = values /\ times < MaxFills
    /\ times' = times + 1
    /\ UNCHANGED <<values, drawn, healthVars, killVars>>

FillValue ==
    /\ values < times
    /\ values' = times
    /\ UNCHANGED <<times, drawn, healthVars, killVars>>

-----------------------------------------------------------------------------
(* The kill switch.                                                        *)

\* The buttons the browser lets the operator press.
Enabled ==
    [safe |-> {"ARM"}, armed |-> {"ARM", "CONFIRM", "CANCEL"}, killed |-> {}]

Click ==
    /\ Len(clicks) < 2
    /\ \E b \in Enabled[view] : clicks' = Append(clicks, b)
    /\ UNCHANGED <<view, buttons, status, killQueue, healthVars, pnlVars>>

\* The browser shows what the kernel set.
Render ==
    /\ view # buttons
    /\ view' = buttons
    /\ UNCHANGED <<clicks, buttons, status, killQueue, healthVars, pnlVars>>

OnArm ==
    /\ clicks # <<>> /\ Head(clicks) = "ARM"
    /\ clicks' = Tail(clicks)
    /\ buttons' = IF buttons = "killed" THEN "killed" ELSE "armed"
    /\ status' = "ARMED"
    /\ UNCHANGED <<view, killQueue, healthVars, pnlVars>>

\* A click on Cancel that was on its way when CONFIRM was handled still sets
\* the status to SAFE.
OnCancelArm ==
    /\ clicks # <<>> /\ Head(clicks) = "CANCEL"
    /\ clicks' = Tail(clicks)
    /\ buttons' = IF buttons = "killed" THEN "killed" ELSE "safe"
    /\ status' = "SAFE"
    /\ UNCHANGED <<view, killQueue, healthVars, pnlVars>>

\* on_confirm: a send that does not wait; whether it succeeds or raises, all
\* buttons are disabled and it cannot be tried again.
OnConfirm ==
    /\ clicks # <<>> /\ Head(clicks) = "CONFIRM"
    /\ clicks' = Tail(clicks)
    /\ buttons' = "killed"
    /\ IF SendOutcome("PUSH", TRUE, killQueue, KillHwm) = "queued"
       THEN killQueue' = killQueue + 1 /\ status' = "ACTIVATED"
       ELSE status' = "Send failed" /\ UNCHANGED killQueue
    /\ UNCHANGED <<view, healthVars, pnlVars>>

\* The gateway takes the message when it runs.
KillTaken ==
    /\ killQueue > 0
    /\ killQueue' = killQueue - 1
    /\ UNCHANGED <<clicks, view, buttons, status, healthVars, pnlVars>>

\* The charts and the kill switch share no state.
ChartsNext ==
    \/ Pass \/ ReadBeat \/ Refresh \/ FillTime \/ FillValue
    \/ \E n \in KnownNodes : Beat(n) \/ Flip(n)
KillNext == Click \/ Render \/ OnArm \/ OnCancelArm \/ OnConfirm \/ KillTaken
DashboardNext == ChartsNext \/ KillNext

DashboardSpec == DashboardInit /\ [][DashboardNext]_dashboardVars

-----------------------------------------------------------------------------
DashboardTypeOK ==
    /\ clock \in 1..MaxClock /\ due \in Nat
    /\ nodeUp \in [KnownNodes -> BOOLEAN] /\ upSince \in [KnownNodes -> 1..clock]
    /\ beats \in Seq([node : KnownNodes, sent : 1..clock])
    /\ lastHb \in [KnownNodes -> Never..clock] /\ shown \in [KnownNodes -> {"OK", "STALE"}]
    /\ {times, values, drawn} \subseteq 0..MaxFills /\ drawn <= values /\ values <= times
    /\ clicks \in Seq({"ARM", "CONFIRM", "CANCEL"}) /\ {view, buttons} \subseteq DOMAIN Enabled
    /\ status \in {"SAFE", "ARMED", "ACTIVATED", "Send failed"} /\ killQueue \in 0..KillHwm

\* A node that has been dead for the threshold, a refresh and the time its last
\* heartbeat may have waited on the socket is shown STALE, although the thread
\* notes when it read a heartbeat and a timer draws what it noted.
DeadNodeShownStale ==
    \A n \in KnownNodes :
        ~nodeUp[n] /\ clock > upSince[n] + Lag + StaleAfter + RefreshPeriod => shown[n] = "STALE"
=============================================================================
