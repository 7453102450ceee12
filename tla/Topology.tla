----------------------------- MODULE Topology -----------------------------
(***************************************************************************)
(* Where the sockets of the processes bind and connect: the endpoints of   *)
(* config/topology.yaml, the addresses engine/config.py makes of them in   *)
(* the two deployment modes, and what a send on a socket of                *)
(* engine/zmq_factory.py does when its queue is full.                      *)
(***************************************************************************)
EXTENDS Naturals

NoHost == "unset"

\* The endpoints and the key of the host each binds on.
HostKeyOf ==
    [feed_pub |-> "feed", heartbeat_pub |-> "feed",
     exec_report_pub |-> "matching_engine", order_egress |-> "matching_engine",
     order_cancel |-> "matching_engine", me_heartbeat_pub |-> "matching_engine",
     order_ingress |-> "risk_gateway", kill_switch |-> "risk_gateway",
     risk_reject_pub |-> "risk_gateway", rg_heartbeat_pub |-> "risk_gateway"]

PortOf ==
    [feed_pub |-> 5555, exec_report_pub |-> 5556, heartbeat_pub |-> 5557,
     order_ingress |-> 5558, order_egress |-> 5559, kill_switch |-> 5560,
     risk_reject_pub |-> 5561, order_cancel |-> 5562, me_heartbeat_pub |-> 5563,
     rg_heartbeat_pub |-> 5564]

Endpoint == DOMAIN HostKeyOf

\* The host of a key: env holds the variables FABRIC_..._HOST, and fabric mode
\* raises when the one it needs is not set.
ResolveHost(mode, env, key) == IF mode = "fabric" THEN env[key] ELSE "127.0.0.1"

BindAddr(mode, env, e) ==
    [host |-> IF mode = "fabric" THEN "0.0.0.0" ELSE ResolveHost(mode, env, HostKeyOf[e]),
     port |-> PortOf[e]]

ConnectAddr(mode, env, e) ==
    [host |-> ResolveHost(mode, env, HostKeyOf[e]), port |-> PortOf[e]]

\* Two sockets of one node cannot bind one address.
Clash(a, b) == a.port = b.port /\ (a.host = b.host \/ "0.0.0.0" \in {a.host, b.host})

\* What the target function of each process binds and connects.
EngineSockets ==
    [binds |-> {"order_egress", "exec_report_pub", "order_cancel", "me_heartbeat_pub"},
     connects |-> {}]
GatewaySockets ==
    [binds |-> {"order_ingress", "risk_reject_pub", "kill_switch", "rg_heartbeat_pub"},
     connects |-> {"order_egress", "order_cancel", "exec_report_pub"}]
FeedSockets == [binds |-> {"feed_pub", "heartbeat_pub"}, connects |-> {}]
StrategySockets ==
    [binds |-> {},
     connects |-> {"feed_pub", "exec_report_pub", "heartbeat_pub", "order_ingress",
                   "risk_reject_pub"}]

-----------------------------------------------------------------------------
\* What a send does on a socket that has n messages queued and a high-water
\* mark: PUB drops, PUSH waits until there is room or, with NOBLOCK, raises.
SendOutcome(kind, noblock, n, hwm) ==
    IF n < hwm THEN "queued"
    ELSE IF kind = "PUB" THEN "dropped"
    ELSE IF noblock THEN "raises" ELSE "blocks"
=============================================================================
