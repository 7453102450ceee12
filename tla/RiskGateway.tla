---------------------------- MODULE RiskGateway ----------------------------
(***************************************************************************)
(* The risk gateway of engine/risk_gateway.py, between the strategies and  *)
(* the matching engine: the handlers of its poll loop for the kill switch, *)
(* an execution report, a new order and a strategy's cancel, on the state  *)
(* of _risk_gateway_target.  One poll serves at most one message of each   *)
(* socket; a message is on a socket once ZeroMQ has delivered it, so the   *)
(* handlers run in any order.  One symbol.                                 *)
(***************************************************************************)
EXTENDS RiskFilters, Ordered, SequencesExt

CONSTANTS MaxOrders,   \* bound: orders the strategies send, numbered as served
          Strategy,
          Price, Quantity,
          Inbound,     \* the orders that may come: the fields of NewOrderSingle
          MaxTime      \* bound: the last tick of the clock

Id == 1..MaxOrders
Side == {"BUY", "SELL"}
Nos == [id : Id, strategy : Strategy, side : Side, price : Price, qty : Quantity]

ASSUME GatewayAssumption ==
    /\ MaxOrders \in Nat /\ MaxTime \in Nat
    /\ Price \subseteq Nat \ {0} /\ Quantity \subseteq Nat \ {0}
    /\ Inbound \subseteq Nos

VARIABLES
    now,        \* now_s
    positions,  \* positions: [Strategy -> net booked position]
    sides,      \* order_side_registry: [Id -> Side or "none"]
    pending,    \* the keys of pending_orders
    buckets,    \* buckets
    kill,       \* kill_active
    sent,       \* the orders served so far, in order: Seq(Nos)
    passed,     \* history: the ids that passed the filters
    egress,     \* order_egress: ids on their way to the engine
    cancels,    \* order_cancel: ids on their way to its cancel thread
    execs       \* exec_report_pub: reports on their way back

statevars == <<positions, sides, pending, buckets, kill>>
rgvars == <<now, statevars, sent, passed, egress, cancels, execs>>

ExecType == {"NEW", "PARTIAL", "FILL", "CANCEL"}
Report == [id : Id, type : ExecType, qty : Nat]

RgInit ==
    /\ now = 0
    /\ positions = [s \in Strategy |-> 0]
    /\ sides = [i \in Id |-> "none"]
    /\ pending = {}
    /\ buckets = [s \in Strategy |-> NoBucket]
    /\ kill = FALSE
    /\ sent = <<>> /\ passed = {}
    /\ egress = <<>> /\ cancels = <<>> /\ execs = <<>>

Tick ==
    /\ now < MaxTime
    /\ now' = now + 1
    /\ UNCHANGED <<statevars, sent, passed, egress, cancels, execs>>

-----------------------------------------------------------------------------
\* The requests the kill switch sends, in the order of the dict.
KillRequests == InOrder(pending)

\* The kill switch: cancel what is pending, reject from now on.
KillSwitch ==
    /\ kill' = TRUE
    /\ cancels' = cancels \o KillRequests
    /\ pending' = {}
    /\ UNCHANGED <<now, positions, sides, buckets, sent, passed, egress, execs>>

DeltaMutant(r) ==
    IF sides[r.id] = "SELL" THEN -r.qty ELSE IF sides[r.id] = "BUY" THEN r.qty ELSE 0

\* An order that is not in order_side_registry counts as a BUY.
Delta(r) == IF sides[r.id] = "SELL" THEN -r.qty ELSE r.qty

IsFinalMutant(r) == r.type \in {"FILL", "PARTIAL"}

\* Only FILL takes an order out of the registries.
IsFinal(r) == r.type = "FILL"

\* Fill reconciliation, for the oldest report.
Reconcile ==
    /\ execs # <<>>
    /\ LET r == Head(execs)
           s == sent[r.id].strategy
       IN /\ positions' = IF r.type \in {"FILL", "PARTIAL"}
                            THEN [positions EXCEPT ![s] = @ + Delta(r)]
                            ELSE positions
          /\ pending' = IF IsFinal(r) THEN pending \ {r.id} ELSE pending
          /\ sides' = IF IsFinal(r) THEN [sides EXCEPT ![r.id] = "none"] ELSE sides
    /\ execs' = Tail(execs)
    /\ UNCHANGED <<now, buckets, kill, sent, passed, egress, cancels>>

\* The filters before the rate limiter, which is asked only when they pass.
FiltersOk(n) ==
    /\ ~ kill
    /\ FatFingerOk(n.price, n.qty)
    /\ PositionOk(n.side, n.qty, positions[n.strategy])

PassesMutant(n) == FiltersOk(n)

Passes(n) == FiltersOk(n) /\ HasToken(buckets[n.strategy], now)

\* A new order: registered and forwarded, or rejected.
InboundOrder(n) ==
    /\ n.id = Len(sent) + 1
    /\ sent' = Append(sent, n)
    /\ buckets' = IF FiltersOk(n)
                    THEN [buckets EXCEPT ![n.strategy] = Spent(@, now)]
                    ELSE buckets
    /\ IF Passes(n)
         THEN /\ sides' = [sides EXCEPT ![n.id] = n.side]
              /\ pending' = pending \cup {n.id}
              /\ passed' = passed \cup {n.id}
              /\ egress' = Append(egress, n.id)
         ELSE UNCHANGED <<sides, pending, passed, egress>>
    /\ UNCHANGED <<now, positions, kill, cancels, execs>>

\* A strategy's CancelRequest comes in on the order socket, reads as an order
\* without side or quantity, and goes to the engine as it is.
ForwardCancel(i) ==
    /\ i <= Len(sent)
    /\ cancels' = Append(cancels, i)
    /\ UNCHANGED <<now, statevars, sent, passed, egress, execs>>

\* Bound: one request per order under way.
InboundCancel(i) == i \notin Range(cancels) /\ ForwardCancel(i)

RgStep ==
    \/ Reconcile
    \/ KillSwitch
    \/ \E n \in Inbound : InboundOrder(n)
    \/ \E i \in Id : InboundCancel(i)
=============================================================================
