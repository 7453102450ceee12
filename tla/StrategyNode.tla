---------------------------- MODULE StrategyNode ----------------------------
(***************************************************************************)
(* One strategy process, the poll loop of _strategy_target in              *)
(* engine/strategy.py, and the feed it listens to (engine/feed_handler.py).*)
(* An iteration of the loop is one action: it works on at most one message *)
(* of each socket that poll() found ready, in the order of the code, and   *)
(* what it sends leaves in that order.  What on_tick decides is left open: *)
(* any order of Wishes or none.  One symbol.                               *)
(***************************************************************************)
EXTENDS Ordered, SequencesExt

CONSTANTS Self,            \* strategy_id
          Wishes,          \* what on_tick may submit: [side, price, qty]
          OtherWishes,     \* what the other strategies may submit
          HeartbeatEvery,  \* HEARTBEAT_INTERVAL, in ticks
          Backlog          \* rcvhwm of the two sockets of the feed

ASSUME NodeAssumption ==
    /\ HeartbeatEvery \in Nat \ {0}
    /\ Backlog \in Nat
    /\ \A w \in Wishes \cup OtherWishes : w.side \in {"BUY", "SELL"} /\ w.price \in Nat /\ w.qty \in Nat

VARIABLES
    open,     \* open_orders: a set of [id, side, price]
    safe,     \* safe_mode
    late,     \* now_s - last_hb_s > heartbeat_timeout_s
    count,    \* the tick counter of the feed, modulo HeartbeatEvery
    hbs,      \* how many heartbeats wait on hb_sub
    ticks,    \* how many ticks wait on feed_sub, those that came in safe mode too
    inbox,    \* the reports on exec_sub: [id, type, qty]
    rejects,  \* the ids of the reports on risk_sub
    ingress,  \* order_ingress: what the strategies have pushed, in order
    pushed,   \* how many orders they have pushed; the id of the last one
    born      \* history: pushed when the process was started again, or 0

feedvars == <<count, hbs, ticks>>
nodevars == <<open, safe, late, feedvars, inbox, rejects, ingress, pushed, born>>

NodeInit ==
    /\ open = {} /\ safe = FALSE /\ late = FALSE
    /\ count = 0 /\ hbs = 0 /\ ticks = 0
    /\ inbox = <<>> /\ rejects = <<>>
    /\ ingress = <<>> /\ pushed = 0 /\ born = 0

-----------------------------------------------------------------------------
\* A round of the loop that emits ticks, a heartbeat after every so many; a
\* full socket takes neither.
FeedTick ==
    /\ ticks' = IF ticks < Backlog THEN ticks + 1 ELSE ticks
    /\ hbs' = IF count = 0 /\ hbs < Backlog THEN hbs + 1 ELSE hbs
    /\ count' = (count + 1) % HeartbeatEvery
    /\ UNCHANGED <<open, safe, late, inbox, rejects, ingress, pushed, born>>

\* heartbeat_timeout_s goes by; a heartbeat may be waiting meanwhile.
HeartbeatLate ==
    /\ ~ late
    /\ late' = TRUE
    /\ UNCHANGED <<open, safe, feedvars, inbox, rejects, ingress, pushed, born>>

OrderMsg(strategy, w) ==
    [what |-> "order", strategy |-> strategy, id |-> pushed + 1,
     side |-> w.side, price |-> w.price, qty |-> w.qty]
CancelMsg(i) == [what |-> "cancel", id |-> i]

\* Another strategy pushes an order.
OtherPushes(strategy, w) ==
    /\ strategy # Self
    /\ ingress' = Append(ingress, OrderMsg(strategy, w))
    /\ pushed' = pushed + 1
    /\ UNCHANGED <<open, safe, late, feedvars, inbox, rejects, born>>

\* The process ends and is started again: it keeps nothing, not even of the
\* orders it left in the book; what it pushed goes out while its sockets linger,
\* what its subscriptions held is gone.
Restart ==
    /\ open' = {} /\ safe' = FALSE /\ late' = FALSE
    /\ hbs' = 0 /\ ticks' = 0 /\ inbox' = <<>> /\ rejects' = <<>>
    /\ born' = pushed
    /\ UNCHANGED <<count, ingress, pushed>>

-----------------------------------------------------------------------------
WouldSelfTradeMutant(w) == \E o \in open :
    \/ w.side = "BUY" /\ o.side = "SELL" /\ w.price > o.price
    \/ w.side = "SELL" /\ o.side = "BUY" /\ w.price < o.price

\* The self-trade check of _submit_order.
WouldSelfTrade(w) == \E o \in open :
    \/ w.side = "BUY" /\ o.side = "SELL" /\ w.price >= o.price
    \/ w.side = "SELL" /\ o.side = "BUY" /\ w.price <= o.price

\* The sockets that hold a message; poll() finds those it has been delivered to.
Holding ==
    {s \in {"heartbeat", "tick", "report", "reject"} :
        \/ s = "heartbeat" /\ hbs > 0
        \/ s = "tick" /\ ticks > 0
        \/ s = "report" /\ inbox # <<>>
        \/ s = "reject" /\ rejects # <<>>}

EntersSafeMode == late /\ ~ safe

\* safe_mode after the timeout check and the heartbeat.
SafeAfter(ready) == (safe \/ late) /\ "heartbeat" \notin ready

\* The tick is received, and handed to on_tick, unless in safe mode.
Acts(ready) == "tick" \in ready /\ ~ SafeAfter(ready)

NoWish == [side |-> "none", price |-> 0, qty |-> 0]

\* What on_tick may ask for, as far as the self-trade check lets it pass.
Submitted(ready) ==
    {NoWish} \cup {w \in Wishes : Acts(ready) /\ ~ WouldSelfTrade(w)}

TerminalMutant == {"PARTIAL", "FILL", "CANCEL", "REJECT"}

\* The exec types that close an order (a REJECT comes on risk_sub instead).
Terminal == {"FILL", "CANCEL", "REJECT"}

PoppedMutant(ready) ==
    {Head(inbox).id : x \in {k \in ready : k = "report" /\ Head(inbox).type \in Terminal}}

\* The orders a round takes out of open_orders.
Popped(ready) ==
    {Head(inbox).id : x \in {k \in ready : k = "report" /\ Head(inbox).type \in Terminal}}
    \cup {Head(rejects) : x \in ready \cap {"reject"}}

\* A CancelRequest for every key of open_orders, oldest first.
CancelRequests ==
    LET ids == InOrder({o.id : o \in open})
    IN [k \in DOMAIN ids |-> CancelMsg(ids[k])]

\* One iteration of the loop: timeout check, heartbeat, tick, report, reject.
Poll(ready, w) ==
    /\ w \in Submitted(ready)
    /\ safe' = SafeAfter(ready)
    /\ late' = (late /\ "heartbeat" \notin ready)
    /\ hbs' = IF "heartbeat" \in ready THEN hbs - 1 ELSE hbs
    /\ ticks' = IF Acts(ready) THEN ticks - 1 ELSE ticks
    /\ inbox' = IF "report" \in ready THEN Tail(inbox) ELSE inbox
    /\ rejects' = IF "reject" \in ready THEN Tail(rejects) ELSE rejects
    /\ LET requests == IF EntersSafeMode THEN CancelRequests ELSE <<>>
       IN IF w = NoWish
            THEN /\ ingress' = ingress \o requests
                 /\ open' = {o \in open : o.id \notin Popped(ready)}
                 /\ pushed' = pushed
            ELSE LET m == OrderMsg(Self, w) IN
                 /\ ingress' = Append(ingress \o requests, m)
                 /\ open' = {o \in open \cup {[id |-> m.id, side |-> w.side, price |-> w.price]} :
                                 o.id \notin Popped(ready)}
                 /\ pushed' = m.id
    /\ UNCHANGED <<count, born>>
=============================================================================
