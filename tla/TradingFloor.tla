---------------------------- MODULE TradingFloor ----------------------------
(***************************************************************************)
(* A strategy process joined to the gateway and the engine of              *)
(* TradingSystem, by the sockets order_ingress, risk_reject_pub and        *)
(* exec_report_pub, and the feed.  Other strategies push any orders.  Its  *)
(* orders reach the gateway late, its cancels may reach the engine before  *)
(* them, and reports reach it late, so what it knows of its orders lags    *)
(* behind the book.  The kill switch, the clock of the rate limiter and    *)
(* the ledger of positions are left to TradingSystem: no order of the      *)
(* bounded runs comes near the position limit.                             *)
(***************************************************************************)
EXTENDS TradingSystem, StrategyNode

\* Strategies send orders of the prices and quantities that there are.
ASSUME FloorAssumption ==
    /\ Self \in Strategy
    /\ \A w \in Wishes \cup OtherWishes : w.price \in Price /\ w.qty \in Quantity

floorvars == <<vars, nodevars>>

FloorInit == Init /\ NodeInit

\* The gateway serves the oldest message on order_ingress; a refused order is
\* reported on risk_reject_pub.
Serve ==
    /\ ingress # <<>>
    /\ LET m == Head(ingress) IN
         IF m.what = "cancel"
           THEN ForwardCancel(m.id) /\ rejects' = rejects
           ELSE LET n == [id |-> m.id, strategy |-> m.strategy, side |-> m.side,
                          price |-> m.price, qty |-> m.qty]
                IN /\ InboundOrder(n)
                   /\ rejects' = IF m.strategy = Self /\ ~ Passes(n)
                                   THEN Append(rejects, m.id) ELSE rejects
    /\ ingress' = Tail(ingress)
    /\ UNCHANGED <<bookvars, tape, missed, open, safe, late, feedvars, inbox, pushed, born>>

\* The reports whose topic is the strategy's own, the only ones its socket takes.
OwnOf(reports) ==
    LET mine == InOrder({k \in DOMAIN reports : sent[reports[k].id].strategy = Self})
    IN  [j \in DOMAIN mine |-> reports[mine[j]]]

\* What a step of the engine reports goes to the gateway and to the strategy.
Published ==
    /\ inbox' = inbox \o OwnOf(SubSeq(execs', Len(execs) + 1, Len(execs')))
    /\ UNCHANGED <<open, safe, late, feedvars, rejects, ingress, pushed, born>>

FloorMatch == EngineMatch /\ Published
FloorCancel == EngineCancel /\ Published
FloorGc(i) == EngineGc(i) /\ Published

\* Bound: MaxOrders orders in all.
Node(ready) ==
    /\ \E w \in Submitted(ready) : (w # NoWish => pushed < MaxOrders) /\ Poll(ready, w)
    /\ UNCHANGED vars

\* Bound: heartbeats fail again only once the requests of the last time are
\* served.
Market ==
    /\ \/ FeedTick
       \/ HeartbeatLate /\ cancels = <<>> /\ \A m \in Range(ingress) : m.what = "order"
       \/ \E s \in Strategy, w \in OtherWishes : pushed < MaxOrders /\ OtherPushes(s, w)
    /\ UNCHANGED vars

\* Bound: once, with an order out, and two orders of the run still to come.
NodeRestarts ==
    /\ born = 0 /\ open # {} /\ pushed + 2 <= MaxOrders /\ Restart
    /\ UNCHANGED vars

FloorNext ==
    \/ Market \/ NodeRestarts \/ \E ready \in SUBSET Holding : Node(ready)
    \/ Serve \/ FloorMatch \/ FloorCancel \/ \E i \in Id : FloorGc(i)

FloorSpec == FloorInit /\ [][FloorNext]_floorvars

HearsOfOrders ==
    \E ready \in SUBSET Holding : ready \cap {"report", "reject"} # {} /\ Node(ready)

\* The processes run, and the strategy works on what a socket holds.  While it
\* is in safe mode it sends no order, so that the engine, which counts orders
\* only, comes to take it for silent and collects its orders.
FloorFairSpec ==
    /\ FloorSpec
    /\ WF_floorvars(Serve) /\ WF_vars(EngineMatch)
    /\ WF_nodevars(HearsOfOrders)
    /\ WF_vars(safe /\ \E i \in arrived : sent[i].strategy = Self /\ EngineGc(i))

-----------------------------------------------------------------------------
IsOwn(m) == m.what = "order" /\ m.strategy = Self

\* The strategy's orders that can still trade, those on the way to the gateway
\* included.
OwnAlive ==
    {i \in Alive : sent[i].strategy = Self}
        \cup {m.id : m \in {k \in Range(ingress) : IsOwn(k)}}

NodeTypeOK ==
    /\ TypeOK
    /\ open \subseteq [id : Id, side : Side, price : Price]
    /\ safe \in BOOLEAN /\ late \in BOOLEAN
    /\ count \in 0..(HeartbeatEvery - 1) /\ hbs \in 0..Backlog /\ ticks \in 0..Backlog
    /\ inbox \in Seq(Report) /\ rejects \in Seq(Id)
    /\ pushed \in 0..MaxOrders
    /\ \A m \in Range(ingress) : m.id \in 1..pushed

\* The strategy knows every order that it sent since it was started and that
\* can still trade: whatever the lag and the order of reports, those about its
\* orders before a restart among them, it forgets none too early
\* (strategy.py:119, 156, 206-214, 223).
KnowsItsOrders == {i \in OwnAlive : i > born} \subseteq {o.id : o \in open}

\* The self-trade check keeps its promise at the book, where it counts: no
\* order of the strategy trades with another of its own, but for those it sent
\* before a restart, which it does not remember (strategy.py:119, 128-156).
NoSelfTrade ==
    \A k \in DOMAIN tape :
        ~ \A i \in {tape[k][1], active} : sent[i].strategy = Self /\ i > born

\* Again and again open_orders holds nothing but orders that can trade: one that
\* has been filled, cancelled or refused is taken out in the end, or the
\* self-trade check would go on refusing orders because of it
\* (strategy.py:134-142, 206-214, 219-223).
ForgetsClosedOrders == []<>({o.id : o \in open} \subseteq OwnAlive)

\* A strategy that stays in safe mode ends up with no order that can trade: the
\* orders that its cancels overtake, and those of before a restart, which it does
\* not cancel, are left to the orphan collector
\* (strategy.py:180-188, matching_engine.py:107-122, 274-289).
SafeModeClosesOrders == safe ~> ~ safe \/ OwnAlive = {}
=============================================================================
