------------------------- MODULE TradingFloorProofs -------------------------
(***************************************************************************)
(* A strategy with the gateway and the engine, for any number of orders    *)
(* and other strategies, any prices and quantities, and however far the    *)
(* messages of each socket lag behind.  What the strategy knows is right   *)
(* because a report that closes an order is about one that can no longer   *)
(* trade, and because ids grow: an order on order_ingress is older than    *)
(* every one pushed later and newer than every one served.                 *)
(***************************************************************************)
EXTENDS TradingFloor, TradingSystemProofs

Message ==
    [what : {"order"}, strategy : Strategy, id : Id, side : Side, price : Price, qty : Quantity]
        \cup [what : {"cancel"}, id : Id]
Mark == [id : Id, side : Side, price : Price]

NodeTypes ==
    /\ open \subseteq Mark
    /\ safe \in BOOLEAN /\ late \in BOOLEAN
    /\ count \in 0..(HeartbeatEvery - 1) /\ hbs \in 0..Backlog /\ ticks \in 0..Backlog
    /\ inbox \in Seq(Report) /\ rejects \in Seq(Id)
    /\ ingress \in Seq(Message)
    /\ pushed \in 0..MaxOrders /\ born \in 0..pushed

\* Some messages are about orders up to p, and its orders, after n, come in turn.
Messages(q, n, p) ==
    \A k \in DOMAIN q :
        /\ q[k].id <= p
        /\ q[k].what = "order" =>
              /\ n < q[k].id
              /\ \A j \in DOMAIN q : q[j].what = "order" /\ j < k => q[j].id < q[k].id

\* The orders on order_ingress come in the order of their ids, each after the
\* orders served and not after the last one pushed.
Queue == Len(sent) <= pushed /\ Messages(ingress, Len(sent), pushed)

\* The order is through: it was in the book, and will not trade any more.
Over(i) == i \in arrived /\ i \notin resting /\ (i = active => left[i] = 0)

\* Reports that close an order tell the truth, and stay true on their way.
Closing ==
    /\ \A r \in Range(inbox) \cup Range(execs) : r.type \in {"FILL", "CANCEL"} => Over(r.id)
    /\ \A i \in Range(rejects) : i \in Served /\ i \notin passed

\* What open_orders says of an order is what was sent.
Marked ==
    \A o \in open :
        /\ o.id <= pushed
        /\ o.id \in Served => sent[o.id].side = o.side /\ sent[o.id].price = o.price
        /\ \A m \in Range(ingress) :
              m.what = "order" /\ m.id = o.id => m.side = o.side /\ m.price = o.price

\* No two of the orders in open_orders could trade with each other.
Apart == \A o, p \in open : o.side = "BUY" /\ p.side = "SELL" => o.price < p.price

\* The book holds an order at the terms it was sent with.
AsSent ==
    /\ terms \in [Id -> Book!Terms]
    /\ \A i \in arrived : terms[i] = [side |-> sent[i].side, type |-> "LIMIT", price |-> sent[i].price]

FloorInv ==
    /\ SystemInv /\ NodeTypes /\ Queue /\ Closing /\ KnowsItsOrders /\ Marked /\ Apart
    /\ AsSent /\ NoSelfTrade

-----------------------------------------------------------------------------
\* The queue when requests to cancel known orders are pushed,
LEMMA RequestsPushed ==
    ASSUME NEW q \in Seq(Message), NEW c \in Seq(Message), NEW n, NEW p, Messages(q, n, p),
           \A m \in Range(c) : m.what = "cancel" /\ m.id <= p
    PROVE  Messages(q \o c, n, p)
<1>1. /\ Len(q) \in Nat /\ Len(c) \in Nat /\ DOMAIN q = 1..Len(q) /\ DOMAIN c = 1..Len(c)
      /\ DOMAIN (q \o c) = 1..(Len(q) + Len(c))
      /\ \A k \in 1..Len(q) : (q \o c)[k] = q[k]
      /\ \A k \in 1..(Len(q) + Len(c)) : k > Len(q) => (q \o c)[k] = c[k - Len(q)]
  BY ConcatProperties, LenProperties
<1>2. \A k \in 1..(Len(q) + Len(c)) : k > Len(q) =>
         (q \o c)[k].what = "cancel" /\ (q \o c)[k].id <= p
  <2> SUFFICES ASSUME NEW k \in 1..(Len(q) + Len(c)), k > Len(q)
               PROVE  c[k - Len(q)] \in Range(c)
    BY <1>1
  <2>1. k - Len(q) \in 1..Len(c)
    BY <1>1
  <2>2. QED
    BY <1>1, <2>1 DEF Range
<1> DEFINE l == q \o c
<1>3. /\ DOMAIN l = 1..(Len(q) + Len(c)) /\ \A k \in 1..Len(q) : l[k] = q[k]
      /\ \A k \in 1..(Len(q) + Len(c)) : k > Len(q) => l[k].what = "cancel" /\ l[k].id <= p
  BY <1>1, <1>2
<1> HIDE DEF l
<1>4. Messages(l, n, p)
  <2> SUFFICES ASSUME NEW k \in 1..(Len(q) + Len(c))
               PROVE  /\ l[k].id <= p
                      /\ l[k].what = "order" =>
                            /\ n < l[k].id
                            /\ \A j \in 1..(Len(q) + Len(c)) :
                                  l[j].what = "order" /\ j < k => l[j].id < l[k].id
    BY <1>3 DEF Messages
  <2>1. CASE k > Len(q)
    BY <1>3, <2>1
  <2>2. CASE ~ k > Len(q)
    <3>1. k \in 1..Len(q) /\ \A j \in 1..(Len(q) + Len(c)) : j < k => j \in 1..Len(q)
      BY <1>1, <2>2
    <3>2. QED
      BY <1>1, <1>3, <3>1 DEF Messages
  <2>3. QED
    BY <2>1, <2>2
<1>5. QED
  BY <1>4 DEF l

\* when an order is pushed,
LEMMA OrderPushed ==
    ASSUME NEW q \in Seq(Message), NEW m \in Message, NEW n \in Nat, NEW p \in Nat,
           Messages(q, n, p), m.what = "order", m.id = p + 1, n <= p,
           \A k \in DOMAIN q : q[k].id \in Int
    PROVE  Messages(Append(q, m), n, p + 1)
<1> DEFINE l == Append(q, m)
<1>1. /\ Len(q) \in Nat /\ DOMAIN q = 1..Len(q) /\ DOMAIN l = 1..(Len(q) + 1)
      /\ \A k \in 1..Len(q) : l[k] = q[k]
      /\ l[Len(q) + 1] = m
  BY AppendProperties, LenProperties
<1> HIDE DEF l
<1> SUFFICES ASSUME NEW k \in 1..(Len(q) + 1)
             PROVE  /\ l[k].id <= p + 1
                    /\ l[k].what = "order" =>
                          /\ n < l[k].id
                          /\ \A j \in 1..(Len(q) + 1) :
                                l[j].what = "order" /\ j < k => l[j].id < l[k].id
  BY <1>1 DEF Messages, l
<1>2. \A j \in 1..Len(q) : q[j].id <= p /\ q[j].id \in Int
  BY <1>1 DEF Messages
<1>3. CASE k = Len(q) + 1
  <2>1. l[k] = m /\ \A j \in 1..(Len(q) + 1) : j < k => j \in 1..Len(q)
    BY <1>1, <1>3
  <2>2. QED
    BY <1>1, <1>2, <2>1
<1>4. CASE k # Len(q) + 1
  <2>1. k \in 1..Len(q) /\ \A j \in 1..(Len(q) + 1) : j < k => j \in 1..Len(q)
    BY <1>1, <1>4
  <2>2. l[k] = q[k] /\ q[k].id <= p + 1
    <3>1. q[k].id <= p /\ q[k].id \in Int
      BY <1>2, <2>1
    <3>2. QED
      BY <1>1, <2>1, <3>1
  <2>3. q[k].what = "order" =>
           /\ n < q[k].id
           /\ \A j \in 1..Len(q) : q[j].what = "order" /\ j < k => q[j].id < q[k].id
    BY <1>1, <2>1 DEF Messages
  <2>4. QED
    BY <1>1, <2>1, <2>2, <2>3
<1>5. QED
  BY <1>3, <1>4

\* and when the oldest message is served.
LEMMA OldestServed ==
    ASSUME NEW q \in Seq(Message), q # <<>>, NEW n, NEW p, Messages(q, n, p)
    PROVE  /\ Messages(Tail(q), n, p)
           /\ Head(q).what = "order" => Messages(Tail(q), Head(q).id, p)
<1> DEFINE l == Tail(q)
           h == Head(q)
<1>1. /\ Len(q) \in Nat \ {0} /\ DOMAIN q = 1..Len(q) /\ DOMAIN l = 1..(Len(q) - 1)
      /\ h = q[1] /\ \A k \in 1..(Len(q) - 1) : l[k] = q[k + 1]
  BY HeadTailProperties, LenProperties, EmptySeq
<1> HIDE DEF l, h
<1>2. /\ 1 \in 1..Len(q)
      /\ \A k \in 1..(Len(q) - 1) : k + 1 \in 1..Len(q) /\ 1 < k + 1
      /\ \A j, k \in 1..(Len(q) - 1) : j < k => j + 1 < k + 1
  BY <1>1
<1>3. ASSUME NEW k \in 1..(Len(q) - 1), NEW i, i = k + 1
      PROVE  /\ l[k] = q[i] /\ l[k].id <= p
             /\ l[k].what = "order" =>
                   /\ n < l[k].id
                   /\ h.what = "order" => h.id < l[k].id
                   /\ \A j \in 1..(Len(q) - 1) :
                         l[j].what = "order" /\ j < k => l[j].id < l[k].id
  <2>1. i \in DOMAIN q /\ 1 \in DOMAIN q /\ 1 < i /\ l[k] = q[i]
    BY <1>1, <1>2, <1>3
  <2>2. ASSUME NEW j \in 1..(Len(q) - 1), NEW x, x = j + 1, j < k
        PROVE  x \in DOMAIN q /\ x < i /\ l[j] = q[x]
    BY <1>1, <1>2, <1>3, <2>2
  <2>3. QED
    BY <1>1, <2>1, <2>2 DEF Messages
<1>4. QED
  BY <1>1, <1>3 DEF Messages, l, h

-----------------------------------------------------------------------------
\* What the numbers of orders are, and where those that can trade come from.
LEMMA FloorFacts ==
    ASSUME FloorInv
    PROVE  /\ MaxOrders \in Nat /\ Id = 1..MaxOrders /\ Len(sent) \in Nat /\ pushed \in Nat
           /\ Len(sent) <= pushed /\ pushed <= MaxOrders
           /\ Price \subseteq Nat \ {0} /\ Quantity \subseteq Nat \ {0}
           /\ Alive \subseteq passed /\ passed \subseteq Served /\ arrived \subseteq Served
           /\ \A i \in Served : i \in Id /\ i <= pushed /\ i <= Len(sent)
           /\ \A m \in Range(ingress) : m \in Message /\ m.id \in Id /\ m.id <= pushed
           /\ \A m \in Range(ingress) : m.what = "order" => Len(sent) < m.id
<1>1. /\ MaxOrders \in Nat /\ Id = 1..MaxOrders /\ Len(sent) \in Nat /\ pushed \in Nat
      /\ Len(sent) <= pushed /\ pushed <= MaxOrders
      /\ Price \subseteq Nat \ {0} /\ Quantity \subseteq Nat \ {0}
  <2>1. /\ MaxOrders \in Nat /\ Id = 1..MaxOrders /\ pushed \in 0..MaxOrders /\ Len(sent) <= pushed
        /\ Price \subseteq Nat \ {0} /\ Quantity \subseteq Nat \ {0} /\ sent \in Seq(Nos)
    BY GatewayAssumption DEF FloorInv, NodeTypes, Queue, Id, SystemInv, TypeOK
  <2>2. QED
    BY <2>1, LenProperties
<1>2. passed \subseteq Served /\ arrived \subseteq Served /\ Alive \subseteq passed
  <2>1. passed \subseteq Served /\ arrived \subseteq passed /\ Range(egress) \subseteq passed
    BY DEF FloorInv, SystemInv, Journey
  <2>2. resting \subseteq arrived
    BY DEF FloorInv, SystemInv, TypeOK
  <2>3. active \in Id => active \in arrived
    BY <1>1 DEF FloorInv, SystemInv, Matching, Book!NoOrder
  <2>4. QED
    BY <2>1, <2>2, <2>3 DEF Alive
<1>3. \A i \in Served : i \in Id /\ i <= pushed /\ i <= Len(sent)
  BY <1>1 DEF Served
<1>4. ASSUME NEW m \in Range(ingress)
      PROVE  /\ m \in Message /\ m.id \in Id /\ m.id <= pushed
             /\ m.what = "order" => Len(sent) < m.id
  <2>1. ingress \in Seq(Message) /\ Messages(ingress, Len(sent), pushed)
    BY DEF FloorInv, NodeTypes, Queue
  <2>2. PICK k \in DOMAIN ingress : m = ingress[k]
    BY DEF Range
  <2>3. ingress[k] \in Message
    BY <2>1, LenProperties
  <2>4. m.id \in Id
    BY <2>2, <2>3 DEF Message
  <2>5. QED
    BY <2>1, <2>2, <2>3, <2>4 DEF Messages
<1>5. QED
  BY <1>1, <1>2, <1>3, <1>4

\* An order that is over, or was refused, is none of those that can trade.
LEMMA OverIsOver ==
    ASSUME FloorInv
    PROVE  /\ \A i : Over(i) => i \in Served /\ i \notin OwnAlive
           /\ \A i \in Range(rejects) : i \in Served /\ i \notin OwnAlive
<1>1. \A i \in Served : i \notin {m.id : m \in {k \in Range(ingress) : IsOwn(k)}}
  BY FloorFacts DEF IsOwn
<1>2. ASSUME NEW i, Over(i) PROVE i \in Served /\ i \notin Alive
  BY <1>2, FloorFacts DEF Over, Alive, FloorInv, SystemInv, Journey, Matching
<1>3. ASSUME NEW i \in Range(rejects) PROVE i \in Served /\ i \notin Alive
  BY FloorFacts DEF FloorInv, Closing
<1>4. QED
  BY <1>1, <1>2, <1>3 DEF OwnAlive

\* What a step leaves alone when the gateway and the engine take no part in it.
LEMMA SystemStands ==
    ASSUME FloorInv, UNCHANGED vars
    PROVE  /\ SystemInv' /\ AsSent' /\ Alive' = Alive
           /\ \A i : Over(i)' <=> Over(i)
           /\ UNCHANGED <<sent, passed, execs, tape, active>>
           /\ Served' = Served
<1>1. /\ UNCHANGED <<now, positions, sides, pending, buckets, kill, sent, passed, egress>>
      /\ UNCHANGED <<cancels, execs>>
      /\ UNCHANGED <<arrived, terms, left, value, resting, active, tape, missed>>
  BY DEF vars, rgvars, statevars, bookvars
<1>2. SystemInv'
  BY SystemStep DEF FloorInv
<1>3. AsSent' /\ Alive' = Alive /\ Served' = Served /\ \A i : Over(i)' <=> Over(i)
  BY <1>1 DEF FloorInv, AsSent, Alive, Served, Over
<1>4. QED
  BY <1>1, <1>2, <1>3

\* The feed, the clock and a step of nobody: what the strategy knows stands.
LEMMA QuietKeeps ==
    ASSUME FloorInv, UNCHANGED vars, UNCHANGED <<open, inbox, rejects, ingress, pushed, born>>,
           safe' \in BOOLEAN, late' \in BOOLEAN,
           count' \in 0..(HeartbeatEvery - 1), hbs' \in 0..Backlog, ticks' \in 0..Backlog
    PROVE  FloorInv'
<1>1. /\ SystemInv' /\ AsSent' /\ Alive' = Alive /\ Served' = Served
      /\ \A i : Over(i)' <=> Over(i)
      /\ UNCHANGED <<sent, passed, execs, tape, active>>
  BY SystemStands
<1>2. NodeTypes' /\ Queue' /\ Apart'
  BY <1>1 DEF FloorInv, NodeTypes, Queue, Apart
<1>3. Closing'
  BY <1>1 DEF FloorInv, Closing
<1>4. KnowsItsOrders' /\ Marked'
  BY <1>1 DEF FloorInv, KnowsItsOrders, OwnAlive, IsOwn, Marked
<1>5. NoSelfTrade'
  BY <1>1 DEF FloorInv, NoSelfTrade
<1>6. QED
  BY <1>1, <1>2, <1>3, <1>4, <1>5 DEF FloorInv

LEMMA FeedKeeps ==
    ASSUME FloorInv, FeedTick \/ HeartbeatLate \/ UNCHANGED nodevars, UNCHANGED vars
    PROVE  FloorInv'
<1>1. /\ UNCHANGED <<open, inbox, rejects, ingress, pushed, born>>
      /\ safe \in BOOLEAN /\ late \in BOOLEAN
      /\ count \in 0..(HeartbeatEvery - 1) /\ hbs \in 0..Backlog /\ ticks \in 0..Backlog
      /\ HeartbeatEvery \in Nat \ {0} /\ Backlog \in Nat
  BY NodeAssumption DEF FloorInv, NodeTypes, FeedTick, HeartbeatLate, nodevars, feedvars
<1>2. /\ safe' \in BOOLEAN /\ late' \in BOOLEAN
      /\ count' \in 0..(HeartbeatEvery - 1) /\ hbs' \in 0..Backlog /\ ticks' \in 0..Backlog
  <2>1. CASE FeedTick
    <3>1. count' \in 0..(HeartbeatEvery - 1)
      BY <1>1, <2>1 DEF FeedTick
    <3>2. safe' = safe /\ late' = late /\ hbs' \in 0..Backlog /\ ticks' \in 0..Backlog
      BY <1>1, <2>1 DEF FeedTick
    <3>3. QED
      BY <1>1, <3>1, <3>2
  <2>2. CASE HeartbeatLate \/ UNCHANGED nodevars
    BY <1>1, <2>2 DEF HeartbeatLate, nodevars, feedvars
  <2>3. QED
    BY <2>1, <2>2
<1>3. QED
  BY <1>1, <1>2, QuietKeeps

-----------------------------------------------------------------------------
\* The message of an order that is pushed, and the queue with it.
LEMMA OrderOut ==
    ASSUME FloorInv, NEW s \in Strategy, NEW w \in Wishes \cup OtherWishes, pushed < MaxOrders,
           NEW q \in Seq(Message), Messages(q, Len(sent), pushed)
    PROVE  LET m == OrderMsg(s, w) IN
              /\ m \in Message /\ m.what = "order" /\ m.id = pushed + 1 /\ m.strategy = s
              /\ m.side = w.side /\ m.price = w.price
              /\ Append(q, m) \in Seq(Message) /\ Range(Append(q, m)) = Range(q) \cup {m}
              /\ Messages(Append(q, m), Len(sent), pushed + 1)
<1> DEFINE m == OrderMsg(s, w)
<1>1. w.side \in Side /\ w.price \in Price /\ w.qty \in Quantity /\ pushed + 1 \in Id
  BY NodeAssumption, FloorAssumption, FloorFacts DEF Side
<1>2. m = [what |-> "order", strategy |-> s, id |-> pushed + 1,
           side |-> w.side, price |-> w.price, qty |-> w.qty]
  BY DEF OrderMsg
<1> HIDE DEF m
<1>3. /\ m \in Message /\ m.what = "order" /\ m.id = pushed + 1 /\ m.strategy = s
      /\ m.side = w.side /\ m.price = w.price
  BY <1>1, <1>2 DEF Message
<1>4. Append(q, m) \in Seq(Message) /\ Range(Append(q, m)) = Range(q) \cup {m}
  BY <1>3, EntryAdded
<1>5. Messages(Append(q, m), Len(sent), pushed + 1)
  <2>1. \A k \in DOMAIN q : q[k].id \in Int
    <3>1. \A x \in Message : x.id \in Int
      BY FloorFacts DEF Message
    <3>2. \A k \in DOMAIN q : q[k] \in Message
      BY LenProperties
    <3>3. QED
      BY <3>1, <3>2
  <2>2. QED
    BY <1>3, <2>1, FloorFacts, OrderPushed
<1>6. QED
  BY <1>3, <1>4, <1>5 DEF m

LEMMA OtherPushesKeeps ==
    ASSUME FloorInv, NEW s \in Strategy, NEW w \in OtherWishes, pushed < MaxOrders,
           OtherPushes(s, w), UNCHANGED vars
    PROVE  FloorInv'
<1> DEFINE m == OrderMsg(s, w)
<1>1. /\ s # Self /\ ingress' = Append(ingress, m) /\ pushed' = pushed + 1
      /\ UNCHANGED <<open, safe, late, count, hbs, ticks, inbox, rejects, born>>
  BY DEF OtherPushes, feedvars
<1>2. /\ m \in Message /\ m.id = pushed + 1 /\ m.strategy = s
      /\ ingress' \in Seq(Message) /\ Range(ingress') = Range(ingress) \cup {m}
      /\ Messages(ingress', Len(sent), pushed + 1)
  <2>1. ingress \in Seq(Message) /\ Messages(ingress, Len(sent), pushed)
    BY DEF FloorInv, NodeTypes, Queue
  <2>2. QED
    BY <1>1, <2>1, OrderOut
<1> HIDE DEF m
<1>3. /\ SystemInv' /\ AsSent' /\ Alive' = Alive /\ Served' = Served
      /\ \A i : Over(i)' <=> Over(i)
      /\ UNCHANGED <<sent, passed, execs, tape, active>>
  BY SystemStands
<1>4. NodeTypes'
  BY <1>1, <1>2, FloorFacts DEF FloorInv, NodeTypes
<1>5. Queue'
  BY <1>1, <1>2, <1>3, FloorFacts DEF Queue
<1>6. Closing'
  BY <1>1, <1>3 DEF FloorInv, Closing
<1>7. KnowsItsOrders'
  BY <1>1, <1>2, <1>3 DEF FloorInv, KnowsItsOrders, OwnAlive, IsOwn
<1>8. Marked'
  <2> SUFFICES ASSUME NEW o \in open
               PROVE  /\ o.id <= pushed + 1
                      /\ o.id \in Served => sent[o.id].side = o.side /\ sent[o.id].price = o.price
                      /\ \A x \in Range(ingress) \cup {m} :
                            x.what = "order" /\ x.id = o.id => x.side = o.side /\ x.price = o.price
    BY <1>1, <1>2, <1>3 DEF Marked
  <2>1. o.id <= pushed /\ o.id \in Nat
    BY FloorFacts DEF FloorInv, NodeTypes, Mark, Marked
  <2>2. o.id # m.id /\ o.id <= pushed + 1
    BY <1>2, <2>1, FloorFacts
  <2>3. QED
    BY <2>2 DEF FloorInv, Marked
<1>9. Apart' /\ NoSelfTrade'
  BY <1>1, <1>3 DEF FloorInv, Apart, NoSelfTrade
<1>10. QED
  BY <1>3, <1>4, <1>5, <1>6, <1>7, <1>8, <1>9 DEF FloorInv

\* A process started again has everything to learn: no order is newer than it.
LEMMA RestartKeeps ==
    ASSUME FloorInv, Restart, UNCHANGED vars
    PROVE  FloorInv'
<1>1. /\ open' = {} /\ safe' = FALSE /\ late' = FALSE /\ hbs' = 0 /\ ticks' = 0
      /\ inbox' = <<>> /\ rejects' = <<>> /\ born' = pushed
      /\ UNCHANGED <<count, ingress, pushed>>
  BY DEF Restart
<1>2. /\ SystemInv' /\ AsSent' /\ Alive' = Alive /\ Served' = Served
      /\ \A i : Over(i)' <=> Over(i)
      /\ UNCHANGED <<sent, passed, execs, tape, active>>
  BY SystemStands
<1>3. NodeTypes'
  <2>1. inbox' \in Seq(Report) /\ rejects' \in Seq(Id)
    BY <1>1, EmptySeq
  <2>2. hbs' \in 0..Backlog /\ ticks' \in 0..Backlog /\ born' \in 0..pushed'
    BY <1>1, NodeAssumption, FloorFacts
  <2>3. QED
    BY <1>1, <2>1, <2>2 DEF FloorInv, NodeTypes
<1>4. Queue' /\ Marked' /\ Apart'
  BY <1>1, <1>2 DEF FloorInv, Queue, Marked, Apart
<1>5. Closing'
  <2>1. Range(inbox') = {} /\ Range(rejects') = {}
    BY <1>1 DEF Range
  <2>2. QED
    BY <1>2, <2>1 DEF FloorInv, Closing
<1>6. KnowsItsOrders'
  <2>1. \A i \in OwnAlive' : i <= pushed /\ i \in Nat
    BY <1>1, <1>2, FloorFacts DEF OwnAlive
  <2>2. \A i \in OwnAlive' : ~ i > born'
    BY <1>1, <2>1, FloorFacts
  <2>3. QED
    BY <2>2 DEF KnowsItsOrders
<1>7. NoSelfTrade'
  <2>1. ASSUME NEW k \in DOMAIN tape
        PROVE  ~ tape[k][1] > born'
    <3>1. tape[k][1] \in arrived
      BY DEF FloorInv, SystemInv, Matching, Range
    <3>2. tape[k][1] \in Id /\ tape[k][1] <= pushed
      BY <3>1, FloorFacts
    <3>3. QED
      BY <1>1, <3>2, FloorFacts
  <2>2. QED
    BY <1>2, <2>1 DEF NoSelfTrade
<1>8. QED
  BY <1>2, <1>3, <1>4, <1>5, <1>6, <1>7 DEF FloorInv

-----------------------------------------------------------------------------
\* The cancel requests of safe mode are about orders that were pushed.
LEMMA RequestsKnown ==
    ASSUME FloorInv
    PROVE  /\ CancelRequests \in Seq(Message)
           /\ \A m \in Range(CancelRequests) : m.what = "cancel" /\ m.id <= pushed
<1> DEFINE S == {o.id : o \in open}
           q == InOrder(S)
<1>1. S \in SUBSET Id /\ \A i \in S : i <= pushed
  BY DEF FloorInv, NodeTypes, Mark, Marked
<1>2. IsFiniteSet(S) /\ S \in SUBSET Nat
  <2>1. IsFiniteSet(Id) /\ Id \subseteq Nat
    BY FloorFacts, CountUpTo
  <2> HIDE DEF S
  <2>2. QED
    BY <1>1, <2>1, FS_Subset
<1> HIDE DEF S
<1>3. q \in Seq(S)
  BY <1>2, InOrderLists
<1>4. Len(q) \in Nat /\ DOMAIN q = 1..Len(q) /\ \A k \in 1..Len(q) : q[k] \in S
  BY <1>3, LenProperties
<1>5. CancelRequests = [k \in 1..Len(q) |-> CancelMsg(q[k])]
  BY <1>4 DEF CancelRequests, S
<1> HIDE DEF q
<1>6. \A i \in S : CancelMsg(i) \in Message /\ CancelMsg(i).what = "cancel" /\ CancelMsg(i).id <= pushed
  BY <1>1 DEF CancelMsg, Message
<1>7. QED
  BY <1>4, <1>5, <1>6 DEF Range

\* What a round takes out of open_orders is about orders that are over.
LEMMA PoppedAreOver ==
    ASSUME FloorInv, NEW ready \in SUBSET Holding
    PROVE  /\ \A i \in Popped(ready) : i \in Served /\ i \notin OwnAlive
           /\ "report" \in ready =>
                 Tail(inbox) \in Seq(Report) /\ Range(Tail(inbox)) \subseteq Range(inbox)
           /\ "reject" \in ready =>
                 Tail(rejects) \in Seq(Id) /\ Range(Tail(rejects)) \subseteq Range(rejects)
<1>1. inbox \in Seq(Report) /\ rejects \in Seq(Id)
  BY DEF FloorInv, NodeTypes
<1>2. /\ "report" \in ready => inbox # <<>>
      /\ "reject" \in ready => rejects # <<>>
  BY DEF Holding
<1>3. "report" \in ready =>
         /\ Head(inbox) \in Report /\ Head(inbox) \in Range(inbox)
         /\ Tail(inbox) \in Seq(Report) /\ Range(Tail(inbox)) \subseteq Range(inbox)
  BY <1>1, <1>2, OldestTaken
<1>4. "reject" \in ready =>
         /\ Head(rejects) \in Range(rejects)
         /\ Tail(rejects) \in Seq(Id) /\ Range(Tail(rejects)) \subseteq Range(rejects)
  BY <1>1, <1>2, OldestTaken
<1>5. ASSUME NEW i \in Popped(ready) PROVE i \in Served /\ i \notin OwnAlive
  <2>1. \/ "report" \in ready /\ Head(inbox).type \in Terminal /\ i = Head(inbox).id
        \/ "reject" \in ready /\ i = Head(rejects)
    BY DEF Popped
  <2>2. CASE "report" \in ready /\ Head(inbox).type \in Terminal /\ i = Head(inbox).id
    <3>1. Head(inbox).type \in {"FILL", "CANCEL"}
      BY <1>3, <2>2 DEF Terminal, Report, ExecType
    <3>2. Over(i)
      BY <1>3, <2>2, <3>1 DEF FloorInv, Closing
    <3>3. QED
      BY <3>2, OverIsOver
  <2>3. CASE "reject" \in ready /\ i = Head(rejects)
    BY <1>4, <2>3, OverIsOver
  <2>4. QED
    BY <2>1, <2>2, <2>3
<1>6. QED
  BY <1>3, <1>4, <1>5

\* An iteration of the loop, after which the strategy knows of an order as much
\* as is true of it: it takes out what is over, and puts in what it sends.
LEMMA PollKeeps ==
    ASSUME FloorInv, NEW ready \in SUBSET Holding, NEW w, w # NoWish => pushed < MaxOrders,
           Poll(ready, w), UNCHANGED vars
    PROVE  FloorInv'
<1> DEFINE c == IF EntersSafeMode THEN CancelRequests ELSE <<>>
           q == ingress \o c
           m == OrderMsg(Self, w)
           kept == {o \in open : o.id \notin Popped(ready)}
           mark == [id |-> m.id, side |-> w.side, price |-> w.price]
<1>1. /\ w \in Submitted(ready)
      /\ safe' = SafeAfter(ready) /\ late' = (late /\ "heartbeat" \notin ready)
      /\ hbs' = IF "heartbeat" \in ready THEN hbs - 1 ELSE hbs
      /\ ticks' = IF Acts(ready) THEN ticks - 1 ELSE ticks
      /\ inbox' = IF "report" \in ready THEN Tail(inbox) ELSE inbox
      /\ rejects' = IF "reject" \in ready THEN Tail(rejects) ELSE rejects
      /\ count' = count /\ born' = born
  BY DEF Poll
<1>2. \/ w = NoWish /\ ingress' = q /\ open' = kept /\ pushed' = pushed
      \/ /\ w \in Wishes /\ ~ WouldSelfTrade(w) /\ pushed < MaxOrders
         /\ ingress' = Append(q, m) /\ pushed' = m.id
         /\ open' = {o \in open \cup {mark} : o.id \notin Popped(ready)}
  BY <1>1 DEF Poll, Submitted
<1>3. /\ SystemInv' /\ AsSent' /\ Alive' = Alive /\ Served' = Served
      /\ \A i : Over(i)' <=> Over(i)
      /\ UNCHANGED <<sent, passed, execs, tape, active>>
  BY SystemStands
<1>4. /\ \A i \in Popped(ready) : i \in Served /\ i \notin OwnAlive
      /\ inbox' \in Seq(Report) /\ Range(inbox') \subseteq Range(inbox)
      /\ rejects' \in Seq(Id) /\ Range(rejects') \subseteq Range(rejects)
  BY <1>1, PoppedAreOver DEF FloorInv, NodeTypes
<1>5. c \in Seq(Message) /\ \A x \in Range(c) : x.what = "cancel" /\ x.id <= pushed
  <2>1. <<>> \in Seq(Message) /\ Range(<<>>) = {}
    BY EmptySeq DEF Range
  <2>2. QED
    BY <2>1, RequestsKnown
<1> HIDE DEF c
<1>6. /\ q \in Seq(Message) /\ Range(q) = Range(ingress) \cup Range(c)
      /\ Messages(q, Len(sent), pushed)
  <2>1. ingress \in Seq(Message) /\ Messages(ingress, Len(sent), pushed)
    BY DEF FloorInv, NodeTypes, Queue
  <2>2. QED
    BY <1>5, <2>1, ConcatProperties, RangeConcatenation, RequestsPushed
<1> HIDE DEF q
<1>7. safe' \in BOOLEAN /\ late' \in BOOLEAN /\ hbs' \in 0..Backlog /\ ticks' \in 0..Backlog
  <2>1. safe \in BOOLEAN /\ late \in BOOLEAN /\ hbs \in 0..Backlog /\ ticks \in 0..Backlog
        /\ Backlog \in Nat
    BY NodeAssumption DEF FloorInv, NodeTypes
  <2>2. /\ "heartbeat" \in ready => hbs > 0
        /\ Acts(ready) => ticks > 0
    BY DEF Holding, Acts
  <2>3. hbs' \in 0..Backlog /\ ticks' \in 0..Backlog
    BY <1>1, <2>1, <2>2
  <2>4. safe' \in BOOLEAN /\ late' \in BOOLEAN
    BY <1>1, <2>1 DEF SafeAfter
  <2>5. QED
    BY <2>3, <2>4
<1>8. Closing' /\ NoSelfTrade'
  BY <1>1, <1>3, <1>4 DEF FloorInv, Closing, NoSelfTrade
<1>9. /\ \A o \in open : o \in Mark /\ o.id <= pushed /\ o.id \in Nat
      /\ kept \subseteq open
  BY FloorFacts DEF FloorInv, NodeTypes, Mark, Marked
<1>10. ASSUME w = NoWish, ingress' = q, open' = kept, pushed' = pushed
       PROVE  NodeTypes' /\ Queue' /\ KnowsItsOrders' /\ Marked' /\ Apart'
  <2>1. NodeTypes'
    BY <1>1, <1>4, <1>6, <1>7, <1>9, <1>10 DEF FloorInv, NodeTypes
  <2>2. Queue'
    BY <1>3, <1>6, <1>10 DEF FloorInv, Queue
  <2>3. OwnAlive' = OwnAlive
    BY <1>3, <1>5, <1>6, <1>10 DEF OwnAlive, IsOwn
  <2>4. KnowsItsOrders'
    BY <1>1, <1>4, <1>10, <2>3 DEF FloorInv, KnowsItsOrders
  <2>5. Marked'
    BY <1>3, <1>5, <1>6, <1>10 DEF FloorInv, Marked
  <2>6. Apart'
    BY <1>10 DEF FloorInv, Apart
  <2>7. QED
    BY <2>1, <2>2, <2>4, <2>5, <2>6
<1>11. ASSUME w \in Wishes, ~ WouldSelfTrade(w), pushed < MaxOrders, ingress' = Append(q, m),
              pushed' = m.id, open' = {o \in open \cup {mark} : o.id \notin Popped(ready)}
       PROVE  NodeTypes' /\ Queue' /\ KnowsItsOrders' /\ Marked' /\ Apart'
  <2>1. /\ m \in Message /\ m.what = "order" /\ m.id = pushed + 1 /\ m.strategy = Self
        /\ m.side = w.side /\ m.price = w.price
        /\ ingress' \in Seq(Message) /\ Range(ingress') = Range(q) \cup {m}
        /\ Messages(ingress', Len(sent), pushed + 1)
    BY <1>6, <1>11, FloorAssumption, OrderOut
  <2>2. mark \in Mark /\ mark.id = pushed + 1 /\ mark.side = w.side /\ mark.price = w.price
    BY <1>11, <2>1, NodeAssumption, FloorAssumption, FloorFacts DEF Mark, Side
  <2> HIDE DEF m, mark, kept
  <2>3. pushed + 1 \notin Popped(ready) /\ pushed + 1 \notin Served
    BY <1>4, FloorFacts
  <2>4. open' \subseteq open \cup {mark} /\ mark \in open'
    BY <1>11, <2>2, <2>3
  <2>5. NodeTypes'
    <3>1. open' \subseteq Mark /\ pushed' \in 0..MaxOrders /\ born' \in 0..pushed'
      <4>1. pushed' = pushed + 1 /\ born' = born /\ born \in 0..pushed
        BY <1>1, <1>11, <2>1 DEF FloorInv, NodeTypes
      <4>2. pushed' \in 0..MaxOrders /\ born' \in 0..pushed'
        BY <1>11, <4>1, FloorFacts
      <4>3. QED
        BY <1>9, <2>2, <2>4, <4>2
    <3>2. QED
      BY <1>1, <1>4, <1>7, <2>1, <3>1 DEF FloorInv, NodeTypes
  <2>6. Queue'
    BY <1>3, <1>11, <2>1, FloorFacts DEF Queue
  <2>7. OwnAlive' = OwnAlive \cup {pushed + 1}
    BY <1>3, <1>5, <1>6, <2>1 DEF OwnAlive, IsOwn
  <2>8. KnowsItsOrders'
    <3> SUFFICES ASSUME NEW i \in OwnAlive', i > born PROVE \E o \in open' : o.id = i
      BY <1>1 DEF KnowsItsOrders
    <3>1. CASE i = pushed + 1
      BY <2>2, <2>4, <3>1
    <3>2. CASE i # pushed + 1
      <4>1. i \in OwnAlive
        BY <2>7, <3>2
      <4>2. PICK o \in open : o.id = i
        BY <4>1 DEF FloorInv, KnowsItsOrders
      <4>3. o \in open'
        BY <1>4, <1>11, <4>1, <4>2
      <4>4. QED
        BY <4>2, <4>3
    <3>3. QED
      BY <3>1, <3>2
  <2>9. Marked'
    <3> SUFFICES ASSUME NEW o \in open \cup {mark}
                 PROVE  /\ o.id <= pushed + 1
                        /\ o.id \in Served => sent[o.id].side = o.side /\ sent[o.id].price = o.price
                        /\ \A x \in Range(ingress) \cup Range(c) \cup {m} :
                              x.what = "order" /\ x.id = o.id => x.side = o.side /\ x.price = o.price
      BY <1>3, <1>6, <1>11, <2>1, <2>4 DEF Marked
    <3>1. CASE o = mark
      <4>1. \A x \in Range(ingress) : x.id # pushed + 1
        BY FloorFacts
      <4>2. QED
        BY <1>5, <2>1, <2>2, <2>3, <3>1, <4>1, FloorFacts
    <3>2. CASE o \in open
      <4>1. o.id <= pushed + 1 /\ o.id # pushed + 1
        BY <1>9, <3>2, FloorFacts
      <4>2. QED
        BY <1>5, <2>1, <3>2, <4>1 DEF FloorInv, Marked
    <3>3. QED
      BY <3>1, <3>2
  <2>10. Apart'
    <3> SUFFICES ASSUME NEW o \in open \cup {mark}, NEW p \in open \cup {mark},
                        o.side = "BUY", p.side = "SELL"
                 PROVE  o.price < p.price
      BY <2>4 DEF Apart
    <3>1. o.price \in Int /\ p.price \in Int
      <4>1. o \in Mark /\ p \in Mark
        BY <1>9, <2>2
      <4>2. o.price \in Price /\ p.price \in Price
        BY <4>1 DEF Mark
      <4>3. QED
        BY <4>2, FloorFacts
    <3>2. CASE o \in open /\ p \in open
      BY <3>2 DEF FloorInv, Apart
    <3>3. CASE o = mark /\ p \in open
      BY <1>11, <2>2, <3>1, <3>3 DEF WouldSelfTrade
    <3>4. CASE o \in open /\ p = mark
      BY <1>11, <2>2, <3>1, <3>4 DEF WouldSelfTrade
    <3>5. CASE o = mark /\ p = mark
      BY <3>5
    <3>6. QED
      BY <3>2, <3>3, <3>4, <3>5
  <2>11. QED
    BY <2>5, <2>6, <2>8, <2>9, <2>10
<1>12. QED
  BY <1>2, <1>3, <1>8, <1>10, <1>11 DEF FloorInv

-----------------------------------------------------------------------------
LEMMA ServeCancelKeeps ==
    ASSUME FloorInv, Serve, Head(ingress).what = "cancel"
    PROVE  FloorInv'
<1> DEFINE m == Head(ingress)
<1>1. /\ ingress # <<>> /\ ForwardCancel(m.id) /\ ingress' = Tail(ingress)
      /\ UNCHANGED <<bookvars, tape, missed>>
      /\ UNCHANGED <<open, safe, late, count, hbs, ticks, inbox, rejects, pushed, born>>
  BY DEF Serve, feedvars
<1>2. ingress \in Seq(Message) /\ Messages(ingress, Len(sent), pushed)
  BY DEF FloorInv, NodeTypes, Queue
<1>3. /\ m \in Range(ingress) /\ ingress' \in Seq(Message) /\ Range(ingress') \subseteq Range(ingress)
      /\ Messages(ingress', Len(sent), pushed)
  BY <1>1, <1>2, OldestTaken, OldestServed
<1> HIDE DEF m
<1>4. SystemInv'
  <2>1. m.id \in Id
    BY <1>3, FloorFacts
  <2>2. QED
    BY <1>1, <2>1, ForwardCancelKeeps DEF FloorInv
<1>5. /\ UNCHANGED <<sent, passed, egress, execs>>
      /\ UNCHANGED <<arrived, terms, left, resting, active, tape>>
  BY <1>1 DEF ForwardCancel, bookvars
<1>6. NodeTypes' /\ Queue' /\ Apart' /\ AsSent'
  BY <1>1, <1>3, <1>5 DEF FloorInv, NodeTypes, Queue, Apart, AsSent
<1>7. Closing' /\ NoSelfTrade'
  BY <1>1, <1>5 DEF FloorInv, Closing, Over, Served, NoSelfTrade
<1>8. KnowsItsOrders' /\ Marked'
  BY <1>1, <1>3, <1>5 DEF FloorInv, KnowsItsOrders, OwnAlive, IsOwn, Alive, Marked, Served
<1>9. QED
  BY <1>4, <1>6, <1>7, <1>8 DEF FloorInv

\* The order that is served is the next one: the gateway knows it as the
\* strategy does, and it can trade from now on only if it passes.
LEMMA ServeOrderKeeps ==
    ASSUME FloorInv, Serve, Head(ingress).what # "cancel"
    PROVE  FloorInv'
<1> DEFINE m == Head(ingress)
           n == [id |-> m.id, strategy |-> m.strategy, side |-> m.side,
                 price |-> m.price, qty |-> m.qty]
<1>1. /\ ingress # <<>> /\ InboundOrder(n) /\ ingress' = Tail(ingress)
      /\ rejects' = IF m.strategy = Self /\ ~ Passes(n) THEN Append(rejects, m.id) ELSE rejects
      /\ UNCHANGED <<bookvars, tape, missed>>
      /\ UNCHANGED <<open, safe, late, count, hbs, ticks, inbox, pushed, born>>
  BY DEF Serve, feedvars
<1>2. ingress \in Seq(Message) /\ Messages(ingress, Len(sent), pushed)
  BY DEF FloorInv, NodeTypes, Queue
<1>3. /\ m \in Range(ingress) /\ m \in Message
      /\ ingress' \in Seq(Message) /\ Range(ingress') \subseteq Range(ingress)
      /\ m.what = "order" => Messages(ingress', m.id, pushed)
  BY <1>1, <1>2, OldestTaken, OldestServed
<1> HIDE DEF m
<1>4. /\ m.what = "order" /\ m.id \in Id /\ m.id <= pushed /\ n \in Nos
      /\ n.id = m.id /\ n.strategy = m.strategy /\ n.side = m.side /\ n.price = m.price
  <2>1. m \in [what : {"order"}, strategy : Strategy, id : Id, side : Side, price : Price,
               qty : Quantity]
    BY <1>3 DEF Message, m
  <2>2. QED
    BY <1>3, <2>1, FloorFacts DEF Nos
<1>5. SystemInv'
  BY <1>1, <1>4, InboundOrderKeeps DEF FloorInv
<1> HIDE DEF n
<1>6. /\ n.id = Len(sent) + 1 /\ sent' = Append(sent, n) /\ execs' = execs
      /\ \/ Passes(n) /\ passed' = passed \cup {n.id} /\ egress' = Append(egress, n.id)
         \/ ~ Passes(n) /\ passed' = passed /\ egress' = egress
      /\ UNCHANGED <<arrived, terms, left, resting, active, tape>>
  BY <1>1 DEF InboundOrder, bookvars
<1>7. /\ Served' = Served \cup {n.id} /\ n.id \notin Served /\ Len(sent') = n.id
      /\ \A i \in Served : sent'[i] = sent[i]
      /\ sent'[n.id] = n
  <2>1. sent \in Seq(Nos)
    BY DEF FloorInv, SystemInv, TypeOK
  <2>2. Len(sent') = Len(sent) + 1 /\ \A i \in 1..Len(sent) : sent'[i] = sent[i]
        /\ sent'[Len(sent) + 1] = n
    BY <1>4, <1>6, <2>1, AppendProperties
  <2>3. QED
    BY <1>6, <2>2, FloorFacts DEF Served
<1>8. Range(egress') \subseteq Range(egress) \cup {n.id}
  <2>1. egress \in Seq(Id)
    BY DEF FloorInv, SystemInv, TypeOK
  <2>2. n.id \in Id /\ Range(Append(egress, n.id)) = Range(egress) \cup {n.id}
    BY <1>4, <2>1, EntryAdded
  <2>3. egress' = egress \/ egress' = Append(egress, n.id)
    BY <1>6
  <2>4. CASE egress' = egress
    BY <2>4
  <2>5. CASE egress' = Append(egress, n.id)
    BY <2>2, <2>5
  <2>6. QED
    BY <2>3, <2>4, <2>5
<1>9. rejects' \in Seq(Id) /\ Range(rejects') \subseteq Range(rejects) \cup (IF Passes(n) THEN {} ELSE {n.id})
  <2>1. rejects \in Seq(Id)
    BY DEF FloorInv, NodeTypes
  <2>2. Append(rejects, m.id) \in Seq(Id) /\ Range(Append(rejects, m.id)) = Range(rejects) \cup {m.id}
    BY <1>4, <2>1, EntryAdded
  <2>3. CASE m.strategy = Self /\ ~ Passes(n)
    BY <1>1, <1>4, <2>2, <2>3 DEF n
  <2>4. CASE ~ (m.strategy = Self /\ ~ Passes(n))
    BY <1>1, <2>1, <2>4 DEF n
  <2>5. QED
    BY <2>3, <2>4
<1>10. NodeTypes' /\ Apart'
  BY <1>1, <1>3, <1>9 DEF FloorInv, NodeTypes, Apart
<1>11. Queue'
  BY <1>1, <1>3, <1>4, <1>7 DEF Queue
<1>12. Closing'
  <2>1. \A i : Over(i)' <=> Over(i)
    BY <1>6 DEF Over
  <2>2. \A r \in Range(inbox') \cup Range(execs') : r.type \in {"FILL", "CANCEL"} => Over(r.id)'
    BY <1>1, <1>6, <2>1 DEF FloorInv, Closing
  <2>3. \A i \in Range(rejects') : i \in Served' /\ i \notin passed'
    <3> SUFFICES ASSUME NEW i \in Range(rejects') PROVE i \in Served' /\ i \notin passed'
      OBVIOUS
    <3>1. CASE i \in Range(rejects)
      BY <1>6, <1>7, <3>1 DEF FloorInv, Closing
    <3>2. CASE i \notin Range(rejects)
      <4>1. i = n.id /\ ~ Passes(n)
        BY <1>9, <3>2
      <4>2. QED
        BY <1>6, <1>7, <4>1, FloorFacts
    <3>3. QED
      BY <3>1, <3>2
  <2>4. QED
    BY <2>2, <2>3 DEF Closing
<1>13. KnowsItsOrders'
  <2>1. Alive' \subseteq Alive \cup {n.id} /\ Alive \subseteq Served
    BY <1>6, <1>8, FloorFacts DEF Alive
  <2>2. n.strategy = Self => n.id \in OwnAlive
    BY <1>3, <1>4 DEF OwnAlive, IsOwn
  <2>3. OwnAlive' \subseteq OwnAlive
    <3> SUFFICES ASSUME NEW i \in OwnAlive' PROVE i \in OwnAlive
      OBVIOUS
    <3>1. CASE \E x \in Range(ingress') : IsOwn(x) /\ i = x.id
      BY <1>3, <3>1 DEF OwnAlive
    <3>2. CASE i \in Alive' /\ sent'[i].strategy = Self
      BY <1>7, <2>1, <2>2, <3>2 DEF OwnAlive
    <3>3. QED
      BY <3>1, <3>2 DEF OwnAlive, IsOwn
  <2>4. QED
    BY <1>1, <2>3 DEF FloorInv, KnowsItsOrders
<1>14. Marked'
  BY <1>1, <1>3, <1>4, <1>7 DEF FloorInv, Marked
<1>15. AsSent'
  BY <1>6, <1>7, FloorFacts DEF FloorInv, AsSent
<1>16. NoSelfTrade'
  <2>1. ASSUME NEW k \in DOMAIN tape
        PROVE  sent'[tape[k][1]] = sent[tape[k][1]] /\ sent'[active] = sent[active]
    <3>1. active # Book!NoOrder
      BY DEF FloorInv, SystemInv, Matching
    <3>2. tape[k][1] \in arrived /\ active \in arrived
      BY <3>1 DEF FloorInv, SystemInv, Matching, Range
    <3>3. QED
      BY <1>7, <3>2, FloorFacts
  <2>2. tape' = tape /\ active' = active /\ born' = born /\ NoSelfTrade
    BY <1>1, <1>6 DEF FloorInv
  <2>3. QED
    BY <2>1, <2>2 DEF NoSelfTrade
<1>17. QED
  BY <1>5, <1>10, <1>11, <1>12, <1>13, <1>14, <1>15, <1>16 DEF FloorInv

-----------------------------------------------------------------------------
\* What a step of the engine does, as far as the strategy depends on it: orders
\* stop, and reports that close one come no sooner.
EngineFacts ==
    /\ SystemInv' /\ AsSent'
    /\ sent' = sent /\ passed' = passed /\ Len(execs) <= Len(execs')
    /\ Alive' \subseteq Alive
    /\ \A i \in Id : Over(i) => Over(i)'
    /\ \A r \in Range(execs') : r.type \in {"FILL", "CANCEL"} => Over(r.id)'

\* A report FILL is about an order that has nothing left.
FilledOver == \A r \in Range(execs) : r.type = "FILL" => Over(r.id)

LEMMA FilledAreOver == SystemInv => FilledOver
<1> SUFFICES ASSUME SystemInv, NEW r \in Range(execs), r.type = "FILL" PROVE Over(r.id)
  BY DEF FilledOver
<1>1. r.id \in arrived /\ left[r.id] = 0
  BY DEF SystemInv, ReportsSound, Sound
<1>2. r.id \notin resting
  BY <1>1 DEF SystemInv, Matching
<1>3. QED
  BY <1>1, <1>2 DEF Over

LEMMA FloorTake ==
    ASSUME FloorInv, EngineTake
    PROVE  EngineFacts /\ tape' = <<>>
<1> DEFINE i == Head(egress)
           t == [side |-> sent[i].side, type |-> "LIMIT", price |-> sent[i].price]
<1>1. /\ SystemInv' /\ i \in Id /\ i \notin arrived
      /\ arrived' = arrived \cup {i} /\ left' = [left EXCEPT ![i] = sent[i].qty]
      /\ tape' = <<>>
  BY EngineTakeKeeps DEF FloorInv
<1>2. egress # <<>> /\ egress \in Seq(Id) /\ i \in Range(egress) /\ Range(Tail(egress)) \subseteq Range(egress)
  BY OldestTaken DEF EngineTake, FloorInv, SystemInv, TypeOK
<1>3. i \in Served /\ sent[i].id = i /\ sent[i] \in Nos
  BY <1>2, ServedOrders, FloorFacts DEF FloorInv, SystemInv, Journey
<1>4. /\ egress' = Tail(egress) /\ sent' = sent /\ passed' = passed /\ execs' = execs
      /\ terms' = [terms EXCEPT ![i] = t] /\ resting' = resting /\ active' = i
      /\ active = Book!NoOrder
  BY <1>3 DEF EngineTake, Book!Arrive
<1>5. t \in Book!Terms
  BY <1>3 DEF Nos, Side, Book!Terms, Book!Side
<1> HIDE DEF i, t
<1>6. Alive' \subseteq Alive
  BY <1>2, <1>4 DEF Alive
<1>7. \A x \in Id : Over(x) => Over(x)'
  BY <1>1, <1>4 DEF Over
<1>8. \A r \in Range(execs') : r.type \in {"FILL", "CANCEL"} => Over(r.id)'
  <2>1. \A r \in Range(execs) : r.id \in Id
    BY FloorFacts DEF FloorInv, SystemInv, ReportsSound, Sound
  <2>2. QED
    BY <1>4, <1>7, <2>1 DEF FloorInv, Closing
<1>9. AsSent'
  <2>1. terms \in [Id -> Book!Terms] /\ arrived \subseteq Id
    BY FloorFacts DEF FloorInv, AsSent
  <2>2. terms' \in [Id -> Book!Terms] /\ terms'[i] = t /\ \A x \in arrived : terms'[x] = terms[x]
    BY <1>1, <1>4, <1>5, <2>1
  <2>3. t = [side |-> sent[i].side, type |-> "LIMIT", price |-> sent[i].price]
    BY DEF t
  <2>4. QED
    BY <1>1, <1>4, <2>2, <2>3 DEF FloorInv, AsSent
<1>10. Len(execs) <= Len(execs')
  BY <1>4, LenProperties DEF FloorInv, SystemInv, TypeOK
<1>11. QED
  BY <1>1, <1>4, <1>6, <1>7, <1>8, <1>9, <1>10 DEF EngineFacts

\* The two sides of a trade are an order that rests and the one being matched.
LEMMA FloorTrade ==
    ASSUME FloorInv, EngineTrade
    PROVE  /\ EngineFacts /\ active' = active
           /\ \E r \in resting, q \in Nat :
                 /\ tape' = Append(tape, <<r, q>>) /\ r \in Alive /\ active \in Alive
                 /\ Book!Matches(active, r)
<1>1. PICK r \in resting : /\ Book!Trade(r)
                           /\ tape' = Append(tape, <<r, left[r] - left'[r]>>)
  BY DEF EngineTrade
<1>2. SystemInv' /\ active \in Id /\ active' = active
  BY EngineTradeKeeps DEF FloorInv
<1>3. PICK p \in Id, q \in Nat :
         /\ p # active /\ left[p] >= q /\ left[active] >= q
         /\ left' = [left EXCEPT ![p] = @ - q, ![active] = @ - q]
         /\ tape' = Append(tape, <<p, q>>)
  BY EngineTradeKeeps DEF FloorInv
<1>4. /\ resting' \subseteq resting /\ arrived' = arrived /\ terms' = terms
      /\ sent' = sent /\ passed' = passed /\ execs' = execs /\ egress' = egress
      /\ left[active] > 0 /\ Book!Matches(active, r)
  BY <1>1 DEF Book!Trade, EngineTrade, rgvars
<1>5. /\ left \in [Id -> Nat] /\ left' \in [Id -> Nat] /\ resting \subseteq Id
      /\ tape \in Seq(Id \X Nat)
  BY <1>2 DEF FloorInv, SystemInv, TypeOK, Matching
<1>6. p = r
  <2> DEFINE a == <<p, q>>
             b == <<r, left[r] - left'[r]>>
  <2>1. tape' = Append(tape, a) /\ tape' = Append(tape, b)
    BY <1>1, <1>3
  <2> HIDE DEF a, b
  <2>2. a = b
    <3>1. Len(tape) \in Nat /\ Append(tape, a)[Len(tape) + 1] = a /\ Append(tape, b)[Len(tape) + 1] = b
      BY <1>5, LenProperties
    <3>2. QED
      BY <2>1, <3>1
  <2>3. QED
    BY <2>2 DEF a, b
<1>7. \A x \in Id : left'[x] <= left[x]
  <2> SUFFICES ASSUME NEW x \in Id PROVE left'[x] <= left[x]
    OBVIOUS
  <2>1. left'[x] = left[x] \/ left'[x] = left[x] - q
    BY <1>2, <1>3, <1>5
  <2>2. QED
    BY <1>5, <2>1
<1>8. Alive' \subseteq Alive
  BY <1>2, <1>4, <1>5, <1>7 DEF Alive
<1>9. \A x \in Id : Over(x) => Over(x)'
  BY <1>2, <1>4, <1>5, <1>7 DEF Over
<1>10. \A x \in Range(execs') : x.type \in {"FILL", "CANCEL"} => Over(x.id)'
  <2>1. \A x \in Range(execs) : x.id \in Id
    BY FloorFacts DEF FloorInv, SystemInv, ReportsSound, Sound
  <2>2. QED
    BY <1>4, <1>9, <2>1 DEF FloorInv, Closing
<1>11. AsSent' /\ Len(execs) <= Len(execs')
  BY <1>4, LenProperties DEF FloorInv, AsSent, SystemInv, TypeOK
<1>12. r \in Alive /\ active \in Alive
  BY <1>2, <1>4 DEF Alive
<1>13. QED
  BY <1>2, <1>3, <1>4, <1>6, <1>8, <1>9, <1>10, <1>11, <1>12 DEF EngineFacts

\* Whatever the engine reports as an order stops or rests.
LEMMA FloorPublish ==
    ASSUME FloorInv, SystemInv', NEW q \in Seq(Report), Publish(q),
           \A r \in Range(q) : r.type = "CANCEL" => r.id \in arrived /\ r.id \notin resting',
           UNCHANGED <<sent, passed, egress, arrived, terms, left>>,
           active' = Book!NoOrder,
           resting' \subseteq resting \cup {i \in {active} \cap Id : left[i] > 0}
    PROVE  EngineFacts
<1>1. Alive' \subseteq Alive
  BY DEF Alive, Id, Book!NoOrder
<1>2. \A i \in Id : Over(i) => Over(i)'
  BY DEF Over, Id, Book!NoOrder
<1>3. execs \in Seq(Report) /\ missed \in [Strategy -> Int]
  BY DEF FloorInv, SystemInv, TypeOK
<1>4. Range(execs') \subseteq Range(execs) \cup Range(q)
  BY <1>3, PublishStep
<1>5. Len(execs) <= Len(execs')
  <2>1. PICK c \in 0..Len(q) : execs' = execs \o SubSeq(q, 1, c)
    BY <1>3, PublishStep
  <2>2. SubSeq(q, 1, c) \in Seq(Report)
    <3>1. \A i \in 1..c : q[i] \in Report
      BY LenProperties
    <3>2. QED
      BY <3>1, SubSeqProperties
  <2> DEFINE p == SubSeq(q, 1, c)
  <2>3. p \in Seq(Report) /\ execs' = execs \o p
    BY <2>1, <2>2
  <2> HIDE DEF p
  <2>4. QED
    BY <1>3, <2>3, ConcatProperties, LenProperties
<1>6. ASSUME NEW r \in Range(execs'), r.type \in {"FILL", "CANCEL"}
      PROVE  Over(r.id)'
  <2>1. CASE r.type = "FILL"
    <3>1. FilledOver'
      BY FilledAreOver, PTL
    <3>2. QED
      BY <2>1, <3>1 DEF FilledOver
  <2>2. CASE r.type = "CANCEL" /\ r \in Range(execs)
    <3>1. Over(r.id) /\ r.id \in Id
      BY <2>2, FloorFacts DEF FloorInv, Closing, SystemInv, ReportsSound, Sound
    <3>2. QED
      BY <1>2, <3>1
  <2>3. CASE r.type = "CANCEL" /\ r \in Range(q)
    <3>1. r.id \in arrived /\ r.id \notin resting' /\ r.id \in Id
      BY <2>3, FloorFacts
    <3>2. QED
      BY <3>1 DEF Over, Id, Book!NoOrder
  <2>4. QED
    BY <1>4, <1>6, <2>1, <2>2, <2>3
<1>7. AsSent'
  BY DEF FloorInv, AsSent
<1>8. QED
  BY <1>1, <1>2, <1>5, <1>6, <1>7 DEF EngineFacts

LEMMA FloorSettle ==
    ASSUME FloorInv, EngineSettle
    PROVE  EngineFacts /\ tape' = <<>>
<1>1. /\ active # Book!NoOrder /\ active' = Book!NoOrder /\ tape' = <<>> /\ Publish(Reports)
      /\ UNCHANGED <<sent, passed, egress, arrived, terms, left>>
      /\ resting' \subseteq resting \cup (IF left[active] > 0 THEN {active} ELSE {})
  BY DEF EngineSettle, Book!Settle
<1>2. SystemInv' /\ active \in Id
  BY <1>1, EngineSettleKeeps DEF FloorInv, SystemInv, TypeOK
<1>3. Reports \in Seq(Report) /\ \A r \in Range(Reports) : r.type # "CANCEL"
  BY <1>1, ReportsFacts DEF Told, FloorInv
<1>4. resting' \subseteq resting \cup {i \in {active} \cap Id : left[i] > 0}
  BY <1>1, <1>2
<1>5. EngineFacts
  BY <1>1, <1>2, <1>3, <1>4, FloorPublish
<1>6. QED
  BY <1>1, <1>5

\* A cancel, of a strategy or of the orphan collector.
LEMMA FloorCancelled ==
    ASSUME FloorInv, SystemInv', NEW i \in resting, Book!Cancel(i),
           Publish(<<Say(i, "CANCEL", 0)>>), UNCHANGED <<sent, passed, egress, tape>>
    PROVE  EngineFacts /\ tape' = <<>>
<1> DEFINE q == <<Say(i, "CANCEL", 0)>>
<1>1. q \in Seq(Report) /\ i \in arrived
  BY CancelReport DEF FloorInv, SystemInv, TypeOK
<1>2. \A r \in Range(q) : r.id = i
  BY DEF Range, Say
<1>3. Publish(q)
  OBVIOUS
<1> HIDE DEF q
<1>4. /\ active' = Book!NoOrder /\ resting' = resting \ {i} /\ tape' = <<>>
      /\ UNCHANGED <<sent, passed, egress, arrived, terms, left>>
  BY DEF Book!Cancel, FloorInv, SystemInv, Matching
<1>5. \A r \in Range(q) : r.type = "CANCEL" => r.id \in arrived /\ r.id \notin resting'
  BY <1>1, <1>2, <1>4
<1>6. QED
  BY <1>1, <1>3, <1>4, <1>5, FloorPublish

LEMMA FloorEngine ==
    ASSUME FloorInv, EngineTake \/ EngineSettle \/ EngineCancel \/ \E i \in Id : EngineGc(i)
    PROVE  EngineFacts /\ (tape' = <<>> \/ UNCHANGED <<tape, active>>)
<1>1. CASE EngineTake
  BY <1>1, FloorTake
<1>2. CASE EngineSettle
  BY <1>2, FloorSettle
<1>3. CASE \E i \in Id : EngineGc(i)
  <2>1. PICK i \in Id : EngineGc(i)
    BY <1>3
  <2>2. SystemInv'
    BY <2>1, EngineGcKeeps DEF FloorInv
  <2>3. QED
    BY <2>1, <2>2, FloorCancelled DEF EngineGc
<1>4. CASE EngineCancel
  <2>1. SystemInv'
    BY <1>4, EngineCancelKeeps DEF FloorInv
  <2>2. CASE Head(cancels) \in resting
    BY <1>4, <2>1, <2>2, FloorCancelled DEF EngineCancel
  <2>3. CASE Head(cancels) \notin resting
    <3>1. /\ UNCHANGED <<sent, passed, egress, execs>>
          /\ UNCHANGED <<arrived, terms, left, value, resting, active, tape>>
      BY <1>4, <2>3 DEF EngineCancel, bookvars
    <3>2. Alive' \subseteq Alive /\ AsSent' /\ \A i : Over(i) => Over(i)'
      BY <3>1 DEF FloorInv, Alive, AsSent, Over
    <3>3. Len(execs) <= Len(execs')
      BY <3>1, LenProperties DEF FloorInv, SystemInv, TypeOK
    <3>4. QED
      BY <2>1, <3>1, <3>2, <3>3 DEF EngineFacts, FloorInv, Closing
  <2>4. QED
    BY <2>2, <2>3
<1>5. QED
  BY <1>1, <1>2, <1>3, <1>4

-----------------------------------------------------------------------------
\* The reports of its own that reach the strategy are among those published.
LEMMA OwnReports ==
    ASSUME NEW q \in Seq(Report)
    PROVE  OwnOf(q) \in Seq(Report) /\ Range(OwnOf(q)) \subseteq Range(q)
<1> DEFINE S == {k \in DOMAIN q : sent[q[k].id].strategy = Self}
           mine == InOrder(S)
<1>1. Len(q) \in Nat /\ DOMAIN q = 1..Len(q) /\ \A k \in 1..Len(q) : q[k] \in Report
  BY LenProperties
<1>2. S \in SUBSET (1..Len(q)) /\ S \in SUBSET Nat
  BY <1>1
<1>3. OwnOf(q) = [j \in DOMAIN mine |-> q[mine[j]]]
  BY DEF OwnOf
<1> HIDE DEF S
<1>4. IsFiniteSet(S)
  BY <1>1, <1>2, CountUpTo, FS_Subset
<1>5. mine \in Seq(S)
  BY <1>2, <1>4, InOrderLists
<1> HIDE DEF mine
<1>6. Len(mine) \in Nat /\ DOMAIN mine = 1..Len(mine) /\ \A j \in 1..Len(mine) : mine[j] \in S
  BY <1>5, LenProperties
<1>7. \A j \in 1..Len(mine) : q[mine[j]] \in Report /\ q[mine[j]] \in Range(q)
  BY <1>1, <1>2, <1>6 DEF Range
<1>8. QED
  BY <1>3, <1>6, <1>7 DEF Range

\* A step of the engine and the reports that come of it.
LEMMA PublishedKeeps ==
    ASSUME FloorInv, EngineFacts, Published, NoSelfTrade'
    PROVE  FloorInv'
<1>1. /\ UNCHANGED <<open, safe, late, count, hbs, ticks, rejects, ingress, pushed, born>>
      /\ inbox' = inbox \o OwnOf(SubSeq(execs', Len(execs) + 1, Len(execs')))
  BY DEF Published, feedvars
<1>2. /\ SystemInv' /\ AsSent' /\ sent' = sent /\ passed' = passed /\ Alive' \subseteq Alive
      /\ \A i \in Id : Over(i) => Over(i)'
      /\ \A r \in Range(execs') : r.type \in {"FILL", "CANCEL"} => Over(r.id)'
  BY DEF EngineFacts
<1>3. inbox' \in Seq(Report) /\ Range(inbox') \subseteq Range(inbox) \cup Range(execs')
  <2>1. execs' \in Seq(Report) /\ execs \in Seq(Report)
    BY <1>2 DEF FloorInv, SystemInv, TypeOK
  <2>2. /\ Len(execs) \in Nat /\ Len(execs') \in Nat
        /\ DOMAIN execs' = 1..Len(execs') /\ \A k \in 1..Len(execs') : execs'[k] \in Report
    BY <2>1, LenProperties
  <2> DEFINE m == Len(execs) + 1
             n == Len(execs')
             new == SubSeq(execs', m, n)
  <2>3. new \in Seq(Report) /\ Range(new) \subseteq Range(execs')
    <3>1. m \in Nat /\ n \in Nat /\ m >= 1 /\ \A k \in m..n : execs'[k] \in Report
      BY <2>2
    <3> HIDE DEF m, n
    <3>2. /\ new \in Seq(Report) /\ Len(new) = IF m <= n THEN n - m + 1 ELSE 0
          /\ \A k \in 1..(n - m + 1) : new[k] = execs'[m + k - 1]
      BY <3>1, SubSeqProperties
    <3> HIDE DEF new
    <3>3. DOMAIN new = 1..Len(new)
      BY <3>2, LenProperties
    <3>4. ASSUME NEW k \in DOMAIN new PROVE new[k] \in Range(execs')
      <4>1. k \in Nat /\ 1 <= k /\ k <= Len(new)
        BY <3>2, <3>3, <3>4, LenProperties
      <4>2. k \in 1..(n - m + 1) /\ m + k - 1 \in 1..n
        BY <3>1, <3>2, <4>1
      <4>3. QED
        BY <2>2, <3>2, <4>2 DEF Range, n
    <3>5. QED
      BY <3>2, <3>4 DEF Range
  <2>4. inbox' = inbox \o OwnOf(new)
    BY <1>1
  <2> HIDE DEF m, n, new
  <2>5. OwnOf(new) \in Seq(Report) /\ Range(OwnOf(new)) \subseteq Range(new)
    BY <2>3, OwnReports
  <2>6. inbox \in Seq(Report)
    BY DEF FloorInv, NodeTypes
  <2>7. inbox' \in Seq(Report) /\ Range(inbox') = Range(inbox) \cup Range(OwnOf(new))
    BY <2>4, <2>5, <2>6, ConcatProperties, RangeConcatenation
  <2>8. QED
    BY <2>3, <2>5, <2>7
<1>4. NodeTypes' /\ Queue' /\ Apart'
  BY <1>1, <1>2, <1>3 DEF FloorInv, NodeTypes, Queue, Apart
<1>5. Closing'
  <2>1. ASSUME NEW r \in Range(inbox), r.type \in {"FILL", "CANCEL"}
        PROVE  Over(r.id)'
    <3>1. Over(r.id)
      BY <2>1 DEF FloorInv, Closing
    <3>2. r.id \in Id
      BY <3>1, FloorFacts DEF Over
    <3>3. QED
      BY <1>2, <3>1, <3>2
  <2>2. QED
    BY <1>1, <1>2, <1>3, <2>1 DEF FloorInv, Closing, Served
<1>6. KnowsItsOrders' /\ Marked'
  BY <1>1, <1>2 DEF FloorInv, KnowsItsOrders, OwnAlive, IsOwn, Marked, Served
<1>7. QED
  BY <1>2, <1>4, <1>5, <1>6 DEF FloorInv

\* Both orders of a trade can trade. Were both the strategy's own, it would
\* know them both, as they are in the book, and they would be apart.
LEMMA TradeIsNotWithItself ==
    ASSUME FloorInv, EngineTrade, born' = born
    PROVE  NoSelfTrade'
<1>1. /\ EngineFacts /\ active' = active
      /\ \E r \in resting, q \in Nat :
            /\ tape' = Append(tape, <<r, q>>) /\ r \in Alive /\ active \in Alive
            /\ Book!Matches(active, r)
  BY FloorTrade
<1>2. PICK r \in resting, q \in Nat :
         /\ tape' = Append(tape, <<r, q>>) /\ r \in Alive /\ active \in Alive
         /\ Book!Matches(active, r)
  BY <1>1
<1>3. sent' = sent /\ tape \in Seq(Id \X Nat) /\ r \in Id
  BY <1>1 DEF EngineFacts, FloorInv, SystemInv, TypeOK
<1>4. r \in arrived /\ active \in arrived
  BY <1>2 DEF FloorInv, SystemInv, TypeOK, Matching, Book!Trade, EngineTrade
<1>5. ASSUME sent[r].strategy = Self, r > born, sent[active].strategy = Self, active > born
      PROVE  FALSE
  <2>1. r \in OwnAlive /\ active \in OwnAlive
    BY <1>2, <1>5 DEF OwnAlive
  <2>2. PICK o \in open : o.id = r
    BY <1>5, <2>1 DEF FloorInv, KnowsItsOrders
  <2>3. PICK p \in open : p.id = active
    BY <1>5, <2>1 DEF FloorInv, KnowsItsOrders
  <2>4. /\ terms[r].side = o.side /\ terms[r].price = o.price
        /\ terms[active].side = p.side /\ terms[active].price = p.price
        /\ terms[active].type = "LIMIT"
    <3>1. r \in Served /\ active \in Served
      BY <1>4, FloorFacts
    <3>2. /\ sent[r].side = o.side /\ sent[r].price = o.price
          /\ sent[active].side = p.side /\ sent[active].price = p.price
      BY <2>2, <2>3, <3>1 DEF FloorInv, Marked
    <3>3. ASSUME NEW i \in arrived
          PROVE  /\ terms[i].side = sent[i].side /\ terms[i].price = sent[i].price
                 /\ terms[i].type = "LIMIT"
      <4>1. terms[i] = [side |-> sent[i].side, type |-> "LIMIT", price |-> sent[i].price]
        BY DEF FloorInv, AsSent
      <4>2. QED
        BY <4>1
    <3>4. QED
      BY <1>4, <3>2, <3>3
  <2>5. o.side \in Side /\ p.side \in Side /\ o.price \in Nat /\ p.price \in Nat
    <3>1. o \in Mark /\ p \in Mark
      BY DEF FloorInv, NodeTypes
    <3>2. QED
      BY <3>1, FloorFacts DEF Mark
  <2>6. \/ p.side = "BUY" /\ o.side = "SELL" /\ p.price >= o.price
        \/ p.side = "SELL" /\ o.side = "BUY" /\ p.price <= o.price
    BY <1>2, <2>4, <2>5 DEF Book!Matches, Book!Opposite, Side
  <2>7. /\ p.side = "BUY" /\ o.side = "SELL" => p.price < o.price
        /\ p.side = "SELL" /\ o.side = "BUY" => o.price < p.price
    BY DEF FloorInv, Apart
  <2>8. QED
    BY <2>5, <2>6, <2>7
<1>6. /\ DOMAIN tape = 1..Len(tape) /\ Len(tape) \in Nat /\ DOMAIN tape' = 1..(Len(tape) + 1)
      /\ \A k \in 1..Len(tape) : tape'[k] = tape[k]
      /\ tape'[Len(tape) + 1][1] = r
  <2> DEFINE e == <<r, q>>
  <2>1. e \in Id \X Nat /\ tape' = Append(tape, e) /\ e[1] = r
    BY <1>2, <1>3
  <2> HIDE DEF e
  <2>2. QED
    BY <1>3, <2>1, AppendProperties, LenProperties
<1>7. SUFFICES ASSUME NEW k \in DOMAIN tape',
                      \A i \in {tape'[k][1], active} : sent[i].strategy = Self /\ i > born
               PROVE  FALSE
  BY <1>1, <1>3 DEF NoSelfTrade
<1>8. CASE k \in 1..Len(tape)
  BY <1>6, <1>7, <1>8 DEF FloorInv, NoSelfTrade
<1>9. CASE k \notin 1..Len(tape)
  <2>1. k = Len(tape) + 1
    BY <1>6, <1>9
  <2>2. QED
    BY <1>5, <1>6, <1>7, <2>1
<1>10. QED
  BY <1>8, <1>9

-----------------------------------------------------------------------------
LEMMA FloorStart ==
    ASSUME FloorInit
    PROVE  FloorInv
<1>1. /\ sent = <<>> /\ egress = <<>> /\ execs = <<>> /\ arrived = {} /\ resting = {}
      /\ active = Book!NoOrder /\ tape = <<>>
      /\ terms = [i \in Id |-> [side |-> "BUY", type |-> "LIMIT", price |-> 0]]
      /\ open = {} /\ safe = FALSE /\ late = FALSE /\ count = 0 /\ hbs = 0 /\ ticks = 0
      /\ inbox = <<>> /\ rejects = <<>> /\ ingress = <<>> /\ pushed = 0 /\ born = 0
  BY DEF FloorInit, Init, RgInit, Book!Init, NodeInit
<1>2. SystemInv
  BY SystemInit DEF FloorInit
<1>3. /\ DOMAIN ingress = {} /\ DOMAIN tape = {} /\ Len(sent) = 0
      /\ Range(ingress) = {} /\ Range(inbox) = {} /\ Range(execs) = {}
      /\ Range(rejects) = {} /\ Range(egress) = {}
  BY <1>1 DEF Range
<1>4. NodeTypes
  <2>1. 0 \in 0..(HeartbeatEvery - 1) /\ 0 \in 0..Backlog /\ 0 \in 0..MaxOrders /\ 0 \in 0..0
    BY NodeAssumption, GatewayAssumption
  <2>2. <<>> \in Seq(Report) /\ <<>> \in Seq(Id) /\ <<>> \in Seq(Message)
    BY EmptySeq
  <2>3. QED
    BY <1>1, <2>1, <2>2 DEF NodeTypes
<1>5. Queue /\ Closing /\ Marked /\ Apart /\ NoSelfTrade
  BY <1>1, <1>3 DEF Queue, Messages, Closing, Marked, Apart, NoSelfTrade
<1>6. KnowsItsOrders
  <2>1. Alive = {}
    BY <1>1, <1>3 DEF Alive, Book!NoOrder, Id
  <2>2. QED
    BY <1>3, <2>1 DEF KnowsItsOrders, OwnAlive
<1>7. AsSent
  BY <1>1 DEF AsSent, Book!Terms, Book!Side
<1>8. QED
  BY <1>2, <1>4, <1>5, <1>6, <1>7 DEF FloorInv

LEMMA FloorStep ==
    ASSUME FloorInv, [FloorNext]_floorvars
    PROVE  FloorInv'
<1>1. CASE Market
  BY <1>1, FeedKeeps, OtherPushesKeeps DEF Market
<1>2. CASE NodeRestarts
  BY <1>2, RestartKeeps DEF NodeRestarts
<1>3. CASE \E ready \in SUBSET Holding : Node(ready)
  BY <1>3, PollKeeps DEF Node
<1>4. CASE Serve
  BY <1>4, ServeCancelKeeps, ServeOrderKeeps
<1>5. CASE FloorMatch \/ FloorCancel \/ \E i \in Id : FloorGc(i)
  <2>1. Published /\ born' = born
    BY <1>5 DEF FloorMatch, FloorCancel, FloorGc, Published
  <2>2. CASE EngineTrade
    BY <2>1, <2>2, FloorTrade, TradeIsNotWithItself, PublishedKeeps
  <2>3. CASE EngineTake \/ EngineSettle \/ EngineCancel \/ \E i \in Id : EngineGc(i)
    <3>1. EngineFacts /\ (tape' = <<>> \/ UNCHANGED <<tape, active>>)
      BY <2>3, FloorEngine
    <3>2. sent' = sent
      BY <3>1 DEF EngineFacts
    <3>3. NoSelfTrade'
      BY <2>1, <3>1, <3>2 DEF FloorInv, NoSelfTrade
    <3>4. QED
      BY <2>1, <3>1, <3>3, PublishedKeeps
  <2>4. QED
    BY <1>5, <2>2, <2>3 DEF FloorMatch, FloorCancel, FloorGc, EngineMatch
<1>6. CASE UNCHANGED floorvars
  BY <1>6, FeedKeeps DEF floorvars
<1>7. QED
  BY <1>1, <1>2, <1>3, <1>4, <1>5, <1>6 DEF FloorNext

\* What every run of the strategy, the gateway and the engine keeps.
THEOREM FloorSound == FloorSpec => []FloorInv
<1>1. FloorInit => FloorInv
  BY FloorStart
<1>2. FloorInv /\ [FloorNext]_floorvars => FloorInv'
  BY FloorStep
<1>3. QED
  BY <1>1, <1>2, PTL DEF FloorSpec

\* Every variable of the strategy, the gateway and the engine has its type, and
\* no message on order_ingress is about an order that was never pushed
\* (strategy.py:101-233).
THEOREM FloorTypeCorrect == FloorSpec => []NodeTypeOK
<1>1. FloorInv => NodeTypeOK
  <2> SUFFICES ASSUME FloorInv PROVE NodeTypeOK
    OBVIOUS
  <2>1. \A m \in Range(ingress) : m.id \in 1..pushed
    BY FloorFacts
  <2>2. QED
    BY <2>1 DEF NodeTypeOK, FloorInv, SystemInv, NodeTypes, Mark
<1>2. QED
  BY <1>1, FloorSound, PTL

\* The strategy forgets none of its orders while it can trade, but for those of
\* before a restart, however its sockets lag behind each other and the book
\* (strategy.py:119, 156, 206-214, 223).
THEOREM NodeKnowsItsOrders == FloorSpec => []KnowsItsOrders
<1>1. FloorInv => KnowsItsOrders
  BY DEF FloorInv
<1>2. QED
  BY <1>1, FloorSound, PTL

\* The self-trade check, made on what the strategy knows when it submits, holds
\* at the book when the order gets there: no order of the strategy trades with
\* another, but for those of before a restart, for any number of orders and any
\* prices (strategy.py:119, 128-156).
THEOREM NeverTradesWithItself == FloorSpec => []NoSelfTrade
<1>1. FloorInv => NoSelfTrade
  BY DEF FloorInv
<1>2. QED
  BY <1>1, FloorSound, PTL

-----------------------------------------------------------------------------
\* A step of the gateway and the engine of TradingSystem, whatever orders come
\* in and however many requests to cancel one of them.
SystemStepOpen ==
    \/ /\ \/ \E n \in Nos : InboundOrder(n)
          \/ \E i \in Id : ForwardCancel(i)
       /\ UNCHANGED <<bookvars, tape, missed>>
    \/ EngineMatch \/ EngineCancel \/ \E i \in Id : EngineGc(i)

\* The gateway serves what the strategies push as it serves any client: the
\* message at the head of order_ingress is a legal order or a request to cancel.
LEMMA ServeIsInbound ==
    ASSUME FloorInv, Serve
    PROVE  SystemStepOpen
<1> DEFINE m == Head(ingress)
           n == [id |-> m.id, strategy |-> m.strategy, side |-> m.side,
                 price |-> m.price, qty |-> m.qty]
<1>1. /\ ingress # <<>> /\ UNCHANGED <<bookvars, tape, missed>>
      /\ m.what = "cancel" => ForwardCancel(m.id)
      /\ m.what # "cancel" => InboundOrder(n)
  BY DEF Serve
<1>2. m \in Range(ingress)
  <2>1. ingress \in Seq(Message) /\ Messages(ingress, Len(sent), pushed)
    BY DEF FloorInv, NodeTypes, Queue
  <2>2. QED
    BY <1>1, <2>1, OldestTaken, OldestServed
<1> HIDE DEF m
<1>3. m \in Message /\ m.id \in Id
  BY <1>2, FloorFacts
<1>4. m.what # "cancel" => n \in Nos
  BY <1>3 DEF Message, Nos
<1>5. QED
  BY <1>1, <1>3, <1>4 DEF SystemStepOpen

\* The floor is the trading system with its traffic filled in: whatever the
\* strategies push, cancel, miss or forget at a restart, every step of the whole
\* is a step of the gateway and the engine or leaves both alone
\* (strategy.py:101-233, risk_gateway.py:185-213).
THEOREM FloorImplementsSystem == FloorSpec => Init /\ [][SystemStepOpen]_vars
<1>1. FloorInit => Init
  BY DEF FloorInit
<1>2. ASSUME FloorInv, [FloorNext]_floorvars
      PROVE  [SystemStepOpen]_vars
  <2>1. CASE Market \/ NodeRestarts \/ \E ready \in SUBSET Holding : Node(ready)
    BY <2>1 DEF Market, NodeRestarts, Node
  <2>2. CASE Serve
    BY <1>2, <2>2, ServeIsInbound
  <2>3. CASE FloorMatch \/ FloorCancel \/ \E i \in Id : FloorGc(i)
    BY <2>3 DEF FloorMatch, FloorCancel, FloorGc, SystemStepOpen
  <2>4. CASE UNCHANGED floorvars
    BY <2>4 DEF floorvars
  <2>5. QED
    BY <1>2, <2>1, <2>2, <2>3, <2>4 DEF FloorNext
<1>3. QED
  BY <1>1, <1>2, FloorSound, PTL DEF FloorSpec
=============================================================================
