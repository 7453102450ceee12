------------------------ MODULE LimitOrderBookProofs ------------------------
(***************************************************************************)
(* The book is well typed and never crossed, for any number of orders, any *)
(* prices and quantities.  NotCrossed is not inductive: that a remainder   *)
(* rests at a price beyond every opposite level depends on where the sweep *)
(* stopped, so BookInv adds what a sweep under way knows (Sweeping).       *)
(***************************************************************************)
EXTENDS LimitOrderBook, OperatorProofs

InLevel == {"level", "fill_resting", "status_resting", "fill_incoming", "status_incoming"}
InFill == InLevel \ {"level"}

\* What submit() has established: its order is in _order_map with a price if it
\* is a LIMIT order, it is at a level, which is not empty during a fill, and
\* only a MARKET order has levels left to prune.
Sweeping ==
    /\ pc \in InLevel \cup {"sweep"} => inc \in Id
    /\ pc \in InLevel => lvl \in Price
    /\ pc \in InFill => queue[Far][lvl] # <<>>
    /\ inc \in Id /\ orders[inc].type = "LIMIT" => orders[inc].price \in Price
    /\ swept # {} => inc \in Id /\ orders[inc].type = "MARKET"
    /\ pc = "idle" => swept = {}

BookInv == LobTypeOK /\ Sweeping /\ NotCrossed

USE DEF NoId, NoPrice

\* A new order is well typed, and has a price if it is a LIMIT order.
LEMMA NewOrderType ==
    ASSUME NEW s \in Side, NEW t \in OrderType, NEW p \in Price \cup {NoPrice},
           NEW q \in Quantity
    PROVE  /\ NewOrder(s, t, p, q) \in Order
           /\ NewOrder(s, t, p, q).type = t /\ NewOrder(s, t, p, q).price = p
  BY LobAssumption DEF NewOrder, Order, OrderStatus

\* apply_fill and apply_cancel leave side, type and price of an order alone.
LEMMA FilledType ==
    ASSUME NEW o \in Order, fq \in Int, lvl \in Price
    PROVE  /\ Filled(o) \in Order
           /\ Filled(o).side = o.side /\ Filled(o).type = o.type
           /\ Filled(o).price = o.price
<1> DEFINE money == fq * lvl
<1>1. lvl \in Int /\ money \in Int
  BY LobAssumption
<1>2. Filled(o) = [o EXCEPT !.leaves = @ - fq, !.cum = @ + fq, !.value = @ + money]
  BY DEF Filled
<1> HIDE DEF money
<1>3. /\ o.leaves - fq \in Int /\ o.cum + fq \in Int /\ o.value + money \in Int
  BY <1>1 DEF Order
<1>4. QED
  BY <1>2, <1>3 DEF Order

LEMMA StatusType ==
    ASSUME NEW o \in Order, NEW st \in OrderStatus
    PROVE  LET c == [o EXCEPT !.status = st] IN
             c \in Order /\ c.side = o.side /\ c.type = o.type /\ c.price = o.price
  BY DEF Order

\* The order at the head of the level under way.
LEMMA RestingInId ==
    ASSUME LobTypeOK, inc \in Id, lvl \in Price, queue[Far][lvl] # <<>>
    PROVE  Resting \in Id /\ Far \in Side /\ queue[Far][lvl] \in Seq(Id)
<1>1. Far \in Side
  BY DEF LobTypeOK, Far, Opposite, Side, Order
<1>2. queue[Far][lvl] \in Seq(Id)
  BY <1>1 DEF LobTypeOK
<1>3. QED
  BY <1>1, <1>2 DEF Resting

\* A step that changes one order, in no more than its quantities and status,
\* and leaves the book alone keeps everything but what depends on pc.
LEMMA OrderStep ==
    ASSUME BookInv, NEW i \in Id, NEW o \in Order,
           orders' = [orders EXCEPT ![i] = o],
           o.side = orders[i].side, o.type = orders[i].type,
           o.price = orders[i].price,
           UNCHANGED <<keys, queue, inc, lvl, swept>>,
           fq' \in Int, fills' \in Seq(Id \X Int \X Price),
           pc' \in Pc, pc' = "idle" => pc = "idle",
           pc' \in InLevel \cup {"sweep"} => inc \in Id,
           pc' \in InLevel => lvl \in Price,
           pc' \in InFill => queue[Far][lvl] # <<>>
    PROVE  BookInv'
<1>1. LobTypeOK'
  BY DEF BookInv, LobTypeOK
<1>2. NotCrossed'
  BY DEF BookInv, NotCrossed
<1>3. \A j \in Id : /\ orders'[j].side = orders[j].side
                    /\ orders'[j].type = orders[j].type
                    /\ orders'[j].price = orders[j].price
  BY DEF BookInv, LobTypeOK
<1>4. swept # {} => inc \in Id /\ orders'[inc].type = "MARKET"
  BY <1>3 DEF BookInv, Sweeping, LobTypeOK
<1>5. inc \in Id => Far' = Far
  BY <1>3 DEF Far
<1>6. pc' \in InFill => queue'[Far'][lvl'] # <<>>
  BY <1>5 DEF InFill
<1>7. Sweeping'
  BY <1>3, <1>4, <1>6 DEF BookInv, Sweeping
<1>8. QED
  BY <1>1, <1>2, <1>7 DEF BookInv

\* A step of a fill (lob.py:157-159), in either order's apply_fill.
LEMMA FillStep ==
    ASSUME BookInv, FillResting \/ StatusResting \/ FillIncoming
    PROVE  BookInv'
<1> DEFINE r == Resting
<1>1. /\ pc \in InFill /\ inc \in Id /\ lvl \in Price /\ queue[Far][lvl] # <<>>
      /\ fq \in Int /\ fills \in Seq(Id \X Int \X Price)
      /\ orders \in [Id -> Order]
  BY DEF FillResting, StatusResting, FillIncoming, ApplyFill, InFill, InLevel,
         BookInv, LobTypeOK, Sweeping
<1>2. r \in Id
  BY <1>1, RestingInId DEF BookInv
<1> HIDE DEF r
<1>3. ASSUME NEW i \in Id, NEW here, NEW next, ApplyFill(i, here, next),
             next \in InFill
      PROVE  BookInv'
  <2>1. CASE CanFill(i)
    <3>1. orders' = [orders EXCEPT ![i] = Filled(orders[i])] /\ pc' = next
      BY <1>3, <2>1 DEF ApplyFill
    <3>2. QED
      BY <1>1, <1>3, <3>1, FilledType, OrderStep DEF ApplyFill, InFill, InLevel, Pc
  <2>2. CASE ~ CanFill(i)
    <3>1. orders' = [orders EXCEPT ![i] = orders[i]] /\ pc' = "raised"
      BY <1>1, <1>3, <2>2 DEF ApplyFill
    <3>2. QED
      BY <1>1, <1>3, <3>1, OrderStep DEF ApplyFill, InFill, InLevel, Pc
  <2>3. QED
    BY <2>1, <2>2
<1>4. CASE FillResting
  BY <1>2, <1>3, <1>4 DEF FillResting, InFill, InLevel, r
<1>5. CASE FillIncoming
  BY <1>1, <1>3, <1>5 DEF FillIncoming, InFill, InLevel
<1>6. CASE StatusResting
  <2> DEFINE st == StatusAfter(orders[r])
             o == [orders[r] EXCEPT !.status = st]
  <2>1. st \in OrderStatus
    BY DEF StatusAfter, OrderStatus
  <2>2. orders' = [orders EXCEPT ![r] = o]
    BY <1>6 DEF StatusResting, r
  <2> HIDE DEF st
  <2>3. /\ o \in Order /\ o.side = orders[r].side
        /\ o.type = orders[r].type /\ o.price = orders[r].price
    BY <1>1, <1>2, <2>1, StatusType
  <2> HIDE DEF o
  <2>4. QED
    BY <1>1, <1>2, <1>6, <2>2, <2>3, OrderStep DEF StatusResting, InFill, InLevel, Pc
<1>7. QED
  BY <1>4, <1>5, <1>6

\* The deque of the level under way loses its head (popleft).
LEMMA PopType ==
    ASSUME LobTypeOK, inc \in Id, lvl \in Price, queue[Far][lvl] # <<>>
    PROVE  [queue EXCEPT ![Far][lvl] = Tail(@)] \in [Side -> [Price -> Seq(Id)]]
<1>1. Far \in Side /\ queue[Far][lvl] \in Seq(Id)
  BY RestingInId
<1>2. Tail(queue[Far][lvl]) \in Seq(Id)
  BY <1>1
<1>3. QED
  BY <1>1, <1>2 DEF LobTypeOK

\* The end of a fill: the incoming order's status, and popleft (lob.py:159-162).
LEMMA StatusIncomingStep ==
    ASSUME BookInv, StatusIncoming
    PROVE  BookInv'
<1> DEFINE st == StatusAfter(orders[inc])
           o == [orders[inc] EXCEPT !.status = st]
<1>1. /\ inc \in Id /\ lvl \in Price /\ queue[Far][lvl] # <<>>
      /\ orders \in [Id -> Order] /\ fq \in Int /\ LobTypeOK
  BY DEF StatusIncoming, InFill, InLevel, BookInv, LobTypeOK, Sweeping
<1>2. Resting \in Id
  BY <1>1, RestingInId
<1>3. st \in OrderStatus
  BY DEF StatusAfter, OrderStatus
<1>4. orders' = [orders EXCEPT ![inc] = o]
  BY DEF StatusIncoming
<1> HIDE DEF st
<1>5. /\ o \in Order /\ o.side = orders[inc].side
      /\ o.type = orders[inc].type /\ o.price = orders[inc].price
  BY <1>1, <1>3, StatusType
<1> HIDE DEF o
<1>6. queue' \in [Side -> [Price -> Seq(Id)]]
  BY <1>1, PopType DEF StatusIncoming, LobTypeOK
<1>7. fills' \in Seq(Id \X Int \X Price)
  <2>1. <<Resting, fq, lvl>> \in Id \X Int \X Price
    BY <1>1, <1>2
  <2>2. QED
    BY <1>1, <2>1 DEF StatusIncoming, LobTypeOK
<1>8. LobTypeOK'
  BY <1>1, <1>4, <1>5, <1>6, <1>7 DEF StatusIncoming, LobTypeOK, Pc
<1>9. NotCrossed'
  BY DEF StatusIncoming, BookInv, NotCrossed
<1>10. Sweeping'
  BY <1>1, <1>4, <1>5 DEF StatusIncoming, BookInv, Sweeping, InFill, InLevel
<1>11. QED
  BY <1>8, <1>9, <1>10 DEF BookInv

\* The steps that only choose where to go on (lob.py:104-108, 152-157).
LEMMA ChooseStep ==
    ASSUME BookInv, NextLevel \/ TakeHead \/ SkipCancelled
    PROVE  BookInv'
<1>1. inc \in Id /\ orders \in [Id -> Order] /\ LobTypeOK
  BY DEF NextLevel, TakeHead, SkipCancelled, InLevel, BookInv, LobTypeOK, Sweeping
<1>2. CASE NextLevel
  <2>1. lvl' \in Price
    <3>1. PICK p \in Ahead : lvl' = p
      BY <1>2 DEF NextLevel
    <3>2. Far \in Side
      BY <1>1 DEF Far, Opposite, Side, Order
    <3>3. QED
      BY <1>1, <3>1, <3>2 DEF Ahead, LobTypeOK
  <2>2. QED
    BY <1>1, <1>2, <2>1
       DEF NextLevel, BookInv, LobTypeOK, Sweeping, NotCrossed, InFill, InLevel, Pc, Far
<1>3. CASE TakeHead
  <2>1. lvl \in Price /\ queue[Far][lvl] # <<>>
    BY <1>3 DEF TakeHead, Level, BookInv, Sweeping, InLevel
  <2>2. Resting \in Id
    BY <1>1, <2>1, RestingInId
  <2>3. fq' \in Int
    BY <1>1, <1>3, <2>2 DEF TakeHead, Order
  <2>4. QED
    BY <1>1, <1>3, <2>1, <2>3
       DEF TakeHead, BookInv, LobTypeOK, Sweeping, NotCrossed, InFill, InLevel, Pc, Far
<1>4. CASE SkipCancelled
  <2>1. lvl \in Price /\ queue[Far][lvl] # <<>>
    BY <1>4 DEF SkipCancelled, Level, BookInv, Sweeping, InLevel
  <2>2. queue' \in [Side -> [Price -> Seq(Id)]]
    BY <1>1, <1>4, <2>1, PopType DEF SkipCancelled
  <2>3. QED
    BY <1>1, <1>4, <2>1, <2>2
       DEF SkipCancelled, matchvars, BookInv, LobTypeOK, Sweeping, NotCrossed,
           InFill, InLevel, Pc, Far
<1>5. QED
  BY <1>2, <1>3, <1>4

\* Leaving a level: it goes now (LIMIT) or is noted for pruning (MARKET), so
\* the book only gets fewer levels (lob.py:109-110, 139-140).
LEMMA LeaveLevelStep ==
    ASSUME BookInv, LeaveLevel
    PROVE  BookInv'
<1>1. /\ inc \in Id /\ lvl \in Price /\ orders \in [Id -> Order] /\ LobTypeOK
  BY DEF LeaveLevel, InLevel, BookInv, LobTypeOK, Sweeping
<1>2. Far \in Side
  BY <1>1 DEF Far, Opposite, Side, Order
<1>3. keys' \in [Side -> SUBSET Price] /\ \A s \in Side : keys'[s] \subseteq keys[s]
  BY <1>1, <1>2 DEF LeaveLevel, LobTypeOK
<1>4. LobTypeOK'
  BY <1>1, <1>3 DEF LeaveLevel, LobTypeOK, Pc
<1>5. NotCrossed'
  BY <1>3 DEF BookInv, NotCrossed, Side
<1>6. swept' # {} => orders'[inc'].type = "MARKET"
  BY DEF LeaveLevel, BookInv, Sweeping
<1>7. Sweeping'
  BY <1>1, <1>6 DEF LeaveLevel, BookInv, Sweeping, InFill, InLevel
<1>8. QED
  BY <1>4, <1>5, <1>7 DEF BookInv

\* Where a LIMIT order stopped with something left, its price is short of every
\* level of the other side, the best one included (lob.py:106-116).
LEMMA StopsShort ==
    ASSUME BookInv, FinishSweep, Rests, NEW k \in keys[Far]
    PROVE  /\ orders[inc].side = "BUY" => orders[inc].price < k
           /\ orders[inc].side = "SELL" => orders[inc].price > k
<1>1. /\ inc \in Id /\ orders[inc] \in Order /\ orders[inc].type = "LIMIT"
      /\ orders[inc].leaves > 0 /\ orders[inc].price \in Price
  BY DEF BookInv, LobTypeOK, Sweeping, FinishSweep, Rests
<1>2. Ahead = keys[Far] /\ orders[inc].leaves \in Int
  BY <1>1 DEF BookInv, Sweeping, Ahead, Order
<1>3. PICK p \in Ahead : IsBest(p) /\ ~ Crosses(p)
  BY <1>1, <1>2 DEF FinishSweep
<1>4. Far \in Side /\ keys[Far] \subseteq Nat
  BY <1>1, LobAssumption DEF BookInv, LobTypeOK, Far, Opposite, Side, Order
<1>5. orders[inc].price \in Nat /\ p \in Nat /\ k \in Nat
  BY <1>1, <1>2, <1>3, <1>4, LobAssumption
<1>6. CASE orders[inc].side = "BUY"
  BY <1>1, <1>2, <1>3, <1>5, <1>6 DEF IsBest, Crosses, Far, Opposite
<1>7. CASE orders[inc].side = "SELL"
  BY <1>1, <1>2, <1>3, <1>5, <1>7 DEF IsBest, Crosses, Far, Opposite
<1>8. QED
  BY <1>6, <1>7

\* The end of a submission: the pruned book plus, perhaps, the level where the
\* remainder rests (lob.py:120-123, 142-146).
LEMMA FinishSweepStep ==
    ASSUME BookInv, FinishSweep
    PROVE  BookInv'
<1> DEFINE s == orders[inc].side
           p == orders[inc].price
<1>1. /\ inc \in Id /\ orders \in [Id -> Order] /\ LobTypeOK /\ s \in Side
  BY DEF FinishSweep, BookInv, LobTypeOK, Sweeping, Order
<1>2. \A k \in Side : Pruned(k) \subseteq keys[k] /\ keys[k] \subseteq Price
  BY <1>1 DEF Pruned, LobTypeOK
<1>3. Sweeping'
  BY DEF FinishSweep, BookInv, Sweeping, InFill, InLevel
<1>4. CASE ~ Rests
  <2>1. keys' = [k \in Side |-> Pruned(k)] /\ queue' = queue
    BY <1>4 DEF FinishSweep
  <2>2. LobTypeOK'
    BY <1>1, <1>2, <2>1 DEF FinishSweep, LobTypeOK, Pc
  <2>3. NotCrossed'
    BY <1>2, <2>1 DEF BookInv, NotCrossed, Side
  <2>4. QED
    BY <1>3, <2>2, <2>3 DEF BookInv
<1>5. CASE Rests
  <2>1. /\ keys' = [k \in Side |-> IF k = s THEN Pruned(k) \cup {p} ELSE Pruned(k)]
        /\ queue' = [queue EXCEPT ![s][p] = Append(@, inc)]
    BY <1>5 DEF FinishSweep
  <2>2. p \in Price
    BY <1>1, <1>5 DEF Rests, BookInv, Sweeping
  <2>3. keys' \in [Side -> SUBSET Price]
    BY <1>2, <2>1, <2>2
  <2>4. queue' \in [Side -> [Price -> Seq(Id)]]
    <3>1. queue[s][p] \in Seq(Id)
      BY <1>1, <2>2 DEF LobTypeOK
    <3>2. Append(queue[s][p], inc) \in Seq(Id)
      BY <1>1, <3>1
    <3>3. QED
      BY <1>1, <2>1, <2>2, <3>2 DEF LobTypeOK
  <2>5. LobTypeOK'
    BY <1>1, <2>3, <2>4 DEF FinishSweep, LobTypeOK, Pc
  <2>6. NotCrossed'
    <3>1. CASE s = "BUY"
      <4>1. \A k \in keys["SELL"] : p < k
        BY <1>5, <3>1, StopsShort DEF Far, Opposite
      <4>2. QED
        BY <1>2, <2>1, <3>1, <4>1 DEF BookInv, NotCrossed, Side
    <3>2. CASE s = "SELL"
      <4>1. \A k \in keys["BUY"] : p > k
        BY <1>5, <3>2, StopsShort DEF Far, Opposite
      <4>2. \A k \in keys["BUY"] : k < p
        BY <1>2, <2>2, <4>1, LobAssumption DEF Side
      <4>3. QED
        BY <1>2, <2>1, <3>2, <4>2 DEF BookInv, NotCrossed, Side
    <3>3. QED
      BY <1>1, <3>1, <3>2 DEF Side
  <2>7. QED
    BY <1>3, <2>5, <2>6 DEF BookInv
<1>6. QED
  BY <1>4, <1>5

\* A submission starts: the order enters _order_map (lob.py:100, 128).
LEMMA SubmitStep ==
    ASSUME BookInv, NEW i \in Id, NEW s \in Side, NEW t \in OrderType,
           NEW p \in Price \cup {NoPrice}, NEW q \in Quantity,
           Submit(i, s, t, p, q)
    PROVE  BookInv'
<1> DEFINE o == NewOrder(s, t, p, q)
<1>1. o \in Order /\ o.type = t /\ o.price = p
  BY NewOrderType
<1> HIDE DEF o
<1>2. /\ orders' = [orders EXCEPT ![i] = o] /\ inc' = i /\ fills' = <<>>
      /\ pc' = "sweep" /\ keys' = keys /\ queue' = queue /\ lvl' = lvl
      /\ fq' = fq /\ swept' = swept /\ pc = "idle"
      /\ t = "LIMIT" => p \in Price
  BY DEF Submit, o
<1>3. LobTypeOK'
  BY <1>1, <1>2 DEF BookInv, LobTypeOK, Pc
<1>4. orders'[inc'] = o
  BY <1>2 DEF BookInv, LobTypeOK
<1>5. swept = {}
  BY <1>2 DEF BookInv, Sweeping
<1>6. Sweeping'
  BY <1>1, <1>2, <1>4, <1>5 DEF Sweeping, InFill, InLevel
<1>7. NotCrossed'
  BY <1>2 DEF BookInv, NotCrossed
<1>8. QED
  BY <1>3, <1>6, <1>7 DEF BookInv

\* cancel changes a status and leaves the order where it is (lob.py:78-82).
LEMMA CancelStep ==
    ASSUME BookInv, NEW i \in Id, CancelLob(i)
    PROVE  BookInv'
<1> DEFINE o == [orders[i] EXCEPT !.status = "CANCELLED"]
<1>1. /\ o \in Order /\ o.side = orders[i].side
      /\ o.type = orders[i].type /\ o.price = orders[i].price
  BY StatusType DEF OrderStatus, BookInv, LobTypeOK
<1>2. orders' = [orders EXCEPT ![i] = o]
  BY DEF CancelLob, Cancelled
<1> HIDE DEF o
<1>3. /\ UNCHANGED <<keys, queue, inc, lvl, swept, fq, fills, pc>> /\ pc = "idle"
      /\ fq \in Int /\ fills \in Seq(Id \X Int \X Price) /\ pc \in Pc
  BY DEF CancelLob, Cancelled, matchvars, BookInv, LobTypeOK
<1>4. QED
  BY <1>1, <1>2, <1>3, OrderStep DEF InFill, InLevel

\* Every step of a submission keeps the book in order.
LEMMA MatchStepKeepsInv ==
    ASSUME BookInv, MatchStep
    PROVE  BookInv'
  BY FillStep, StatusIncomingStep, ChooseStep, LeaveLevelStep, FinishSweepStep DEF MatchStep

\* The empty book is in order (lob.py:55-59).
LEMMA BookInvInit ==
    ASSUME LobInit
    PROVE  BookInv
<1>1. Unsubmitted \in Order
  BY DEF Unsubmitted, Order, Side, OrderType
<1>2. LobTypeOK
  BY <1>1 DEF LobInit, LobTypeOK, Pc
<1>3. Sweeping
  BY DEF LobInit, Sweeping, InFill, InLevel, Id
<1>4. NotCrossed
  BY DEF LobInit, NotCrossed, Side
<1>5. QED
  BY <1>2, <1>3, <1>4 DEF BookInv

\* The sequential book is well typed and in order in every reachable state.
THEOREM BookInvariant == LobSpec => []BookInv
<1>1. LobInit => BookInv
  BY BookInvInit
<1>2. BookInv /\ [LobNext]_lobvars => BookInv'
  <2> SUFFICES ASSUME BookInv, [LobNext]_lobvars
               PROVE  BookInv'
    OBVIOUS
  <2>1. CASE SubmitNext
    BY <2>1, SubmitStep DEF SubmitNext
  <2>2. CASE MatchStep
    BY <2>2, MatchStepKeepsInv
  <2>3. ASSUME NEW i \in Id, CancelLob(i)
        PROVE  BookInv'
    BY <2>3, CancelStep
  <2>4. CASE UNCHANGED lobvars
    BY <2>4 DEF lobvars, BookInv, LobTypeOK, Sweeping, NotCrossed, Far
  <2>5. QED
    BY <2>1, <2>2, <2>3, <2>4 DEF LobNext
<1>3. QED
  BY <1>1, <1>2, PTL DEF LobSpec

\* The state of the book keeps its types (lob.py:19-29, 55-59).
THEOREM BookTypeCorrect == LobSpec => []LobTypeOK
<1>1. BookInv => LobTypeOK
  BY DEF BookInv
<1>2. QED
  BY <1>1, BookInvariant, PTL

\* ME-10: no bid ever meets an ask, at any step, for any orders
\* (lob.py:103-123).
THEOREM NeverCrossed == LobSpec => []NotCrossed
<1>1. BookInv => NotCrossed
  BY DEF BookInv
<1>2. QED
  BY <1>1, BookInvariant, PTL

-----------------------------------------------------------------------------
(***************************************************************************)
(* Between submissions the keys and deques of the book hold the open       *)
(* orders, each once and where it belongs, and nothing but cancelled       *)
(* orders besides; there is no ghost level.  Structure is what every step  *)
(* of a submission keeps; a status that another thread sets to CANCELLED,  *)
(* at any point, does not disturb it.                                      *)
(***************************************************************************)
Midway == pc \in InLevel \cup {"sweep"}

\* A level without orders is there only until the sweep prunes it.
KeysMatch ==
    \A s \in Side, p \in Price :
        /\ Held(s, p) # {} => p \in keys[s]
        /\ p \in keys[s] /\ Held(s, p) = {} =>
              Midway /\ s = Far /\ (p \in swept \/ (pc = "level" /\ p = lvl))

SweptEmpty == Midway => \A p \in swept : Held(Far, p) = {}

\* The resting order of a fill is in its level, FILLED or not, until popleft.
MayBeFilled(i) == pc \in {"fill_incoming", "status_incoming"} /\ i = Resting

Placed(i, s, p) ==
    /\ orders[i].side = s /\ orders[i].type = "LIMIT" /\ orders[i].price = p
    /\ orders[i].status # "ABSENT"
    /\ orders[i].status = "FILLED" => MayBeFilled(i)

QueueSound == \A s \in Side, p \in Price : \A i \in Held(s, p) : Placed(i, s, p)

QueueDistinct == \A s \in Side, p \in Price : IsInjective(queue[s][p])

OpenQueued ==
    \A i \in Id : Open(i) =>
        /\ orders[i].price \in Price
        /\ i \in Held(orders[i].side, orders[i].price) \/ (Midway /\ i = inc)

IncomingApart == Midway => \A s \in Side, p \in Price : inc \notin Held(s, p)

\* The status of an order says whether anything is left, unless it is cancelled.
Settled(o) == o.status = "CANCELLED" \/ (o.status = "FILLED" <=> o.leaves <= 0)

IncomingStatus ==
    Midway => /\ orders[inc].status # "ABSENT"
              /\ pc # "status_incoming" => Settled(orders[inc])
              /\ pc = "status_incoming" => orders[inc].leaves >= 0

RestingStatus ==
    /\ pc \in InFill \ {"fill_resting"} => orders[Resting].leaves >= 0
    /\ pc \in {"fill_incoming", "status_incoming"} => Settled(orders[Resting])

Structure ==
    pc # "raised" =>
        /\ KeysMatch /\ SweptEmpty /\ QueueSound /\ QueueDistinct
        /\ OpenQueued /\ IncomingApart /\ IncomingStatus /\ RestingStatus

\* Where a submission is: its order, the far side, and the order it fills.
LEMMA InSweep ==
    ASSUME BookInv, Midway
    PROVE  /\ inc \in Id /\ orders \in [Id -> Order] /\ orders[inc] \in Order
           /\ Far \in Side /\ orders[inc].side \in Side /\ orders[inc].side # Far
           /\ \A s \in Side : s # Far => s = orders[inc].side
           /\ pc \in InLevel => lvl \in Price
           /\ pc \in InFill => queue[Far][lvl] # <<>>
  BY DEF Midway, BookInv, LobTypeOK, Sweeping, Far, Opposite, Side, Order

\* The deques hold orders, and one is empty when it holds none.
LEMMA HeldType ==
    ASSUME BookInv, NEW s \in Side, NEW p \in Price
    PROVE  /\ queue[s][p] \in Seq(Id)
           /\ Held(s, p) \subseteq Id
           /\ Held(s, p) = {} <=> queue[s][p] = <<>>
<1>1. queue[s][p] \in Seq(Id)
  BY DEF BookInv, LobTypeOK
<1>2. Held(s, p) \subseteq Id
  BY <1>1, LenProperties DEF Held, Range
<1>3. QED
  BY <1>1, <1>2, EmptyEntries DEF Held

\* The head of the level under way is an order of that level.
LEMMA HeadHeld ==
    ASSUME BookInv, Structure, pc \in InLevel, queue[Far][lvl] # <<>>
    PROVE  /\ Far \in Side /\ lvl \in Price /\ Resting \in Held(Far, lvl)
           /\ Resting \in Id /\ Resting # inc
           /\ Placed(Resting, Far, lvl) /\ IsInjective(queue[Far][lvl])
           /\ Range(Tail(queue[Far][lvl])) = Held(Far, lvl) \ {Resting}
           /\ IsInjective(Tail(queue[Far][lvl]))
<1>1. Midway /\ pc # "raised"
  BY DEF Midway, InLevel
<1>2. Far \in Side /\ lvl \in Price
  BY <1>1, InSweep
<1>3. queue[Far][lvl] \in Seq(Id) /\ Held(Far, lvl) \subseteq Id
  BY <1>2, HeldType
<1>4. IsInjective(queue[Far][lvl])
  BY <1>1, <1>2 DEF Structure, QueueDistinct
<1>5. /\ Resting \in Held(Far, lvl) /\ IsInjective(Tail(queue[Far][lvl]))
      /\ Range(Tail(queue[Far][lvl])) = Held(Far, lvl) \ {Resting}
  BY <1>3, <1>4, PoppedEntries DEF Held, Resting
<1>6. Placed(Resting, Far, lvl) /\ Resting # inc
  BY <1>1, <1>2, <1>5 DEF Structure, QueueSound, IncomingApart
<1>7. QED
  BY <1>2, <1>3, <1>4, <1>5, <1>6

\* A step that changes the quantities or the status of one order, in a fill or
\* from another thread, leaves every order where it is.
LEMMA OneOrderStep ==
    ASSUME BookInv, Structure, pc # "raised", NEW i \in Id, NEW o \in Order,
           orders' = [orders EXCEPT ![i] = o],
           o.side = orders[i].side, o.type = orders[i].type,
           o.price = orders[i].price, o.status # "ABSENT",
           UNCHANGED <<keys, queue, inc, lvl, swept>>,
           pc' = pc \/ (pc \in InFill /\ pc' \in InFill),
           pc \in {"fill_incoming", "status_incoming"} =>
              pc' \in {"fill_incoming", "status_incoming"},
           o.status \in Fillable =>
              \/ orders[i].status \in Fillable
              \/ \E s \in Side, p \in Price : i \in Held(s, p)
              \/ Midway /\ i = inc,
           o.status = "FILLED" =>
              \/ orders[i].status = "FILLED"
              \/ MayBeFilled(i)'
              \/ Midway /\ i = inc,
           IncomingStatus', RestingStatus'
    PROVE  Structure'
<1>1. \A j \in Id : /\ orders'[j].side = orders[j].side
                    /\ orders'[j].type = orders[j].type
                    /\ orders'[j].price = orders[j].price
                    /\ j # i => orders'[j] = orders[j]
      /\ orders'[i] = o
  BY DEF BookInv, LobTypeOK
<1>2. \A s, p : Held(s, p)' = Held(s, p)
  BY DEF Held
<1>3. Midway' = Midway
  BY DEF Midway, InFill
<1>4. Midway => inc \in Id /\ Far' = Far /\ Resting' = Resting
  BY <1>1, InSweep DEF Far, Resting
<1>5. KeysMatch'
  BY <1>2, <1>3, <1>4 DEF Structure, KeysMatch, InFill
<1>6. SweptEmpty'
  BY <1>2, <1>3, <1>4 DEF Structure, SweptEmpty
<1>7. QueueSound'
  <2> SUFFICES ASSUME NEW s \in Side, NEW p \in Price, NEW j \in Held(s, p)
               PROVE  Placed(j, s, p)'
    BY <1>2 DEF QueueSound
  <2>1. j \in Id /\ Placed(j, s, p)
    BY HeldType DEF Structure, QueueSound
  <2>2. ~ (Midway /\ j = inc)
    BY DEF Structure, IncomingApart
  <2>3. MayBeFilled(j) => MayBeFilled(j)'
    BY <1>4 DEF MayBeFilled, Midway, InLevel
  <2>4. QED
    BY <1>1, <2>1, <2>2, <2>3 DEF Placed
<1>8. QueueDistinct'
  BY DEF Structure, QueueDistinct
<1>9. OpenQueued'
  <2> SUFFICES ASSUME NEW j \in Id, Open(j)'
               PROVE  /\ orders[j].price \in Price
                      /\ \/ j \in Held(orders[j].side, orders[j].price)
                         \/ Midway /\ j = inc
    BY <1>1, <1>2, <1>3 DEF OpenQueued
  <2>1. CASE Open(j)
    BY <2>1 DEF Structure, OpenQueued
  <2>2. CASE ~ Open(j)
    <3>1. j = i /\ o.status \in Fillable /\ orders[i].type = "LIMIT"
      BY <1>1, <2>2 DEF Open
    <3>2. CASE Midway /\ i = inc
      BY <3>1, <3>2 DEF BookInv, Sweeping
    <3>3. CASE \E s \in Side, p \in Price : i \in Held(s, p)
      BY <3>1, <3>3 DEF Structure, QueueSound, Placed
    <3>4. QED
      BY <2>2, <3>1, <3>2, <3>3 DEF Open
  <2>3. QED
    BY <2>1, <2>2
<1>10. IncomingApart'
  BY <1>2, <1>3 DEF Structure, IncomingApart
<1>11. QED
  BY <1>5, <1>6, <1>7, <1>8, <1>9, <1>10 DEF Structure

\* A step of a fill, in either order's apply_fill (lob.py:38-41, 158-159).
LEMMA FillStructure ==
    ASSUME BookInv, Structure, FillResting \/ StatusResting \/ FillIncoming
    PROVE  Structure'
<1>1. pc \in InFill /\ pc # "raised" /\ Midway
  BY DEF FillResting, StatusResting, FillIncoming, ApplyFill, InFill, InLevel, Midway
<1>2. /\ inc \in Id /\ orders \in [Id -> Order] /\ orders[inc] \in Order
      /\ lvl \in Price /\ queue[Far][lvl] # <<>>
  BY <1>1, InSweep DEF InFill
<1>3. /\ Resting \in Held(Far, lvl) /\ Resting \in Id /\ Resting # inc
      /\ Placed(Resting, Far, lvl) /\ Far \in Side
  BY <1>1, <1>2, HeadHeld DEF InFill
<1>4. fq \in Int /\ lvl \in Int
  BY <1>2, LobAssumption DEF BookInv, LobTypeOK
<1>5. IncomingStatus /\ RestingStatus
  BY <1>1 DEF Structure
<1>6. ASSUME NEW o \in Order, orders' = [orders EXCEPT ![Resting] = o],
             o.side = orders[Resting].side, o.type = orders[Resting].type,
             o.price = orders[Resting].price, UNCHANGED <<queue, inc, lvl>>
      PROVE  /\ orders'[inc] = orders[inc] /\ inc' = inc
             /\ Resting' = Resting /\ orders'[Resting] = o
  BY <1>2, <1>3, <1>6 DEF Resting, Far
<1>7. CASE FillResting
  <2>1. CASE ~ CanFill(Resting)
    BY <1>7, <2>1 DEF FillResting, ApplyFill, Structure
  <2>2. CASE CanFill(Resting)
    <3> DEFINE o == Filled(orders[Resting])
    <3>1. /\ o \in Order /\ o.side = orders[Resting].side
          /\ o.type = orders[Resting].type /\ o.price = orders[Resting].price
      BY <1>2, <1>3, <1>4, FilledType
    <3>2. /\ o.status = orders[Resting].status /\ o.leaves >= 0
          /\ o.status \in Fillable
      <4>1. orders[Resting] \in Order /\ orders[Resting].leaves \in Int
        BY <1>2, <1>3 DEF Order
      <4>2. o.leaves = orders[Resting].leaves - fq /\ o.status = orders[Resting].status
        BY <4>1 DEF Filled, Order
      <4>3. QED
        BY <1>4, <2>2, <4>1, <4>2 DEF CanFill
    <3>3. /\ orders' = [orders EXCEPT ![Resting] = o]
          /\ pc = "fill_resting" /\ pc' = "status_resting"
          /\ UNCHANGED <<keys, queue, inc, lvl, swept>>
      BY <1>7, <2>2 DEF FillResting, ApplyFill
    <3> HIDE DEF o
    <3>4. /\ orders'[inc] = orders[inc] /\ Resting' = Resting /\ orders'[Resting] = o
      BY <1>6, <3>1, <3>3
    <3>5. IncomingStatus' /\ RestingStatus'
      BY <1>1, <1>5, <3>2, <3>3, <3>4
         DEF IncomingStatus, RestingStatus, Midway, InLevel, InFill
    <3>6. QED
      BY <1>1, <1>3, <3>1, <3>2, <3>3, <3>5, OneOrderStep
         DEF InFill, InLevel, Fillable
  <2>3. QED
    BY <2>1, <2>2
<1>8. CASE StatusResting
  <2> DEFINE st == StatusAfter(orders[Resting])
             o == [orders[Resting] EXCEPT !.status = st]
  <2>1. /\ st \in {"PARTIAL", "FILLED"} /\ st \in OrderStatus
        /\ st = "FILLED" <=> orders[Resting].leaves = 0
    BY DEF StatusAfter, OrderStatus
  <2>2. /\ orders' = [orders EXCEPT ![Resting] = o]
        /\ pc = "status_resting" /\ pc' = "fill_incoming"
        /\ UNCHANGED <<keys, queue, inc, lvl, swept>>
    BY <1>8 DEF StatusResting
  <2>3. orders[Resting].leaves \in Int /\ orders[Resting].leaves >= 0
    BY <1>2, <1>3, <1>5, <2>2 DEF RestingStatus, Order, InFill, InLevel
  <2> HIDE DEF st
  <2>4. /\ o \in Order /\ o.side = orders[Resting].side
        /\ o.type = orders[Resting].type /\ o.price = orders[Resting].price
    BY <1>2, <1>3, <2>1, StatusType
  <2>5. o.status = st /\ o.leaves = orders[Resting].leaves
    BY <1>2, <1>3 DEF Order
  <2> HIDE DEF o
  <2>6. /\ orders'[inc] = orders[inc] /\ Resting' = Resting /\ orders'[Resting] = o
    BY <1>6, <2>2, <2>4
  <2>7. IncomingStatus' /\ RestingStatus'
    BY <1>1, <1>5, <2>1, <2>2, <2>3, <2>5, <2>6
       DEF IncomingStatus, RestingStatus, Settled, Midway, InLevel, InFill
  <2>8. QED
    BY <1>1, <1>2, <1>3, <2>1, <2>2, <2>4, <2>5, <2>6, <2>7, OneOrderStep
       DEF MayBeFilled, InFill, InLevel
<1>9. CASE FillIncoming
  <2>1. CASE ~ CanFill(inc)
    BY <1>9, <2>1 DEF FillIncoming, ApplyFill, Structure
  <2>2. CASE CanFill(inc)
    <3> DEFINE o == Filled(orders[inc])
    <3>1. /\ o \in Order /\ o.side = orders[inc].side
          /\ o.type = orders[inc].type /\ o.price = orders[inc].price
      BY <1>2, <1>4, FilledType
    <3>2. /\ o.status = orders[inc].status /\ o.leaves >= 0
          /\ o.status \in Fillable
      <4>1. orders[inc].leaves \in Int
        BY <1>2 DEF Order
      <4>2. o.leaves = orders[inc].leaves - fq /\ o.status = orders[inc].status
        BY <1>2 DEF Filled, Order
      <4>3. QED
        BY <1>4, <2>2, <4>1, <4>2 DEF CanFill
    <3>3. /\ orders' = [orders EXCEPT ![inc] = o]
          /\ pc = "fill_incoming" /\ pc' = "status_incoming"
          /\ UNCHANGED <<keys, queue, inc, lvl, swept>>
      BY <1>9, <2>2 DEF FillIncoming, ApplyFill
    <3> HIDE DEF o
    <3>4. orders'[inc] = o /\ Resting' = Resting /\ orders'[Resting] = orders[Resting]
      BY <1>2, <1>3, <3>1, <3>3 DEF Resting, Far
    <3>5. IncomingStatus' /\ RestingStatus'
      BY <1>1, <1>5, <3>2, <3>3, <3>4
         DEF IncomingStatus, RestingStatus, Settled, Midway, InLevel, InFill, Fillable
    <3>6. QED
      BY <1>1, <1>2, <3>1, <3>2, <3>3, <3>5, OneOrderStep DEF InFill, InLevel, Fillable
  <2>3. QED
    BY <2>1, <2>2
<1>10. QED
  BY <1>7, <1>8, <1>9

\* A cancel, between submissions or from another thread at any point of one,
\* leaves the order in its level (lob.py:43-47, 78-82).
LEMMA CancelStructure ==
    ASSUME BookInv, Structure, NEW i \in Id,
           orders' = [orders EXCEPT ![i].status = "CANCELLED"],
           UNCHANGED <<keys, queue, pc, matchvars>>
    PROVE  Structure'
<1> DEFINE o == [orders[i] EXCEPT !.status = "CANCELLED"]
<1>1. CASE pc = "raised"
  BY <1>1 DEF Structure
<1>2. CASE pc # "raised"
  <2>1. /\ o \in Order /\ o.side = orders[i].side
        /\ o.type = orders[i].type /\ o.price = orders[i].price
    BY StatusType DEF OrderStatus, BookInv, LobTypeOK
  <2>2. o.status = "CANCELLED" /\ o.leaves = orders[i].leaves
    BY DEF BookInv, LobTypeOK, Order
  <2>3. orders' = [orders EXCEPT ![i] = o]
    OBVIOUS
  <2> HIDE DEF o
  <2>4. UNCHANGED <<keys, queue, inc, lvl, swept, pc>> /\ orders \in [Id -> Order]
    BY DEF matchvars, BookInv, LobTypeOK
  <2>5. \A j \in Id : orders'[j] = IF j = i THEN o ELSE orders[j]
    BY <2>3, <2>4
  <2>6. IncomingStatus /\ RestingStatus
    BY <1>2 DEF Structure
  <2>7. IncomingStatus'
    BY <2>2, <2>4, <2>5, <2>6, InSweep DEF IncomingStatus, Settled, Midway
  <2>8. RestingStatus'
    <3> SUFFICES ASSUME pc \in InFill
                 PROVE  RestingStatus'
      BY <2>4 DEF RestingStatus, InFill, InLevel
    <3>1. Midway
      BY DEF Midway, InFill
    <3>2. Resting \in Id /\ inc \in Id
      BY <3>1, InSweep, HeadHeld DEF InFill
    <3>3. Resting' = Resting
      BY <2>1, <2>4, <2>5, <3>2 DEF Resting, Far
    <3>4. QED
      BY <2>2, <2>4, <2>5, <2>6, <3>2, <3>3 DEF RestingStatus, Settled
  <2>9. QED
    BY <1>2, <2>1, <2>2, <2>3, <2>4, <2>7, <2>8, OneOrderStep DEF Fillable
<1>3. QED
  BY <1>1, <1>2

\* Between two fills a step that moves on, and leaves orders and deques alone,
\* has the keys to account for and nothing else.
LEMMA MovesOn ==
    ASSUME BookInv, Structure,
           pc \in {"sweep", "level"}, pc' \in {"sweep", "level", "fill_resting"},
           UNCHANGED <<orders, queue, inc>>, KeysMatch', SweptEmpty'
    PROVE  Structure'
<1>1. /\ Midway /\ Midway' /\ pc # "raised" /\ Far' = Far
      /\ \A s, p : Held(s, p)' = Held(s, p)
  BY DEF Midway, InLevel, Far, Held
<1>2. QueueSound' /\ QueueDistinct'
  BY <1>1 DEF Structure, QueueSound, QueueDistinct, Placed, MayBeFilled
<1>3. OpenQueued' /\ IncomingApart'
  BY <1>1 DEF Structure, OpenQueued, IncomingApart, Open
<1>4. IncomingStatus' /\ RestingStatus'
  BY <1>1 DEF Structure, IncomingStatus, RestingStatus, Settled, InFill, InLevel
<1>5. QED
  BY <1>2, <1>3, <1>4 DEF Structure

\* Entering a level, and going to fill its head (lob.py:104-108, 152-157).
LEMMA ChooseStructure ==
    ASSUME BookInv, Structure, NextLevel \/ TakeHead
    PROVE  Structure'
<1>1. /\ Midway /\ Midway' /\ pc # "raised"
      /\ UNCHANGED <<orders, keys, queue, inc, swept>>
  BY DEF NextLevel, TakeHead, Midway, InLevel
<1>2. Far' = Far /\ \A s, p : Held(s, p)' = Held(s, p)
  BY <1>1 DEF Far, Held
<1>3. SweptEmpty'
  BY <1>1, <1>2 DEF Structure, SweptEmpty
<1>4. CASE NextLevel
  <2>1. KeysMatch'
    BY <1>1, <1>2, <1>4 DEF NextLevel, Structure, KeysMatch
  <2>2. QED
    BY <1>1, <1>3, <1>4, <2>1, MovesOn DEF NextLevel
<1>5. CASE TakeHead
  <2>1. Held(Far, lvl) # {}
    BY <1>1, <1>5, InSweep, HeldType DEF TakeHead, Level, InLevel
  <2>2. KeysMatch'
    BY <1>1, <1>2, <1>5, <2>1 DEF TakeHead, Structure, KeysMatch
  <2>3. QED
    BY <1>1, <1>3, <1>5, <2>2, MovesOn DEF TakeHead
<1>6. QED
  BY <1>4, <1>5

\* An empty level loses its key now (LIMIT), or goes on the list of prices to
\* prune (MARKET): lob.py:109-110, 117-118, 139-140.
LEMMA LeaveLevelStructure ==
    ASSUME BookInv, Structure, LeaveLevel
    PROVE  Structure'
<1>1. /\ Midway /\ Midway' /\ pc # "raised" /\ pc = "level" /\ pc' = "sweep"
      /\ UNCHANGED <<orders, queue, inc, lvl>>
  BY DEF LeaveLevel, Midway, InLevel
<1>2. Far' = Far /\ \A s, p : Held(s, p)' = Held(s, p)
  BY <1>1 DEF Far, Held
<1>3. /\ Far \in Side /\ lvl \in Price /\ orders[inc] \in Order /\ inc \in Id
      /\ keys \in [Side -> SUBSET Price] /\ swept \subseteq Price
      /\ Held(Far, lvl) = {} <=> Level = <<>>
  BY <1>1, InSweep, HeldType DEF InLevel, BookInv, LobTypeOK, Level
<1>4. orders[inc].type = "LIMIT" \/ orders[inc].type = "MARKET"
  BY <1>3 DEF Order, OrderType
<1>5. KeysMatch /\ SweptEmpty
  BY <1>1 DEF Structure
<1>6. CASE Level # <<>>
  <2>1. UNCHANGED <<keys, swept>>
    BY <1>6 DEF LeaveLevel
  <2>2. KeysMatch' /\ SweptEmpty'
    BY <1>1, <1>2, <1>3, <1>5, <1>6, <2>1 DEF KeysMatch, SweptEmpty
  <2>3. QED
    BY <1>1, <2>2, MovesOn
<1>7. CASE Level = <<>> /\ orders[inc].type = "LIMIT"
  <2>1. keys' = [keys EXCEPT ![Far] = @ \ {lvl}] /\ swept' = swept
    BY <1>7 DEF LeaveLevel
  <2>2. \A s \in Side, p \in Price :
            p \in keys'[s] <=> p \in keys[s] /\ ~ (s = Far /\ p = lvl)
    BY <1>3, <2>1
  <2>3. KeysMatch' /\ SweptEmpty'
    BY <1>1, <1>2, <1>3, <1>5, <1>7, <2>1, <2>2 DEF KeysMatch, SweptEmpty
  <2>4. QED
    BY <1>1, <2>3, MovesOn
<1>8. CASE Level = <<>> /\ orders[inc].type = "MARKET"
  <2>1. keys' = keys /\ swept' = swept \cup {lvl}
    BY <1>8 DEF LeaveLevel
  <2>2. KeysMatch' /\ SweptEmpty'
    BY <1>1, <1>2, <1>3, <1>5, <1>8, <2>1 DEF KeysMatch, SweptEmpty
  <2>3. QED
    BY <1>1, <2>2, MovesOn
<1>9. QED
  BY <1>4, <1>6, <1>7, <1>8

\* popleft takes the head out of the level under way and nothing else.
LEMMA HeadPopped ==
    ASSUME BookInv, Structure, pc \in InLevel, queue[Far][lvl] # <<>>,
           queue' = [queue EXCEPT ![Far][lvl] = Tail(@)]
    PROVE  \A s \in Side, p \in Price :
              /\ Held(s, p)' = Held(s, p) \ (IF s = Far /\ p = lvl THEN {Resting} ELSE {})
              /\ IsInjective(queue'[s][p])
<1> SUFFICES ASSUME NEW s \in Side, NEW p \in Price
             PROVE  /\ Held(s, p)' = Held(s, p) \
                          (IF s = Far /\ p = lvl THEN {Resting} ELSE {})
                    /\ IsInjective(queue'[s][p])
  OBVIOUS
<1>1. IsInjective(queue[s][p]) /\ queue \in [Side -> [Price -> Seq(Id)]]
  BY DEF Structure, QueueDistinct, InLevel, BookInv, LobTypeOK
<1>2. CASE s = Far /\ p = lvl
  <2>1. queue'[s][p] = Tail(queue[Far][lvl])
    BY <1>1, <1>2
  <2>2. QED
    BY <1>2, <2>1, HeadHeld DEF Held
<1>3. CASE ~ (s = Far /\ p = lvl)
  <2>1. queue'[s][p] = queue[s][p]
    BY <1>1, <1>3
  <2>2. QED
    BY <1>1, <1>3, <2>1 DEF Held
<1>4. QED
  BY <1>2, <1>3

\* Dropping a cancelled head drops no open order (lob.py:154-156).
LEMMA SkipCancelledStructure ==
    ASSUME BookInv, Structure, SkipCancelled
    PROVE  Structure'
<1>1. /\ pc = "level" /\ Midway /\ Midway' /\ pc # "raised"
      /\ queue[Far][lvl] # <<>> /\ orders[Resting].status = "CANCELLED"
      /\ queue' = [queue EXCEPT ![Far][lvl] = Tail(@)]
      /\ UNCHANGED <<orders, keys, inc, lvl, swept, pc>> /\ Far' = Far
  BY DEF SkipCancelled, Level, matchvars, Midway, InLevel, Far
<1>2. pc \in InLevel /\ Far \in Side /\ lvl \in Price
  BY <1>1, InSweep DEF InLevel
<1>3. \A s \in Side, p \in Price :
         /\ Held(s, p)' = Held(s, p) \ (IF s = Far /\ p = lvl THEN {Resting} ELSE {})
         /\ IsInjective(queue'[s][p])
  BY <1>1, <1>2, HeadPopped
<1>4. KeysMatch'
  BY <1>1, <1>3 DEF Structure, KeysMatch
<1>5. SweptEmpty'
  BY <1>1, <1>2, <1>3 DEF Structure, SweptEmpty, BookInv, LobTypeOK
<1>6. QueueSound' /\ QueueDistinct' /\ IncomingApart'
  BY <1>1, <1>3 DEF Structure, QueueSound, QueueDistinct, IncomingApart, Placed, MayBeFilled
<1>7. OpenQueued'
  <2> SUFFICES ASSUME NEW i \in Id, Open(i)
               PROVE  /\ orders[i].price \in Price
                      /\ \/ i \in Range(queue'[orders[i].side][orders[i].price])
                         \/ Midway /\ i = inc
    BY <1>1 DEF OpenQueued, Open, Held
  <2>1. i # Resting
    BY <1>1 DEF Open, Fillable
  <2>2. /\ orders[i].price \in Price /\ orders[i].side \in Side
        /\ \/ i \in Held(orders[i].side, orders[i].price)
           \/ Midway /\ i = inc
    BY <1>1 DEF Structure, OpenQueued, BookInv, LobTypeOK, Order
  <2>3. \A s \in Side, p \in Price : Held(s, p) \ {Resting} \subseteq Range(queue'[s][p])
    BY <1>3 DEF Held
  <2>4. QED
    BY <2>1, <2>2, <2>3
<1>8. IncomingStatus' /\ RestingStatus'
  BY <1>1 DEF Structure, IncomingStatus, RestingStatus, Settled, InFill, InLevel
<1>9. QED
  BY <1>4, <1>5, <1>6, <1>7, <1>8 DEF Structure

\* The end of a fill takes the resting order out when it is FILLED, and when
\* nothing is left of one that was cancelled meanwhile (lob.py:159-162).
LEMMA StatusIncomingStructure ==
    ASSUME BookInv, Structure, StatusIncoming
    PROVE  Structure'
<1> DEFINE st == StatusAfter(orders[inc])
           o == [orders[inc] EXCEPT !.status = st]
<1>1. /\ pc = "status_incoming" /\ pc' = "level" /\ pc # "raised" /\ Midway /\ Midway'
      /\ pc \in InLevel /\ pc \in InFill /\ pc \in InFill \ {"fill_resting"}
      /\ UNCHANGED <<keys, inc, lvl, swept>>
      /\ orders' = [orders EXCEPT ![inc] = o]
      /\ queue' = IF orders[Resting].leaves = 0
                    THEN [queue EXCEPT ![Far][lvl] = Tail(@)] ELSE queue
  BY DEF StatusIncoming, Midway, InLevel, InFill
<1>2. /\ inc \in Id /\ orders \in [Id -> Order] /\ orders[inc] \in Order
      /\ Far \in Side /\ lvl \in Price /\ queue[Far][lvl] # <<>>
  BY <1>1, InSweep
<1>3. /\ st \in OrderStatus /\ (st = "FILLED" <=> orders[inc].leaves = 0)
      /\ st # "CANCELLED" /\ st # "ABSENT"
  BY DEF StatusAfter, OrderStatus
<1>4. /\ o.side = orders[inc].side /\ o.type = orders[inc].type
      /\ o.price = orders[inc].price
  BY <1>2, <1>3, StatusType
<1>5. o.status = st /\ o.leaves = orders[inc].leaves
  BY <1>2 DEF Order
<1> HIDE DEF st, o
<1>6. /\ \A j \in Id : /\ orders'[j].side = orders[j].side
                       /\ orders'[j].type = orders[j].type
                       /\ orders'[j].price = orders[j].price
                       /\ j # inc => orders'[j] = orders[j]
      /\ orders'[inc] = o /\ Far' = Far
  BY <1>1, <1>2, <1>4 DEF Far
<1>7. /\ Resting \in Id /\ Resting # inc /\ Settled(orders[Resting])
      /\ orders[Resting].leaves \in Int /\ orders[Resting].leaves >= 0
  BY <1>1, <1>2, HeadHeld DEF Structure, RestingStatus, Order
<1> DEFINE Gone == IF orders[Resting].leaves = 0 THEN {Resting} ELSE {}
<1>8. \A s \in Side, p \in Price :
         /\ Held(s, p)' = Held(s, p) \ (IF s = Far /\ p = lvl THEN Gone ELSE {})
         /\ IsInjective(queue'[s][p])
  <2>1. CASE orders[Resting].leaves = 0
    BY <1>1, <1>2, <2>1, HeadPopped
  <2>2. CASE orders[Resting].leaves # 0
    BY <1>1, <2>2 DEF Structure, QueueDistinct, Held
  <2>3. QED
    BY <2>1, <2>2
<1>9. /\ Resting \in Gone => orders[Resting].status \notin Fillable
      /\ Resting \notin Gone => orders[Resting].status # "FILLED"
      /\ \A i \in Gone : i = Resting
  BY <1>7 DEF Settled, Fillable
<1>10. KeysMatch'
  BY <1>1, <1>6, <1>8 DEF Structure, KeysMatch
<1>11. SweptEmpty'
  BY <1>1, <1>2, <1>6, <1>8 DEF Structure, SweptEmpty, BookInv, LobTypeOK
<1>12. QueueDistinct' /\ IncomingApart'
  BY <1>1, <1>8 DEF Structure, QueueDistinct, IncomingApart
<1>13. QueueSound'
  <2> SUFFICES ASSUME NEW s \in Side, NEW p \in Price, NEW i \in Held(s, p),
                      i \notin (IF s = Far /\ p = lvl THEN Gone ELSE {})
               PROVE  Placed(i, s, p)'
    BY <1>8 DEF QueueSound
  <2>1. i \in Id /\ Placed(i, s, p) /\ i # inc
    BY <1>1, HeldType DEF Structure, QueueSound, IncomingApart
  <2>2. orders[i].status # "FILLED"
    <3>1. CASE i = Resting
      <4>1. Placed(Resting, Far, lvl)
        BY <1>1, <1>2, HeadHeld
      <4>2. s = Far /\ p = lvl
        BY <2>1, <3>1, <4>1 DEF Placed
      <4>3. QED
        BY <1>9, <3>1, <4>2
    <3>2. CASE i # Resting
      BY <2>1, <3>2 DEF Placed, MayBeFilled
    <3>3. QED
      BY <3>1, <3>2
  <2>3. QED
    BY <1>6, <2>1, <2>2 DEF Placed
<1>14. OpenQueued'
  <2> SUFFICES ASSUME NEW i \in Id, Open(i)'
               PROVE  /\ orders[i].price \in Price
                      /\ \/ i \in Range(queue'[orders[i].side][orders[i].price])
                         \/ Midway /\ i = inc
    BY <1>1, <1>6 DEF OpenQueued, Held
  <2>1. CASE i = inc
    BY <1>1, <1>6, <2>1 DEF BookInv, Sweeping, Open
  <2>2. CASE i # inc
    <3>1. Open(i) /\ i \notin Gone
      BY <1>6, <1>9, <2>2 DEF Open
    <3>2. /\ orders[i].price \in Price /\ orders[i].side \in Side
          /\ i \in Held(orders[i].side, orders[i].price)
      BY <1>1, <2>2, <3>1 DEF Structure, OpenQueued, BookInv, LobTypeOK, Order
    <3>3. \A s \in Side, p \in Price : Held(s, p) \ Gone \subseteq Range(queue'[s][p])
      BY <1>8 DEF Held
    <3>4. QED
      BY <3>1, <3>2, <3>3
  <2>3. QED
    BY <2>1, <2>2
<1>15. IncomingStatus'
  <2>1. orders[inc].leaves \in Int /\ orders[inc].leaves >= 0
    BY <1>1, <1>2 DEF Structure, IncomingStatus, Order
  <2>2. QED
    BY <1>1, <1>3, <1>5, <1>6, <2>1 DEF IncomingStatus, Settled
<1>16. RestingStatus'
  BY <1>1 DEF RestingStatus, InFill
<1>17. QED
  BY <1>10, <1>11, <1>12, <1>13, <1>14, <1>15, <1>16 DEF Structure

\* The end of a submission prunes the levels it swept, and what is left of a
\* LIMIT order rests under its price (lob.py:120-123, 142-146).
LEMMA FinishSweepStructure ==
    ASSUME BookInv, Structure, FinishSweep
    PROVE  Structure'
<1> DEFINE d == orders[inc].side
           at == orders[inc].price
           Added(s, p) == IF Rests /\ s = d /\ p = at THEN {inc} ELSE {}
<1>1. /\ pc = "sweep" /\ pc' = "idle" /\ pc # "raised" /\ Midway /\ ~ Midway'
      /\ UNCHANGED <<orders, inc>>
  BY DEF FinishSweep, Midway, InLevel
<1>2. /\ inc \in Id /\ orders \in [Id -> Order] /\ orders[inc] \in Order
      /\ Far \in Side /\ d \in Side /\ d # Far
      /\ queue \in [Side -> [Price -> Seq(Id)]] /\ keys \in [Side -> SUBSET Price]
  BY <1>1, InSweep DEF BookInv, LobTypeOK
<1>3. orders[inc].type = "LIMIT" => at \in Price
  BY <1>2 DEF BookInv, Sweeping
<1>4. /\ orders[inc].status # "ABSENT" /\ Settled(orders[inc]) /\ orders[inc].leaves \in Int
  BY <1>1, <1>2 DEF Structure, IncomingStatus, Order
<1>5. \A s \in Side, p \in Price :
         /\ Range(queue'[s][p]) = Held(s, p) \cup Added(s, p)
         /\ IsInjective(queue'[s][p])
         /\ p \in keys'[s] <=> p \in Pruned(s) \/ inc \in Added(s, p)
  <2>1. SUFFICES ASSUME NEW s \in Side, NEW p \in Price
                 PROVE  /\ Range(queue'[s][p]) = Held(s, p) \cup Added(s, p)
                        /\ IsInjective(queue'[s][p])
                        /\ p \in keys'[s] <=> p \in Pruned(s) \/ inc \in Added(s, p)
    OBVIOUS
  <2>2. /\ IsInjective(queue[s][p]) /\ inc \notin Held(s, p) /\ queue[s][p] \in Seq(Id)
    BY <1>1, <1>2 DEF Structure, QueueDistinct, IncomingApart
  <2>3. CASE ~ Rests
    BY <1>2, <2>2, <2>3 DEF FinishSweep, Held
  <2>4. CASE Rests /\ s = d /\ p = at
    <3>1. queue'[s][p] = Append(queue[s][p], inc)
      BY <1>2, <2>4 DEF FinishSweep
    <3>2. p \in keys'[s]
      BY <1>2, <2>4 DEF FinishSweep
    <3> DEFINE was == queue[s][p]
    <3>3. was \in Seq(Id) /\ IsInjective(was) /\ inc \notin Range(was)
      BY <2>2 DEF Held
    <3>4. inc \in Id /\ queue'[s][p] = Append(was, inc)
      BY <1>2, <3>1
    <3> HIDE DEF was
    <3>5. /\ Range(queue'[s][p]) = Range(was) \cup {inc}
          /\ IsInjective(queue'[s][p])
      BY <3>3, <3>4, AppendedEntries
    <3>6. Held(s, p) = Range(was) /\ Added(s, p) = {inc}
      BY <2>4 DEF Held, was
    <3>7. QED
      BY <3>2, <3>5, <3>6
  <2>5. CASE Rests /\ ~ (s = d /\ p = at)
    <3>1. /\ queue' = [queue EXCEPT ![d][at] = Append(@, inc)]
          /\ keys' = [k \in Side |-> IF k = d THEN Pruned(k) \cup {at} ELSE Pruned(k)]
      BY <2>5 DEF FinishSweep
    <3>2. CASE s = d
      BY <1>2, <2>2, <2>5, <3>1, <3>2 DEF Held
    <3>3. CASE s # d
      BY <1>2, <2>2, <2>5, <3>1, <3>3 DEF Held
    <3>4. QED
      BY <3>2, <3>3
  <2>6. QED
    BY <2>3, <2>4, <2>5
<1> HIDE DEF Added
<1>6. /\ \A s, p : Held(s, p)' = Range(queue'[s][p])
      /\ \A s, p : \A i \in Added(s, p) : i = inc /\ Rests /\ s = d /\ p = at
      /\ Rests => inc \in Added(d, at)
  BY DEF Held, Added
<1>7. KeysMatch'
  <2> SUFFICES ASSUME NEW s \in Side, NEW p \in Price
               PROVE  p \in keys'[s] <=> Range(queue'[s][p]) # {}
    BY <1>6 DEF KeysMatch
  <2>1. p \in Pruned(s) => Held(s, p) # {}
    BY <1>1 DEF Structure, KeysMatch, Pruned
  <2>2. Held(s, p) # {} => p \in Pruned(s)
    BY <1>1 DEF Structure, KeysMatch, SweptEmpty, Pruned
  <2>3. QED
    BY <1>5, <1>6, <2>1, <2>2
<1>8. QueueDistinct'
  BY <1>5 DEF QueueDistinct
<1>9. QueueSound'
  <2> SUFFICES ASSUME NEW s \in Side, NEW p \in Price, NEW i \in Held(s, p) \cup Added(s, p)
               PROVE  Placed(i, s, p)'
    BY <1>5, <1>6 DEF QueueSound
  <2>1. CASE i \in Held(s, p)
    BY <1>1, <2>1 DEF Structure, QueueSound, Placed, MayBeFilled
  <2>2. CASE i \in Added(s, p)
    BY <1>1, <1>4, <1>6, <2>2 DEF Placed, Rests, Settled
  <2>3. QED
    BY <2>1, <2>2
<1>10. OpenQueued'
  <2> SUFFICES ASSUME NEW i \in Id, Open(i)
               PROVE  /\ orders[i].price \in Price
                      /\ i \in Range(queue'[orders[i].side][orders[i].price])
    BY <1>1 DEF OpenQueued, Open, Held
  <2>1. CASE i = inc
    <3>1. Rests
      BY <1>4, <2>1 DEF Open, Fillable, Settled, Rests
    <3>2. QED
      BY <1>2, <1>3, <1>5, <1>6, <2>1, <3>1 DEF Rests
  <2>2. CASE i # inc
    <3>1. /\ orders[i].price \in Price /\ orders[i].side \in Side
          /\ i \in Held(orders[i].side, orders[i].price)
      BY <1>1, <1>2, <2>2 DEF Structure, OpenQueued, Order
    <3>2. QED
      BY <1>5, <3>1
  <2>3. QED
    BY <2>1, <2>2
<1>11. SweptEmpty' /\ IncomingApart' /\ IncomingStatus' /\ RestingStatus'
  BY <1>1 DEF SweptEmpty, IncomingApart, IncomingStatus, RestingStatus, InFill, InLevel
<1>12. QED
  BY <1>7, <1>8, <1>9, <1>10, <1>11 DEF Structure

\* A submission starts with an order that is in no level (lob.py:100, 128).
LEMMA SubmitStructure ==
    ASSUME BookInv, Structure, NEW i \in Id, NEW s \in Side, NEW t \in OrderType,
           NEW p \in Price \cup {NoPrice}, NEW q \in Quantity,
           Submit(i, s, t, p, q)
    PROVE  Structure'
<1> DEFINE o == NewOrder(s, t, p, q)
<1>1. o \in Order /\ o.type = t /\ o.price = p
  BY NewOrderType
<1>2. o.status = "NEW" /\ o.leaves = q /\ q > 0 /\ q \in Nat
  BY LobAssumption DEF NewOrder
<1> HIDE DEF o
<1>3. /\ pc = "idle" /\ pc' = "sweep" /\ pc # "raised" /\ ~ Midway /\ Midway'
      /\ orders[i].status = "ABSENT" /\ orders' = [orders EXCEPT ![i] = o]
      /\ inc' = i /\ UNCHANGED <<keys, queue, swept>>
      /\ t = "LIMIT" => p \in Price
  BY DEF Submit, Midway, InLevel, NoPrice, o
<1>4. swept = {}
  BY <1>3 DEF BookInv, Sweeping
<1>5. /\ orders'[i] = o /\ \A j \in Id : j # i => orders'[j] = orders[j]
  BY <1>3 DEF BookInv, LobTypeOK
<1>6. \A d \in Side, k \in Price : Held(d, k)' = Held(d, k) /\ i \notin Held(d, k)
  BY <1>3 DEF Structure, QueueSound, Placed, Held
<1>7. KeysMatch' /\ SweptEmpty' /\ QueueDistinct' /\ IncomingApart'
  BY <1>3, <1>4, <1>6
     DEF Structure, KeysMatch, SweptEmpty, QueueDistinct, IncomingApart
<1>8. QueueSound'
  BY <1>3, <1>5, <1>6, HeldType DEF Structure, QueueSound, Placed, MayBeFilled
<1>9. OpenQueued'
  <2> SUFFICES ASSUME NEW j \in Id, Open(j)', j # i
               PROVE  /\ orders'[j].price \in Price
                      /\ j \in Range(queue[orders'[j].side][orders'[j].price])
    BY <1>1, <1>3, <1>5 DEF OpenQueued, Open, Held
  <2>1. QED
    BY <1>3, <1>5 DEF Structure, OpenQueued, Open, Held
<1>10. IncomingStatus' /\ RestingStatus'
  BY <1>2, <1>3, <1>5 DEF IncomingStatus, RestingStatus, Settled, InFill, InLevel
<1>11. QED
  BY <1>7, <1>8, <1>9, <1>10 DEF Structure

\* The empty book holds no order (lob.py:55-59).
LEMMA StructureInit ==
    ASSUME LobInit
    PROVE  Structure
<1>1. \A s \in Side, p \in Price : Held(s, p) = {}
  BY DEF LobInit, Held, Range
<1>2. QED
  BY <1>1 DEF LobInit, Structure, KeysMatch, SweptEmpty, QueueSound, QueueDistinct,
      OpenQueued, Open, Fillable, Unsubmitted, IncomingApart, IncomingStatus,
      RestingStatus, Midway, InFill, InLevel, IsInjective

\* A step that leaves the book's variables alone leaves its structure alone.
LEMMA BookAsItWas ==
    ASSUME Structure, UNCHANGED lobvars
    PROVE  Structure'
<1>1. UNCHANGED <<orders, keys, queue, pc, inc, lvl, swept>>
  BY DEF lobvars
<1>2. Midway' = Midway /\ Far' = Far /\ Resting' = Resting
  BY <1>1 DEF Midway, Resting, Far
<1>3. \A s, p : Held(s, p)' = Held(s, p)
  BY <1>1 DEF Held
<1>4. \A i : MayBeFilled(i)' <=> MayBeFilled(i)
  BY <1>1, <1>2 DEF MayBeFilled
<1> SUFFICES ASSUME pc # "raised"
             PROVE  /\ KeysMatch' /\ SweptEmpty' /\ QueueSound' /\ QueueDistinct'
                    /\ OpenQueued' /\ IncomingApart' /\ IncomingStatus' /\ RestingStatus'
  BY <1>1 DEF Structure
<1>5. KeysMatch' /\ SweptEmpty'
  BY <1>1, <1>2, <1>3 DEF Structure, KeysMatch, SweptEmpty
<1>6. QueueSound'
  BY <1>1, <1>3, <1>4 DEF Structure, QueueSound, Placed
<1>7. QueueDistinct' /\ IncomingApart'
  BY <1>1, <1>2, <1>3 DEF Structure, QueueDistinct, IncomingApart
<1>8. OpenQueued'
  BY <1>1, <1>2, <1>3 DEF Structure, OpenQueued, Open
<1>9. IncomingStatus' /\ RestingStatus'
  BY <1>1, <1>2 DEF Structure, IncomingStatus, RestingStatus, Settled
<1>10. QED
  BY <1>5, <1>6, <1>7, <1>8, <1>9

\* Every step of a submission keeps the orders where they belong.
LEMMA MatchStepKeepsStructure ==
    ASSUME BookInv, Structure, MatchStep
    PROVE  Structure'
  BY FillStructure, StatusIncomingStructure, ChooseStructure, SkipCancelledStructure,
     LeaveLevelStructure, FinishSweepStructure DEF MatchStep

\* Outside a submission the structure is all the reader of the book relies on.
LEMMA StructureAtRest ==
    ASSUME BookInv, Structure
    PROVE  NoGhostLevel /\ BookHoldsOpenOrders
<1> SUFFICES ASSUME pc = "idle"
             PROVE  NoGhostLevel /\ BookHoldsOpenOrders
  BY DEF NoGhostLevel, BookHoldsOpenOrders
<1>1. ~ Midway /\ pc # "raised"
  BY DEF Midway, InLevel
<1>2. NoGhostLevel
  BY <1>1, HeldType DEF Structure, KeysMatch, NoGhostLevel
<1>3. \A i \in Id : Open(i) => i \in Held(orders[i].side, orders[i].price)
  BY <1>1 DEF Structure, OpenQueued
<1>4. \A s \in Side, p \in Price : IsInjective(queue[s][p])
  BY <1>1 DEF Structure, QueueDistinct
<1>5. ASSUME NEW s \in Side, NEW p \in Price, NEW i \in Held(s, p)
      PROVE  /\ orders[i].side = s /\ orders[i].price = p
             /\ Open(i) \/ orders[i].status = "CANCELLED"
  <2>1. i \in Id /\ Placed(i, s, p)
    BY <1>1, HeldType DEF Structure, QueueSound
  <2>2. orders[i].status \in OrderStatus \cup {"ABSENT"}
    BY <2>1 DEF BookInv, LobTypeOK, Order
  <2>3. QED
    BY <2>1, <2>2 DEF Placed, MayBeFilled, Open, Fillable, OrderStatus
<1>6. QED
  BY <1>2, <1>3, <1>4, <1>5 DEF BookHoldsOpenOrders

\* Where the orders are, in every reachable state of the sequential book.
THEOREM BookStructure == LobSpec => [](BookInv /\ Structure)
<1>1. LobInit => BookInv /\ Structure
  BY BookInvInit, StructureInit
<1>2. BookInv /\ BookInv' /\ Structure /\ [LobNext]_lobvars => Structure'
  <2> SUFFICES ASSUME BookInv, Structure, [LobNext]_lobvars
               PROVE  Structure'
    OBVIOUS
  <2>1. CASE SubmitNext
    BY <2>1, SubmitStructure DEF SubmitNext
  <2>2. CASE MatchStep
    BY <2>2, MatchStepKeepsStructure
  <2>3. ASSUME NEW i \in Id, CancelLob(i)
        PROVE  Structure'
    BY <2>3, CancelStructure DEF CancelLob, Cancelled
  <2>4. CASE UNCHANGED lobvars
    BY <2>4, BookAsItWas
  <2>5. QED
    BY <2>1, <2>2, <2>3, <2>4 DEF LobNext
<1>3. QED
  BY <1>1, <1>2, BookInvariant, PTL DEF LobSpec

\* ME-06: between submissions a price is a key exactly when orders are queued
\* there, for any orders (lob.py:109-110, 117-118, 142-143).
THEOREM NoGhostLevels == LobSpec => []NoGhostLevel
<1>1. BookInv /\ Structure => NoGhostLevel
  BY StructureAtRest
<1>2. QED
  BY <1>1, BookStructure, PTL

\* No order is lost, doubled or misplaced, and no FILLED order stays in a
\* deque, for any orders (lob.py:120-123, 153-162).
THEOREM OrdersHeld == LobSpec => []BookHoldsOpenOrders
<1>1. BookInv /\ Structure => BookHoldsOpenOrders
  BY StructureAtRest
<1>2. QED
  BY <1>1, BookStructure, PTL
=============================================================================
