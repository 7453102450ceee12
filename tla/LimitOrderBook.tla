--------------------------- MODULE LimitOrderBook ---------------------------
(***************************************************************************)
(* The limit order book of engine/lob.py, one step per statement that      *)
(* another thread could observe: the loop of _add_limit_order and          *)
(* _add_market_order over the price levels, the loop of _fill_from_level   *)
(* over one level, and the two halves of Order.apply_fill (the assertions  *)
(* with the quantities, then the status).  Run by one thread it is the     *)
(* sequential book of this module's LobSpec; MatchingEngine runs the same     *)
(* steps with the threads that cancel orders in between.                   *)
(*                                                                         *)
(* An order is its number in the sequence of submissions, so "arrived      *)
(* earlier" is "<".  The strings order_id and symbol are left out: a book  *)
(* has one symbol, and an id is submitted once.                            *)
(***************************************************************************)
EXTENDS Integers, SequencesExt

CONSTANTS MaxOrders,  \* bound: how many orders are submitted
          Price,      \* the limit prices in use, in ticks
          Quantity    \* the order quantities in use

ASSUME LobAssumption ==
    /\ MaxOrders \in Nat
    /\ Price \subseteq Nat \ {0}
    /\ Quantity \subseteq Nat \ {0}

Id == 1..MaxOrders
NoId == 0
NoPrice == 0
Side == {"BUY", "SELL"}
OrderType == {"LIMIT", "MARKET"}
OrderStatus == {"NEW", "PARTIAL", "FILLED", "CANCELLED"}
Fillable == {"NEW", "PARTIAL"}
Opposite(s) == IF s = "BUY" THEN "SELL" ELSE "BUY"

\* An entry of _order_map; the status "ABSENT" says there is none.
Order == [side : Side, type : OrderType, price : Price \cup {NoPrice},
          qty : Nat, leaves : Int, cum : Int, value : Int,
          status : OrderStatus \cup {"ABSENT"}]

Unsubmitted == [side |-> "BUY", type |-> "LIMIT", price |-> NoPrice, qty |-> 0,
                leaves |-> 0, cum |-> 0, value |-> 0, status |-> "ABSENT"]

NewOrder(s, t, p, q) ==
    [side |-> s, type |-> t, price |-> p, qty |-> q,
     leaves |-> q, cum |-> 0, value |-> 0, status |-> "NEW"]

Pc == {"idle", "sweep", "level", "fill_resting", "status_resting",
       "fill_incoming", "status_incoming", "raised"}

VARIABLES
    orders,  \* _order_map: [Id -> Order]
    keys,    \* the prices that are keys of _bids and _asks
    queue,   \* the deque of each price level: [Side -> [Price -> Seq(Id)]]
    pc,      \* where submit() is; "idle" when it is not running
    inc,     \* its incoming order
    lvl,     \* the price level it is filling from
    fq,      \* the fill_qty of the fill under way
    swept,   \* prices_to_prune of _add_market_order
    fills    \* the fills it has collected: <<resting, qty, price>>

bookvars == <<keys, queue>>
matchvars == <<inc, lvl, fq, swept, fills>>
lobvars == <<orders, keys, queue, pc, inc, lvl, fq, swept, fills>>

LobInit ==
    /\ orders = [i \in Id |-> Unsubmitted]
    /\ keys = [s \in Side |-> {}]
    /\ queue = [s \in Side |-> [p \in Price |-> <<>>]]
    /\ pc = "idle"
    /\ inc = NoId
    /\ lvl = NoPrice
    /\ fq = 0
    /\ swept = {}
    /\ fills = <<>>

-----------------------------------------------------------------------------
Far == Opposite(orders[inc].side)   \* the side the incoming order sweeps
Resting == Head(queue[Far][lvl])    \* resting = level[0]
Level == queue[Far][lvl]

\* The levels the sweep has not been through.
Ahead == keys[Far] \ swept

IsBestMutant(p) == \A k \in Ahead : p <= k

\* peekitem(0): _asks ascends, _bids descends.
IsBest(p) ==
    /\ p \in Ahead
    /\ \A k \in Ahead : IF Far = "SELL" THEN p <= k ELSE p >= k

CrossesMutant(p) ==
    \/ orders[inc].type = "MARKET"
    \/ orders[inc].side = "BUY" /\ orders[inc].price > p
    \/ orders[inc].side = "SELL" /\ orders[inc].price < p

CrossesSellMutant(p) == orders[inc].type = "MARKET" \/ orders[inc].price >= p

\* The negation of the break in _add_limit_order; a MARKET order has none.
Crosses(p) ==
    \/ orders[inc].type = "MARKET"
    \/ orders[inc].side = "BUY" /\ orders[inc].price >= p
    \/ orders[inc].side = "SELL" /\ orders[inc].price <= p

\* submit: the order enters _order_map before anything is matched.
Submit(i, s, t, p, q) ==
    /\ pc = "idle"
    /\ orders[i].status = "ABSENT"
    /\ t = "LIMIT" <=> p > 0
    /\ orders' = [orders EXCEPT ![i] = NewOrder(s, t, p, q)]
    /\ inc' = i
    /\ fills' = <<>>
    /\ pc' = "sweep"
    /\ UNCHANGED <<keys, queue, lvl, fq, swept>>

\* The head of either sweep loop, entering the best level it can trade with.
NextLevel ==
    /\ pc = "sweep"
    /\ orders[inc].leaves > 0
    /\ \E p \in Ahead : IsBest(p) /\ Crosses(p) /\ lvl' = p
    /\ pc' = "level"
    /\ UNCHANGED <<orders, keys, queue, inc, fq, swept, fills>>

RestsMutant == orders[inc].type = "LIMIT"
RestsMarketMutant == orders[inc].leaves > 0 /\ orders[inc].status # "CANCELLED"

\* The remainder of a LIMIT order rests unless it is cancelled by then.
Rests ==
    /\ orders[inc].type = "LIMIT"
    /\ orders[inc].leaves > 0
    /\ orders[inc].status # "CANCELLED"

PrunedMutant(s) == keys[s]

\* The keys of side s once _add_market_order has deleted prices_to_prune.
Pruned(s) == IF s = Far THEN keys[s] \ swept ELSE keys[s]

\* The sweep is over: prune, rest what is left, return the fills.
FinishSweep ==
    /\ pc = "sweep"
    /\ \/ orders[inc].leaves <= 0
       \/ Ahead = {}
       \/ \E p \in Ahead : IsBest(p) /\ ~ Crosses(p)
    /\ LET s == orders[inc].side
           p == orders[inc].price
       IN IF Rests
            THEN /\ keys' = [k \in Side |->
                        IF k = s THEN Pruned(k) \cup {p} ELSE Pruned(k)]
                 /\ queue' = [queue EXCEPT ![s][p] = Append(@, inc)]
            ELSE /\ keys' = [k \in Side |-> Pruned(k)]
                 /\ queue' = queue
    /\ swept' = {}
    /\ lvl' = NoPrice
    /\ fq' = 0
    /\ pc' = "idle"
    /\ UNCHANGED <<orders, inc, fills>>

-----------------------------------------------------------------------------
SkipCancelledMutant ==
    /\ pc = "level"
    /\ Level # <<>>
    /\ orders[inc].leaves > 0
    /\ orders[Resting].status = "CANCELLED"
    /\ UNCHANGED lobvars

\* _fill_from_level: a cancelled order at the head is dropped (lazy cancel).
SkipCancelled ==
    /\ pc = "level"
    /\ Level # <<>>
    /\ orders[inc].leaves > 0
    /\ orders[Resting].status = "CANCELLED"
    /\ queue' = [queue EXCEPT ![Far][lvl] = Tail(@)]
    /\ UNCHANGED <<orders, keys, pc, matchvars>>

TakeHeadMutant ==
    /\ pc = "level"
    /\ Level # <<>>
    /\ orders[inc].leaves > 0
    /\ fq' = IF orders[Resting].leaves < orders[inc].leaves
               THEN orders[Resting].leaves ELSE orders[inc].leaves
    /\ pc' = "fill_resting"
    /\ UNCHANGED <<orders, keys, queue, inc, lvl, swept, fills>>

\* The head can be filled: fill_qty = min(resting.leaves, incoming.leaves).
TakeHead ==
    /\ pc = "level"
    /\ Level # <<>>
    /\ orders[inc].leaves > 0
    /\ orders[Resting].status # "CANCELLED"
    /\ fq' = IF orders[Resting].leaves < orders[inc].leaves
               THEN orders[Resting].leaves ELSE orders[inc].leaves
    /\ pc' = "fill_resting"
    /\ UNCHANGED <<orders, keys, queue, inc, lvl, swept, fills>>

\* The level is exhausted, or the incoming order is: back to the sweep, which
\* deletes an empty level now (LIMIT) or notes it for later (MARKET).
LeaveLevel ==
    /\ pc = "level"
    /\ Level = <<>> \/ orders[inc].leaves <= 0
    /\ IF Level = <<>> /\ orders[inc].type = "LIMIT"
         THEN keys' = [keys EXCEPT ![Far] = @ \ {lvl}]
         ELSE keys' = keys
    /\ IF Level = <<>> /\ orders[inc].type = "MARKET"
         THEN swept' = swept \cup {lvl}
         ELSE swept' = swept
    /\ pc' = "sweep"
    /\ UNCHANGED <<orders, queue, inc, lvl, fq, fills>>

-----------------------------------------------------------------------------
\* The two asserts of Order.apply_fill.
CanFill(i) == /\ orders[i].status \in Fillable
              /\ 0 < fq /\ fq <= orders[i].leaves

FilledMutant(o) == [o EXCEPT !.leaves = @ - fq, !.value = @ + fq * lvl]

Filled(o) == [o EXCEPT !.leaves = @ - fq, !.cum = @ + fq, !.value = @ + fq * lvl]

StatusMutant(o) == "PARTIAL"

StatusAfter(o) == IF o.leaves = 0 THEN "FILLED" ELSE "PARTIAL"

\* apply_fill up to the quantities; a failed assertion leaves submit().
ApplyFill(i, here, next) ==
    /\ pc = here
    /\ IF CanFill(i)
         THEN /\ orders' = [orders EXCEPT ![i] = Filled(@)]
              /\ pc' = next
         ELSE /\ orders' = orders
              /\ pc' = "raised"
    /\ UNCHANGED <<keys, queue, inc, lvl, fq, swept, fills>>

FillResting == ApplyFill(Resting, "fill_resting", "status_resting")
FillIncoming == ApplyFill(inc, "fill_incoming", "status_incoming")

StatusResting ==
    /\ pc = "status_resting"
    /\ orders' = [orders EXCEPT ![Resting].status = StatusAfter(orders[Resting])]
    /\ pc' = "fill_incoming"
    /\ UNCHANGED <<keys, queue, inc, lvl, fq, swept, fills>>

\* The last status, the entry in fills, and popleft of a filled head.
StatusIncoming ==
    /\ pc = "status_incoming"
    /\ orders' = [orders EXCEPT ![inc].status = StatusAfter(orders[inc])]
    /\ fills' = Append(fills, <<Resting, fq, lvl>>)
    /\ queue' = IF orders[Resting].leaves = 0
                  THEN [queue EXCEPT ![Far][lvl] = Tail(@)] ELSE queue
    /\ pc' = "level"
    /\ UNCHANGED <<keys, inc, lvl, fq, swept>>

MatchStep ==
    \/ NextLevel \/ FinishSweep \/ SkipCancelled \/ TakeHead \/ LeaveLevel
    \/ FillResting \/ StatusResting \/ FillIncoming \/ StatusIncoming

\* What apply_cancel writes, past its assertion.
Cancelled(i) == [orders EXCEPT ![i].status = "CANCELLED"]

CancelLobMutant(i) ==
    /\ pc = "idle"
    /\ orders[i].status # "ABSENT"
    /\ orders' = [orders EXCEPT ![i].status = "CANCELLED"]
    /\ UNCHANGED <<keys, queue, pc, matchvars>>

\* cancel between submissions; the order stays in its level.  On an order that
\* was never submitted it does nothing, and on one that is FILLED or CANCELLED the
\* assertion of apply_cancel raises in the caller and leaves the book as it is.
CancelLob(i) ==
    /\ pc = "idle"
    /\ orders[i].status \in Fillable
    /\ orders' = Cancelled(i)
    /\ UNCHANGED <<keys, queue, pc, matchvars>>

SubmitNext == \E i \in Id, s \in Side, t \in OrderType,
                 p \in Price \cup {NoPrice}, q \in Quantity :
                 /\ \A j \in Id : j < i <=> orders[j].status # "ABSENT"
                 /\ Submit(i, s, t, p, q)

LobNext == SubmitNext \/ MatchStep \/ \E i \in Id : CancelLob(i)

LobSpec == LobInit /\ [][LobNext]_lobvars

-----------------------------------------------------------------------------
LobTypeOK ==
    /\ orders \in [Id -> Order]
    /\ keys \in [Side -> SUBSET Price]
    /\ queue \in [Side -> [Price -> Seq(Id)]]
    /\ pc \in Pc
    /\ inc \in Id \cup {NoId}
    /\ lvl \in Price \cup {NoPrice}
    /\ fq \in Int
    /\ swept \subseteq Price
    /\ fills \in Seq(Id \X Int \X Price)

\* The book is never crossed nor locked: at every step of a submission, and
\* counting levels that hold cancelled orders only, every bid is below every
\* ask.  (best_bid, best_ask and spread, lob.py:84-93, rely on it.)
NotCrossed == \A b \in keys["BUY"], a \in keys["SELL"] : b < a

\* ME-06, ghost levels: between submissions a price is a key of _bids or
\* _asks exactly when its deque holds an order (lob.py:109-110, 117-118, 142-143).
NoGhostLevel ==
    pc = "idle" => \A s \in Side, p \in Price :
                      p \in keys[s] <=> queue[s][p] # <<>>

Held(s, p) == Range(queue[s][p])
Open(i) == orders[i].status \in Fillable /\ orders[i].type = "LIMIT"

\* No order is lost or doubled: between submissions an open LIMIT order is in
\* the deque of its own side and price, once, and whatever else a deque holds
\* is a cancelled order waiting to be skipped (lob.py:120-123, 153-162).
BookHoldsOpenOrders ==
    pc = "idle" =>
        /\ \A i \in Id : Open(i) => i \in Held(orders[i].side, orders[i].price)
        /\ \A s \in Side, p \in Price :
              /\ IsInjective(queue[s][p])
              /\ \A i \in Held(s, p) :
                    /\ orders[i].side = s /\ orders[i].price = p
                    /\ Open(i) \/ orders[i].status = "CANCELLED"

On(side) == {i \in Id : orders[i].side = side}
Cum(side) == SumFunction([i \in On(side) |-> orders[i].cum])
Value(side) == SumFunction([i \in On(side) |-> orders[i].value])

\* Every share bought is a share sold for the same money, and no order trades
\* more than its quantity: between fills the two apply_fill calls of each fill
\* (lob.py:158-159) agree.
TradesBalance ==
    pc \in {"idle", "sweep", "level"} =>
        /\ Cum("BUY") = Cum("SELL")
        /\ Value("BUY") = Value("SELL")
        /\ \A i \in Id : /\ orders[i].leaves + orders[i].cum = orders[i].qty
                         /\ orders[i].leaves >= 0

\* The status says what the quantities say: FILLED is nothing left, PARTIAL
\* something traded and something left, NEW nothing traded (lob.py:41).
StatusAgrees ==
    pc \in {"idle", "sweep", "level"} => \A i \in Id : LET o == orders[i] IN
        /\ o.status = "FILLED" <=> o.leaves = 0 /\ o.qty > 0
        /\ o.status = "PARTIAL" => o.cum > 0
        /\ o.status = "NEW" => o.cum = 0

\* A LIMIT order never pays more, or receives less, than its limit: avg_px
\* (lob.py:50-51) is on the right side of the price whatever it swept.
LimitRespected ==
    \A i \in Id : orders[i].type = "LIMIT" =>
        IF orders[i].side = "BUY"
          THEN orders[i].value <= orders[i].price * orders[i].cum
          ELSE orders[i].value >= orders[i].price * orders[i].cum

\* With one thread the assertions of apply_fill (lob.py:32-37) never fail.
NeverRaises == pc # "raised"

\* ME-04: an order that is FILLED or CANCELLED never changes again, so a
\* cancelled order left in its level is skipped and never filled.
TerminalIsFinal ==
    [][\A i \in Id : orders[i].status \in {"FILLED", "CANCELLED"} =>
           orders'[i] = orders[i]]_lobvars

\* Quantity and value of an order as of the last completed fill: a fill that
\* apply_fill has entered for one of its orders only does not count yet.
Unfinished(i) ==
    \/ pc \in {"status_resting", "fill_incoming", "status_incoming"} /\ i = Resting
    \/ pc = "status_incoming" /\ i = inc

\* The book that the levels and deques stand for: LeftOver and Worth take a fill
\* for done when both of its orders have it, and InBook leaves out the cancelled
\* orders that a level still holds.
Arrived == {i \in Id : orders[i].status # "ABSENT"}
Terms == [i \in Id |-> [side |-> orders[i].side, type |-> orders[i].type,
                       price |-> orders[i].price]]
LeftOver == [i \in Id |-> orders[i].leaves + IF Unfinished(i) THEN fq ELSE 0]
Worth == [i \in Id |-> orders[i].value - IF Unfinished(i) THEN fq * lvl ELSE 0]
InBook == {i \in UNION {Held(s, p) : s \in Side, p \in Price} : orders[i].status # "CANCELLED"}
Active == IF pc = "idle" THEN NoId ELSE inc

Implemented == INSTANCE PriceTimeBook WITH
    arrived <- Arrived, terms <- Terms, left <- LeftOver, value <- Worth,
    resting <- InBook, active <- Active

\* The levels, deques, lazy cancels and sweep loops trade exactly as a book
\* with price-time priority does (ME-01, ME-02, ME-05, ME-10).
ImplementsPriceTimeBook == Implemented!Spec
=============================================================================
