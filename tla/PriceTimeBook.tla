--------------------------- MODULE PriceTimeBook ---------------------------
(***************************************************************************)
(* What a limit order book promises, with no price levels, deques or       *)
(* loops: a set of resting orders; an arriving order trades, one resting   *)
(* order at a time, with whichever has price-time priority, at that        *)
(* order's price; what is left of a LIMIT order rests, what is left of a   *)
(* MARKET order does not; a cancelled order never trades again.            *)
(* LimitOrderBook (engine/lob.py) is shown to implement this module.       *)
(***************************************************************************)
EXTENDS Integers

CONSTANTS Id,       \* order numbers, in the order the book receives them
          Price,    \* limit prices, in ticks
          Quantity  \* order quantities

NoOrder == 0
Side == {"BUY", "SELL"}
Opposite(s) == IF s = "BUY" THEN "SELL" ELSE "BUY"

VARIABLES arrived,  \* the orders received so far
          terms,    \* [Id -> side, type and limit price]
          left,     \* [Id -> quantity not traded yet]
          value,    \* [Id -> sum of price * quantity over the order's trades]
          resting,  \* the orders that can be traded with
          active    \* the order being matched, or NoOrder

pvars == <<arrived, terms, left, value, resting, active>>

Terms == [side : Side, type : {"LIMIT", "MARKET"}, price : Price \cup {0}]

Init ==
    /\ arrived = {}
    /\ terms = [i \in Id |-> [side |-> "BUY", type |-> "LIMIT", price |-> 0]]
    /\ left = [i \in Id |-> 0]
    /\ value = [i \in Id |-> 0]
    /\ resting = {}
    /\ active = NoOrder

\* Price first, then time of arrival.
Precedes(i, j) ==
    \/ terms[i].side = "SELL" /\ terms[i].price < terms[j].price
    \/ terms[i].side = "BUY" /\ terms[i].price > terms[j].price
    \/ terms[i].price = terms[j].price /\ i < j

Matches(a, r) ==
    /\ r \in resting
    /\ terms[r].side = Opposite(terms[a].side)
    /\ \/ terms[a].type = "MARKET"
       \/ terms[a].side = "BUY" /\ terms[a].price >= terms[r].price
       \/ terms[a].side = "SELL" /\ terms[a].price <= terms[r].price

Arrive(i, t, q) ==
    /\ active = NoOrder
    /\ \A j \in arrived : j < i
    /\ t.type = "LIMIT" <=> t.price > 0
    /\ arrived' = arrived \cup {i}
    /\ terms' = [terms EXCEPT ![i] = t]
    /\ left' = [left EXCEPT ![i] = q]
    /\ active' = i
    /\ UNCHANGED <<value, resting>>

Trade(r) ==
    /\ active # NoOrder
    /\ left[active] > 0
    /\ Matches(active, r)
    /\ \A o \in resting \ {r} : Matches(active, o) => Precedes(r, o)
    /\ LET q == IF left[r] < left[active] THEN left[r] ELSE left[active] IN
         /\ left' = [left EXCEPT ![r] = @ - q, ![active] = @ - q]
         /\ value' = [value EXCEPT ![r] = @ + q * terms[r].price,
                                   ![active] = @ + q * terms[r].price]
         /\ resting' = IF left[r] = q THEN resting \ {r} ELSE resting
    /\ UNCHANGED <<arrived, terms, active>>

Settle ==
    /\ active # NoOrder
    /\ left[active] > 0 => \A r \in resting : ~ Matches(active, r)
    /\ resting' = IF left[active] > 0 /\ terms[active].type = "LIMIT"
                    THEN resting \cup {active} ELSE resting
    /\ active' = NoOrder
    /\ UNCHANGED <<arrived, terms, left, value>>

Cancel(i) ==
    /\ active = NoOrder
    /\ resting' = resting \ {i}
    /\ UNCHANGED <<arrived, terms, left, value, active>>

Next ==
    \/ \E i \in Id, t \in Terms, q \in Quantity : Arrive(i, t, q)
    \/ \E r \in Id : Trade(r)
    \/ Settle
    \/ \E i \in Id : Cancel(i)

Spec == Init /\ [][Next]_pvars
=============================================================================
