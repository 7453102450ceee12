---------------------------- MODULE RiskFilters ----------------------------
(***************************************************************************)
(* The four filters of engine/risk_gateway.py as operators on values: the  *)
(* notional of an order, the position it would lead to, and the token      *)
(* bucket of its strategy.  Tokens are counted in 1/Unit of a token and    *)
(* time in ticks, Rate of those units per tick, so that the float          *)
(* arithmetic of check_rate_limit becomes exact arithmetic on integers.    *)
(***************************************************************************)
EXTENDS Integers

CONSTANTS MaxNotional,    \* fat_finger_max_notional
          PositionLimit,  \* position_limit
          Rate,           \* rate_limit_per_s, in units of a token per tick
          Capacity,       \* token_bucket_capacity, in tokens
          Unit            \* units in a token

ASSUME FilterAssumption ==
    /\ MaxNotional \in Nat /\ PositionLimit \in Nat
    /\ Rate \in Nat /\ Capacity \in Nat /\ Unit \in Nat \ {0}

\* check_fat_finger
FatFingerOk(price, qty) == price * qty <= MaxNotional

Signed(side, qty) == IF side = "BUY" THEN qty ELSE -qty

\* check_position_limit, given the position booked so far.
PositionOk(side, qty, current) ==
    LET next == current + Signed(side, qty)
    IN -PositionLimit <= next /\ next <= PositionLimit

\* A bucket of the dict, or none before the strategy's first order.
Bucket == [tokens : Nat, last : Nat]
NoBucket == [tokens |-> 0, last |-> -1]

\* A new bucket is full.
Opened(b, now) ==
    IF b = NoBucket THEN [tokens |-> Capacity * Unit, last |-> now] ELSE b

RefillMutant(b, now) == b.tokens + (now - b.last) * Rate

\* The tokens of bucket b at time now.
Refill(b, now) ==
    LET grown == b.tokens + (now - b.last) * Rate
    IN IF grown < Capacity * Unit THEN grown ELSE Capacity * Unit

\* Is there a token, and the bucket once it is asked for one?
HasToken(b, now) == Refill(Opened(b, now), now) >= Unit

SpentMutant(b, now) ==
    [tokens |-> Refill(Opened(b, now), now) - Unit, last |-> now]

SpentForgetsMutant(b, now) ==
    [tokens |-> IF HasToken(b, now) THEN Refill(Opened(b, now), now) - Unit ELSE Opened(b, now).tokens,
     last |-> now]

Spent(b, now) ==
    LET tokens == Refill(Opened(b, now), now)
    IN [tokens |-> IF tokens >= Unit THEN tokens - Unit ELSE tokens, last |-> now]
=============================================================================
