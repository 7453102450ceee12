-------------------------- MODULE BookTradesProofs --------------------------
(***************************************************************************)
(* What the book trades: every share bought is a share sold for the same   *)
(* money, no order trades beyond its quantity or its limit, the status of  *)
(* an order says what its quantities say, and the orders trade in the      *)
(* priority of price and time: the book implements PriceTimeBook.          *)
(***************************************************************************)
EXTENDS LimitOrderBookProofs

(***************************************************************************)
(* What is traded.  Between the two apply_fill calls of a fill the order   *)
(* in the level is a fill ahead of the incoming one; Accounts says so, and *)
(* that the level under way is inside the limit of the incoming order.     *)
(***************************************************************************)
HalfFilled == {"status_resting", "fill_incoming"}

Conserved ==
    \A i \in Id :
        /\ orders[i].leaves + orders[i].cum = orders[i].qty
        /\ orders[i].leaves >= 0 /\ orders[i].cum >= 0
        /\ orders[i].status = "ABSENT" => orders[i] = Unsubmitted

Balanced ==
    \A s, t \in Side :
        /\ pc \in HalfFilled /\ s = Far /\ t # Far =>
              Cum(s) = Cum(t) + fq /\ Value(s) = Value(t) + fq * lvl
        /\ pc \notin HalfFilled \cup {"raised"} => Cum(s) = Cum(t) /\ Value(s) = Value(t)

WithinLimit(o) ==
    o.type = "LIMIT" =>
        IF o.side = "BUY" THEN o.value <= o.price * o.cum ELSE o.value >= o.price * o.cum

AtLimit(o) ==
    o.type = "LIMIT" => IF o.side = "BUY" THEN lvl <= o.price ELSE lvl >= o.price

InsideLimit == pc \in InLevel => AtLimit(orders[inc])

Accounts == Conserved /\ Balanced /\ InsideLimit /\ \A i \in Id : WithinLimit(orders[i])

\* Cum and Value add up numbers, of finitely many orders.
SumsDefined ==
    \A s \in Side :
        /\ IsFiniteSet(On(s)) /\ On(s) \subseteq Id
        /\ Cum(s) = SumFunctionOnSet([i \in On(s) |-> orders[i].cum], On(s))
        /\ Value(s) = SumFunctionOnSet([i \in On(s) |-> orders[i].value], On(s))
        /\ Cum(s) \in Int /\ Value(s) \in Int

LEMMA SumsType == BookInv => SumsDefined
<1> SUFFICES ASSUME BookInv, NEW s \in Side
             PROVE  /\ IsFiniteSet(On(s)) /\ On(s) \subseteq Id
                    /\ Cum(s) = SumFunctionOnSet([i \in On(s) |-> orders[i].cum], On(s))
                    /\ Value(s) = SumFunctionOnSet([i \in On(s) |-> orders[i].value], On(s))
                    /\ Cum(s) \in Int /\ Value(s) \in Int
  BY DEF SumsDefined
<1>1. IsFiniteSet(Id) /\ On(s) \subseteq Id
  BY LobAssumption, CountUpTo DEF Id, On
<1>2. IsFiniteSet(On(s))
  BY <1>1, FS_Subset
<1>3. \A i \in On(s) : orders[i].cum \in Int /\ orders[i].value \in Int
  BY <1>1 DEF BookInv, LobTypeOK, Order
<1> DEFINE c == [i \in On(s) |-> orders[i].cum]
           v == [i \in On(s) |-> orders[i].value]
<1>4. /\ DOMAIN c = On(s) /\ DOMAIN v = On(s)
      /\ \A i \in On(s) : c[i] \in Int /\ v[i] \in Int
  BY <1>3
<1>5. Cum(s) = SumFunctionOnSet(c, On(s)) /\ Value(s) = SumFunctionOnSet(v, On(s))
  BY <1>4 DEF Cum, Value, SumFunction
<1> HIDE DEF c, v
<1>6. SumFunctionOnSet(c, On(s)) \in Int /\ SumFunctionOnSet(v, On(s)) \in Int
  BY <1>2, <1>4, SumBase
<1>7. QED
  BY <1>1, <1>2, <1>5, <1>6 DEF c, v

\* Order i trades q shares more for money; sides, quantities and prices stay.
Trades(i, q, money) ==
    \A j \in Id :
        /\ orders'[j].side = orders[j].side
        /\ orders'[j].cum = orders[j].cum + IF j = i THEN q ELSE 0
        /\ orders'[j].value = orders[j].value + IF j = i THEN money ELSE 0

\* What a fill of one order adds to its side (lob.py:39, 49).
LEMMA FilledSums ==
    ASSUME BookInv, BookInv', NEW i \in Id, NEW q \in Int, NEW money \in Int,
           Trades(i, q, money), NEW s \in Side
    PROVE  /\ Cum(s)' = Cum(s) + IF orders[i].side = s THEN q ELSE 0
           /\ Value(s)' = Value(s) + IF orders[i].side = s THEN money ELSE 0
<1> DEFINE T == On(s)
           c == [j \in T |-> orders[j].cum]
           v == [j \in T |-> orders[j].value]
           d == [j \in T |-> orders'[j].cum]
           w == [j \in T |-> orders'[j].value]
<1>1. On(s)' = T
  BY DEF On, Trades
<1>2. /\ IsFiniteSet(T) /\ T \subseteq Id
      /\ Cum(s) = SumFunctionOnSet(c, T) /\ Value(s) = SumFunctionOnSet(v, T)
  BY SumsType DEF SumsDefined
<1>3. SumsDefined'
  BY SumsType, PTL
<1>4. Cum(s)' = SumFunctionOnSet(d, T) /\ Value(s)' = SumFunctionOnSet(w, T)
  BY <1>1, <1>3 DEF SumsDefined
<1>5. \A j \in T : c[j] \in Int /\ d[j] = c[j] + IF j = i THEN q ELSE 0
  BY <1>2 DEF BookInv, LobTypeOK, Order, Trades
<1>6. \A j \in T : v[j] \in Int /\ w[j] = v[j] + IF j = i THEN money ELSE 0
  BY <1>2 DEF BookInv, LobTypeOK, Order, Trades
<1>7. i \in T <=> orders[i].side = s
  BY DEF On
<1> HIDE DEF T, c, v, d, w
<1>8. IsFiniteSet(T) /\ q \in Int /\ money \in Int
  BY <1>2
<1>9. /\ SumFunctionOnSet(c, T) \in Int
      /\ SumFunctionOnSet(d, T) = SumFunctionOnSet(c, T) + IF i \in T THEN q ELSE 0
  BY <1>5, <1>8, SumStep
<1>10. /\ SumFunctionOnSet(v, T) \in Int
      /\ SumFunctionOnSet(w, T) = SumFunctionOnSet(v, T) + IF i \in T THEN money ELSE 0
  BY <1>6, <1>8, SumStep
<1>11. QED
  BY <1>2, <1>4, <1>7, <1>9, <1>10

\* A step that trades nothing leaves the sums alone, also one that gives an
\* order that has traded nothing another side (a submission).
LEMMA SameSums ==
    ASSUME BookInv, BookInv', NEW i,
           \A j \in Id : /\ orders'[j].cum = orders[j].cum
                         /\ orders'[j].value = orders[j].value
                         /\ j # i => orders'[j].side = orders[j].side,
           \/ i \in Id => orders'[i].side = orders[i].side
           \/ i \in Id /\ orders[i].cum = 0 /\ orders[i].value = 0,
           NEW s \in Side
    PROVE  Cum(s)' = Cum(s) /\ Value(s)' = Value(s)
<1> DEFINE T == On(s)
           U == {j \in Id : orders'[j].side = s}
           c == [j \in T |-> orders[j].cum]
           v == [j \in T |-> orders[j].value]
           d == [j \in U |-> orders'[j].cum]
           w == [j \in U |-> orders'[j].value]
<1>1. /\ IsFiniteSet(T) /\ T \subseteq Id
      /\ Cum(s) = SumFunctionOnSet(c, T) /\ Value(s) = SumFunctionOnSet(v, T)
  BY SumsType DEF SumsDefined
<1>2. SumsDefined'
  BY SumsType, PTL
<1>3. /\ IsFiniteSet(U) /\ U \subseteq Id
      /\ Cum(s)' = SumFunctionOnSet(d, U) /\ Value(s)' = SumFunctionOnSet(w, U)
  BY <1>2 DEF SumsDefined, On
<1>4. T \ {i} = U \ {i}
  BY DEF On
<1>5. /\ \A j \in T : c[j] \in Int /\ v[j] \in Int
      /\ \A j \in U : d[j] \in Int /\ w[j] \in Int
      /\ \A j \in T \cap U : d[j] = c[j] /\ w[j] = v[j]
  BY <1>1, <1>3 DEF BookInv, LobTypeOK, Order
<1>6. \/ T = U
      \/ /\ i \in T => c[i] = 0 /\ v[i] = 0
         /\ i \in U => d[i] = 0 /\ w[i] = 0
  BY DEF On
<1> HIDE DEF T, U, c, v, d, w
<1>7. IsFiniteSet(T \ {i}) /\ IsFiniteSet(U \ {i})
  BY <1>1, <1>3, FS_Subset
<1>8. CASE T = U
  <2>1. \A j \in T : c[j] \in Int /\ d[j] = c[j]
    BY <1>5, <1>8
  <2>2. \A j \in T : v[j] \in Int /\ w[j] = v[j]
    BY <1>5, <1>8
  <2>3. SumFunctionOnSet(d, T) = SumFunctionOnSet(c, T)
    BY <1>1, <2>1, SumAgree
  <2>4. SumFunctionOnSet(w, T) = SumFunctionOnSet(v, T)
    BY <1>1, <2>2, SumAgree
  <2>5. QED
    BY <1>1, <1>3, <1>8, <2>3, <2>4
<1>9. CASE T # U
  <2>1. ASSUME NEW S, IsFiniteSet(S), NEW f, \A j \in S : f[j] \in Int, i \in S => f[i] = 0
        PROVE  SumFunctionOnSet(f, S) = SumFunctionOnSet(f, S \ {i})
    <3>1. CASE i \in S
      <4>1. SumFunctionOnSet(f, S) = f[i] + SumFunctionOnSet(f, S \ {i})
        BY <2>1, <3>1, SumRemove
      <4>2. IsFiniteSet(S \ {i}) /\ \A j \in S \ {i} : f[j] \in Int
        BY <2>1, FS_Subset
      <4>3. SumFunctionOnSet(f, S \ {i}) \in Int
        BY <4>2, SumBase
      <4>4. QED
        BY <2>1, <3>1, <4>1, <4>3
    <3>2. CASE i \notin S
      BY <3>2
    <3>3. QED
      BY <3>1, <3>2
  <2>2. /\ SumFunctionOnSet(c, T) = SumFunctionOnSet(c, T \ {i})
        /\ SumFunctionOnSet(v, T) = SumFunctionOnSet(v, T \ {i})
        /\ SumFunctionOnSet(d, U) = SumFunctionOnSet(d, U \ {i})
        /\ SumFunctionOnSet(w, U) = SumFunctionOnSet(w, U \ {i})
    BY <1>1, <1>3, <1>5, <1>6, <1>9, <2>1
  <2>3. \A j \in T \ {i} : c[j] \in Int /\ d[j] = c[j]
    BY <1>4, <1>5
  <2>4. \A j \in T \ {i} : v[j] \in Int /\ w[j] = v[j]
    BY <1>4, <1>5
  <2>5. SumFunctionOnSet(d, T \ {i}) = SumFunctionOnSet(c, T \ {i})
    BY <1>7, <2>3, SumAgree
  <2>6. SumFunctionOnSet(w, T \ {i}) = SumFunctionOnSet(v, T \ {i})
    BY <1>7, <2>4, SumAgree
  <2>7. QED
    BY <1>1, <1>3, <1>4, <2>2, <2>5, <2>6
<1>10. QED
  BY <1>8, <1>9

\* A step that changes no quantity, between fills or inside one, keeps Accounts.
LEMMA NothingTraded ==
    ASSUME BookInv, BookInv', Accounts,
           \A j \in Id : /\ orders'[j] = [orders[j] EXCEPT !.status = orders'[j].status]
                         /\ orders[j].status = "ABSENT" \/ orders'[j].status # "ABSENT"
                         /\ orders[j].status = "ABSENT" /\ orders'[j].status = "ABSENT" =>
                               orders'[j] = orders[j],
           pc' \in HalfFilled => pc \in HalfFilled /\ UNCHANGED <<inc, fq, lvl>>,
           pc' \notin HalfFilled \cup {"raised"} => pc \notin HalfFilled \cup {"raised"},
           InsideLimit'
    PROVE  Accounts'
<1>1. \A j \in Id :
         /\ orders'[j].side = orders[j].side /\ orders'[j].type = orders[j].type
         /\ orders'[j].price = orders[j].price /\ orders'[j].qty = orders[j].qty
         /\ orders'[j].leaves = orders[j].leaves /\ orders'[j].cum = orders[j].cum
         /\ orders'[j].value = orders[j].value
  BY DEF BookInv, LobTypeOK, Order
<1>2. Conserved' /\ \A i \in Id : WithinLimit(orders'[i])
  BY <1>1 DEF Accounts, Conserved, WithinLimit
<1>3. \A s \in Side : Cum(s)' = Cum(s) /\ Value(s)' = Value(s)
  BY <1>1, SameSums
<1>4. ASSUME NEW s \in Side, NEW t \in Side
      PROVE  /\ pc' \in HalfFilled /\ s = Far' /\ t # Far' =>
                   Cum(s)' = Cum(t)' + fq' /\ Value(s)' = Value(t)' + fq' * lvl'
             /\ pc' \notin HalfFilled \cup {"raised"} =>
                   Cum(s)' = Cum(t)' /\ Value(s)' = Value(t)'
  <2>1. CASE pc' \in HalfFilled
    <3>1. Midway /\ pc \in HalfFilled /\ UNCHANGED <<inc, fq, lvl>>
      BY <2>1 DEF Midway, HalfFilled, InLevel
    <3>2. Far' = Far
      BY <1>1, <3>1, InSweep DEF Far
    <3>3. QED
      BY <1>3, <2>1, <3>1, <3>2 DEF Accounts, Balanced
  <2>2. CASE pc' \notin HalfFilled
    BY <1>3, <2>2 DEF Accounts, Balanced
  <2>3. QED
    BY <2>1, <2>2
<1>5. Balanced'
  BY <1>4 DEF Balanced
<1>6. QED
  BY <1>2, <1>5 DEF Accounts, WithinLimit

\* Shares traded at a price no worse than the limit keep the average there.
LEMMA MoneyWithin ==
    ASSUME NEW q \in Nat, NEW cum \in Int, NEW value \in Int,
           NEW limit \in Int, NEW at \in Int
    PROVE  /\ q * at \in Int /\ limit * cum \in Int
           /\ at <= limit /\ value <= limit * cum => value + q * at <= limit * (cum + q)
           /\ at >= limit /\ value >= limit * cum => value + q * at >= limit * (cum + q)
<1>1. /\ limit * (cum + q) = limit * cum + limit * q /\ q * at = at * q
      /\ limit * cum \in Int /\ limit * q \in Int /\ at * q \in Int
  OBVIOUS
<1>2. at <= limit => at * q <= limit * q
  OBVIOUS
<1>3. at >= limit => at * q >= limit * q
  OBVIOUS
<1>4. QED
  BY <1>1, <1>2, <1>3

LEMMA FilledWithin ==
    ASSUME NEW o \in Order, WithinLimit(o), fq \in Nat, lvl \in Int,
           AtLimit(o)
    PROVE  WithinLimit(Filled(o))
<1> DEFINE money == fq * lvl
<1>1. Filled(o) = [o EXCEPT !.leaves = @ - fq, !.cum = @ + fq, !.value = @ + money]
  BY DEF Filled
<1> HIDE DEF money
<1>2. o.price \in Int /\ o.cum \in Int /\ o.value \in Int
  <2>1. o.price \in Price \cup {0} /\ o.cum \in Int /\ o.value \in Int
    BY DEF Order, NoPrice
  <2>2. Price \cup {0} \subseteq Int
    BY LobAssumption
  <2>3. QED
    BY <2>1, <2>2
<1>3. /\ lvl <= o.price /\ o.value <= o.price * o.cum =>
            o.value + money <= o.price * (o.cum + fq)
      /\ lvl >= o.price /\ o.value >= o.price * o.cum =>
            o.value + money >= o.price * (o.cum + fq)
  BY <1>2, MoneyWithin DEF money
<1>4. /\ Filled(o).type = o.type /\ Filled(o).side = o.side /\ Filled(o).price = o.price
      /\ Filled(o).cum = o.cum + fq /\ Filled(o).value = o.value + money
  BY <1>1 DEF Order
<1>5. QED
  BY <1>3, <1>4 DEF WithinLimit, AtLimit

\* The two halves of a fill: the resting order trades first, and the incoming
\* one as much at the same price, if the assertions hold (lob.py:158-159).
LEMMA FillAccounts ==
    ASSUME BookInv, BookInv', Structure, Accounts, FillResting \/ FillIncoming
    PROVE  Accounts'
<1> DEFINE money == fq * lvl
<1>1. /\ pc \in InFill /\ pc \in InLevel /\ Midway /\ inc \in Id /\ Resting \in Id
      /\ Resting # inc /\ lvl \in Price /\ Far \in Side /\ orders[inc].side # Far
      /\ Placed(Resting, Far, lvl) /\ orders \in [Id -> Order]
  <2>1. pc \in InFill /\ pc \in InLevel /\ Midway
    BY DEF FillResting, FillIncoming, ApplyFill, InFill, InLevel, Midway
  <2>2. QED
    BY <2>1, InSweep, HeadHeld
<1>2. /\ fq \in Int /\ lvl \in Int /\ money \in Int
  BY <1>1, LobAssumption DEF BookInv, LobTypeOK
<1>3. UNCHANGED <<keys, queue, inc, lvl, fq>>
  BY DEF FillResting, FillIncoming, ApplyFill
<1>4. ASSUME NEW i \in Id, CanFill(i), orders' = [orders EXCEPT ![i] = Filled(orders[i])],
             AtLimit(orders[i])
      PROVE  /\ Conserved' /\ \A j \in Id : WithinLimit(orders'[j])
             /\ \A s \in Side :
                  /\ Cum(s)' = Cum(s) + IF orders[i].side = s THEN fq ELSE 0
                  /\ Value(s)' = Value(s) + IF orders[i].side = s THEN money ELSE 0
             /\ InsideLimit' \/ pc' = "raised" \/ pc' \notin InLevel
             /\ Far' = Far
  <2>1. fq \in Nat /\ fq > 0 /\ fq <= orders[i].leaves /\ orders[i].status \in Fillable
    BY <1>2, <1>4 DEF CanFill
  <2>2. Filled(orders[i]) = [orders[i] EXCEPT !.leaves = @ - fq, !.cum = @ + fq,
                                              !.value = @ + money]
    BY DEF Filled
  <2>3. /\ orders[i] \in Order /\ orders'[i] = Filled(orders[i])
        /\ \A j \in Id : j # i => orders'[j] = orders[j]
    BY <1>1, <1>4
  <2> HIDE DEF money
  <2>4. /\ orders'[i].side = orders[i].side /\ orders'[i].type = orders[i].type
        /\ orders'[i].price = orders[i].price /\ orders'[i].qty = orders[i].qty
        /\ orders'[i].status = orders[i].status
        /\ orders'[i].leaves = orders[i].leaves - fq
        /\ orders'[i].cum = orders[i].cum + fq
        /\ orders'[i].value = orders[i].value + money
    BY <2>2, <2>3 DEF Order
  <2>5. \A j \in Id : /\ orders[j].leaves \in Int /\ orders[j].cum \in Int
                      /\ orders[j].value \in Int /\ orders[j].qty \in Int
    BY <1>1 DEF Order
  <2>6. Conserved'
    BY <2>1, <2>3, <2>4, <2>5 DEF Accounts, Conserved, Fillable
  <2>7. \A j \in Id : WithinLimit(orders'[j])
    <3>1. WithinLimit(Filled(orders[i]))
      BY <1>2, <1>4, <2>1, <2>3, FilledWithin DEF Accounts
    <3>2. QED
      BY <2>3, <3>1 DEF Accounts
  <2>8. Trades(i, fq, money)
    BY <2>3, <2>4, <2>5 DEF Trades
  <2>9. \A s \in Side :
           /\ Cum(s)' = Cum(s) + IF orders[i].side = s THEN fq ELSE 0
           /\ Value(s)' = Value(s) + IF orders[i].side = s THEN money ELSE 0
    BY <1>2, <2>8, FilledSums
  <2>10. Far' = Far
    BY <1>1, <1>3, <2>3, <2>4 DEF Far
  <2>11. InsideLimit'
    BY <1>1, <1>3, <2>3, <2>4 DEF Accounts, InsideLimit, AtLimit
  <2>12. QED
    BY <2>6, <2>7, <2>9, <2>10, <2>11
<1>5. \A s \in Side : Cum(s) \in Int /\ Value(s) \in Int
  BY SumsType DEF SumsDefined
<1>6. CASE FillResting /\ CanFill(Resting)
  <2>1. /\ orders' = [orders EXCEPT ![Resting] = Filled(orders[Resting])]
        /\ pc = "fill_resting" /\ pc' = "status_resting"
    BY <1>6 DEF FillResting, ApplyFill
  <2>2. orders[Resting].side = Far /\ AtLimit(orders[Resting])
    BY <1>1, <1>2 DEF Placed, AtLimit
  <2> HIDE DEF money
  <2>3. /\ Conserved' /\ \A j \in Id : WithinLimit(orders'[j])
        /\ \A s \in Side :
             /\ Cum(s)' = Cum(s) + IF orders[Resting].side = s THEN fq ELSE 0
             /\ Value(s)' = Value(s) + IF orders[Resting].side = s THEN money ELSE 0
        /\ InsideLimit' \/ pc' = "raised" \/ pc' \notin InLevel
        /\ Far' = Far
    BY <1>1, <1>2, <1>4, <1>6, <2>1, <2>2
  <2>4. Balanced'
    <3>1. ASSUME NEW s \in Side, NEW t \in Side, s = Far, t # Far
          PROVE  Cum(s)' = Cum(t)' + fq /\ Value(s)' = Value(t)' + money
      <4>1. Cum(s) = Cum(t) /\ Value(s) = Value(t)
        BY <2>1 DEF Accounts, Balanced, HalfFilled
      <4>2. /\ Cum(s)' = Cum(s) + fq /\ Cum(t)' = Cum(t)
            /\ Value(s)' = Value(s) + money /\ Value(t)' = Value(t)
        BY <1>5, <2>2, <2>3, <3>1
      <4>3. QED
        BY <4>1, <4>2
    <3>2. QED
      BY <1>3, <2>1, <2>3, <3>1 DEF Balanced, HalfFilled, money
  <2>5. QED
    BY <2>1, <2>3, <2>4 DEF Accounts, InLevel, WithinLimit
<1>7. CASE FillIncoming /\ CanFill(inc)
  <2>1. /\ orders' = [orders EXCEPT ![inc] = Filled(orders[inc])]
        /\ pc = "fill_incoming" /\ pc' = "status_incoming"
    BY <1>7 DEF FillIncoming, ApplyFill
  <2>2. AtLimit(orders[inc])
    BY <1>1 DEF Accounts, InsideLimit
  <2> HIDE DEF money
  <2>3. /\ Conserved' /\ \A j \in Id : WithinLimit(orders'[j])
        /\ \A s \in Side :
             /\ Cum(s)' = Cum(s) + IF orders[inc].side = s THEN fq ELSE 0
             /\ Value(s)' = Value(s) + IF orders[inc].side = s THEN money ELSE 0
        /\ InsideLimit' \/ pc' = "raised" \/ pc' \notin InLevel
    BY <1>1, <1>2, <1>4, <1>7, <2>1, <2>2
  <2>4. Balanced'
    <3>1. ASSUME NEW s \in Side, NEW t \in Side, s = Far, t # Far
          PROVE  Cum(s)' = Cum(t)' /\ Value(s)' = Value(t)'
      <4>1. Cum(s) = Cum(t) + fq /\ Value(s) = Value(t) + money
        BY <2>1, <3>1 DEF Accounts, Balanced, HalfFilled, money
      <4>2. t = orders[inc].side /\ s # orders[inc].side
        BY <1>1, <3>1, InSweep
      <4>3. /\ Cum(s)' = Cum(s) /\ Cum(t)' = Cum(t) + fq
            /\ Value(s)' = Value(s) /\ Value(t)' = Value(t) + money
        BY <1>5, <2>3, <4>2
      <4>4. QED
        BY <4>1, <4>3
    <3>2. ASSUME NEW s \in Side, NEW t \in Side
          PROVE  Cum(s)' = Cum(t)' /\ Value(s)' = Value(t)'
      BY <1>1, <3>1, InSweep
    <3>3. QED
      BY <2>1, <3>2 DEF Balanced, HalfFilled
  <2>5. QED
    BY <2>1, <2>3, <2>4 DEF Accounts, InLevel, WithinLimit
<1>8. CASE pc' = "raised" /\ orders' = orders
  <2>1. \A j \in Id : orders'[j] = [orders[j] EXCEPT !.status = orders'[j].status]
    BY <1>1, <1>8 DEF Order
  <2>2. InsideLimit'
    BY <1>8 DEF InsideLimit, InLevel
  <2>3. QED
    BY <1>8, <2>1, <2>2, NothingTraded DEF HalfFilled
<1>9. QED
  BY <1>6, <1>7, <1>8 DEF FillResting, FillIncoming, ApplyFill

\* A level that is entered is inside the limit: that is what Crosses asks
\* (lob.py:104-108).  The other steps of a submission trade nothing.
LEMMA MatchStepKeepsAccounts ==
    ASSUME BookInv, BookInv', Structure, Accounts, MatchStep
    PROVE  Accounts'
<1>1. orders \in [Id -> Order]
  BY DEF BookInv, LobTypeOK
<1>2. ASSUME UNCHANGED orders
      PROVE  \A j \in Id :
                /\ orders'[j] = [orders[j] EXCEPT !.status = orders'[j].status]
                /\ orders[j].status = "ABSENT" \/ orders'[j].status # "ABSENT"
                /\ orders[j].status = "ABSENT" /\ orders'[j].status = "ABSENT" =>
                      orders'[j] = orders[j]
  BY <1>1, <1>2 DEF Order
<1>3. ASSUME NEW i \in Id, NEW st \in OrderStatus,
             orders' = [orders EXCEPT ![i].status = st]
      PROVE  /\ \A j \in Id :
                   /\ orders'[j] = [orders[j] EXCEPT !.status = orders'[j].status]
                   /\ orders[j].status = "ABSENT" \/ orders'[j].status # "ABSENT"
                   /\ orders[j].status = "ABSENT" /\ orders'[j].status = "ABSENT" =>
                         orders'[j] = orders[j]
             /\ \A j \in Id : /\ orders'[j].side = orders[j].side
                              /\ orders'[j].type = orders[j].type
                              /\ orders'[j].price = orders[j].price
  BY <1>1, <1>3 DEF Order, OrderStatus
<1>4. CASE NextLevel
  <2>1. PICK p \in Ahead : Crosses(p) /\ lvl' = p
    BY <1>4 DEF NextLevel
  <2>2. /\ inc \in Id /\ pc = "sweep" /\ pc' = "level" /\ inc' = inc /\ orders' = orders
        /\ orders[inc].side \in Side
    BY <1>4 DEF NextLevel, BookInv, Sweeping, LobTypeOK, Order
  <2>3. AtLimit(orders[inc])'
    BY <2>1, <2>2 DEF Crosses, AtLimit, Side
  <2>4. InsideLimit'
    BY <2>2, <2>3 DEF InsideLimit
  <2>5. QED
    BY <1>2, <2>2, <2>4, NothingTraded DEF HalfFilled
<1>5. CASE TakeHead \/ SkipCancelled
  <2>1. /\ pc = "level" /\ pc' \in {"level", "fill_resting"}
        /\ UNCHANGED <<orders, inc, lvl>>
    BY <1>5 DEF TakeHead, SkipCancelled, matchvars
  <2>2. InsideLimit'
    BY <2>1 DEF Accounts, InsideLimit, InLevel, AtLimit
  <2>3. QED
    BY <1>2, <2>1, <2>2, NothingTraded DEF HalfFilled
<1>6. CASE LeaveLevel \/ FinishSweep
  <2>1. pc \in {"level", "sweep"} /\ pc' \in {"sweep", "idle"} /\ UNCHANGED orders
    BY <1>6 DEF LeaveLevel, FinishSweep
  <2>2. InsideLimit'
    BY <2>1 DEF InsideLimit, InLevel
  <2>3. QED
    BY <1>2, <2>1, <2>2, NothingTraded DEF HalfFilled
<1>7. ASSUME NEW i \in Id, NEW st \in OrderStatus,
             orders' = [orders EXCEPT ![i].status = st],
             pc \in InLevel, UNCHANGED <<inc, fq, lvl>>,
             pc' \in HalfFilled => pc \in HalfFilled,
             pc' \notin HalfFilled \cup {"raised"} => pc \notin HalfFilled \cup {"raised"}
      PROVE  Accounts'
  <2>1. inc \in Id
    BY <1>7, InSweep DEF Midway
  <2>2. InsideLimit'
    BY <1>3, <1>7, <2>1 DEF Accounts, InsideLimit, AtLimit
  <2>3. QED
    BY <1>3, <1>7, <2>2, NothingTraded
<1>8. CASE StatusResting
  <2>1. pc \in InLevel /\ pc \in InFill /\ Midway
    BY <1>8 DEF StatusResting, InLevel, InFill, Midway
  <2>2. Resting \in Id /\ StatusAfter(orders[Resting]) \in OrderStatus
    BY <2>1, InSweep, HeadHeld DEF StatusAfter, OrderStatus
  <2>3. QED
    BY <1>7, <1>8, <2>1, <2>2 DEF StatusResting, HalfFilled
<1>9. CASE StatusIncoming
  <2>1. pc \in InLevel /\ Midway
    BY <1>9 DEF StatusIncoming, InLevel, Midway
  <2>2. inc \in Id /\ StatusAfter(orders[inc]) \in OrderStatus
    BY <2>1, InSweep DEF StatusAfter, OrderStatus
  <2>3. QED
    BY <1>7, <1>9, <2>1, <2>2 DEF StatusIncoming, HalfFilled
<1>10. CASE FillResting \/ FillIncoming
  BY <1>10, FillAccounts
<1>11. QED
  BY <1>4, <1>5, <1>6, <1>8, <1>9, <1>10 DEF MatchStep

\* A cancel, at any point of a submission, trades nothing (lob.py:43-47).
LEMMA CancelAccounts ==
    ASSUME BookInv, BookInv', Accounts, NEW i \in Id,
           orders' = [orders EXCEPT ![i].status = "CANCELLED"],
           UNCHANGED <<keys, queue, pc, matchvars>>
    PROVE  Accounts'
<1>1. orders \in [Id -> Order] /\ UNCHANGED <<pc, inc, fq, lvl>>
  BY DEF BookInv, LobTypeOK, matchvars
<1>2. \A j \in Id :
         /\ orders'[j] = [orders[j] EXCEPT !.status = orders'[j].status]
         /\ orders[j].status = "ABSENT" \/ orders'[j].status # "ABSENT"
         /\ orders[j].status = "ABSENT" /\ orders'[j].status = "ABSENT" =>
               orders'[j] = orders[j]
  BY <1>1 DEF Order
<1>3. \A j \in Id : /\ orders'[j].side = orders[j].side
                    /\ orders'[j].type = orders[j].type
                    /\ orders'[j].price = orders[j].price
  BY <1>1 DEF Order
<1>4. InsideLimit'
  <2>1. CASE pc \in InLevel
    BY <1>1, <1>3, <2>1, InSweep DEF Accounts, InsideLimit, AtLimit, Midway
  <2>2. CASE pc \notin InLevel
    BY <1>1, <2>2 DEF InsideLimit
  <2>3. QED
    BY <2>1, <2>2
<1>5. QED
  BY <1>1, <1>2, <1>4, NothingTraded

\* A submission enters an order that has traded nothing (lob.py:100, 128).
LEMMA SubmitAccounts ==
    ASSUME BookInv, BookInv', Accounts, NEW i \in Id, NEW s \in Side, NEW t \in OrderType,
           NEW p \in Price \cup {NoPrice}, NEW q \in Quantity,
           Submit(i, s, t, p, q)
    PROVE  Accounts'
<1> DEFINE o == NewOrder(s, t, p, q)
<1>1. q \in Nat /\ p \in Int
  <2>1. Price \cup {NoPrice} \subseteq Int
    BY LobAssumption DEF NoPrice
  <2>2. QED
    BY <2>1, LobAssumption
<1>2. /\ o.status = "NEW" /\ o.leaves = q /\ o.cum = 0 /\ o.value = 0 /\ o.qty = q
      /\ o.price = p
  BY DEF NewOrder
<1>3. /\ pc = "idle" /\ pc' = "sweep" /\ orders[i].status = "ABSENT"
      /\ orders' = [orders EXCEPT ![i] = o] /\ orders \in [Id -> Order]
  BY DEF Submit, BookInv, LobTypeOK
<1> HIDE DEF o
<1>4. /\ orders'[i] = o /\ \A j \in Id : j # i => orders'[j] = orders[j]
      /\ orders[i].cum = 0 /\ orders[i].value = 0
  BY <1>3 DEF Accounts, Conserved, Unsubmitted
<1>5. Conserved'
  BY <1>1, <1>2, <1>4 DEF Accounts, Conserved
<1>6. \A k \in Side : Cum(k)' = Cum(k) /\ Value(k)' = Value(k)
  <2>1. \A j \in Id : /\ orders'[j].cum = orders[j].cum
                      /\ orders'[j].value = orders[j].value
                      /\ j # i => orders'[j].side = orders[j].side
    BY <1>2, <1>4
  <2>2. QED
    BY <1>4, <2>1, SameSums
<1>7. Balanced'
  BY <1>3, <1>6 DEF Accounts, Balanced, HalfFilled
<1>8. InsideLimit'
  BY <1>3 DEF InsideLimit, InLevel
<1>9. \A j \in Id : WithinLimit(orders'[j])
  <2>1. WithinLimit(o)
    BY <1>1, <1>2 DEF WithinLimit
  <2>2. QED
    BY <1>4, <2>1 DEF Accounts
<1>10. QED
  BY <1>5, <1>7, <1>8, <1>9 DEF Accounts, WithinLimit

LEMMA AccountsInit ==
    ASSUME LobInit
    PROVE  Accounts
<1>1. Conserved /\ \A i \in Id : WithinLimit(orders[i])
  <2>1. \A i \in Id : orders[i] = Unsubmitted
    BY DEF LobInit
  <2>2. QED
    BY <2>1 DEF Conserved, WithinLimit, Unsubmitted, NoPrice
<1>2. InsideLimit
  BY DEF LobInit, InsideLimit, InLevel
<1>3. \A s \in Side : Cum(s) = 0 /\ Value(s) = 0
  <2> TAKE s \in Side
  <2>1. /\ IsFiniteSet(On(s)) /\ On(s) \subseteq Id
        /\ Cum(s) = SumFunctionOnSet([i \in On(s) |-> orders[i].cum], On(s))
        /\ Value(s) = SumFunctionOnSet([i \in On(s) |-> orders[i].value], On(s))
    BY BookInvInit, SumsType DEF SumsDefined
  <2>2. \A i \in On(s) : orders[i].cum = 0 /\ orders[i].value = 0
    BY <2>1 DEF LobInit, Unsubmitted
  <2>3. QED
    BY <2>1, <2>2, SumZero
<1>4. QED
  BY <1>1, <1>2, <1>3 DEF Accounts, Balanced, LobInit, HalfFilled

\* Outside a fill, and when one is over, the books of the two sides agree.
LEMMA BalancedAtRest == BookInv /\ Accounts => TradesBalance
<1> SUFFICES ASSUME BookInv, Accounts, pc \in {"idle", "sweep", "level"}
             PROVE  /\ Cum("BUY") = Cum("SELL") /\ Value("BUY") = Value("SELL")
                    /\ \A i \in Id : /\ orders[i].leaves + orders[i].cum = orders[i].qty
                                     /\ orders[i].leaves >= 0
  BY DEF TradesBalance
<1>1. "BUY" \in Side /\ "SELL" \in Side
  BY DEF Side
<1>2. QED
  BY <1>1 DEF Accounts, Balanced, Conserved, HalfFilled

-----------------------------------------------------------------------------
(***************************************************************************)
(* What the status says.  It is behind the quantities between the two      *)
(* halves of apply_fill, and only then; the order it is behind for can     *)
(* still trade, unless a cancel was written in between.                    *)
(***************************************************************************)
Agrees(o) ==
    /\ o.status = "FILLED" <=> o.leaves = 0 /\ o.qty > 0
    /\ o.status = "PARTIAL" => o.cum > 0
    /\ o.status = "NEW" => o.cum = 0

Behind(i) ==
    \/ pc = "status_resting" /\ i = Resting
    \/ pc = "status_incoming" /\ i = inc

Statuses ==
    pc # "raised" => \A i \in Id :
        IF Behind(i) THEN orders[i].status \in Fillable /\ orders[i].cum > 0
                     ELSE Agrees(orders[i])

LEMMA StatusesAtRest == Statuses => StatusAgrees
  BY DEF Statuses, StatusAgrees, Behind, Agrees

\* The statuses of the two orders of a fill are set from what is left of them
\* (lob.py:38-41); no step of a submission changes a closed order.
LEMMA MatchStepKeepsStatuses ==
    ASSUME BookInv, Structure, Accounts, Statuses, MatchStep
    PROVE  /\ Statuses'
           /\ \A i \in Id : orders[i].status \in {"FILLED", "CANCELLED"} =>
                               orders'[i] = orders[i]
<1>1. orders \in [Id -> Order] /\ fq \in Int
  BY DEF BookInv, LobTypeOK
<1>2. \A i \in Id : /\ orders[i].leaves \in Int /\ orders[i].cum \in Int /\ orders[i].qty \in Nat
                    /\ orders[i].leaves >= 0 /\ orders[i].cum >= 0
                    /\ orders[i].leaves + orders[i].cum = orders[i].qty
  BY <1>1 DEF Order, Accounts, Conserved
<1>3. ASSUME pc \in InFill
      PROVE  /\ inc \in Id /\ Resting \in Id /\ Resting # inc /\ pc # "raised"
             /\ \A o : orders' = [orders EXCEPT ![Resting] = o] /\ UNCHANGED <<queue, inc, lvl>>
                          => Resting' = Resting
  <2>1. Midway /\ pc \in InLevel
    BY <1>3 DEF Midway, InFill
  <2>2. inc \in Id /\ Resting \in Id /\ Resting # inc
    BY <1>3, <2>1, InSweep, HeadHeld
  <2>3. QED
    BY <1>1, <1>3, <2>2 DEF Resting, Far, InFill, InLevel
<1>4. CASE NextLevel \/ FinishSweep \/ SkipCancelled \/ TakeHead \/ LeaveLevel
  <2>1. /\ pc \in {"sweep", "level"} /\ pc' \in {"sweep", "level", "fill_resting", "idle"}
        /\ orders' = orders
    BY <1>4 DEF NextLevel, FinishSweep, SkipCancelled, TakeHead, LeaveLevel
  <2>2. QED
    BY <2>1 DEF Statuses, Behind
<1>5. CASE FillResting /\ CanFill(Resting)
  <2>1. /\ orders' = [orders EXCEPT ![Resting] = Filled(orders[Resting])]
        /\ pc = "fill_resting" /\ pc' = "status_resting" /\ UNCHANGED <<queue, inc, lvl>>
        /\ orders[Resting].status \in Fillable /\ fq > 0
    BY <1>5 DEF FillResting, ApplyFill, CanFill
  <2>2. Resting \in Id /\ Resting' = Resting
    BY <1>3, <2>1 DEF InFill, InLevel
  <2>3. /\ orders'[Resting].status = orders[Resting].status
        /\ orders'[Resting].cum = orders[Resting].cum + fq
        /\ \A i \in Id : i # Resting => orders'[i] = orders[i]
    BY <1>1, <2>1, <2>2 DEF Filled, Order
  <2>4. QED
    BY <1>1, <1>2, <2>1, <2>2, <2>3 DEF Statuses, Behind, Fillable
<1>6. CASE FillIncoming /\ CanFill(inc)
  <2>1. /\ orders' = [orders EXCEPT ![inc] = Filled(orders[inc])]
        /\ pc = "fill_incoming" /\ pc' = "status_incoming" /\ inc' = inc
        /\ orders[inc].status \in Fillable /\ fq > 0
    BY <1>6 DEF FillIncoming, ApplyFill, CanFill
  <2>2. inc \in Id
    BY <1>3, <2>1 DEF InFill, InLevel
  <2>3. /\ orders'[inc].status = orders[inc].status
        /\ orders'[inc].cum = orders[inc].cum + fq
        /\ \A i \in Id : i # inc => orders'[i] = orders[i]
    BY <1>1, <2>1, <2>2 DEF Filled, Order
  <2>4. QED
    BY <1>1, <1>2, <2>1, <2>2, <2>3 DEF Statuses, Behind, Fillable
<1>7. CASE pc' = "raised" /\ orders' = orders
  BY <1>7 DEF Statuses
<1>8. ASSUME NEW i \in Id, pc \notin {"raised"}, Behind(i), \A j \in Id : Behind(j) => j = i,
             orders' = [orders EXCEPT ![i].status = StatusAfter(orders[i])],
             pc' \in {"fill_incoming", "level"}
      PROVE  /\ Statuses'
             /\ \A j \in Id : orders[j].status \in {"FILLED", "CANCELLED"} =>
                                 orders'[j] = orders[j]
  <2>1. orders[i].status \in Fillable /\ orders[i].cum > 0
    BY <1>8 DEF Statuses
  <2>2. /\ orders'[i].leaves = orders[i].leaves /\ orders'[i].cum = orders[i].cum
        /\ orders'[i].qty = orders[i].qty
        /\ orders'[i].status = StatusAfter(orders[i])
        /\ \A j \in Id : j # i => orders'[j] = orders[j]
    BY <1>1, <1>8 DEF Order
  <2>3. Agrees(orders'[i])
    BY <1>2, <2>1, <2>2 DEF Agrees, StatusAfter
  <2>4. Statuses'
    BY <1>8, <2>2, <2>3 DEF Statuses, Behind
  <2>5. QED
    BY <2>1, <2>2, <2>4 DEF Fillable
<1>9. CASE StatusResting
  <2>1. /\ pc = "status_resting" /\ pc' = "fill_incoming"
        /\ orders' = [orders EXCEPT ![Resting].status = StatusAfter(orders[Resting])]
    BY <1>9 DEF StatusResting
  <2>2. Resting \in Id /\ Behind(Resting) /\ \A j \in Id : Behind(j) => j = Resting
    BY <1>3, <2>1 DEF Behind, InFill, InLevel
  <2>3. QED
    BY <1>8, <2>1, <2>2
<1>10. CASE StatusIncoming
  <2>1. /\ pc = "status_incoming" /\ pc' = "level"
        /\ orders' = [orders EXCEPT ![inc].status = StatusAfter(orders[inc])]
    BY <1>10 DEF StatusIncoming
  <2>2. inc \in Id /\ Behind(inc) /\ \A j \in Id : Behind(j) => j = inc
    BY <1>3, <2>1 DEF Behind, InFill, InLevel
  <2>3. QED
    BY <1>8, <2>1, <2>2
<1>11. QED
  BY <1>4, <1>5, <1>6, <1>7, <1>9, <1>10 DEF MatchStep, FillResting, FillIncoming, ApplyFill

\* A cancel between a check of the status and the next keeps them right, if it
\* is not written inside apply_fill nor over a FILLED order.
LEMMA CancelStatuses ==
    ASSUME BookInv, Statuses, NEW i \in Id, orders[i].status # "FILLED",
           pc \notin {"status_resting", "status_incoming"}, UNCHANGED pc,
           orders' = [orders EXCEPT ![i].status = "CANCELLED"]
    PROVE  Statuses'
<1>1. orders \in [Id -> Order]
  BY DEF BookInv, LobTypeOK
<1>2. /\ orders'[i].leaves = orders[i].leaves /\ orders'[i].cum = orders[i].cum
      /\ orders'[i].qty = orders[i].qty /\ orders'[i].status = "CANCELLED"
      /\ \A j \in Id : j # i => orders'[j] = orders[j]
  BY <1>1 DEF Order
<1>3. QED
  BY <1>2 DEF Statuses, Behind, Agrees

LEMMA SubmitStatuses ==
    ASSUME BookInv, Statuses, NEW i \in Id, NEW s \in Side, NEW t \in OrderType,
           NEW p \in Price \cup {NoPrice}, NEW q \in Quantity,
           Submit(i, s, t, p, q)
    PROVE  Statuses'
<1>1. /\ pc = "idle" /\ pc' = "sweep" /\ orders \in [Id -> Order]
      /\ orders' = [orders EXCEPT ![i] = NewOrder(s, t, p, q)]
  BY DEF Submit, BookInv, LobTypeOK
<1>2. q \in Nat /\ q > 0
  BY LobAssumption
<1>3. Agrees(NewOrder(s, t, p, q))
  BY <1>2 DEF Agrees, NewOrder
<1>4. QED
  BY <1>1, <1>3 DEF Statuses, Behind

LEMMA StatusesInit ==
    ASSUME LobInit
    PROVE  Statuses
  BY DEF LobInit, Statuses, Behind, Agrees, Unsubmitted

\* A step that leaves the book's variables alone leaves these alone.
LEMMA TradesAsTheyWere ==
    ASSUME BookInv, BookInv', UNCHANGED lobvars
    PROVE  (Accounts => Accounts') /\ (Statuses => Statuses')
<1>1. UNCHANGED <<orders, queue, pc, inc, fq, lvl>> /\ orders \in [Id -> Order]
  BY DEF lobvars, BookInv, LobTypeOK
<1>2. \A j \in Id : orders'[j] = [orders[j] EXCEPT !.status = orders'[j].status]
  BY <1>1 DEF Order
<1>3. Accounts => InsideLimit'
  BY <1>1 DEF Accounts, InsideLimit, AtLimit
<1>4. Accounts => Accounts'
  BY <1>1, <1>2, <1>3, NothingTraded
<1>5. Statuses => Statuses'
  BY <1>1 DEF Statuses, Behind, Agrees, Resting, Far
<1>6. QED
  BY <1>4, <1>5

-----------------------------------------------------------------------------
(***************************************************************************)
(* One thread: nothing is cancelled while an order is matched, so what was *)
(* checked before a fill still holds when apply_fill asserts it.           *)
(***************************************************************************)
Solo ==
    /\ pc # "raised"
    /\ \A i \in Id : orders[i].status # "ABSENT" => orders[i].qty > 0
    /\ Midway => orders[inc].status # "CANCELLED"
    /\ pc = "fill_resting" =>
          orders[Resting].status \in Fillable /\ fq <= orders[Resting].leaves
    /\ pc \in {"fill_resting", "status_resting", "fill_incoming"} =>
          orders[inc].status \in Fillable /\ 0 < fq /\ fq <= orders[inc].leaves

SoloInv == BookInv /\ Structure /\ Accounts /\ Statuses /\ Solo

\* A resting order at the head of a level that is not cancelled has something
\* left, and so has the incoming order: both can be filled (lob.py:152-159).
LEMMA TakeHeadSolo ==
    ASSUME SoloInv, TakeHead
    PROVE  Solo'
<1>1. /\ pc = "level" /\ pc' = "fill_resting" /\ pc \in InLevel /\ Midway
      /\ queue[Far][lvl] # <<>> /\ orders[inc].leaves > 0
      /\ orders[Resting].status # "CANCELLED"
      /\ fq' = IF orders[Resting].leaves < orders[inc].leaves
                 THEN orders[Resting].leaves ELSE orders[inc].leaves
      /\ UNCHANGED <<orders, keys, queue, inc, lvl>>
  BY DEF TakeHead, InLevel, Midway, Level
<1>2. /\ inc \in Id /\ Resting \in Id /\ Placed(Resting, Far, lvl)
      /\ orders[inc] \in Order /\ orders[Resting] \in Order
  BY <1>1, InSweep, HeadHeld DEF SoloInv
<1>3. /\ orders[inc].leaves \in Int /\ orders[Resting].leaves \in Int
      /\ orders[Resting].leaves >= 0 /\ orders[Resting].qty > 0
      /\ Agrees(orders[inc]) /\ Agrees(orders[Resting])
      /\ orders[inc].status # "CANCELLED" /\ orders[inc].status # "ABSENT"
  BY <1>1, <1>2 DEF SoloInv, Accounts, Conserved, Statuses, Behind, Solo, Placed, Order,
     Structure, IncomingStatus
<1>4. orders[Resting].status \in Fillable /\ orders[Resting].leaves > 0
  BY <1>1, <1>2, <1>3 DEF Placed, MayBeFilled, Agrees, Fillable, Order, OrderStatus
<1>5. orders[inc].status \in Fillable
  BY <1>1, <1>2, <1>3 DEF Agrees, Fillable, Order, OrderStatus
<1>6. fq' > 0 /\ fq' <= orders[Resting].leaves /\ fq' <= orders[inc].leaves
  BY <1>1, <1>3, <1>4
<1>7. Resting' = Resting /\ Midway'
  BY <1>1 DEF Resting, Far, Midway, InLevel
<1>8. QED
  BY <1>1, <1>3, <1>4, <1>5, <1>6, <1>7 DEF Solo, SoloInv

\* The two calls of apply_fill do not raise, and the second finds what the
\* first left it (lob.py:32-37, 158-159).
LEMMA FillSolo ==
    ASSUME SoloInv, FillResting \/ StatusResting \/ FillIncoming
    PROVE  Solo'
<1>1. /\ pc \in {"fill_resting", "status_resting", "fill_incoming"} /\ Midway
      /\ pc \in InFill /\ UNCHANGED <<queue, inc, lvl, fq>> /\ orders \in [Id -> Order]
      /\ fq \in Int
  BY DEF FillResting, StatusResting, FillIncoming, ApplyFill, InLevel, InFill, Midway,
     SoloInv, BookInv, LobTypeOK
<1>2. /\ inc \in Id /\ Resting \in Id /\ Resting # inc /\ Placed(Resting, Far, lvl)
      /\ orders[inc] \in Order
  BY <1>1, InSweep, HeadHeld DEF SoloInv, InFill
<1>3. orders[inc].status \in Fillable /\ 0 < fq /\ fq <= orders[inc].leaves
  BY <1>1 DEF SoloInv, Solo
<1>4. ASSUME FillResting
      PROVE  Solo'
  <2>1. /\ CanFill(Resting) /\ pc' = "status_resting"
        /\ orders' = [orders EXCEPT ![Resting] = Filled(orders[Resting])]
    BY <1>3, <1>4 DEF FillResting, ApplyFill, CanFill, SoloInv, Solo
  <2>2. /\ \A i \in Id : orders'[i].status = orders[i].status /\ orders'[i].qty = orders[i].qty
        /\ orders'[inc] = orders[inc]
    BY <1>1, <1>2, <2>1 DEF Filled, Order
  <2>3. QED
    BY <1>1, <1>2, <1>3, <2>1, <2>2 DEF SoloInv, Solo
<1>5. ASSUME StatusResting
      PROVE  Solo'
  <2>1. /\ pc' = "fill_incoming"
        /\ orders' = [orders EXCEPT ![Resting].status = StatusAfter(orders[Resting])]
    BY <1>5 DEF StatusResting
  <2>2. /\ \A i \in Id : orders'[i].qty = orders[i].qty
        /\ \A i \in Id : i # Resting => orders'[i] = orders[i]
        /\ orders[Resting].status # "ABSENT"
    BY <1>1, <1>2, <2>1 DEF Order, Placed
  <2>3. QED
    BY <1>1, <1>2, <1>3, <2>1, <2>2 DEF SoloInv, Solo
<1>6. ASSUME FillIncoming
      PROVE  Solo'
  <2>1. /\ CanFill(inc) /\ pc' = "status_incoming"
        /\ orders' = [orders EXCEPT ![inc] = Filled(orders[inc])]
    BY <1>3, <1>6 DEF FillIncoming, ApplyFill, CanFill, SoloInv, Solo
  <2>2. \A i \in Id : orders'[i].status = orders[i].status /\ orders'[i].qty = orders[i].qty
    BY <1>1, <1>2, <2>1 DEF Filled, Order
  <2>3. QED
    BY <1>1, <1>2, <1>3, <2>1, <2>2 DEF SoloInv, Solo, Fillable
<1>7. QED
  BY <1>4, <1>5, <1>6

LEMMA StepSolo ==
    ASSUME SoloInv, LobNext
    PROVE  Solo'
<1>1. orders \in [Id -> Order]
  BY DEF SoloInv, BookInv, LobTypeOK
<1>2. CASE SubmitNext
  <2>1. PICK i \in Id, s \in Side, t \in OrderType, p \in Price \cup {NoPrice}, q \in Quantity :
           Submit(i, s, t, p, q)
    BY <1>2 DEF SubmitNext
  <2>2. /\ orders' = [orders EXCEPT ![i] = NewOrder(s, t, p, q)] /\ pc' = "sweep" /\ inc' = i
    BY <2>1 DEF Submit
  <2>3. q > 0 /\ NewOrder(s, t, p, q).qty = q /\ NewOrder(s, t, p, q).status = "NEW"
    BY LobAssumption DEF NewOrder
  <2>4. /\ orders'[i].qty = q /\ orders'[i].status = "NEW"
        /\ \A j \in Id : j # i => orders'[j] = orders[j]
    BY <1>1, <2>2, <2>3
  <2>5. QED
    BY <2>2, <2>3, <2>4 DEF SoloInv, Solo
<1>3. CASE NextLevel \/ FinishSweep \/ SkipCancelled \/ LeaveLevel
  <2>1. /\ pc \in {"sweep", "level"} /\ pc' \in {"sweep", "level", "idle"}
        /\ orders' = orders /\ inc' = inc
    BY <1>3 DEF NextLevel, FinishSweep, SkipCancelled, LeaveLevel, matchvars
  <2>2. QED
    BY <2>1 DEF SoloInv, Solo, Midway, InLevel
<1>4. CASE TakeHead
  BY <1>4, TakeHeadSolo
<1>5. CASE FillResting \/ StatusResting \/ FillIncoming
  BY <1>5, FillSolo
<1>6. CASE StatusIncoming
  <2>1. /\ pc = "status_incoming" /\ pc' = "level" /\ inc' = inc /\ Midway
        /\ orders' = [orders EXCEPT ![inc].status = StatusAfter(orders[inc])]
    BY <1>6 DEF StatusIncoming, Midway, InLevel
  <2>2. inc \in Id /\ StatusAfter(orders[inc]) # "CANCELLED" /\ orders[inc].status # "ABSENT"
    BY <2>1, InSweep DEF SoloInv, StatusAfter, Structure, IncomingStatus
  <2>3. /\ \A i \in Id : orders'[i].qty = orders[i].qty
        /\ orders'[inc].status = StatusAfter(orders[inc])
        /\ \A i \in Id : i # inc => orders'[i] = orders[i]
    BY <1>1, <2>1, <2>2 DEF Order
  <2>4. QED
    BY <2>1, <2>2, <2>3 DEF SoloInv, Solo
<1>7. ASSUME NEW i \in Id, CancelLob(i)
      PROVE  Solo'
  <2>1. /\ pc = "idle" /\ pc' = "idle" /\ orders[i].status \in Fillable
        /\ orders' = [orders EXCEPT ![i].status = "CANCELLED"]
    BY <1>7 DEF CancelLob, Cancelled
  <2>2. \A j \in Id : /\ orders'[j].qty = orders[j].qty
                      /\ orders'[j].status # "ABSENT" => orders[j].status # "ABSENT"
    BY <1>1, <2>1 DEF Order, Fillable
  <2>3. QED
    BY <2>1, <2>2 DEF SoloInv, Solo, Midway, InLevel
<1>8. QED
  BY <1>2, <1>3, <1>4, <1>5, <1>6, <1>7 DEF LobNext, MatchStep

\* The sequential book: what it holds, what it traded, and what the statuses say.
THEOREM SequentialBook == LobSpec => []SoloInv
<1>1. LobInit => SoloInv
  <2> SUFFICES ASSUME LobInit PROVE SoloInv
    OBVIOUS
  <2>1. Solo
    BY DEF LobInit, Solo, Unsubmitted, Midway, InLevel
  <2>2. QED
    BY <2>1, BookInvInit, StructureInit, AccountsInit, StatusesInit DEF SoloInv
<1>2. BookInv' /\ Structure' /\ SoloInv /\ [LobNext]_lobvars => SoloInv'
  <2> SUFFICES ASSUME BookInv', Structure', SoloInv, [LobNext]_lobvars
               PROVE  SoloInv'
    OBVIOUS
  <2>1. BookInv /\ Structure /\ Accounts /\ Statuses /\ Solo
    BY DEF SoloInv
  <2>2. CASE SubmitNext
    <3>1. Accounts' /\ Statuses'
      BY <2>1, <2>2, SubmitAccounts, SubmitStatuses DEF SubmitNext
    <3>2. QED
      BY <2>2, <3>1, StepSolo DEF LobNext, SoloInv
  <2>3. CASE MatchStep
    <3>1. Accounts' /\ Statuses'
      BY <2>1, <2>3, MatchStepKeepsAccounts, MatchStepKeepsStatuses
    <3>2. QED
      BY <2>3, <3>1, StepSolo DEF LobNext, SoloInv
  <2>4. ASSUME NEW i \in Id, CancelLob(i)
        PROVE  SoloInv'
    <3>1. /\ pc = "idle" /\ orders[i].status # "FILLED" /\ UNCHANGED <<keys, queue, pc, matchvars>>
          /\ orders' = [orders EXCEPT ![i].status = "CANCELLED"]
      BY <2>4 DEF CancelLob, Cancelled, Fillable
    <3>2. Accounts' /\ Statuses'
      BY <2>1, <3>1, CancelAccounts, CancelStatuses
    <3>3. QED
      BY <2>4, <3>2, StepSolo DEF LobNext, SoloInv
  <2>5. CASE UNCHANGED lobvars
    <3>1. Accounts' /\ Statuses'
      BY <2>1, <2>5, TradesAsTheyWere DEF SoloInv
    <3>2. Solo'
      BY <2>1, <2>5 DEF lobvars, Solo, Midway, Resting, Far
    <3>3. QED
      BY <3>1, <3>2 DEF SoloInv
  <2>6. QED
    BY <2>2, <2>3, <2>4, <2>5 DEF LobNext
<1>3. QED
  BY <1>1, <1>2, BookStructure, PTL DEF LobSpec

\* Every share bought is a share sold for the same money, and no order trades
\* more than its quantity, for any orders (lob.py:38-39, 48-51, 158-159).
THEOREM TradesBalanced == LobSpec => []TradesBalance
<1>1. SoloInv => TradesBalance
  BY BalancedAtRest DEF SoloInv
<1>2. QED
  BY <1>1, SequentialBook, PTL

\* FILLED, PARTIAL and NEW say what the quantities say (lob.py:41).
THEOREM StatusesAgree == LobSpec => []StatusAgrees
<1>1. SoloInv => StatusAgrees
  BY StatusesAtRest DEF SoloInv
<1>2. QED
  BY <1>1, SequentialBook, PTL

\* With one thread no assertion of apply_fill fails (lob.py:32-37).
THEOREM NothingRaises == LobSpec => []NeverRaises
<1>1. SoloInv => NeverRaises
  BY DEF SoloInv, Solo, NeverRaises
<1>2. QED
  BY <1>1, SequentialBook, PTL

-----------------------------------------------------------------------------
(***************************************************************************)
(* The fills a submission collects: what every order has traded is what    *)
(* the completed fills gave it and, in a fill, what it is ahead by.        *)
(***************************************************************************)
FillsSound ==
    /\ \A k \in 1..Len(fills) : fills[k] \in Id \X Nat \X Price /\ fills[k][1] # inc
    /\ pc \in InFill \ {"fill_resting"} => fq > 0

Half(i) == IF Unfinished(i) THEN fq ELSE 0

\* A step of a submission forgets no order, cancels none, and makes no list of
\* fills shorter.
LEMMA MatchStepKeepsFills ==
    ASSUME BookInv, Structure, FillsSound, MatchStep
    PROVE  /\ FillsSound' /\ inc' = inc /\ inc \in Id
           /\ \A i \in Id : /\ orders[i].status # "ABSENT" => orders'[i].status # "ABSENT"
                            /\ orders'[i].status = "CANCELLED" => orders[i].status = "CANCELLED"
           /\ \/ fills' = fills
              \/ /\ fills' = Append(fills, <<Resting, fq, lvl>>)
                 /\ StatusIncoming
<1>1. orders \in [Id -> Order] /\ fq \in Int /\ fills \in Seq(Id \X Int \X Price)
  BY DEF BookInv, LobTypeOK
<1>2. /\ Midway /\ inc' = inc /\ inc \in Id
  <2>1. Midway /\ inc' = inc
    BY DEF MatchStep, NextLevel, FinishSweep, SkipCancelled, TakeHead, LeaveLevel, FillResting,
       StatusResting, FillIncoming, StatusIncoming, ApplyFill, matchvars, Midway, InLevel
  <2>2. QED
    BY <2>1, InSweep
<1>3. \A i \in Id :
         /\ orders[i].status # "ABSENT" => orders'[i].status # "ABSENT"
         /\ orders'[i].status = "CANCELLED" => orders[i].status = "CANCELLED"
  <2>1. CASE orders' = orders
    BY <2>1
  <2>2. ASSUME NEW j, orders' = [orders EXCEPT ![j] = Filled(orders[j])]
        PROVE  \A i \in Id : orders'[i].status = orders[i].status
    BY <1>1, <2>2 DEF Filled, Order
  <2>3. ASSUME NEW j, NEW st \in {"FILLED", "PARTIAL"},
               orders' = [orders EXCEPT ![j].status = st]
        PROVE  \A i \in Id : /\ orders'[i].status # orders[i].status => orders'[i].status = st
    BY <1>1, <2>3 DEF Order
  <2>4. StatusAfter(orders[inc]) \in {"FILLED", "PARTIAL"}
    BY DEF StatusAfter
  <2>5. StatusAfter(orders[Resting]) \in {"FILLED", "PARTIAL"}
    BY DEF StatusAfter
  <2>6. \/ orders' = orders
        \/ \E j : orders' = [orders EXCEPT ![j] = Filled(orders[j])]
        \/ \E j : \E st \in {"FILLED", "PARTIAL"} : orders' = [orders EXCEPT ![j].status = st]
    BY <2>4, <2>5 DEF MatchStep, NextLevel, FinishSweep, SkipCancelled, TakeHead, LeaveLevel,
       FillResting, StatusResting, FillIncoming, StatusIncoming, ApplyFill
  <2>7. QED
    BY <2>1, <2>2, <2>3, <2>6
<1>4. CASE StatusIncoming
  <2>1. /\ pc = "status_incoming" /\ pc' = "level" /\ fills' = Append(fills, <<Resting, fq, lvl>>)
        /\ pc \in InFill /\ pc \in InLevel
    BY <1>4 DEF StatusIncoming, InFill, InLevel
  <2>2. Resting \in Id /\ Resting # inc /\ lvl \in Price /\ fq \in Nat
    BY <1>1, <1>2, <2>1, InSweep, HeadHeld DEF FillsSound
  <2>3. <<Resting, fq, lvl>> \in Id \X Nat \X Price
    BY <2>2
  <2>4. \A k \in 1..Len(fills') : fills'[k] \in Id \X Nat \X Price /\ fills'[k][1] # inc
    BY <1>1, <2>1, <2>2, <2>3 DEF FillsSound
  <2>5. QED
    BY <1>2, <1>3, <1>4, <2>1, <2>4 DEF FillsSound, InFill, InLevel
<1>5. CASE ~ StatusIncoming
  <2>1. fills' = fills
    BY <1>5 DEF MatchStep, NextLevel, FinishSweep, SkipCancelled, TakeHead, LeaveLevel,
       FillResting, StatusResting, FillIncoming, ApplyFill, matchvars
  <2>2. pc' \in InFill \ {"fill_resting"} => fq' > 0
    BY <1>5 DEF MatchStep, NextLevel, FinishSweep, SkipCancelled, TakeHead, LeaveLevel,
       FillResting, StatusResting, FillIncoming, ApplyFill, matchvars, InFill, InLevel,
       FillsSound, CanFill
  <2>3. QED
    BY <1>2, <1>3, <2>1, <2>2 DEF FillsSound
<1>6. QED
  BY <1>4, <1>5

\* Each half of a fill puts its order ahead of the list by what it traded; the
\* end of the fill puts both on the list.
LEMMA MatchStepTrades ==
    ASSUME BookInv, Structure, FillsSound, MatchStep, pc' # "raised", NEW i \in Id
    PROVE  /\ ~ StatusIncoming => orders'[i].cum - Half(i)' = orders[i].cum - Half(i)
           /\ StatusIncoming =>
                 /\ orders'[i].cum = orders[i].cum /\ Half(i)' = 0
                 /\ Half(i) = IF i = Resting \/ i = inc THEN fq ELSE 0
           /\ Half(i) \in Int /\ Half(i)' \in Int
<1>1. /\ orders \in [Id -> Order] /\ fq \in Int /\ fq' \in Int
      /\ orders[i].cum \in Int
  <2>1. BookInv'
    BY MatchStepKeepsInv
  <2>2. QED
    BY <2>1 DEF BookInv, LobTypeOK, Order
<1>2. ASSUME pc \in InFill
      PROVE  /\ inc \in Id /\ Resting \in Id /\ Resting # inc
             /\ \A o : orders' = [orders EXCEPT ![Resting] = o] /\ UNCHANGED <<queue, inc, lvl>>
                          => Resting' = Resting
  <2>1. Midway /\ pc \in InLevel
    BY <1>2 DEF Midway, InFill
  <2>2. inc \in Id /\ Resting \in Id /\ Resting # inc
    BY <1>2, <2>1, InSweep, HeadHeld
  <2>3. QED
    BY <1>1, <1>2, <2>2 DEF Resting, Far, InFill, InLevel
<1>3. CASE NextLevel \/ FinishSweep \/ SkipCancelled \/ TakeHead \/ LeaveLevel
  <2>1. /\ pc \in {"sweep", "level"} /\ pc' \in {"sweep", "level", "fill_resting", "idle"}
        /\ orders' = orders
    BY <1>3 DEF NextLevel, FinishSweep, SkipCancelled, TakeHead, LeaveLevel
  <2>2. Half(i) = 0 /\ Half(i)' = 0
    BY <2>1 DEF Half, Unfinished
  <2>3. QED
    BY <1>1, <2>1, <2>2 DEF StatusIncoming
<1>4. CASE FillResting
  <2>1. /\ orders' = [orders EXCEPT ![Resting] = Filled(orders[Resting])]
        /\ pc = "fill_resting" /\ pc' = "status_resting" /\ UNCHANGED <<queue, inc, lvl, fq>>
    BY <1>4 DEF FillResting, ApplyFill
  <2>2. Resting \in Id /\ Resting' = Resting
    BY <1>2, <2>1 DEF InFill, InLevel
  <2>3. orders'[i].cum = orders[i].cum + IF i = Resting THEN fq ELSE 0
    BY <1>1, <2>1, <2>2 DEF Filled, Order
  <2>4. Half(i) = 0 /\ Half(i)' = IF i = Resting THEN fq ELSE 0
    BY <2>1, <2>2 DEF Half, Unfinished
  <2>5. QED
    BY <1>1, <2>1, <2>3, <2>4 DEF StatusIncoming
<1>5. CASE StatusResting
  <2>1. /\ orders' = [orders EXCEPT ![Resting].status = StatusAfter(orders[Resting])]
        /\ pc = "status_resting" /\ pc' = "fill_incoming" /\ UNCHANGED <<queue, inc, lvl, fq>>
    BY <1>5 DEF StatusResting
  <2>2. Resting \in Id /\ Resting' = Resting
    BY <1>2, <2>1 DEF InFill, InLevel
  <2>3. orders'[i].cum = orders[i].cum
    BY <1>1, <2>1, <2>2 DEF Order
  <2>4. Half(i) = Half(i)' /\ Half(i) \in Int
    BY <1>1, <2>1, <2>2 DEF Half, Unfinished
  <2>5. QED
    BY <1>1, <2>1, <2>3, <2>4 DEF StatusIncoming
<1>6. CASE FillIncoming
  <2>1. /\ orders' = [orders EXCEPT ![inc] = Filled(orders[inc])]
        /\ pc = "fill_incoming" /\ pc' = "status_incoming" /\ UNCHANGED <<queue, inc, lvl, fq>>
    BY <1>6 DEF FillIncoming, ApplyFill
  <2>2. inc \in Id /\ Resting # inc
    BY <1>2, <2>1 DEF InFill, InLevel
  <2>3. orders'[i].cum = orders[i].cum + IF i = inc THEN fq ELSE 0
    BY <1>1, <2>1, <2>2 DEF Filled, Order
  <2>4. Resting' = Resting
    BY <1>1, <2>1, <2>2 DEF Resting, Far, Filled, Order
  <2>5. /\ Half(i) = IF i = Resting THEN fq ELSE 0
        /\ Half(i)' = IF i = Resting \/ i = inc THEN fq ELSE 0
    BY <2>1, <2>4 DEF Half, Unfinished
  <2>6. QED
    BY <1>1, <2>1, <2>2, <2>3, <2>5 DEF StatusIncoming
<1>7. CASE StatusIncoming
  <2>1. /\ orders' = [orders EXCEPT ![inc].status = StatusAfter(orders[inc])]
        /\ pc = "status_incoming" /\ pc' = "level"
    BY <1>7 DEF StatusIncoming
  <2>2. orders'[i].cum = orders[i].cum
    BY <1>1, <1>2, <2>1 DEF Order, InFill, InLevel
  <2>3. Half(i)' = 0 /\ Half(i) = IF i = Resting \/ i = inc THEN fq ELSE 0
    BY <2>1 DEF Half, Unfinished
  <2>4. QED
    BY <1>1, <1>7, <2>2, <2>3
<1>8. QED
  BY <1>3, <1>4, <1>5, <1>6, <1>7 DEF MatchStep

-----------------------------------------------------------------------------
(***************************************************************************)
(* The refinement: a step that completes a fill is a trade of the abstract *)
(* book with the order that has priority, and the sweep, the levels, the   *)
(* lazy cancels and the halves of apply_fill are steps of no account.  It  *)
(* rests on the order of the deques, which is the order of arrival, and on *)
(* the level under way, which is the best.                                 *)
(***************************************************************************)
Arrival ==
    /\ \A s \in Side, p \in Price : Ascending(queue[s][p])
    /\ Midway => \A i \in Id : orders[i].status # "ABSENT" => i <= inc

\* No level ahead is better than the one under way, and it is inside the limit.
AtBest == pc \in InLevel => IsBest(lvl) /\ Crosses(lvl)

\* A fill takes all that one of its two orders has left, from an order that was
\* not cancelled (lob.py:154-157).
Takes ==
    pc \in InFill =>
        /\ fq > 0 /\ fq \in {LeftOver[Resting], LeftOver[inc]}
        /\ orders[Resting].status # "CANCELLED"

PriorityInv == SoloInv /\ Arrival /\ AtBest /\ Takes

\* What the head of an ascending queue has before it: nothing.
LEMMA AscendingTail ==
    ASSUME NEW q \in Seq(Id), q # <<>>, Ascending(q)
    PROVE  Ascending(Tail(q)) /\ \A x \in Range(q) : x # Head(q) => Head(q) < x
<1>1. /\ Len(q) \in Nat \ {0} /\ DOMAIN q = 1..Len(q) /\ Head(q) = q[1]
      /\ DOMAIN Tail(q) = 1..(Len(q) - 1)
      /\ \A k \in 1..(Len(q) - 1) : Tail(q)[k] = q[k + 1]
  BY HeadTailProperties, EmptySeq, LenProperties
<1> DEFINE n == Len(q)
<1> HIDE DEF n
<1>2. /\ n \in Nat \ {0} /\ DOMAIN q = 1..n /\ DOMAIN Tail(q) = 1..(n - 1)
      /\ \A k \in 1..(n - 1) : Tail(q)[k] = q[k + 1]
      /\ Head(q) = q[1]
  BY <1>1 DEF n
<1>3. ASSUME NEW j \in 1..(n - 1), NEW k \in 1..(n - 1), j < k
      PROVE  Tail(q)[j] < Tail(q)[k]
  <2>1. j + 1 \in 1..n /\ k + 1 \in 1..n /\ j + 1 < k + 1
    BY <1>2, <1>3
  <2>2. QED
    BY <1>2, <2>1 DEF Ascending
<1>4. ASSUME NEW x \in Range(q), x # Head(q) PROVE Head(q) < x
  <2>1. PICK k \in 1..n : x = q[k]
    BY <1>2 DEF Range
  <2>2. k # 1
    BY <1>2, <1>4, <2>1
  <2>3. 1 \in 1..n /\ 1 < k
    BY <1>2, <2>1, <2>2
  <2>4. QED
    BY <1>2, <2>1, <2>3 DEF Ascending
<1>5. QED
  BY <1>2, <1>3, <1>4 DEF Ascending

LEMMA AscendingAppend ==
    ASSUME NEW q \in Seq(Id), NEW x \in Id, Ascending(q), \A y \in Range(q) : y < x
    PROVE  Ascending(Append(q, x))
<1>1. /\ Len(q) \in Nat /\ DOMAIN q = 1..Len(q)
      /\ DOMAIN Append(q, x) = 1..(Len(q) + 1)
      /\ \A k \in 1..Len(q) : Append(q, x)[k] = q[k]
      /\ Append(q, x)[Len(q) + 1] = x
  BY AppendProperties, LenProperties
<1> DEFINE n == Len(q)
           a == Append(q, x)
<1>2. /\ n \in Nat /\ DOMAIN q = 1..n /\ DOMAIN a = 1..(n + 1)
      /\ (\A k \in 1..n : a[k] = q[k]) /\ a[n + 1] = x
  BY <1>1
<1> HIDE DEF n, a
<1>3. ASSUME NEW j \in 1..(n + 1), NEW k \in 1..(n + 1), j < k
      PROVE  a[j] < a[k]
  <2>1. j \in 1..n /\ (k \in 1..n \/ k = n + 1)
    BY <1>2, <1>3
  <2>2. a[j] = q[j] /\ q[j] \in Range(q)
    BY <1>2, <2>1 DEF Range
  <2>3. CASE k \in 1..n
    BY <1>2, <1>3, <2>1, <2>3 DEF Ascending
  <2>4. CASE k = n + 1
    BY <1>2, <2>2, <2>4
  <2>5. QED
    BY <2>1, <2>3, <2>4
<1>4. Ascending(a)
  BY <1>2, <1>3 DEF Ascending
<1>5. QED
  BY <1>4 DEF a

\* popleft and append keep the deques in the order of arrival, since the order
\* that rests came last (lob.py:123, 155, 162).
LEMMA ArrivalStep ==
    ASSUME PriorityInv, LobNext
    PROVE  Arrival'
<1>1. /\ BookInv /\ Structure /\ Arrival /\ pc # "raised"
      /\ orders \in [Id -> Order] /\ queue \in [Side -> [Price -> Seq(Id)]]
  BY DEF PriorityInv, SoloInv, BookInv, LobTypeOK, Solo
<1>2. ASSUME UNCHANGED <<queue, inc>>, Midway' => Midway,
             \A i \in Id : orders'[i].status # "ABSENT" => orders[i].status # "ABSENT"
      PROVE  Arrival'
  BY <1>1, <1>2 DEF Arrival
<1>3. CASE SubmitNext
  <2>1. PICK i \in Id, s \in Side, t \in OrderType, p \in Price \cup {NoPrice}, q \in Quantity :
           /\ \A j \in Id : j < i <=> orders[j].status # "ABSENT"
           /\ Submit(i, s, t, p, q)
    BY <1>3 DEF SubmitNext
  <2>2. /\ inc' = i /\ queue' = queue
        /\ \A j \in Id : j # i => orders'[j] = orders[j]
    BY <1>1, <2>1 DEF Submit
  <2>3. \A j \in Id : orders'[j].status # "ABSENT" => j <= i
    BY <2>1, <2>2, LobAssumption DEF Id
  <2>4. QED
    BY <1>1, <2>2, <2>3 DEF Arrival
<1>4. CASE NextLevel \/ LeaveLevel \/ TakeHead
  <2>1. UNCHANGED <<queue, inc, orders>> /\ Midway
    BY <1>4 DEF NextLevel, LeaveLevel, TakeHead, Midway, InLevel
  <2>2. QED
    BY <1>2, <2>1
<1>5. CASE FillResting \/ StatusResting \/ FillIncoming
  <2>1. UNCHANGED <<queue, inc>> /\ Midway /\ pc \in InFill
    BY <1>5 DEF FillResting, StatusResting, FillIncoming, ApplyFill, Midway, InLevel, InFill
  <2>2. inc \in Id /\ Resting \in Id /\ Placed(Resting, Far, lvl)
        /\ orders[inc].status # "ABSENT"
    BY <1>1, <2>1, InSweep, HeadHeld DEF InFill, Structure, IncomingStatus
  <2>3. \A i \in Id : orders'[i].status # "ABSENT" => orders[i].status # "ABSENT"
    BY <1>1, <1>5, <2>2 DEF FillResting, StatusResting, FillIncoming, ApplyFill, Placed, Filled,
       Order
  <2>4. QED
    BY <1>2, <2>1, <2>3
<1>6. CASE SkipCancelled \/ StatusIncoming
  <2>1. /\ pc \in InLevel /\ Midway /\ queue[Far][lvl] # <<>> /\ inc' = inc
        /\ queue' \in {queue, [queue EXCEPT ![Far][lvl] = Tail(@)]}
    <3>1. CASE SkipCancelled
      BY <3>1 DEF SkipCancelled, Level, InLevel, Midway, matchvars
    <3>2. CASE StatusIncoming
      <4>1. pc \in InFill /\ Midway
        BY <3>2 DEF StatusIncoming, InFill, InLevel, Midway
      <4>2. QED
        BY <1>1, <3>2, <4>1, InSweep DEF StatusIncoming, InFill
    <3>3. QED
      BY <1>6, <3>1, <3>2
  <2>2. inc \in Id /\ orders[inc].status # "ABSENT" /\ Far \in Side /\ lvl \in Price
    BY <1>1, <2>1, InSweep DEF Structure, IncomingStatus
  <2>3. \A i \in Id : orders'[i].status # "ABSENT" => orders[i].status # "ABSENT"
    BY <1>1, <1>6, <2>2 DEF SkipCancelled, StatusIncoming, Order
  <2>4. Ascending(Tail(queue[Far][lvl]))
    BY <1>1, <2>1, <2>2, AscendingTail DEF Arrival
  <2>5. \A s \in Side, p \in Price :
           queue'[s][p] = queue[s][p] \/ queue'[s][p] = Tail(queue[Far][lvl])
    BY <1>1, <2>1, <2>2
  <2>6. QED
    BY <1>1, <2>1, <2>3, <2>4, <2>5 DEF Arrival
<1>7. CASE FinishSweep
  <2> DEFINE d == orders[inc].side
             at == orders[inc].price
  <2>1. /\ Midway /\ ~ Midway' /\ inc \in Id /\ d \in Side
        /\ Rests => at \in Price
        /\ IF Rests THEN queue' = [queue EXCEPT ![d][at] = Append(@, inc)] ELSE queue' = queue
    BY <1>1, <1>7, InSweep DEF FinishSweep, Midway, InLevel, BookInv, Sweeping, Rests
  <2>2. CASE Rests
    <3>1. \A y \in Held(d, at) : y \in Id /\ y # inc /\ orders[y].status # "ABSENT"
      BY <1>1, <2>1, <2>2, HeldType DEF Structure, IncomingApart, QueueSound, Placed
    <3>2. \A y \in Held(d, at) : y < inc
      BY <1>1, <2>1, <3>1, LobAssumption DEF Arrival, Id
    <3>3. Ascending(Append(queue[d][at], inc))
      BY <1>1, <2>1, <2>2, <3>2, AscendingAppend DEF Arrival, Held
    <3>4. \A s \in Side, p \in Price :
             queue'[s][p] = queue[s][p] \/ queue'[s][p] = Append(queue[d][at], inc)
      <4> DEFINE more == Append(queue[d][at], inc)
      <4>1. queue' = [queue EXCEPT ![d][at] = more]
        BY <2>1, <2>2
      <4> HIDE DEF more, d, at
      <4>2. QED
        BY <1>1, <2>1, <2>2, <4>1 DEF more
    <3>5. QED
      BY <1>1, <2>1, <3>3, <3>4 DEF Arrival
  <2>3. CASE ~ Rests
    BY <1>1, <2>1, <2>3 DEF Arrival
  <2>4. QED
    BY <2>2, <2>3
<1>8. ASSUME NEW i \in Id, CancelLob(i) PROVE Arrival'
  <2>1. /\ UNCHANGED <<queue, inc, pc>> /\ orders[i].status # "ABSENT"
        /\ orders' = [orders EXCEPT ![i].status = "CANCELLED"]
    BY <1>8 DEF CancelLob, Cancelled, matchvars, Fillable
  <2>2. \A j \in Id : orders'[j].status # "ABSENT" => orders[j].status # "ABSENT"
    BY <1>1, <2>1 DEF Order
  <2>3. QED
    BY <1>2, <2>1, <2>2 DEF Midway
<1>9. QED
  BY <1>3, <1>4, <1>5, <1>6, <1>7, <1>8 DEF LobNext, MatchStep

\* The halves of apply_fill do not change what has been traded as of the last
\* completed fill.
LEMMA HalvesCancel ==
    ASSUME PriorityInv, FillResting \/ StatusResting \/ FillIncoming
    PROVE  /\ \A i \in Id : /\ LeftOver'[i] = LeftOver[i] /\ Worth'[i] = Worth[i]
                            /\ orders'[i].side = orders[i].side
                            /\ orders'[i].type = orders[i].type
                            /\ orders'[i].price = orders[i].price
                            /\ orders'[i].status = "ABSENT" <=> orders[i].status = "ABSENT"
                            /\ orders'[i].status = "CANCELLED" <=> orders[i].status = "CANCELLED"
           /\ pc \in InFill /\ pc' \in InFill /\ Resting' = Resting
           /\ UNCHANGED <<keys, queue, inc, lvl, fq, swept>>
<1>1. /\ pc \in {"fill_resting", "status_resting", "fill_incoming"} /\ Midway
      /\ pc \in InFill /\ pc \in InLevel /\ UNCHANGED <<keys, queue, inc, lvl, fq, swept>>
      /\ orders \in [Id -> Order] /\ fq \in Int /\ BookInv /\ Structure
  BY DEF FillResting, StatusResting, FillIncoming, ApplyFill, InLevel, InFill, Midway,
     PriorityInv, SoloInv, BookInv, LobTypeOK
<1>2. /\ inc \in Id /\ Resting \in Id /\ Resting # inc /\ Placed(Resting, Far, lvl)
      /\ Far \in Side /\ orders[inc] \in Order /\ lvl \in Price /\ lvl \in Int
  <2>1. inc \in Id /\ Far \in Side /\ orders[inc] \in Order /\ lvl \in Price /\ queue[Far][lvl] # <<>>
    BY <1>1, InSweep
  <2>2. Resting \in Id /\ Resting # inc /\ Placed(Resting, Far, lvl)
    BY <1>1, <2>1, HeadHeld
  <2>3. lvl \in Int
    BY <2>1, LobAssumption
  <2>4. QED
    BY <2>1, <2>2, <2>3
<1>3. orders[inc].status \in Fillable /\ 0 < fq /\ fq <= orders[inc].leaves
  BY <1>1 DEF PriorityInv, SoloInv, Solo
<1> DEFINE money == fq * lvl
<1>4. money \in Int
  BY <1>1, <1>2
<1>5. \A o \in Order : /\ Filled(o).leaves = o.leaves - fq /\ Filled(o).value = o.value + money
                       /\ Filled(o).side = o.side /\ Filled(o).type = o.type
                       /\ Filled(o).price = o.price /\ Filled(o).status = o.status
  BY DEF Filled, Order
<1>6. \A i \in Id : /\ LeftOver[i] = orders[i].leaves + IF Unfinished(i) THEN fq ELSE 0
                    /\ Worth[i] = orders[i].value - IF Unfinished(i) THEN money ELSE 0
                    /\ LeftOver'[i] = orders'[i].leaves + IF Unfinished(i)' THEN fq ELSE 0
                    /\ Worth'[i] = orders'[i].value - IF Unfinished(i)' THEN money ELSE 0
  BY <1>1 DEF LeftOver, Worth
<1>7. \A i \in Id : orders[i] \in Order /\ orders[i].leaves \in Int /\ orders[i].value \in Int
  BY <1>1 DEF Order
<1> HIDE DEF money
<1>8. ASSUME FillResting
      PROVE  /\ pc' = "status_resting" /\ Resting' = Resting
             /\ \A i \in Id : /\ LeftOver'[i] = LeftOver[i] /\ Worth'[i] = Worth[i]
                              /\ orders'[i].side = orders[i].side
                              /\ orders'[i].type = orders[i].type
                              /\ orders'[i].price = orders[i].price
                              /\ orders'[i].status = orders[i].status
  <2>1. /\ pc = "fill_resting" /\ CanFill(Resting) /\ pc' = "status_resting"
        /\ orders' = [orders EXCEPT ![Resting] = Filled(orders[Resting])]
    BY <1>3, <1>8 DEF FillResting, ApplyFill, CanFill, PriorityInv, SoloInv, Solo
  <2>2. Far' = Far
    BY <1>1, <1>2, <2>1 DEF Far
  <2>3. Resting' = Resting
    BY <1>1, <2>2 DEF Resting
  <2>4. \A i \in Id : ~ Unfinished(i) /\ (Unfinished(i)' <=> i = Resting)
    BY <2>1, <2>3 DEF Unfinished
  <2>5. QED
    BY <1>1, <1>2, <1>4, <1>5, <1>6, <1>7, <2>1, <2>3, <2>4
<1>9. ASSUME StatusResting
      PROVE  /\ pc' = "fill_incoming" /\ Resting' = Resting
             /\ \A i \in Id : /\ LeftOver'[i] = LeftOver[i] /\ Worth'[i] = Worth[i]
                              /\ orders'[i].side = orders[i].side
                              /\ orders'[i].type = orders[i].type
                              /\ orders'[i].price = orders[i].price
                              /\ orders'[i].status = "ABSENT" <=> orders[i].status = "ABSENT"
                              /\ orders'[i].status = "CANCELLED" <=> orders[i].status = "CANCELLED"
  <2>1. /\ pc = "status_resting" /\ pc' = "fill_incoming"
        /\ orders' = [orders EXCEPT ![Resting].status = StatusAfter(orders[Resting])]
    BY <1>9 DEF StatusResting
  <2>2. orders[Resting].status \in Fillable /\ StatusAfter(orders[Resting]) \in {"FILLED", "PARTIAL"}
    BY <1>2, <2>1 DEF PriorityInv, SoloInv, Solo, Statuses, Behind, StatusAfter
  <2>3. \A i \in Id : /\ orders'[i].side = orders[i].side /\ orders'[i].type = orders[i].type
                      /\ orders'[i].price = orders[i].price
                      /\ orders'[i].leaves = orders[i].leaves /\ orders'[i].value = orders[i].value
                      /\ i # Resting => orders'[i] = orders[i]
    BY <1>1, <1>7, <2>1 DEF Order
  <2>4. orders'[Resting].status \in {"FILLED", "PARTIAL"}
    BY <1>1, <1>2, <1>7, <2>1, <2>2 DEF Order
  <2>5. Far' = Far
    BY <1>1, <1>2, <2>3 DEF Far
  <2>6. Resting' = Resting
    BY <1>1, <2>5 DEF Resting
  <2>7. \A i \in Id : Unfinished(i)' <=> Unfinished(i)
    BY <2>1, <2>6 DEF Unfinished
  <2>8. QED
    BY <1>6, <2>1, <2>2, <2>3, <2>4, <2>6, <2>7 DEF Fillable
<1>10. ASSUME FillIncoming
      PROVE  /\ pc' = "status_incoming" /\ Resting' = Resting
             /\ \A i \in Id : /\ LeftOver'[i] = LeftOver[i] /\ Worth'[i] = Worth[i]
                              /\ orders'[i].side = orders[i].side
                              /\ orders'[i].type = orders[i].type
                              /\ orders'[i].price = orders[i].price
                              /\ orders'[i].status = orders[i].status
  <2>1. /\ pc = "fill_incoming" /\ CanFill(inc) /\ pc' = "status_incoming"
        /\ orders' = [orders EXCEPT ![inc] = Filled(orders[inc])]
    BY <1>3, <1>10 DEF FillIncoming, ApplyFill, CanFill
  <2>2. Far' = Far
    BY <1>1, <1>2, <1>5, <2>1 DEF Far
  <2>3. Resting' = Resting
    BY <1>1, <2>2 DEF Resting
  <2>4. \A i \in Id : /\ Unfinished(i) <=> i = Resting
                      /\ Unfinished(i)' <=> i = Resting \/ i = inc
    BY <1>1, <2>1, <2>3 DEF Unfinished
  <2>5. QED
    BY <1>1, <1>2, <1>4, <1>5, <1>6, <1>7, <2>1, <2>3, <2>4
<1>11. QED
  BY <1>1, <1>8, <1>9, <1>10 DEF InFill, InLevel

\* Levels are entered at the best price, and a fill changes neither the prices
\* nor the side that is swept (lob.py:101-110).
LEMMA AtBestStep ==
    ASSUME PriorityInv, LobNext
    PROVE  AtBest'
<1>1. /\ BookInv /\ Structure /\ AtBest /\ pc # "raised" /\ orders \in [Id -> Order]
  BY DEF PriorityInv, SoloInv, BookInv, LobTypeOK, Solo
<1>2. CASE SubmitNext \/ FinishSweep \/ LeaveLevel \/ \E i \in Id : CancelLob(i)
  <2>1. pc' \in {"sweep", "idle"}
    BY <1>2 DEF SubmitNext, Submit, FinishSweep, LeaveLevel, CancelLob, Cancelled
  <2>2. QED
    BY <2>1 DEF AtBest, InLevel
<1>3. CASE NextLevel
  <2>1. PICK p \in Ahead : IsBest(p) /\ Crosses(p) /\ lvl' = p
    BY <1>3 DEF NextLevel
  <2>2. UNCHANGED <<orders, keys, inc, swept>>
    BY <1>3 DEF NextLevel
  <2>3. IsBest(p)' /\ Crosses(p)'
    BY <2>1, <2>2 DEF IsBest, Crosses, Ahead, Far
  <2>4. QED
    BY <2>1, <2>3 DEF AtBest, IsBest, Crosses
<1>4. CASE SkipCancelled \/ TakeHead \/ FillResting \/ StatusResting \/ FillIncoming \/ StatusIncoming
  <2>1. /\ pc \in InLevel /\ Midway /\ UNCHANGED <<keys, inc, lvl, swept>>
        /\ pc \notin {"level"} => pc \in InFill
    BY <1>4 DEF SkipCancelled, TakeHead, FillResting, StatusResting, FillIncoming,
       StatusIncoming, ApplyFill, matchvars, InLevel, InFill, Midway
  <2>2. inc \in Id /\ (pc \in InFill => Resting \in Id)
    BY <1>1, <2>1, InSweep, HeadHeld DEF InFill
  <2>3. /\ orders'[inc].side = orders[inc].side /\ orders'[inc].type = orders[inc].type
        /\ orders'[inc].price = orders[inc].price
    <3>1. CASE FillResting \/ StatusResting \/ FillIncoming
      BY <2>2, <3>1, HalvesCancel
    <3>2. CASE SkipCancelled \/ TakeHead
      BY <3>2 DEF SkipCancelled, TakeHead
    <3>3. CASE StatusIncoming
      BY <1>1, <2>2, <3>3 DEF StatusIncoming, Order
    <3>4. QED
      BY <1>4, <3>1, <3>2, <3>3
  <2>4. Far' = Far /\ Ahead' = Ahead
    BY <2>1, <2>3 DEF Far, Ahead
  <2>5. QED
    BY <1>1, <2>1, <2>3, <2>4 DEF AtBest, IsBest, Crosses
<1>5. QED
  BY <1>2, <1>3, <1>4 DEF LobNext, MatchStep

LEMMA TakesStep ==
    ASSUME PriorityInv, LobNext
    PROVE  Takes'
<1>1. CASE TakeHead
  <2>1. /\ pc' = "fill_resting" /\ UNCHANGED <<orders, queue, inc, lvl>>
        /\ fq' \in {orders[Resting].leaves, orders[inc].leaves}
        /\ pc = "level" /\ Midway /\ pc \in InLevel /\ queue[Far][lvl] # <<>>
        /\ orders[Resting].status # "CANCELLED"
        /\ BookInv /\ Structure /\ orders \in [Id -> Order]
    BY <1>1 DEF TakeHead, PriorityInv, SoloInv, BookInv, LobTypeOK, Midway, InLevel, Level
  <2>2. inc \in Id /\ Resting \in Id
    BY <2>1, InSweep, HeadHeld
  <2>3. orders[inc].leaves \in Int /\ orders[Resting].leaves \in Int
    BY <2>1, <2>2 DEF Order
  <2>4. Resting' = Resting /\ \A i : ~ Unfinished(i)'
    BY <2>1 DEF Resting, Far, Unfinished
  <2>5. LeftOver'[Resting] = orders[Resting].leaves /\ LeftOver'[inc] = orders[inc].leaves
    BY <2>1, <2>2, <2>3, <2>4 DEF LeftOver
  <2>6. fq' > 0
    BY <1>1, <2>1, TakeHeadSolo DEF PriorityInv, Solo
  <2>7. QED
    BY <2>1, <2>4, <2>5, <2>6 DEF Takes
<1>2. CASE FillResting \/ StatusResting \/ FillIncoming
  <2>1. pc \in InLevel /\ Midway /\ BookInv /\ Structure /\ Takes
    BY <1>2, HalvesCancel DEF PriorityInv, SoloInv, Midway, InFill
  <2>2. inc \in Id /\ Resting \in Id /\ pc \in InFill
    BY <1>2, <2>1, InSweep, HeadHeld, HalvesCancel
  <2>3. LeftOver'[Resting] = LeftOver[Resting] /\ LeftOver'[inc] = LeftOver[inc]
    BY <1>2, <2>2, HalvesCancel
  <2>4. QED
    BY <1>2, <2>1, <2>2, <2>3, HalvesCancel DEF Takes
<1>3. CASE ~ (TakeHead \/ FillResting \/ StatusResting \/ FillIncoming)
  <2>1. pc' \in {"sweep", "idle", "level"}
    BY <1>3 DEF LobNext, MatchStep, SubmitNext, Submit, NextLevel, FinishSweep, SkipCancelled,
       LeaveLevel, StatusIncoming, CancelLob, Cancelled
  <2>2. QED
    BY <2>1 DEF Takes, InFill, InLevel
<1>4. QED
  BY <1>1, <1>2, <1>3

\* In every state the deques are in the order of arrival, no level ahead is better
\* than the one under way, and a fill takes all that one of its orders has left
\* (lob.py:101-167).
THEOREM PriorityKept == LobSpec => []PriorityInv
<1>1. LobInit => Arrival /\ AtBest /\ Takes
  <2> SUFFICES ASSUME LobInit PROVE Arrival /\ AtBest /\ Takes
    OBVIOUS
  <2>1. pc = "idle" /\ \A s \in Side, p \in Price : queue[s][p] = <<>>
    BY DEF LobInit
  <2>2. Ascending(<<>>)
    BY DEF Ascending
  <2>3. QED
    BY <2>1, <2>2 DEF Arrival, AtBest, Takes, Midway, InLevel, InFill
<1>2. PriorityInv /\ [LobNext]_lobvars => Arrival' /\ AtBest' /\ Takes'
  <2> SUFFICES ASSUME PriorityInv, [LobNext]_lobvars
               PROVE  Arrival' /\ AtBest' /\ Takes'
    OBVIOUS
  <2>1. CASE LobNext
    BY <2>1, ArrivalStep, AtBestStep, TakesStep
  <2>2. CASE UNCHANGED lobvars
    BY <2>2 DEF lobvars, PriorityInv, Arrival, AtBest, Takes, Midway, IsBest, Crosses, Ahead,
       Far, LeftOver, Unfinished, Resting
  <2>3. QED
    BY <2>1, <2>2
<1>3. PriorityInv <=> SoloInv /\ Arrival /\ AtBest /\ Takes
  BY DEF PriorityInv
<1>4. QED
  BY <1>1, <1>2, <1>3, SequentialBook, PTL DEF LobSpec

\* The steps of the book in the abstract state, a variable at a time.
LEMMA SameBook ==
    ASSUME UNCHANGED <<Arrived, Terms, LeftOver, Worth, InBook, Active>>
    PROVE  UNCHANGED Implemented!pvars
  BY DEF Implemented!pvars

LEMMA AbstractTrade ==
    ASSUME NEW r \in Id, Active # 0, LeftOver[Active] > 0, r \in InBook,
           Terms[r].side = Opposite(Terms[Active].side),
           \/ Terms[Active].type = "MARKET"
           \/ Terms[Active].side = "BUY" /\ Terms[Active].price >= Terms[r].price
           \/ Terms[Active].side = "SELL" /\ Terms[Active].price <= Terms[r].price,
           \A o \in InBook \ {r} :
              Terms[o].side = Terms[r].side =>
                \/ Terms[r].side = "SELL" /\ Terms[r].price < Terms[o].price
                \/ Terms[r].side = "BUY" /\ Terms[r].price > Terms[o].price
                \/ Terms[r].price = Terms[o].price /\ r < o,
           NEW q, q = IF LeftOver[r] < LeftOver[Active] THEN LeftOver[r] ELSE LeftOver[Active],
           LeftOver' = [LeftOver EXCEPT ![r] = @ - q, ![Active] = @ - q],
           Worth' = [Worth EXCEPT ![r] = @ + q * Terms[r].price,
                                  ![Active] = @ + q * Terms[r].price],
           InBook' = IF LeftOver[r] = q THEN InBook \ {r} ELSE InBook,
           UNCHANGED <<Arrived, Terms, Active>>
    PROVE  Implemented!Trade(r)
  BY DEF Implemented!Trade, Implemented!NoOrder, Implemented!Matches, Implemented!Opposite,
     Opposite, Implemented!Precedes

\* The book holds, of each side and price, the orders in that deque that are not
\* cancelled.
LEMMA InBookIs ==
    ASSUME BookInv
    PROVE  /\ InBook \subseteq Id
           /\ \A i : i \in InBook <=> /\ \E s \in Side, p \in Price : i \in Held(s, p)
                                      /\ orders[i].status # "CANCELLED"
<1>1. \A i : i \in InBook <=> /\ \E s \in Side, p \in Price : i \in Held(s, p)
                              /\ orders[i].status # "CANCELLED"
  BY DEF InBook
<1>2. \A s \in Side, p \in Price : Held(s, p) \subseteq Id
  BY HeldType
<1>3. QED
  BY <1>1, <1>2

\* Sweeping, skipping cancelled orders and the halves of apply_fill change
\* nothing of what the book promises.
LEMMA SilentStep ==
    ASSUME PriorityInv, PriorityInv',
           NextLevel \/ LeaveLevel \/ TakeHead \/ SkipCancelled
             \/ FillResting \/ StatusResting \/ FillIncoming
    PROVE  UNCHANGED Implemented!pvars
<1>1. /\ BookInv /\ Structure /\ BookInv' /\ pc # "raised" /\ pc # "idle" /\ pc' # "idle" /\ inc' = inc
      /\ orders \in [Id -> Order] /\ queue \in [Side -> [Price -> Seq(Id)]]
  BY DEF PriorityInv, SoloInv, BookInv, LobTypeOK, Solo, NextLevel, LeaveLevel, TakeHead,
     SkipCancelled, FillResting, StatusResting, FillIncoming, ApplyFill, matchvars
<1>2. Active' = Active
  BY <1>1 DEF Active
<1>3. CASE NextLevel \/ LeaveLevel \/ TakeHead \/ SkipCancelled
  <2>1. orders' = orders /\ \A i \in Id : ~ Unfinished(i) /\ ~ Unfinished(i)'
    BY <1>3 DEF NextLevel, LeaveLevel, TakeHead, SkipCancelled, Unfinished
  <2>2. UNCHANGED <<Arrived, Terms, LeftOver, Worth>>
    BY <2>1 DEF Arrived, Terms, LeftOver, Worth
  <2>3. \A i : i \in InBook' <=> i \in InBook
    <3>1. CASE NextLevel \/ LeaveLevel \/ TakeHead
      <4>1. queue' = queue
        BY <3>1 DEF NextLevel, LeaveLevel, TakeHead
      <4>2. QED
        BY <2>1, <4>1 DEF InBook, Held
    <3>2. CASE SkipCancelled
      <4>1. /\ pc \in InLevel /\ queue[Far][lvl] # <<>> /\ orders[Resting].status = "CANCELLED"
            /\ queue' = [queue EXCEPT ![Far][lvl] = Tail(@)]
        BY <3>2 DEF SkipCancelled, InLevel, Level
      <4>2. \A s \in Side, p \in Price, i \in Id :
               orders[i].status # "CANCELLED" => (i \in Held(s, p)' <=> i \in Held(s, p))
        BY <1>1, <4>1, HeadPopped
      <4>3. \A s \in Side, p \in Price : Held(s, p)' \subseteq Id /\ Held(s, p) \subseteq Id
        BY <1>1, <4>1, HeadPopped, HeldType
      <4>4. QED
        BY <2>1, <4>2, <4>3 DEF InBook
    <3>3. QED
      BY <1>3, <3>1, <3>2
  <2>4. InBook' = InBook
    BY <2>3 DEF InBook
  <2>5. QED
    BY <1>2, <2>2, <2>4, SameBook
<1>4. CASE FillResting \/ StatusResting \/ FillIncoming
  <2>1. \A i \in Id : /\ LeftOver'[i] = LeftOver[i] /\ Worth'[i] = Worth[i]
                      /\ orders'[i].side = orders[i].side
                      /\ orders'[i].type = orders[i].type
                      /\ orders'[i].price = orders[i].price
                      /\ orders'[i].status = "ABSENT" <=> orders[i].status = "ABSENT"
                      /\ orders'[i].status = "CANCELLED" <=> orders[i].status = "CANCELLED"
    BY <1>4, HalvesCancel
  <2>2. LeftOver' = LeftOver /\ Worth' = Worth
    BY <2>1 DEF LeftOver, Worth
  <2>3. Arrived' = Arrived /\ Terms' = Terms
    BY <2>1 DEF Arrived, Terms
  <2>4. queue' = queue
    BY <1>4, HalvesCancel
  <2>5. \A s \in Side, p \in Price : Held(s, p)' = Held(s, p) /\ Held(s, p) \subseteq Id
    BY <1>1, <2>4, HeldType DEF Held
  <2>6. InBook' = InBook
    BY <2>1, <2>5 DEF InBook
  <2>7. QED
    BY <1>2, <2>2, <2>3, <2>6, SameBook
<1>5. QED
  BY <1>3, <1>4

\* A submission is an arrival (lob.py:60-74).
LEMMA SubmitArrives ==
    ASSUME PriorityInv, SubmitNext
    PROVE  Implemented!Next
<1>1. PICK i \in Id, s \in Side, t \in OrderType, p \in Price \cup {NoPrice}, q \in Quantity :
         /\ \A j \in Id : j < i <=> orders[j].status # "ABSENT"
         /\ Submit(i, s, t, p, q)
  BY DEF SubmitNext
<1> DEFINE o == NewOrder(s, t, p, q)
           said == [side |-> s, type |-> t, price |-> p]
<1>2. /\ pc = "idle" /\ pc' = "sweep" /\ inc' = i /\ orders[i].status = "ABSENT"
      /\ t = "LIMIT" <=> p > 0
      /\ orders' = [orders EXCEPT ![i] = o] /\ queue' = queue
      /\ BookInv /\ Structure /\ Accounts /\ orders \in [Id -> Order]
  BY <1>1 DEF Submit, PriorityInv, SoloInv, BookInv, LobTypeOK
<1>3. /\ o.side = s /\ o.type = t /\ o.price = p /\ o.leaves = q /\ o.value = 0
      /\ o.status = "NEW"
  BY DEF NewOrder
<1>4. orders[i] = Unsubmitted
  BY <1>2 DEF Accounts, Conserved
<1>5. q \in Int /\ p \in Int
  BY LobAssumption
<1> HIDE DEF o
<1>6. \A j : ~ Unfinished(j) /\ ~ Unfinished(j)'
  BY <1>2 DEF Unfinished
<1>7. \A j \in Id : orders[j].leaves \in Int /\ orders[j].value \in Int
  BY <1>2 DEF Order
<1>8. Active = 0 /\ Active' = i
  BY <1>2 DEF Active, NoId
<1>9. Arrived' = Arrived \cup {i} /\ \A j \in Arrived : j < i
  BY <1>1, <1>2, <1>3 DEF Arrived
<1>10. Terms' = [Terms EXCEPT ![i] = said]
  BY <1>2, <1>3 DEF Terms
<1>11. LeftOver' = [LeftOver EXCEPT ![i] = q]
  <2>1. \A j \in Id : LeftOver[j] = orders[j].leaves /\ LeftOver'[j] = orders'[j].leaves
    BY <1>2, <1>3, <1>5, <1>6, <1>7 DEF LeftOver
  <2>2. \A j \in Id : LeftOver'[j] = IF j = i THEN q ELSE LeftOver[j]
    BY <1>2, <1>3, <2>1
  <2>3. LeftOver' = [j \in Id |-> LeftOver'[j]] /\ LeftOver = [j \in Id |-> LeftOver[j]]
    BY DEF LeftOver
  <2>4. QED
    BY <2>2, <2>3
<1>12. Worth' = Worth
  <2>1. \A j \in Id : Worth[j] = orders[j].value /\ Worth'[j] = orders'[j].value
    BY <1>2, <1>3, <1>5, <1>6, <1>7 DEF Worth
  <2>2. \A j \in Id : Worth'[j] = Worth[j]
    BY <1>2, <1>3, <1>4, <2>1 DEF Unsubmitted
  <2>3. Worth' = [j \in Id |-> Worth'[j]] /\ Worth = [j \in Id |-> Worth[j]]
    BY DEF Worth
  <2>4. QED
    BY <2>2, <2>3
<1>13. InBook' = InBook
  <2>1. \A b \in Side, k \in Price : i \notin Held(b, k) /\ Held(b, k)' = Held(b, k) /\ Held(b, k) \subseteq Id
    BY <1>2, HeldType DEF Structure, QueueSound, Placed, Held
  <2>2. \A j \in Id : j # i => orders'[j] = orders[j]
    BY <1>2
  <2>3. QED
    BY <2>1, <2>2 DEF InBook
<1>14. said \in Implemented!Terms /\ said.type = t /\ said.price = p
  BY DEF Implemented!Terms, Implemented!Side, Side, OrderType, NoPrice
<1> HIDE DEF said
<1>15. Implemented!Arrive(i, said, q)
  BY <1>2, <1>8, <1>9, <1>10, <1>11, <1>12, <1>13, <1>14 DEF Implemented!Arrive, Implemented!NoOrder
<1>16. QED
  BY <1>14, <1>15 DEF Implemented!Next

\* Where an order that can trade with the incoming one is: in a level ahead,
\* which is no better than the best.
LEMMA MatchesAhead ==
    ASSUME PriorityInv, Midway, NEW r \in InBook, orders[r].side = Far, NEW b \in Ahead, IsBest(b)
    PROVE  /\ r \in Id /\ orders[r].price \in Ahead /\ orders[r].price \in Price
           /\ r \in Held(Far, orders[r].price)
           /\ IF Far = "SELL" THEN b <= orders[r].price ELSE b >= orders[r].price
<1>1. BookInv /\ Structure /\ pc # "raised" /\ Far \in Side
  BY InSweep DEF PriorityInv, SoloInv, Solo
<1>2. PICK s \in Side, p \in Price : r \in Held(s, p)
  BY DEF InBook
<1>3. s = Far /\ p = orders[r].price /\ r \in Id
  BY <1>1, <1>2, HeldType DEF Structure, QueueSound, Placed
<1>4. p \in Ahead
  BY <1>1, <1>2, <1>3 DEF Structure, KeysMatch, SweptEmpty, Ahead
<1>5. QED
  BY <1>2, <1>3, <1>4 DEF IsBest

\* A completed fill is a trade with the order that has price-time priority
\* (lob.py:149-167).
LEMMA FillTrades ==
    ASSUME PriorityInv, PriorityInv', StatusIncoming
    PROVE  Implemented!Trade(Resting)
<1>1. /\ pc = "status_incoming" /\ pc' = "level" /\ Midway /\ pc \in InLevel /\ pc \in InFill
      /\ pc # "raised" /\ UNCHANGED <<keys, inc, lvl, fq, swept>>
      /\ orders' = [orders EXCEPT ![inc].status = StatusAfter(orders[inc])]
      /\ queue' = IF orders[Resting].leaves = 0
                    THEN [queue EXCEPT ![Far][lvl] = Tail(@)] ELSE queue
      /\ BookInv /\ Structure /\ BookInv' /\ orders \in [Id -> Order] /\ fq \in Int
      /\ queue \in [Side -> [Price -> Seq(Id)]]
  BY DEF StatusIncoming, PriorityInv, SoloInv, BookInv, LobTypeOK, Midway, InLevel, InFill
<1>2. inc \in Id /\ Far \in Side /\ orders[inc].side # Far /\ lvl \in Price /\ queue[Far][lvl] # <<>>
  BY <1>1, InSweep
<1>3. /\ Resting \in Id /\ Resting # inc /\ Placed(Resting, Far, lvl)
      /\ Resting \in Held(Far, lvl)
  BY <1>1, <1>2, HeadHeld
<1>4. PICK r \in Id : r = Resting
  BY <1>3
<1>5. orders[r].leaves \in Int /\ orders[inc].leaves \in Int /\ orders[r].leaves >= 0
      /\ orders[inc].leaves >= 0 /\ orders[r].value \in Int /\ orders[inc].value \in Int
  BY <1>1, <1>2, <1>4 DEF Structure, RestingStatus, IncomingStatus, Order, InFill, InLevel
<1>6. fq > 0 /\ fq \in {LeftOver[r], LeftOver[inc]} /\ orders[r].status # "CANCELLED"
  BY <1>1, <1>4 DEF PriorityInv, Takes
<1>7. orders[inc].status \notin {"CANCELLED", "ABSENT"} /\ StatusAfter(orders[inc]) \in {"FILLED", "PARTIAL"}
  BY <1>1 DEF PriorityInv, SoloInv, Solo, Structure, IncomingStatus, StatusAfter
<1>8. \A i \in Id :
         /\ orders'[i].side = orders[i].side /\ orders'[i].type = orders[i].type
         /\ orders'[i].price = orders[i].price
         /\ orders'[i].leaves = orders[i].leaves /\ orders'[i].value = orders[i].value
         /\ i # inc => orders'[i].status = orders[i].status
         /\ i = inc => orders'[i].status \in {"FILLED", "PARTIAL"}
  BY <1>1, <1>2, <1>7 DEF Order
<1>9. \A i \in Id : (Unfinished(i) <=> i = r \/ i = inc) /\ ~ Unfinished(i)'
  BY <1>1, <1>4 DEF Unfinished
<1>10. \A i \in Id : orders[i].leaves \in Int /\ orders[i].value \in Int
  BY <1>1 DEF Order
<1>11. UNCHANGED <<Arrived, Terms, Active>>
  <2>1. Arrived' = Arrived
    BY <1>7, <1>8 DEF Arrived
  <2>2. Terms' = Terms
    BY <1>8 DEF Terms
  <2>3. Active' = Active
    BY <1>1 DEF Active
  <2>4. QED
    BY <2>1, <2>2, <2>3
<1>12. Active = inc /\ inc # 0 /\ Terms[r].price = lvl /\ Terms[r].side = Far
       /\ Terms[inc].side = orders[inc].side /\ Terms[inc].type = orders[inc].type
       /\ Terms[inc].price = orders[inc].price
  BY <1>1, <1>2, <1>3, <1>4, LobAssumption DEF Active, Terms, Placed, Id
<1> DEFINE money == fq * lvl
<1>13. money \in Int
  BY <1>1, <1>2, LobAssumption
<1>14. \A i \in Id : /\ LeftOver[i] = orders[i].leaves + IF i = r \/ i = inc THEN fq ELSE 0
                     /\ LeftOver'[i] = orders[i].leaves
                     /\ Worth[i] = orders[i].value - IF i = r \/ i = inc THEN money ELSE 0
                     /\ Worth'[i] = orders[i].value
  <2>1. ASSUME NEW i \in Id
        PROVE  /\ LeftOver[i] = orders[i].leaves + IF Unfinished(i) THEN fq ELSE 0
               /\ LeftOver'[i] = orders'[i].leaves + IF Unfinished(i)' THEN fq' ELSE 0
               /\ Worth[i] = orders[i].value - IF Unfinished(i) THEN money ELSE 0
               /\ Worth'[i] = orders'[i].value - IF Unfinished(i)' THEN money' ELSE 0
    BY DEF LeftOver, Worth
  <2> HIDE DEF money
  <2>2. QED
    BY <1>8, <1>9, <1>10, <2>1
<1>15. fq * Terms[r].price = money
  BY <1>12
<1> HIDE DEF money
<1>16. fq = IF LeftOver[r] < LeftOver[Active] THEN LeftOver[r] ELSE LeftOver[Active]
  BY <1>1, <1>2, <1>5, <1>6, <1>12, <1>14
<1>17. LeftOver' = [LeftOver EXCEPT ![r] = @ - fq, ![Active] = @ - fq]
  <2>1. ASSUME NEW i \in Id
        PROVE  LeftOver'[i] = IF i = r \/ i = inc THEN LeftOver[i] - fq ELSE LeftOver[i]
    <3>1. /\ orders[i].leaves \in Int /\ fq \in Int /\ LeftOver'[i] = orders[i].leaves
          /\ LeftOver[i] = orders[i].leaves + IF i = r \/ i = inc THEN fq ELSE 0
      BY <1>1, <1>10, <1>14
    <3>2. QED
      BY <3>1
  <2>2. LeftOver' = [i \in Id |-> LeftOver'[i]] /\ LeftOver = [i \in Id |-> LeftOver[i]]
    BY DEF LeftOver
  <2>3. QED
    BY <1>2, <1>3, <1>4, <1>12, <2>1, <2>2
<1>18. Worth' = [Worth EXCEPT ![r] = @ + fq * Terms[r].price, ![Active] = @ + fq * Terms[r].price]
  <2>1. \A i \in Id : Worth'[i] = IF i = r \/ i = inc THEN Worth[i] + money ELSE Worth[i]
    BY <1>10, <1>13, <1>14
  <2>2. Worth' = [i \in Id |-> Worth'[i]] /\ Worth = [i \in Id |-> Worth[i]]
    BY DEF Worth
  <2>3. Worth' = [Worth EXCEPT ![r] = @ + money, ![Active] = @ + money]
    BY <1>2, <1>3, <1>4, <1>12, <2>1, <2>2
  <2>4. QED
    BY <1>15, <2>3
<1>19. InBook' = IF LeftOver[r] = fq THEN InBook \ {r} ELSE InBook
  <2>1. LeftOver[r] = fq <=> orders[r].leaves = 0
    BY <1>1, <1>5, <1>14
  <2>2. \A s \in Side, p \in Price :
           /\ Held(s, p) \subseteq Id
           /\ Held(s, p)' = IF orders[r].leaves = 0 THEN Held(s, p) \ {r} ELSE Held(s, p)
    <3>1. ASSUME NEW s \in Side, NEW p \in Price
          PROVE  /\ Held(s, p) \subseteq Id
                 /\ Held(s, p)' = IF orders[r].leaves = 0 THEN Held(s, p) \ {r} ELSE Held(s, p)
      <4>1. Held(s, p) \subseteq Id /\ (r \in Held(s, p) => s = Far /\ p = lvl)
        BY <1>1, <1>3, <1>4, HeldType DEF Structure, QueueSound, Placed
      <4>2. CASE orders[r].leaves = 0
        <5>1. queue' = [queue EXCEPT ![Far][lvl] = Tail(@)]
          BY <1>1, <1>4, <4>2
        <5>2. Held(s, p)' = Held(s, p) \ (IF s = Far /\ p = lvl THEN {Resting} ELSE {})
          BY <1>1, <1>2, <5>1, HeadPopped
        <5>3. QED
          BY <1>4, <4>1, <4>2, <5>2
      <4>3. CASE orders[r].leaves # 0
        BY <1>1, <1>4, <4>1, <4>3 DEF Held
      <4>4. QED
        BY <4>2, <4>3
    <3>2. QED
      BY <3>1
  <2>3. \A i \in Id : orders'[i].status = "CANCELLED" <=> orders[i].status = "CANCELLED"
    BY <1>7, <1>8
  <2>4. CASE orders[r].leaves = 0
    <3>1. \A i : i \in InBook' <=> i \in InBook \ {r}
      BY <2>2, <2>3, <2>4 DEF InBook
    <3>2. QED
      BY <2>1, <2>4, <3>1
  <2>5. CASE orders[r].leaves # 0
    BY <2>1, <2>2, <2>3, <2>5 DEF InBook
  <2>6. QED
    BY <2>4, <2>5
<1>20. r \in InBook
  BY <1>2, <1>3, <1>4, <1>6 DEF InBook
<1>21. LeftOver[Active] > 0
  BY <1>1, <1>2, <1>5, <1>6, <1>12, <1>14
<1>22. /\ Terms[r].side = Opposite(Terms[Active].side)
       /\ \/ Terms[Active].type = "MARKET"
          \/ Terms[Active].side = "BUY" /\ Terms[Active].price >= Terms[r].price
          \/ Terms[Active].side = "SELL" /\ Terms[Active].price <= Terms[r].price
  BY <1>1, <1>12 DEF PriorityInv, AtBest, Crosses, Far
<1>23. ASSUME NEW o \in InBook \ {r}, Terms[o].side = Terms[r].side
       PROVE  \/ Terms[r].side = "SELL" /\ Terms[r].price < Terms[o].price
              \/ Terms[r].side = "BUY" /\ Terms[r].price > Terms[o].price
              \/ Terms[r].price = Terms[o].price /\ r < o
  <2>1. o \in Id /\ Terms[o].side = orders[o].side /\ Terms[o].price = orders[o].price
    BY <1>1, InBookIs DEF Terms
  <2>2. IsBest(lvl) /\ lvl \in Ahead /\ Ascending(queue[Far][lvl])
    BY <1>1, <1>2 DEF PriorityInv, AtBest, IsBest, Arrival
  <2>3. /\ o \in Held(Far, orders[o].price) /\ orders[o].price \in Price
        /\ IF Far = "SELL" THEN lvl <= orders[o].price ELSE lvl >= orders[o].price
    BY <1>1, <1>12, <1>23, <2>1, <2>2, MatchesAhead
  <2>4. lvl \in Int /\ orders[o].price \in Int
    BY <1>2, <2>3, LobAssumption
  <2>5. orders[o].price = lvl => r < o
    BY <1>1, <1>2, <1>4, <2>2, <2>3, HeldType, AscendingTail DEF Held, Resting
  <2>6. QED
    BY <1>2, <1>12, <2>1, <2>3, <2>4, <2>5 DEF Side
<1>24. Implemented!Trade(r)
  BY <1>11, <1>12, <1>16, <1>17, <1>18, <1>19, <1>20, <1>21, <1>22, <1>23, AbstractTrade
<1>25. QED
  BY <1>4, <1>24

\* The end of a submission finds no order that could still trade, and rests what
\* is left of a LIMIT order (lob.py:101-123, 127-147).
LEMMA FinishSettles ==
    ASSUME PriorityInv, FinishSweep
    PROVE  Implemented!Settle
<1> DEFINE d == orders[inc].side
           at == orders[inc].price
<1>1. /\ pc = "sweep" /\ pc' = "idle" /\ Midway /\ pc # "raised" /\ UNCHANGED <<orders, inc>>
      /\ BookInv /\ Structure /\ orders \in [Id -> Order]
      /\ queue \in [Side -> [Price -> Seq(Id)]]
      /\ IF Rests THEN queue' = [queue EXCEPT ![d][at] = Append(@, inc)] ELSE queue' = queue
  BY DEF FinishSweep, PriorityInv, SoloInv, BookInv, LobTypeOK, Midway, InLevel
<1>2. /\ inc \in Id /\ Far \in Side /\ d \in Side /\ d # Far /\ orders[inc] \in Order
      /\ orders[inc].leaves \in Int
  BY <1>1, InSweep DEF Order
<1>3. orders[inc].type = "LIMIT" => at \in Price
  BY <1>1, <1>2 DEF BookInv, Sweeping
<1>4. orders[inc].status # "CANCELLED"
  BY <1>1 DEF PriorityInv, SoloInv, Solo
<1>5. \A i : ~ Unfinished(i) /\ ~ Unfinished(i)'
  BY <1>1 DEF Unfinished
<1>6. Arrived' = Arrived /\ Terms' = Terms /\ LeftOver' = LeftOver /\ Worth' = Worth
  BY <1>1, <1>5 DEF Arrived, Terms, LeftOver, Worth
<1>7. Active = inc /\ inc # 0 /\ Active' = 0
  BY <1>1, <1>2, LobAssumption DEF Active, Id, NoId
<1>8. LeftOver[inc] = orders[inc].leaves /\ Terms[inc].type = orders[inc].type
  BY <1>2, <1>5 DEF LeftOver, Terms
<1>9. ASSUME orders[inc].leaves > 0, NEW r \in InBook
      PROVE  ~ Implemented!Matches(inc, r)
  <2>1. r \in Id /\ inc \in Id
    BY <1>1, <1>2, InBookIs
  <2>2. /\ Terms[r].side = orders[r].side /\ Terms[r].price = orders[r].price
        /\ Terms[inc].side = orders[inc].side /\ Terms[inc].type = orders[inc].type
        /\ Terms[inc].price = orders[inc].price
    BY <2>1 DEF Terms
  <2>3. SUFFICES ASSUME orders[r].side = Far,
                        \/ orders[inc].type = "MARKET"
                        \/ orders[inc].side = "BUY" /\ orders[inc].price >= orders[r].price
                        \/ orders[inc].side = "SELL" /\ orders[inc].price <= orders[r].price
                 PROVE  FALSE
    BY <2>2 DEF Implemented!Matches, Implemented!Opposite, Far, Opposite
  <2>4. PICK s \in Side, p \in Price : r \in Held(s, p)
    BY <1>9 DEF InBook
  <2>5. s = Far /\ p = orders[r].price
    BY <1>1, <2>3, <2>4 DEF Structure, QueueSound, Placed
  <2>6. p \in Ahead
    BY <1>1, <2>4, <2>5 DEF Structure, KeysMatch, SweptEmpty, Ahead
  <2>7. PICK b \in Ahead : IsBest(b) /\ ~ Crosses(b)
    BY <1>2, <1>9, <2>6 DEF FinishSweep
  <2>8. /\ IF Far = "SELL" THEN b <= p ELSE b >= p
        /\ b \in Int /\ p \in Int
    BY <1>1, <1>2, <2>4, <2>6, <2>7, LobAssumption DEF IsBest, Ahead, BookInv, LobTypeOK
  <2>9. orders[inc].type = "LIMIT" /\ at \in Int
    <3>1. orders[inc].type \in {"LIMIT", "MARKET"}
      BY <1>2 DEF Order, OrderType
    <3>2. orders[inc].type # "MARKET"
      BY <2>7 DEF Crosses
    <3>3. orders[inc].type = "LIMIT"
      BY <3>1, <3>2
    <3>4. at \in Price
      BY <1>3, <3>3
    <3>5. Price \subseteq Int
      BY LobAssumption
    <3>6. QED
      BY <3>3, <3>4, <3>5
  <2>10. CASE orders[inc].side = "BUY"
    BY <2>3, <2>5, <2>7, <2>8, <2>9, <2>10 DEF Crosses, Far, Opposite
  <2>11. CASE orders[inc].side = "SELL"
    BY <2>3, <2>5, <2>7, <2>8, <2>9, <2>11 DEF Crosses, Far, Opposite
  <2>12. QED
    BY <1>2, <2>10, <2>11 DEF Side
<1>10. Rests <=> LeftOver[inc] > 0 /\ Terms[inc].type = "LIMIT"
  BY <1>4, <1>8 DEF Rests
<1>11. InBook' = IF Rests THEN InBook \cup {inc} ELSE InBook
  <2>1. CASE ~ Rests
    BY <1>1, <2>1 DEF InBook, Held
  <2>2. CASE Rests
    <3>1. at \in Price
      BY <1>3, <2>2 DEF Rests
    <3> DEFINE more == Append(queue[d][at], inc)
    <3>2. queue[d][at] \in Seq(Id) /\ Range(more) = Held(d, at) \cup {inc}
      BY <1>1, <1>2, <3>1, HeldType, EntryAdded DEF Held
    <3>3. queue' = [queue EXCEPT ![d][at] = more]
      BY <1>1, <2>2
    <3> HIDE DEF more, d, at
    <3>4. \A s \in Side, p \in Price :
             Held(s, p)' = IF s = d /\ p = at THEN Held(s, p) \cup {inc} ELSE Held(s, p)
      BY <1>1, <1>2, <3>1, <3>2, <3>3 DEF Held
    <3>5. \A i : i \in InBook' <=> i \in InBook \cup {inc}
      <4> DEFINE All == UNION {Held(s, p) : s \in Side, p \in Price}
      <4>1. \A i : i \in All' <=> i \in All \cup {inc}
        BY <1>2, <3>1, <3>4
      <4>2. /\ \A i : i \in InBook' <=> i \in All' /\ orders[i].status # "CANCELLED"
            /\ \A i : i \in InBook <=> i \in All /\ orders[i].status # "CANCELLED"
        BY <1>1 DEF InBook
      <4> HIDE DEF All
      <4>3. QED
        BY <1>4, <4>1, <4>2
    <3>6. QED
      BY <2>2, <3>5
  <2>3. QED
    BY <2>1, <2>2
<1>12. QED
  BY <1>6, <1>7, <1>8, <1>9, <1>10, <1>11 DEF Implemented!Settle, Implemented!NoOrder

\* A cancelled order stays in its deque and is out of the abstract book at once
\* (lob.py:76-82).
LEMMA CancelledAtOnce ==
    ASSUME PriorityInv, NEW i \in Id, CancelLob(i)
    PROVE  Implemented!Cancel(i)
<1>1. /\ pc = "idle" /\ pc' = "idle" /\ orders[i].status \in Fillable
      /\ orders' = [orders EXCEPT ![i].status = "CANCELLED"] /\ UNCHANGED <<queue, fq, lvl>>
      /\ BookInv /\ orders \in [Id -> Order]
  BY DEF CancelLob, Cancelled, matchvars, PriorityInv, SoloInv, BookInv, LobTypeOK
<1>2. \A j \in Id :
         /\ orders'[j].side = orders[j].side /\ orders'[j].type = orders[j].type
         /\ orders'[j].price = orders[j].price
         /\ orders'[j].leaves = orders[j].leaves /\ orders'[j].value = orders[j].value
         /\ orders'[j].status = IF j = i THEN "CANCELLED" ELSE orders[j].status
  BY <1>1 DEF Order
<1>3. \A j : ~ Unfinished(j) /\ ~ Unfinished(j)'
  BY <1>1 DEF Unfinished
<1>4. Arrived' = Arrived /\ Terms' = Terms
  BY <1>1, <1>2 DEF Arrived, Terms, Fillable
<1>5. LeftOver' = LeftOver /\ Worth' = Worth
  BY <1>2, <1>3 DEF LeftOver, Worth
<1>6. Active = 0 /\ Active' = 0
  BY <1>1 DEF Active, NoId
<1>7. \A s \in Side, p \in Price : Held(s, p)' = Held(s, p) /\ Held(s, p) \subseteq Id
  BY <1>1, HeldType DEF Held
<1>8. InBook' = InBook \ {i}
  BY <1>2, <1>7 DEF InBook
<1>9. QED
  BY <1>4, <1>5, <1>6, <1>8 DEF Implemented!Cancel, Implemented!NoOrder

\* ME-01, ME-02, ME-05 and ME-10: the levels, deques, lazy cancels and sweep loops
\* trade exactly as a book with price-time priority does, for any orders, prices
\* and quantities (lob.py:60-167).
THEOREM PriceTimePriority == LobSpec => ImplementsPriceTimeBook
<1>1. LobInit => Implemented!Init
  <2> SUFFICES ASSUME LobInit PROVE Implemented!Init
    OBVIOUS
  <2>1. /\ orders = [i \in Id |-> Unsubmitted] /\ pc = "idle"
        /\ \A s \in Side, p \in Price : queue[s][p] = <<>>
    BY DEF LobInit
  <2>2. Arrived = {}
    BY <2>1 DEF Arrived, Unsubmitted
  <2>3. Terms = [i \in Id |-> [side |-> "BUY", type |-> "LIMIT", price |-> 0]]
    BY <2>1 DEF Terms, Unsubmitted, NoPrice
  <2>4. \A i : ~ Unfinished(i)
    BY <2>1 DEF Unfinished
  <2>5. LeftOver = [i \in Id |-> 0]
    BY <2>1, <2>4 DEF LeftOver, Unsubmitted
  <2>6. Worth = [i \in Id |-> 0]
    BY <2>1, <2>4 DEF Worth, Unsubmitted
  <2>7. InBook = {}
    BY <2>1 DEF InBook, Held, Range
  <2>8. Active = 0
    BY <2>1 DEF Active, NoId
  <2>9. QED
    BY <2>2, <2>3, <2>5, <2>6, <2>7, <2>8 DEF Implemented!Init, Implemented!NoOrder
<1>2. PriorityInv /\ PriorityInv' /\ [LobNext]_lobvars => [Implemented!Next]_(Implemented!pvars)
  <2> SUFFICES ASSUME PriorityInv, PriorityInv', [LobNext]_lobvars
               PROVE  Implemented!Next \/ UNCHANGED Implemented!pvars
    OBVIOUS
  <2>1. CASE SubmitNext
    BY <2>1, SubmitArrives
  <2>2. CASE FinishSweep
    BY <2>2, FinishSettles DEF Implemented!Next
  <2>3. CASE StatusIncoming
    <3>1. Resting \in Id
      <4>1. pc \in InLevel /\ pc \in InFill /\ Midway /\ BookInv /\ Structure
        BY <2>3 DEF StatusIncoming, InLevel, InFill, Midway, PriorityInv, SoloInv
      <4>2. QED
        BY <4>1, InSweep, HeadHeld
    <3>2. QED
      BY <2>3, <3>1, FillTrades DEF Implemented!Next
  <2>4. CASE NextLevel \/ LeaveLevel \/ TakeHead \/ SkipCancelled
               \/ FillResting \/ StatusResting \/ FillIncoming
    BY <2>4, SilentStep
  <2>5. ASSUME NEW i \in Id, CancelLob(i)
        PROVE  Implemented!Next
    BY <2>5, CancelledAtOnce DEF Implemented!Next
  <2>6. CASE UNCHANGED lobvars
    <3>1. \A i : Unfinished(i)' <=> Unfinished(i)
      BY <2>6 DEF lobvars, Unfinished, Resting, Far
    <3>2. UNCHANGED <<Arrived, Terms, LeftOver, Worth, InBook, Active>>
      BY <2>6, <3>1 DEF lobvars, Arrived, Terms, LeftOver, Worth, InBook, Held, Active
    <3>3. QED
      BY <3>2, SameBook
  <2>7. QED
    BY <2>1, <2>2, <2>3, <2>4, <2>5, <2>6 DEF LobNext, MatchStep
<1>3. QED
  BY <1>1, <1>2, PriorityKept, PTL DEF LobSpec, ImplementsPriceTimeBook, Implemented!Spec
=============================================================================
