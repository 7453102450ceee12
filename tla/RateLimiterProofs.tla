------------------------- MODULE RateLimiterProofs -------------------------
(***************************************************************************)
(* The rate limiter keeps its bound for every rate, capacity, clock and    *)
(* set of strategies.  RateBound is not inductive: after a window opens it *)
(* says nothing of the tokens a later refill may add.  BucketAccounts      *)
(* counts the tokens left in the bucket together with those passed.        *)
(***************************************************************************)
EXTENDS RateLimiter, TLAPS

LimiterInv == TypeOK /\ BucketAccounts

\* A refill adds no more than the rate allows, and stays within the capacity
\* (risk_gateway.py:51).
LEMMA RefillBounds ==
    ASSUME NEW b \in Bucket, NEW t \in Nat, b.last <= t,
           b.tokens <= Capacity * Unit
    PROVE  /\ Refill(b, t) \in Nat
           /\ Refill(b, t) <= Capacity * Unit
           /\ Refill(b, t) <= b.tokens + (t - b.last) * Rate
<1>1. /\ Capacity * Unit \in Nat
      /\ (t - b.last) * Rate \in Nat
      /\ b.tokens \in Nat /\ b.last \in Nat
  BY FilterAssumption DEF Bucket
<1>2. QED
  BY <1>1 DEF Refill

\* A check leaves a bucket within its capacity; the token it takes, if the
\* order passes, comes out of the refill (risk_gateway.py:41-57).
LEMMA SpentBounds ==
    ASSUME NEW b \in Bucket \cup {NoBucket}, NEW t \in Nat,
           b # NoBucket => b.last <= t /\ b.tokens <= Capacity * Unit
    PROVE  /\ Spent(b, t) \in Bucket
           /\ Spent(b, t).last = t
           /\ Spent(b, t).tokens <= Capacity * Unit
           /\ LET cost == IF HasToken(b, t) THEN Unit ELSE 0 IN
                /\ Spent(b, t).tokens + cost <= Capacity * Unit
                /\ b # NoBucket =>
                     Spent(b, t).tokens + cost <= b.tokens + (t - b.last) * Rate
<1> DEFINE o == Opened(b, t)
<1>1. Capacity * Unit \in Nat /\ Unit \in Nat
  BY FilterAssumption
<1>2. /\ o \in Bucket /\ o.last <= t /\ o.tokens <= Capacity * Unit
      /\ b # NoBucket => o = b
  BY <1>1 DEF Opened, Bucket
<1> HIDE DEF o
<1>3. /\ Refill(o, t) \in Nat
      /\ Refill(o, t) <= Capacity * Unit
      /\ Refill(o, t) <= o.tokens + (t - o.last) * Rate
  BY <1>2, RefillBounds
<1>4. /\ Spent(b, t) = [tokens |-> IF Refill(o, t) >= Unit
                                     THEN Refill(o, t) - Unit ELSE Refill(o, t),
                        last |-> t]
      /\ HasToken(b, t) <=> Refill(o, t) >= Unit
  BY DEF Spent, HasToken, o
<1> HIDE DEF Spent
<1>5. /\ Spent(b, t).last = t
      /\ Spent(b, t).tokens \in Nat
      /\ HasToken(b, t) => Spent(b, t).tokens + Unit = Refill(o, t)
      /\ ~ HasToken(b, t) => Spent(b, t).tokens = Refill(o, t)
  BY <1>1, <1>3, <1>4
<1>6. Spent(b, t) \in Bucket
  BY <1>3, <1>4, <1>1 DEF Bucket
<1>7. QED
  BY <1>1, <1>2, <1>3, <1>5, <1>6

\* Every check keeps the accounts of every window (risk_gateway.py:41-57).
LEMMA CheckKeepsAccounts ==
    ASSUME LimiterInv, NEW s \in Strategy, Check(s)
    PROVE  LimiterInv'
<1> DEFINE b == buckets[s]
           cost == IF HasToken(b, now) THEN Unit ELSE 0
<1>1. /\ Capacity * Unit \in Nat /\ Unit \in Nat /\ Rate \in Nat
      /\ now \in Nat /\ passed[s] \in Nat /\ opened[s] \in Nat
      /\ b \in Bucket \cup {NoBucket}
  BY FilterAssumption DEF LimiterInv, TypeOK
<1>2. b # NoBucket => b.last <= now /\ b.tokens <= Capacity * Unit
  BY DEF LimiterInv, BucketAccounts
<1>3. /\ Spent(b, now) \in Bucket
      /\ Spent(b, now).last = now
      /\ Spent(b, now).tokens <= Capacity * Unit
      /\ Spent(b, now).tokens + cost <= Capacity * Unit
      /\ b # NoBucket =>
           Spent(b, now).tokens + cost <= b.tokens + (now - b.last) * Rate
  BY <1>1, <1>2, SpentBounds
<1>4. /\ buckets' = [buckets EXCEPT ![s] = Spent(b, now)]
      /\ passed' = [passed EXCEPT ![s] = IF HasToken(b, now) THEN @ + 1 ELSE @]
      /\ now' = now /\ opened' = opened
  BY DEF Check
<1>5. TypeOK'
  BY <1>3, <1>4 DEF LimiterInv, TypeOK
<1>6. /\ buckets'[s] = Spent(b, now)
      /\ passed'[s] * Unit = passed[s] * Unit + cost
  <2>1. /\ buckets'[s] = Spent(b, now)
        /\ passed'[s] = IF HasToken(b, now) THEN passed[s] + 1 ELSE passed[s]
    BY <1>4 DEF LimiterInv, TypeOK
  <2>2. (passed[s] + 1) * Unit = passed[s] * Unit + Unit
    BY <1>1
  <2>3. QED
    BY <2>1, <2>2, <1>1
<1>7. NoBucket \notin Bucket
  BY DEF NoBucket, Bucket
<1>8. passed'[s] * Unit + Spent(b, now).tokens <=
          Capacity * Unit + (now - opened[s]) * Rate
  <2>1. opened[s] <= now /\ (now - opened[s]) * Rate \in Nat
    BY <1>1 DEF LimiterInv, BucketAccounts
  <2>2. passed[s] * Unit \in Nat /\ cost \in Nat /\ Spent(b, now).tokens \in Nat
    BY <1>1, <1>3 DEF Bucket
  <2>3. CASE b = NoBucket \/ b.last < opened[s]
    <3>1. passed[s] * Unit = 0
      BY <2>3, <1>1 DEF LimiterInv, BucketAccounts
    <3>2. passed'[s] * Unit = cost
      BY <3>1, <2>2, <1>6
    <3>3. passed'[s] * Unit + Spent(b, now).tokens <= Capacity * Unit
      BY <3>2, <2>2, <1>1, <1>3
    <3>4. QED
      BY <3>2, <3>3, <2>1, <2>2, <1>1
  <2>4. CASE b # NoBucket /\ b.last >= opened[s]
    <3>1. passed[s] * Unit + b.tokens <= Capacity * Unit + (b.last - opened[s]) * Rate
      BY <2>4 DEF LimiterInv, BucketAccounts
    <3>2. b.last \in Nat /\ b.tokens \in Nat
      BY <1>1, <2>4 DEF Bucket
    <3>3. (b.last - opened[s]) * Rate + (now - b.last) * Rate
             = (now - opened[s]) * Rate
      BY <1>1, <3>2
    <3>4. (b.last - opened[s]) * Rate \in Int /\ (now - b.last) * Rate \in Int
      BY <1>1, <3>2
    <3>5. QED
      BY <3>1, <3>2, <3>3, <3>4, <2>1, <2>2, <2>4, <1>1, <1>3, <1>6
  <2>5. QED
    BY <2>3, <2>4, <1>1, <1>2 DEF Bucket
<1>9. BucketAccounts'
  <2> SUFFICES ASSUME NEW r \in Strategy
               PROVE  BucketAccounts!(r)'
    BY DEF BucketAccounts
  <2>1. CASE r = s
    BY <2>1, <1>1, <1>3, <1>4, <1>6, <1>7, <1>8 DEF LimiterInv, BucketAccounts, Bucket
  <2>2. CASE r # s
    BY <2>2, <1>4 DEF LimiterInv, TypeOK, BucketAccounts
  <2>3. QED
    BY <2>1, <2>2
<1>10. QED
  BY <1>5, <1>9 DEF LimiterInv

\* The accounts hold of every window at all times.
THEOREM LimiterInvariant == Spec => []LimiterInv
<1>1. Init => LimiterInv
  BY FilterAssumption DEF Init, LimiterInv, TypeOK, BucketAccounts
<1>2. LimiterInv /\ [Next]_vars => LimiterInv'
  <2> SUFFICES ASSUME LimiterInv, [Next]_vars
               PROVE  LimiterInv'
    OBVIOUS
  <2>1. CASE Tick
    <3>1. /\ now \in Nat /\ now' = now + 1
          /\ buckets' = buckets /\ opened' = opened /\ passed' = passed
      BY <2>1 DEF Tick, LimiterInv, TypeOK
    <3>2. TypeOK'
      BY <3>1 DEF LimiterInv, TypeOK
    <3>3. ASSUME NEW r \in Strategy
          PROVE  BucketAccounts!(r)'
      <4>1. /\ opened[r] <= now => opened[r] <= now + 1
            /\ buckets[r] # NoBucket /\ buckets[r].last <= now =>
                 buckets[r].last <= now + 1
        BY <3>1 DEF LimiterInv, TypeOK, Bucket
      <4>2. QED
        BY <3>1, <4>1 DEF LimiterInv, BucketAccounts
    <3>4. QED
      BY <3>2, <3>3 DEF LimiterInv, BucketAccounts
  <2>2. ASSUME NEW s \in Strategy, OpenWindow(s)
        PROVE  LimiterInv'
    <3>1. Capacity * Unit \in Nat /\ Rate \in Nat
      BY FilterAssumption
    <3>2. /\ opened' = [opened EXCEPT ![s] = now]
          /\ passed' = [passed EXCEPT ![s] = 0]
          /\ now' = now /\ buckets' = buckets
      BY <2>2 DEF OpenWindow
    <3>3. TypeOK'
      BY <3>2 DEF LimiterInv, TypeOK
    <3>4. ASSUME NEW r \in Strategy
          PROVE  BucketAccounts!(r)'
      <4>1. CASE r = s
        <5>1. opened'[s] = now /\ passed'[s] = 0 /\ buckets'[s] = buckets[s]
          BY <3>2 DEF LimiterInv, TypeOK
        <5>2. 0 * Unit = 0 /\ (now - now) * Rate = 0 /\ now \in Nat
          BY <3>1, FilterAssumption DEF LimiterInv, TypeOK
        <5>3. ASSUME buckets[s] # NoBucket, buckets[s].last >= now
              PROVE  buckets[s].last = now /\ buckets[s].tokens <= Capacity * Unit
                     /\ buckets[s].tokens \in Nat
          BY <5>3, <5>2 DEF LimiterInv, TypeOK, BucketAccounts, Bucket
        <5>4. ASSUME buckets[s] # NoBucket, buckets[s].last >= now
              PROVE  0 * Unit + buckets[s].tokens
                       <= Capacity * Unit + (buckets[s].last - now) * Rate
          BY <5>2, <5>3, <5>4, <3>1
        <5>5. QED
          BY <4>1, <5>1, <5>2, <5>4, <3>2 DEF LimiterInv, BucketAccounts
      <4>2. CASE r # s
        BY <4>2, <3>2 DEF LimiterInv, TypeOK, BucketAccounts
      <4>3. QED
        BY <4>1, <4>2
    <3>5. QED
      BY <3>3, <3>4 DEF LimiterInv, BucketAccounts
  <2>3. ASSUME NEW s \in Strategy, Check(s)
        PROVE  LimiterInv'
    BY <2>3, CheckKeepsAccounts
  <2>4. CASE UNCHANGED vars
    BY <2>4 DEF vars, LimiterInv, TypeOK, BucketAccounts
  <2>5. QED
    BY <2>1, <2>2, <2>3, <2>4 DEF Next
<1>3. QED
  BY <1>1, <1>2, PTL DEF Spec

\* RISK-03, for any rate, capacity and schedule of calls: no window lets more
\* orders through than a full bucket and the rate over the window
\* (risk_gateway.py:41-57).
THEOREM RateIsBounded == Spec => []RateBound
<1>1. LimiterInv => RateBound
  <2> SUFFICES ASSUME LimiterInv, NEW s \in Strategy
               PROVE  passed[s] * Unit <= Capacity * Unit + (now - opened[s]) * Rate
    BY DEF RateBound
  <2> DEFINE b == buckets[s]
  <2>1. /\ Capacity * Unit \in Nat /\ Unit \in Nat /\ Rate \in Nat
        /\ now \in Nat /\ opened[s] \in Nat /\ opened[s] <= now
        /\ passed[s] * Unit \in Nat
        /\ (now - opened[s]) * Rate \in Nat
    BY FilterAssumption DEF LimiterInv, TypeOK, BucketAccounts
  <2>2. CASE b = NoBucket \/ b.last < opened[s]
    <3>1. passed[s] * Unit = 0
      BY <2>2, <2>1 DEF LimiterInv, BucketAccounts
    <3>2. QED
      BY <3>1, <2>1
  <2>3. CASE b # NoBucket /\ b.last >= opened[s]
    <3>1. b.last \in Nat /\ b.tokens \in Nat /\ b.last <= now
      BY <2>3 DEF LimiterInv, TypeOK, BucketAccounts, Bucket
    <3>2. passed[s] * Unit + b.tokens <= Capacity * Unit + (b.last - opened[s]) * Rate
      BY <2>3 DEF LimiterInv, BucketAccounts
    <3>3. (b.last - opened[s]) * Rate + (now - b.last) * Rate = (now - opened[s]) * Rate
      BY <2>1, <3>1
    <3>4. (b.last - opened[s]) * Rate \in Nat /\ (now - b.last) * Rate \in Nat
      BY <2>1, <2>3, <3>1
    <3>5. QED
      BY <2>1, <3>1, <3>2, <3>3, <3>4
  <2>4. QED
    <3>1. b # NoBucket => b.last \in Nat
      BY DEF LimiterInv, TypeOK, Bucket
    <3>2. QED
      BY <2>1, <2>2, <2>3, <3>1
<1>2. QED
  BY <1>1, LimiterInvariant, PTL

\* The state keeps its types: a bucket never goes below zero tokens, and never
\* gets a time the clock has not reached.
THEOREM LimiterTypeCorrect == Spec => []TypeOK
<1>1. LimiterInv => TypeOK
  BY DEF LimiterInv
<1>2. QED
  BY <1>1, LimiterInvariant, PTL

-----------------------------------------------------------------------------
\* Time adds up at the rate.
LEMMA RateAdds ==
    ASSUME NEW x \in Nat, NEW y \in Nat, NEW z \in Nat, x <= y, y <= z
    PROVE  /\ (y - x) * Rate \in Nat /\ (z - y) * Rate \in Nat /\ (z - x) * Rate \in Nat
           /\ (z - x) * Rate = (y - x) * Rate + (z - y) * Rate
<1>1. Rate \in Nat /\ y - x \in Nat /\ z - y \in Nat /\ z - x \in Nat
  BY FilterAssumption
<1>2. \A u \in Nat, r \in Nat : u * r \in Nat
  OBVIOUS
<1>3. (z - x) * Rate = (y - x) * Rate + (z - y) * Rate
  BY <1>1
<1>4. QED
  BY <1>1, <1>2, <1>3

\* What a bucket holds at time t when no order has passed since time o: all
\* that the rate has added since then, or a full bucket (risk_gateway.py:50-51).
LEMMA Gathered ==
    ASSUME NEW b \in Bucket, NEW o \in Nat, NEW t \in Nat, o <= t, b.last <= t,
           b.tokens <= Capacity * Unit,
           b.last >= o => b.tokens >= Capacity * Unit \/ b.tokens >= (b.last - o) * Rate
    PROVE  Refill(b, t) >= Capacity * Unit \/ Refill(b, t) >= (t - o) * Rate
<1>1. b.tokens \in Nat /\ b.last \in Nat /\ Capacity * Unit \in Nat
  BY FilterAssumption DEF Bucket
<1>2. (t - b.last) * Rate \in Nat /\ (t - o) * Rate \in Nat
  <2>1. b.last <= b.last /\ o <= o /\ b.last \in Nat
    BY <1>1
  <2>2. QED
    BY <2>1, RateAdds, Zenon
<1>3. b.tokens + (t - b.last) * Rate >= (t - o) * Rate \/ b.tokens >= Capacity * Unit
  <2>1. CASE b.last >= o
    <3>1. (b.last - o) * Rate \in Nat
          /\ (t - o) * Rate = (b.last - o) * Rate + (t - b.last) * Rate
      <4>1. o <= b.last /\ b.last \in Nat
        BY <1>1, <2>1
      <4>2. QED
        BY <4>1, RateAdds, Zenon
    <3>2. QED
      BY <1>1, <1>2, <2>1, <3>1
  <2>2. CASE b.last < o
    <3>1. (o - b.last) * Rate \in Nat
          /\ (t - b.last) * Rate = (o - b.last) * Rate + (t - o) * Rate
      <4>1. b.last <= o /\ b.last \in Nat /\ o \in Nat /\ t \in Nat /\ o <= t
        BY <1>1, <2>2
      <4>2. QED
        BY <4>1, RateAdds, ZenonT(60)
    <3>2. QED
      BY <1>1, <1>2, <3>1
  <2>3. QED
    BY <1>1, <2>1, <2>2
<1> DEFINE grown == b.tokens + (t - b.last) * Rate
<1>4. Refill(b, t) = IF grown < Capacity * Unit THEN grown ELSE Capacity * Unit
  BY DEF Refill
<1>5. grown \in Nat /\ grown >= b.tokens
  BY <1>1, <1>2
<1> HIDE DEF grown
<1>6. CASE grown < Capacity * Unit
  BY <1>1, <1>2, <1>3, <1>4, <1>5, <1>6 DEF grown
<1>7. CASE ~ (grown < Capacity * Unit)
  BY <1>1, <1>4, <1>7
<1>8. QED
  BY <1>6, <1>7

\* An order that is refused leaves its strategy what it has gathered; one that
\* passes ends the wait (risk_gateway.py:41-57).
LEMMA CheckKeepsGathered ==
    ASSUME LimiterInv, RefusalsCostNothing, NEW s \in Strategy, Check(s)
    PROVE  RefusalsCostNothing'
<1> DEFINE b == buckets[s]
<1>1. /\ now \in Nat /\ opened[s] \in Nat /\ opened[s] <= now /\ passed[s] \in Nat
      /\ b \in Bucket \cup {NoBucket} /\ Capacity * Unit \in Nat /\ Unit \in Nat
  BY FilterAssumption DEF LimiterInv, TypeOK, BucketAccounts
<1>2. b # NoBucket => b.last <= now /\ b.tokens <= Capacity * Unit
  BY DEF LimiterInv, BucketAccounts
<1>3. /\ buckets' = [buckets EXCEPT ![s] = Spent(b, now)]
      /\ passed' = [passed EXCEPT ![s] = IF HasToken(b, now) THEN @ + 1 ELSE @]
      /\ now' = now /\ opened' = opened
  BY DEF Check
<1>4. /\ buckets'[s] = Spent(b, now)
      /\ passed'[s] = IF HasToken(b, now) THEN passed[s] + 1 ELSE passed[s]
      /\ \A r \in Strategy \ {s} : buckets'[r] = buckets[r] /\ passed'[r] = passed[r]
  BY <1>3 DEF LimiterInv, TypeOK
<1>5. ASSUME passed'[s] = 0
      PROVE  Spent(b, now).last = now
             /\ (Spent(b, now).tokens >= Capacity * Unit
                   \/ Spent(b, now).tokens >= (now - opened[s]) * Rate)
  <2>1. ~ HasToken(b, now) /\ passed[s] = 0
    BY <1>1, <1>4, <1>5
  <2>2. Spent(b, now) = [tokens |-> Refill(Opened(b, now), now), last |-> now]
    BY <2>1 DEF Spent, HasToken
  <2> DEFINE o == Opened(b, now)
  <2>3. /\ o \in Bucket /\ o.last <= now /\ o.tokens <= Capacity * Unit
        /\ o.last >= opened[s] =>
             o.tokens >= Capacity * Unit \/ o.tokens >= (o.last - opened[s]) * Rate
    <3>1. CASE b = NoBucket
      BY <1>1, <3>1 DEF Opened, Bucket
    <3>2. CASE b # NoBucket
      BY <1>1, <1>2, <2>1, <3>2 DEF Opened, RefusalsCostNothing
    <3>3. QED
      BY <3>1, <3>2
  <2> HIDE DEF o
  <2>4. Refill(o, now) >= Capacity * Unit \/ Refill(o, now) >= (now - opened[s]) * Rate
    BY <1>1, <2>3, Gathered
  <2>5. QED
    BY <2>2, <2>4 DEF o
<1>6. QED
  BY <1>3, <1>4, <1>5 DEF RefusalsCostNothing

\* In every wait a strategy gathers all that the rate adds.
THEOREM RefusalsInvariant == Spec => []RefusalsCostNothing
<1>1. Init => RefusalsCostNothing
  BY DEF Init, RefusalsCostNothing
<1>2. LimiterInv /\ RefusalsCostNothing /\ [Next]_vars => RefusalsCostNothing'
  <2> SUFFICES ASSUME LimiterInv, RefusalsCostNothing, [Next]_vars
               PROVE  RefusalsCostNothing'
    OBVIOUS
  <2>1. CASE Tick
    BY <2>1 DEF Tick, RefusalsCostNothing
  <2>2. ASSUME NEW s \in Strategy, OpenWindow(s)
        PROVE  RefusalsCostNothing'
    <3>1. /\ opened' = [opened EXCEPT ![s] = now] /\ passed' = [passed EXCEPT ![s] = 0]
          /\ buckets' = buckets
      BY <2>2 DEF OpenWindow
    <3>2. opened'[s] = now /\ passed'[s] = 0
      BY <3>1 DEF LimiterInv, TypeOK
    <3>3. ASSUME buckets[s] # NoBucket, buckets[s].last >= now
          PROVE  buckets[s].tokens >= (buckets[s].last - now) * Rate
      <4>1. buckets[s].last = now /\ now \in Nat /\ buckets[s].tokens \in Nat
        BY <3>3 DEF LimiterInv, TypeOK, BucketAccounts, Bucket
      <4>2. (now - now) * Rate = 0
        BY <4>1, FilterAssumption
      <4>3. QED
        BY <4>1, <4>2
    <3>4. \A r \in Strategy \ {s} : opened'[r] = opened[r] /\ passed'[r] = passed[r]
      BY <3>1 DEF LimiterInv, TypeOK
    <3>5. QED
      BY <3>1, <3>2, <3>3, <3>4 DEF RefusalsCostNothing
  <2>3. ASSUME NEW s \in Strategy, Check(s)
        PROVE  RefusalsCostNothing'
    BY <2>3, CheckKeepsGathered
  <2>4. CASE UNCHANGED vars
    BY <2>4 DEF vars, RefusalsCostNothing
  <2>5. QED
    BY <2>1, <2>2, <2>3, <2>4 DEF Next
<1>3. QED
  BY <1>1, <1>2, LimiterInvariant, PTL DEF Spec

\* A strategy that has got no order through for the time of one token gets the
\* next one through, however many were refused meanwhile
\* (risk_gateway.py:50-57).
THEOREM WaitingPays == Spec => []WaitedPasses
<1>1. LimiterInv /\ RefusalsCostNothing => WaitedPasses
  <2> SUFFICES ASSUME LimiterInv, RefusalsCostNothing, NEW s \in Strategy,
                      passed[s] = 0, (now - opened[s]) * Rate >= Unit, Capacity > 0
               PROVE  HasToken(buckets[s], now)
    BY DEF WaitedPasses
  <2> DEFINE b == buckets[s]
             o == Opened(b, now)
  <2>1. /\ now \in Nat /\ opened[s] \in Nat /\ opened[s] <= now
        /\ b \in Bucket \cup {NoBucket} /\ Unit \in Nat /\ Capacity \in Nat
    BY FilterAssumption DEF LimiterInv, TypeOK, BucketAccounts
  <2>2. Capacity * Unit >= Unit /\ Capacity * Unit \in Nat
    <3>1. Capacity * Unit = (Capacity - 1) * Unit + Unit /\ (Capacity - 1) * Unit \in Nat
      BY <2>1
    <3>2. QED
      BY <2>1, <3>1
  <2>3. /\ o \in Bucket /\ o.last <= now /\ o.tokens <= Capacity * Unit
        /\ o.last >= opened[s] =>
             o.tokens >= Capacity * Unit \/ o.tokens >= (o.last - opened[s]) * Rate
    <3>1. CASE b = NoBucket
      BY <2>1, <2>2, <3>1 DEF Opened, Bucket
    <3>2. CASE b # NoBucket
      BY <2>1, <3>2 DEF Opened, LimiterInv, BucketAccounts, RefusalsCostNothing
    <3>3. QED
      BY <3>1, <3>2
  <2> HIDE DEF o
  <2>4. Refill(o, now) >= Capacity * Unit \/ Refill(o, now) >= (now - opened[s]) * Rate
    BY <2>1, <2>3, Gathered
  <2>5. Refill(o, now) \in Nat /\ (now - opened[s]) * Rate \in Nat
    <3>1. Refill(o, now) \in Nat
      BY <2>1, <2>3, RefillBounds, Zenon
    <3>2. now <= now
      BY <2>1
    <3>3. QED
      BY <2>1, <3>1, <3>2, RateAdds, Zenon
  <2>6. Refill(o, now) >= Unit
    BY <2>1, <2>2, <2>4, <2>5
  <2>7. QED
    BY <2>6 DEF HasToken, o
<1>2. QED
  BY <1>1, LimiterInvariant, RefusalsInvariant, PTL
=============================================================================
