---------------------------- MODULE RateLimiter ----------------------------
(***************************************************************************)
(* check_rate_limit of engine/risk_gateway.py called for the orders of     *)
(* some strategies at any times, on a clock that never goes back           *)
(* (time.monotonic).  A window per strategy, opened at any moment, counts  *)
(* the orders that pass from then on.                                      *)
(***************************************************************************)
EXTENDS RiskFilters

CONSTANTS Strategy,
          MaxTime     \* bound: the last tick of the clock

ASSUME TimeAssumption == MaxTime \in Nat

VARIABLES now,      \* time.monotonic()
          buckets,  \* [Strategy -> Bucket or NoBucket]
          opened,   \* history: when the window of a strategy was opened
          passed    \* history: how many of its orders have passed since

vars == <<now, buckets, opened, passed>>

Init ==
    /\ now = 0
    /\ buckets = [s \in Strategy |-> NoBucket]
    /\ opened = [s \in Strategy |-> 0]
    /\ passed = [s \in Strategy |-> 0]

Tick ==
    /\ now < MaxTime
    /\ now' = now + 1
    /\ UNCHANGED <<buckets, opened, passed>>

OpenWindow(s) ==
    /\ opened' = [opened EXCEPT ![s] = now]
    /\ passed' = [passed EXCEPT ![s] = 0]
    /\ UNCHANGED <<now, buckets>>

\* check_rate_limit for one order of strategy s
Check(s) ==
    /\ buckets' = [buckets EXCEPT ![s] = Spent(@, now)]
    /\ passed' = [passed EXCEPT ![s] =
                     IF HasToken(buckets[s], now) THEN @ + 1 ELSE @]
    /\ UNCHANGED <<now, opened>>

Next == Tick \/ \E s \in Strategy : OpenWindow(s) \/ Check(s)

Spec == Init /\ [][Next]_vars

-----------------------------------------------------------------------------
TypeOK ==
    /\ now \in Nat
    /\ buckets \in [Strategy -> Bucket \cup {NoBucket}]
    /\ opened \in [Strategy -> Nat]
    /\ passed \in [Strategy -> Nat]

\* RISK-03: whenever one starts to count, no more orders of a strategy pass
\* than a full bucket and what the rate adds since then; however the calls are
\* spaced, no burst gets more (risk_gateway.py:41-57).
RateBound ==
    \A s \in Strategy :
        passed[s] * Unit <= Capacity * Unit + (now - opened[s]) * Rate

\* A strategy none of whose orders has passed for the time of one token is not
\* refused: the orders refused meanwhile, each of which moves the refill time,
\* cost it nothing of what they had gathered (risk_gateway.py:50-57).
WaitedPasses ==
    \A s \in Strategy :
        passed[s] = 0 /\ (now - opened[s]) * Rate >= Unit /\ Capacity > 0 =>
            HasToken(buckets[s], now)

\* What the bucket of a strategy holds is accounted for, the strengthening
\* that makes RateBound inductive: tokens left and tokens passed come out of a
\* full bucket and the refills since the window opened.
BucketAccounts ==
    \A s \in Strategy : LET b == buckets[s] IN
        /\ opened[s] <= now
        /\ b = NoBucket => passed[s] = 0
        /\ b # NoBucket =>
              /\ b.last <= now
              /\ b.tokens <= Capacity * Unit
              /\ b.last < opened[s] => passed[s] = 0
              /\ b.last >= opened[s] =>
                    passed[s] * Unit + b.tokens <=
                        Capacity * Unit + (b.last - opened[s]) * Rate

\* While none of its orders pass, a strategy keeps all that the rate adds, up to
\* a full bucket: the strengthening that makes WaitedPasses inductive.
RefusalsCostNothing ==
    \A s \in Strategy : LET b == buckets[s] IN
        b # NoBucket /\ b.last >= opened[s] /\ passed[s] = 0 =>
            b.tokens >= Capacity * Unit \/ b.tokens >= (b.last - opened[s]) * Rate
=============================================================================
