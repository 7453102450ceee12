--------------------------- MODULE MatchingEngine ---------------------------
(***************************************************************************)
(* The matching engine process of engine/matching_engine.py for one        *)
(* symbol: the thread that receives orders into the ring buffer, the match *)
(* loop with its orphan collector, and the thread that serves cancel       *)
(* requests, all three on the book of LimitOrderBook with no lock.  The    *)
(* reports the match loop and the cancel thread publish are kept per       *)
(* order, in the order they are sent.                                      *)
(***************************************************************************)
EXTENDS LimitOrderBook

CONSTANTS
    RingSize,     \* topology.yaml ring_buffer_size, the maxlen of the deque
    Strategy,     \* the strategies that send orders
    Inbound,      \* the orders that may arrive, numbered in order of arrival
    SwitchInside  \* may a thread be preempted inside apply_fill, apply_cancel?
                  \* CPython 3.11 and later switch at calls and loops, of which
                  \* there are none after their assertions (FALSE); the language
                  \* and other interpreters promise nothing (TRUE)

Nos == [id : Id, side : Side, type : OrderType, price : Price \cup {NoPrice},
        qty : Quantity]

ASSUME EngineAssumption ==
    /\ RingSize \in Nat \ {0}
    /\ Inbound \subseteq Nos
    /\ \A n \in Inbound : n.type = "LIMIT" <=> n.price > 0
    /\ SwitchInside \in BOOLEAN

VARIABLES
    ring,     \* the ring buffer: orders received and not yet matched
    got,      \* how many orders the receive thread has received
    owner,    \* order_registry: [Id -> Strategy]
    silent,   \* strategies not heard of for orphan_timeout_ns
    mpc,      \* where the match loop is
    next,     \* the next fill it publishes
    todo,     \* the orders its collector has still to look at
    due,      \* the strategies silent when the collector read the clock
    gid,      \* the order the collector is cancelling
    cpc,      \* where the cancel thread is
    cid,      \* the order it is cancelling
    reports   \* [Id -> Seq(report)]: what exec_report_pub carried

recvvars == <<got, owner>>
loopvars == <<mpc, next, todo, due, gid>>
cancelvars == <<cpc, cid>>
mevars == <<lobvars, ring, recvvars, silent, loopvars, cancelvars, reports>>

Closed == {"FILLED", "CANCELLED"}
Report == [type : {"NEW", "PARTIAL", "FILL", "CANCEL"}, qty : Nat, leaves : Int]

Init ==
    /\ LobInit
    /\ ring = <<>>
    /\ got = 0
    /\ owner \in [Id -> Strategy]
    /\ silent = {}
    /\ mpc = "drain" /\ next = 1 /\ todo = {} /\ due = {} /\ gid = NoId
    /\ cpc = "recv" /\ cid = NoId
    /\ reports = [i \in Id |-> <<>>]

-----------------------------------------------------------------------------
\* Time passes without a strategy being heard of.
GoSilent(s) ==
    /\ silent' = silent \cup {s}
    /\ UNCHANGED <<lobvars, ring, recvvars, loopvars, cancelvars, reports>>

PushedMutant(n) == Append(ring, n)
PushedNewestMutant(n) == IF Len(ring) < RingSize THEN Append(ring, n) ELSE ring

\* deque(maxlen=...).append: a full ring buffer drops its oldest entry.
Pushed(n) == Append(IF Len(ring) < RingSize THEN ring ELSE Tail(ring), n)

\* recv_loop
Recv(n) ==
    /\ n.id = got + 1
    /\ got' = n.id
    /\ silent' = silent \ {owner[n.id]}
    /\ ring' = Pushed(n)
    /\ UNCHANGED <<lobvars, owner, loopvars, cancelvars, reports>>

-----------------------------------------------------------------------------
PopRingMutant ==
    /\ mpc = "drain"
    /\ ring # <<>>
    /\ LET n == Head(ring) IN Submit(n.id, n.side, n.type, n.price, n.qty)
    /\ mpc' = "order"
    /\ UNCHANGED <<ring, recvvars, silent, next, todo, due, gid, cancelvars, reports>>

\* _match_loop takes the oldest order; _process_order submits it.
PopRing ==
    /\ mpc = "drain"
    /\ ring # <<>>
    /\ LET n == Head(ring) IN Submit(n.id, n.side, n.type, n.price, n.qty)
    /\ ring' = Tail(ring)
    /\ mpc' = "order"
    /\ UNCHANGED <<recvvars, silent, next, todo, due, gid, cancelvars, reports>>

MatchOrder ==
    /\ mpc = "order"
    /\ MatchStep
    /\ UNCHANGED <<ring, recvvars, silent, loopvars, cancelvars, reports>>

Say(i, type, qty) ==
    [reports EXCEPT ![i] = Append(@, [type |-> type, qty |-> qty,
                                      leaves |-> orders[i].leaves])]

PublishNewMutant ==
    /\ mpc = "order" /\ pc = "idle" /\ fills = <<>>
    /\ reports' = IF Rests THEN Say(inc, "NEW", 0) ELSE reports
    /\ mpc' = "drain"
    /\ UNCHANGED <<lobvars, ring, recvvars, silent, next, todo, due, gid,
                   cancelvars>>

\* No fills: the order rested, or found no liquidity.
PublishNew ==
    /\ mpc = "order" /\ pc = "idle" /\ fills = <<>>
    /\ reports' = Say(inc, "NEW", 0)
    /\ mpc' = "drain"
    /\ UNCHANGED <<lobvars, ring, recvvars, silent, next, todo, due, gid,
                   cancelvars>>

\* The exec_type comes from what is left after the whole submission.
FillType(i) == IF orders[i].leaves = 0 THEN "FILL" ELSE "PARTIAL"

FillReportMutant(i, f) ==
    [type |-> FillType(i), qty |-> orders[i].cum, leaves |-> orders[i].leaves]

FillReport(i, f) == [type |-> FillType(i), qty |-> f[2], leaves |-> orders[i].leaves]

\* One fill of the list: its resting order is reported, then the incoming one.
PublishFill ==
    /\ mpc = "order" /\ pc = "idle" /\ next <= Len(fills)
    /\ LET f == fills[next] IN
         reports' = [reports EXCEPT ![f[1]] = Append(@, FillReport(f[1], f)),
                                    ![inc] = Append(@, FillReport(inc, f))]
    /\ IF next = Len(fills)
         THEN next' = 1 /\ mpc' = "drain"
         ELSE next' = next + 1 /\ mpc' = mpc
    /\ UNCHANGED <<lobvars, ring, recvvars, silent, todo, due, gid, cancelvars>>

-----------------------------------------------------------------------------
\* The ring buffer is empty; an order may come before the collector starts.
LeaveDrain ==
    /\ mpc = "drain"
    /\ ring = <<>>
    /\ mpc' = "clock"
    /\ UNCHANGED <<lobvars, ring, recvvars, silent, next, todo, due, gid,
                   cancelvars, reports>>

\* gc_interval_ns is over.  _run_orphan_gc: the clock is read and the entries
\* of _order_map listed.  (A round without a collection is the wait in "drain".)
StartGc ==
    /\ mpc = "clock"
    /\ todo' = {i \in Id : orders[i].status # "ABSENT"}
    /\ due' = silent
    /\ mpc' = "gc"
    /\ UNCHANGED <<lobvars, ring, recvvars, silent, next, gid, cancelvars, reports>>

OrphanMutant(i) == orders[i].status = "PARTIAL" /\ owner[i] \in due \cap silent

\* Open, and its strategy has not been heard of since before the clock was read.
Orphan(i) == orders[i].status \notin Closed /\ owner[i] \in due \cap silent

GcLook(i) ==
    /\ mpc = "gc"
    /\ i \in todo /\ \A j \in todo : i <= j
    /\ todo' = todo \ {i}
    /\ IF Orphan(i) THEN mpc' = "gc_assert" /\ gid' = i
                    ELSE mpc' = mpc /\ gid' = gid
    /\ UNCHANGED <<lobvars, ring, recvvars, silent, next, due, cancelvars, reports>>

GcDone ==
    /\ mpc = "gc"
    /\ todo = {}
    /\ mpc' = "drain" /\ due' = {} /\ gid' = NoId
    /\ UNCHANGED <<lobvars, ring, recvvars, silent, next, todo, cancelvars, reports>>

\* The assertion of apply_cancel; it ends the match loop when it fails.
GcAssert ==
    /\ mpc = "gc_assert"
    /\ mpc' = IF orders[gid].status \notin Closed THEN "gc_write" ELSE "dead"
    /\ UNCHANGED <<lobvars, ring, recvvars, silent, next, todo, due, gid,
                   cancelvars, reports>>

GcWrite ==
    /\ mpc = "gc_write"
    /\ orders' = Cancelled(gid)
    /\ mpc' = "gc_publish"
    /\ UNCHANGED <<keys, queue, pc, matchvars, ring, recvvars, silent, next, todo,
                   due, gid, cancelvars, reports>>

GcPublish ==
    /\ mpc = "gc_publish"
    /\ reports' = Say(gid, "CANCEL", 0)
    /\ mpc' = "gc"
    /\ UNCHANGED <<lobvars, ring, recvvars, silent, next, todo, due, gid,
                   cancelvars>>

-----------------------------------------------------------------------------
\* cancel_recv_loop: a request may name any order at any time; one that is not
\* in _order_map, still in the ring buffer say, or is closed is passed over.
CancelRecv(i) ==
    /\ cpc = "recv"
    /\ orders[i].status \in Fillable
    /\ cpc' = "assert" /\ cid' = i
    /\ UNCHANGED <<lobvars, ring, recvvars, silent, loopvars, reports>>

CancelAssertMutant ==
    /\ cpc = "assert"
    /\ cpc' = "write"
    /\ UNCHANGED <<lobvars, ring, recvvars, silent, loopvars, cid, reports>>

\* apply_cancel asserts; nothing catches an AssertionError of this thread.
CancelAssert ==
    /\ cpc = "assert"
    /\ cpc' = IF orders[cid].status \notin Closed THEN "write" ELSE "dead"
    /\ UNCHANGED <<lobvars, ring, recvvars, silent, loopvars, cid, reports>>

CancelWrite ==
    /\ cpc = "write"
    /\ orders' = Cancelled(cid)
    /\ cpc' = "publish"
    /\ UNCHANGED <<keys, queue, pc, matchvars, ring, recvvars, silent, loopvars,
                   cid, reports>>

CancelPublish ==
    /\ cpc = "publish"
    /\ reports' = Say(cid, "CANCEL", 0)
    /\ cpc' = "recv" /\ cid' = NoId
    /\ UNCHANGED <<lobvars, ring, recvvars, silent, loopvars>>

\* Neither thread runs while the other is between an assertion and the status
\* it guards, unless the interpreter switches there.
MatchMayRun == SwitchInside \/ cpc # "write"
CancelMayRun ==
    \/ SwitchInside
    \/ pc \notin {"status_resting", "status_incoming"} /\ mpc # "gc_write"

MatchLoop == MatchMayRun /\
    (\/ PopRing \/ MatchOrder \/ PublishNew \/ PublishFill
     \/ LeaveDrain \/ StartGc \/ (\E i \in Id : GcLook(i)) \/ GcDone
     \/ GcAssert \/ GcWrite \/ GcPublish)

CancelThread == CancelMayRun /\
    ((\E i \in Id : CancelRecv(i)) \/ CancelAssert \/ CancelWrite \/ CancelPublish)

Environment ==
    \/ \E s \in Strategy : GoSilent(s)
    \/ \E n \in Inbound : Recv(n)

Next == MatchLoop \/ CancelThread \/ Environment

Spec == Init /\ [][Next]_mevars

\* What the cancel thread does for a request once it has come.
ServeCancel == CancelMayRun /\ (CancelAssert \/ CancelWrite \/ CancelPublish)

\* Both threads run.  That a request, an order or a silence comes at all is up to
\* the clients, who owe none.
FairSpec == Spec /\ WF_mevars(MatchLoop) /\ WF_mevars(ServeCancel)

-----------------------------------------------------------------------------
TypeOK ==
    /\ LobTypeOK
    /\ ring \in Seq(Nos) /\ Len(ring) <= RingSize
    /\ got \in 0..MaxOrders
    /\ owner \in [Id -> Strategy]
    /\ silent \subseteq Strategy /\ due \subseteq Strategy
    /\ mpc \in {"drain", "order", "clock", "gc", "gc_assert", "gc_write", "gc_publish", "dead"}
    /\ next \in Nat \ {0}
    /\ todo \subseteq Id
    /\ gid \in Id \cup {NoId} /\ cid \in Id \cup {NoId}
    /\ cpc \in {"recv", "assert", "write", "publish", "dead"}
    /\ reports \in [Id -> Seq(Report)]

Reported(i) == SumFunction([k \in DOMAIN reports[i] |-> reports[i][k].qty])

\* The fills reported for an order add up to what it traded: no fill goes
\* unreported or is reported twice, to either side, however a cancel cuts in
\* (matching_engine.py:84-104).
ReportsMatchTrades == mpc = "drain" => \A i \in Id : Reported(i) = orders[i].cum

\* Every order the engine has taken from the ring buffer is answered by the
\* time it takes the next one, and a cancelled order is told so
\* (matching_engine.py:103-104, 122, 288).
EveryOrderAnswered ==
    mpc = "drain" => \A i \in Id :
        /\ orders[i].status # "ABSENT" => reports[i] # <<>>
        /\ orders[i].status = "CANCELLED" /\ ~ (cpc = "publish" /\ cid = i) =>
              \E k \in DOMAIN reports[i] : reports[i][k].type = "CANCEL"

InRing(i) == \E k \in DOMAIN ring : ring[k].id = i

\* An order that was received and never reaches the book was pushed out of a
\* full ring buffer by at least RingSize later ones; until then the ring holds
\* the orders in the order they came (matching_engine.py:265).
LostOnlyByOverflow ==
    \A i \in 1..got :
        \/ orders[i].status # "ABSENT"
        \/ InRing(i) /\ (\A j \in 1..got : j > i => InRing(j))
        \/ got >= i + RingSize

\* ME-09: an open order of a strategy that stays silent is closed sooner or
\* later, as long as the match loop lives (matching_engine.py:107-122).
OrphanIsClosed ==
    \A i \in Id :
        orders[i].status \in Fillable /\ owner[i] \in silent
            ~> \/ orders[i].status \in Closed
               \/ owner[i] \notin silent
               \/ mpc = "dead" \/ pc = "raised"

\* Every order in the ring buffer is matched or pushed out of it, as long as
\* the match loop lives (matching_engine.py:143-150).
RingDrains ==
    \A i \in Id : InRing(i) ~> ~ InRing(i) \/ mpc = "dead" \/ pc = "raised"

\* Every submission ends: no sweep loops for ever on a level whose orders are
\* all cancelled, nor on cancels that keep coming (lob.py:152-156).
SubmitEnds == pc = "sweep" ~> pc \in {"idle", "raised"}

\* The assertions that "cannot fill" (lob.py:32) and "cannot cancel" (lob.py:44)
\* an order in its status hold in the match loop.  They do not: a cancel request
\* served between the check of a status and the call that asserts it ends the
\* loop, and with it all matching (lob.py:154-158, matching_engine.py:114-121).
MatchLoopLives == pc # "raised" /\ mpc # "dead"

\* The same for the thread that serves cancel requests: an order that fills
\* between its check and apply_cancel ends it (matching_engine.py:285-286).
CancelThreadLives == cpc # "dead"
=============================================================================
