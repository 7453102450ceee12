------------------------ MODULE MatchingEngineProofs ------------------------
(***************************************************************************)
(* The book of the matching engine stays well typed and uncrossed whatever *)
(* its threads do: for any ring buffer, arrivals and strategies, and       *)
(* wherever the interpreter switches threads (both values of SwitchInside).*)
(* The steps of a submission are those of LimitOrderBook, so their lemmas  *)
(* apply; what is new is a status written between any two of them.         *)
(***************************************************************************)
EXTENDS MatchingEngine, BookTradesProofs

\* The ring buffer holds orders, and a thread that is about to write or report
\* a cancel holds the id of one.
ThreadsOk ==
    /\ ring \in Seq(Nos)
    /\ mpc \in {"gc_assert", "gc_write", "gc_publish"} => gid \in Id
    /\ cpc \in {"assert", "write", "publish"} => cid \in Id

EngineInv == BookInv /\ ThreadsOk

\* A cancel written at any point of a submission leaves the book in order
\* (lob.py:43-47 run by another thread).
LEMMA CancelledAnywhere ==
    ASSUME BookInv, NEW i \in Id, orders' = Cancelled(i),
           UNCHANGED <<keys, queue, pc, matchvars>>
    PROVE  BookInv'
<1> DEFINE o == [orders[i] EXCEPT !.status = "CANCELLED"]
<1>1. /\ o \in Order /\ o.side = orders[i].side
      /\ o.type = orders[i].type /\ o.price = orders[i].price
  BY StatusType DEF OrderStatus, BookInv, LobTypeOK
<1>2. orders' = [orders EXCEPT ![i] = o]
  BY DEF Cancelled
<1> HIDE DEF o
<1>3. /\ UNCHANGED <<keys, queue, inc, lvl, swept, fq, fills, pc>>
      /\ fq \in Int /\ fills \in Seq(Id \X Int \X Price) /\ pc \in Pc
  BY DEF matchvars, BookInv, LobTypeOK
<1>4. QED
  BY <1>1, <1>2, <1>3, OrderStep DEF BookInv, Sweeping

\* A step that leaves the book's variables alone leaves its invariant alone.
LEMMA BookUntouched ==
    ASSUME BookInv, UNCHANGED lobvars
    PROVE  BookInv'
  BY DEF lobvars, BookInv, LobTypeOK, Sweeping, NotCrossed, Far

\* The match loop takes an order from the ring buffer (matching_engine.py:144).
LEMMA PopRingStep ==
    ASSUME EngineInv, PopRing
    PROVE  EngineInv'
<1> DEFINE n == Head(ring)
<1>1. ring \in Seq(Nos) /\ ring # <<>>
  BY DEF EngineInv, ThreadsOk, PopRing
<1>2. n \in Nos /\ Tail(ring) \in Seq(Nos)
  BY <1>1
<1>3. Submit(n.id, n.side, n.type, n.price, n.qty)
  BY DEF PopRing
<1> HIDE DEF n
<1>4. /\ n.id \in Id /\ n.side \in Side /\ n.type \in OrderType
      /\ n.price \in Price \cup {NoPrice} /\ n.qty \in Quantity
  BY <1>2 DEF Nos
<1>5. BookInv'
  BY <1>3, <1>4, SubmitStep DEF EngineInv
<1>6. ThreadsOk'
  BY <1>2 DEF PopRing, cancelvars, EngineInv, ThreadsOk
<1>7. QED
  BY <1>5, <1>6 DEF EngineInv

\* An order arrives: a full ring buffer loses its oldest (matching_engine.py:265).
LEMMA RecvStep ==
    ASSUME EngineInv, NEW n \in Inbound, Recv(n)
    PROVE  EngineInv'
<1>1. n \in Nos /\ ring \in Seq(Nos) /\ RingSize \in Nat \ {0}
  BY EngineAssumption DEF EngineInv, ThreadsOk
<1>2. Pushed(n) \in Seq(Nos)
  <2>1. CASE Len(ring) < RingSize
    BY <1>1, <2>1 DEF Pushed
  <2>2. CASE ~ (Len(ring) < RingSize)
    <3>1. Tail(ring) \in Seq(Nos)
      BY <1>1, <2>2
    <3>2. QED
      BY <1>1, <2>2, <3>1 DEF Pushed
  <2>3. QED
    BY <2>1, <2>2
<1>3. BookInv'
  BY BookUntouched DEF Recv, EngineInv
<1>4. ThreadsOk'
  BY <1>2 DEF Recv, loopvars, cancelvars, EngineInv, ThreadsOk
<1>5. QED
  BY <1>3, <1>4 DEF EngineInv

\* The match loop and its collector, but for the steps of a submission.
LEMMA LoopStep ==
    ASSUME EngineInv,
           \/ PublishNew \/ PublishFill \/ LeaveDrain \/ StartGc
           \/ (\E i \in Id : GcLook(i)) \/ GcDone \/ GcAssert \/ GcWrite \/ GcPublish
    PROVE  EngineInv'
<1>1. ASSUME UNCHANGED lobvars PROVE BookInv'
  BY <1>1, BookUntouched DEF EngineInv
<1>2. CASE PublishNew \/ PublishFill \/ LeaveDrain \/ StartGc \/ GcDone
  BY <1>1, <1>2 DEF PublishNew, PublishFill, LeaveDrain, StartGc, GcDone,
                    cancelvars, EngineInv, ThreadsOk
<1>3. CASE \E i \in Id : GcLook(i)
  BY <1>1, <1>3 DEF GcLook, cancelvars, EngineInv, ThreadsOk
<1>4. CASE GcAssert \/ GcPublish
  BY <1>1, <1>4 DEF GcAssert, GcPublish, cancelvars, EngineInv, ThreadsOk
<1>5. CASE GcWrite
  <2>1. gid \in Id /\ orders' = Cancelled(gid) /\ UNCHANGED <<keys, queue, pc, matchvars>>
    BY <1>5 DEF GcWrite, EngineInv, ThreadsOk
  <2>2. BookInv'
    BY <2>1, CancelledAnywhere DEF EngineInv
  <2>3. QED
    BY <1>5, <2>2 DEF GcWrite, cancelvars, EngineInv, ThreadsOk
<1>6. QED
  BY <1>2, <1>3, <1>4, <1>5

\* The cancel thread, at any point of what the match loop does.
LEMMA CancelThreadStep ==
    ASSUME EngineInv, CancelThread
    PROVE  EngineInv'
<1>1. ASSUME UNCHANGED lobvars PROVE BookInv'
  BY <1>1, BookUntouched DEF EngineInv
<1>2. CASE \E i \in Id : CancelRecv(i)
  BY <1>1, <1>2 DEF CancelRecv, loopvars, EngineInv, ThreadsOk
<1>3. CASE CancelAssert \/ CancelPublish
  BY <1>1, <1>3 DEF CancelAssert, CancelPublish, loopvars, EngineInv, ThreadsOk
<1>4. CASE CancelWrite
  <2>1. cid \in Id /\ orders' = Cancelled(cid) /\ UNCHANGED <<keys, queue, pc, matchvars>>
    BY <1>4 DEF CancelWrite, EngineInv, ThreadsOk
  <2>2. BookInv'
    BY <2>1, CancelledAnywhere DEF EngineInv
  <2>3. QED
    BY <1>4, <2>2 DEF CancelWrite, loopvars, EngineInv, ThreadsOk
<1>5. QED
  BY <1>2, <1>3, <1>4 DEF CancelThread

\* The invariant of the engine, under every interleaving of its threads.
THEOREM EngineInvariant == Spec => []EngineInv
<1>1. Init => EngineInv
  BY BookInvInit DEF Init, EngineInv, ThreadsOk
<1>2. EngineInv /\ [Next]_mevars => EngineInv'
  <2> SUFFICES ASSUME EngineInv, [Next]_mevars
               PROVE  EngineInv'
    OBVIOUS
  <2>1. CASE MatchOrder
    <3>1. BookInv'
      BY <2>1, MatchStepKeepsInv DEF MatchOrder, EngineInv
    <3>2. QED
      BY <2>1, <3>1 DEF MatchOrder, loopvars, cancelvars, EngineInv, ThreadsOk
  <2>2. CASE MatchLoop /\ ~ MatchOrder
    BY <2>2, PopRingStep, LoopStep DEF MatchLoop
  <2>3. CASE CancelThread
    BY <2>3, CancelThreadStep
  <2>4. ASSUME NEW s \in Strategy, GoSilent(s)
        PROVE  EngineInv'
    BY <2>4, BookUntouched DEF GoSilent, loopvars, cancelvars, EngineInv, ThreadsOk
  <2>5. ASSUME NEW n \in Inbound, Recv(n)
        PROVE  EngineInv'
    BY <2>5, RecvStep
  <2>6. CASE UNCHANGED mevars
    BY <2>6, BookUntouched DEF mevars, loopvars, cancelvars, EngineInv, ThreadsOk
  <2>7. QED
    BY <2>1, <2>2, <2>3, <2>4, <2>5, <2>6 DEF Next, Environment
<1>3. QED
  BY <1>1, <1>2, PTL DEF Spec

\* No bid meets an ask in the engine's book, however cancels and the orphan
\* collector interleave with matching (lob.py:103-123, matching_engine.py:274-289).
THEOREM EngineNeverCrossed == Spec => []NotCrossed
<1>1. EngineInv => NotCrossed
  BY DEF EngineInv, BookInv
<1>2. QED
  BY <1>1, EngineInvariant, PTL

\* Whatever the threads do, every open order of the engine's book is where it
\* belongs (lob.py:99-162 with lob.py:43-47 run in between).
LEMMA EngineStepStructure ==
    ASSUME EngineInv, Structure, [Next]_mevars
    PROVE  Structure'
<1>1. BookInv
  BY DEF EngineInv
<1>2. CASE PopRing
  <2>1. Head(ring) \in Nos
    BY <1>2 DEF PopRing, EngineInv, ThreadsOk
  <2> DEFINE n == Head(ring)
  <2>2. /\ n.id \in Id /\ n.side \in Side /\ n.type \in OrderType
        /\ n.price \in Price \cup {NoPrice} /\ n.qty \in Quantity
        /\ Submit(n.id, n.side, n.type, n.price, n.qty)
    BY <1>2, <2>1 DEF PopRing, Nos
  <2>3. QED
    BY <1>1, <2>2, SubmitStructure
<1>3. CASE MatchOrder
  BY <1>1, <1>3, MatchStepKeepsStructure DEF MatchOrder
<1>4. CASE GcWrite \/ CancelWrite
  <2>1. PICK i \in Id : orders' = [orders EXCEPT ![i].status = "CANCELLED"]
    BY <1>4 DEF GcWrite, CancelWrite, Cancelled, EngineInv, ThreadsOk
  <2>2. UNCHANGED <<keys, queue, pc, matchvars>>
    BY <1>4 DEF GcWrite, CancelWrite
  <2>3. QED
    BY <1>1, <2>1, <2>2, CancelStructure
<1>5. CASE UNCHANGED lobvars
  BY <1>5, BookAsItWas
<1>6. QED
  <2>1. ASSUME MatchLoop PROVE Structure'
    BY <2>1, <1>2, <1>3, <1>4, <1>5
       DEF MatchLoop, PublishNew, PublishFill, LeaveDrain, StartGc, GcLook, GcDone,
           GcAssert, GcPublish
  <2>2. ASSUME CancelThread PROVE Structure'
    BY <2>2, <1>4, <1>5 DEF CancelThread, CancelRecv, CancelAssert, CancelPublish
  <2>3. ASSUME Environment PROVE Structure'
    BY <2>3, <1>5 DEF Environment, GoSilent, Recv
  <2>4. QED
    BY <2>1, <2>2, <2>3, <1>5 DEF Next, mevars

\* The structure of the engine's book, under every interleaving of its threads.
THEOREM EngineStructure == Spec => [](EngineInv /\ Structure)
<1>1. Init => Structure
  BY StructureInit DEF Init
<1>2. EngineInv /\ Structure /\ [Next]_mevars => Structure'
  BY EngineStepStructure
<1>3. QED
  BY <1>1, <1>2, EngineInvariant, PTL DEF Spec

\* ME-06 in the engine: a cancel that cuts in leaves no ghost level behind
\* (lob.py:109-110, 117-118, 142-143).
THEOREM EngineNoGhostLevel == Spec => []NoGhostLevel
<1>1. EngineInv /\ Structure => NoGhostLevel
  BY StructureAtRest DEF EngineInv
<1>2. QED
  BY <1>1, EngineStructure, PTL

\* A cancel that races a fill or a remainder that rests loses, doubles and
\* misplaces no order (lob.py:120-123, 153-162, matching_engine.py:274-289).
THEOREM EngineHoldsOpenOrders == Spec => []BookHoldsOpenOrders
<1>1. EngineInv /\ Structure => BookHoldsOpenOrders
  BY StructureAtRest DEF EngineInv
<1>2. QED
  BY <1>1, EngineStructure, PTL

-----------------------------------------------------------------------------
(***************************************************************************)
(* What a step of the engine does to the book: it starts a submission,     *)
(* goes on with one, cancels an order, or leaves the book alone.           *)
(***************************************************************************)
Cancels(i) ==
    /\ orders' = [orders EXCEPT ![i].status = "CANCELLED"]
    /\ UNCHANGED <<keys, queue, pc, matchvars>>
    /\ \/ i = gid /\ GcWrite
       \/ i = cid /\ CancelWrite

LEMMA EngineMoves ==
    ASSUME EngineInv, [Next]_mevars
    PROVE  \/ /\ PopRing /\ Head(ring) \in Nos /\ ring \in Seq(Nos) /\ ring # <<>>
              /\ LET n == Head(ring) IN Submit(n.id, n.side, n.type, n.price, n.qty)
           \/ MatchOrder
           \/ \E i \in Id : Cancels(i)
           \/ UNCHANGED lobvars
<1>1. CASE PopRing
  BY <1>1 DEF PopRing, EngineInv, ThreadsOk
<1>2. CASE GcWrite \/ CancelWrite
  BY <1>2 DEF GcWrite, CancelWrite, Cancelled, Cancels, EngineInv, ThreadsOk
<1>3. QED
  <2>1. ASSUME MatchLoop, ~ PopRing, ~ MatchOrder, ~ GcWrite PROVE UNCHANGED lobvars
    BY <2>1 DEF MatchLoop, PublishNew, PublishFill, LeaveDrain, StartGc, GcLook, GcDone,
                GcAssert, GcPublish
  <2>2. ASSUME CancelThread, ~ CancelWrite PROVE UNCHANGED lobvars
    BY <2>2 DEF CancelThread, CancelRecv, CancelAssert, CancelPublish
  <2>3. ASSUME Environment PROVE UNCHANGED lobvars
    BY <2>3 DEF Environment, GoSilent, Recv
  <2>4. QED
    BY <2>1, <2>2, <2>3, <1>1, <1>2 DEF Next, mevars

\* The trades of the engine's book, under every interleaving of its threads.
THEOREM EngineAccounts == Spec => [](EngineInv /\ Structure /\ Accounts)
<1>1. Init => Accounts
  BY AccountsInit DEF Init
<1>2. EngineInv /\ EngineInv' /\ Structure /\ Accounts /\ [Next]_mevars => Accounts'
  <2> SUFFICES ASSUME EngineInv, EngineInv', Structure, Accounts, [Next]_mevars
               PROVE  Accounts'
    OBVIOUS
  <2>1. BookInv /\ BookInv'
    BY DEF EngineInv
  <2>2. ASSUME Head(ring) \in Nos,
               LET n == Head(ring) IN Submit(n.id, n.side, n.type, n.price, n.qty)
        PROVE  Accounts'
    <3> DEFINE n == Head(ring)
    <3>1. /\ n.id \in Id /\ n.side \in Side /\ n.type \in OrderType
          /\ n.price \in Price \cup {NoPrice} /\ n.qty \in Quantity
          /\ Submit(n.id, n.side, n.type, n.price, n.qty)
      BY <2>2 DEF Nos
    <3> HIDE DEF n
    <3>2. QED
      BY <2>1, <3>1, SubmitAccounts
  <2>3. CASE MatchOrder
    BY <2>1, <2>3, MatchStepKeepsAccounts DEF MatchOrder
  <2>4. ASSUME NEW i \in Id, Cancels(i)
        PROVE  Accounts'
    BY <2>1, <2>4, CancelAccounts DEF Cancels
  <2>5. CASE UNCHANGED lobvars
    BY <2>1, <2>5, TradesAsTheyWere
  <2>6. QED
    BY <2>2, <2>3, <2>4, <2>5, EngineMoves
<1>3. QED
  BY <1>1, <1>2, EngineInvariant, EngineStructure, PTL DEF Spec

\* Whatever cancels cut into a fill, every share bought is a share sold for the
\* same money (lob.py:38-39, 158-159, matching_engine.py:274-289).
THEOREM EngineTradesBalance == Spec => []TradesBalance
<1>1. EngineInv /\ Accounts => TradesBalance
  BY BalancedAtRest DEF EngineInv
<1>2. QED
  BY <1>1, EngineAccounts, PTL

\* No LIMIT order pays more, or receives less, than its limit, in any state of
\* the engine (lob.py:50-51, 104-108).
THEOREM EngineLimitRespected == Spec => []LimitRespected
<1>1. Accounts => LimitRespected
  BY DEF Accounts, WithinLimit, LimitRespected
<1>2. QED
  BY <1>1, EngineAccounts, PTL

-----------------------------------------------------------------------------
(***************************************************************************)
(* Where the interpreter does not switch threads between an assertion and  *)
(* the status it guards, a cancel is written over an order that can still  *)
(* be cancelled and never inside apply_fill.                               *)
(***************************************************************************)
Phase == mpc # "order" => pc = "idle"

Checked ==
    /\ cpc = "write" => /\ orders[cid].status \notin Closed /\ mpc # "gc_write"
                        /\ pc \notin {"status_resting", "status_incoming"}
    /\ mpc = "gc_write" => orders[gid].status \notin Closed

\* The match loop matches in "order" and nowhere else.
LEMMA PhaseStep ==
    ASSUME Phase, [Next]_mevars
    PROVE  Phase'
<1>1. ASSUME MatchLoop PROVE Phase'
  BY <1>1 DEF Phase, MatchLoop, PopRing, MatchOrder, PublishNew, PublishFill, LeaveDrain,
     StartGc, GcLook, GcDone, GcAssert, GcWrite, GcPublish, lobvars, loopvars
<1>2. ASSUME CancelThread PROVE Phase'
  BY <1>2 DEF Phase, CancelThread, CancelRecv, CancelAssert, CancelWrite, CancelPublish,
     lobvars, loopvars
<1>3. ASSUME Environment \/ UNCHANGED mevars PROVE Phase'
  BY <1>3 DEF Phase, Environment, GoSilent, Recv, lobvars, loopvars, mevars
<1>4. QED
  BY <1>1, <1>2, <1>3 DEF Next

\* A cancel is written where it was checked.
LEMMA CheckedStep ==
    ASSUME ~ SwitchInside, EngineInv, Phase, Checked, [Next]_mevars
    PROVE  Checked'
<1>1. ASSUME MatchLoop PROVE Checked'
  <2>1. cpc # "write"
    BY <1>1 DEF MatchLoop, MatchMayRun
  <2>2. UNCHANGED cpc
    BY <1>1 DEF MatchLoop, PopRing, MatchOrder, PublishNew, PublishFill, LeaveDrain,
       StartGc, GcLook, GcDone, GcAssert, GcWrite, GcPublish, cancelvars
  <2>3. mpc' = "gc_write" => orders'[gid'].status \notin Closed
    BY <1>1 DEF MatchLoop, PopRing, MatchOrder, PublishNew, PublishFill, LeaveDrain,
       StartGc, GcLook, GcDone, GcAssert, GcWrite, GcPublish, lobvars, loopvars, Checked
  <2>4. QED
    BY <2>1, <2>2, <2>3 DEF Checked
<1>2. ASSUME CancelThread PROVE Checked'
  <2>1. pc \notin {"status_resting", "status_incoming"} /\ mpc # "gc_write"
    BY <1>2 DEF CancelThread, CancelMayRun
  <2>2. UNCHANGED <<mpc, pc>>
    BY <1>2 DEF CancelThread, CancelRecv, CancelAssert, CancelWrite, CancelPublish,
       lobvars, loopvars
  <2>3. cpc' = "write" => orders'[cid'].status \notin Closed
    BY <1>2 DEF CancelThread, CancelRecv, CancelAssert, CancelWrite, CancelPublish, lobvars
  <2>4. QED
    BY <2>1, <2>2, <2>3 DEF Checked
<1>3. ASSUME Environment \/ UNCHANGED mevars PROVE Checked'
  BY <1>3 DEF Checked, Environment, GoSilent, Recv, lobvars, loopvars, cancelvars, mevars
<1>4. QED
  BY <1>1, <1>2, <1>3 DEF Next

Uncut == EngineInv /\ Structure /\ Accounts /\ Statuses /\ Phase /\ Checked

\* What is cancelled was open, between two fills.
LEMMA CancelsChecked ==
    ASSUME ~ SwitchInside, Uncut, NEW i \in Id, Cancels(i)
    PROVE  orders[i].status \notin Closed /\ pc \notin {"status_resting", "status_incoming"}
  BY DEF Uncut, Phase, Checked, Cancels, GcWrite, CancelWrite

LEMMA UncutStep ==
    ASSUME ~ SwitchInside, Uncut, BookInv', [Next]_mevars
    PROVE  /\ Statuses'
           /\ \A i \in Id : orders[i].status \in {"FILLED", "CANCELLED"} =>
                               orders'[i] = orders[i]
<1>1. BookInv /\ orders \in [Id -> Order]
  BY DEF Uncut, EngineInv, BookInv, LobTypeOK
<1>2. ASSUME Head(ring) \in Nos,
             LET n == Head(ring) IN Submit(n.id, n.side, n.type, n.price, n.qty)
      PROVE  /\ Statuses'
             /\ \A i \in Id : orders[i].status \in {"FILLED", "CANCELLED"} =>
                                 orders'[i] = orders[i]
  <2> DEFINE n == Head(ring)
  <2>1. /\ n.id \in Id /\ n.side \in Side /\ n.type \in OrderType
        /\ n.price \in Price \cup {NoPrice} /\ n.qty \in Quantity
        /\ Submit(n.id, n.side, n.type, n.price, n.qty)
    BY <1>2 DEF Nos
  <2> HIDE DEF n
  <2>2. Statuses'
    BY <1>1, <2>1, SubmitStatuses DEF Uncut
  <2>3. QED
    BY <1>1, <2>1, <2>2 DEF Submit
<1>3. CASE MatchOrder
  BY <1>1, <1>3, MatchStepKeepsStatuses DEF MatchOrder, Uncut
<1>4. ASSUME NEW i \in Id, Cancels(i)
      PROVE  /\ Statuses'
             /\ \A j \in Id : orders[j].status \in {"FILLED", "CANCELLED"} =>
                                 orders'[j] = orders[j]
  <2>1. orders[i].status \notin Closed /\ pc \notin {"status_resting", "status_incoming"}
    BY <1>4, CancelsChecked
  <2>2. Statuses'
    BY <1>1, <1>4, <2>1, CancelStatuses DEF Uncut, Cancels, Closed
  <2>3. QED
    BY <1>1, <1>4, <2>1, <2>2 DEF Cancels, Closed
<1>5. CASE UNCHANGED lobvars
  BY <1>1, <1>5, TradesAsTheyWere DEF Uncut, lobvars
<1>6. QED
  BY <1>2, <1>3, <1>4, <1>5, EngineMoves DEF Uncut

THEOREM EngineUncut ==
    ASSUME ~ SwitchInside
    PROVE  Spec => []Uncut
<1>1. Init => Statuses /\ Phase /\ Checked
  BY StatusesInit DEF Init, LobInit, Phase, Checked
<1>2. Uncut /\ BookInv' /\ [Next]_mevars => Statuses' /\ Phase' /\ Checked'
  BY UncutStep, PhaseStep, CheckedStep DEF Uncut
<1>3. EngineInv => BookInv
  BY DEF EngineInv
<1>4. EngineInv /\ Structure /\ Accounts /\ Statuses /\ Phase /\ Checked <=> Uncut
  BY DEF Uncut
<1>5. QED
  BY <1>1, <1>2, <1>3, <1>4, EngineAccounts, PTL DEF Spec

\* The status of an order says what its quantities say, whatever the threads
\* do between the calls that change it (lob.py:41, 45-47).
THEOREM EngineStatusAgrees ==
    ASSUME ~ SwitchInside
    PROVE  Spec => []StatusAgrees
<1>1. Uncut => StatusAgrees
  BY StatusesAtRest DEF Uncut
<1>2. QED
  BY <1>1, EngineUncut, PTL

\* ME-04: a FILLED or CANCELLED order never changes again, for any orders,
\* cancels and collections (lob.py:32, 44, 153-156, matching_engine.py:114-121).
THEOREM ClosedForGood ==
    ASSUME ~ SwitchInside
    PROVE  Spec => TerminalIsFinal
<1>1. Uncut /\ BookInv' /\ [Next]_mevars =>
         [\A i \in Id : orders[i].status \in {"FILLED", "CANCELLED"} =>
             orders'[i] = orders[i]]_lobvars
  BY UncutStep
<1>2. Uncut => BookInv
  BY DEF Uncut, EngineInv
<1>3. QED
  BY <1>1, <1>2, EngineUncut, PTL DEF Spec, TerminalIsFinal

-----------------------------------------------------------------------------
(***************************************************************************)
(* The ring buffer and what is in it.                                      *)
(***************************************************************************)
EngineTypes ==
    /\ Len(ring) <= RingSize /\ got \in 0..MaxOrders
    /\ owner \in [Id -> Strategy]
    /\ silent \subseteq Strategy /\ due \subseteq Strategy
    /\ mpc \in {"drain", "order", "clock", "gc", "gc_assert", "gc_write", "gc_publish", "dead"}
    /\ next \in Nat \ {0}
    /\ todo \subseteq Id
    /\ gid \in Id \cup {NoId} /\ cid \in Id \cup {NoId}
    /\ cpc \in {"recv", "assert", "write", "publish", "dead"}
    /\ reports \in [Id -> Seq(Report)]

\* An order whose fills are being reported is one of the book, and the list is
\* read from its start.
Dispatch ==
    /\ mpc = "order" => inc \in Id
    /\ next # 1 => mpc = "order" /\ pc = "idle" /\ next <= Len(fills)

\* A thread cancels orders of the book only.
Known ==
    /\ cpc \in {"assert", "write", "publish"} => orders[cid].status # "ABSENT"
    /\ mpc \in {"gc_assert", "gc_write", "gc_publish"} => orders[gid].status # "ABSENT"
    /\ \A i \in todo : orders[i].status # "ABSENT"

\* The ring buffer holds the last orders received, in the order they came.
LastOnes ==
    /\ Len(ring) <= got
    /\ \A k \in 1..Len(ring) : ring[k].id = got - Len(ring) + k
    /\ \A i \in 1..(got - Len(ring)) : orders[i].status # "ABSENT" \/ got >= i + RingSize

DeskInv == EngineInv /\ Structure /\ FillsSound /\ EngineTypes /\ Dispatch /\ Known /\ LastOnes

\* What every step of the engine leaves true of the orders: none is forgotten.
LEMMA NoneForgotten ==
    ASSUME DeskInv, [Next]_mevars
    PROVE  /\ FillsSound'
           /\ \A i \in Id : orders[i].status # "ABSENT" => orders'[i].status # "ABSENT"
<1>1. BookInv /\ orders \in [Id -> Order]
  BY DEF DeskInv, EngineInv, BookInv, LobTypeOK
<1>2. ASSUME Head(ring) \in Nos,
             LET n == Head(ring) IN Submit(n.id, n.side, n.type, n.price, n.qty)
      PROVE  /\ FillsSound'
             /\ \A i \in Id : orders[i].status # "ABSENT" => orders'[i].status # "ABSENT"
  BY <1>1, <1>2 DEF Submit, FillsSound, InFill, InLevel
<1>3. CASE MatchOrder
  BY <1>1, <1>3, MatchStepKeepsFills DEF MatchOrder, DeskInv
<1>4. ASSUME NEW i \in Id, Cancels(i)
      PROVE  /\ FillsSound'
             /\ \A j \in Id : orders[j].status # "ABSENT" => orders'[j].status # "ABSENT"
  BY <1>1, <1>4 DEF Cancels, matchvars, DeskInv, FillsSound
<1>5. CASE UNCHANGED lobvars
  BY <1>5 DEF lobvars, DeskInv, FillsSound
<1>6. QED
  BY <1>2, <1>3, <1>4, <1>5, EngineMoves DEF DeskInv

LEMMA DispatchStep ==
    ASSUME DeskInv, [Next]_mevars
    PROVE  Dispatch'
<1>1. CASE PopRing
  <2>1. Head(ring) \in Nos
    BY <1>1 DEF PopRing, DeskInv, EngineInv, ThreadsOk
  <2>2. inc' \in Id /\ next' = 1
    BY <1>1, <2>1 DEF PopRing, Submit, Nos, DeskInv, Dispatch
  <2>3. QED
    BY <1>1, <2>2 DEF PopRing, Dispatch
<1>2. CASE MatchOrder
  <2>1. inc' = inc /\ inc \in Id /\ UNCHANGED <<mpc, next>>
    BY <1>2, MatchStepKeepsFills DEF MatchOrder, loopvars, DeskInv, EngineInv
  <2>2. pc # "idle"
    BY <1>2 DEF MatchOrder, MatchStep, NextLevel, FinishSweep, SkipCancelled, TakeHead,
       LeaveLevel, FillResting, StatusResting, FillIncoming, StatusIncoming, ApplyFill
  <2>3. QED
    BY <2>1, <2>2 DEF DeskInv, Dispatch
<1>3. CASE PublishNew
  <2>1. mpc = "order" /\ fills = <<>> /\ Len(fills) = 0 /\ next' = next /\ mpc' = "drain"
    BY <1>3 DEF PublishNew
  <2>2. next = 1
    BY <2>1 DEF DeskInv, EngineTypes, Dispatch
  <2>3. QED
    BY <2>1, <2>2 DEF Dispatch
<1>4. CASE PublishFill
  <2>1. mpc = "order" /\ pc = "idle" /\ UNCHANGED <<pc, inc, fills>> /\ next <= Len(fills)
    BY <1>4 DEF PublishFill, lobvars
  <2>2. next \in Nat \ {0} /\ Len(fills) \in Nat
    BY DEF DeskInv, EngineTypes, EngineInv, BookInv, LobTypeOK
  <2>3. CASE next = Len(fills)
    BY <1>4, <2>1, <2>3 DEF PublishFill, DeskInv, Dispatch
  <2>4. CASE next # Len(fills)
    <3>1. next' = next + 1 /\ mpc' = mpc
      BY <1>4, <2>4 DEF PublishFill
    <3>2. QED
      BY <2>1, <2>2, <2>4, <3>1 DEF DeskInv, Dispatch
  <2>5. QED
    BY <2>3, <2>4
<1>5. CASE LeaveDrain \/ StartGc \/ (\E i \in Id : GcLook(i)) \/ GcDone \/ GcAssert
            \/ GcWrite \/ GcPublish
  <2>1. mpc # "order" /\ mpc' # "order" /\ next' = next
    BY <1>5 DEF LeaveDrain, StartGc, GcLook, GcDone, GcAssert, GcWrite, GcPublish
  <2>2. QED
    BY <2>1 DEF DeskInv, Dispatch
<1>6. ASSUME UNCHANGED <<mpc, next, pc, inc, fills>> PROVE Dispatch'
  BY <1>6 DEF DeskInv, Dispatch
<1>7. CASE CancelThread \/ Environment \/ UNCHANGED mevars
  BY <1>6, <1>7 DEF CancelThread, CancelRecv, CancelAssert, CancelWrite, CancelPublish,
     Environment, GoSilent, Recv, lobvars, loopvars, matchvars, mevars
<1>8. QED
  BY <1>1, <1>2, <1>3, <1>4, <1>5, <1>7 DEF Next, MatchLoop

\* A thread goes for an order it has found in the book, and none is forgotten.
LEMMA KnownStep ==
    ASSUME DeskInv, [Next]_mevars
    PROVE  Known'
<1>1. \A i \in Id : orders[i].status # "ABSENT" => orders'[i].status # "ABSENT"
  BY NoneForgotten
<1>2. /\ cpc \in {"assert", "write", "publish"} => cid \in Id /\ orders'[cid].status # "ABSENT"
      /\ mpc \in {"gc_assert", "gc_write", "gc_publish"} =>
            gid \in Id /\ orders'[gid].status # "ABSENT"
      /\ \A i \in todo : i \in Id /\ orders'[i].status # "ABSENT"
  BY <1>1 DEF DeskInv, Known, EngineInv, ThreadsOk, EngineTypes
<1>3. \/ UNCHANGED <<cpc, cid>>
      \/ cpc' \in {"recv", "dead"}
      \/ cpc' \in {"assert", "write", "publish"} /\ cid' \in Id /\ orders'[cid'].status # "ABSENT"
  <2>1. ASSUME CancelThread
        PROVE  \/ cpc' \in {"recv", "dead"}
               \/ /\ cpc' \in {"assert", "write", "publish"}
                  /\ cid' \in Id /\ orders'[cid'].status # "ABSENT"
    <3>1. CASE \E i \in Id : CancelRecv(i)
      <4>1. PICK i \in Id : CancelRecv(i)
        BY <3>1
      <4>2. cpc' = "assert" /\ cid' = i /\ orders[i].status # "ABSENT"
        BY <4>1 DEF CancelRecv, Fillable
      <4>3. QED
        BY <1>1, <4>2
    <3>2. CASE CancelAssert \/ CancelWrite \/ CancelPublish
      BY <1>2, <3>2 DEF CancelAssert, CancelWrite, CancelPublish
    <3>3. QED
      BY <2>1, <3>1, <3>2 DEF CancelThread
  <2>2. ASSUME MatchLoop \/ Environment \/ UNCHANGED mevars
        PROVE  UNCHANGED <<cpc, cid>>
    BY <2>2 DEF MatchLoop, PopRing, MatchOrder, PublishNew, PublishFill, LeaveDrain,
       StartGc, GcLook, GcDone, GcAssert, GcWrite, GcPublish, Environment, GoSilent, Recv,
       cancelvars, mevars
  <2>3. QED
    BY <2>1, <2>2 DEF Next
<1>4. /\ \/ UNCHANGED <<mpc, gid>>
         \/ mpc' \notin {"gc_assert", "gc_write", "gc_publish"}
         \/ gid' \in Id /\ orders'[gid'].status # "ABSENT"
      /\ \A i \in todo' : i \in Id /\ orders'[i].status # "ABSENT"
  <2>1. ASSUME MatchLoop
        PROVE  /\ \/ UNCHANGED <<mpc, gid>>
                  \/ mpc' \notin {"gc_assert", "gc_write", "gc_publish"}
                  \/ gid' \in Id /\ orders'[gid'].status # "ABSENT"
               /\ \A i \in todo' : i \in Id /\ orders'[i].status # "ABSENT"
    <3>1. CASE \/ PopRing \/ MatchOrder \/ PublishNew \/ PublishFill
               \/ LeaveDrain \/ GcDone
      BY <1>2, <3>1 DEF PopRing, MatchOrder, PublishNew, PublishFill, LeaveDrain, GcDone, loopvars
    <3>2. CASE StartGc
      BY <1>1, <3>2 DEF StartGc
    <3>3. CASE \E i \in Id : GcLook(i)
      BY <1>2, <3>3 DEF GcLook
    <3>4. CASE GcAssert \/ GcWrite \/ GcPublish
      BY <1>2, <3>4 DEF GcAssert, GcWrite, GcPublish
    <3>5. QED
      BY <2>1, <3>1, <3>2, <3>3, <3>4 DEF MatchLoop
  <2>2. ASSUME CancelThread \/ Environment \/ UNCHANGED mevars
        PROVE  UNCHANGED <<mpc, gid, todo>>
    BY <2>2 DEF CancelThread, CancelRecv, CancelAssert, CancelWrite, CancelPublish,
       Environment, GoSilent, Recv, loopvars, mevars
  <2>3. QED
    BY <1>2, <2>1, <2>2 DEF Next
<1>5. QED
  BY <1>2, <1>3, <1>4 DEF Known

\* An order that is received goes to the end; the oldest goes into the book, or
\* out of a full ring buffer (matching_engine.py:143-150, 265).
LEMMA LastOnesStep ==
    ASSUME DeskInv, [Next]_mevars
    PROVE  LastOnes' /\ Len(ring)' <= RingSize /\ got' \in 0..MaxOrders
<1>1. /\ ring \in Seq(Nos) /\ Len(ring) \in Nat /\ got \in Nat /\ got <= MaxOrders
      /\ Len(ring) <= RingSize /\ RingSize \in Nat /\ RingSize > 0 /\ MaxOrders \in Nat
  BY EngineAssumption, LobAssumption DEF DeskInv, EngineInv, ThreadsOk, EngineTypes
<1>2. \A i \in Id : orders[i].status # "ABSENT" => orders'[i].status # "ABSENT"
  BY NoneForgotten
<1>3. /\ Len(ring) <= got
      /\ \A k \in 1..Len(ring) : ring[k].id = got - Len(ring) + k
      /\ \A i \in 1..(got - Len(ring)) : orders[i].status # "ABSENT" \/ got >= i + RingSize
  BY DEF DeskInv, LastOnes
<1>4. \A i \in 1..got : i \in Id
  BY <1>1 DEF Id
<1>5. CASE UNCHANGED <<ring, got>>
  BY <1>1, <1>2, <1>3, <1>4, <1>5 DEF LastOnes
<1>6. CASE PopRing
  <2>1. /\ ring # <<>> /\ ring' = Tail(ring) /\ got' = got
        /\ orders' = [orders EXCEPT ![Head(ring).id] =
              NewOrder(Head(ring).side, Head(ring).type, Head(ring).price, Head(ring).qty)]
    BY <1>6 DEF PopRing, Submit, recvvars
  <2>2. /\ Len(ring) > 0 /\ Len(ring') = Len(ring) - 1
        /\ \A k \in 1..Len(ring') : k + 1 \in 1..Len(ring) /\ ring'[k] = ring[k + 1]
        /\ Head(ring) = ring[1]
    BY <1>1, <2>1
  <2>3. Head(ring).id = got - Len(ring) + 1 /\ Head(ring).id \in Id
    BY <1>1, <1>3, <1>4, <2>2
  <2>4. orders'[Head(ring).id].status # "ABSENT"
    BY <2>1, <2>3 DEF NewOrder, DeskInv, EngineInv, BookInv, LobTypeOK
  <2>5. /\ Len(ring') <= got'
        /\ \A k \in 1..Len(ring') : ring'[k].id = got' - Len(ring') + k
    BY <1>1, <1>3, <2>1, <2>2
  <2>6. ASSUME NEW i \in 1..(got' - Len(ring'))
        PROVE  orders'[i].status # "ABSENT" \/ got' >= i + RingSize
    <3>1. i \in 1..(got - Len(ring)) \/ i = Head(ring).id
      BY <1>1, <2>1, <2>2, <2>3
    <3>2. i \in Id
      BY <1>1, <1>4, <2>1, <2>2
    <3>3. QED
      BY <1>2, <1>3, <2>1, <2>4, <3>1, <3>2
  <2>7. QED
    BY <1>1, <2>1, <2>2, <2>5, <2>6 DEF LastOnes
<1>7. ASSUME NEW n \in Inbound, Recv(n)
      PROVE  LastOnes' /\ Len(ring)' <= RingSize /\ got' \in 0..MaxOrders
  <2>1. /\ n.id = got + 1 /\ got' = got + 1 /\ ring' = Pushed(n) /\ orders' = orders
        /\ n \in Nos /\ n.id \in Id
    BY <1>7, EngineAssumption DEF Recv, lobvars, Nos
  <2>2. CASE Len(ring) < RingSize
    <3>1. /\ ring' = Append(ring, n) /\ Len(ring') = Len(ring) + 1
          /\ \A k \in 1..Len(ring) : ring'[k] = ring[k]
          /\ ring'[Len(ring) + 1] = n
      BY <1>1, <2>1, <2>2 DEF Pushed
    <3>2. ASSUME NEW k \in 1..Len(ring')
          PROVE  ring'[k].id = got' - Len(ring') + k
      <4>1. CASE k = Len(ring) + 1
        BY <1>1, <2>1, <3>1, <4>1
      <4>2. CASE k # Len(ring) + 1
        BY <1>1, <1>3, <2>1, <3>1, <4>2
      <4>3. QED
        BY <4>1, <4>2
    <3>3. \A i \in 1..(got' - Len(ring')) : orders'[i].status # "ABSENT" \/ got' >= i + RingSize
      BY <1>1, <1>3, <2>1, <3>1
    <3>4. QED
      BY <1>1, <1>3, <2>1, <2>2, <3>1, <3>2, <3>3 DEF LastOnes, Id
  <2>3. CASE ~ (Len(ring) < RingSize)
    <3>1. Len(ring) = RingSize /\ ring # <<>>
      BY <1>1, <2>3
    <3>2. /\ Tail(ring) \in Seq(Nos) /\ Len(Tail(ring)) = Len(ring) - 1
          /\ \A k \in 1..(Len(ring) - 1) : k + 1 \in 1..Len(ring) /\ Tail(ring)[k] = ring[k + 1]
      BY <1>1, <3>1
    <3>3. /\ ring' = Append(Tail(ring), n) /\ Len(ring') = Len(ring)
          /\ \A k \in 1..(Len(ring) - 1) : ring'[k] = ring[k + 1]
          /\ ring'[Len(ring)] = n
      BY <1>1, <2>1, <2>3, <3>2 DEF Pushed
    <3>4. \A k \in 1..Len(ring') : ring'[k].id = got' - Len(ring') + k
      <4>1. ASSUME NEW k \in 1..Len(ring)
            PROVE  ring'[k].id = got' - Len(ring) + k
        <5>1. CASE k = Len(ring)
          BY <1>1, <2>1, <3>3, <5>1
        <5>2. CASE k # Len(ring)
          <6>1. k \in 1..(Len(ring) - 1) /\ k + 1 \in 1..Len(ring)
            BY <1>1, <5>2
          <6>2. ring'[k] = ring[k + 1] /\ ring[k + 1].id = got - Len(ring) + (k + 1)
            BY <1>3, <3>3, <6>1
          <6>3. QED
            BY <1>1, <2>1, <6>1, <6>2
        <5>3. QED
          BY <5>1, <5>2
      <4>2. QED
        BY <3>3, <4>1
    <3>5. \A i \in 1..(got' - Len(ring')) : got' >= i + RingSize
      BY <1>1, <2>1, <3>1, <3>3
    <3>6. QED
      BY <1>1, <1>3, <2>1, <3>1, <3>3, <3>4, <3>5 DEF LastOnes, Id
  <2>4. QED
    BY <2>2, <2>3
<1>8. QED
  <2>1. ASSUME MatchLoop, ~ PopRing PROVE UNCHANGED <<ring, got>>
    BY <2>1 DEF MatchLoop, MatchOrder, PublishNew, PublishFill, LeaveDrain,
       StartGc, GcLook, GcDone, GcAssert, GcWrite, GcPublish, recvvars
  <2>2. ASSUME CancelThread \/ (\E s \in Strategy : GoSilent(s)) \/ UNCHANGED mevars
        PROVE  UNCHANGED <<ring, got>>
    BY <2>2 DEF CancelThread, CancelRecv, CancelAssert, CancelWrite, CancelPublish,
       GoSilent, recvvars, mevars
  <2>3. QED
    BY <1>5, <1>6, <1>7, <2>1, <2>2 DEF Next, Environment

\* What is said of an order is a report (matching_engine.py:47-64).
LEMMA ReportsType ==
    ASSUME DeskInv, [Next]_mevars
    PROVE  reports' \in [Id -> Seq(Report)]
<1>1. /\ orders \in [Id -> Order] /\ \A i \in Id : orders[i].leaves \in Int
      /\ reports \in [Id -> Seq(Report)]
  BY DEF DeskInv, EngineInv, BookInv, LobTypeOK, Order, EngineTypes
<1>2. ASSUME NEW i \in Id, NEW t \in {"NEW", "CANCEL"}
      PROVE  Say(i, t, 0) \in [Id -> Seq(Report)]
  <2>1. [type |-> t, qty |-> 0, leaves |-> orders[i].leaves] \in Report
    BY <1>1 DEF Report
  <2>2. QED
    BY <1>1, <2>1 DEF Say
<1>3. CASE PublishNew
  BY <1>2, <1>3 DEF PublishNew, DeskInv, Dispatch
<1>4. CASE PublishFill
  <2> DEFINE f == fills[next]
  <2>1. f \in Id \X Nat \X Price /\ f[1] \in Id /\ inc \in Id /\ f[1] # inc
    BY <1>4 DEF PublishFill, DeskInv, FillsSound, EngineTypes, Dispatch
  <2>2. \A i \in Id : FillReport(i, f) \in Report
    BY <1>1, <2>1 DEF FillReport, FillType, Report
  <2>3. reports' = [reports EXCEPT ![f[1]] = Append(@, FillReport(f[1], f)),
                                   ![inc] = Append(@, FillReport(inc, f))]
    BY <1>4 DEF PublishFill
  <2> HIDE DEF f
  <2>4. PICK a \in Id, b \in Report, c \in Report :
           reports' = [reports EXCEPT ![a] = Append(@, b), ![inc] = Append(@, c)]
    BY <2>1, <2>2, <2>3
  <2>5. ASSUME NEW q \in Seq(Report), NEW x \in Report PROVE Append(q, x) \in Seq(Report)
    BY AppendProperties
  <2>6. QED
    BY <1>1, <2>1, <2>4, <2>5
<1>5. CASE GcPublish
  BY <1>2, <1>5 DEF GcPublish, DeskInv, EngineInv, ThreadsOk
<1>6. CASE CancelPublish
  BY <1>2, <1>6 DEF CancelPublish, DeskInv, EngineInv, ThreadsOk
<1>7. CASE reports' = reports
  BY <1>1, <1>7
<1>8. QED
  <2>1. ASSUME MatchLoop, ~ PublishNew, ~ PublishFill, ~ GcPublish PROVE reports' = reports
    BY <2>1 DEF MatchLoop, PopRing, MatchOrder, LeaveDrain, StartGc, GcLook, GcDone,
       GcAssert, GcWrite
  <2>2. ASSUME CancelThread, ~ CancelPublish PROVE reports' = reports
    BY <2>2 DEF CancelThread, CancelRecv, CancelAssert, CancelWrite
  <2>3. ASSUME Environment \/ UNCHANGED mevars PROVE reports' = reports
    BY <2>3 DEF Environment, GoSilent, Recv, mevars
  <2>4. QED
    BY <1>3, <1>4, <1>5, <1>6, <1>7, <2>1, <2>2, <2>3 DEF Next

LEMMA EngineTypesStep ==
    ASSUME DeskInv, [Next]_mevars
    PROVE  EngineTypes'
<1>1. Len(ring)' <= RingSize /\ got' \in 0..MaxOrders
  BY LastOnesStep
<1>2. reports' \in [Id -> Seq(Report)]
  BY ReportsType
<1>3. owner' = owner /\ owner \in [Id -> Strategy]
  <2>1. owner' = owner
    BY DEF Next, MatchLoop, PopRing, MatchOrder, PublishNew, PublishFill, LeaveDrain,
       StartGc, GcLook, GcDone, GcAssert, GcWrite, GcPublish, CancelThread, CancelRecv,
       CancelAssert, CancelWrite, CancelPublish, Environment, GoSilent, Recv, recvvars, mevars
  <2>2. QED
    BY <2>1 DEF DeskInv, EngineTypes
<1>4. silent' \subseteq Strategy
  <2>1. \/ silent' \subseteq silent
        \/ \E s \in Strategy : silent' = silent \cup {s}
    BY DEF Next, MatchLoop, PopRing, MatchOrder, PublishNew, PublishFill, LeaveDrain,
       StartGc, GcLook, GcDone, GcAssert, GcWrite, GcPublish, CancelThread, CancelRecv,
       CancelAssert, CancelWrite, CancelPublish, Environment, GoSilent, Recv, mevars
  <2>2. QED
    BY <2>1 DEF DeskInv, EngineTypes
<1>5. /\ due' \subseteq Strategy /\ todo' \subseteq Id /\ gid' \in Id \cup {NoId}
      /\ mpc' \in {"drain", "order", "clock", "gc", "gc_assert", "gc_write", "gc_publish", "dead"}
  <2>1. ASSUME MatchLoop
        PROVE  /\ due' \in {due, silent, {}} /\ todo' \subseteq todo \cup Id
               /\ gid' \in Id \cup {NoId, gid}
               /\ mpc' \in {mpc, "drain", "order", "clock", "gc", "gc_assert", "gc_write",
                            "gc_publish", "dead"}
    BY <2>1 DEF MatchLoop, PopRing, MatchOrder, PublishNew, PublishFill, LeaveDrain,
       StartGc, GcLook, GcDone, GcAssert, GcWrite, GcPublish, loopvars
  <2>2. ASSUME CancelThread \/ Environment \/ UNCHANGED mevars
        PROVE  UNCHANGED loopvars
    BY <2>2 DEF CancelThread, CancelRecv, CancelAssert, CancelWrite, CancelPublish,
       Environment, GoSilent, Recv, mevars
  <2>3. QED
    BY <2>1, <2>2 DEF Next, loopvars, DeskInv, EngineTypes
<1>6. next' \in Nat \ {0}
  <2>1. next' \in {1, next, next + 1}
    BY DEF Next, MatchLoop, PopRing, MatchOrder, PublishNew, PublishFill, LeaveDrain,
       StartGc, GcLook, GcDone, GcAssert, GcWrite, GcPublish, CancelThread, CancelRecv,
       CancelAssert, CancelWrite, CancelPublish, Environment, GoSilent, Recv, loopvars, mevars
  <2>2. QED
    BY <2>1 DEF DeskInv, EngineTypes
<1>7. cid' \in Id \cup {NoId} /\ cpc' \in {"recv", "assert", "write", "publish", "dead"}
  <2>1. ASSUME CancelThread
        PROVE  cid' \in Id \cup {NoId, cid} /\ cpc' \in {"recv", "assert", "write", "publish", "dead"}
    BY <2>1 DEF CancelThread, CancelRecv, CancelAssert, CancelWrite, CancelPublish
  <2>2. ASSUME MatchLoop \/ Environment \/ UNCHANGED mevars
        PROVE  UNCHANGED cancelvars
    BY <2>2 DEF MatchLoop, PopRing, MatchOrder, PublishNew, PublishFill, LeaveDrain,
       StartGc, GcLook, GcDone, GcAssert, GcWrite, GcPublish, Environment, GoSilent, Recv, mevars
  <2>3. QED
    BY <2>1, <2>2 DEF Next, cancelvars, DeskInv, EngineTypes
<1>8. QED
  BY <1>1, <1>2, <1>3, <1>4, <1>5, <1>6, <1>7 DEF EngineTypes

\* What the two threads have in hand, under every interleaving.
THEOREM EngineDesk == Spec => []DeskInv
<1>1. Init => FillsSound /\ EngineTypes /\ Dispatch /\ Known /\ LastOnes
  <2> SUFFICES ASSUME Init PROVE FillsSound /\ EngineTypes /\ Dispatch /\ Known /\ LastOnes
    OBVIOUS
  <2>1. Len(ring) = 0 /\ Len(fills) = 0 /\ RingSize \in Nat /\ MaxOrders \in Nat
    BY EngineAssumption, LobAssumption DEF Init, LobInit
  <2>2. FillsSound /\ Dispatch /\ Known
    <3>1. 1..Len(fills) = {}
      BY <2>1
    <3>2. pc \notin InFill /\ next = 1 /\ mpc = "drain" /\ cpc = "recv" /\ todo = {}
      BY DEF Init, LobInit, InFill, InLevel
    <3>3. QED
      BY <3>1, <3>2 DEF FillsSound, Dispatch, Known
  <2>3. EngineTypes
    <3>1. <<>> \in Seq(Report)
      OBVIOUS
    <3>2. reports \in [Id -> Seq(Report)]
      BY <3>1 DEF Init
    <3>3. QED
      BY <2>1, <3>2, EngineAssumption, LobAssumption DEF Init, EngineTypes
  <2>4. LastOnes
    BY <2>1 DEF Init, LastOnes
  <2>5. QED
    BY <2>2, <2>3, <2>4
<1>2. DeskInv /\ [Next]_mevars => FillsSound' /\ EngineTypes' /\ Dispatch' /\ Known' /\ LastOnes'
  BY NoneForgotten, EngineTypesStep, DispatchStep, KnownStep, LastOnesStep
<1>3. EngineInv /\ Structure /\ FillsSound /\ EngineTypes /\ Dispatch /\ Known /\ LastOnes
         <=> DeskInv
  BY DEF DeskInv
<1>4. QED
  BY <1>1, <1>2, <1>3, EngineStructure, PTL DEF Spec

\* Every variable of the engine keeps its type (matching_engine.py:67-289).
THEOREM EngineTypeCorrect == Spec => []TypeOK
<1>1. DeskInv => TypeOK
  BY DEF DeskInv, EngineInv, BookInv, ThreadsOk, EngineTypes, TypeOK
<1>2. QED
  BY <1>1, EngineDesk, PTL

\* An order that never reaches the book was pushed out of a full ring buffer by
\* RingSize later ones, for every size of it (matching_engine.py:143-150, 265).
THEOREM LostOnlyWhenFull == Spec => []LostOnlyByOverflow
<1>1. DeskInv => LostOnlyByOverflow
  <2> SUFFICES ASSUME DeskInv, NEW i \in 1..got
               PROVE  \/ orders[i].status # "ABSENT"
                      \/ InRing(i) /\ (\A j \in 1..got : j > i => InRing(j))
                      \/ got >= i + RingSize
    BY DEF LostOnlyByOverflow
  <2>1. /\ got \in Nat /\ Len(ring) \in Nat /\ Len(ring) <= got /\ DOMAIN ring = 1..Len(ring)
        /\ \A k \in 1..Len(ring) : ring[k].id = got - Len(ring) + k
        /\ \A j \in 1..(got - Len(ring)) : orders[j].status # "ABSENT" \/ got >= j + RingSize
    BY LobAssumption DEF DeskInv, EngineInv, ThreadsOk, EngineTypes, LastOnes
  <2>2. CASE i <= got - Len(ring)
    BY <2>1, <2>2
  <2>3. CASE ~ (i <= got - Len(ring))
    <3>1. ASSUME NEW j \in 1..got, j >= i PROVE InRing(j)
      <4>1. j - got + Len(ring) \in 1..Len(ring)
        BY <2>1, <2>3, <3>1
      <4>2. ring[j - got + Len(ring)].id = j
        BY <2>1, <4>1
      <4>3. QED
        BY <2>1, <4>1, <4>2 DEF InRing
    <3>2. QED
      BY <3>1
  <2>4. QED
    BY <2>2, <2>3
<1>2. QED
  BY <1>1, EngineDesk, PTL

-----------------------------------------------------------------------------
(***************************************************************************)
(* Every order is answered, and a cancelled one is told so: a thread that  *)
(* has written CANCELLED still has to publish it.                          *)
(***************************************************************************)
HasCancel(i) == \E k \in DOMAIN reports[i] : reports[i][k].type = "CANCEL"

Answered ==
    /\ \A i \in Id : orders[i].status # "ABSENT" /\ ~ (mpc = "order" /\ i = inc) =>
                        reports[i] # <<>>
    /\ \A i \in Id : orders[i].status = "CANCELLED" =>
            \/ HasCancel(i)
            \/ cpc = "publish" /\ cid = i
            \/ mpc = "gc_publish" /\ gid = i

\* Matching touches no order that has not been submitted.
LEMMA MatchStepEntersNone ==
    ASSUME BookInv, Structure, MatchStep, NEW i \in Id, i # inc, orders[i].status = "ABSENT"
    PROVE  orders'[i].status = "ABSENT"
<1>1. orders \in [Id -> Order]
  BY DEF BookInv, LobTypeOK
<1>2. pc \in InFill => inc \in Id /\ Resting \in Id /\ i # Resting
  <2> SUFFICES ASSUME pc \in InFill PROVE inc \in Id /\ Resting \in Id /\ i # Resting
    OBVIOUS
  <2>1. Midway /\ pc \in InLevel
    BY DEF Midway, InFill
  <2>2. QED
    BY <2>1, InSweep, HeadHeld DEF Placed
<1>3. \/ orders' = orders
      \/ pc \in InFill /\ \E o : \/ orders' = [orders EXCEPT ![Resting] = o]
                                 \/ orders' = [orders EXCEPT ![inc] = o]
  <2>1. CASE FillResting \/ StatusResting \/ FillIncoming \/ StatusIncoming
    BY <2>1 DEF FillResting, StatusResting, FillIncoming, StatusIncoming, ApplyFill, InFill,
       InLevel
  <2>2. QED
    BY <2>1 DEF MatchStep, NextLevel, FinishSweep, SkipCancelled, TakeHead, LeaveLevel
<1>4. QED
  BY <1>1, <1>2, <1>3

\* At most one report is added for an order at a time.
LEMMA ReportsGrow ==
    ASSUME DeskInv, [Next]_mevars, NEW i \in Id
    PROVE  /\ \/ reports'[i] = reports[i]
              \/ \E r \in Report : reports'[i] = Append(reports[i], r)
           /\ reports[i] # <<>> => reports'[i] # <<>>
           /\ HasCancel(i) => HasCancel(i)'
<1>1. /\ reports \in [Id -> Seq(Report)] /\ reports[i] \in Seq(Report)
      /\ \A j \in Id : orders[j].leaves \in Int
  BY DEF DeskInv, EngineInv, BookInv, LobTypeOK, Order, EngineTypes
<1> DEFINE Grows == \/ reports'[i] = reports[i]
                    \/ \E r \in Report : reports'[i] = Append(reports[i], r)
<1>2. ASSUME NEW j \in Id, NEW t \in {"NEW", "CANCEL"}, reports' = Say(j, t, 0)
      PROVE  Grows
  <2>1. [type |-> t, qty |-> 0, leaves |-> orders[j].leaves] \in Report
    BY <1>1 DEF Report
  <2>2. QED
    BY <1>1, <1>2, <2>1 DEF Say
<1>3. ASSUME PublishNew PROVE Grows
  BY <1>2, <1>3 DEF PublishNew, DeskInv, Dispatch
<1>4. ASSUME PublishFill PROVE Grows
  <2> DEFINE f == fills[next]
  <2>1. f \in Id \X Nat \X Price /\ f[1] \in Id /\ inc \in Id /\ f[1] # inc
    BY <1>4 DEF PublishFill, DeskInv, FillsSound, EngineTypes, Dispatch
  <2>2. \A j \in Id : FillReport(j, f) \in Report
    BY <1>1, <2>1 DEF FillReport, FillType, Report
  <2>3. reports' = [reports EXCEPT ![f[1]] = Append(@, FillReport(f[1], f)),
                                   ![inc] = Append(@, FillReport(inc, f))]
    BY <1>4 DEF PublishFill
  <2> HIDE DEF f
  <2>4. PICK a \in Id, b \in Report, c \in Report : a # inc /\
           reports' = [reports EXCEPT ![a] = Append(@, b), ![inc] = Append(@, c)]
    BY <2>1, <2>2, <2>3
  <2>5. QED
    BY <1>1, <2>1, <2>4
<1>5. ASSUME GcPublish PROVE Grows
  BY <1>2, <1>5 DEF GcPublish, DeskInv, EngineInv, ThreadsOk
<1>6. ASSUME CancelPublish PROVE Grows
  BY <1>2, <1>6 DEF CancelPublish, DeskInv, EngineInv, ThreadsOk
<1>7. Grows
  <2>1. ASSUME MatchLoop, ~ PublishNew, ~ PublishFill, ~ GcPublish PROVE reports' = reports
    BY <2>1 DEF MatchLoop, PopRing, MatchOrder, LeaveDrain, StartGc, GcLook, GcDone,
       GcAssert, GcWrite
  <2>2. ASSUME CancelThread, ~ CancelPublish PROVE reports' = reports
    BY <2>2 DEF CancelThread, CancelRecv, CancelAssert, CancelWrite
  <2>3. ASSUME Environment \/ UNCHANGED mevars PROVE reports' = reports
    BY <2>3 DEF Environment, GoSilent, Recv, mevars
  <2>4. QED
    BY <1>3, <1>4, <1>5, <1>6, <2>1, <2>2, <2>3 DEF Next
<1>8. CASE reports'[i] = reports[i]
  BY <1>8 DEF HasCancel
<1>9. ASSUME NEW r \in Report, reports'[i] = Append(reports[i], r)
      PROVE  /\ reports'[i] # <<>>
             /\ HasCancel(i) => HasCancel(i)'
  <2>1. /\ \A k \in DOMAIN reports[i] : k \in DOMAIN reports'[i] /\ reports'[i][k] = reports[i][k]
        /\ Len(reports'[i]) = Len(reports[i]) + 1 /\ Len(reports[i]) \in Nat
    BY <1>1, <1>9
  <2>2. Len(reports'[i]) # 0
    BY <2>1
  <2>3. QED
    BY <2>1, <2>2 DEF HasCancel
<1>10. QED
  BY <1>7, <1>8, <1>9

\* An order that is told of its cancel has been told.
LEMMA CancelSaid ==
    ASSUME DeskInv, NEW i \in Id, reports' = Say(i, "CANCEL", 0)
    PROVE  HasCancel(i)'
<1> DEFINE r == [type |-> "CANCEL", qty |-> 0, leaves |-> orders[i].leaves]
<1>1. r \in Report /\ reports[i] \in Seq(Report) /\ reports'[i] = Append(reports[i], r)
  BY DEF DeskInv, EngineInv, BookInv, LobTypeOK, Order, EngineTypes, Say, Report
<1> HIDE DEF r
<1>2. Len(reports[i]) + 1 \in DOMAIN reports'[i] /\ reports'[i][Len(reports[i]) + 1] = r
  BY <1>1
<1>3. QED
  BY <1>2 DEF HasCancel, r

\* Every step answers for the orders it leaves behind.
LEMMA AnsweredStep ==
    ASSUME DeskInv, Answered, [Next]_mevars
    PROVE  Answered'
<1>1. /\ orders \in [Id -> Order] /\ BookInv /\ Structure
      /\ \A i \in Id : reports[i] # <<>> => reports'[i] # <<>>
      /\ \A i \in Id : HasCancel(i) => HasCancel(i)'
  BY ReportsGrow DEF DeskInv, EngineInv, BookInv, LobTypeOK
<1>2. \A i \in Id : orders'[i].status # "ABSENT" /\ ~ (mpc' = "order" /\ i = inc') =>
                       reports'[i] # <<>>
  <2> SUFFICES ASSUME NEW i \in Id, orders'[i].status # "ABSENT", ~ (mpc' = "order" /\ i = inc')
               PROVE  reports'[i] # <<>>
    OBVIOUS
  <2>1. CASE orders[i].status # "ABSENT" /\ ~ (mpc = "order" /\ i = inc)
    BY <1>1, <2>1 DEF Answered
  <2>2. CASE mpc = "order" /\ i = inc
    <3>1. ASSUME PublishNew \/ PublishFill PROVE reports'[i] # <<>>
      <4>1. /\ reports \in [Id -> Seq(Report)] /\ inc \in Id /\ reports[inc] \in Seq(Report)
        BY <2>2 DEF DeskInv, EngineTypes, Dispatch
      <4>2. \E r : reports'[inc] = Append(reports[inc], r)
        <5>1. CASE PublishNew
          BY <4>1, <5>1 DEF PublishNew, Say
        <5>2. CASE PublishFill
          <6> DEFINE f == fills[next]
          <6>1. f[1] # inc
            BY <5>2 DEF PublishFill, DeskInv, FillsSound, EngineTypes
          <6>2. reports' = [reports EXCEPT ![f[1]] = Append(@, FillReport(f[1], f)),
                                           ![inc] = Append(@, FillReport(inc, f))]
            BY <5>2 DEF PublishFill
          <6> HIDE DEF f
          <6>3. QED
            BY <4>1, <6>1, <6>2
        <5>3. QED
          BY <3>1, <5>1, <5>2
      <4>3. reports'[inc] # <<>>
        BY <4>1, <4>2
      <4>4. QED
        BY <2>2, <4>3
    <3>2. ASSUME ~ PublishNew, ~ PublishFill PROVE mpc' = "order" /\ inc' = inc
      <4>1. ASSUME MatchOrder PROVE UNCHANGED <<mpc, inc>>
        BY <4>1, <1>1, MatchStepKeepsFills DEF MatchOrder, loopvars, DeskInv
      <4>2. ASSUME MatchLoop PROVE MatchOrder
        BY <2>2, <3>2, <4>2 DEF MatchLoop, PopRing, LeaveDrain, StartGc, GcLook, GcDone,
           GcAssert, GcWrite, GcPublish
      <4>3. ASSUME CancelThread \/ Environment \/ UNCHANGED mevars PROVE UNCHANGED <<mpc, inc>>
        BY <4>3 DEF CancelThread, CancelRecv, CancelAssert, CancelWrite, CancelPublish,
           Environment, GoSilent, Recv, lobvars, loopvars, matchvars, mevars
      <4>4. QED
        BY <2>2, <4>1, <4>2, <4>3 DEF Next
    <3>3. QED
      BY <2>2, <3>1, <3>2
  <2>3. CASE orders[i].status = "ABSENT" /\ ~ (mpc = "order" /\ i = inc)
    <3>1. CASE PopRing
      <4>1. Head(ring) \in Nos
        BY <3>1 DEF PopRing, DeskInv, EngineInv, ThreadsOk
      <4>2. mpc' = "order" /\ inc' = Head(ring).id /\ Head(ring).id \in Id
            /\ \E o : orders' = [orders EXCEPT ![Head(ring).id] = o]
        BY <3>1, <4>1 DEF PopRing, Submit, Nos
      <4>3. QED
        BY <1>1, <2>3, <4>2
    <3>2. CASE MatchOrder
      BY <1>1, <2>3, <3>2, MatchStepEntersNone DEF MatchOrder
    <3>3. ASSUME NEW j \in Id, Cancels(j) PROVE FALSE
      <4>1. orders[j].status # "ABSENT"
        BY <3>3 DEF Cancels, GcWrite, CancelWrite, DeskInv, Known
      <4>2. QED
        BY <1>1, <2>3, <3>3, <4>1 DEF Cancels
    <3>4. CASE UNCHANGED lobvars
      BY <2>3, <3>4 DEF lobvars
    <3>5. QED
      BY <3>1, <3>2, <3>3, <3>4, EngineMoves DEF DeskInv
  <2>4. QED
    BY <2>1, <2>2, <2>3
<1>3. \A i \in Id : orders'[i].status = "CANCELLED" =>
          \/ HasCancel(i)'
          \/ cpc' = "publish" /\ cid' = i
          \/ mpc' = "gc_publish" /\ gid' = i
  <2> SUFFICES ASSUME NEW i \in Id, orders'[i].status = "CANCELLED"
               PROVE  \/ HasCancel(i)'
                      \/ cpc' = "publish" /\ cid' = i
                      \/ mpc' = "gc_publish" /\ gid' = i
    OBVIOUS
  <2>1. CASE orders[i].status # "CANCELLED"
    <3>1. CASE PopRing
      <4>1. Head(ring) \in Nos
        BY <3>1 DEF PopRing, DeskInv, EngineInv, ThreadsOk
      <4>2. Head(ring).id \in Id /\ \E o : o.status = "NEW" /\
               orders' = [orders EXCEPT ![Head(ring).id] = o]
        BY <3>1, <4>1 DEF PopRing, Submit, Nos, NewOrder
      <4>3. QED
        BY <1>1, <2>1, <4>2
    <3>2. CASE MatchOrder
      BY <1>1, <2>1, <3>2, MatchStepKeepsFills DEF MatchOrder, DeskInv
    <3>3. ASSUME NEW j \in Id, Cancels(j)
          PROVE  \/ cpc' = "publish" /\ cid' = i
                 \/ mpc' = "gc_publish" /\ gid' = i
      <4>1. i = j
        BY <1>1, <2>1, <3>3 DEF Cancels
      <4>2. QED
        BY <3>3, <4>1 DEF Cancels, GcWrite, CancelWrite
    <3>4. CASE UNCHANGED lobvars
      BY <2>1, <3>4 DEF lobvars
    <3>5. QED
      BY <3>1, <3>2, <3>3, <3>4, EngineMoves DEF DeskInv
  <2>2. CASE HasCancel(i)
    BY <1>1, <2>2
  <2>3. CASE cpc = "publish" /\ cid = i
    <3>1. CASE CancelPublish
      BY <2>3, <3>1, CancelSaid DEF CancelPublish
    <3>2. ASSUME ~ CancelPublish PROVE UNCHANGED <<cpc, cid>>
      BY <2>3, <3>2 DEF Next, MatchLoop, PopRing, MatchOrder, PublishNew, PublishFill, LeaveDrain,
       StartGc, GcLook, GcDone, GcAssert, GcWrite, GcPublish, CancelThread, CancelRecv,
       CancelAssert, CancelWrite, Environment, GoSilent, Recv, cancelvars, mevars
    <3>3. QED
      BY <2>3, <3>1, <3>2
  <2>4. CASE mpc = "gc_publish" /\ gid = i
    <3>1. CASE GcPublish
      BY <2>4, <3>1, CancelSaid DEF GcPublish
    <3>2. ASSUME ~ GcPublish PROVE UNCHANGED <<mpc, gid>>
      BY <2>4, <3>2 DEF Next, MatchLoop, PopRing, MatchOrder, PublishNew, PublishFill, LeaveDrain,
       StartGc, GcLook, GcDone, GcAssert, GcWrite, CancelThread, CancelRecv, CancelPublish,
       CancelAssert, CancelWrite, Environment, GoSilent, Recv, loopvars, mevars
    <3>3. QED
      BY <2>4, <3>1, <3>2
  <2>5. QED
    BY <2>1, <2>2, <2>3, <2>4 DEF Answered
<1>4. QED
  BY <1>2, <1>3 DEF Answered

THEOREM EngineAnswered == Spec => [](DeskInv /\ Answered)
<1>1. Init => Answered
  BY DEF Init, LobInit, Unsubmitted, Answered
<1>2. DeskInv /\ Answered /\ [Next]_mevars => Answered'
  BY AnsweredStep
<1>3. QED
  BY <1>1, <1>2, EngineDesk, PTL DEF Spec

\* No order goes unanswered and no cancel goes unsaid, whatever the two threads
\* that report do in between (matching_engine.py:103-104, 122, 288).
THEOREM EveryoneAnswered == Spec => []EveryOrderAnswered
<1>1. Answered => EveryOrderAnswered
  BY DEF Answered, EveryOrderAnswered, HasCancel
<1>2. QED
  BY <1>1, EngineAnswered, PTL

-----------------------------------------------------------------------------
(***************************************************************************)
(* What is reported is what was traded: of every order, the reports, the   *)
(* fills still on the list and the half of a fill under way add up to its  *)
(* traded quantity.                                                        *)
(***************************************************************************)
Of(i, k) == IF fills[k][1] = i \/ i = inc THEN fills[k][2] ELSE 0
Listed(i, n) == [k \in 1..Len(fills) |-> IF k >= n THEN Of(i, k) ELSE 0]
Unpublished(i, n) == SumFunction(Listed(i, n))

Tally ==
    pc # "raised" =>
        \A i \in Id, n \in Nat : n = next =>
            /\ mpc = "order" => orders[i].cum = Reported(i) + Unpublished(i, n) + Half(i)
            /\ mpc # "order" => orders[i].cum = Reported(i)

Quantities(i) == [k \in DOMAIN reports[i] |-> reports[i][k].qty]

ReportedSums == \A i \in Id : /\ Quantities(i) \in Seq(Int) /\ Reported(i) \in Int
                              /\ Reported(i) = SumFunction(Quantities(i))
                              /\ reports[i] = <<>> => Reported(i) = 0

LEMMA ReportedDefined == DeskInv => ReportedSums
<1> SUFFICES ASSUME DeskInv, NEW i \in Id
             PROVE  /\ Quantities(i) \in Seq(Int) /\ Reported(i) \in Int
                    /\ Reported(i) = SumFunction(Quantities(i))
                    /\ reports[i] = <<>> => Reported(i) = 0
  BY DEF ReportedSums
<1>1. reports[i] \in Seq(Report)
  BY DEF DeskInv, EngineTypes
<1>2. \A k \in DOMAIN reports[i] : reports[i][k].qty \in Int
  <2>1. \A r \in Report : r.qty \in Int
    BY DEF Report
  <2>2. \A k \in DOMAIN reports[i] : reports[i][k] \in Report
    BY <1>1
  <2>3. QED
    BY <2>1, <2>2
<1>3. Quantities(i) \in Seq(Int)
  BY <1>1, <1>2 DEF Quantities
<1>4. Reported(i) = SumFunction(Quantities(i))
  BY DEF Reported, Quantities
<1>5. reports[i] = <<>> => Quantities(i) = <<>>
  BY DEF Quantities
<1>6. QED
  BY <1>3, <1>4, <1>5, SumSeqType

\* A report adds its quantity.
LEMMA ReportedGrows ==
    ASSUME DeskInv, DeskInv', NEW i \in Id, NEW r \in Report,
           reports'[i] = Append(reports[i], r)
    PROVE  Reported(i)' = Reported(i) + r.qty
<1> DEFINE w == Quantities(i)
           v == [k \in DOMAIN reports'[i] |-> reports'[i][k].qty]
<1>1. /\ reports[i] \in Seq(Report) /\ r.qty \in Int /\ Len(reports[i]) \in Nat
      /\ DOMAIN reports[i] = 1..Len(reports[i])
      /\ DOMAIN reports'[i] = 1..(Len(reports[i]) + 1)
      /\ \A k \in 1..Len(reports[i]) : reports'[i][k] = reports[i][k]
      /\ reports'[i][Len(reports[i]) + 1] = r
  BY DEF DeskInv, EngineTypes, Report
<1>2. w \in Seq(Int) /\ Reported(i) = SumFunction(w)
  BY ReportedDefined DEF ReportedSums
<1>3. Reported(i)' = SumFunction(v)
  BY DEF Reported
<1>4. Len(w) = Len(reports[i]) /\ \A k \in 1..Len(reports[i]) : w[k] = reports[i][k].qty
  <2>1. DOMAIN w = 1..Len(reports[i]) /\ DOMAIN w = 1..Len(w)
    BY <1>1, <1>2 DEF Quantities
  <2>2. Len(w) \in Nat
    BY <1>2
  <2>3. QED
    BY <1>1, <2>1, <2>2 DEF Quantities
<1> DEFINE x == r.qty
<1>5. v \in [1..(Len(w) + 1) -> Int]
  <2>1. \A k \in DOMAIN reports'[i] : reports'[i][k] \in Report
    BY DEF DeskInv, EngineTypes
  <2>2. \A s \in Report : s.qty \in Int
    BY DEF Report
  <2>3. QED
    BY <1>1, <1>4, <2>1, <2>2
<1>6. \A k \in 1..Len(w) : v[k] = w[k]
  BY <1>1, <1>4
<1>7. v[Len(w) + 1] = x
  BY <1>1, <1>4
<1>8. x \in Int /\ w \in Seq(Int)
  BY <1>1, <1>2
<1> HIDE DEF v, w, x
<1>9. v = Append(w, x)
  BY <1>5, <1>6, <1>7, <1>8, IsAppended
<1>10. SumFunction(v) = SumFunction(w) + x
  BY <1>8, <1>9, SumAppend
<1>11. QED
  BY <1>2, <1>3, <1>10 DEF x

LEMMA ReportedSame ==
    ASSUME NEW i \in Id, reports'[i] = reports[i]
    PROVE  Reported(i)' = Reported(i)
  BY DEF Reported

\* The fills that are still to be published are some of the list.
ListedSums ==
    \A i \in Id, n \in Nat :
        /\ Listed(i, n) \in Seq(Int) /\ Unpublished(i, n) \in Int
        /\ n > Len(fills) => Unpublished(i, n) = 0
        /\ n \in 1..Len(fills) =>
              Of(i, n) \in Nat /\ Unpublished(i, n) = Of(i, n) + Unpublished(i, n + 1)

LEMMA ListedDefined == DeskInv => ListedSums
<1> SUFFICES ASSUME DeskInv, NEW i \in Id, NEW n \in Nat
             PROVE  /\ Listed(i, n) \in Seq(Int) /\ Unpublished(i, n) \in Int
                    /\ n > Len(fills) => Unpublished(i, n) = 0
                    /\ n \in 1..Len(fills) =>
                          Of(i, n) \in Nat /\ Unpublished(i, n) = Of(i, n) + Unpublished(i, n + 1)
  BY DEF ListedSums
<1>1. /\ Len(fills) \in Nat
      /\ \A k \in 1..Len(fills) : Of(i, k) \in Nat
  BY DEF DeskInv, EngineInv, BookInv, LobTypeOK, FillsSound, Of
<1>2. \A m \in Nat : /\ Listed(i, m) \in Seq(Int) /\ DOMAIN Listed(i, m) = 1..Len(fills)
                     /\ \A k \in 1..Len(fills) : Listed(i, m)[k] = IF k >= m THEN Of(i, k) ELSE 0
  BY <1>1 DEF Listed
<1>3. IsFiniteSet(1..Len(fills))
  BY <1>1, CountUpTo
<1>4. \A m \in Nat : /\ Unpublished(i, m) \in Int
                     /\ Unpublished(i, m) = SumFunctionOnSet(Listed(i, m), 1..Len(fills))
  BY <1>2, SumSeqType DEF Unpublished, SumFunction
<1>5. n > Len(fills) => Unpublished(i, n) = 0
  <2> SUFFICES ASSUME n > Len(fills) PROVE Unpublished(i, n) = 0
    OBVIOUS
  <2>1. \A k \in 1..Len(fills) : Listed(i, n)[k] = 0
    BY <1>1, <1>2
  <2>2. QED
    BY <1>3, <1>4, <2>1, SumZero
<1>6. ASSUME n \in 1..Len(fills)
      PROVE  Unpublished(i, n) = Of(i, n) + Unpublished(i, n + 1)
  <2> DEFINE f == Listed(i, n + 1)
             e == Listed(i, n)
             T == 1..Len(fills)
             q == Of(i, n)
  <2>1. \A k \in T : f[k] \in Int /\ e[k] = f[k] + IF k = n THEN q ELSE 0
    <3> SUFFICES ASSUME NEW k \in T PROVE f[k] \in Int /\ e[k] = f[k] + IF k = n THEN q ELSE 0
      OBVIOUS
    <3>1. k \in Nat /\ Of(i, k) \in Nat /\ q \in Nat
      BY <1>1, <1>6
    <3>2. f[k] = (IF k >= n + 1 THEN Of(i, k) ELSE 0) /\ e[k] = IF k >= n THEN Of(i, k) ELSE 0
      BY <1>2, n + 1 \in Nat
    <3>3. QED
      BY <3>1, <3>2
  <2>2. /\ Unpublished(i, n) = SumFunctionOnSet(e, T)
        /\ Unpublished(i, n + 1) = SumFunctionOnSet(f, T)
    BY <1>4, n + 1 \in Nat
  <2>3. IsFiniteSet(T) /\ q \in Int
    BY <1>1, <1>3, <1>6
  <2>8. n \in T
    BY <1>6
  <2> HIDE DEF e, f, T, q
  <2>4. /\ SumFunctionOnSet(f, T) \in Int
        /\ SumFunctionOnSet(e, T) = SumFunctionOnSet(f, T) + IF n \in T THEN q ELSE 0
    BY <2>1, <2>3, SumStep
  <2>5. Unpublished(i, n) = Unpublished(i, n + 1) + q
    BY <2>2, <2>3, <2>4, <2>8
  <2>6. Unpublished(i, n + 1) \in Int
    BY <2>2, <2>4
  <2>7. QED
    BY <2>3, <2>5, <2>6 DEF q
<1>7. QED
  BY <1>1, <1>2, <1>4, <1>5, <1>6

\* A fill that ends goes to the end of the list, for both of its orders.
LEMMA ListedGrows ==
    ASSUME DeskInv, DeskInv', inc' = inc, NEW i \in Id, NEW j \in Id, NEW q \in Nat, NEW p,
           fills' = Append(fills, <<j, q, p>>)
    PROVE  \A n \in Nat : n = 1 =>
              Unpublished(i, n)' = Unpublished(i, n) + IF i = j \/ i = inc THEN q ELSE 0
<1> DEFINE f == <<j, q, p>>
           x == IF i = j \/ i = inc THEN q ELSE 0
           w == Listed(i, 1)
           v == [k \in 1..Len(fills') |-> IF k >= 1 THEN
                   (IF fills'[k][1] = i \/ i = inc THEN fills'[k][2] ELSE 0) ELSE 0]
<1>1. /\ Len(fills) \in Nat /\ Len(fills') = Len(fills) + 1
      /\ \A k \in 1..Len(fills) : fills'[k] = fills[k]
      /\ fills'[Len(fills) + 1] = f /\ f[1] = j /\ f[2] = q
  BY DEF DeskInv, EngineInv, BookInv, LobTypeOK
<1>2. w \in Seq(Int) /\ Unpublished(i, 1) = SumFunction(w)
  <2>1. ListedSums
    BY ListedDefined
  <2>2. QED
    BY <2>1 DEF ListedSums, Unpublished
<1>3. Len(w) = Len(fills)
      /\ \A k \in 1..Len(fills) : w[k] = IF fills[k][1] = i \/ i = inc THEN fills[k][2] ELSE 0
  <2>1. DOMAIN w = 1..Len(fills) /\ DOMAIN w = 1..Len(w) /\ Len(w) \in Nat
    BY <1>2 DEF Listed
  <2>2. QED
    BY <1>1, <2>1 DEF Listed, Of
<1>4. x \in Int
  OBVIOUS
<1>5. \A k \in 1..Len(w) : v[k] = w[k]
  <2> HIDE DEF f, w
  <2>1. QED
    BY <1>1, <1>3
<1>6. v[Len(w) + 1] = x
  <2> HIDE DEF f, w
  <2>1. QED
    BY <1>1, <1>3
<1>7. v \in [1..(Len(w) + 1) -> Int]
  <2>1. DOMAIN v = 1..(Len(w) + 1) /\ v = [k \in DOMAIN v |-> v[k]]
    BY <1>1, <1>3
  <2> HIDE DEF v, w, x
  <2>2. \A k \in 1..Len(w) : w[k] \in Int
    BY <1>2
  <2>3. Len(w) \in Nat /\ \A k \in 1..(Len(w) + 1) : k \in 1..Len(w) \/ k = Len(w) + 1
    BY <1>1, <1>3
  <2>4. \A k \in 1..(Len(w) + 1) : v[k] \in Int
    BY <1>4, <1>5, <1>6, <2>2, <2>3
  <2>5. QED
    BY <2>1, <2>4
<1>8. w \in Seq(Int)
  BY <1>2
<1>9. ASSUME NEW n \in Nat, n = 1
      PROVE  Unpublished(i, n)' = SumFunction(v) /\ Unpublished(i, n) = Unpublished(i, 1)
  BY <1>9 DEF Unpublished, Listed, Of
<1> HIDE DEF v, w, x, f
<1>10. v = Append(w, x)
  BY <1>4, <1>5, <1>6, <1>7, <1>8, IsAppended
<1>11. SumFunction(v) = SumFunction(w) + x
  BY <1>4, <1>8, <1>10, SumAppend
<1>12. QED
  BY <1>2, <1>9, <1>11 DEF x

\* What the reports, the list and the half of a fill under way add up to, when
\* nothing of it changes and when a cancel is written.
LEMMA SameTrades ==
    ASSUME NEW i \in Id, UNCHANGED <<pc, queue, lvl, fq, inc, fills>>,
           orders'[inc].side = orders[inc].side
    PROVE  Half(i)' = Half(i) /\ \A n \in Nat : Unpublished(i, n)' = Unpublished(i, n)
<1>1. Half(i)' = Half(i)
  BY DEF Half, Unfinished, Resting, Far
<1>2. \A n \in Nat : Unpublished(i, n)' = Unpublished(i, n)
  BY DEF Unpublished, Listed, Of
<1>3. QED
  BY <1>1, <1>2

TallyInv == DeskInv /\ Accounts /\ Phase /\ Tally

\* The tally of one order, for the next fill to be published.
Adds(i, n) ==
    /\ mpc = "order" => orders[i].cum = Reported(i) + Unpublished(i, n) + Half(i)
    /\ mpc # "order" => orders[i].cum = Reported(i)

LEMMA TallyPop ==
    ASSUME TallyInv, DeskInv', PopRing, NEW i \in Id, NEW n \in Nat, n = next'
    PROVE  Adds(i, n)'
<1>1. /\ orders \in [Id -> Order] /\ next = 1 /\ next' = 1 /\ mpc' = "order"
      /\ pc = "idle" /\ pc' = "sweep" /\ Len(fills') = 0 /\ reports' = reports
      /\ fills' = <<>>
  BY DEF TallyInv, DeskInv, EngineInv, BookInv, LobTypeOK, Dispatch, PopRing, Submit
<1>2. orders[i].cum = Reported(i)
  BY <1>1 DEF TallyInv, Tally, PopRing
<1>3. orders'[i].cum = orders[i].cum
  <2>1. Head(ring) \in Nos
    BY DEF PopRing, TallyInv, DeskInv, EngineInv, ThreadsOk
  <2>2. /\ Head(ring).id \in Id /\ orders[Head(ring).id].status = "ABSENT"
        /\ \E o : o.cum = 0 /\ orders' = [orders EXCEPT ![Head(ring).id] = o]
    BY <2>1 DEF PopRing, Submit, Nos, NewOrder
  <2>3. orders[Head(ring).id].cum = 0
    BY <2>2 DEF TallyInv, Accounts, Conserved, Unsubmitted
  <2>4. QED
    BY <1>1, <2>2, <2>3
<1>4. Reported(i)' = Reported(i) /\ Reported(i) \in Int
  BY <1>1, ReportedSame, ReportedDefined DEF TallyInv, ReportedSums
<1>5. Unpublished(i, n)' = 0
  <2>1. ListedSums'
    BY ListedDefined, PTL
  <2>2. n > Len(fills')
    BY <1>1
  <2>3. QED
    BY <2>1, <2>2 DEF ListedSums
<1>6. Half(i)' = 0
  BY <1>1 DEF Half, Unfinished
<1>7. QED
  BY <1>1, <1>2, <1>3, <1>4, <1>5, <1>6 DEF Adds

LEMMA TallyMatch ==
    ASSUME TallyInv, DeskInv', MatchOrder, pc' # "raised", NEW i \in Id, NEW n \in Nat, n = next'
    PROVE  Adds(i, n)'
<1>1. /\ BookInv /\ Structure /\ FillsSound /\ MatchStep /\ mpc = "order" /\ mpc' = "order"
      /\ next' = next /\ reports' = reports
  BY DEF TallyInv, DeskInv, EngineInv, MatchOrder, loopvars
<1>2. pc \notin {"idle", "raised"}
  BY <1>1 DEF MatchStep, NextLevel, FinishSweep, SkipCancelled, TakeHead,
     LeaveLevel, FillResting, StatusResting, FillIncoming, StatusIncoming, ApplyFill
<1>3. n = 1 /\ next = 1
  BY <1>1, <1>2 DEF TallyInv, DeskInv, Dispatch
<1>4. orders[i].cum = Reported(i) + Unpublished(i, n) + Half(i)
  BY <1>1, <1>2, <1>3 DEF TallyInv, Tally
<1>5. Reported(i)' = Reported(i) /\ Reported(i) \in Int
  BY <1>1, ReportedSame, ReportedDefined DEF TallyInv, ReportedSums
<1>6. /\ inc' = inc
      /\ \/ fills' = fills
         \/ fills' = Append(fills, <<Resting, fq, lvl>>) /\ StatusIncoming
  BY <1>1, MatchStepKeepsFills
<1>7. /\ ~ StatusIncoming => orders'[i].cum - Half(i)' = orders[i].cum - Half(i)
      /\ StatusIncoming =>
            /\ orders'[i].cum = orders[i].cum /\ Half(i)' = 0
            /\ Half(i) = IF i = Resting \/ i = inc THEN fq ELSE 0
      /\ Half(i) \in Int /\ Half(i)' \in Int
  BY <1>1, MatchStepTrades
<1>8. orders[i].cum \in Int /\ orders'[i].cum \in Int /\ Unpublished(i, n) \in Int
  <2>1. ListedSums
    BY ListedDefined DEF TallyInv
  <2>2. QED
    BY <2>1 DEF ListedSums, TallyInv, DeskInv, EngineInv, BookInv, LobTypeOK, Order
<1>9. CASE StatusIncoming
  <2>1. fills' = Append(fills, <<Resting, fq, lvl>>)
    BY <1>9 DEF StatusIncoming
  <2>2. Resting \in Id /\ fq \in Nat
    <3>1. pc \in InFill /\ pc \in InLevel /\ Midway /\ pc \in InFill \ {"fill_resting"}
      BY <1>9 DEF StatusIncoming, InFill, InLevel, Midway
    <3>2. fq \in Int /\ fq > 0
      BY <1>1, <3>1 DEF FillsSound, BookInv, LobTypeOK
    <3>3. QED
      BY <1>1, <3>1, <3>2, InSweep, HeadHeld
  <2>3. Unpublished(i, n)' = Unpublished(i, n) + IF i = Resting \/ i = inc THEN fq ELSE 0
    BY <1>3, <1>6, <2>1, <2>2, ListedGrows DEF TallyInv
  <2>4. QED
    BY <1>1, <1>4, <1>5, <1>7, <1>8, <1>9, <2>2, <2>3 DEF Adds
<1>10. CASE ~ StatusIncoming
  <2>1. fills' = fills /\ inc' = inc
    BY <1>6, <1>10
  <2>2. Unpublished(i, n)' = Unpublished(i, n)
    BY <2>1 DEF Unpublished, Listed, Of
  <2>3. QED
    BY <1>1, <1>4, <1>5, <1>7, <1>8, <1>10, <2>2 DEF Adds
<1>11. QED
  BY <1>9, <1>10

\* A report that is no fill adds nothing.
LEMMA SayingNothing ==
    ASSUME DeskInv, DeskInv', NEW i \in Id, NEW j \in Id, NEW t \in {"NEW", "CANCEL"},
           reports' = Say(j, t, 0)
    PROVE  Reported(i)' = Reported(i)
<1>1. CASE i # j
  <2>1. reports'[i] = reports[i]
    BY <1>1 DEF Say, DeskInv, EngineTypes
  <2>2. QED
    BY <2>1, ReportedSame
<1>2. CASE i = j
  <2> DEFINE r == [type |-> t, qty |-> 0, leaves |-> orders[j].leaves]
  <2>1. r \in Report /\ r.qty = 0 /\ reports'[i] = Append(reports[i], r)
    BY <1>2 DEF DeskInv, EngineInv, BookInv, LobTypeOK, Order, EngineTypes, Say, Report
  <2> HIDE DEF r
  <2>2. Reported(i)' = Reported(i) + r.qty
    BY <2>1, ReportedGrows
  <2>3. Reported(i) \in Int
    BY ReportedDefined DEF ReportedSums
  <2>4. QED
    BY <2>1, <2>2, <2>3
<1>3. QED
  BY <1>1, <1>2

LEMMA TallyNew ==
    ASSUME TallyInv, DeskInv', PublishNew, NEW i \in Id, NEW n \in Nat, n = next'
    PROVE  Adds(i, n)'
<1>1. /\ mpc = "order" /\ mpc' = "drain" /\ pc = "idle" /\ next' = next /\ Len(fills) = 0
      /\ orders' = orders /\ inc \in Id /\ reports' = Say(inc, "NEW", 0)
  BY DEF PublishNew, lobvars, TallyInv, DeskInv, Dispatch
<1>2. orders[i].cum = Reported(i) + Unpublished(i, n) + Half(i)
  BY <1>1 DEF TallyInv, Tally
<1>3. Unpublished(i, n) = 0
  <2>1. ListedSums
    BY ListedDefined DEF TallyInv
  <2>2. n > Len(fills)
    BY <1>1 DEF TallyInv, DeskInv, EngineTypes
  <2>3. QED
    BY <2>1, <2>2 DEF ListedSums
<1>4. Half(i) = 0
  BY <1>1 DEF Half, Unfinished
<1>5. Reported(i)' = Reported(i) /\ Reported(i) \in Int
  BY <1>1, SayingNothing, ReportedDefined DEF TallyInv, ReportedSums
<1>6. QED
  BY <1>1, <1>2, <1>3, <1>4, <1>5 DEF Adds

\* A fill that is published goes from the list to the reports of both orders.
LEMMA TallyFill ==
    ASSUME TallyInv, DeskInv', PublishFill, NEW i \in Id, NEW n \in Nat, n = next
    PROVE  /\ \A m \in Nat : m = next' => Adds(i, m)'
<1>1. /\ mpc = "order" /\ pc = "idle" /\ UNCHANGED <<orders, inc, fills, pc, queue, lvl, fq>>
      /\ inc \in Id /\ n \in 1..Len(fills) /\ Len(fills) \in Nat /\ n + 1 \in Nat
  BY DEF PublishFill, lobvars, TallyInv, DeskInv, Dispatch, EngineTypes, EngineInv, BookInv,
     LobTypeOK
<1>2. orders[i].cum = Reported(i) + Unpublished(i, n) + Half(i)
  BY <1>1 DEF TallyInv, Tally
<1>3. Half(i) = 0 /\ Half(i)' = 0
  BY <1>1 DEF Half, Unfinished
<1>4. /\ Unpublished(i, n) = Of(i, n) + Unpublished(i, n + 1) /\ Of(i, n) \in Nat
      /\ Unpublished(i, n + 1) \in Int
      /\ n + 1 > Len(fills) => Unpublished(i, n + 1) = 0
  <2>1. ListedSums
    BY ListedDefined DEF TallyInv
  <2>2. QED
    BY <1>1, <2>1 DEF ListedSums
<1>5. Reported(i)' = Reported(i) + Of(i, n) /\ Reported(i) \in Int
  <2> DEFINE f == fills[n]
             r == FillReport(i, f)
  <2>1. f \in Id \X Nat \X Price /\ f[1] \in Id /\ f[1] # inc /\ f[2] \in Nat
    BY <1>1 DEF TallyInv, DeskInv, FillsSound
  <2>2. r \in Report /\ r.qty = f[2]
    BY <2>1 DEF FillReport, FillType, Report, TallyInv, DeskInv, EngineInv, BookInv, LobTypeOK, Order
  <2>3. reports' = [reports EXCEPT ![f[1]] = Append(@, FillReport(f[1], f)),
                                   ![inc] = Append(@, FillReport(inc, f))]
    BY DEF PublishFill
  <2>4. Of(i, n) = IF f[1] = i \/ i = inc THEN f[2] ELSE 0
    BY DEF Of
  <2>5. reports \in [Id -> Seq(Report)] /\ Reported(i) \in Int
    BY ReportedDefined DEF TallyInv, DeskInv, EngineTypes, ReportedSums
  <2> HIDE DEF f
  <2>6. CASE f[1] = i \/ i = inc
    <3>1. reports'[i] = Append(reports[i], r)
      BY <1>1, <2>1, <2>3, <2>5, <2>6
    <3> HIDE DEF r
    <3>2. Reported(i)' = Reported(i) + r.qty
      BY <2>2, <3>1, ReportedGrows DEF TallyInv
    <3>3. QED
      BY <2>2, <2>4, <2>5, <2>6, <3>2
  <2>7. CASE ~ (f[1] = i \/ i = inc)
    <3>1. reports'[i] = reports[i]
      BY <1>1, <2>1, <2>3, <2>5, <2>7
    <3>2. Reported(i)' = Reported(i)
      BY <3>1, ReportedSame
    <3>3. QED
      BY <2>4, <2>5, <2>7, <3>2
  <2>8. QED
    BY <2>6, <2>7
<1>6. orders'[i].cum = Reported(i)' + Unpublished(i, n + 1)
  BY <1>1, <1>2, <1>3, <1>4, <1>5
<1>7. Unpublished(i, n + 1) = 0 \/ n < Len(fills)
  BY <1>1, <1>4
<1>8. CASE n = Len(fills)
  <2>1. mpc' = "drain" /\ Unpublished(i, n + 1) = 0
    BY <1>1, <1>7, <1>8 DEF PublishFill
  <2>2. QED
    BY <1>4, <1>5, <1>6, <2>1 DEF Adds
<1>9. CASE n # Len(fills)
  <2>1. mpc' = "order" /\ next' = n + 1
    BY <1>1, <1>9 DEF PublishFill
  <2>2. \A m \in Nat : m = next' => Unpublished(i, m)' = Unpublished(i, n + 1)
    BY <1>1, <2>1 DEF Unpublished, Listed, Of
  <2>3. Reported(i)' \in Int
    BY <1>4, <1>5
  <2>4. QED
    BY <1>1, <1>3, <1>4, <1>6, <2>1, <2>2, <2>3 DEF Adds
<1>10. QED
  BY <1>8, <1>9

\* The steps that trade and publish no fill.
LEMMA TallyElse ==
    ASSUME TallyInv, DeskInv', [Next]_mevars, pc # "raised", UNCHANGED next,
           mpc = "order" <=> mpc' = "order",
           \/ \E j \in Id : Cancels(j)
           \/ UNCHANGED lobvars,
           \/ reports' = reports
           \/ \E j \in Id : reports' = Say(j, "CANCEL", 0),
           NEW i \in Id, NEW n \in Nat, n = next'
    PROVE  Adds(i, n)'
<1>1. Reported(i)' = Reported(i)
  BY ReportedSame, SayingNothing DEF TallyInv
<1>2. orders \in [Id -> Order] /\ inc \in Id \cup {NoId}
  BY DEF TallyInv, DeskInv, EngineInv, BookInv, LobTypeOK
<1>3. /\ orders'[i].cum = orders[i].cum /\ UNCHANGED <<pc, queue, lvl, fq, inc, fills>>
      /\ orders'[inc].side = orders[inc].side
  <2>1. ASSUME NEW j \in Id, Cancels(j)
        PROVE  /\ orders'[i].cum = orders[i].cum /\ UNCHANGED <<pc, queue, lvl, fq, inc, fills>>
               /\ orders'[inc].side = orders[inc].side
    <3>1. orders' = [orders EXCEPT ![j].status = "CANCELLED"]
          /\ UNCHANGED <<pc, queue, lvl, fq, inc, fills>>
      BY <2>1 DEF Cancels, matchvars
    <3>2. orders'[i].cum = orders[i].cum
      BY <1>2, <3>1 DEF Order
    <3>3. orders'[inc].side = orders[inc].side
      <4>1. CASE inc = j
        BY <1>2, <3>1, <4>1 DEF Order
      <4>2. CASE inc # j
        BY <1>2, <3>1, <4>2
      <4>3. QED
        BY <4>1, <4>2
    <3>4. QED
      BY <3>1, <3>2, <3>3
  <2>2. QED
    BY <2>1 DEF lobvars
<1>4. Half(i)' = Half(i) /\ Unpublished(i, n)' = Unpublished(i, n)
  BY <1>3, SameTrades
<1>5. Adds(i, n)
  BY DEF TallyInv, Tally, Adds
<1>6. QED
  BY <1>1, <1>3, <1>4, <1>5 DEF Adds

LEMMA TallyStep ==
    ASSUME TallyInv, DeskInv', [Next]_mevars
    PROVE  Tally'
<1> SUFFICES ASSUME pc' # "raised", NEW i \in Id, NEW n \in Nat, n = next'
             PROVE  Adds(i, n)'
  BY DEF Tally, Adds
<1>1. CASE PopRing
  BY <1>1, TallyPop
<1>2. CASE MatchOrder
  BY <1>2, TallyMatch
<1>3. CASE PublishNew
  BY <1>3, TallyNew
<1>4. CASE PublishFill
  BY <1>4, TallyFill DEF TallyInv, DeskInv, EngineTypes
<1>5. ASSUME ~ PopRing, ~ MatchOrder, ~ PublishNew, ~ PublishFill
      PROVE  Adds(i, n)'
  <2>1. /\ next' = next
        /\ mpc = "order" <=> mpc' = "order"
    <3>1. ASSUME MatchLoop PROVE mpc # "order" /\ mpc' # "order" /\ next' = next
      BY <1>5, <3>1 DEF MatchLoop, LeaveDrain, StartGc, GcLook, GcDone, GcAssert, GcWrite, GcPublish
    <3>2. ASSUME CancelThread \/ Environment \/ UNCHANGED mevars PROVE UNCHANGED <<mpc, next>>
      BY <3>2 DEF CancelThread, CancelRecv, CancelAssert, CancelWrite, CancelPublish,
         Environment, GoSilent, Recv, loopvars, mevars
    <3>3. QED
      BY <3>1, <3>2 DEF Next
  <2>2. \/ \E j \in Id : Cancels(j)
        \/ UNCHANGED lobvars
    BY <1>5, EngineMoves DEF TallyInv, DeskInv
  <2>3. \/ reports' = reports
        \/ \E j \in Id : reports' = Say(j, "CANCEL", 0)
    <3>1. ASSUME MatchLoop, ~ GcPublish PROVE reports' = reports
      BY <1>5, <3>1 DEF MatchLoop, LeaveDrain, StartGc, GcLook, GcDone, GcAssert, GcWrite
    <3>2. ASSUME CancelThread, ~ CancelPublish PROVE reports' = reports
      BY <3>2 DEF CancelThread, CancelRecv, CancelAssert, CancelWrite
    <3>3. ASSUME Environment \/ UNCHANGED mevars PROVE reports' = reports
      BY <3>3 DEF Environment, GoSilent, Recv, mevars
    <3>4. GcPublish \/ CancelPublish => \E j \in Id : reports' = Say(j, "CANCEL", 0)
      BY DEF GcPublish, CancelPublish, TallyInv, DeskInv, EngineInv, ThreadsOk
    <3>5. QED
      BY <3>1, <3>2, <3>3, <3>4 DEF Next
  <2>4. pc # "raised"
    <3>1. UNCHANGED pc
      BY <2>2 DEF Cancels, lobvars
    <3>2. QED
      BY <3>1
  <2>5. QED
    BY <2>1, <2>2, <2>3, <2>4, TallyElse
<1>6. QED
  BY <1>1, <1>2, <1>3, <1>4, <1>5

THEOREM EngineTally == Spec => []TallyInv
<1>1. Init => Phase /\ Tally
  <2> SUFFICES ASSUME Init PROVE Phase /\ Tally
    OBVIOUS
  <2>1. Phase /\ mpc # "order" /\ \A i \in Id : orders[i].cum = 0 /\ reports[i] = <<>>
    BY DEF Init, LobInit, Phase, Unsubmitted
  <2>2. \A i \in Id : Reported(i) = 0
    <3> SUFFICES ASSUME NEW i \in Id PROVE Reported(i) = 0
      OBVIOUS
    <3>1. DOMAIN reports[i] = {}
      BY <2>1
    <3>2. [k \in DOMAIN reports[i] |-> reports[i][k].qty] = <<>>
      BY <3>1
    <3>3. <<>> \in Seq(Int)
      OBVIOUS
    <3>4. QED
      BY <3>2, <3>3, SumSeqType DEF Reported
  <2>3. QED
    BY <2>1, <2>2 DEF Tally
<1>2. TallyInv /\ DeskInv' /\ [Next]_mevars => Tally' /\ Phase'
  BY TallyStep, PhaseStep DEF TallyInv
<1>3. DeskInv /\ Accounts /\ Phase /\ Tally <=> TallyInv
  BY DEF TallyInv
<1>4. QED
  BY <1>1, <1>2, <1>3, EngineDesk, EngineAccounts, PTL DEF Spec

\* What was reported of an order is what it traded, whenever the match loop
\* takes the next: no fill goes unreported or is reported twice, however long
\* the list and wherever a cancel cuts in (matching_engine.py:84-104).
THEOREM EveryFillReported == Spec => []ReportsMatchTrades
<1>1. TallyInv => ReportsMatchTrades
  <2> SUFFICES ASSUME TallyInv, mpc = "drain", NEW i \in Id
               PROVE  Reported(i) = orders[i].cum
    BY DEF ReportsMatchTrades
  <2>1. pc # "raised" /\ next \in Nat
    BY DEF TallyInv, Phase, DeskInv, EngineTypes
  <2>2. QED
    BY <2>1 DEF TallyInv, Tally
<1>2. QED
  BY <1>1, EngineTally, PTL
=============================================================================
