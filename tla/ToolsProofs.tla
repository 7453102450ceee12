----------------------------- MODULE ToolsProofs -----------------------------
(***************************************************************************)
(* Theorems about the programs around the engine: the feed handler's       *)
(* schedule, the dashboard's health panel, the trials of the testbed, the  *)
(* orders of the strategies, the candles a model is trained on, and the    *)
(* types of all of them.                                                   *)
(***************************************************************************)
EXTENDS MCTools, RateLimiterProofs, OperatorProofs

------------------------------------------------------------------------------
(***************************************************************************)
(* Theorems about Feeds: types, and that the schedule of the ticks does    *)
(* not drift, for every interval, file and number of ticks.                *)
(***************************************************************************)
\* What the loop knows of its schedule: the next target is when the next tick
\* is due, the last one sent was due, and only a due tick is sent.
Scheduled ==
    /\ feedMode = "gbm" => target = sent * Slot
    /\ feedMode = "replay" /\ feedAt # "over" => sent < NCandles /\ target = Offset[sent]
    /\ feedMode # "stress" /\ feedAt = "sends" => target <= instant
    /\ feedMode # "stress" /\ sent > 0 => Due(sent - 1) <= instant
    /\ feedAt = "asleep" => feedMode # "stress"

FeedsInv == FeedsTypeOK /\ Scheduled

LEMMA SlotType == Slot \in Nat /\ Slot > 0
  BY FeedsAssumption

\* The products of the schedule, for the solver.
LEMMA NextSlot == \A n \in Nat : (n + 1) * Slot = n * Slot + Slot /\ n * Slot \in Nat
  BY SlotType

LEMMA SlotsCount == ASSUME NEW n \in Nat PROVE n * Slot \in Nat
  BY SlotType

LEMMA SlotsAscend ==
  ASSUME NEW i \in Nat, NEW j \in Nat, i <= j
  PROVE  i * Slot <= j * Slot
  <1>1. PICK d \in Nat : j = i + d
    <2>1. j - i \in Nat /\ j = i + (j - i)
      OBVIOUS
    <2> QED BY <2>1
  <1>2. j * Slot = i * Slot + d * Slot
    BY <1>1, SlotType
  <1>3. d * Slot \in Nat /\ i * Slot \in Nat
    BY SlotType
  <1> QED BY <1>2, <1>3

LEMMA FeedsInitInv == FeedsInit => FeedsInv
  <1> SUFFICES ASSUME FeedsInit PROVE FeedsInv
    OBVIOUS
  <1>1. 0 * Slot = 0
    BY SlotType
  <1>2. FeedsTypeOK
    BY FeedsAssumption DEF FeedsInit, FeedsTypeOK
  <1>3. Scheduled
    BY <1>1, FeedsAssumption DEF FeedsInit, Scheduled
  <1> QED BY <1>2, <1>3 DEF FeedsInv

LEMMA FeedsStepInv == FeedsInv /\ [FeedsNext]_feedsVars => FeedsInv'
  <1> SUFFICES ASSUME FeedsInv, [FeedsNext]_feedsVars PROVE FeedsInv'
    OBVIOUS
  <1> USE DEF FeedsInv
  <1>t. /\ instant \in Nat /\ target \in Nat /\ sent \in Nat /\ feedBeats \in Nat
        /\ NCandles \in Nat \ {0} /\ Offset \in [0..NCandles-1 -> Nat]
    BY FeedsAssumption DEF FeedsTypeOK
  <1>1. CASE TimePasses
    <2>1. FeedsTypeOK'
      BY <1>1, <1>t DEF TimePasses, FeedsTypeOK
    <2>2. feedMode # "stress" /\ sent > 0 => Due(sent - 1) \in Nat
      <3>1. CASE feedMode = "replay" /\ sent > 0
        BY <3>1, <1>t DEF FeedsTypeOK, Due
      <3>2. CASE feedMode # "replay" /\ sent > 0
        <4>1. sent - 1 \in Nat
          BY <3>2, <1>t
        <4>2. (sent - 1) * Slot \in Nat
          BY <4>1, SlotsCount
        <4> QED BY <3>2, <4>2 DEF Due
      <3> QED BY <3>1, <3>2
    <2>3. Scheduled'
      BY <1>1, <1>t, <2>2 DEF TimePasses, Scheduled, Due
    <2> QED BY <2>1, <2>3
  <1>2. CASE Look
    <2>1. FeedsTypeOK'
      BY <1>2 DEF Look, FeedsTypeOK
    <2>2. Scheduled'
      BY <1>2, <1>t DEF Look, Scheduled, Due
    <2> QED BY <2>1, <2>2
  <1>3. CASE Wake
    <2>1. FeedsTypeOK'
      BY <1>3 DEF Wake, FeedsTypeOK
    <2>2. Scheduled'
      BY <1>3, <1>t DEF Wake, Scheduled, Due
    <2> QED BY <2>1, <2>2
  <1>4. CASE SendGbm
    <2>1. FeedsTypeOK'
      BY <1>4, <1>t, SlotType DEF SendGbm, FeedsTypeOK
    <2>2. target' = sent' * Slot
      BY <1>4, <1>t, NextSlot DEF SendGbm, Scheduled
    <2>3. Due(sent' - 1) = target
      BY <1>4, <1>t DEF SendGbm, Scheduled, Due
    <2>4. Scheduled'
      BY <1>4, <1>t, <2>2, <2>3 DEF SendGbm, Scheduled, Due
    <2> QED BY <2>1, <2>4
  <1>5. CASE SendStress
    <2>1. FeedsTypeOK'
      BY <1>5, <1>t DEF SendStress, FeedsTypeOK
    <2>2. Scheduled'
      BY <1>5, <1>t DEF SendStress, Scheduled
    <2> QED BY <2>1, <2>2
  <1>6. CASE SendCandle
    <2>1. sent < NCandles /\ target = Offset[sent] /\ target <= instant
      BY <1>6 DEF SendCandle, Scheduled
    <2>2. FeedsTypeOK'
      BY <1>6, <1>t, <2>1 DEF SendCandle, FeedsTypeOK
    <2>3. Scheduled'
      BY <1>6, <1>t, <2>1 DEF SendCandle, Scheduled, Due
    <2> QED BY <2>2, <2>3
  <1>7. CASE UNCHANGED feedsVars
    BY <1>7 DEF feedsVars, FeedsTypeOK, Scheduled, Due
  <1> QED BY <1>1, <1>2, <1>3, <1>4, <1>5, <1>6, <1>7 DEF FeedsNext

\* The inductive invariant of the feed's loops.
THEOREM FeedsInvariant == FeedsSpec => []FeedsInv
  BY FeedsInitInv, FeedsStepInv, PTL DEF FeedsSpec

LEMMA OnScheduleFromInv == FeedsInv => OnSchedule
  <1> SUFFICES ASSUME FeedsInv, feedAt = "asleep", instant < target
               PROVE  /\ \A i \in 0..(sent - 1) : Due(i) <= instant
                      /\ Due(sent) > instant
    BY DEF OnSchedule
  <1>t. /\ instant \in Nat /\ target \in Nat /\ sent \in Nat
        /\ NCandles \in Nat \ {0} /\ Offset \in [0..NCandles-1 -> Nat]
        /\ feedMode \in {"gbm", "replay"}
    BY FeedsAssumption DEF FeedsInv, FeedsTypeOK, Scheduled
  <1>1. Due(sent) = target
    BY <1>t DEF FeedsInv, Scheduled, Due
  <1>2. ASSUME NEW i \in 0..(sent - 1)
        PROVE  Due(i) <= instant
    <2>1. Due(sent - 1) <= instant
      BY <1>t, <1>2 DEF FeedsInv, Scheduled
    <2>2. CASE feedMode = "gbm"
      <3>1. i * Slot <= (sent - 1) * Slot
        BY <1>t, <1>2, SlotsAscend
      <3>2. i * Slot \in Nat /\ (sent - 1) * Slot \in Nat
        <4>1. i \in Nat /\ sent - 1 \in Nat
          BY <1>t, <1>2
        <4> QED BY <4>1, SlotsCount
      <3> QED BY <1>t, <2>1, <2>2, <3>1, <3>2 DEF Due
    <2>3. CASE feedMode = "replay"
      <3>1. i \in 0..NCandles-1 /\ sent - 1 \in 0..NCandles-1
        BY <1>t, <1>2, <2>3 DEF FeedsInv, Scheduled
      <3>2. Offset[i] <= Offset[sent - 1] /\ Offset[i] \in Nat /\ Offset[sent - 1] \in Nat
        BY <1>t, <1>2, <3>1, FeedsAssumption
      <3> QED BY <1>t, <2>1, <2>3, <3>2 DEF Due
    <2> QED BY <1>t, <2>2, <2>3
  <1> QED BY <1>t, <1>1, <1>2

\* However often the loop overslept or stalled, when it sleeps again it has sent
\* exactly the ticks that are due: the schedule of _run_gbm_loop and of
\* replay_candles is absolute and does not drift.
THEOREM FeedKeepsSchedule == FeedsSpec => []OnSchedule
  BY FeedsInvariant, OnScheduleFromInv, PTL

------------------------------------------------------------------------------
(***************************************************************************)
(* Theorem about Dashboard: a dead node is shown STALE in time, for any    *)
(* nodes, threshold, period of the timer and lateness of the poll thread.  *)
(***************************************************************************)
Beats == [node : KnownNodes, sent : Nat]

HealthTypes ==
    /\ clock \in Nat /\ due \in Nat
    /\ nodeUp \in [KnownNodes -> BOOLEAN]
    /\ upSince \in [KnownNodes -> Nat]
    /\ beats \in Seq(Beats)
    /\ lastHb \in [KnownNodes -> Nat]
    /\ shown \in [KnownNodes -> {"OK", "STALE"}]

\* Heartbeats wait in the order they were sent, and none waits longer than Lag.
BeatsInOrder ==
    /\ \A i, j \in 1..Len(beats) : i <= j => beats[i].sent <= beats[j].sent
    /\ \A i \in 1..Len(beats) : beats[i].sent <= clock /\ clock <= beats[i].sent + Lag

\* A node that is down sends nothing from then on, so the last heartbeat read
\* from it is no more than Lag younger than its death.
SilentWhenDown ==
    \A n \in KnownNodes : ~nodeUp[n] =>
        /\ \A i \in 1..Len(beats) : beats[i].node = n => beats[i].sent <= upSince[n]
        /\ lastHb[n] <= upSince[n] + Lag

\* The timer is never late, and what it drew as OK was not stale when it did.
DrawnInTime ==
    /\ clock <= due
    /\ \A n \in KnownNodes :
          /\ lastHb[n] <= clock
          /\ shown[n] = "OK" => due <= lastHb[n] + StaleAfter + RefreshPeriod

HealthInv == HealthTypes /\ BeatsInOrder /\ SilentWhenDown /\ DrawnInTime

LEMMA BeatFields ==
  ASSUME HealthTypes, NEW i \in 1..Len(beats)
  PROVE  beats[i] \in Beats /\ beats[i].node \in KnownNodes /\ beats[i].sent \in Nat
  <1>1. beats[i] \in Beats
    BY DEF HealthTypes
  <1> QED BY <1>1 DEF Beats

LEMMA HealthInit == DashboardInit => HealthInv
  <1> SUFFICES ASSUME DashboardInit PROVE HealthInv
    OBVIOUS
  <1> USE DashboardAssumption DEF DashboardInit, Never
  <1>1. HealthTypes
    BY DEF HealthTypes, Beats
  <1>2. BeatsInOrder /\ SilentWhenDown /\ DrawnInTime
    BY DEF BeatsInOrder, SilentWhenDown, DrawnInTime
  <1> QED BY <1>1, <1>2 DEF HealthInv

LEMMA PassKeeps == HealthInv /\ Pass => HealthInv'
  <1> SUFFICES ASSUME HealthInv, Pass PROVE HealthInv'
    OBVIOUS
  <1> USE DashboardAssumption DEF HealthInv, Pass
  <1>1. HealthTypes'
    BY DEF HealthTypes
  <1>2. BeatsInOrder'
    <2>1. ASSUME NEW i \in 1..Len(beats)
          PROVE  clock + 1 <= beats[i].sent + Lag
      <3>1. beats # <<>> /\ 1 \in 1..Len(beats) /\ 1 <= i /\ Head(beats) = beats[1]
        BY <2>1 DEF HealthTypes
      <3>2. beats[1].sent <= beats[i].sent
        BY <2>1, <3>1 DEF BeatsInOrder
      <3>3. beats[1] \in Beats /\ beats[i] \in Beats
        BY <2>1, <3>1 DEF HealthTypes
      <3>4. beats[1].sent \in Nat /\ beats[i].sent \in Nat /\ clock \in Nat /\ Lag \in Nat
        BY <3>3 DEF Beats, HealthTypes
      <3>5. clock < beats[1].sent + Lag
        BY <3>1
      <3> QED BY <3>2, <3>4, <3>5
    <2>2. \A i \in 1..Len(beats) : beats[i].sent \in Nat
      BY BeatFields
    <2> QED BY <2>1, <2>2 DEF BeatsInOrder, HealthTypes
  <1>3. SilentWhenDown'
    BY DEF SilentWhenDown
  <1>4. DrawnInTime'
    BY DEF DrawnInTime, HealthTypes
  <1> QED BY <1>1, <1>2, <1>3, <1>4

LEMMA BeatKeeps ==
  ASSUME HealthInv, NEW n \in KnownNodes, Beat(n)
  PROVE  HealthInv'
  <1> USE DashboardAssumption DEF HealthInv, Beat
  <1> DEFINE b == [node |-> n, sent |-> clock]
  <1>0. b \in Beats /\ b.node = n /\ b.sent = clock
    BY DEF HealthTypes, Beats
  <1>1. HealthTypes'
    BY <1>0 DEF HealthTypes
  <1>2. /\ Len(beats') = Len(beats) + 1 /\ Len(beats) \in Nat
        /\ \A i \in 1..Len(beats) : beats'[i] = beats[i]
        /\ beats'[Len(beats) + 1] = b
    BY <1>0 DEF HealthTypes
  <1>3. \A i \in 1..Len(beats') : i \in 1..Len(beats) \/ i = Len(beats) + 1
    BY <1>2
  <1>4. BeatsInOrder'
    <2>1. ASSUME NEW i \in 1..Len(beats'), NEW j \in 1..Len(beats'), i <= j
          PROVE  beats'[i].sent <= beats'[j].sent
      <3>1. CASE j \in 1..Len(beats)
        <4>1. i \in 1..Len(beats)
          BY <1>2, <2>1, <3>1
        <4> QED BY <1>2, <2>1, <3>1, <4>1 DEF BeatsInOrder
      <3>2. CASE j = Len(beats) + 1 /\ i \in 1..Len(beats)
        BY <1>0, <1>2, <3>2 DEF BeatsInOrder
      <3>3. CASE j = Len(beats) + 1 /\ i = Len(beats) + 1
        BY <1>0, <1>2, <3>3 DEF HealthTypes
      <3> QED BY <1>3, <2>1, <3>1, <3>2, <3>3
    <2>2. ASSUME NEW i \in 1..Len(beats')
          PROVE  beats'[i].sent <= clock /\ clock <= beats'[i].sent + Lag
      <3>1. CASE i \in 1..Len(beats)
        BY <1>2, <3>1 DEF BeatsInOrder
      <3>2. CASE i = Len(beats) + 1
        BY <1>0, <1>2, <3>2 DEF HealthTypes
      <3> QED BY <1>3, <2>2, <3>1, <3>2
    <2> QED BY <2>1, <2>2 DEF BeatsInOrder
  <1>5. SilentWhenDown'
    <2>1. ASSUME NEW k \in KnownNodes, ~nodeUp[k], NEW i \in 1..Len(beats'), beats'[i].node = k
          PROVE  beats'[i].sent <= upSince[k]
      <3>1. i \in 1..Len(beats)
        BY <1>0, <1>2, <1>3, <2>1
      <3> QED BY <1>2, <2>1, <3>1 DEF SilentWhenDown
    <2> QED BY <2>1 DEF SilentWhenDown
  <1>6. DrawnInTime'
    BY DEF DrawnInTime
  <1> QED BY <1>1, <1>4, <1>5, <1>6

LEMMA FlipKeeps ==
  ASSUME HealthInv, NEW n \in KnownNodes, Flip(n)
  PROVE  HealthInv'
  <1> USE DashboardAssumption DEF HealthInv, Flip
  <1>1. HealthTypes'
    BY DEF HealthTypes
  <1>2. BeatsInOrder' /\ DrawnInTime'
    BY DEF BeatsInOrder, DrawnInTime
  <1>3. SilentWhenDown'
    <2>1. ASSUME NEW k \in KnownNodes, ~nodeUp'[k]
          PROVE  /\ \A i \in 1..Len(beats) : beats[i].node = k => beats[i].sent <= upSince'[k]
                 /\ lastHb[k] <= upSince'[k] + Lag
      <3>1. CASE k = n
        <4>1. upSince'[k] = clock
          BY <3>1 DEF HealthTypes
        <4>2. lastHb[k] <= clock /\ lastHb[k] \in Nat /\ clock \in Nat
          BY DEF DrawnInTime, HealthTypes
        <4> QED BY <4>1, <4>2 DEF BeatsInOrder
      <3>2. CASE k # n
        BY <2>1, <3>2 DEF SilentWhenDown, HealthTypes
      <3> QED BY <3>1, <3>2
    <2> QED BY <2>1 DEF SilentWhenDown
  <1> QED BY <1>1, <1>2, <1>3

LEMMA ReadBeatKeeps == HealthInv /\ ReadBeat => HealthInv'
  <1> SUFFICES ASSUME HealthInv, ReadBeat PROVE HealthInv'
    OBVIOUS
  <1> USE DashboardAssumption DEF HealthInv, ReadBeat
  <1>0. /\ Len(beats) \in Nat /\ 1 \in 1..Len(beats) /\ Head(beats) = beats[1]
        /\ beats[1] \in Beats /\ beats[1].node \in KnownNodes /\ beats[1].sent \in Nat
    <2>1. Len(beats) \in Nat /\ 1 \in 1..Len(beats) /\ Head(beats) = beats[1]
      BY DEF HealthTypes
    <2> QED BY <2>1, BeatFields
  <1>1. HealthTypes'
    BY <1>0 DEF HealthTypes
  <1>2. /\ Len(beats') = Len(beats) - 1
        /\ \A i \in 1..Len(beats') : i + 1 \in 1..Len(beats) /\ beats'[i] = beats[i + 1]
    BY <1>0 DEF HealthTypes
  <1>3. BeatsInOrder'
    <2>1. \A i, j \in 1..Len(beats') : i <= j => beats'[i].sent <= beats'[j].sent
      BY <1>2 DEF BeatsInOrder
    <2>2. \A i \in 1..Len(beats') : beats'[i].sent <= clock /\ clock <= beats'[i].sent + Lag
      BY <1>2 DEF BeatsInOrder
    <2> QED BY <2>1, <2>2 DEF BeatsInOrder
  <1>4. SilentWhenDown'
    <2>1. ASSUME NEW k \in KnownNodes, ~nodeUp[k]
          PROVE  lastHb'[k] <= upSince[k] + Lag
      <3>1. CASE k = beats[1].node
        <4>1. lastHb'[k] = clock /\ clock <= beats[1].sent + Lag
          BY <1>0, <3>1 DEF BeatsInOrder, HealthTypes
        <4>2. beats[1].sent <= upSince[k] /\ upSince[k] \in Nat /\ clock \in Nat
          BY <1>0, <2>1, <3>1 DEF SilentWhenDown, HealthTypes
        <4>3. beats[1].sent \in Nat /\ Lag \in Nat
          BY <1>0, DashboardAssumption DEF HealthTypes, Beats
        <4> QED BY <4>1, <4>2, <4>3
      <3>2. CASE k # beats[1].node
        BY <1>0, <2>1, <3>2 DEF SilentWhenDown, HealthTypes
      <3> QED BY <3>1, <3>2
    <2>2. ASSUME NEW k \in KnownNodes, ~nodeUp[k], NEW i \in 1..Len(beats'), beats'[i].node = k
          PROVE  beats'[i].sent <= upSince[k]
      BY <1>2, <2>2 DEF SilentWhenDown
    <2> QED BY <2>1, <2>2 DEF SilentWhenDown
  <1>5. DrawnInTime'
    <2>1. \A k \in KnownNodes : lastHb'[k] \in {lastHb[k], clock}
      BY <1>0 DEF HealthTypes
    <2> QED BY <2>1 DEF DrawnInTime, HealthTypes
  <1> QED BY <1>1, <1>3, <1>4, <1>5

LEMMA RefreshKeeps == HealthInv /\ Refresh => HealthInv'
  <1> SUFFICES ASSUME HealthInv, Refresh PROVE HealthInv'
    OBVIOUS
  <1> USE DashboardAssumption DEF HealthInv, Refresh
  <1>1. HealthTypes'
    BY DEF HealthTypes
  <1>2. BeatsInOrder' /\ SilentWhenDown'
    BY DEF BeatsInOrder, SilentWhenDown
  <1>3. DrawnInTime'
    <2>1. clock' <= due' /\ due' = clock + RefreshPeriod
      BY DEF HealthTypes
    <2>2. ASSUME NEW n \in KnownNodes, shown'[n] = "OK"
          PROVE  due' <= lastHb'[n] + StaleAfter + RefreshPeriod
      <3>1. ~(clock - lastHb[n] > StaleAfter)
        BY <2>2 DEF HealthTypes, Stale
      <3> QED BY <2>1, <3>1 DEF HealthTypes
    <2> QED BY <2>1, <2>2 DEF DrawnInTime
  <1> QED BY <1>1, <1>2, <1>3

LEMMA HealthStep == HealthInv /\ [DashboardNext]_dashboardVars => HealthInv'
  <1> SUFFICES ASSUME HealthInv, [DashboardNext]_dashboardVars PROVE HealthInv'
    OBVIOUS
  <1>1. ASSUME UNCHANGED healthVars PROVE HealthInv'
    BY <1>1 DEF healthVars, HealthInv, HealthTypes, BeatsInOrder, SilentWhenDown, DrawnInTime
  <1>2. CASE ChartsNext
    <2>1. CASE FillTime \/ FillValue
      BY <1>1, <2>1 DEF FillTime, FillValue
    <2> QED BY <1>2, <2>1, PassKeeps, BeatKeeps, FlipKeeps, ReadBeatKeeps, RefreshKeeps
            DEF ChartsNext
  <1>3. CASE KillNext
    BY <1>1, <1>3 DEF KillNext, Click, Render, OnArm, OnCancelArm, OnConfirm, KillTaken
  <1>4. CASE UNCHANGED dashboardVars
    BY <1>1, <1>4 DEF dashboardVars
  <1> QED BY <1>2, <1>3, <1>4 DEF DashboardNext

\* The inductive invariant of the health display.
THEOREM HealthInvariant == DashboardSpec => []HealthInv
  BY HealthInit, HealthStep, PTL DEF DashboardSpec

LEMMA DeadShown == HealthInv => DeadNodeShownStale
  <1> SUFFICES ASSUME HealthInv, NEW n \in KnownNodes, ~nodeUp[n],
                      clock > upSince[n] + Lag + StaleAfter + RefreshPeriod,
                      shown[n] # "STALE"
               PROVE  FALSE
    BY DEF DeadNodeShownStale
  <1>1. /\ clock \in Nat /\ due \in Nat /\ lastHb[n] \in Nat /\ upSince[n] \in Nat
        /\ shown[n] = "OK"
    BY DEF HealthInv, HealthTypes
  <1>2. clock <= due /\ due <= lastHb[n] + StaleAfter + RefreshPeriod
    BY <1>1 DEF HealthInv, DrawnInTime
  <1>3. lastHb[n] <= upSince[n] + Lag
    BY DEF HealthInv, SilentWhenDown
  <1> QED BY <1>1, <1>2, <1>3, DashboardAssumption

\* A node that died is shown STALE after the threshold, a period of the timer
\* and the time its last heartbeat may have waited on the socket.
THEOREM DeadNodesAreShown == DashboardSpec => []DeadNodeShownStale
  BY HealthInvariant, DeadShown, PTL

------------------------------------------------------------------------------
(***************************************************************************)
(* Theorems about Testbed, for any strategies, trials and left-overs of an *)
(* earlier run: whose metrics a trial records, and that no slice is left   *)
(* behind in silence.                                                      *)
(***************************************************************************)
USE DEF NoTrial, Torn, Earlier

Step == {"dataplane", "install", "clone", "copy", "env"}

SetUpTypes ==
    /\ stage \in Step \cup {"start", "checks", "trial", "fault", "delete", "handler", "over"}
    /\ job \in Step \cup {"none"}
    /\ stage \in Step => job = stage
    /\ stage \in {"checks", "trial"} => job = "none"
    /\ has \in [Node -> SUBSET Item] /\ said \in [Node -> SUBSET Word]
    /\ failed \subseteq Node /\ todo \subseteq Node

LEMMA StepAfterType ==
  ASSUME NEW s \in Step
  PROVE  /\ StepAfter[s] \in {"install", "clone", "copy", "env", "checks"}
         /\ StepAfter[s] = "install" <=> s = "dataplane"
         /\ StepAfter[s] = "clone" <=> s = "install"
         /\ StepAfter[s] = "copy" <=> s = "clone"
         /\ StepAfter[s] = "env" <=> s = "copy"
         /\ StepAfter[s] = "checks" <=> s = "env"
  BY DEF Step, StepAfter

LEMMA NodesOfType ==
  ASSUME SetUpTypes, NEW s \in Step
  PROVE  NodesOf[s] \subseteq Node /\ (s = "copy" => NodesOf[s] = failed) /\ (s # "copy" => NodesOf[s] = Node)
  BY DEF Step, NodesOf, SetUpTypes

LEMMA SetUpTypesInit == TestbedInit => SetUpTypes
  <1> SUFFICES ASSUME TestbedInit PROVE SetUpTypes
    OBVIOUS
  <1>1. has \in [Node -> SUBSET Item]
    <2>1. [n \in Node |-> {}] \in [Node -> SUBSET Item]
      OBVIOUS
    <2> QED BY <2>1, LeftoversAssumption DEF TestbedInit
  <1> QED BY <1>1 DEF TestbedInit, SetUpTypes, Step

\* The steps of the script after the set-up, and of the engine.
LaterStep ==
    \/ Checks \/ Launch \/ Collect \/ FaultTest
    \/ OpenFile \/ WriteFile \/ WriterDies \/ EngineEnds
    \/ Delete \/ Raises \/ Cleanup \/ Killed

LEMMA LaterMoves ==
  ASSUME LaterStep
  PROVE  /\ job' = job /\ said' = said /\ failed' = failed /\ skip' = skip
         /\ todo' \in {todo, {}}
         /\ has' \in {has, [n \in Node |-> {}]} /\ (has' # has => stage' = "over")
         /\ \/ stage' = stage /\ todo' = todo
            \/ stage' \in {"fault", "delete", "handler", "over"}
            \/ stage = "checks" /\ stage' = "trial"
  <1> USE DEF nodeVars, runVars, workVars, trialVars
  <1>1. CASE Checks \/ Launch \/ Collect \/ FaultTest
    BY <1>1 DEF Checks, Launch, Collect, FaultTest
  <1>2. CASE OpenFile \/ WriteFile \/ WriterDies \/ EngineEnds
    BY <1>2 DEF OpenFile, WriteFile, WriterDies, EngineEnds
  <1>3. CASE Delete
    BY <1>3 DEF Delete, Gone
  <1>4. CASE Cleanup
    BY <1>4 DEF Cleanup, Gone
  <1>5. CASE Raises \/ Killed
    BY <1>5 DEF Raises, Killed
  <1> QED BY <1>1, <1>2, <1>3, <1>4, <1>5 DEF LaterStep

LEMMA SetUpTypesStep == SetUpTypes /\ [TestbedNext]_testbedVars => SetUpTypes'
  <1> SUFFICES ASSUME SetUpTypes, [TestbedNext]_testbedVars PROVE SetUpTypes'
    OBVIOUS
  <1>1. CASE Begin
    BY <1>1 DEF Begin, SetUpTypes, Step, nodeVars
  <1>2. CASE StepDone
    <2>1. stage \in Step
      BY <1>2 DEF StepDone, SetUpTypes
    <2>2. /\ stage' \in {"install", "clone", "copy", "env", "checks"}
          /\ stage' \in Step => job' = stage' /\ todo' = NodesOf[stage']
          /\ stage' \notin Step => job' = "none" /\ todo' = {}
      BY <1>2, <2>1, StepAfterType DEF StepDone, Step
    <2>3. todo' \subseteq Node
      BY <2>2, NodesOfType
    <2> QED BY <1>2, <2>2, <2>3 DEF StepDone, SetUpTypes, Step, nodeVars
  <1>3. ASSUME NEW n \in Node, ConfigDp(n) \/ Install(n) \/ Clone(n) \/ CopyTo(n) \/ WriteEnv(n)
        PROVE  SetUpTypes'
    <2>1. stage' = stage /\ job' = job /\ todo' \subseteq Node /\ failed' \subseteq Node
      BY <1>3 DEF ConfigDp, Install, Clone, CopyTo, WriteEnv, SetUpTypes
    <2>2. said' \in [Node -> SUBSET Word]
      BY <1>3 DEF ConfigDp, Install, Clone, CopyTo, WriteEnv, SetUpTypes, Says, Word
    <2>3. has' \in [Node -> SUBSET Item]
      <3> USE DEF SetUpTypes, Has, Item
      <3>1. CASE ConfigDp(n) \/ Install(n) \/ WriteEnv(n)
        BY <3>1 DEF ConfigDp, Install, WriteEnv
      <3>2. CASE Clone(n)
        BY <3>2 DEF Clone
      <3>3. CASE CopyTo(n)
        <4>1. CASE donor = NoNode
          BY <3>3, <4>1 DEF CopyTo
        <4>2. CASE donor # NoNode
          <5>1. PICK items \in {has[n], {}, {"venv", "deps"}, {"venv", "deps", "repo"}} :
                    Has(n, items \cup (has[n] \cap {"dp"}))
            BY <3>3, <4>2 DEF CopyTo
          <5>2. has[n] \subseteq Item
            OBVIOUS
          <5>3. items \subseteq Item
            BY <5>1, <5>2
          <5> QED BY <5>1, <5>2, <5>3
        <4> QED BY <4>1, <4>2
      <3> QED BY <1>3, <3>1, <3>2, <3>3
    <2> QED BY <2>1, <2>2, <2>3 DEF SetUpTypes
  <1>4. CASE LaterStep
    <2>1. [n \in Node |-> {}] \in [Node -> SUBSET Item]
      OBVIOUS
    <2> QED BY <1>4, <2>1, LaterMoves DEF SetUpTypes, Step
  <1>5. CASE UNCHANGED testbedVars
    BY <1>5 DEF testbedVars, SetUpTypes
  <1> QED BY <1>1, <1>2, <1>3, <1>4, <1>5 DEF TestbedNext, LaterStep

\* An engine other than the trial's never writes once the trial's own has, and
\* when a trial is over its engine writes no more unless it did before.
OwnWriter ==
    /\ trial \in Nat /\ live \in Nat /\ file \in Nat \cup {Torn}
    /\ writer # "dead" => live # NoTrial
    /\ stage \notin {"trial", "fault", "delete", "handler", "over"} =>
          trial = NoTrial /\ ~wrote /\ ~launched
    /\ stage = "trial" /\ wrote => file \in {trial, Torn, NoTrial} /\ live \in {trial, NoTrial}
    /\ stage = "fault" => trial = Trials /\ ~launched
    /\ ~launched /\ ~wrote => live # trial \/ writer = "dead"

MetricsInv == SetUpTypes /\ OwnWriter /\ OwnMetrics

LEMMA MetricsInit == TestbedInit => MetricsInv
  BY TestbedAssumption, SetUpTypesInit DEF TestbedInit, MetricsInv, OwnWriter, OwnMetrics

LEMMA MetricsStep == MetricsInv /\ [TestbedNext]_testbedVars => MetricsInv'
  <1> SUFFICES ASSUME MetricsInv, [TestbedNext]_testbedVars PROVE (OwnWriter /\ OwnMetrics)'
    BY SetUpTypesStep DEF MetricsInv
  <1> USE DEF MetricsInv, OwnWriter, OwnMetrics
  <1>1. ASSUME UNCHANGED trialVars,
               stage' = stage \/ stage' \in {"handler", "over"}
                 \/ {stage, stage'} \cap {"trial", "fault", "delete", "handler", "over"} = {}
        PROVE  (OwnWriter /\ OwnMetrics)'
    BY <1>1 DEF trialVars
  <1>2. CASE Begin
    BY <1>1, <1>2 DEF Begin
  <1>3. CASE StepDone
    <2>1. stage \in Step
      BY <1>3 DEF StepDone, SetUpTypes
    <2> QED BY <1>1, <1>3, <2>1, StepAfterType DEF StepDone, Step
  <1>4. CASE \E n \in Node : ConfigDp(n) \/ Install(n) \/ Clone(n) \/ CopyTo(n) \/ WriteEnv(n)
    BY <1>1, <1>4 DEF ConfigDp, Install, Clone, CopyTo, WriteEnv
  <1>5. CASE Checks \/ FaultTest
    <2>1. /\ UNCHANGED <<trial, launched, wrote, record>> /\ OtherEngine
          /\ \/ stage = "checks" /\ stage' = "trial"
             \/ stage = "fault" /\ stage' = "delete"
      BY <1>5 DEF Checks, FaultTest
    <2>2. \/ live' = live /\ writer' = writer /\ file' = file
          \/ live' = NoTrial /\ writer' = "dead" /\ file' \in Nat \cup {Torn}
          \/ live' = Earlier /\ live' \in Nat \ {trial, NoTrial} /\ file' \in Nat \cup {Torn}
      BY <2>1, TestbedAssumption DEF OtherEngine, KillAll
    <2> QED BY <2>1, <2>2
  <1>6. CASE Launch
    <2>1. /\ launched' /\ wrote' = FALSE /\ file' = file /\ trial' = trial + 1
          /\ stage = "trial" /\ stage' = "trial"
      BY <1>6 DEF Launch
    <2>2. \/ live' = live /\ writer' = writer
          \/ live' = NoTrial /\ writer' = "dead"
          \/ live' = trial' /\ writer' = "waits"
      BY <1>6 DEF Launch, KillAll
    <2>3. trial' \in Nat /\ trial' # NoTrial
      BY <1>6 DEF Launch
    <2> QED BY <2>1, <2>2, <2>3
  <1>7. CASE Collect
    BY <1>7 DEF Collect, KillAll
  <1>8. CASE OpenFile \/ WriterDies \/ EngineEnds
    BY <1>8 DEF OpenFile, WriterDies, EngineEnds
  <1>9. CASE WriteFile
    <2>1. /\ UNCHANGED <<stage, trial, launched, live, record>>
          /\ live # NoTrial /\ writer = "open"
      BY <1>9 DEF WriteFile
    <2>2. launched' <=> launched
      BY <2>1
    <2>3. CASE UNCHANGED <<file, wrote>>
      BY <2>1, <2>2, <2>3
    <2>4. CASE file' = live /\ wrote' = (wrote \/ live = trial)
      <3>1. wrote' <=> (wrote \/ live = trial)
        BY <2>4, Zenon
      <3> QED BY <2>1, <2>2, <2>4, <3>1
    <2> QED BY <1>9, <2>3, <2>4 DEF WriteFile
  <1>10. CASE Delete \/ Cleanup
    BY <1>10 DEF Delete, Cleanup, Gone
  <1>11. CASE Raises \/ Killed
    BY <1>1, <1>11 DEF Raises, Killed
  <1>12. CASE UNCHANGED testbedVars
    BY <1>1, <1>12 DEF testbedVars, trialVars
  <1> QED BY <1>2, <1>3, <1>4, <1>5, <1>6, <1>7, <1>8, <1>9, <1>10, <1>11, <1>12 DEF TestbedNext

\* A trial whose engine ended a write of its own records the metrics of that
\* engine or none, whatever an engine that outlived kill_all does.
THEOREM TrialsRecordTheirOwn == TestbedSpec => []OwnMetrics
  <1>1. MetricsInv => OwnMetrics
    BY DEF MetricsInv
  <1> QED BY <1>1, MetricsInit, MetricsStep, PTL DEF TestbedSpec

\* Nothing creates a slice once the script is over.
LEMMA SliceStep ==
    SetUpTypes /\ NoSliceLeftBehind /\ [TestbedNext]_testbedVars => NoSliceLeftBehind'
  <1> SUFFICES ASSUME SetUpTypes, NoSliceLeftBehind, [TestbedNext]_testbedVars
               PROVE  NoSliceLeftBehind'
    OBVIOUS
  <1> USE DEF NoSliceLeftBehind, runVars
  <1>1. CASE Begin
    BY <1>1 DEF Begin
  <1>2. CASE StepDone
    <2>1. stage \in Step
      BY <1>2 DEF StepDone, SetUpTypes
    <2> QED BY <1>2, <2>1, StepAfterType DEF StepDone
  <1>3. CASE \E n \in Node : ConfigDp(n) \/ Install(n) \/ Clone(n) \/ CopyTo(n) \/ WriteEnv(n)
    BY <1>3 DEF ConfigDp, Install, Clone, CopyTo, WriteEnv
  <1>4. CASE Checks \/ Launch \/ Collect \/ FaultTest
    BY <1>4 DEF Checks, Launch, Collect, FaultTest
  <1>5. CASE OpenFile \/ WriteFile \/ WriterDies \/ EngineEnds
    BY <1>5 DEF OpenFile, WriteFile, WriterDies, EngineEnds
  <1>6. CASE Delete \/ Raises \/ Cleanup \/ Killed
    BY <1>6 DEF Delete, Raises, Cleanup, Killed, Gone
  <1>7. CASE UNCHANGED testbedVars
    BY <1>7 DEF testbedVars
  <1> QED BY <1>1, <1>2, <1>3, <1>4, <1>5, <1>6, <1>7 DEF TestbedNext

\* On every path through the script and its handlers the slice is deleted, or
\* there is one of the three excuses.
THEOREM SliceIsDeleted == TestbedSpec => []NoSliceLeftBehind
  <1>1. TestbedInit => NoSliceLeftBehind
    BY DEF TestbedInit, NoSliceLeftBehind
  <1> QED BY <1>1, SetUpTypesInit, SetUpTypesStep, SliceStep, PTL DEF TestbedSpec

RepoKnown(n) ==
    /\ "deps" \in has[n] \/ "repo" \in said[n]
    /\ "repo" \in has[n] \/ said[n] \cap {"repo", "via scp"} # {}

SetUpOver == stage \in {"checks", "trial"} /\ ~skip

\* What each step of the set-up leaves behind on the nodes it has been over.
SetUpSoFar ==
    /\ stage = "clone" => \A n \in Node \ todo : RepoKnown(n) \/ n \in failed
    /\ stage = "copy" => \A n \in Node \ todo : RepoKnown(n)
    /\ stage = "env" \/ SetUpOver => \A n \in Node : RepoKnown(n)

SetUpInv == SetUpTypes /\ SetUpSoFar

NodeStep(n) == ConfigDp(n) \/ Install(n) \/ Clone(n) \/ CopyTo(n) \/ WriteEnv(n)

LEMMA NodeMoves ==
  ASSUME SetUpTypes, NEW n \in Node, NodeStep(n)
  PROVE  /\ stage' = stage /\ skip' = skip /\ todo' = todo \ {n} /\ failed \subseteq failed'
         /\ \A k \in Node \ {n} : has'[k] = has[k] /\ said'[k] = said[k]
  <1>1. CASE ConfigDp(n)
    BY <1>1 DEF ConfigDp, SetUpTypes, Has, Says, runVars
  <1>2. CASE Install(n)
    BY <1>2 DEF Install, SetUpTypes, Has, runVars
  <1>3. CASE Clone(n)
    BY <1>3 DEF Clone, SetUpTypes, Has, Says, runVars
  <1>4. CASE CopyTo(n)
    <2>1. CASE donor = NoNode
      BY <1>4, <2>1 DEF CopyTo, SetUpTypes, Says, runVars
    <2>2. CASE donor # NoNode
      <3>1. /\ stage' = stage /\ skip' = skip /\ todo' = todo \ {n} /\ failed' = failed
            /\ \E items : Has(n, items \cup (has[n] \cap {"dp"}))
            /\ \E word : Says(n, word)
        BY <1>4, <2>2 DEF CopyTo, runVars
      <3> QED BY <3>1 DEF SetUpTypes, Has, Says
    <2> QED BY <2>1, <2>2
  <1>5. CASE WriteEnv(n)
    BY <1>5 DEF WriteEnv, SetUpTypes, Has, runVars
  <1> QED BY <1>1, <1>2, <1>3, <1>4, <1>5 DEF NodeStep

\* What the step of a node's thread achieves there.
LEMMA NodeAchieves ==
  ASSUME SetUpTypes, NEW n \in Node
  PROVE  /\ Clone(n) => RepoKnown(n)' \/ n \in failed'
         /\ CopyTo(n) => RepoKnown(n)'
         /\ WriteEnv(n) => (RepoKnown(n) => RepoKnown(n)')
  <1>2. ASSUME Clone(n), n \notin failed' PROVE RepoKnown(n)'
    <2>1. \/ \E items : Has(n, items \cup {"deps", "repo"}) /\ said' = said
          \/ said' = [said EXCEPT ![n] = @ \cup {"repo"}]
      BY <1>2 DEF Clone, Says
    <2>2. CASE said' = [said EXCEPT ![n] = @ \cup {"repo"}]
      BY <2>2 DEF RepoKnown, SetUpTypes
    <2>3. CASE \E items : Has(n, items \cup {"deps", "repo"})
      BY <2>3 DEF RepoKnown, SetUpTypes, Has
    <2> QED BY <2>1, <2>2, <2>3
  <1>3. ASSUME CopyTo(n) PROVE RepoKnown(n)'
    <2>1. CASE donor = NoNode
      BY <1>3, <2>1 DEF CopyTo, RepoKnown, SetUpTypes, Says
    <2>2. CASE donor # NoNode
      <3>1. PICK items : /\ Has(n, items \cup (has[n] \cap {"dp"}))
                         /\ Says(n, IF "deps" \in items THEN "via scp" ELSE "repo")
        BY <1>3, <2>2 DEF CopyTo
      <3> QED BY <3>1 DEF RepoKnown, SetUpTypes, Has, Says
    <2> QED BY <2>1, <2>2
  <1>4. WriteEnv(n) => (RepoKnown(n) => RepoKnown(n)')
    BY DEF WriteEnv, RepoKnown, SetUpTypes, Has
  <1> QED BY <1>2, <1>3, <1>4

LEMMA SetUpStep == SetUpInv /\ [TestbedNext]_testbedVars => SetUpInv'
  <1> SUFFICES ASSUME SetUpInv, [TestbedNext]_testbedVars PROVE SetUpSoFar'
    BY SetUpTypesStep DEF SetUpInv
  <1> USE DEF SetUpInv
  <1>1. CASE Begin
    BY <1>1 DEF Begin, SetUpSoFar, SetUpOver
  <1>2. CASE StepDone
    <2>1. stage \in Step /\ todo = {} /\ has' = has /\ said' = said /\ skip' = skip
      BY <1>2 DEF StepDone, SetUpTypes, runVars
    <2>2. \A n \in Node : RepoKnown(n)' = RepoKnown(n)
      BY <2>1 DEF RepoKnown
    <2>4. CASE stage = "dataplane" /\ skip
      <3>1. stage' = "checks" /\ skip'
        BY <1>2, <2>1, <2>4 DEF StepDone
      <3> QED BY <3>1 DEF SetUpSoFar, SetUpOver
    <2>5. CASE stage = "dataplane" /\ ~skip
      <3>1. stage' = "install"
        BY <1>2, <2>1, <2>5, StepAfterType DEF StepDone
      <3> QED BY <2>2, <3>1 DEF SetUpSoFar, SetUpOver
    <2>6. CASE stage = "install"
      <3>1. stage' = "clone" /\ todo' = NodesOf["clone"] /\ NodesOf["clone"] = Node
        BY <1>2, <2>1, <2>6, StepAfterType, NodesOfType DEF StepDone, Step
      <3> QED BY <2>2, <3>1 DEF SetUpSoFar, SetUpOver
    <2>7. CASE stage = "clone"
      <3>1. stage' = "copy" /\ todo' = NodesOf["copy"] /\ NodesOf["copy"] = failed
        BY <1>2, <2>1, <2>7, StepAfterType, NodesOfType DEF StepDone, Step
      <3>2. \A n \in Node : RepoKnown(n) \/ n \in failed
        BY <2>1, <2>7 DEF SetUpSoFar
      <3> QED BY <2>2, <3>1, <3>2 DEF SetUpSoFar, SetUpOver
    <2>8. CASE stage = "copy"
      <3>1. stage' = "env" /\ todo' = NodesOf["env"] /\ NodesOf["env"] = Node
        BY <1>2, <2>1, <2>8, StepAfterType, NodesOfType DEF StepDone, Step
      <3>2. \A n \in Node : RepoKnown(n)
        BY <2>1, <2>8 DEF SetUpSoFar
      <3> QED BY <2>2, <3>1, <3>2 DEF SetUpSoFar, SetUpOver
    <2>9. CASE stage = "env"
      <3>1. stage' = "checks"
        BY <1>2, <2>1, <2>9, StepAfterType DEF StepDone
      <3>2. \A n \in Node : RepoKnown(n)
        BY <2>1, <2>9 DEF SetUpSoFar
      <3> QED BY <2>2, <3>1, <3>2 DEF SetUpSoFar, SetUpOver
    <2> QED BY <2>1, <2>4, <2>5, <2>6, <2>7, <2>8, <2>9 DEF Step
  <1>3. ASSUME NEW n \in Node, NodeStep(n)
        PROVE  SetUpSoFar'
    <2>1. /\ stage' = stage /\ skip' = skip /\ todo' = todo \ {n} /\ failed \subseteq failed'
          /\ \A k \in Node \ {n} : has'[k] = has[k] /\ said'[k] = said[k]
      BY <1>3, NodeMoves
    <2>3. \A k \in Node \ {n} : RepoKnown(k)' = RepoKnown(k)
      BY <2>1 DEF RepoKnown
    <2>4. stage # "checks" /\ stage # "trial"
      BY <1>3 DEF NodeStep, ConfigDp, Install, Clone, CopyTo, WriteEnv, SetUpTypes
    <2>5. CASE stage \notin Step
      BY <2>1, <2>4, <2>5 DEF SetUpSoFar, SetUpOver, Step
    <2>7. CASE stage \in {"dataplane", "install"}
      BY <2>1, <2>7 DEF SetUpSoFar, SetUpOver
    <2>8. CASE stage = "clone"
      <3>1. Clone(n)
        BY <1>3, <2>8 DEF NodeStep, ConfigDp, Install, CopyTo, WriteEnv, SetUpTypes, Step
      <3>2. RepoKnown(n)' \/ n \in failed'
        BY <3>1, NodeAchieves
      <3> QED BY <2>1, <2>3, <2>8, <3>2 DEF SetUpSoFar, SetUpOver
    <2>9. CASE stage = "copy"
      <3>1. CopyTo(n)
        BY <1>3, <2>9 DEF NodeStep, ConfigDp, Install, Clone, WriteEnv, SetUpTypes, Step
      <3>2. RepoKnown(n)'
        BY <3>1, NodeAchieves
      <3> QED BY <2>1, <2>3, <2>9, <3>2 DEF SetUpSoFar, SetUpOver
    <2>10. CASE stage = "env"
      <3>1. WriteEnv(n)
        BY <1>3, <2>10 DEF NodeStep, ConfigDp, Install, Clone, CopyTo, SetUpTypes, Step
      <3>2. RepoKnown(n)'
        BY <2>10, <3>1, NodeAchieves DEF SetUpSoFar
      <3> QED BY <2>1, <2>3, <2>10, <3>2 DEF SetUpSoFar, SetUpOver
    <2> QED BY <2>5, <2>7, <2>8, <2>9, <2>10 DEF Step
  <1>4. CASE LaterStep
    <2>1. CASE stage' \in {"fault", "delete", "handler", "over"}
      BY <2>1 DEF SetUpSoFar, SetUpOver
    <2>2. CASE stage' \notin {"fault", "delete", "handler", "over"}
      <3>1. has' = has /\ said' = said /\ failed' = failed
        BY <1>4, <2>2, LaterMoves
      <3>2. skip' = skip
        BY <1>4, LaterMoves
      <3>3. (stage' = stage /\ todo' = todo) \/ (stage = "checks" /\ stage' = "trial")
        BY <1>4, <2>2, LaterMoves
      <3>4. \A n \in Node : RepoKnown(n)' = RepoKnown(n)
        BY <3>1 DEF RepoKnown
      <3>5. SetUpOver' => SetUpOver
        BY <3>2, <3>3 DEF SetUpOver
      <3>6. CASE stage' = stage /\ todo' = todo
        BY <3>1, <3>4, <3>5, <3>6 DEF SetUpSoFar
      <3>7. CASE stage' = "trial"
        BY <3>1, <3>4, <3>5, <3>7 DEF SetUpSoFar
      <3> QED BY <3>3, <3>6, <3>7
    <2> QED BY <2>1, <2>2
  <1>5. CASE UNCHANGED testbedVars
    BY <1>5 DEF testbedVars, SetUpSoFar, SetUpOver, RepoKnown
  <1> QED BY <1>1, <1>2, <1>3, <1>4, <1>5 DEF TestbedNext, LaterStep, NodeStep

\* With the environment written to every node, every address a process connects
\* to leads to a node where a process binds it.
LEMMA EveryNodeWired == ASSUME NEW n \in Node PROVE Wired(n)
  <1> DEFINE host(e) == ConnectAddr("fabric", WrittenEnv, e).host
             port(e) == ConnectAddr("fabric", WrittenEnv, e).port
  <1>1. /\ host("order_egress") = "engine-node" /\ host("order_cancel") = "engine-node"
        /\ host("exec_report_pub") = "engine-node" /\ host("order_ingress") = "engine-node"
        /\ host("risk_reject_pub") = "engine-node"
        /\ host("feed_pub") = "feed-node" /\ host("heartbeat_pub") = "feed-node"
    BY DEF ConnectAddr, ResolveHost, HostKeyOf, WrittenEnv
  <1>2. \A e \in Endpoint : BindAddr("fabric", WrittenEnv, e).port = port(e)
    BY DEF BindAddr, ConnectAddr
  <1>3. /\ RunsOn("engine-node") = {EngineSockets, GatewaySockets}
        /\ RunsOn("feed-node") = {FeedSockets}
        /\ n \in Strats => RunsOn(n) = {StrategySockets}
    BY TestbedAssumption DEF RunsOn
  <1>4. EngineSockets \in RunsOn("engine-node") /\ GatewaySockets \in RunsOn("engine-node")
        /\ FeedSockets \in RunsOn("feed-node")
    BY <1>3
  <1>5. ASSUME NEW e \in EngineSockets.binds \cup GatewaySockets.binds, host(e) = "engine-node"
        PROVE  \E q \in RunsOn(host(e)) : \E f \in q.binds :
                  BindAddr("fabric", WrittenEnv, f).port = port(e)
    <2>1. e \in Endpoint
      BY DEF EngineSockets, GatewaySockets, Endpoint, HostKeyOf
    <2> QED BY <1>2, <1>4, <1>5, <2>1
  <1>6. ASSUME NEW e \in FeedSockets.binds, host(e) = "feed-node"
        PROVE  \E q \in RunsOn(host(e)) : \E f \in q.binds :
                  BindAddr("fabric", WrittenEnv, f).port = port(e)
    <2>1. e \in Endpoint
      BY DEF FeedSockets, Endpoint, HostKeyOf
    <2> QED BY <1>2, <1>4, <1>6, <2>1
  <1>7. ASSUME NEW p \in {EngineSockets, GatewaySockets, FeedSockets, StrategySockets},
               NEW e \in p.connects
        PROVE  \E q \in RunsOn(host(e)) : \E f \in q.binds :
                  BindAddr("fabric", WrittenEnv, f).port = port(e)
    <2>1. \/ e \in FeedSockets.binds /\ host(e) = "feed-node"
          \/ e \in EngineSockets.binds \cup GatewaySockets.binds /\ host(e) = "engine-node"
      BY <1>1, <1>7 DEF EngineSockets, GatewaySockets, FeedSockets, StrategySockets
    <2> QED BY <1>5, <1>6, <2>1
  <1>8. RunsOn(n) \subseteq {EngineSockets, GatewaySockets, FeedSockets, StrategySockets}
    BY <1>3 DEF Node
  <1> QED BY <1>7, <1>8 DEF Wired

\* The inductive invariant of the set-up.
THEOREM SetUpInvariant == TestbedSpec => []SetUpInv
  <1>1. TestbedInit => SetUpInv
    BY SetUpTypesInit DEF TestbedInit, SetUpInv, SetUpSoFar, SetUpOver
  <1> QED BY <1>1, SetUpStep, PTL DEF TestbedSpec

\* Whatever fails in the threads of the set-up and in the fallback, in any order,
\* on any number of nodes: once the trials start, a node without the packages or
\* the repository has been named (run_fabric.py:305-350).
THEOREM NoCodeMissingInSilence == TestbedSpec => []MissingCodeIsKnown
  <1>1. SetUpInv => MissingCodeIsKnown
    BY EveryNodeWired DEF SetUpInv, SetUpSoFar, SetUpOver, RepoKnown, MissingCodeIsKnown
  <1> QED BY <1>1, SetUpInvariant, PTL

-----------------------------------------------------------------------------
(***************************************************************************)
(* Theorems about Signals.  Why a threshold keeps a side out: of n numbers *)
(* none is more than the root of n - 1 deviations off their mean.  With s  *)
(* and t the sums of m numbers and of their squares, this is what one more *)
(* number x does to both.                                                  *)
(***************************************************************************)
LEMMA OneMoreNumber ==
    ASSUME NEW m \in Int, NEW s \in Int, NEW t \in Int, NEW x \in Int
    PROVE  m * ((m + 1) * (t + x * x) - (s + x) * (s + x))
             = ((m + 1) * x - (s + x)) * ((m + 1) * x - (s + x)) + (m + 1) * (m * t - s * s)
  OBVIOUS

LEMMA SquareType == \A x \in Int : Square(x) \in Nat
<1>1. ASSUME NEW x \in Int PROVE x * x \in Nat
  BY <1>1
<1>2. QED
  BY <1>1 DEF Square

LEMMA ProductType == \A x \in Nat, y \in Nat : x * y \in Nat
  OBVIOUS

LEMMA FactorSign ==
    ASSUME NEW m \in Nat, m # 0, NEW y \in Int, m * y \in Nat
    PROVE  y \in Nat
<1>1. SUFFICES ASSUME y < 0 PROVE FALSE
  OBVIOUS
<1>2. - y \in Nat /\ - y > 0 /\ m > 0
  BY <1>1
<1>3. m * (- y) > 0
  BY <1>2
<1>4. QED
  BY <1>3

\* The sums of a window that gets one more price (strategy.py:285-294).
LEMMA WindowSums ==
    ASSUME NEW w \in Seq(Int), NEW x \in Int
    PROVE  /\ Sum(w) \in Int /\ SumSquares(w) \in Int /\ Len(w) \in Nat
           /\ Sum(Append(w, x)) = Sum(w) + x
           /\ SumSquares(Append(w, x)) = SumSquares(w) + x * x
           /\ Len(Append(w, x)) = Len(w) + 1
<1> DEFINE a == Append(w, x)
           sq == [k \in DOMAIN w |-> Square(w[k])]
           sqa == [k \in DOMAIN a |-> Square(a[k])]
<1>1. /\ Len(w) \in Nat /\ DOMAIN w = 1..Len(w) /\ \A k \in 1..Len(w) : w[k] \in Int
      /\ Len(a) = Len(w) + 1 /\ DOMAIN a = 1..(Len(w) + 1)
      /\ \A k \in 1..Len(w) : a[k] = w[k]
      /\ a[Len(w) + 1] = x
  BY AppendProperties, LenProperties
<1>2. sq \in Seq(Int) /\ Len(sq) = Len(w)
  <2>1. sq \in [1..Len(w) -> Int]
    BY <1>1, SquareType
  <2>2. QED
    BY <1>1, <2>1, IsASeq, LenProperties
<1>3. sqa = Append(sq, x * x)
  <2>1. /\ sqa \in [1..(Len(sq) + 1) -> Int]
        /\ \A k \in 1..Len(sq) : sqa[k] = sq[k]
        /\ sqa[Len(sq) + 1] = x * x
    BY <1>1, <1>2, SquareType DEF Square
  <2>2. x * x \in Int
    OBVIOUS
  <2> HIDE DEF sq, sqa
  <2>3. QED
    BY <1>2, <2>1, <2>2, IsAppended
<1>4. Sum(w) \in Int /\ Sum(a) = Sum(w) + x
  BY SumAppend, SumSeqType DEF Sum
<1>5. /\ SumFunction(sq) \in Int
      /\ SumFunction(Append(sq, x * x)) = SumFunction(sq) + x * x
  <2>1. x * x \in Int
    OBVIOUS
  <2> HIDE DEF sq
  <2>2. QED
    BY <1>2, <2>1, SumAppend, SumSeqType
<1>6. SumSquares(w) \in Int /\ SumSquares(a) = SumSquares(w) + x * x
  BY <1>3, <1>5 DEF SumSquares
<1>7. QED
  BY <1>1, <1>4, <1>6

\* The sums of a window without prices.
LEMMA EmptyWindow == Sum(<<>>) = 0 /\ SumSquares(<<>>) = 0 /\ Len(<<>>) = 0
<1> DEFINE sq == [k \in DOMAIN <<>> |-> Square(<<>>[k])]
<1>1. <<>> \in Seq(Int) /\ Len(<<>>) = 0
  BY EmptySeq
<1>2. sq = <<>>
  OBVIOUS
<1> HIDE DEF sq
<1>3. SumFunction(sq) = 0 /\ SumFunction(<<>>) = 0
  BY <1>1, <1>2, SumSeqType
<1>4. QED
  BY <1>1, <1>3 DEF Sum, SumSquares, sq

\* The spread of a window is never negative.
LEMMA SpreadType ==
    ASSUME NEW w \in Seq(Int)
    PROVE  Spread(w) \in Nat
<1> DEFINE Bad == {n \in Nat : \E u \in Seq(Int) : Len(u) = n /\ Spread(u) \notin Nat}
<1>1. \A u \in Seq(Int) : Spread(u) \in Int
  <2>1. ASSUME NEW u \in Seq(Int) PROVE Spread(u) \in Int
    <3>1. Len(u) \in Int /\ SumSquares(u) \in Int /\ Sum(u) \in Int
      BY WindowSums
    <3>2. QED
      BY <3>1 DEF Spread, Square
  <2>2. QED
    BY <2>1
<1>2. Bad = {}
  <2>1. SUFFICES ASSUME Bad # {} PROVE FALSE
    OBVIOUS
  <2>2. PICK n \in Bad : \A k \in Bad : n <= k
    <3>1. Bad \in SUBSET Nat
      OBVIOUS
    <3>2. QED
      BY <2>1, <3>1, LeastNumber
  <2>3. PICK u \in Seq(Int) : Len(u) = n /\ Spread(u) \notin Nat
    BY <2>2
  <2>4. u # <<>>
    <3>1. SUFFICES ASSUME u = <<>> PROVE Spread(u) = 0
      BY <2>3
    <3>2. Sum(u) = 0 /\ SumSquares(u) = 0 /\ Len(u) = 0
      BY <3>1, EmptyWindow
    <3>3. QED
      BY <3>2 DEF Spread, Square
  <2>5. PICK v \in Seq(Int), x \in Int : u = Append(v, x)
    BY <2>4, SequenceEmptyOrAppend
  <2> DEFINE m == Len(v)
             s == Sum(v)
             t == SumSquares(v)
  <2>6. /\ m \in Nat /\ s \in Int /\ t \in Int
        /\ Len(u) = m + 1 /\ Sum(u) = s + x /\ SumSquares(u) = t + x * x
    BY <2>5, WindowSums
  <2>7. Spread(v) \in Nat
    <3>1. n \in Nat /\ ~ n <= m
      BY <2>2, <2>3, <2>6
    <3>2. m \notin Bad
      BY <2>2, <3>1
    <3>3. QED
      BY <2>6, <3>2
  <2>8. Spread(v) = m * t - s * s /\ Spread(u) = (m + 1) * (t + x * x) - (s + x) * (s + x)
    BY <2>6 DEF Spread, Square
  <2>9. CASE m = 0
    <3>1. v = <<>>
      BY <2>9, EmptySeq
    <3>2. s = 0 /\ t = 0
      BY <3>1, EmptyWindow
    <3> HIDE DEF m, s, t
    <3>3. Spread(u) = 0
      BY <2>8, <2>9, <3>2
    <3>4. QED
      BY <2>3, <3>3
  <2>10. CASE m # 0
    <3> DEFINE d == (m + 1) * x - (s + x)
    <3> HIDE DEF m, s, t
    <3>1. m * Spread(u) = d * d + (m + 1) * Spread(v)
      BY <2>6, <2>8, OneMoreNumber
    <3>2. d \in Int
      BY <2>6
    <3> HIDE DEF d
    <3>3. d * d \in Nat /\ (m + 1) * Spread(v) \in Nat
      <4>1. d * d \in Nat
        BY <3>2, SquareType DEF Square
      <4>2. m + 1 \in Nat
        BY <2>6
      <4>3. QED
        BY <2>7, <4>1, <4>2, ProductType
    <3>4. m * Spread(u) \in Nat
      BY <3>1, <3>3
    <3>5. Spread(u) \in Nat
      BY <1>1, <2>6, <2>10, <3>4, FactorSign
    <3>6. QED
      BY <2>3, <3>5
  <2>11. QED
    BY <2>9, <2>10
<1>3. Len(w) \in Nat
  BY LenProperties
<1>4. QED
  BY <1>2, <1>3

\* However far the last price jumps, it is no more than the root of n - 1
\* deviations off the mean of the window that holds it.
LEMMA LastIsNear ==
    ASSUME NEW w \in Seq(Int), NEW x \in Int, NEW z \in Nat, Square(z) >= Len(w)
    PROVE  ~ Above(Append(w, x), x, z) /\ ~ Below(Append(w, x), x, z)
<1> DEFINE m == Len(w)
           s == Sum(w)
           t == SumSquares(w)
           a == Append(w, x)
           d == (m + 1) * x - (s + x)
<1>1. /\ m \in Nat /\ s \in Int /\ t \in Int
      /\ Len(a) = m + 1 /\ Sum(a) = s + x /\ SumSquares(a) = t + x * x
  BY WindowSums
<1>2. a \in Seq(Int)
  BY AppendProperties
<1>3. Spread(w) \in Nat /\ Spread(a) \in Nat
  BY <1>2, SpreadType
<1>4. /\ Spread(w) = m * t - s * s /\ Spread(a) = (m + 1) * (t + x * x) - (s + x) * (s + x)
      /\ Deviation(a, x) = d
  BY <1>1 DEF Spread, Square, Deviation
<1>5. Square(z) \in Nat
  BY SquareType
<1>6. Square(z) - m \in Nat
  BY <1>1, <1>5
<1> HIDE DEF m, s, t, a, d
<1>7. m * Spread(a) = d * d + (m + 1) * Spread(w)
  BY <1>1, <1>4, OneMoreNumber DEF d
<1>8. d \in Int /\ d * d \in Int
  BY <1>1 DEF d
<1>9. (m + 1) * Spread(w) \in Nat
  BY <1>1, <1>3, ProductType
<1>10. d * d <= m * Spread(a)
  BY <1>7, <1>8, <1>9
<1>11. (Square(z) - m) * Spread(a) \in Nat
  BY <1>3, <1>6, ProductType
<1>12. Square(z) * Spread(a) = m * Spread(a) + (Square(z) - m) * Spread(a)
  BY <1>1, <1>3, <1>5
<1>13. d * d <= Square(z) * Spread(a)
  <2>1. m * Spread(a) \in Int
    BY <1>1, <1>3
  <2> HIDE DEF Square
  <2>2. QED
    BY <1>8, <1>10, <1>11, <1>12, <2>1
<1>14. QED
  BY <1>4, <1>8, <1>13, <1>1, <1>3, <1>5 DEF Above, Below, Square, a

\* A bounded deque that gets one more price: the price is its last (strategy.py:282).
LEMMA Pushed ==
    ASSUME NEW M \in SUBSET Int, NEW w \in Seq(M), NEW x \in M, Len(w) <= Lookback
    PROVE  \E v \in Seq(M) : Push(w, x) = Append(v, x) /\ Len(v) + 1 <= Lookback
<1>1. Len(w) \in Nat /\ Lookback \in Nat \ {0} /\ Len(Append(w, x)) = Len(w) + 1
  BY AppendProperties, LenProperties, SignalsAssumption
<1>2. CASE Len(w) + 1 <= Lookback
  <2>1. Push(w, x) = Append(w, x)
    BY <1>1, <1>2 DEF Push
  <2>2. QED
    BY <1>2, <2>1
<1>3. CASE Len(w) = Lookback
  <2>1. w # <<>>
    BY <1>1, <1>3, EmptySeq
  <2>2. Tail(w) \in Seq(M) /\ Len(Tail(w)) = Len(w) - 1
    BY <2>1, HeadTailProperties
  <2>3. Tail(Append(w, x)) = Append(Tail(w), x)
    BY <2>1, HeadTailAppend
  <2>4. Push(w, x) = Append(Tail(w), x)
    BY <1>1, <1>3, <2>3 DEF Push
  <2>5. Len(Tail(w)) + 1 <= Lookback
    BY <1>1, <1>3, <2>2
  <2>6. QED
    BY <2>2, <2>4, <2>5
<1>4. QED
  BY <1>1, <1>2, <1>3

\* The three strategies there are, started as they are.
Strategies ==
    node \in {[kind |-> "mean reversion", z |-> Buyer],
              [kind |-> "mean reversion", z |-> Seller], [kind |-> Classifier]}

SignalsInv == SignalsTypeOK /\ Strategies /\ OneSided

LEMMA StrategyKinds ==
    ASSUME Strategies
    PROVE  node.kind = Classifier \/ node.z = Buyer \/ node.z = Seller
<1>1. CASE node = [kind |-> "mean reversion", z |-> Buyer]
  BY <1>1
<1>2. CASE node = [kind |-> "mean reversion", z |-> Seller]
  BY <1>2
<1>3. CASE node = [kind |-> Classifier]
  BY <1>3
<1>4. QED
  BY <1>1, <1>2, <1>3 DEF Strategies

LEMMA SignalsInitInv == SignalsInit => SignalsInv
<1> SUFFICES ASSUME SignalsInit PROVE SignalsInv
  OBVIOUS
<1>1. SignalsTypeOK
  <2>1. <<>> \in Seq(Mids) /\ Len(<<>>) <= Lookback
    BY SignalsAssumption, EmptySeq
  <2>2. ready \in BOOLEAN
    BY DEF SignalsInit
  <2>3. window \in [Symbol -> Seq(Mids)] /\ \A s \in Symbol : Len(window[s]) <= Lookback
    BY <2>1 DEF SignalsInit
  <2>4. order \in [side : {"none", "BUY", "SELL"}, qty : Nat, price : Prices \cup {0}]
    BY DEF SignalsInit, NoOrder
  <2>5. traded = {}
    BY DEF SignalsInit
  <2>6. QED
    BY <2>2, <2>3, <2>4, <2>5 DEF SignalsTypeOK
<1>2. Strategies /\ traded = {}
  BY DEF SignalsInit, Strategies
<1>3. OneSided
  BY <1>2, StrategyKinds DEF OneSided
<1>4. QED
  BY <1>1, <1>2, <1>3 DEF SignalsInv

\* What a tick makes of a window, whatever the strategy.
LEMMA TickedWindow ==
    ASSUME SignalsTypeOK, NEW s \in Symbol, NEW bid \in Prices, NEW ask \in Prices
    PROVE  /\ bid + ask \in Mids
           /\ \E v \in Seq(Int) : /\ Push(window[s], bid + ask) = Append(v, bid + ask)
                                  /\ Len(v) + 1 <= Lookback
           /\ Push(window[s], bid + ask) \in Seq(Mids)
           /\ Len(Push(window[s], bid + ask)) <= Lookback
<1> DEFINE x == bid + ask
<1>1. Mids \in SUBSET Int /\ x \in Mids
  BY SignalsAssumption DEF Mids
<1>2. window[s] \in Seq(Mids) /\ Len(window[s]) <= Lookback
  BY DEF SignalsTypeOK
<1> HIDE DEF x
<1>3. PICK v \in Seq(Mids) : Push(window[s], x) = Append(v, x) /\ Len(v) + 1 <= Lookback
  BY <1>1, <1>2, Pushed
<1>4. /\ v \in Seq(Int) /\ Append(v, x) \in Seq(Mids) /\ Len(Append(v, x)) = Len(v) + 1
  <2>1. v \in Seq(Int)
    <3>1. Len(v) \in Nat /\ \A k \in 1..Len(v) : v[k] \in Int
      BY <1>1, LenProperties
    <3>2. v \in [1..Len(v) -> Int]
      BY <3>1, LenProperties
    <3>3. QED
      BY <3>1, <3>2, IsASeq
  <2>2. QED
    BY <1>1, <2>1, AppendProperties
<1>5. QED
  BY <1>1, <1>3, <1>4 DEF x

\* A threshold beyond the root of Lookback - 1 keeps its side out of a full window.
LEMMA FarThreshold ==
    ASSUME SignalsTypeOK, NEW s \in Symbol, NEW bid \in Prices, NEW ask \in Prices,
           NEW z \in Nat, Square(z) >= Lookback - 1
    PROVE  LET w == Push(window[s], bid + ask)
           IN  ~ Above(w, bid + ask, z) /\ ~ Below(w, bid + ask, z)
<1> DEFINE x == bid + ask
<1>1. x \in Int
  BY SignalsAssumption
<1> HIDE DEF x
<1>2. PICK v \in Seq(Int) : Push(window[s], x) = Append(v, x) /\ Len(v) + 1 <= Lookback
  BY TickedWindow DEF x
<1>3. Square(z) >= Len(v)
  <2>1. Len(v) \in Nat /\ Lookback \in Nat /\ Square(z) \in Nat
    BY LenProperties, SquareType, SignalsAssumption
  <2>2. QED
    BY <1>2, <2>1
<1>4. ~ Above(Append(v, x), x, z) /\ ~ Below(Append(v, x), x, z)
  BY <1>1, <1>3, LastIsNear
<1>5. QED
  BY <1>2, <1>4 DEF x

LEMMA MeanReversionTickInv ==
    ASSUME SignalsInv, NEW s \in Symbol, NEW bid \in Prices, NEW ask \in Prices,
           MeanReversionTick(s, bid, ask)
    PROVE  SignalsInv'
<1> DEFINE x == bid + ask
           w == Push(window[s], x)
<1>1. /\ node.kind # Classifier /\ node' = node /\ ready' = ready
      /\ window' = [window EXCEPT ![s] = w]
      /\ traded' = traded \cup ({order'.side} \ {"none"})
      /\ \/ order' = NoOrder
         \/ order' = [side |-> "BUY", qty |-> 1, price |-> ask] /\ Below(w, x, node.z.buy)
         \/ order' = [side |-> "SELL", qty |-> 1, price |-> bid] /\ Above(w, x, node.z.sell)
  BY DEF MeanReversionTick, Judged, Buys, Sells
<1>2. w \in Seq(Mids) /\ Len(w) <= Lookback
  BY TickedWindow DEF SignalsInv
<1>3. Square(ZOut) >= Lookback - 1 => ~ Above(w, x, ZOut) /\ ~ Below(w, x, ZOut)
  BY FarThreshold, SignalsAssumption DEF SignalsInv
<1> HIDE DEF x, w
<1>4. /\ node.z \in {Buyer, Seller}
  BY <1>1, StrategyKinds DEF SignalsInv
<1>5. SignalsTypeOK'
  <2>1. window' \in [Symbol -> Seq(Mids)] /\ \A t \in Symbol : Len(window'[t]) <= Lookback
    BY <1>1, <1>2 DEF SignalsInv, SignalsTypeOK
  <2>2. order' \in [side : {"none", "BUY", "SELL"}, qty : Nat, price : Prices \cup {0}]
    BY <1>1 DEF NoOrder
  <2>3. traded' \subseteq {"BUY", "SELL"}
    <3>1. order'.side \in {"none", "BUY", "SELL"}
      BY <2>2
    <3>2. QED
      BY <1>1, <3>1 DEF SignalsInv, SignalsTypeOK
  <2>4. QED
    BY <1>1, <2>1, <2>2, <2>3 DEF SignalsInv, SignalsTypeOK
<1>6. OneSided'
  <2>1. SUFFICES ASSUME Square(ZOut) >= Lookback - 1
                 PROVE  \/ node.z = Buyer /\ "SELL" \notin traded'
                        \/ node.z = Seller /\ "BUY" \notin traded'
    BY <1>1 DEF OneSided
  <2>2. CASE node.z = Buyer /\ "SELL" \notin traded
    <3>1. node.z.sell = ZOut
      BY <2>2 DEF Buyer
    <3>2. order'.side # "SELL"
      BY <1>1, <1>3, <2>1, <3>1 DEF NoOrder
    <3>3. QED
      BY <1>1, <2>2, <3>2
  <2>3. CASE node.z = Seller /\ "BUY" \notin traded
    <3>1. node.z.buy = ZOut
      BY <2>3 DEF Seller
    <3>2. order'.side # "BUY"
      BY <1>1, <1>3, <2>1, <3>1 DEF NoOrder
    <3>3. QED
      BY <1>1, <2>3, <3>2
  <2>4. QED
    BY <1>1, <2>1, <2>2, <2>3 DEF SignalsInv, OneSided
<1>7. QED
  BY <1>1, <1>5, <1>6 DEF SignalsInv, Strategies

LEMMA ClassifierTickInv ==
    ASSUME SignalsInv, NEW s \in Symbol, NEW bid \in Prices, NEW ask \in Prices,
           ClassifierTick(s, bid, ask)
    PROVE  SignalsInv'
<1> DEFINE w == Push(window[s], bid + ask)
<1>1. \A p \in {0, 100 - Threshold, 101 - Threshold, 50, Threshold - 1, Threshold, 100} :
          Quantities(p) \subseteq Nat /\ Quantities(100 - p) \subseteq Nat
  <2>1. ASSUME NEW p \in Int PROVE Quantities(p) \subseteq Nat
    <3>1. BaseQty * (p - 50) * 2 \in Int
      BY SignalsAssumption
    <3>2. QED
      BY <3>1 DEF Quantities
  <2>2. \A p \in {0, 100 - Threshold, 101 - Threshold, 50, Threshold - 1, Threshold, 100} :
           p \in Int /\ 100 - p \in Int
    BY SignalsAssumption
  <2>3. QED
    BY <2>1, <2>2
<1>2. /\ node.kind = Classifier /\ node' = node /\ ready' = ready
      /\ window' = [window EXCEPT ![s] = w]
      /\ traded' = traded \cup ({order'.side} \ {"none"})
      /\ \/ order' = NoOrder
         \/ \E q \in Nat : order' = [side |-> "BUY", qty |-> q, price |-> ask]
         \/ \E q \in Nat : order' = [side |-> "SELL", qty |-> q, price |-> bid]
  BY <1>1 DEF ClassifierTick, Buys, Sells
<1>3. w \in Seq(Mids) /\ Len(w) <= Lookback
  BY TickedWindow DEF SignalsInv
<1> HIDE DEF w
<1>4. window' \in [Symbol -> Seq(Mids)] /\ \A t \in Symbol : Len(window'[t]) <= Lookback
  BY <1>2, <1>3 DEF SignalsInv, SignalsTypeOK
<1>5. order' \in [side : {"none", "BUY", "SELL"}, qty : Nat, price : Prices \cup {0}]
  BY <1>2 DEF NoOrder
<1>6. traded' \subseteq {"BUY", "SELL"}
  <2>1. order'.side \in {"none", "BUY", "SELL"}
    BY <1>5
  <2>2. QED
    BY <1>2, <2>1 DEF SignalsInv, SignalsTypeOK
<1>7. QED
  BY <1>2, <1>4, <1>5, <1>6 DEF SignalsInv, SignalsTypeOK, Strategies, OneSided

LEMMA SignalsStepInv == SignalsInv /\ [SignalsNext]_signalsVars => SignalsInv'
<1> SUFFICES ASSUME SignalsInv, [SignalsNext]_signalsVars PROVE SignalsInv'
  OBVIOUS
<1>1. CASE OnStart
  BY <1>1 DEF OnStart, SignalsInv, SignalsTypeOK, Strategies, OneSided
<1>2. ASSUME NEW s \in Symbol, NEW bid \in Prices, NEW ask \in Prices,
             MeanReversionTick(s, bid, ask) \/ ClassifierTick(s, bid, ask)
      PROVE  SignalsInv'
  BY <1>2, MeanReversionTickInv, ClassifierTickInv
<1>3. CASE UNCHANGED signalsVars
  BY <1>3 DEF signalsVars, SignalsInv, SignalsTypeOK, Strategies, OneSided
<1>4. QED
  BY <1>1, <1>2, <1>3 DEF SignalsNext

\* The strategies of the pipeline are well typed, and a pure buyer never sells and
\* a pure seller never buys, for any prices, window and threshold (strategy.py:279-307,
\* start_pipeline.py:24-30).
THEOREM SignalsInvariant == SignalsSpec => []SignalsInv
<1>1. QED
  BY SignalsInitInv, SignalsStepInv, PTL DEF SignalsSpec

\* The threshold that keeps the other side out does, whatever the prices do.
THEOREM StaysOneSided == SignalsSpec => []OneSided
<1>1. SignalsInv => OneSided
  BY DEF SignalsInv
<1>2. QED
  BY <1>1, SignalsInvariant, PTL

-----------------------------------------------------------------------------
(***************************************************************************)
(* Theorems about Candles.  Rows that begin S are some of its candles, in  *)
(* order and each once, that leave none out before one they have.          *)
(***************************************************************************)
Begins(q, S) ==
    /\ q \in Seq(Market) /\ Ascending(q) /\ Range(q) \subseteq S
    /\ \A c \in S, x \in Range(q) : c < x => c \in Range(q)

CandlesFrom(first) == {c \in Market : c >= first}

LEMMA MarketFinite ==
    ASSUME NEW S \in SUBSET Market
    PROVE  IsFiniteSet(S) /\ S \in SUBSET Nat
  BY CandlesAssumption, FS_Subset

LEMMA SeqOfCandles ==
    ASSUME NEW q \in Seq(Market)
    PROVE  /\ q \in Seq(Nat) /\ Range(q) \subseteq Market
           /\ Len(q) \in Nat /\ DOMAIN q = 1..Len(q)
           /\ \A k \in 1..Len(q) : q[k] \in Market /\ q[k] \in Nat /\ q[k] \in Range(q)
<1>1. /\ Len(q) \in Nat /\ DOMAIN q = 1..Len(q)
      /\ \A k \in 1..Len(q) : q[k] \in Market
  BY LenProperties
<1>2. \A c \in Market : c \in Nat
  BY CandlesAssumption
<1>3. q \in [1..Len(q) -> Nat]
  BY <1>1, <1>2, LenProperties
<1>4. q \in Seq(Nat)
  BY <1>1, <1>3, IsASeq
<1>5. QED
  BY <1>1, <1>2, <1>4 DEF Range

LEMMA NothingBegins ==
    ASSUME NEW S
    PROVE  Begins(<<>>, S)
<1>1. <<>> \in Seq(Market) /\ DOMAIN <<>> = {}
  OBVIOUS
<1>2. Range(<<>>) = {}
  BY <1>1 DEF Range
<1>3. Ascending(<<>>)
  BY <1>1 DEF Ascending
<1>4. QED
  BY <1>1, <1>2, <1>3 DEF Begins

\* A page begins what the exchange has from its first minute on.
LEMMA PageBegins ==
    ASSUME NEW first \in Nat
    PROVE  Begins(Page(first), CandlesFrom(first))
<1> DEFINE upto(c) == {d \in Market : d >= first /\ d <= c}
           P == {c \in Market : c >= first /\ Cardinality(upto(c)) <= PageSize}
<1>1. P \in SUBSET Market /\ \A c \in Market : upto(c) \in SUBSET Market
  OBVIOUS
<1>2. IsFiniteSet(P) /\ P \in SUBSET Nat
  BY <1>1, MarketFinite
<1>3. InOrder(P) \in Seq(P) /\ Range(InOrder(P)) = P /\ Ascending(InOrder(P))
  <2> HIDE DEF P
  <2>1. QED
    BY <1>2, InOrderLists DEF Ascending
<1>4. Page(first) = InOrder(P)
  BY DEF Page
<1>5. ASSUME NEW c \in Market, NEW x \in P, c >= first, c < x
      PROVE  c \in P
  <2>1. upto(c) \subseteq upto(x)
    <3>1. c \in Nat /\ x \in Nat /\ \A d \in Market : d \in Nat
      BY CandlesAssumption
    <3>2. \A d \in Market : d <= c => d <= x
      BY <1>5, <3>1
    <3>3. QED
      BY <3>2
  <2>2. IsFiniteSet(upto(x)) /\ IsFiniteSet(upto(c))
    BY <1>1, MarketFinite
  <2>3. Cardinality(upto(c)) <= Cardinality(upto(x))
    BY <2>1, <2>2, FS_Subset
  <2>4. Cardinality(upto(c)) \in Nat /\ Cardinality(upto(x)) \in Nat /\ PageSize \in Nat
    BY <2>2, FS_CardinalityType, CandlesAssumption
  <2>5. Cardinality(upto(x)) <= PageSize
    OBVIOUS
  <2> HIDE DEF upto
  <2>6. Cardinality(upto(c)) <= PageSize
    BY <2>3, <2>4, <2>5
  <2>7. QED
    BY <1>5, <2>6
<1>6. InOrder(P) \in Seq(Market)
  <2> DEFINE o == InOrder(P)
  <2>1. Len(o) \in Nat /\ o \in [1..Len(o) -> P]
    BY <1>3, LenProperties
  <2> HIDE DEF o
  <2>2. o \in [1..Len(o) -> Market]
    BY <1>1, <2>1
  <2>3. QED
    BY <2>1, <2>2, IsASeq DEF o
<1>7. P \subseteq CandlesFrom(first) /\ \A c \in CandlesFrom(first), x \in P : c < x => c \in P
  BY <1>5 DEF CandlesFrom
<1> HIDE DEF P
<1>8. QED
  BY <1>3, <1>4, <1>6, <1>7 DEF Begins

\* The rows that are not beyond the end are those, in their order.
LEMMA UpToKeeps ==
    ASSUME NEW q \in Seq(Market), Ascending(q), NEW last \in Nat
    PROVE  /\ UpTo(last, q) \in Seq(Market) /\ Ascending(UpTo(last, q))
           /\ Range(UpTo(last, q)) = {c \in Range(q) : c <= last}
<1> DEFINE K == {k \in DOMAIN q : q[k] <= last}
           kept == InOrder(K)
           u == [j \in DOMAIN kept |-> q[kept[j]]]
<1>1. /\ Len(q) \in Nat /\ DOMAIN q = 1..Len(q)
      /\ \A k \in 1..Len(q) : q[k] \in Market
  BY SeqOfCandles
<1>2. K \in SUBSET Nat /\ IsFiniteSet(K)
  <2>1. IsFiniteSet(1..Len(q)) /\ K \in SUBSET (1..Len(q))
    BY <1>1, CountUpTo
  <2>2. QED
    BY <1>1, <2>1, FS_Subset
<1>3. \A k : k \in K <=> k \in 1..Len(q) /\ q[k] <= last
  BY <1>1
<1> HIDE DEF K
<1>4. kept \in Seq(K) /\ Range(kept) = K /\ Ascending(kept)
  BY <1>2, InOrderLists DEF Ascending
<1>5. /\ Len(kept) \in Nat /\ DOMAIN kept = 1..Len(kept)
      /\ \A j \in 1..Len(kept) : kept[j] \in K
  BY <1>4, LenProperties
<1> HIDE DEF kept
<1>6. u \in [1..Len(kept) -> Market] /\ DOMAIN u = 1..Len(kept)
  BY <1>1, <1>3, <1>5
<1>7. u \in Seq(Market)
  BY <1>5, <1>6, IsASeq
<1>8. ASSUME NEW i \in 1..Len(kept), NEW j \in 1..Len(kept), i < j
      PROVE  u[i] < u[j]
  <2>1. kept[i] < kept[j] /\ kept[i] \in 1..Len(q) /\ kept[j] \in 1..Len(q)
    BY <1>3, <1>4, <1>5, <1>8 DEF Ascending
  <2>2. q[kept[i]] < q[kept[j]]
    BY <1>1, <2>1 DEF Ascending
  <2>3. QED
    BY <1>5, <2>2
<1>9. Range(u) = {c \in Range(q) : c <= last}
  <2>1. ASSUME NEW j \in 1..Len(kept)
        PROVE  u[j] \in Range(q) /\ u[j] <= last
    <3>1. u[j] = q[kept[j]] /\ kept[j] \in 1..Len(q) /\ q[kept[j]] <= last
      BY <1>3, <1>5
    <3> HIDE DEF u
    <3>2. QED
      BY <1>1, <3>1 DEF Range
  <2>2. ASSUME NEW c \in Range(q), c <= last
        PROVE  \E j \in 1..Len(kept) : u[j] = c
    <3>1. PICK k \in 1..Len(q) : q[k] = c
      BY <1>1 DEF Range
    <3>2. k \in Range(kept)
      BY <1>3, <1>4, <2>2, <3>1
    <3>3. PICK j \in 1..Len(kept) : kept[j] = k
      BY <1>5, <3>2 DEF Range
    <3>4. u[j] = c
      BY <1>5, <3>1, <3>3
    <3>5. QED
      BY <3>4
  <2> HIDE DEF u
  <2>3. QED
    BY <1>6, <2>1, <2>2 DEF Range
<1>10. UpTo(last, q) = u
  BY DEF UpTo, u, kept, K
<1>11. Ascending(u)
  <2> HIDE DEF u
  <2>1. QED
    BY <1>6, <1>8 DEF Ascending
<1>12. QED
  BY <1>7, <1>9, <1>10, <1>11

\* Rows written in part begin what the rows begin.
LEMMA PartBegins ==
    ASSUME NEW q, NEW S, Begins(q, S), NEW n \in 0..Len(q)
    PROVE  Begins(SubSeq(q, 1, n), S)
<1> DEFINE p == SubSeq(q, 1, n)
<1>1. /\ Len(q) \in Nat /\ DOMAIN q = 1..Len(q)
      /\ \A k \in 1..Len(q) : q[k] \in Market /\ q[k] \in Nat /\ q[k] \in Range(q)
  BY SeqOfCandles DEF Begins
<1>2. n \in Nat /\ n <= Len(q)
  BY <1>1
<1>3. /\ p \in Seq(Market) /\ Len(p) = n
      /\ \A k \in 1..n : p[k] = q[k]
  <2>1. /\ 1 \in Int /\ n \in Int /\ n - 1 + 1 = n
        /\ \A k \in 1..n : 1 + k - 1 = k
        /\ (IF 1 <= n THEN n - 1 + 1 ELSE 0) = n
        /\ \A k \in 1..n : q[k] \in Market
    BY <1>1, <1>2
  <2>2. QED
    BY <2>1, SubSeqProperties
<1>4. DOMAIN p = 1..n
  BY <1>3, LenProperties
<1> HIDE DEF p
<1>5. Ascending(p)
  BY <1>1, <1>2, <1>3, <1>4 DEF Begins, Ascending
<1>6. Range(p) \subseteq S
  BY <1>1, <1>2, <1>3, <1>4 DEF Begins, Range
<1>7. ASSUME NEW c \in S, NEW x \in Range(p), c < x
      PROVE  c \in Range(p)
  <2>1. PICK k \in 1..n : p[k] = x
    BY <1>4 DEF Range
  <2>2. k \in 1..Len(q) /\ q[k] = x /\ x \in Range(q) /\ x \in Nat
    BY <1>1, <1>2, <1>3, <2>1
  <2>3. c \in Range(q)
    BY <1>7, <2>2 DEF Begins
  <2>4. PICK j \in 1..Len(q) : q[j] = c
    BY <1>1, <2>3 DEF Range
  <2>5. c \in Nat /\ ~ k < j
    <3>1. k < j => x < c
      BY <1>1, <2>2, <2>4 DEF Begins, Ascending
    <3>2. c \in Nat
      BY <1>1, <2>4
    <3>3. QED
      BY <1>7, <2>2, <3>1, <3>2
  <2>6. j \in 1..n
    BY <1>1, <1>2, <2>2, <2>4, <2>5
  <2>7. QED
    BY <1>3, <1>4, <2>4, <2>6 DEF Range
<1>8. QED
  BY <1>3, <1>5, <1>6, <1>7 DEF Begins, p

-----------------------------------------------------------------------------
Idle == \A s \in Script : at[s] = "idle" => since[s] = From[s] /\ got[s] = <<>>

\* What a download has asked for: all candles before the next page's first.
Pages(first, till) == {c \in Market : c >= first /\ c < till}

Paged ==
    \A s \in Script : at[s] = "page" =>
        /\ since[s] >= From[s] /\ Ascending(got[s])
        /\ Range(got[s]) = Pages(From[s], since[s])

Downloaded == \A s \in Script : at[s] \in {"write", "rows"} => Begins(got[s], Asked(s))
Filed == \A s \in Script : Begins(csv[s].rows, Asked(s))
OwnSource ==
    at["train"] \in {"page", "write", "rows", "load", "fallback"} => source = "train"
Training ==
    at["train"] \in {"features", "meta"} /\ source \in Script =>
        Begins(got["train"], Asked(source))
Trained == model.source \in Script => Begins(model.rows, Asked(model.source))

CandlesInv ==
    /\ CandlesTypeOK /\ Idle /\ Paged /\ Downloaded /\ Filed
    /\ OwnSource /\ Training /\ Trained

LEMMA CandleRange ==
    /\ From \in [Script -> Nat] /\ Until \in [Script -> Nat]
    /\ PageSize \in Nat /\ PageSize > 0 /\ Enough \in Nat
    /\ Market \subseteq Nat
    /\ {} \subseteq Market /\ <<>> \in Seq(Market)
  BY CandlesAssumption

LEMMA CandlesInitInv == CandlesInit => CandlesInv
<1> SUFFICES ASSUME CandlesInit PROVE CandlesInv
  OBVIOUS
<1>1. CandlesTypeOK
  BY CandleRange DEF CandlesInit, CandlesTypeOK, NoFile, Nothing
<1>2. Idle /\ Paged /\ Downloaded /\ OwnSource /\ Training
  BY DEF CandlesInit, Idle, Paged, Downloaded, OwnSource, Training, Script
<1>3. Filed
  BY NothingBegins DEF CandlesInit, Filed, NoFile
<1>4. Trained
  BY DEF CandlesInit, Trained, Nothing, Script
<1>5. QED
  BY <1>1, <1>2, <1>3, <1>4 DEF CandlesInv

\* A page more.
LEMMA PageAdded ==
    ASSUME NEW q \in Seq(Market), NEW first \in Nat, NEW till \in Nat, till >= first,
           Ascending(q), Range(q) = Pages(first, till)
    PROVE  LET all == q \o Page(till)
           IN  /\ all \in Seq(Market) /\ Ascending(all)
               /\ Begins(all, CandlesFrom(first))
               /\ Page(till) # <<>> =>
                    /\ Last(Page(till)) \in Nat /\ Last(Page(till)) >= till
                    /\ Range(all) = Pages(first, Last(Page(till)) + 1)
<1> DEFINE b == Page(till)
           all == q \o b
<1>1. /\ b \in Seq(Market) /\ Ascending(b) /\ Range(b) \subseteq CandlesFrom(till)
      /\ \A c \in CandlesFrom(till), x \in Range(b) : c < x => c \in Range(b)
  BY PageBegins DEF Begins
<1> HIDE DEF b
<1>2. \A c \in Market : c \in Nat
  BY CandleRange
<1>3. \A x \in Range(q), y \in Range(b) : x < y
  BY <1>1, <1>2 DEF Pages, CandlesFrom
<1>4. all \in Seq(Market) /\ Ascending(all)
  <2>1. all \in Seq(Market)
    BY <1>1, ConcatProperties
  <2>2. QED
    BY <1>1, <1>3, <2>1, AscendingConcat
<1>5. Range(all) = Range(q) \cup Range(b)
  BY <1>1, RangeConcatenation
<1> HIDE DEF all
<1>6. Begins(all, CandlesFrom(first))
  <2>1. Range(all) \subseteq CandlesFrom(first)
    BY <1>1, <1>2, <1>5 DEF Pages, CandlesFrom
  <2>2. ASSUME NEW c \in CandlesFrom(first), NEW x \in Range(all), c < x
        PROVE  c \in Range(all)
    <3>1. c \in Market /\ c >= first /\ c \in Nat /\ x \in Nat
      BY <1>2, <2>1 DEF CandlesFrom
    <3>2. CASE c < till
      BY <1>5, <3>1, <3>2 DEF Pages
    <3>3. CASE c >= till
      <4>1. x \in Range(b)
        BY <1>5, <2>2, <3>1, <3>3 DEF Pages
      <4>2. QED
        BY <1>1, <1>5, <2>2, <3>1, <3>3, <4>1 DEF CandlesFrom
    <3>4. QED
      BY <3>1, <3>2, <3>3
  <2>3. QED
    BY <1>4, <2>1, <2>2 DEF Begins
<1>7. ASSUME b # <<>>
      PROVE  /\ Last(b) \in Nat /\ Last(b) >= till
             /\ Range(all) = Pages(first, Last(b) + 1)
  <2>1. Last(b) \in Range(b) /\ \A x \in Range(b) : x <= Last(b)
    <3>1. Market \in SUBSET Nat
      BY CandleRange
    <3>2. QED
      BY <1>1, <1>7, <3>1, GreatestIsLast
  <2>2. Last(b) \in Market /\ Last(b) \in Nat /\ Last(b) >= till
    BY <1>1, <1>2, <2>1 DEF CandlesFrom
  <2>3. ASSUME NEW c \in Market
        PROVE  c \in Range(all) <=> c >= first /\ c < Last(b) + 1
    <3>1. CASE c < till
      BY <1>1, <1>2, <1>5, <2>2, <3>1 DEF Pages, CandlesFrom
    <3>2. CASE c >= till
      <4>1. c \notin Range(q)
        BY <1>2, <3>2 DEF Pages
      <4>2. c \in Range(b) => c <= Last(b)
        BY <2>1
      <4>3. c <= Last(b) => c \in Range(b)
        <5>1. c < Last(b) => c \in Range(b)
          BY <1>1, <2>1, <3>2 DEF CandlesFrom
        <5>2. c = Last(b) => c \in Range(b)
          BY <2>1
        <5>3. QED
          BY <1>2, <2>2, <5>1, <5>2
      <4>4. QED
        BY <1>2, <1>5, <2>2, <3>2, <4>1, <4>2, <4>3
    <3>3. QED
      BY <1>2, <3>1, <3>2
  <2>4. Range(all) \subseteq Market
    BY <1>1, <1>5 DEF Pages, CandlesFrom
  <2>5. QED
    BY <2>2, <2>3, <2>4 DEF Pages
<1>8. QED
  BY <1>4, <1>6, <1>7 DEF all, b

\* What is beyond the end left out.
LEMMA KeptOfRange ==
    ASSUME NEW s \in Script, NEW q, Begins(q, CandlesFrom(From[s]))
    PROVE  Begins(UpTo(Until[s], q), Asked(s))
<1>1. q \in Seq(Market) /\ Ascending(q) /\ Until[s] \in Nat /\ From[s] \in Nat
  BY CandleRange DEF Begins
<1> DEFINE u == UpTo(Until[s], q)
<1>2. /\ u \in Seq(Market) /\ Ascending(u)
      /\ Range(u) = {c \in Range(q) : c <= Until[s]}
  BY <1>1, UpToKeeps
<1> HIDE DEF u
<1>3. Range(q) \subseteq Market /\ \A c \in Market : c \in Nat
  BY CandleRange DEF Begins, CandlesFrom
<1>4. Range(u) \subseteq Asked(s)
  BY <1>2, <1>3 DEF Begins, CandlesFrom, Asked
<1>5. \A c \in Asked(s), x \in Range(u) : c < x => c \in Range(u)
  BY <1>1, <1>2, <1>3 DEF Begins, CandlesFrom, Asked
<1>6. QED
  BY <1>2, <1>4, <1>5 DEF Begins, u

\* One more page: a longer beginning of the range, or, with what lies beyond the
\* end left out, the download.
LEMMA AskPageKeeps ==
    ASSUME CandlesInv, NEW s \in Script, AskPage(s) PROVE CandlesInv'
<1>1. /\ at[s] = "page" /\ since[s] \in Nat /\ since[s] >= From[s] /\ From[s] \in Nat
      /\ got[s] \in Seq(Market) /\ Ascending(got[s])
      /\ Range(got[s]) = Pages(From[s], since[s])
  BY CandleRange DEF AskPage, CandlesInv, CandlesTypeOK, Paged
<1>2. PICK batch \in {<<>>, Page(since[s])} :
          LET all == got[s] \o batch
              done == batch = <<>> \/ Last(batch) >= Until[s] \/ Len(batch) < PageSize
          IN  IF done
              THEN /\ got' = [got EXCEPT ![s] = UpTo(Until[s], all)]
                   /\ Goes(s, "write")
                   /\ UNCHANGED since
              ELSE /\ got' = [got EXCEPT ![s] = all]
                   /\ since' = [since EXCEPT ![s] = NextSince(batch)]
                   /\ UNCHANGED at
  BY DEF AskPage
<1> DEFINE all == got[s] \o batch
           done == batch = <<>> \/ Last(batch) >= Until[s] \/ Len(batch) < PageSize
<1>3. /\ Begins(all, CandlesFrom(From[s])) /\ all \in Seq(Market) /\ Ascending(all)
      /\ ~ done => /\ Last(batch) \in Nat /\ Last(batch) >= since[s]
                   /\ Range(all) = Pages(From[s], Last(batch) + 1)
  <2>1. CASE batch = Page(since[s])
    BY <1>1, <2>1, PageAdded
  <2>2. CASE batch = <<>>
    <3>1. all = got[s]
      BY <1>1, <2>2, ConcatEmptySeq
    <3>2. Begins(got[s], CandlesFrom(From[s]))
      <4>1. \A c \in Market : c \in Nat
        BY CandleRange
      <4>2. Range(got[s]) \subseteq CandlesFrom(From[s])
        BY <1>1 DEF Pages, CandlesFrom
      <4>3. \A c \in CandlesFrom(From[s]), x \in Range(got[s]) : c < x => c \in Range(got[s])
        BY <1>1, <4>1 DEF Pages, CandlesFrom
      <4>4. QED
        BY <1>1, <4>2, <4>3 DEF Begins
    <3>3. QED
      BY <1>1, <2>2, <3>1, <3>2
  <2>3. QED
    BY <2>1, <2>2
<1>4. UNCHANGED <<source, csv, model, meta>>
  BY DEF AskPage
<1>5. CASE done
  <2> DEFINE kept == UpTo(Until[s], all)
  <2>1. Begins(kept, Asked(s)) /\ kept \in Seq(Market)
    BY <1>3, KeptOfRange DEF Begins
  <2>2. got' = [got EXCEPT ![s] = kept] /\ at' = [at EXCEPT ![s] = "write"] /\ since' = since
    BY <1>2, <1>5 DEF Goes
  <2> HIDE DEF kept, all, done
  <2>3. CandlesTypeOK'
    BY <1>4, <2>1, <2>2 DEF CandlesInv, CandlesTypeOK
  <2>4. /\ \A t \in Script : at'[t] = (IF t = s THEN "write" ELSE at[t])
        /\ \A t \in Script : got'[t] = (IF t = s THEN kept ELSE got[t])
    BY <2>2 DEF CandlesInv, CandlesTypeOK
  <2>5. Idle' /\ Paged'
    BY <2>2, <2>4 DEF CandlesInv, Idle, Paged
  <2>6. Downloaded'
    BY <2>1, <2>4 DEF CandlesInv, Downloaded
  <2>7. Filed' /\ Trained'
    BY <1>4 DEF CandlesInv, Filed, Trained
  <2>8. OwnSource' /\ Training'
    BY <1>1, <1>4, <2>4 DEF CandlesInv, OwnSource, Training, Script
  <2>9. QED
    BY <2>3, <2>5, <2>6, <2>7, <2>8 DEF CandlesInv
<1>6. CASE ~ done
  <2> DEFINE till == Last(batch) + 1
  <2>1. /\ got' = [got EXCEPT ![s] = all] /\ at' = at
        /\ since' = [since EXCEPT ![s] = till]
    BY <1>2, <1>6 DEF NextSince
  <2>2. /\ all \in Seq(Market) /\ Ascending(all) /\ till \in Nat /\ till >= From[s]
        /\ Range(all) = Pages(From[s], till)
    BY <1>1, <1>3, <1>6
  <2> HIDE DEF till, all, done
  <2>3. CandlesTypeOK'
    BY <1>4, <2>1, <2>2 DEF CandlesInv, CandlesTypeOK
  <2>4. /\ \A t \in Script : since'[t] = (IF t = s THEN till ELSE since[t])
        /\ \A t \in Script : got'[t] = (IF t = s THEN all ELSE got[t])
    BY <2>1 DEF CandlesInv, CandlesTypeOK
  <2>5. Idle'
    BY <1>1, <2>1, <2>4 DEF CandlesInv, Idle
  <2>6. Paged'
    BY <2>1, <2>2, <2>4 DEF CandlesInv, Paged
  <2>7. Downloaded' /\ OwnSource' /\ Training'
    BY <1>1, <1>4, <2>1, <2>4 DEF CandlesInv, Downloaded, OwnSource, Training, Script
  <2>8. Filed' /\ Trained'
    BY <1>4 DEF CandlesInv, Filed, Trained
  <2>9. QED
    BY <2>3, <2>5, <2>6, <2>7, <2>8 DEF CandlesInv
<1>7. QED
  BY <1>5, <1>6

\* A script that ends.
LEMMA EndsKeeps ==
    ASSUME CandlesInv, NEW s \in Script, Ends(s)
    PROVE  /\ at' \in [Script -> {"idle", "page", "write", "rows", "load", "fallback",
                                  "features", "meta"}]
           /\ since' \in [Script -> Nat] /\ got' \in [Script -> Seq(Market)]
           /\ Idle' /\ Paged' /\ Downloaded'
           /\ source' = source => OwnSource' /\ Training'
<1>1. /\ at' = [at EXCEPT ![s] = "idle"] /\ since' = [since EXCEPT ![s] = From[s]]
      /\ got' = [got EXCEPT ![s] = <<>>]
  BY DEF Ends, Goes
<1>2. /\ \A t \in Script : at'[t] = (IF t = s THEN "idle" ELSE at[t])
      /\ \A t \in Script : since'[t] = (IF t = s THEN From[s] ELSE since[t])
      /\ \A t \in Script : got'[t] = (IF t = s THEN <<>> ELSE got[t])
  BY <1>1 DEF CandlesInv, CandlesTypeOK
<1>3. /\ at' \in [Script -> {"idle", "page", "write", "rows", "load", "fallback",
                             "features", "meta"}]
      /\ since' \in [Script -> Nat] /\ got' \in [Script -> Seq(Market)]
  BY <1>1, CandleRange DEF CandlesInv, CandlesTypeOK
<1>4. Idle' /\ Paged' /\ Downloaded'
  BY <1>2 DEF CandlesInv, Idle, Paged, Downloaded
<1>5. source' = source => OwnSource' /\ Training'
  BY <1>2 DEF CandlesInv, OwnSource, Training, Script
<1>6. QED
  BY <1>3, <1>4, <1>5

\* A file written, in part or in full, with what was downloaded.
LEMMA FileWritten ==
    ASSUME CandlesInv, NEW s \in Script, NEW kind \in {"blank", "cut", "whole"}, NEW q,
           Begins(q, Asked(s)), csv' = [csv EXCEPT ![s] = [kind |-> kind, rows |-> q]]
    PROVE  /\ csv' \in [Script -> [kind : {"none", "blank", "cut", "whole"},
                                   rows : Seq(Market)]]
           /\ Filed'
<1>1. [kind |-> kind, rows |-> q] \in
         [kind : {"none", "blank", "cut", "whole"}, rows : Seq(Market)]
  BY DEF Begins
<1>2. \A t \in Script : csv'[t] = IF t = s THEN [kind |-> kind, rows |-> q] ELSE csv[t]
  BY DEF CandlesInv, CandlesTypeOK
<1>3. QED
  BY <1>1, <1>2 DEF CandlesInv, CandlesTypeOK, Filed

LEMMA OpenCsvKeeps ==
    ASSUME CandlesInv, NEW s \in Script, OpenCsv(s) PROVE CandlesInv'
<1>1. /\ at[s] = "write" /\ at' = [at EXCEPT ![s] = "rows"]
      /\ UNCHANGED <<since, got, source, model, meta>>
      /\ csv' = [csv EXCEPT ![s] = [kind |-> "blank", rows |-> <<>>]]
  BY DEF OpenCsv, Goes
<1>2. Filed' /\ CandlesTypeOK'
  BY <1>1, FileWritten, NothingBegins DEF CandlesInv, CandlesTypeOK
<1>3. \A t \in Script : at'[t] = IF t = s THEN "rows" ELSE at[t]
  BY <1>1 DEF CandlesInv, CandlesTypeOK
<1>4. Idle' /\ Paged' /\ Downloaded'
  BY <1>1, <1>3 DEF CandlesInv, Idle, Paged, Downloaded
<1>5. OwnSource' /\ Training' /\ Trained'
  BY <1>1, <1>3 DEF CandlesInv, OwnSource, Training, Trained, Script
<1>6. QED
  BY <1>2, <1>4, <1>5 DEF CandlesInv

LEMMA WriteRowsKeeps ==
    ASSUME CandlesInv, NEW s \in Script, WriteRows(s) PROVE CandlesInv'
<1>1. at[s] = "rows" /\ UNCHANGED <<at, since, got, source, model, meta>>
  BY DEF WriteRows
<1>2. PICK n \in Len(csv[s].rows)..Len(got[s]), kind \in {"cut", "whole"} :
          csv' = [csv EXCEPT ![s] = [kind |-> kind, rows |-> SubSeq(got[s], 1, n)]]
  BY DEF WriteRows
<1>3. Begins(got[s], Asked(s)) /\ Begins(csv[s].rows, Asked(s))
  BY <1>1 DEF CandlesInv, Downloaded, Filed
<1>4. n \in 0..Len(got[s])
  <2>1. Len(csv[s].rows) \in Nat /\ Len(got[s]) \in Nat
    BY <1>3, SeqOfCandles DEF Begins
  <2>2. QED
    BY <2>1
<1>5. Begins(SubSeq(got[s], 1, n), Asked(s))
  BY <1>3, <1>4, PartBegins
<1>6. Filed' /\ CandlesTypeOK'
  BY <1>1, <1>2, <1>5, FileWritten DEF CandlesInv, CandlesTypeOK
<1>7. QED
  BY <1>1, <1>6
     DEF CandlesInv, Idle, Paged, Downloaded, OwnSource, Training, Trained

LEMMA CloseCsvKeeps ==
    ASSUME CandlesInv, NEW s \in Script, CloseCsv(s) PROVE CandlesInv'
<1>1. /\ at[s] = "rows" /\ UNCHANGED <<source, model, meta>>
      /\ csv' = [csv EXCEPT ![s] = [kind |-> "whole", rows |-> got[s]]]
      /\ IF s = "train" THEN Goes(s, "load") /\ UNCHANGED <<since, got>> ELSE Ends(s)
  BY DEF CloseCsv
<1>2. Begins(got[s], Asked(s))
  BY <1>1 DEF CandlesInv, Downloaded
<1>3. Filed' /\ csv' \in [Script -> [kind : {"none", "blank", "cut", "whole"},
                                     rows : Seq(Market)]]
  BY <1>1, <1>2, FileWritten
<1>4. CASE s # "train"
  <2>1. Ends(s)
    BY <1>1, <1>4
  <2>2. Idle' /\ Paged' /\ Downloaded' /\ OwnSource' /\ Training' /\ CandlesTypeOK'
    BY <1>1, <1>3, <2>1, EndsKeeps DEF CandlesInv, CandlesTypeOK
  <2>3. Trained'
    BY <1>1 DEF CandlesInv, Trained
  <2>4. QED
    BY <1>3, <2>2, <2>3 DEF CandlesInv
<1>5. CASE s = "train"
  <2>1. at' = [at EXCEPT !["train"] = "load"] /\ UNCHANGED <<since, got>>
    BY <1>1, <1>5 DEF Goes
  <2>2. \A t \in Script : at'[t] = IF t = "train" THEN "load" ELSE at[t]
    BY <2>1 DEF CandlesInv, CandlesTypeOK
  <2>3. CandlesTypeOK'
    BY <1>1, <1>3, <2>1 DEF CandlesInv, CandlesTypeOK
  <2>4. Idle' /\ Paged' /\ Downloaded'
    BY <2>1, <2>2 DEF CandlesInv, Idle, Paged, Downloaded
  <2>5. OwnSource' /\ Training' /\ Trained'
    BY <1>1, <1>5, <2>1, <2>2 DEF CandlesInv, OwnSource, Training, Trained, Script
  <2>6. QED
    BY <1>3, <2>3, <2>4, <2>5 DEF CandlesInv
<1>6. QED
  BY <1>4, <1>5

LEMMA PageFailsKeeps ==
    ASSUME CandlesInv, NEW s \in Script, PageFails(s) PROVE CandlesInv'
<1>1. /\ at[s] = "page" /\ UNCHANGED <<source, csv, model, meta>>
      /\ IF s = "train" THEN Goes(s, "fallback") /\ UNCHANGED <<since, got>> ELSE Ends(s)
  BY DEF PageFails
<1>2. Filed' /\ Trained'
  BY <1>1 DEF CandlesInv, Filed, Trained
<1>3. CASE s # "train"
  <2>1. Ends(s)
    BY <1>1, <1>3
  <2>2. Idle' /\ Paged' /\ Downloaded' /\ OwnSource' /\ Training' /\ CandlesTypeOK'
    BY <1>1, <2>1, EndsKeeps DEF CandlesInv, CandlesTypeOK
  <2>3. QED
    BY <1>2, <2>2 DEF CandlesInv
<1>4. CASE s = "train"
  <2>1. at' = [at EXCEPT !["train"] = "fallback"] /\ UNCHANGED <<since, got>>
    BY <1>1, <1>4 DEF Goes
  <2>2. \A t \in Script : at'[t] = IF t = "train" THEN "fallback" ELSE at[t]
    BY <2>1 DEF CandlesInv, CandlesTypeOK
  <2>3. CandlesTypeOK'
    BY <1>1, <2>1 DEF CandlesInv, CandlesTypeOK
  <2>4. Idle' /\ Paged' /\ Downloaded'
    BY <2>1, <2>2 DEF CandlesInv, Idle, Paged, Downloaded
  <2>5. OwnSource' /\ Training'
    BY <1>1, <1>4, <2>1, <2>2 DEF CandlesInv, OwnSource, Training, Script
  <2>6. QED
    BY <1>2, <2>3, <2>4, <2>5 DEF CandlesInv
<1>5. QED
  BY <1>3, <1>4

LEMMA CutKeeps ==
    ASSUME CandlesInv, NEW s \in Script, Cut(s) PROVE CandlesInv'
<1>1. Ends(s) /\ UNCHANGED <<source, csv, model, meta>>
  BY DEF Cut
<1>2. Idle' /\ Paged' /\ Downloaded' /\ OwnSource' /\ Training' /\ CandlesTypeOK'
  BY <1>1, EndsKeeps DEF CandlesInv, CandlesTypeOK
<1>3. Filed' /\ Trained'
  BY <1>1 DEF CandlesInv, Filed, Trained
<1>4. QED
  BY <1>2, <1>3 DEF CandlesInv

\* Before the first page.
LEMMA NothingYet ==
    ASSUME NEW s \in Script
    PROVE  From[s] >= From[s] /\ Ascending(<<>>) /\ Range(<<>>) = Pages(From[s], From[s])
<1>1. Begins(<<>>, {})
  BY NothingBegins
<1>2. From[s] \in Nat /\ \A c \in Market : c \in Nat
  BY CandleRange
<1>3. Pages(From[s], From[s]) = {}
  BY <1>2 DEF Pages
<1>4. QED
  BY <1>1, <1>2, <1>3 DEF Begins

LEMMA StartFetchKeeps == ASSUME CandlesInv, StartFetch PROVE CandlesInv'
<1>1. /\ at["fetch"] = "idle" /\ at' = [at EXCEPT !["fetch"] = "page"]
      /\ UNCHANGED <<since, got, source, csv, model, meta>>
  BY DEF StartFetch, Goes
<1>2. \A t \in Script : at'[t] = IF t = "fetch" THEN "page" ELSE at[t]
  BY <1>1 DEF CandlesInv, CandlesTypeOK
<1>3. CandlesTypeOK'
  BY <1>1 DEF CandlesInv, CandlesTypeOK
<1>4. Idle' /\ Downloaded' /\ Filed' /\ Trained'
  BY <1>1, <1>2 DEF CandlesInv, Idle, Downloaded, Filed, Trained
<1>5. Paged'
  BY <1>1, <1>2, NothingYet DEF CandlesInv, Idle, Paged, Script
<1>6. OwnSource' /\ Training'
  BY <1>1, <1>2 DEF CandlesInv, OwnSource, Training, Script
<1>7. QED
  BY <1>3, <1>4, <1>5, <1>6 DEF CandlesInv

LEMMA StartTrainKeeps == ASSUME CandlesInv, StartTrain PROVE CandlesInv'
<1> DEFINE step == IF csv["train"] # NoFile THEN "load" ELSE "page"
<1>1. /\ at["train"] = "idle" /\ at' = [at EXCEPT !["train"] = step] /\ source' = "train"
      /\ UNCHANGED <<since, got, csv, model, meta>>
  BY DEF StartTrain, Goes
<1>2. step \in {"load", "page"}
  OBVIOUS
<1> HIDE DEF step
<1>3. \A t \in Script : at'[t] = IF t = "train" THEN step ELSE at[t]
  BY <1>1 DEF CandlesInv, CandlesTypeOK
<1>4. CandlesTypeOK'
  BY <1>1, <1>2 DEF CandlesInv, CandlesTypeOK, Script
<1>5. Idle' /\ Downloaded' /\ Filed' /\ Trained'
  BY <1>1, <1>2, <1>3 DEF CandlesInv, Idle, Downloaded, Filed, Trained
<1>6. Paged'
  BY <1>1, <1>2, <1>3, NothingYet DEF CandlesInv, Idle, Paged, Script
<1>7. OwnSource' /\ Training'
  BY <1>1, <1>2, <1>3 DEF CandlesInv, OwnSource, Training, Script
<1>8. QED
  BY <1>4, <1>5, <1>6, <1>7 DEF CandlesInv

\* The candles of a file f the training takes as its source.
LEMMA LoadKeeps ==
    ASSUME CandlesInv, NEW f \in Script, source' = f, Load(f),
           UNCHANGED <<csv, model, meta>>
    PROVE  CandlesInv'
<1>1. Filed' /\ Trained'
  BY DEF CandlesInv, Filed, Trained
<1>2. Begins(csv[f].rows, Asked(f)) /\ csv[f].rows \in Seq(Market)
  BY DEF CandlesInv, Filed, Begins
<1>3. CASE Ends("train")
  <2>1. Idle' /\ Paged' /\ Downloaded' /\ CandlesTypeOK'
    BY <1>3, EndsKeeps DEF CandlesInv, CandlesTypeOK, Script
  <2>2. at'["train"] = "idle"
    BY <1>3 DEF CandlesInv, CandlesTypeOK, Ends, Goes, Script
  <2>3. QED
    BY <1>1, <2>1, <2>2 DEF CandlesInv, OwnSource, Training
<1>4. CASE /\ got' = [got EXCEPT !["train"] = csv[f].rows]
           /\ Goes("train", "features") /\ UNCHANGED since
  <2>1. /\ \A t \in Script : at'[t] = IF t = "train" THEN "features" ELSE at[t]
        /\ \A t \in Script : got'[t] = IF t = "train" THEN csv[f].rows ELSE got[t]
    BY <1>4 DEF CandlesInv, CandlesTypeOK, Goes
  <2>2. CandlesTypeOK'
    BY <1>2, <1>4 DEF CandlesInv, CandlesTypeOK, Goes
  <2>3. Idle' /\ Paged' /\ Downloaded'
    BY <1>4, <2>1 DEF CandlesInv, Idle, Paged, Downloaded
  <2>4. OwnSource' /\ Training'
    BY <1>2, <2>1 DEF OwnSource, Training, Script
  <2>5. QED
    BY <1>1, <2>2, <2>3, <2>4 DEF CandlesInv
<1>5. QED
  BY <1>3, <1>4 DEF Load

LEMMA LoadPrimaryKeeps == ASSUME CandlesInv, LoadPrimary PROVE CandlesInv'
<1>1. at["train"] = "load" /\ Load("train") /\ UNCHANGED <<source, csv, model, meta>>
  BY DEF LoadPrimary
<1>2. source' = "train" /\ "train" \in Script
  BY <1>1 DEF CandlesInv, OwnSource, Script
<1>3. QED
  BY <1>1, <1>2, LoadKeeps

LEMMA FallbackKeeps == ASSUME CandlesInv, Fallback PROVE CandlesInv'
<1>1. at["train"] = "fallback" /\ UNCHANGED <<csv, model, meta>> /\ "fetch" \in Script
  BY DEF Fallback, Script
<1>2. CASE source' = "fetch" /\ Load("fetch")
  BY <1>1, <1>2, LoadKeeps
<1>3. CASE /\ source' = "synthetic" /\ got' = [got EXCEPT !["train"] = <<>>]
           /\ Goes("train", "features") /\ UNCHANGED since
  <2>1. /\ \A t \in Script : at'[t] = IF t = "train" THEN "features" ELSE at[t]
        /\ \A t \in Script : got'[t] = IF t = "train" THEN <<>> ELSE got[t]
    BY <1>3 DEF CandlesInv, CandlesTypeOK, Goes
  <2>2. CandlesTypeOK'
    BY <1>1, <1>3, CandleRange DEF CandlesInv, CandlesTypeOK, Goes
  <2>3. Idle' /\ Paged' /\ Downloaded'
    BY <1>3, <2>1 DEF CandlesInv, Idle, Paged, Downloaded
  <2>4. OwnSource' /\ Training' /\ Filed' /\ Trained'
    BY <1>1, <1>3, <2>1 DEF CandlesInv, OwnSource, Training, Filed, Trained, Script
  <2>5. QED
    BY <2>2, <2>3, <2>4 DEF CandlesInv
<1>4. QED
  BY <1>2, <1>3 DEF Fallback

LEMMA SaveModelKeeps == ASSUME CandlesInv, SaveModel PROVE CandlesInv'
<1>1. at["train"] = "features" /\ UNCHANGED <<source, csv, meta>> /\ "train" \in Script
  BY DEF SaveModel, Script
<1>2. CASE Ends("train") /\ UNCHANGED model
  <2>1. Idle' /\ Paged' /\ Downloaded' /\ OwnSource' /\ Training' /\ CandlesTypeOK'
    BY <1>1, <1>2, EndsKeeps DEF CandlesInv, CandlesTypeOK
  <2>2. Filed' /\ Trained'
    BY <1>1, <1>2 DEF CandlesInv, Filed, Trained
  <2>3. QED
    BY <2>1, <2>2 DEF CandlesInv
<1>3. CASE /\ model' = [source |-> source, rows |-> got["train"]]
           /\ Goes("train", "meta") /\ UNCHANGED <<since, got>>
  <2>1. \A t \in Script : at'[t] = IF t = "train" THEN "meta" ELSE at[t]
    BY <1>3 DEF CandlesInv, CandlesTypeOK, Goes
  <2>2. got["train"] \in Seq(Market) /\ source \in Script \cup {"none", "synthetic"}
    BY <1>1 DEF CandlesInv, CandlesTypeOK
  <2>3. model' \in [source : Script \cup {"none", "synthetic"}, rows : Seq(Market)]
    BY <1>3, <2>2
  <2>4. CandlesTypeOK'
    BY <1>1, <1>3, <2>3 DEF CandlesInv, CandlesTypeOK, Goes
  <2>5. Idle' /\ Paged' /\ Downloaded' /\ Filed'
    BY <1>1, <1>3, <2>1 DEF CandlesInv, Idle, Paged, Downloaded, Filed
  <2>6. OwnSource' /\ Training'
    BY <1>1, <1>3, <2>1 DEF CandlesInv, OwnSource, Training
  <2>7. Trained'
    BY <1>1, <1>3 DEF CandlesInv, Training, Trained
  <2>8. QED
    BY <2>4, <2>5, <2>6, <2>7 DEF CandlesInv
<1>4. QED
  BY <1>2, <1>3 DEF SaveModel

LEMMA SaveMetaKeeps == ASSUME CandlesInv, SaveMeta PROVE CandlesInv'
<1>1. /\ at["train"] = "meta" /\ Ends("train") /\ UNCHANGED <<source, csv, model>>
      /\ meta' = [source |-> source, rows |-> got["train"]] /\ "train" \in Script
  BY DEF SaveMeta, Script
<1>2. meta' \in [source : Script \cup {"none", "synthetic"}, rows : Seq(Market)]
  BY <1>1 DEF CandlesInv, CandlesTypeOK
<1>3. Idle' /\ Paged' /\ Downloaded' /\ OwnSource' /\ Training' /\ CandlesTypeOK'
  BY <1>1, <1>2, EndsKeeps DEF CandlesInv, CandlesTypeOK
<1>4. Filed' /\ Trained'
  BY <1>1 DEF CandlesInv, Filed, Trained
<1>5. QED
  BY <1>3, <1>4 DEF CandlesInv

LEMMA CandlesStepInv == CandlesInv /\ [CandlesNext]_candlesVars => CandlesInv'
<1> SUFFICES ASSUME CandlesInv, [CandlesNext]_candlesVars PROVE CandlesInv'
  OBVIOUS
<1>1. CASE StartFetch \/ StartTrain \/ LoadPrimary \/ Fallback \/ SaveModel \/ SaveMeta
  BY <1>1, StartFetchKeeps, StartTrainKeeps, LoadPrimaryKeeps, FallbackKeeps,
     SaveModelKeeps, SaveMetaKeeps
<1>2. ASSUME NEW s \in Script,
             \/ AskPage(s) \/ PageFails(s) \/ OpenCsv(s)
             \/ WriteRows(s) \/ CloseCsv(s) \/ Cut(s)
      PROVE  CandlesInv'
  BY <1>2, AskPageKeeps, PageFailsKeeps, OpenCsvKeeps, WriteRowsKeeps, CloseCsvKeeps,
     CutKeeps
<1>3. CASE UNCHANGED candlesVars
  BY <1>3 DEF candlesVars, CandlesInv, CandlesTypeOK, Idle, Paged, Downloaded, Filed,
              OwnSource, Training, Trained
<1>4. QED
  BY <1>1, <1>2, <1>3 DEF CandlesNext

\* Whatever is held or filed of a download is the beginning of the range asked
\* for, on every path through pages, failures, crashes and the fallback.
THEOREM CandlesInvariant == CandlesSpec => []CandlesInv
  BY CandlesInitInv, CandlesStepInv, PTL DEF CandlesSpec

\* A model is trained on the exchange's candles of its range, in order and each
\* once, from the first on (download_binance_paginated to train_and_save).
THEOREM ModelsTrainedInOrder == CandlesSpec => []TrainedOnCandlesInOrder
<1>1. ASSUME CandlesInv PROVE TrainedOnCandlesInOrder
  <2> SUFFICES ASSUME model.source \in Script
               PROVE  IsPrefix(model.rows, InOrder(Asked(model.source)))
    BY DEF TrainedOnCandlesInOrder
  <2> DEFINE A == Asked(model.source)
  <2>1. Begins(model.rows, A)
    BY <1>1 DEF CandlesInv, Trained
  <2>2. A \in SUBSET Market
    BY DEF Asked
  <2>3. A \in SUBSET Nat /\ IsFiniteSet(A)
    BY <2>2, MarketFinite
  <2> HIDE DEF A
  <2>4. model.rows \in Seq(Nat)
    BY <2>1, SeqOfCandles DEF Begins
  <2>5. IsPrefix(model.rows, InOrder(A))
    BY <2>1, <2>3, <2>4, BeginsInOrder DEF Begins
  <2>6. QED
    BY <2>5 DEF A
<1>2. QED
  BY <1>1, CandlesInvariant, PTL

-----------------------------------------------------------------------------
(***************************************************************************)
(* Types of the dashboard: what it shows, queues and draws.                *)
(***************************************************************************)
\* What the dashboard shows, queues and draws is of its types, and of nothing
\* that has not happened yet (dashboard.ipynb).
LEMMA DashboardTypesInit == DashboardInit => DashboardTypeOK
<1> SUFFICES ASSUME DashboardInit PROVE DashboardTypeOK
  OBVIOUS
<1>1. 1 \in 1..MaxClock /\ KillHwm \in Nat /\ MaxFills \in Nat
  BY DashboardAssumption
<1>2. /\ clock \in 1..MaxClock /\ due \in Nat
      /\ nodeUp \in [KnownNodes -> BOOLEAN] /\ upSince \in [KnownNodes -> 1..clock]
      /\ beats \in Seq([node : KnownNodes, sent : 1..clock])
      /\ lastHb \in [KnownNodes -> Never..clock]
      /\ shown \in [KnownNodes -> {"OK", "STALE"}]
  BY <1>1 DEF DashboardInit, Never
<1>3. {times, values, drawn} \subseteq 0..MaxFills /\ drawn <= values /\ values <= times
  BY <1>1 DEF DashboardInit
<1>4. /\ clicks \in Seq({"ARM", "CONFIRM", "CANCEL"}) /\ {view, buttons} \subseteq DOMAIN Enabled
      /\ status \in {"SAFE", "ARMED", "ACTIVATED", "Send failed"} /\ killQueue \in 0..KillHwm
  BY <1>1 DEF DashboardInit, Enabled
<1>5. QED
  BY <1>2, <1>3, <1>4 DEF DashboardTypeOK

\* The types of the node health, of the P&L curve and of the kill switch, which
\* share no state.
HealthShown ==
    /\ clock \in 1..MaxClock /\ due \in Nat
    /\ nodeUp \in [KnownNodes -> BOOLEAN] /\ upSince \in [KnownNodes -> 1..clock]
    /\ beats \in Seq([node : KnownNodes, sent : 1..clock])
    /\ lastHb \in [KnownNodes -> Never..clock] /\ shown \in [KnownNodes -> {"OK", "STALE"}]

CurveDrawn ==
    {times, values, drawn} \subseteq 0..MaxFills /\ drawn <= values /\ values <= times

Button == {"ARM", "CONFIRM", "CANCEL"}

KillSwitch ==
    /\ clicks \in Seq(Button) /\ {view, buttons} \subseteq DOMAIN Enabled
    /\ status \in {"SAFE", "ARMED", "ACTIVATED", "Send failed"} /\ killQueue \in 0..KillHwm

\* Time that passes only widens the types of what was noted before.
LEMMA HealthShownStep ==
    ASSUME HealthShown,
           \/ Pass \/ ReadBeat \/ Refresh
           \/ \E n \in KnownNodes : Beat(n) \/ Flip(n)
    PROVE  HealthShown'
<1> DEFINE B == [node : KnownNodes, sent : 1..clock]
<1>1. clock \in Nat /\ clock >= 1 /\ MaxClock \in Nat /\ 0 \in Nat
  BY DashboardAssumption DEF HealthShown
<1>2. CASE Pass
  <2>1. clock' = clock + 1 /\ clock' \in 1..MaxClock
    BY <1>1, <1>2 DEF Pass
  <2>2. 1..clock \subseteq 1..clock' /\ Never..clock \subseteq Never..clock'
    BY <1>1, <2>1 DEF Never
  <2>3. B \subseteq [node : KnownNodes, sent : 1..clock']
    BY <2>2
  <2> DEFINE C == [node : KnownNodes, sent : 1..clock']
  <2>4. beats \in Seq(C)
    <3>1. beats \in Seq(B) /\ B \subseteq C
      BY <2>3 DEF HealthShown
    <3> HIDE DEF B, C
    <3>2. QED
      BY <3>1, SeqOfMore
  <2>5. upSince \in [KnownNodes -> 1..clock'] /\ lastHb \in [KnownNodes -> Never..clock']
    BY <2>2 DEF HealthShown
  <2>6. QED
    BY <1>2, <2>1, <2>4, <2>5 DEF Pass, HealthShown
<1>3. CASE ReadBeat
  <2>1. beats \in Seq(B) /\ beats # <<>>
    BY <1>3 DEF ReadBeat, HealthShown
  <2>2. Head(beats) \in B /\ Tail(beats) \in Seq(B)
    <3> HIDE DEF B
    <3>1. QED
      BY <2>1
  <2>3. Head(beats).node \in KnownNodes /\ clock \in Never..clock
    BY <1>1, <2>2 DEF Never
  <2>4. QED
    BY <1>3, <2>2, <2>3 DEF ReadBeat, HealthShown
<1>4. CASE Refresh
  BY <1>1, <1>4, DashboardAssumption DEF Refresh, HealthShown
<1>5. ASSUME NEW n \in KnownNodes, Beat(n)
      PROVE  HealthShown'
  <2>1. [node |-> n, sent |-> clock] \in B
    BY <1>1
  <2>2. Append(beats, [node |-> n, sent |-> clock]) \in Seq(B)
    BY <2>1 DEF HealthShown
  <2>3. QED
    BY <1>5, <2>2 DEF Beat, HealthShown
<1>6. ASSUME NEW n \in KnownNodes, Flip(n)
      PROVE  HealthShown'
  <2>1. clock \in 1..clock
    BY <1>1
  <2>2. QED
    BY <1>6, <2>1 DEF Flip, HealthShown
<1>7. QED
  BY <1>2, <1>3, <1>4, <1>5, <1>6

LEMMA CurveDrawnStep ==
    ASSUME CurveDrawn, FillTime \/ FillValue \/ Refresh
    PROVE  CurveDrawn'
<1>1. times \in Nat /\ values \in Nat /\ drawn \in Nat /\ MaxFills \in Nat
  BY DashboardAssumption DEF CurveDrawn
<1>2. QED
  BY <1>1 DEF CurveDrawn, FillTime, FillValue, Refresh

\* The buttons the browser may show.
LEMMA ButtonsShown ==
    /\ DOMAIN Enabled = {"safe", "armed", "killed"}
    /\ \A v \in DOMAIN Enabled : Enabled[v] \subseteq Button
<1>1. DOMAIN Enabled = {"safe", "armed", "killed"}
  BY DEF Enabled
<1>2. Enabled["safe"] \subseteq Button
  BY DEF Enabled, Button
<1>3. Enabled["armed"] \subseteq Button
  BY DEF Enabled, Button
<1>4. Enabled["killed"] \subseteq Button
  BY DEF Enabled, Button
<1>5. QED
  BY <1>1, <1>2, <1>3, <1>4

\* A message is queued only while the queue of kill_push has room.
LEMMA KillSwitchStep == ASSUME KillSwitch, KillNext PROVE KillSwitch'
<1> DEFINE Status == {"SAFE", "ARMED", "ACTIVATED", "Send failed"}
<1>1. clicks \in Seq(Button)
  BY DEF KillSwitch
<1>12. status \in Status
  BY DEF KillSwitch
<1>13. killQueue \in 0..KillHwm
  BY DEF KillSwitch
<1>2. view \in {"safe", "armed", "killed"} /\ buttons \in {"safe", "armed", "killed"}
  <2>1. {view, buttons} \subseteq DOMAIN Enabled
    BY DEF KillSwitch
  <2>2. QED
    BY <2>1, ButtonsShown
<1>3. clicks # <<>> => Tail(clicks) \in Seq(Button)
  BY <1>1
<1>4. KillHwm \in Nat
  BY DashboardAssumption
<1>5. ASSUME clicks' \in Seq(Button), killQueue' \in 0..KillHwm,
             status' \in Status,
             view' \in {"safe", "armed", "killed"}, buttons' \in {"safe", "armed", "killed"}
      PROVE  KillSwitch'
  <2>1. {view', buttons'} \subseteq DOMAIN Enabled
    BY <1>5, ButtonsShown
  <2>2. QED
    BY <1>5, <2>1 DEF KillSwitch
<1>6. CASE Click
  <2>1. PICK b \in Enabled[view] : clicks' = Append(clicks, b)
    BY <1>6 DEF Click
  <2>2. b \in Button
    BY <1>2, <2>1, ButtonsShown
  <2>3. clicks' \in Seq(Button)
    BY <1>1, <2>1, <2>2
  <2>4. QED
    BY <1>1, <1>2, <1>5, <1>12, <1>13, <1>6, <2>3 DEF Click
<1>7. CASE Render
  BY <1>1, <1>2, <1>5, <1>12, <1>13, <1>7 DEF Render
<1>8. CASE OnArm \/ OnCancelArm
  BY <1>1, <1>2, <1>3, <1>5, <1>12, <1>13, <1>8 DEF OnArm, OnCancelArm
<1>9. CASE OnConfirm
  <2>1. killQueue' \in 0..KillHwm
    <3>1. SendOutcome("PUSH", TRUE, killQueue, KillHwm) = "queued" => killQueue < KillHwm
      BY DEF SendOutcome
    <3>2. \/ killQueue < KillHwm /\ killQueue' = killQueue + 1
          \/ killQueue' = killQueue
      BY <1>9, <3>1 DEF OnConfirm
    <3>3. QED
      BY <1>13, <1>4, <3>2
  <2>2. QED
    BY <1>1, <1>2, <1>3, <1>5, <1>12, <1>13, <1>9, <2>1 DEF OnConfirm
<1>10. CASE KillTaken
  <2>1. killQueue' \in 0..KillHwm
    BY <1>13, <1>4, <1>10 DEF KillTaken
  <2>2. QED
    BY <1>1, <1>2, <1>5, <1>12, <1>13, <1>10, <2>1 DEF KillTaken
<1>11. QED
  BY <1>6, <1>7, <1>8, <1>9, <1>10 DEF KillNext

LEMMA DashboardTypesStep ==
    DashboardTypeOK /\ [DashboardNext]_dashboardVars => DashboardTypeOK'
<1> SUFFICES ASSUME DashboardTypeOK, [DashboardNext]_dashboardVars PROVE DashboardTypeOK'
  OBVIOUS
<1>1. HealthShown /\ CurveDrawn /\ KillSwitch
  BY DEF DashboardTypeOK, HealthShown, CurveDrawn, KillSwitch, Button
<1>2. UNCHANGED healthVars => HealthShown'
  BY <1>1 DEF healthVars, HealthShown
<1>3. UNCHANGED pnlVars => CurveDrawn'
  BY <1>1 DEF pnlVars, CurveDrawn
<1>4. UNCHANGED killVars => KillSwitch'
  BY <1>1 DEF killVars, KillSwitch
<1>5. CASE Pass \/ ReadBeat \/ \E n \in KnownNodes : Beat(n) \/ Flip(n)
  <2>1. UNCHANGED pnlVars /\ UNCHANGED killVars
    BY <1>5 DEF Pass, ReadBeat, Beat, Flip
  <2>2. QED
    BY <1>1, <1>3, <1>4, <1>5, <2>1, HealthShownStep
       DEF DashboardTypeOK, HealthShown, CurveDrawn, KillSwitch, Button
<1>6. CASE Refresh
  <2>1. UNCHANGED killVars
    BY <1>6 DEF Refresh
  <2>2. QED
    BY <1>1, <1>4, <1>6, <2>1, HealthShownStep, CurveDrawnStep
       DEF DashboardTypeOK, HealthShown, CurveDrawn, KillSwitch, Button
<1>7. CASE FillTime \/ FillValue
  <2>1. UNCHANGED healthVars /\ UNCHANGED killVars
    BY <1>7 DEF FillTime, FillValue
  <2>2. QED
    BY <1>1, <1>2, <1>4, <1>7, <2>1, CurveDrawnStep
       DEF DashboardTypeOK, HealthShown, CurveDrawn, KillSwitch, Button
<1>8. CASE KillNext
  <2>1. UNCHANGED healthVars /\ UNCHANGED pnlVars
    BY <1>8 DEF KillNext, Click, Render, OnArm, OnCancelArm, OnConfirm, KillTaken
  <2>2. QED
    BY <1>1, <1>2, <1>3, <1>8, <2>1, KillSwitchStep
       DEF DashboardTypeOK, HealthShown, CurveDrawn, KillSwitch, Button
<1>9. CASE UNCHANGED dashboardVars
  BY <1>1, <1>2, <1>3, <1>4, <1>9
     DEF dashboardVars, DashboardTypeOK, HealthShown, CurveDrawn, KillSwitch, Button
<1>10. QED
  BY <1>5, <1>6, <1>7, <1>8, <1>9 DEF DashboardNext, ChartsNext

-----------------------------------------------------------------------------
(***************************************************************************)
(* Types of the launcher.                                                  *)
(***************************************************************************)
LEMMA PipelineEntries ==
    /\ Len(Pipeline) \in Nat /\ Len(Pipeline) >= 3
    /\ \A p \in Proc : p \in STRING
  BY PipelineAssumption DEF Proc

\* The launcher's types but for the flag.
Places ==
    /\ phase \in {"starting", "sync", "running", "stopping", "joining", "exiting",
                  "exit join", "over", "killed"}
    /\ next \in 1..Len(Pipeline)
    /\ proc \in [Proc -> {"none", "up", "blocked", "closing", "hung", "over"}]
    /\ stop \subseteq Proc

LEMMA LauncherTypesInit == LauncherInit => LauncherTypeOK
<1> SUFFICES ASSUME LauncherInit PROVE LauncherTypeOK
  OBVIOUS
<1>1. next \in 1..Len(Pipeline)
  BY PipelineEntries DEF LauncherInit
<1>2. proc \in [Proc -> {"none", "up", "blocked", "closing", "hung", "over"}]
  BY DEF LauncherInit
<1>3. QED
  BY <1>1, <1>2 DEF LauncherInit, LauncherTypeOK

\* The launcher starts and joins within the pipeline, from either end.
LEMMA PlacesStep == ASSUME Places, LauncherNext PROVE Places'
<1> DEFINE State == {"none", "up", "blocked", "closing", "hung", "over"}
<1>1. Len(Pipeline) \in Nat /\ Len(Pipeline) >= 3
  BY PipelineEntries
<1>2. /\ next \in 1..Len(Pipeline) /\ stop \subseteq Proc
      /\ proc \in [Proc -> State]
  BY DEF Places
<1>3. TerminateAll => stop' \subseteq Proc /\ proc' \in [Proc -> State]
  BY <1>2 DEF TerminateAll
<1>4. ASSUME next' \in 1..Len(Pipeline), stop' \subseteq Proc, proc' \in [Proc -> State],
             phase' \in {phase, "sync", "running", "stopping", "joining", "exiting",
                         "exit join", "over", "killed"}
      PROVE  Places'
  BY <1>4 DEF Places
<1>5. CASE StartNext
  <2>1. next' \in 1..Len(Pipeline)
    <3>1. next' = next \/ (next < Len(Pipeline) /\ next' = next + 1)
      BY <1>5 DEF StartNext
    <3>2. QED
      BY <1>1, <1>2, <3>1
  <2>2. proc' \in [Proc -> State]
    BY <1>2, <1>5 DEF StartNext
  <2>3. QED
    BY <1>2, <1>4, <1>5, <2>1, <2>2 DEF StartNext
<1>6. CASE Sync \/ ExitTerminates
  BY <1>2, <1>3, <1>4, <1>6 DEF Sync, ExitTerminates
<1>7. CASE StopAll
  <2>1. next' \in 1..Len(Pipeline)
    BY <1>1, <1>7 DEF StopAll
  <2>2. QED
    BY <1>3, <1>4, <1>7, <2>1 DEF StopAll
<1>8. CASE Join
  <2>1. next' \in 1..Len(Pipeline)
    <3>1. next' = next \/ (next > 1 /\ next' = next - 1)
      BY <1>8 DEF Join
    <3>2. QED
      BY <1>1, <1>2, <3>1
  <2>2. QED
    BY <1>2, <1>4, <1>8, <2>1 DEF Join
<1>9. CASE ExitJoins \/ Monitor \/ LauncherKilled
  BY <1>2, <1>4, <1>9 DEF ExitJoins, Monitor, LauncherKilled
<1>10. CASE Interrupt
  <2>1. phase' \in {"exiting", "stopping", "over"}
    BY <1>10 DEF Interrupt, InterruptedPhase
  <2>2. proc' \in [Proc -> State]
    BY <1>2, <1>10 DEF Interrupt
  <2>3. QED
    BY <1>2, <1>4, <1>10, <2>1, <2>2 DEF Interrupt
<1>11. ASSUME NEW p, NEW state \in State, Becomes(p, state)
       PROVE  Places'
  BY <1>2, <1>4, <1>11 DEF Becomes
<1>12. ASSUME NEW p \in Proc, ProcessStep(p) \/ Dies(p) \/ Blocks(p) \/ Resumes(p)
       PROVE  Places'
  BY <1>11, <1>12 DEF ProcessStep, LeavesLoop, Closes, Dies, Blocks, Resumes
<1>13. CASE EngineHangs
  BY <1>11, <1>13 DEF EngineHangs
<1>14. QED
  BY <1>5, <1>6, <1>7, <1>8, <1>9, <1>10, <1>12, <1>13 DEF LauncherNext, LauncherStep

LEMMA LauncherTypesStep == LauncherTypeOK /\ [LauncherNext]_launcherVars => LauncherTypeOK'
<1> SUFFICES ASSUME LauncherTypeOK, [LauncherNext]_launcherVars PROVE LauncherTypeOK'
  OBVIOUS
<1>1. Places
  BY DEF LauncherTypeOK, Places
<1>2. CASE LauncherNext
  <2>1. Places'
    BY <1>1, <1>2, PlacesStep
  <2>2. interrupted' = interrupted \/ interrupted' = TRUE
    BY <1>2 DEF LauncherNext, LauncherStep, StartNext, Sync, StopAll, Join, ExitTerminates,
                ExitJoins, Monitor, LauncherKilled, Interrupt, EngineHangs, ProcessStep,
                LeavesLoop, Closes, Dies, Blocks, Resumes, Becomes
  <2>3. QED
    BY <2>1, <2>2 DEF LauncherTypeOK, Places
<1>3. CASE UNCHANGED launcherVars
  BY <1>3 DEF launcherVars, LauncherTypeOK
<1>4. QED
  BY <1>2, <1>3

-----------------------------------------------------------------------------
(***************************************************************************)
(* Types of the testbed.                                                   *)
(***************************************************************************)
\* The types of the trials and of the clean-up, beside those of the set-up.
Flags == {slice, known, skip, launched} \subseteq BOOLEAN /\ wrote \in BOOLEAN

TrialTypes ==
    /\ donor \in Node \cup {NoNode}
    /\ trial \in Nat /\ live \in Nat /\ writer \in {"waits", "open", "dead"}
    /\ file \in Nat \cup {Torn} /\ record \in Nat
    /\ excuse \subseteq {"cleanup", "unknown", "killed"}

LEMMA TrialTypesInit == TestbedInit => TrialTypes /\ Flags
<1> SUFFICES ASSUME TestbedInit PROVE TrialTypes /\ Flags
  OBVIOUS
<1>1. Earlier \in Nat /\ NoTrial \in Nat
  BY TestbedAssumption DEF Earlier, NoTrial
<1>2. live \in Nat /\ writer \in {"waits", "open", "dead"} /\ file \in Nat \cup {Torn}
  BY <1>1 DEF TestbedInit
<1>3. trial \in Nat /\ record \in Nat
  BY <1>1 DEF TestbedInit
<1>4. TrialTypes
  BY <1>2, <1>3 DEF TestbedInit, TrialTypes
<1>5. Flags
  BY DEF TestbedInit, Flags
<1>6. QED
  BY <1>4, <1>5

LEMMA KillAllTypes ==
    ASSUME TrialTypes, KillAll
    PROVE  live' \in Nat /\ writer' \in {"waits", "open", "dead"}
  BY DEF TrialTypes, KillAll, NoTrial

LEMMA OtherEngineTypes ==
    ASSUME TrialTypes, OtherEngine
    PROVE  /\ live' \in Nat /\ writer' \in {"waits", "open", "dead"}
           /\ file' \in Nat \cup {Torn}
<1>1. Earlier \in Nat /\ NoTrial \in Nat
  BY TestbedAssumption DEF Earlier, NoTrial
<1>2. QED
  BY <1>1, KillAllTypes DEF OtherEngine, TrialTypes

LEMMA TrialTypesStep ==
    SetUpTypes /\ TrialTypes /\ [TestbedNext]_testbedVars => TrialTypes'
<1> SUFFICES ASSUME SetUpTypes, TrialTypes, [TestbedNext]_testbedVars PROVE TrialTypes'
  OBVIOUS
<1>1. CASE Begin
  BY <1>1 DEF Begin, TrialTypes, nodeVars, trialVars
<1>2. CASE StepDone
  BY <1>2 DEF StepDone, TrialTypes, nodeVars, runVars, trialVars
<1>3. ASSUME NEW n \in Node, ConfigDp(n) \/ Install(n) \/ Clone(n) \/ CopyTo(n) \/ WriteEnv(n)
      PROVE  TrialTypes'
  <2>1. donor' \in {donor, n} /\ UNCHANGED runVars /\ UNCHANGED trialVars
    BY <1>3 DEF ConfigDp, Install, Clone, CopyTo, WriteEnv, runVars, trialVars
  <2>2. QED
    BY <2>1 DEF TrialTypes, runVars, trialVars
<1>4. CASE Checks \/ FaultTest
  <2>1. /\ live' \in Nat /\ writer' \in {"waits", "open", "dead"}
        /\ file' \in Nat \cup {Torn}
    BY <1>4, OtherEngineTypes DEF Checks, FaultTest
  <2>2. QED
    BY <1>4, <2>1 DEF Checks, FaultTest, TrialTypes, nodeVars, runVars
<1>5. CASE Launch
  <2>1. trial' = trial + 1 /\ trial' \in Nat
    BY <1>5 DEF Launch, TrialTypes
  <2>2. live' \in Nat /\ writer' \in {"waits", "open", "dead"}
    BY <1>5, <2>1, KillAllTypes DEF Launch, TrialTypes, NoTrial
  <2>3. QED
    BY <1>5, <2>1, <2>2 DEF Launch, TrialTypes, nodeVars, runVars, NoTrial
<1>6. CASE Collect
  <2>1. live' \in Nat /\ writer' \in {"waits", "open", "dead"}
    BY <1>6, KillAllTypes DEF Collect
  <2>2. record' \in Nat
    BY <1>6 DEF Collect, TrialTypes, NoTrial
  <2>3. QED
    BY <1>6, <2>1, <2>2 DEF Collect, TrialTypes, nodeVars, runVars
<1>7. CASE OpenFile \/ WriterDies \/ EngineEnds
  <2>1. /\ live' \in {live, NoTrial} /\ writer' \in {"open", "dead"} /\ file' \in {file, Torn}
        /\ UNCHANGED <<donor, trial, record, excuse>>
    BY <1>7 DEF OpenFile, WriterDies, EngineEnds, nodeVars, runVars
  <2>2. QED
    BY <2>1 DEF TrialTypes, NoTrial
<1>8. CASE WriteFile
  BY <1>8 DEF WriteFile, TrialTypes, nodeVars, runVars
<1>9. CASE Delete \/ Cleanup
  <2>1. \/ live' = NoTrial /\ writer' = "dead" /\ file' = NoTrial
        \/ UNCHANGED <<live, writer, file>>
    BY <1>9 DEF Delete, Cleanup, Gone
  <2>2. live' \in Nat /\ writer' \in {"waits", "open", "dead"} /\ file' \in Nat \cup {Torn}
    BY <2>1 DEF TrialTypes, NoTrial
  <2>3. UNCHANGED <<donor, trial, record>>
    BY <1>9 DEF Delete, Cleanup, workVars
  <2>4. excuse' \subseteq {"cleanup", "unknown", "killed"}
    BY <1>9 DEF Delete, Cleanup, TrialTypes
  <2>5. QED
    BY <2>2, <2>3, <2>4 DEF TrialTypes
<1>10. CASE Raises \/ Killed
  <2>1. /\ UNCHANGED <<slice, known, skip, nodeVars, trialVars>>
        /\ excuse' \subseteq {"cleanup", "unknown", "killed"}
    BY <1>10 DEF Raises, Killed, TrialTypes, runVars
  <2>2. QED
    BY <2>1 DEF TrialTypes, nodeVars, trialVars
<1>11. CASE UNCHANGED testbedVars
  BY <1>11 DEF testbedVars, TrialTypes
<1>12. QED
  BY <1>1, <1>2, <1>3, <1>4, <1>5, <1>6, <1>7, <1>8, <1>9, <1>10, <1>11 DEF TestbedNext

LEMMA FlagsStep == Flags /\ [TestbedNext]_testbedVars => Flags'
<1> SUFFICES ASSUME Flags, [TestbedNext]_testbedVars PROVE Flags'
  OBVIOUS
<1> USE DEF Flags, nodeVars, runVars, trialVars, workVars
<1>1. CASE Begin
  <2>1. skip' = skip \/ skip' = ({"repo", "env"} \subseteq has["engine-node"])
    BY <1>1 DEF Begin
  <2>2. skip' \in BOOLEAN
    BY <2>1
  <2>3. QED
    BY <1>1, <2>2 DEF Begin
<1>2. CASE StepDone
  BY <1>2 DEF StepDone
<1>3. ASSUME NEW n \in Node, ConfigDp(n) \/ Install(n) \/ Clone(n) \/ CopyTo(n) \/ WriteEnv(n)
      PROVE  Flags'
  BY <1>3 DEF ConfigDp, Install, Clone, CopyTo, WriteEnv
<1>4. CASE Checks \/ FaultTest
  BY <1>4 DEF Checks, FaultTest
<1>5. CASE Launch \/ Collect
  BY <1>5 DEF Launch, Collect
<1>6. CASE OpenFile \/ WriterDies \/ EngineEnds
  BY <1>6 DEF OpenFile, WriterDies, EngineEnds
<1>7. CASE WriteFile
  <2>1. wrote' = wrote \/ wrote' = (wrote \/ live = trial)
    BY <1>7 DEF WriteFile
  <2>2. wrote' \in BOOLEAN
    BY <2>1
  <2>3. QED
    BY <1>7, <2>2 DEF WriteFile
<1>8. CASE Delete \/ Cleanup
  BY <1>8 DEF Delete, Cleanup, Gone
<1>9. CASE Raises \/ Killed
  BY <1>9 DEF Raises, Killed
<1>10. CASE UNCHANGED testbedVars
  BY <1>10 DEF testbedVars
<1>11. QED
  BY <1>1, <1>2, <1>3, <1>4, <1>5, <1>6, <1>7, <1>8, <1>9, <1>10 DEF TestbedNext

LEMMA TestbedTypes == SetUpTypes /\ TrialTypes /\ Flags => TestbedTypeOK
<1>1. DOMAIN NodesOf = Step
  BY DEF NodesOf, Step
<1>2. QED
  BY <1>1 DEF SetUpTypes, TrialTypes, Flags, TestbedTypeOK

-----------------------------------------------------------------------------
(***************************************************************************)
(* The tools side by side, as run tools checks them.                       *)
(***************************************************************************)
LEMMA TestbedAlways == TestbedSpec => []TestbedTypeOK
<1>1. TestbedInit => SetUpTypes /\ TrialTypes /\ Flags
  BY SetUpTypesInit, TrialTypesInit
<1>2. SetUpTypes /\ TrialTypes /\ Flags /\ [TestbedNext]_testbedVars
        => SetUpTypes' /\ TrialTypes' /\ Flags'
  BY SetUpTypesStep, TrialTypesStep, FlagsStep
<1>3. QED
  BY <1>1, <1>2, TestbedTypes, PTL DEF TestbedSpec

LEMMA LauncherAlways == LauncherInit /\ [][LauncherNext]_launcherVars => []LauncherTypeOK
  BY LauncherTypesInit, LauncherTypesStep, PTL

LEMMA DashboardAlways == DashboardSpec => []DashboardTypeOK
  BY DashboardTypesInit, DashboardTypesStep, PTL DEF DashboardSpec

\* The run in which one tool at a time takes steps is a run of every one of
\* them, so that what is proved of a tool is proved of the run; the launcher's
\* fairness is left to TLC.
THEOREM EachToolRuns ==
    ToolsSpec => /\ TestbedSpec /\ DashboardSpec /\ CandlesSpec /\ SignalsSpec
                 /\ FeedsSpec /\ Spec
                 /\ LauncherInit /\ [][LauncherNext]_launcherVars
<1>1. ToolsInit => /\ TestbedInit /\ DashboardInit /\ CandlesInit /\ SignalsInit
                   /\ FeedsInit /\ Init /\ LauncherInit
  BY DEF ToolsInit
<1>2. [ToolsNext]_toolsVars =>
         /\ [TestbedNext]_testbedVars /\ [DashboardNext]_dashboardVars
         /\ [CandlesNext]_candlesVars /\ [SignalsNext]_signalsVars
         /\ [FeedsNext]_feedsVars /\ [Next]_vars /\ [LauncherNext]_launcherVars
  BY DEF ToolsNext, toolsVars, Only, DashboardNext
<1>3. QED
  BY <1>1, <1>2, PTL
     DEF ToolsSpec, TestbedSpec, DashboardSpec, CandlesSpec, SignalsSpec, FeedsSpec, Spec

\* Whatever the configuration, every variable of every tool keeps its type.
THEOREM ToolsTypesCorrect == ToolsSpec => []ToolsTypeOK
<1>1. CandlesInv => CandlesTypeOK
  BY DEF CandlesInv
<1>2. SignalsInv => SignalsTypeOK
  BY DEF SignalsInv
<1>3. FeedsInv => FeedsTypeOK
  BY DEF FeedsInv
<1>4. (/\ TestbedTypeOK /\ LauncherTypeOK /\ DashboardTypeOK
       /\ CandlesTypeOK /\ SignalsTypeOK /\ FeedsTypeOK /\ TypeOK) => ToolsTypeOK
  BY DEF ToolsTypeOK
<1>5. QED
  BY <1>1, <1>2, <1>3, <1>4, EachToolRuns, TestbedAlways, LauncherAlways, DashboardAlways,
     CandlesInvariant, SignalsInvariant, FeedsInvariant, LimiterTypeCorrect, PTL
=============================================================================
