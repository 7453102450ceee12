------------------------------- MODULE Feeds -------------------------------
(***************************************************************************)
(* The loops of engine/feed_handler.py and replay_candles of               *)
(* engine/datasets.py: ticks sent on an absolute schedule, a random walk   *)
(* for ever or the candles of a file once, or as fast as the process can.  *)
(***************************************************************************)
EXTENDS Integers

CONSTANTS Interval,     \* 1 s / _TOTAL_RATE
          NSymbols,     \* _N_SYMBOLS
          BeatEvery,    \* HEARTBEAT_INTERVAL
          NCandles,     \* candles in the file of the replay
          Offset,       \* [0..NCandles-1 -> when they are due from the first on, at the speed]
          MaxInstant,      \* bound: the last instant
          MaxTicks      \* bound: ticks sent in stress mode

Slot == Interval \div NSymbols

ASSUME FeedsAssumption ==
    /\ Interval \in Nat /\ NSymbols \in Nat \ {0} /\ Slot \in Nat \ {0}
    /\ BeatEvery \in Nat \ {0} /\ MaxInstant \in Nat /\ MaxTicks \in Nat
    /\ NCandles \in Nat \ {0} /\ Offset \in [0..NCandles-1 -> Nat] /\ Offset[0] = 0
    /\ \A i, j \in 0..NCandles-1 : i <= j => Offset[i] <= Offset[j]

VARIABLES
    feedMode,   \* mode
    instant,    \* time.monotonic_ns(), from when the loop started
    feedAt,     \* "looks" at the clock, is "asleep", "sends", or is "over"
    target,     \* next_ns, target_wall_ns
    sent,       \* ticks sent, the i of the loop
    feedBeats   \* heartbeats sent

feedsVars == <<feedMode, instant, feedAt, target, sent, feedBeats>>

FeedsInit ==
    /\ feedMode \in {"gbm", "stress", "replay"}
    /\ instant = 0 /\ feedAt = "looks" /\ target = 0 /\ sent = 0 /\ feedBeats = 0

\* When tick i is due.
Due(i) == IF feedMode = "replay" THEN Offset[i] ELSE i * Slot

-----------------------------------------------------------------------------
\* Time passes, wherever the process is: it may sleep too long or stall.
TimePasses ==
    /\ instant < MaxInstant
    /\ instant' = instant + 1
    /\ UNCHANGED <<feedMode, feedAt, target, sent, feedBeats>>

\* The head of the loop: sleep if the tick is not due yet.  Stress mode has no
\* rate gate.
Look ==
    /\ feedAt = "looks"
    /\ feedAt' = IF feedMode # "stress" /\ target > instant THEN "asleep" ELSE "sends"
    /\ UNCHANGED <<feedMode, instant, target, sent, feedBeats>>

Wake ==
    /\ feedAt = "asleep" /\ instant >= target
    /\ feedAt' = "sends"
    /\ UNCHANGED <<feedMode, instant, target, sent, feedBeats>>

\* A tick of the random walk, a heartbeat with every BeatEvery-th, and the next
\* slot.
SendGbmMutant ==
    /\ feedMode = "gbm" /\ feedAt = "sends"
    /\ sent' = sent + 1
    /\ feedBeats' = IF sent % BeatEvery = 0 THEN feedBeats + 1 ELSE feedBeats
    /\ target' = instant + Slot
    /\ feedAt' = "looks"
    /\ UNCHANGED <<feedMode, instant>>

SendGbm ==
    /\ feedMode = "gbm" /\ feedAt = "sends"
    /\ sent' = sent + 1
    /\ feedBeats' = IF sent % BeatEvery = 0 THEN feedBeats + 1 ELSE feedBeats
    /\ target' = target + Slot
    /\ feedAt' = "looks"
    /\ UNCHANGED <<feedMode, instant>>

SendStress ==
    /\ feedMode = "stress" /\ feedAt = "sends" /\ sent < MaxTicks
    /\ sent' = sent + 1
    /\ feedBeats' = IF sent % BeatEvery = 0 THEN feedBeats + 1 ELSE feedBeats
    /\ feedAt' = "looks"
    /\ UNCHANGED <<feedMode, instant, target>>

\* A candle of the replay; the process ends after the last, and no heartbeat is
\* ever sent.
SendCandle ==
    /\ feedMode = "replay" /\ feedAt = "sends"
    /\ sent' = sent + 1
    /\ IF sent + 1 = NCandles THEN feedAt' = "over" /\ UNCHANGED target
                              ELSE feedAt' = "looks" /\ target' = Offset[sent + 1]
    /\ UNCHANGED <<feedMode, instant, feedBeats>>

FeedsNext == TimePasses \/ Look \/ Wake \/ SendGbm \/ SendStress \/ SendCandle

FeedsSpec == FeedsInit /\ [][FeedsNext]_feedsVars

-----------------------------------------------------------------------------
FeedsTypeOK ==
    /\ feedMode \in {"gbm", "stress", "replay"}
    /\ instant \in Nat /\ feedAt \in {"looks", "asleep", "sends", "over"}
    /\ target \in Nat /\ sent \in Nat /\ feedBeats \in Nat
    /\ feedMode = "replay" => sent <= NCandles /\ (sent = NCandles <=> feedAt = "over")

\* Drift does not accumulate: however often the loop slept too long or stalled,
\* when it sleeps with its tick not yet due, the ticks it has sent are exactly
\* those due by now.
OnSchedule ==
    feedAt = "asleep" /\ instant < target =>
        /\ \A i \in 0..(sent - 1) : Due(i) <= instant
        /\ Due(sent) > instant

\* What the loop's comments promise, some 10 000 ticks a second over all
\* symbols: one tick in an Interval.
TotalRate == feedMode = "gbm" => (sent - 1) * Interval <= instant
=============================================================================
