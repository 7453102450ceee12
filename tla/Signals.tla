------------------------------ MODULE Signals ------------------------------
(***************************************************************************)
(* When the two strategies of engine/strategy.py send an order: the rolling *)
(* z-score of MeanReversionStrategy, as a pure buyer or a pure seller the  *)
(* way scripts/start_pipeline.py starts them, and the classifier's         *)
(* probability of MLSignalStrategy.  Arithmetic is exact; mid prices are   *)
(* doubled, probabilities are in hundredths.                               *)
(***************************************************************************)
EXTENDS Integers, SequencesExt

CONSTANTS Symbol,
          Prices,     \* the bids and asks of a tick
          Lookback,   \* length of the window of mid prices
          ZIn,        \* the threshold on the side a strategy trades
          ZOut,       \* the threshold that keeps the other side out
          BaseQty,    \* BASE_QTY
          Threshold   \* THRESHOLD, in hundredths

ASSUME SignalsAssumption ==
    /\ Lookback \in Nat \ {0} /\ Prices \subseteq Nat \ {0}
    /\ ZIn \in Nat /\ ZOut \in Nat /\ BaseQty \in Nat /\ Threshold \in 51..100

\* z_buy and z_sell, -ZIn or -ZOut and ZIn or ZOut.
Buyer == [buy |-> ZIn, sell |-> ZOut]
Seller == [buy |-> ZOut, sell |-> ZIn]
Classifier == "ml"

VARIABLES
    node,     \* the strategy: Buyer, Seller or Classifier
    ready,    \* has on_start returned?
    window,   \* [Symbol -> the last mid prices]
    order,    \* what the last tick made it send, or NoOrder
    traded    \* history: the sides it ever sent

signalsVars == <<node, ready, window, order, traded>>

NoOrder == [side |-> "none", qty |-> 0, price |-> 0]

SignalsInit ==
    /\ node \in {[kind |-> "mean reversion", z |-> Buyer],
                 [kind |-> "mean reversion", z |-> Seller], [kind |-> Classifier]}
    /\ ready = (node.kind # Classifier)
    /\ window = [s \in Symbol |-> <<>>]
    /\ order = NoOrder /\ traded = {}

PushMutant(w, mid) == Append(w, mid)

\* deque(maxlen=Lookback)
Push(w, mid) == LET all == Append(w, mid)
                IN  IF Len(all) > Lookback THEN Tail(all) ELSE all

Square(x) == x * x
Sum(w) == SumFunction(w)
SumSquares(w) == SumFunction([k \in DOMAIN w |-> Square(w[k])])

\* n * (mid - mean) and (n * std)^2 of a window: z is the first over the root
\* of the second.
Deviation(w, mid) == Len(w) * mid - Sum(w)
Spread(w) == Len(w) * SumSquares(w) - Square(Sum(w))

Above(w, mid, z) == Deviation(w, mid) > 0 /\ Square(Deviation(w, mid)) > Square(z) * Spread(w)
Below(w, mid, z) == Deviation(w, mid) < 0 /\ Square(Deviation(w, mid)) > Square(z) * Spread(w)

Buys(qty, ask) == order' = [side |-> "BUY", qty |-> qty, price |-> ask]
Sells(qty, bid) == order' = [side |-> "SELL", qty |-> qty, price |-> bid]

\* The window the z-score of a tick is taken over: the tick is in it.
JudgedMutant(before, after) == before
Judged(before, after) == after

\* MeanReversionStrategy.on_tick
MeanReversionTick(s, bid, ask) ==
    /\ node.kind # Classifier
    /\ LET mid == bid + ask
           w == Push(window[s], mid)
           j == Judged(window[s], w)
       IN  /\ window' = [window EXCEPT ![s] = w]
           /\ CASE Len(j) < Lookback \/ Spread(j) = 0 -> order' = NoOrder
                [] OTHER -> IF Below(j, mid, node.z.buy) THEN Buys(1, ask)
                            ELSE IF Above(j, mid, node.z.sell) THEN Sells(1, bid)
                            ELSE order' = NoOrder
    /\ traded' = traded \cup ({order'.side} \ {"none"})
    /\ UNCHANGED <<node, ready>>

\* MLSignalStrategy.on_start: without a model file it raises, and the process
\* ends before it takes a tick.
OnStart ==
    /\ ~ready
    /\ ready' = TRUE
    /\ UNCHANGED <<node, window, order, traded>>

\* max(1, int(BASE_QTY * confidence)) with confidence = (p - 0.5) * 2, where the
\* floating point product may fall short of an exact integer.
Quantities(p) ==
    LET scaled == BaseQty * (p - 50) * 2
        whole == scaled \div 100
        AtLeast1(q) == IF q < 1 THEN 1 ELSE q
    IN  {AtLeast1(q) : q \in IF scaled % 100 = 0 THEN {whole - 1, whole} ELSE {whole}}

\* MLSignalStrategy.on_tick: no inference before the window of the volatility is
\* full; the model may answer any probability p that the price goes up.
ClassifierTick(s, bid, ask) ==
    /\ node.kind = Classifier /\ ready
    /\ window' = [window EXCEPT ![s] = Push(@, bid + ask)]
    /\ IF Len(window'[s]) < Lookback THEN order' = NoOrder
       ELSE \E p \in {0, 100 - Threshold, 101 - Threshold, 50, Threshold - 1, Threshold, 100} :
              IF p >= Threshold THEN \E q \in Quantities(p) : Buys(q, ask)
              ELSE IF 100 - p >= Threshold THEN \E q \in Quantities(100 - p) : Sells(q, bid)
              ELSE order' = NoOrder
    /\ traded' = traded \cup ({order'.side} \ {"none"})
    /\ UNCHANGED <<node, ready>>

SignalsNext ==
    \/ OnStart
    \/ \E s \in Symbol, bid, ask \in Prices :
          MeanReversionTick(s, bid, ask) \/ ClassifierTick(s, bid, ask)

SignalsSpec == SignalsInit /\ [][SignalsNext]_signalsVars

-----------------------------------------------------------------------------
Mids == {a + b : a \in Prices, b \in Prices}

SignalsTypeOK ==
    /\ ready \in BOOLEAN
    /\ window \in [Symbol -> Seq(Mids)]
    /\ \A s \in Symbol : Len(window[s]) <= Lookback
    /\ order \in [side : {"none", "BUY", "SELL"}, qty : Nat, price : Prices \cup {0}]
    /\ traded \subseteq {"BUY", "SELL"}

\* The strategies started as a pure buyer and a pure seller stay one-sided: no
\* price, however far it jumps, is more than the root of Lookback - 1 deviations
\* off the mean of a window that holds it, so a threshold beyond that keeps the
\* other side out.
OneSided ==
    node.kind # Classifier /\ Square(ZOut) >= Lookback - 1 =>
        \/ node.z = Buyer /\ "SELL" \notin traded
        \/ node.z = Seller /\ "BUY" \notin traded
=============================================================================
