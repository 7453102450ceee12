--------------------------- MODULE TradingSystem ---------------------------
(***************************************************************************)
(* The risk gateway and the matching engine, joined by the three channels  *)
(* order_egress, order_cancel and exec_report_pub.  The engine is the book *)
(* of PriceTimeBook, which LimitOrderBook implements, wrapped the way      *)
(* _process_order, cancel_recv_loop and _run_orphan_gc wrap it; the races  *)
(* of its threads are the subject of MatchingEngine and are left out here. *)
(***************************************************************************)
EXTENDS RiskGateway, Topology, FiniteSetsExt

CONSTANT Hwm   \* sndhwm of exec_report_pub, and the rcvhwm of the gateway with it

ASSUME HwmAssumption == Hwm \in Nat

VARIABLES arrived, terms, left, value, resting, active,  \* of PriceTimeBook
          tape,    \* the fills of the order being matched: <<resting, qty>>
          missed   \* history: [Strategy -> the fills whose report the gateway's socket lost]

Book == INSTANCE PriceTimeBook

bookvars == <<arrived, terms, left, value, resting, active>>
vars == <<rgvars, bookvars, tape, missed>>

Init == RgInit /\ Book!Init /\ tape = <<>> /\ missed = [s \in Strategy |-> 0]

Gateway == RgStep /\ UNCHANGED <<bookvars, tape, missed>>
Clock == Tick /\ UNCHANGED <<bookvars, tape, missed>>

-----------------------------------------------------------------------------
\* The engine takes the next order; strategies send LIMIT orders only.
EngineTake ==
    /\ egress # <<>>
    /\ LET n == sent[Head(egress)] IN
         Book!Arrive(n.id, [side |-> n.side, type |-> "LIMIT", price |-> n.price], n.qty)
    /\ egress' = Tail(egress)
    /\ UNCHANGED <<now, statevars, sent, passed, cancels, execs, tape, missed>>

EngineTrade ==
    /\ \E r \in resting : Book!Trade(r) /\ tape' = Append(tape, <<r, left[r] - left'[r]>>)
    /\ UNCHANGED <<rgvars, missed>>

Say(i, type, qty) == [id |-> i, type |-> type, qty |-> qty]

\* The exec_type of a fill comes from what is left after the submission.
FillType(i) == IF left[i] = 0 THEN "FILL" ELSE "PARTIAL"

\* The reports of _process_order: two per fill, or one NEW.
Reports ==
    IF tape = <<>>
      THEN <<Say(active, "NEW", 0)>>
      ELSE FlattenSeq([k \in 1..Len(tape) |->
              <<Say(tape[k][1], FillType(tape[k][1]), tape[k][2]),
                Say(active, FillType(active), tape[k][2])>>])

\* The fills of a strategy that reports tell of.
FillOf(s, r) == IF sent[r.id].strategy = s THEN Signed(sent[r.id].side, r.qty) ELSE 0
FillsOf(s, reports) == SumFunction([k \in DOMAIN reports |-> FillOf(s, reports[k])])

\* exec_report_pub: a report for which there is no room is dropped, and nobody
\* is told.
Publish(reports) ==
    LET queued == {k \in DOMAIN reports :
                      SendOutcome("PUB", FALSE, Len(execs) + k - 1, Hwm) = "queued"}
        cut == Cardinality(queued)
    IN  /\ execs' = execs \o SubSeq(reports, 1, cut)
        /\ missed' = [s \in Strategy |->
                        missed[s] + FillsOf(s, SubSeq(reports, cut + 1, Len(reports)))]

EngineSettle ==
    /\ Book!Settle
    /\ Publish(Reports)
    /\ tape' = <<>>
    /\ UNCHANGED <<now, statevars, sent, passed, egress, cancels>>

\* cancel_recv_loop: an order the book does not hold open is passed over, one
\* that has not come yet too.
EngineCancel ==
    /\ cancels # <<>>
    /\ active = Book!NoOrder
    /\ LET i == Head(cancels) IN
         IF i \in resting
           THEN Book!Cancel(i) /\ Publish(<<Say(i, "CANCEL", 0)>>)
           ELSE UNCHANGED <<bookvars, execs, missed>>
    /\ cancels' = Tail(cancels)
    /\ UNCHANGED <<now, statevars, sent, passed, egress, tape>>

EngineGcMutant(i) ==
    /\ i \in resting
    /\ left[i] = sent[i].qty
    /\ Book!Cancel(i)
    /\ Publish(<<Say(i, "CANCEL", 0)>>)
    /\ UNCHANGED <<now, statevars, sent, passed, egress, cancels, tape>>

\* _run_orphan_gc on an order of a strategy the engine has not heard of for
\* orphan_timeout_s; any strategy may be.
EngineGc(i) ==
    /\ i \in resting
    /\ Book!Cancel(i)
    /\ Publish(<<Say(i, "CANCEL", 0)>>)
    /\ UNCHANGED <<now, statevars, sent, passed, egress, cancels, tape>>

EngineMatch == EngineTake \/ EngineTrade \/ EngineSettle

Next == Gateway \/ Clock \/ EngineMatch \/ EngineCancel \/ \E i \in Id : EngineGc(i)

Spec == Init /\ [][Next]_vars

\* The engine's threads run.  Once the kill switch is on the gateway forwards nothing,
\* so every strategy becomes silent for the engine and the collector acts.
FairSpec ==
    /\ Spec
    /\ WF_vars(EngineMatch)
    /\ WF_vars(kill /\ \E i \in Id : EngineGc(i))

-----------------------------------------------------------------------------
TypeOK ==
    /\ now \in 0..MaxTime
    /\ positions \in [Strategy -> Int]
    /\ sides \in [Id -> Side \cup {"none"}]
    /\ pending \subseteq Id /\ passed \subseteq Id
    /\ buckets \in [Strategy -> Bucket \cup {NoBucket}]
    /\ kill \in BOOLEAN
    /\ sent \in Seq(Nos) /\ Len(sent) <= MaxOrders
    /\ egress \in Seq(Id) /\ cancels \in Seq(Id) /\ execs \in Seq(Report)
    /\ arrived \subseteq Id /\ resting \subseteq arrived
    /\ active \in Id \cup {Book!NoOrder}
    /\ tape \in Seq(Id \X Nat) /\ missed \in [Strategy -> Int]

\* An order that can still trade: under way to the book, being matched, resting.
Alive == Range(egress) \cup resting \cup {i \in {active} \cap Id : left[i] > 0}

\* When the operator presses the kill switch, a cancel goes out for every
\* order that can still trade: the pending_orders of the gateway, kept from
\* reports that lag behind the book, miss none (risk_gateway.py:156-167).
KillNamesEveryLiveOrder ==
    [][~ kill /\ kill' => Alive \subseteq Range(cancels')]_vars

\* Nothing stays in the book after the kill switch: what its cancels miss the
\* orphan collector finds (risk_gateway.py:156-167, matching_engine.py:107-122).
KillEmptiesBook == kill ~> Alive = {}

Traded(s, side) ==
    SumFunction([i \in {j \in arrived : sent[j].strategy = s /\ sent[j].side = side} |->
                    sent[i].qty - left[i]])
Bought(s) == Traded(s, "BUY")
Sold(s) == Traded(s, "SELL")

\* The ledger of a strategy that only buys is what it bought, but for reports
\* on their way and those its socket had no room for: reports come repeated as
\* FILL, in bulk and after a CANCEL or a loss, and none that comes is counted
\* twice or left out, nor does a later one make up for one that was lost
\* (risk_gateway.py:170-182).
BuyerLedgerExact ==
    active = Book!NoOrder => \A s \in Strategy :
        (\A k \in DOMAIN sent : sent[k].strategy = s => sent[k].side = "BUY") =>
            positions[s] + FillsOf(s, execs) + missed[s] = Bought(s)

\* The ledger of every strategy is its net position, but for reports on their
\* way: what position reconciliation is for (risk_gateway.py:60-66, 169).
LedgerExact ==
    active = Book!NoOrder => \A s \in Strategy :
        positions[s] + FillsOf(s, execs) = Bought(s) - Sold(s)

\* RISK-03 behind the other filters: a strategy gets no more orders through
\* than its bucket and the rate allow, since the start.
ForwardRate ==
    \A s \in Strategy :
        Cardinality({i \in passed : sent[i].strategy = s}) * Unit
            <= Capacity * Unit + now * Rate

\* RISK-02 as topology.yaml states it: the net position of a strategy stays
\* within the limit.
PositionWithinLimit ==
    \A s \in Strategy : LET net == Bought(s) - Sold(s)
                        IN -PositionLimit <= net /\ net <= PositionLimit

\* The kill switch as the dashboard states it: once its cancels are served and
\* nothing is under way any more, no order is open.
KillCancelsEverything ==
    kill /\ egress = <<>> /\ cancels = <<>> /\ active = Book!NoOrder => resting = {}
=============================================================================
