-------------------------- MODULE MCMatchingEngine --------------------------
(* Arrivals for the runs of MatchingEngine. *)
EXTENDS MatchingEngine

\* Every order there is.
AnyOrders == {n \in Nos : n.type = "LIMIT" <=> n.price > 0}

\* Sells rest, then an order comes that can sweep both.
SweepOrders ==
    {n \in AnyOrders : IF n.id < MaxOrders
                         THEN n.side = "SELL" /\ n.type = "LIMIT"
                         ELSE n.side = "BUY" /\ n.qty > 1}

\* A sell, a buy or a second sell, and an order of two units that trades with
\* whichever it finds, or rests against it.
RaceOrders ==
    {n \in AnyOrders : \/ n.id = 1 /\ n.side = "SELL" /\ n.type = "LIMIT" /\ n.qty = 1
                       \/ n.id = 2 /\ n.type = "LIMIT"
                       \/ n.id = 3 /\ n.qty = 2}
=============================================================================
