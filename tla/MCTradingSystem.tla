-------------------------- MODULE MCTradingSystem --------------------------
(* Traffic for the runs of TradingSystem. *)
EXTENDS TradingSystem

CONSTANTS alice, bob

\* alice buys and bob sells, as the two strategies of start_pipeline.py do.
BuyerAndSeller == {n \in Nos : n.side = "BUY" <=> n.strategy = alice}

\* bob sells a quantity that two orders of alice make up.
TwoFills ==
    {n \in BuyerAndSeller : IF n.id < MaxOrders THEN n.side = "BUY" /\ n.qty = 1
                                                ELSE n.side = "SELL"}

\* The last order may be for two units, of either: two sells of bob at rest fill
\* a buy of alice in two goes, with a FILL report for each.
LastOfTwo == {n \in BuyerAndSeller : n.id < MaxOrders => n.qty = 1}

\* Either strategy on either side, one unit at a time.
AnySide == {n \in Nos : n.qty = 1}
=============================================================================
