--------------------------- MODULE MCTradingFloor ---------------------------
(* What the strategies of the runs of TradingFloor may submit. *)
EXTENDS TradingFloor

CONSTANTS alice, bob

\* alice offers two units, or bids for one; bob bids for one.
BothSides == {[side |-> "SELL", price |-> 1, qty |-> 2], [side |-> "BUY", price |-> 1, qty |-> 1]}
OneBid == {[side |-> "BUY", price |-> 1, qty |-> 1]}
NoWishes == {}
NoTraffic == {}
=============================================================================
