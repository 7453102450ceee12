SPECIFICATION FairSpec
CONSTANTS
  MaxOrders = 2
  Price = {1}
  Quantity = {1, 2}
  RingSize = 2
  Strategy = {s1, s2}
  Inbound <- SweepOrders
  SwitchInside = FALSE
INVARIANTS StatusAgrees
PROPERTIES TerminalIsFinal OrphanIsClosed RingDrains SubmitEnds
CHECK_DEADLOCK FALSE
