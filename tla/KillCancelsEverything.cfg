SPECIFICATION Spec
CONSTANTS
  alice = alice
  bob = bob
  Strategy = {alice, bob}
  MaxOrders = 3
  Price = {1}
  Quantity = {1, 2}
  Inbound <- TwoFills
  Hwm = 9
  MaxNotional = 2
  PositionLimit = 3
  Rate = 1
  Capacity = 3
  Unit = 1
  MaxTime = 0
INVARIANT KillCancelsEverything
CHECK_DEADLOCK FALSE
