SPECIFICATION Spec
CONSTANTS
  alice = alice
  bob = bob
  Strategy = {alice, bob}
  MaxOrders = 4
  Price = {1}
  Quantity = {1}
  Inbound <- BuyerAndSeller
  Hwm = 9
  MaxNotional = 2
  PositionLimit = 1
  Rate = 1
  Capacity = 3
  Unit = 1
  MaxTime = 0
INVARIANT PositionWithinLimit
CHECK_DEADLOCK FALSE
