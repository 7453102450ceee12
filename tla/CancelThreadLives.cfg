SPECIFICATION Spec
CONSTANTS
  MaxOrders = 2
  Price = {1}
  Quantity = {1}
  RingSize = 1
  Strategy = {s1}
  Inbound <- AnyOrders
  SwitchInside = FALSE
INVARIANT CancelThreadLives
CHECK_DEADLOCK FALSE
