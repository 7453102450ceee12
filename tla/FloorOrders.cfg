SPECIFICATION FloorFairSpec
CONSTANTS
  alice = alice
  bob = bob
  Strategy = {alice, bob}
  Self = alice
  MaxOrders = 3
  Price = {1}
  Quantity = {1, 2}
  Inbound <- NoTraffic
  Wishes <- BothSides
  OtherWishes <- OneBid
  HeartbeatEvery = 1
  Backlog = 1
  Hwm = 9
  MaxNotional = 2
  PositionLimit = 3
  Rate = 1
  Capacity = 2
  Unit = 1
  MaxTime = 0
INVARIANTS NodeTypeOK KnowsItsOrders NoSelfTrade
PROPERTIES ForgetsClosedOrders SafeModeClosesOrders
CHECK_DEADLOCK FALSE
