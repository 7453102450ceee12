SPECIFICATION FairSpec
CONSTANTS
  alice = alice
  bob = bob
  Strategy = {alice, bob}
  MaxOrders = 3
  Price = {1}
  Quantity = {1, 2}
  Inbound <- LastOfTwo
  Hwm = 4
  MaxNotional = 2
  PositionLimit = 3
  Rate = 1
  Capacity = 1
  Unit = 1
  MaxTime = 1
INVARIANTS TypeOK BuyerLedgerExact ForwardRate
PROPERTIES KillNamesEveryLiveOrder KillEmptiesBook
CHECK_DEADLOCK FALSE
