SPECIFICATION Spec
CONSTANTS
  MaxOrders = 3
  Price = {1, 2}
  Quantity = {1, 2}
  RingSize = 2
  Strategy = {s1}
  Inbound <- RaceOrders
  SwitchInside = TRUE
INVARIANTS TypeOK TradesBalance LimitRespected ReportsMatchTrades EveryOrderAnswered LostOnlyByOverflow
CHECK_DEADLOCK FALSE
