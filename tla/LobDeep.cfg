SPECIFICATION LobSpec
CONSTANTS
  MaxOrders = 4
  Price = {1, 2}
  Quantity = {1, 2}
INVARIANTS LobTypeOK NotCrossed NoGhostLevel BookHoldsOpenOrders TradesBalance StatusAgrees NeverRaises
PROPERTIES ImplementsPriceTimeBook
CHECK_DEADLOCK FALSE
