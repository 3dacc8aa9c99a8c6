SPECIFICATION BothSpec
CONSTANTS
  Units = 2
  MaxOrders = 2
  MaxRefreshes = 3
  MaxCommands = 1
INVARIANTS NoDoubleCount OpenOrdersListed DataPtrsLive OneParentPerOrder PostedAsGiven
PROPERTIES ExitZeroClosed
CHECK_DEADLOCK FALSE
