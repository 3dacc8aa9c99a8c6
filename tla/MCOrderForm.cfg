SPECIFICATION Spec
CONSTANTS
  r1 = r1
  r2 = r2
  Rate = {r1, r2}
  NoOrder = NoOrder
  GuiMinimum = 1
  OrderMinimum = 3
  SpinMaximum = 4
  Documents <- MCDocuments
  Depth = 2
INVARIANTS TypeOK OnlyValidOrders BarsComparable OneAnswer
PROPERTIES AskArmsBuy
CHECK_DEADLOCK FALSE
