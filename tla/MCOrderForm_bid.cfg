SPECIFICATION Spec
CONSTANTS
  r1 = r1
  r2 = r2
  Rate = {r1, r2}
  NoOrder = NoOrder
  GuiMinimum = 1
  OrderMinimum = 3
  SpinMaximum = 4
  Documents <- MCDocuments
  Depth = 2
PROPERTIES BidArmsSell
CHECK_DEADLOCK FALSE
