SPECIFICATION Spec
CONSTANTS
  Symbols = {s1}
  NoSymbol = none
  Prices = {1, 2}
  MaxQty = 2
  MaxOrders = 3
  MaxDepth = 1
  OrderTypes = {"Limit", "Stop"}
  Tifs = {"GTC"}
  Garbage = {}
INVARIANT StopsWaitForTrigger
