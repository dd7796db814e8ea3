SPECIFICATION Spec
CONSTANTS
  Symbols = {s1}
  NoSymbol = none
  Prices = {1, 2}
  MaxQty = 2
  MaxOrders = 3
  MaxDepth = 2
  OrderTypes = {"Market", "Limit", "IOC", "FOK"}
  Tifs = {"GTC"}
  Garbage <- ZeroedNode
PROPERTY CallsReturn
