SPECIFICATION Spec
CONSTANTS
  Symbols = {s1}
  NoSymbol = none
  Prices = {1, 2}
  MaxQty = 2
  MaxOrders = 3
  MaxDepth = 1
  OrderTypes = {"Market", "Limit", "Stop", "IOC", "FOK"}
  Tifs = {"GTC"}
  Garbage = {}
INVARIANTS BooksSound Uncrossed NoQueueJumping LedgerAgrees FokAllOrNothing NoOrderVanishes WithinLimits
PROPERTIES TerminalIsFinal StepsProgress
