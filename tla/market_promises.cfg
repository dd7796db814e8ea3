CONSTANTS
    TickTimes = {2, 3, 7}
    Prices = {1}
    kInitialCapacity = 2
    MaxRecords = 2
    MaxPowerFailures = 1
    StartTimes = {2}
    EndTimes = {3, 8}
    StackDepth = 2
    BarDurations = {1, 3}
    BarCounts = {1, 2}
SPECIFICATION MarketSpec
INVARIANTS SomePromiseKept
CHECK_DEADLOCK FALSE
