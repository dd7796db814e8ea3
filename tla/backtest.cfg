CONSTANTS
    TickTimes = {2, 3, 7}
    Prices = {1, 2}
    kInitialCapacity = 1
    MaxRecords = 3
    MaxPowerFailures = 1
    StartTimes = {2, 7}
    EndTimes = {3, 8}
    StackDepth = 2
    BarDurations = {1, 2}
    BarCounts = {1, 2}
    s1 = s1
    Symbol = {s1}
    initial_cash = 9
    PriceMaps <- Marks
    FillPrices = {1, 3}
    OrderQtys = {2}
    LimitPrices = {0, 2}
    Commissions = {1}
    Limits <- TwoLimits
    HighWaterMarks = {12}
    MaxOrders = 2
    MaxFills = 3
    Closes = {1, 2, 3, 5}
    fast_period = 2
    slow_period = 3
    signal_threshold <- Tenth
    roc_lookback = 2
    roc_threshold <- Tenth
    ema_alpha <- Half
    z_lookback = 3
    entry_z <- One
    exit_z <- Half
    MaxBars = 6
    PeriodReturns <- Returns
    max_window = 3
    Tails <- TailParts
    MaxUpdates = 5
    train_bars = 1
    test_bars = 1
    step_bars = 1
    total_bars = 5
    FoldCurves <- Curves
SPECIFICATION Spec
INVARIANTS TypeOK StoreKeepsRecords PointInTime BarsExact ReplayInOrder DailyPnlIsNavChange SignalsFromScratch TailsExact StitchedContinues
PROPERTIES ReplayStopReturns NoOrderAfterLoss
CHECK_DEADLOCK FALSE
