SPECIFICATION ToolsSpec
CONSTANTS
    Strats = {"strat-0"}
    Trials = 2
    Leftovers <- TestbedLeftovers
    Pipeline <- PipelineProcs
    KnownNodes = {"feed-0"}
    StaleAfter = 1
    RefreshPeriod = 2
    Lag = 1
    KillHwm = 1
    MaxClock = 9
    MaxFills = 1
    Market = {1, 2, 4, 5, 6, 7}
    From <- FromMinute
    Until <- UntilMinute
    PageSize = 2
    Enough = 2
    Symbol = {"BTCUSDT"}
    Prices = {1, 2, 3}
    Lookback = 3
    ZIn = 1
    ZOut = 2
    BaseQty = 10
    Threshold = 60
    Interval = 10
    NSymbols = 5
    BeatEvery = 2
    NCandles = 4
    Offset <- ReplayOffsets
    MaxInstant = 12
    MaxTicks = 6
    MaxNotional = 0
    PositionLimit = 0
    Rate = 2
    Capacity = 2
    Unit = 3
    Strategy = {s1, s2}
    MaxTime = 6
INVARIANTS
    ToolsTypeOK OwnMetrics MissingCodeIsKnown
    NoSliceLeftBehind DeadNodeShownStale TrainedOnCandlesInOrder OneSided OnSchedule
    RateBound WaitedPasses
PROPERTY CtrlCEnds
CHECK_DEADLOCK FALSE
