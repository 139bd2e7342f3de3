SPECIFICATION FairSpec
CONSTANTS
    SeedWins = 1
    SeedLosses = 0
    MinClosedTrades = 1
    MinWinRate = 55
    InitialCapital = 7
    TargetSlots = 2
    MinPositionSize = 4
    StopLossPct = 30
    TrailActivationPct = 30
    TrailPct = 25
    FuturesCapital = 4
    FuturesSlots = 2
    FuturesMinSlot = 2
    Margin = 2
    Prices = {2, 3}
    NoPosition = NoPosition
    NotReading = NotReading
    MaxBars = 3
    MaxFaults = 1
INVARIANTS TypeOK  ScoredAsPine CombosFollowStrategy 
PROPERTIES StopsHonoured CycleEnds
CHECK_DEADLOCK FALSE
