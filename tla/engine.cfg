\* Six bars, two features, a queue of two votes: filters, evictions, an exit.
SPECIFICATION Spec
CONSTANTS
    NeighborsCount = 2
    MaxBarsBack = 5
    Stride = 4
    LabelSpan = 2
    HoldSpan = 2
    WarmUp = 2
    Shapes <- MCShapes
    NoState = NoState
    NoResult = NoResult
    MinimumCandles = 4
    BacktestMinimum = 5
    BackfillAlongside = FALSE
    MaxBars = 6
    MaxBacklog = 2
INVARIANTS TypeOK  NeverRepaints  
PROPERTY ImplementsStrategy
CHECK_DEADLOCK FALSE
