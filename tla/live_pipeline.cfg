SPECIFICATION FairSpec
CONSTANTS
    BarsPerDay = 2
    MinimumCandles = 2
    MaxCatchUpBars = 2
    NoBar = NoBar
    Symbols = {"TCS"}
    Workers = 3
    FormingBars = FALSE
    ExternalWatchdog = TRUE
    MaxHour = 6
    MaxLogins = 2
    MaxFaults = 1
INVARIANTS TypeOK  BarsStartAfresh
PROPERTIES  NoStoredBarJumped TickerRecovers DeadTokenAnnounced
CHECK_DEADLOCK FALSE
