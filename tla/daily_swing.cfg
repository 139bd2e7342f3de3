SPECIFICATION FairSpec
CONSTANTS
    Setups <- SeparateContracts
    NoSetup = NoSetup
    Lot = 2
    PartialStages = {"hedge", "future"}
    MaxFaults = 1
    Levels = {0, 9}
    InitialRisk = 4
    TrailGap = 3
    MaxDays = 2
    CutEntries = FALSE
INVARIANTS TypeOK   OneActiveRow
PROPERTIES EntersOnTodaysSetup  StopNeverLoosens ExitsCloseFuture
CHECK_DEADLOCK FALSE
