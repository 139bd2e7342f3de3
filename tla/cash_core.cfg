SPECIFICATION Spec
CONSTANTS
    Symbols = {"SBIN"}
    Bars = {b1, b2}
    None = None
    PartialCancels = FALSE
    Pipelines = {"live"}
    Dashboards = {}
    MaxPositions = 2
    MaxAttempts = 2
    EntryQty = 1
    HasCutoff = FALSE
    PendingStatuses = {"OPEN"}
    LostReplies = FALSE
    BestEffortFailures = FALSE
    LateSettlement = FALSE
    MaxOrders = 3
    MaxLegs = 4
    MaxGtts = 1
    MaxFailures = 1
    MaxDays = 1
INVARIANTS TypeOK NoStacking RealPositionsOnRecord NoOrderForgotten
SYMMETRY Symmetry
CHECK_DEADLOCK FALSE
