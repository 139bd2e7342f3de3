SPECIFICATION Spec
CONSTANTS
    Symbols = {"SBIN"}
    Bars = {b1}
    None = None
    PartialCancels = FALSE
    Pipelines = {"live"}
    Dashboards = {}
    MaxPositions = 1
    MaxAttempts = 2
    EntryQty = 1
    HasCutoff = FALSE
    PendingStatuses = {"OPEN"}
    LostReplies = TRUE
    BestEffortFailures = FALSE
    LateSettlement = FALSE
    MaxOrders = 2
    MaxLegs = 2
    MaxGtts = 1
    MaxFailures = 0
    MaxDays = 0
CHECK_DEADLOCK FALSE
INVARIANT NoStacking
