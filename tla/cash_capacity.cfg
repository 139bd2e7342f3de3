SPECIFICATION Spec
CONSTANTS
    Symbols = {"SBIN", "VMM"}
    Bars = {b1}
    None = None
    PartialCancels = FALSE
    Pipelines = {"live"}
    Dashboards = {}
    MaxPositions = 1
    MaxAttempts = 2
    EntryQty = 1
    HasCutoff = FALSE
    PendingStatuses = {"OPEN"}
    LostReplies = FALSE
    BestEffortFailures = FALSE
    LateSettlement = FALSE
    MaxOrders = 3
    MaxLegs = 2
    MaxGtts = 1
    MaxFailures = 0
    MaxDays = 0
INVARIANT CapacityRespected
PROPERTY FollowsBook
CHECK_DEADLOCK FALSE
