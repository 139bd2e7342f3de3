SPECIFICATION Spec
CONSTANTS
    Symbols = {"SBIN"}
    Bars = {b1, b2}
    None = None
    PartialCancels = FALSE
    Pipelines = {"live"}
    Dashboards = {}
    MaxPositions = 1
    MaxAttempts = 2
    EntryQty = 1
    HasCutoff = FALSE
    PendingStatuses = {"OPEN"}
    LostReplies = FALSE
    BestEffortFailures = FALSE
    LateSettlement = FALSE
    MaxOrders = 3
    MaxLegs = 2
    MaxGtts = 2
    MaxFailures = 0
    MaxDays = 0
CHECK_DEADLOCK FALSE
INVARIANT OneLiveBracket
