SPECIFICATION FairSpec
CONSTANTS
    Symbols = {"SBIN"}
    Bars = {b1}
    None = None
    PartialCancels = TRUE
    Pipelines = {"live"}
    Dashboards = {}
    MaxPositions = 1
    MaxAttempts = 2
    EntryQty = 2
    HasCutoff = TRUE
    PendingStatuses = {"OPEN", "TRIGGER PENDING"}
    LostReplies = TRUE
    BestEffortFailures = TRUE
    LateSettlement = TRUE
    MaxOrders = 3
    MaxLegs = 2
    MaxGtts = 1
    MaxFailures = 0
    MaxDays = 1
INVARIANT NoOrderForgotten
PROPERTY TasksEnd
CHECK_DEADLOCK FALSE
