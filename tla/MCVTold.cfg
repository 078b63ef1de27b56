SPECIFICATION Spec
CONSTANTS
    Events <- MCEvents
    Drains = {}
    Workers = {}
    MaxAttempts = 1
    BatchSize = 2
    MaxReplays = 0
    MaxCrashes = 0
    MaxSkips = 0
    Orders = {"order"}
    Items = {"item"}
    MaxTickets = 1
    MaxRuns = 1
    HasWorkflow = TRUE
INVARIANTS
    ToldIsRecorded
CHECK_DEADLOCK FALSE
