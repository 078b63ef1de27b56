SPECIFICATION Spec
CONSTANTS
    Events <- MCEvents
    Drains = {"worker"}
    Workers = {"worker"}
    MaxAttempts = 1
    BatchSize = 1
    MaxReplays = 0
    MaxCrashes = 0
    MaxSkips = 0
    Orders = {"order"}
    Items = {"item"}
    MaxTickets = 2
    MaxRuns = 1
    HasWorkflow = TRUE
CONSTRAINT WithUrl
ACTION_CONSTRAINT KeepLetters
INVARIANTS
    TypeOK
    EventsMatchTickets
    ResolvedIsDone
PROPERTIES
    OutboxSpec
CHECK_DEADLOCK FALSE
