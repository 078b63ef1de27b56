SPECIFICATION FairOutbox
CONSTANTS
    Events = {"first", "second"}
    Drains = {"worker", "admin"}
    Workers = {"worker"}
    MaxAttempts = 2
    BatchSize = 1
    MaxReplays = 1
    MaxCrashes = 1
    MaxSkips = 1
INVARIANTS
    OutboxTypeOK
    DispatchedWasReceived
    GaveUpAfterMax
    AttemptsBounded
PROPERTIES
    EventSettles
CHECK_DEADLOCK FALSE
