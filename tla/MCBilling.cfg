SPECIFICATION FairSpec
CONSTANTS
    Chats = {"short", "long"}
    Metered = {"first", "second"}
    Reserve <- MCReserve
    Actual <- MCActual
    Funds = 4
    Total = 1
    MaxTimeouts = 2
    MaxFaults = 1
    MaxResets = 1
INVARIANTS
    TypeOK
    BalanceIsBooked
    ChargeBounded
    HoldMatchesBookings
    AnsweredIsPaid
    CountedWithinQuota
PROPERTIES
    HoldsClose
CHECK_DEADLOCK FALSE
