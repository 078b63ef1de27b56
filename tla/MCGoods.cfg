SPECIFICATION Spec
CONSTANTS
    Orders = {"pack", "old"}
    Users = {"user"}
    Buyer <- MCBuyer
    Kind <- MCKind
    Channel <- MCChannel
    Amount <- MCAmount
    Item <- MCItem
    EmployeePacks <- MCEmployeePacks
    Tier <- MCTier
    SvipTier = 2
    PlanQuota <- MCPlanQuota
    QuotaTypes = {"employee_count"}
    UnitsPerYuan = 2
    Expirable = {}
    Polled = {}
    Legacy = {"old"}
    MaxRefunds = 2
    MaxSpend = 2
    MaxExceptions = 1
    MaxLostMarks = 1
    MaxRows = 3
    NoRow = NoRow
INVARIANTS
    ClawbackComplete
    RefundRevokes
CHECK_DEADLOCK FALSE
