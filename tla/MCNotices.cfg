SPECIFICATION FairSpec
CONSTANTS
    Orders = {"recharge", "pro"}
    Users = {"user"}
    Buyer <- MCBuyer
    Kind <- MCKind
    Channel <- MCChannel
    Amount <- MCAmount
    Item <- MCItem
    EmployeePacks <- MCEmployeePacks
    Tier <- MCTier
    SvipTier = 2
    PlanQuota <- MCPlanQuota
    QuotaTypes = {"employee_count"}
    UnitsPerYuan = 2
    Expirable = {}
    Polled = {}
    Legacy = {}
    MaxRefunds = 1
    MaxSpend = 0
    MaxExceptions = 0
    MaxLostMarks = 0
    MaxRows = 3
    NoRow = NoRow
INVARIANTS
    AnsweredMeansHandled
PROPERTIES
    PaidEventuallyGranted
CHECK_DEADLOCK FALSE
