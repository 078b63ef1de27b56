SPECIFICATION Spec
CONSTANTS
    Orders = {"basic", "pro"}
    Users = {"user"}
    Buyer <- MCBuyer
    Kind <- MCKind
    Channel <- MCChannel
    Amount <- MCAmount
    Item <- MCItem
    EmployeePacks <- MCEmployeePacks
    Tier <- MCTier
    SvipTier = 2
    PlanQuota <- MCPlanQuota
    QuotaTypes = {"employee_count", "llm_calls"}
    UnitsPerYuan = 2
    Expirable = {}
    Polled = {}
    Legacy = {}
    MaxRefunds = 2
    MaxSpend = 2
    MaxExceptions = 1
    MaxLostMarks = 0
    MaxRows = 3
    NoRow = NoRow
INVARIANTS
    TypeOK
    BalanceMatchesLedger
    RefundsBounded
    ClawbackComplete
    GrantedOnce
    OneActivePlan
    RefundRevokes
PROPERTIES
    Settles
CHECK_DEADLOCK FALSE
