SPECIFICATION Spec
CONSTANTS
    Orders = {"basic", "pro"}
    Users = {"user"}
    Buyer <- MCBuyer
    Kind <- MCKind
    Channel <- MCChannel
    Amount <- MCAmount
    Item <- MCItem
    EmployeePacks <- MCEmployeePacks
    Tier <- MCTier
    SvipTier = 2
    PlanQuota <- MCPlanQuota
    QuotaTypes = {"employee_count"}
    UnitsPerYuan = 2
    Expirable = {"basic", "pro"}
    Polled = {"basic"}
    Legacy = {}
    MaxRefunds = 1
    MaxSpend = 0
    MaxExceptions = 1
    MaxLostMarks = 0
    MaxRows = 2
    NoRow = NoRow
CONSTRAINT FewRows
INVARIANTS
    BalanceMatchesLedger
    NoValueWithoutPayment
    OneActivePlan
CHECK_DEADLOCK FALSE
