SPECIFICATION Spec
CONSTANTS
    Orders = {"basic"}
    Users = {"user"}
    Buyer <- MCBuyer
    Kind <- MCKind
    Channel <- MCChannel
    Amount <- MCAmount
    Item <- MCItem
    EmployeePacks <- MCEmployeePacks
    Tier <- MCTier
    SvipTier = 2
    PlanQuota <- MCPlanQuota
    QuotaTypes = {"employee_count"}
    UnitsPerYuan = 2
    Expirable = {"basic"}
    Polled = {}
    Legacy = {}
    MaxRefunds = 1
    MaxSpend = 1
    MaxExceptions = 0
    MaxLostMarks = 0
    MaxRows = 3
    NoRow = NoRow
CONSTRAINT FewRows
INVARIANTS
    SweptGrantedOnce
CHECK_DEADLOCK FALSE
