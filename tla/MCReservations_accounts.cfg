\* Two tenants with shared grants, a session and an HTTP request; and a session whose child
\* moves between two parents that may vanish.
SPECIFICATION AccountSpec
CONSTANTS
    Tenants = {t1, t2}
    MaxParents = 2
    MaxChildren = 2
    Kinds = {"5h"}
    FiveHour = "5h"
    Models = {m1}
    Estimates = {}
    Conversions = {3}
    GrantInputs <- AnyShare
    ParentInputs <- AnyMode
    SyncReports <- InService
    ProbeReports = {}
    TenantInputs = {FALSE}
    MaxTime = 0
    MaxGen = 2
    Requests = {r1, r2}
    WebSockets = {r1}
    Turns = {1}
    Reserves = {1}
    Costs = {1, 2}
    CreditAmounts = {1}
    MaxCredit = 1
    Amounts = {0, 1, 2}
    TTL = 0
SYMMETRY TenantSymmetry
INVARIANTS
    OwnChild
    ChildHasParent
    LedgerExact
    BalanceExact
PROPERTIES
    FinishedForever
CHECK_DEADLOCK FALSE
