\* A session accrues a turn between the reclaimer's list and its settlement.
SPECIFICATION StaleSpec
CONSTANTS
    Tenants = {t1}
    MaxParents = 0
    MaxChildren = 0
    Kinds = {}
    FiveHour = "5h"
    Models = {"m1"}
    Estimates = {}
    Conversions = {}
    GrantInputs = {}
    ParentInputs = {}
    SyncReports = {}
    ProbeReports = {}
    TenantInputs = {FALSE}
    MaxTime = 1
    MaxGen = 2
    Requests = {r2}
    WebSockets = {r2}
    Turns = {1, 2}
    Reserves = {0}
    Costs = {2}
    CreditAmounts = {}
    MaxCredit = 0
    Amounts = {0, 2, 4}
    TTL = 1
INVARIANTS
    ExpiredChargeIsLogged
CHECK_DEADLOCK FALSE
