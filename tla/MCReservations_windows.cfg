\* Three HTTP requests share a child with two windows; one request meets estimates,
\* conversions and idle probes over three generations.
SPECIFICATION WindowSpec
CONSTANTS
    Tenants = {t1}
    MaxParents = 1
    MaxChildren = 1
    Kinds = {"5h", "7d"}
    FiveHour = "5h"
    Models = {m1}
    Estimates = {2}
    Conversions = {1, 3}
    GrantInputs <- AnyShare
    ParentInputs <- Observed
    SyncReports = {}
    ProbeReports <- ClaudeProbes
    TenantInputs = {}
    MaxTime = 1
    MaxGen = 3
    Requests = {r1, r2, r3}
    WebSockets = {}
    Turns = {}
    Reserves = {1}
    Costs = {1}
    CreditAmounts = {1}
    MaxCredit = 1
    Amounts = {0, 1}
    TTL = 0
SYMMETRY RequestSymmetry
INVARIANTS
    WindowsExact
    ShareRespected
PROPERTIES
    GenerationsAdvance
CHECK_DEADLOCK FALSE
