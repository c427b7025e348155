\* Balance billing with lost handlers and a racing reclaimer; a share whose credential may
\* vanish; a choice between grants that change.
SPECIFICATION MCLifecycleSpec
CONSTANTS
    Tenants = {t1}
    MaxParents = 1
    MaxChildren = 2
    Kinds = {"5h"}
    FiveHour = "5h"
    Models = {"m1", "m2"}
    Estimates = {2}
    Conversions = {}
    GrantInputs <- Grants
    ParentInputs <- AnyMode
    SyncReports <- InAndOut
    ProbeReports = {}
    TenantInputs = {}
    MaxTime = 1
    MaxGen = 1
    Requests = {r1, r2}
    WebSockets = {r2}
    Turns = {1, 2}
    Reserves = {0, 1}
    Costs = {1, 2}
    CreditAmounts = {1}
    MaxCredit = 1
    Amounts = {0, 1, 2, 3, 4}
    TTL = 1
INVARIANTS
    ChargesMatchDetails
PROPERTIES
    ImplementsStore
    SubscriptionBeforeBalance
    HoldsEnd
CHECK_DEADLOCK FALSE
