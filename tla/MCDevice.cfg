SPECIFICATION DeviceAuthorization
CONSTANTS
    b1 = b1
    b2 = b2
    Tenants = {t1, t2, t3}
    Keys = {k1}
    Grants = {a1}
    Invitations = {i1}
    GitHubIds = {g1}
    Browsers = {b1, b2}
    Deployments <- FreshOrInUse
    MaxVersion = 1
    None = None
    Purposes = {"inference", "account"}
    MaxRotation = 1
SYMMETRY Symmetry
INVARIANTS
    AccountsConsistent
    CutStaysCut
PROPERTIES
    BindsWithCurrentPassword
    GrantsKeepTheirPromise
CHECK_DEADLOCK FALSE
