SPECIFICATION Credentials
CONSTANTS
    Creds = {c1, c2}
    Stored = {c1}
    Compatible = {c2}
    Admins = {a1, a2}
    Operations = {"add", "update", "delete", "oauth", "catalog"}
    MaxToken = 3
    MaxCatalog = 2
    MaxFaults = 1
CONSTRAINT EventBound
SYMMETRY Symmetry
INVARIANTS
    
    RuntimeAndRowsAgree
    ParentsFollowCredentials
CHECK_DEADLOCK FALSE
