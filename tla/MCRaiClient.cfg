SPECIFICATION RaiClient
CONSTANTS
    b1 = b1
    Tenants = {t1}
    Keys = {}
    Grants = {a1}
    Invitations = {}
    GitHubIds = {}
    Browsers = {b1}
    t1 = t1
    Deployments <- OneUser
    MaxVersion = 0
    None = None
    Purposes = {"inference"}
    MaxRotation = 2
    Helpers = {h1, h2}
    Logins = {l1}
    Logouts = {o1}
    KeyringEnabled = TRUE
    Faults = {"crash", "lost", "keyring"}
INVARIANTS
    NoGrantWasted
PROPERTIES
    CommandsEnd
CHECK_DEADLOCK FALSE
