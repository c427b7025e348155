SPECIFICATION ClientConfig
CONSTANTS
    Originals <- MCOriginals
    Versions = {"r1", "r2"}
    Clients = {"agent", "codex"}
    Processes = {p1, p2}
    MaxCommands = 3
    MaxEdits = 1
    MaxFaults = 1
INVARIANTS
    NoForeignCredential
    NothingLeftBehind
CHECK_DEADLOCK FALSE
