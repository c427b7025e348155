SPECIFICATION QuotaSync
CONSTANTS
    Probers = {p1, p2}
    Kinds = {"5h"}
    Providers = {"claude", "codex", "kimi", "xai", "other"}
    Waits = {0, 2}
    CacheTime = 2
    MaxDelay = 2
    MaxTime = 3
INVARIANTS
    ProbesKeepOrder
PROPERTIES
    RetryAfterKept
    ObservationsAdvance
    ProbesEnd
CHECK_DEADLOCK FALSE
