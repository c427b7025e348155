\* Three callers for two slots, one place in the queue and two bytes, with the breaker on and
\* leases that may never end.
SPECIFICATION FairAdmissionControl
CONSTANTS
    Callers = {c1, c2, c3}
    MaxInFlight = 2
    MaxQueue = 1
    BodyLimit = 2
    BodySizes = {0, 2}
    Waits = TRUE
    FailureThreshold = 1
INVARIANTS
    ResourcesExact
    ProbeOwned
PROPERTIES
    AcquireAnswers
