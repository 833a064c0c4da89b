SPECIFICATION TrackerSpec
CONSTANTS
    Replica = {n1, n2}
    None = none
    MaxTerm = 2
CHECK_DEADLOCK FALSE
INVARIANTS
    TrackedHasLed
PROPERTY StableLeaderTracked
