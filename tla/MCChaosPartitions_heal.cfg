SPECIFICATION Spec
CONSTANTS
    Service = {s1, s2}
    Request = {q1, q2}
    Healer = {h1, h2}
CHECK_DEADLOCK FALSE
INVARIANTS
    TypeOK
    PartitionRemembered
PROPERTIES
    AutoHeals
