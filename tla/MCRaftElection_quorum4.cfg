SPECIFICATION Spec
CONSTANTS
    Node = {n1, n2, n3, n4}
    None = None
    MaxTerm = 1
    MaxElections = 1
    MaxCrash = 0
SYMMETRY Symmetry
CHECK_DEADLOCK FALSE
INVARIANTS
    WonByMajority
