SPECIFICATION FairSpec
CONSTANTS
    Node = {n1, n2, n3}
    None = None
    MaxTerm = 2
    MaxElections = 2
    MaxCrash = 0
CHECK_DEADLOCK FALSE
PROPERTIES
    ImplementsTermElections
    ElectionEnds
    DeposedLeaderLeaves
    ImplementsClusterStatus
