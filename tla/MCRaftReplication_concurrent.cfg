SPECIFICATION Spec
CONSTANTS
    Node = {n1, n2, n3}
    MaxTerm = 2
    MaxIndex = 2
    MaxInFlight = 2
SYMMETRY Symmetry
CHECK_DEADLOCK FALSE
INVARIANTS
    TypeOK
    
 
