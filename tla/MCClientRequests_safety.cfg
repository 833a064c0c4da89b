SPECIFICATION Spec
CONSTANTS
    Request = {r1, r2}
    Other = other
    MaxTerm = 5
    MaxIndex = 3
SYMMETRY Symmetry
CHECK_DEADLOCK FALSE
INVARIANTS
    
    NotifierOwned
    
