SPECIFICATION Spec
CONSTANTS
    Node = {n1, n2, n3}
    None = None
    MaxTerm = 2
    MaxElections = 2
    MaxCrash = 1
SYMMETRY Symmetry
CONSTRAINT NoneRestartedTwice
CHECK_DEADLOCK FALSE
INVARIANTS
    VoteOnce
    OneWinnerPerTerm
    SplitBrainOnlyThroughWindow
    TermsPersist
    IndInv
