SPECIFICATION Spec
CONSTANTS
    Stroke = {s1, s2}
    MaxConns = 2
    MaxLog = 3
    QueueSize = 2
SYMMETRY Symmetry
CHECK_DEADLOCK FALSE
INVARIANTS
    Converged
    OwnStrokesStay
    UndoStackDistinct
    BroadcastNeverPanics
