SPECIFICATION Spec
CONSTANTS
    Stroke = {s1}
    Undo = {u1}
    Task = {t1, t2, t3}
    MaxSends = 3
CHECK_DEADLOCK FALSE
INVARIANTS
    LoggedOnce
    NothingLostSilently
PROPERTY ItemsSettle
