SPECIFICATION Spec
CONSTANTS
    MaxTerm = 2
    MaxIndex = 3
    MaxLines = 6
    MaxCrash = 2
CHECK_DEADLOCK FALSE
INVARIANTS
    TypeOK
    LastRecordIsCurrent
    Dense
PROPERTIES
    CommittedFrozen
    RestartRestores
