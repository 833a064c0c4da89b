SPECIFICATION Spec
CONSTANTS
    Handler = {h1, h2}
    LeaderLog <- MCLeaderLog
    LeaderCommit <- MCLeaderCommit
SYMMETRY Symmetry
CHECK_DEADLOCK FALSE
INVARIANTS
    Dense
    AckedHeld
    CommittedReadable
PROPERTY CommitFallsOnlyCrossing
