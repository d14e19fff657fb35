SPECIFICATION MCSpec
CONSTANTS
    MaxIndex = 4
    MaxCrashes = 1
    MaxSnapshots = 1
    TruncateCount = 1
    Overlap = TRUE
    WriteFails = TRUE
INVARIANTS RestartPoint ReplicaComplete
PROPERTY CaughtUpAndAnswered
CHECK_DEADLOCK FALSE
