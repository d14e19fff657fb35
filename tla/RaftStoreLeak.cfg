SPECIFICATION FairSpec
CONSTANTS
    MaxIndex = 3
    MaxCrashes = 0
    MaxSnapshots = 0
    TruncateCount = 1
    Overlap = TRUE
    WriteFails = FALSE
PROPERTY FlushAnswered
CHECK_DEADLOCK FALSE
