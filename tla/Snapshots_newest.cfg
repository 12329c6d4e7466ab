SPECIFICATION SnapshotsSpec
CONSTANTS
    Takers = {"timer"}
    Retention = 1
    MaxSeconds = 2
    MaxAi = 1
    MaxRefusals = 0
INVARIANT NewestAreKept
CHECK_DEADLOCK FALSE
