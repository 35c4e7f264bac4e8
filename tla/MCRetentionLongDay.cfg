CONSTANTS
    Writers = {w1}
    Hours24 = 48
    MaxTime = 96
    MaxBatches = 1
    LogKeepDays = 1
    LocalDate <- LongDay
SPECIFICATION RetentionSpec
INVARIANTS
    Retained
