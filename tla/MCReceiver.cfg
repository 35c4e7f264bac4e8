CONSTANTS
    Requests = {r1, r2, r3}
    MaxInflight = 1
    MaxWaiting = 1
SPECIFICATION LiveSpec
CHECK_DEADLOCK FALSE
INVARIANTS
    SlotsConserved
    RetryMeansUnsaved
    CleanExitDurable
PROPERTIES
    ShutdownCompletes
    RequestsSettle
