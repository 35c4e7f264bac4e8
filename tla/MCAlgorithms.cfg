CONSTANTS
    Chunk = 3
    MaxLen = 8
    Interval = 4
    Quiet = 2
    MaxTime = 10
    Width = 3
    LargestDouble = 9
    UsageBuckets <- MCBuckets
    Points <- MCPoints
    Holders = {1, 2}
    MaxReports = 2
    Records <- MCRecords
    JsonValues <- MCJsonValues
SPECIFICATION MCSpec
CHECK_DEADLOCK FALSE
INVARIANTS
    CutsBehindLastNewline
    LastWordIsTrue
    CountersAgree
    TextStaysInLine
    EscapedOnce
    NonFiniteKept
