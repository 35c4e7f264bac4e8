CONSTANTS
    Short = {s1, s2}
    Long = l
    Sync = Sync
    Batches <- MCBatches
    Size <- MCSize
    Capacity = 1
    MaxBytes = 3
    IsStdout = TRUE
SPECIFICATION FairSpec
INVARIANTS
    BytesExact
    DropsNoticed
    SummariesMonotone
PROPERTIES
    DrainEnds
