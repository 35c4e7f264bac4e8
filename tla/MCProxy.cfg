CONSTANTS
    Routes = {a}
    Capacity = 2
    RetryMax = 1
    MaxBatches = 4
SPECIFICATION FairSpec
INVARIANTS
    Accounted
    OnlyGivenUpOvertaken
PROPERTIES
    WorkersStop
    QueuesEmpty
