CONSTANTS
    EmptyText = EmptyText
    BadKeys = {"bad key"}
    BadTexts = {"control"}
    MaxPermits = 2000
    BinaryKeys = {"x-bin"}
    NonAsciiTexts = {"accent"}
    GrpcTimeoutMax = 9000
    Inits = {"init1", "init2"}
    Worlds <- AllWorlds
    Writers = {w1, w2}
    Hours24 = 4
    MaxTime = 11
    MaxBatches = 3
    LogKeepDays = 0
    LocalDate <- Ordinary
SPECIFICATION MCSpec
SYMMETRY Symm
CHECK_DEADLOCK FALSE
INVARIANTS
    DryRunAgrees
    ProbeHarmless
    InitKeepsExisting
    ConfigReachesServe
    OverriddenIsInert
    ServiceRoutedOnce
    Retained
