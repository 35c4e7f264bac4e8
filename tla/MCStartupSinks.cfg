CONSTANTS
    EmptyText = EmptyText
    BadKeys = {"bad key"}
    BadTexts = {"control"}
    MaxPermits = 2000
    BinaryKeys = {"x-bin"}
    NonAsciiTexts = {"accent"}
    GrpcTimeoutMax = 9000
    Inits = {"init1", "init2"}
    Worlds <- LayerWorlds
SPECIFICATION Spec
CHECK_DEADLOCK FALSE
INVARIANTS
    FlagBeatsVariable
