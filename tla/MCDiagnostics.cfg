CONSTANTS
    Capacity = 2
    MaxLines = 5
SPECIFICATION FairSpec
INVARIANTS
    LostLinesCounted
    NothingGlued
PROPERTIES
    GuardReturns
