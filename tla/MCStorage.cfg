CONSTANTS
    Batches = {b1, b2, b3, b4}
    Days = {d1, d2}
    Width = 3
SPECIFICATION Spec
SYMMETRY Symm
CHECK_DEADLOCK TRUE
INVARIANTS
    LinesWhole
    AnswersHonest
PROPERTIES
    RotationLeavesSafe
    ImplementsStore
