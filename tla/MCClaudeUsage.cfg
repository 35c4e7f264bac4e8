SPECIFICATION Spec
CONSTANTS
    Samples = {s1, s2, s3, s4}
    Bares = {Unknown, opus}
    Variants = {v1m, v2m}
    Efforts = {}
    Plain = Plain
    Empty = Empty
    Unknown = Unknown
SYMMETRY Symmetry
CHECK_DEADLOCK FALSE
INVARIANTS
    OneSourceCounts
    NamesResolved
