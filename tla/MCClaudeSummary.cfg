SPECIFICATION Spec
CONSTANTS
    Samples = {s1, s2}
    Bares = {Unknown, opus}
    Variants = {v1m, v2m}
    Efforts = {}
    Plain = Plain
    Empty = Empty
    Unknown = Unknown
CHECK_DEADLOCK FALSE
PROPERTIES
    SummaryOnChange
