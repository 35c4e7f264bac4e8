SPECIFICATION Spec
CONSTANTS
    Samples = {s1, s2}
    Services = {tui}
    Conversations = {c1, c2}
    Providers = {azure}
    Models = {gpt}
    Efforts = {high}
    OpenAI = OpenAI
    Empty = Empty
    Unknown = Unknown
    NoSession = NoSession
SYMMETRY Symmetry
INVARIANTS
    FirstSourceCounts
    PendingUntilKnown
PROPERTIES
    SettlesUnderSession
    KnownStaysKnown
    SummaryOnChange
