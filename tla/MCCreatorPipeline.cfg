SPECIFICATION Spec
CONSTANTS
    Publications = {d}
    Draft = d
    NoPublication = NoPublication
    Handler = {h1, h2}
    Operator = {o1}
    Caller = {h1, h2, o1, c1}
    MaxRequests = 3
    Faults = {"crash", "abort", "refusal", "limit", "command", "foreign"}
    MaxFaults = 1
SYMMETRY Symmetry
INVARIANTS
    GatedPublish
    StatusFits
PROPERTY
    StageOrder
CHECK_DEADLOCK FALSE
