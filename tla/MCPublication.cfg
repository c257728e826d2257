SPECIFICATION PubSpec
CONSTANTS
    Publications = {p1}
    Caller = {c1, c2, c3}
    NoPublication = NoPublication
SYMMETRY Symmetry
INVARIANTS
    ApprovalGate
    RowsJustified
PROPERTY
    LifecycleKept
CHECK_DEADLOCK FALSE
