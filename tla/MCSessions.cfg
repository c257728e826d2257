SPECIFICATION Spec
CONSTANTS
    Clients = {c1, c2}
    Founder = "founder"
    Accounts = {"anna", "mika"}
    HomeOf <- MCHomeOf
    Workspaces = {"w1", "w2"}
    NoWorkspace = NoWorkspace
    WorkspaceNames = {n1}
    refreshSweepThreshold = 2
    refreshEvictBatch = 1
    MaxAccounts = 1
    MaxTokens = 3
SYMMETRY Symmetry
INVARIANTS
    ReplayEndsFamily
    LateRefused
    StoreBounded
    TenantConfined
PROPERTIES
    DeadStayDead
