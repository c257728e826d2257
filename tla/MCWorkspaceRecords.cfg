SPECIFICATION Spec
CONSTANTS
    a = a
    b = b
    x = x
    y = y
    Null = Null
    Gone = Gone
    Workspace = {a, b}
    Caller = {c1, c2}
    WorkspaceOf <- MCWorkspaceOf
    Id = {1, 2, 3}
    Name = {x, y}
    Instants = {1, 2}
    MaxRequests = 3
    MaxFaults = 1
    Task = {7}
    FirstDepartments <- MCDepartments
    FirstTeams <- MCTeams
    FirstEmployees <- MCEmployees
    FirstTasks <- MCTasks
    FirstDocuments <- MCDocuments
    Scenarios <- MCScenarios
    PageSize = 1
SYMMETRY Symmetry
INVARIANTS
    RecordsTypeOK
    OrganizationSound
    EmbeddingFits
    StatusEarned
    SuccessAudited
    WalkComplete
PROPERTY
    RowsStayPut
CHECK_DEADLOCK FALSE
