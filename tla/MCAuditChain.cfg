SPECIFICATION FairSpec
CONSTANTS
    api = api
    worker = worker
    login = login
    memory = memory
    publish = publish
    ws = ws
    NoWorkspace = NoWorkspace
    NoOne = NoOne
    Process = {api, worker}
    First = {api}
    Operation = {login, memory, publish}
    ProcessOf <- MCProcessOf
    WorkspaceOf <- MCWorkspaceOf
    OutcomeOf <- MCOutcomeOf
    Closed = {login, memory}
    Clock = {1}
    Limits = {0, 3}
    DefaultPageSize = 1
    MaxPageSize = 2
    MaxFaults = 1
INVARIANTS
    ChainVerifies
    EditsDetected
    SuccessIsRecorded
    PagesComplete
PROPERTY
    AppendsAnswered
CHECK_DEADLOCK FALSE
