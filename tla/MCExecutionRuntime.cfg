SPECIFICATION Spec
CONSTANTS
    bot = bot
    Attempts = 1
    Cap = 1
    Execution = {e1}
    Employee = {bot}
    EmployeeOf <- MCEmployeeOf
    Capacity <- MCCapacity
    MaxAttempts <- MCMaxAttempts
    Dispatcher = {d1, d2}
    Handler = {h1, h2}
    NoOwner = NoOwner
    NoFence = NoFence
    NoMessage = NoMessage
    WorkerId = w1
    Causes = {"unavailable", "unknown", "deadline_exceeded", "worker_lease_expired"}
    ProviderErrors = {"unavailable", "unknown"}
    Contextual = {e1}
    ContextWritable = TRUE
    MaxFaults = 1
SYMMETRY Symmetry
INVARIANTS
    FencesGranted
    SingleDelivery
PROPERTIES
    ImplementsBoard
CHECK_DEADLOCK FALSE
