SPECIFICATION FairSpec
CONSTANTS
    bot = bot
    Attempts = 2
    Cap = 1
    Execution = {e1}
    Employee = {bot}
    EmployeeOf <- MCEmployeeOf
    Capacity <- MCCapacity
    MaxAttempts <- MCMaxAttempts
    Dispatcher = {d1}
    Handler = {h1}
    NoOwner = NoOwner
    NoFence = NoFence
    NoMessage = NoMessage
    WorkerId = w1
    Causes = {"unavailable", "unknown", "deadline_exceeded", "worker_lease_expired"}
    ProviderErrors = {"unavailable", "unknown"}
    Contextual = {e1}
    ContextWritable = TRUE
    MaxFaults = 1
PROPERTIES
    EventuallyTerminal
CHECK_DEADLOCK FALSE
