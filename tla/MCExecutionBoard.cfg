SPECIFICATION MCSpec
CONSTANTS
    e1 = e1
    e2 = e2
    d1 = d1
    d2 = d2
    bot = bot
    NoOwner = NoOwner
    Execution <- MCExecution
    Employee <- MCEmployee
    EmployeeOf <- MCEmployeeOf
    Capacity <- MCCapacity
    MaxAttempts <- MCMaxAttempts
    Dispatcher = {d1, d2}
    Causes = {"unavailable", "unknown"}
    Contextual <- MCExecution
    ContextWritable = TRUE
    MaxLeases = 4
SYMMETRY Symmetry
INVARIANTS
    BoardTypeOK
    RetryLedger
    AttemptBudget
    FencingSound
    DeadLetterExact
    CapacityRespected
PROPERTIES
    TerminalIsFinal
    LeaseHandover
    ImplementsLifecycle
CHECK_DEADLOCK FALSE
