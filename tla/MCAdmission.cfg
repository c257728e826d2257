SPECIFICATION Spec
CONSTANTS
    first = first
    again = again
    other = other
    plain = plain
    full = full
    ann = ann
    bob = bob
    key = key
    NoKey = NoKey
    NoRequest = NoRequest
    Request <- MCRequest
    Employee = {ann, bob}
    EmployeeOf <- MCEmployeeOf
    KeyOf <- MCKeyOf
    PayloadOf <- MCPayloadOf
    Capacity <- MCCapacity
    Contextual <- MCContextual
    ContextWritable = FALSE
    MaxTries = 1
INVARIANTS
    KeyUnique
    CapacityHeld
    AnswersOwn
CHECK_DEADLOCK FALSE
