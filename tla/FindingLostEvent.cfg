SPECIFICATION FairSpec
CONSTANTS
    Publications = {d}
    Draft = d
    NoPublication = NoPublication
    Handler = {h1}
    Operator = {o1}
    Caller = {h1, o1}
    MaxRequests = 3
    Faults = {"refusal"}
    MaxFaults = 1
PROPERTY
    EventuallyRests
CHECK_DEADLOCK FALSE
