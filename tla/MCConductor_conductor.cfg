SPECIFICATION FairSpec
CONSTANTS
    resume = resume
    cancel = cancel
    Requests = {resume, cancel}
    Calls <- SomeCalls
    NoRequest = NoRequest
    PingInterval = 2
    PingTimeout = 3
    InitialWait = 1
    MaxWait = 3
    CloseDrainTimeout = 2
    Grace = 1
    MaxFaults = 3
    MaxStalls = 1
INVARIANTS
    RequestsWhole
PROPERTIES
    ShutdownEnds
    Answered
