SPECIFICATION FairSpec
CONSTANTS
    Producers = {a, b, c}
    NoProducer = NoProducer
    Delays = {2}
    Timeouts = {0, 2}
    AckTimeout = 1
    MaxStalls = 1
INVARIANTS
    AcceptedIsTaken
    InputTakenOnce
    RunsLatest
    CapHolds
PROPERTIES
    EveryCallRuns
