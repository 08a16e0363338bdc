SPECIFICATION FairSpec
CHECK_DEADLOCK FALSE
CONSTANTS
    Executors = {e1}
    Queues = {q}
    NoExecutor = NoExecutor
    NoQueue = NoQueue
    NoOutput = NoOutput
    Workflows = {w1, w2}
    NoWorkflow = NoWorkflow
    NSteps = 1
    Tolerated = {}
    Values = {a}
    NoValue = NoValue
    MaxRetries = 0
    Timed = {}
    Tasks = {t1, t2}
    NoTask = NoTask
    MaxRecoveryAttempts = 1
    RecoverOnLaunch = TRUE
    Disruptions = {"crash", "recover"}
    MaxDisruptions = 2
INVARIANTS
    CapHolds
PROPERTIES
    Settles
