SPECIFICATION Spec
SYMMETRY Symmetry
CHECK_DEADLOCK FALSE
CONSTANTS
    Executors = {e1, e2}
    Queues = {q}
    NoExecutor = NoExecutor
    NoQueue = NoQueue
    NoOutput = NoOutput
    Workflows = {w1}
    NoWorkflow = NoWorkflow
    NSteps = 2
    Tolerated = {}
    Values = {a}
    NoValue = NoValue
    MaxRetries = 0
    Timed = {w1}
    Tasks = {t1, t2}
    NoTask = NoTask
    MaxRecoveryAttempts = 1
    RecoverOnLaunch = TRUE
    Disruptions = {"restart", "cancel", "resume", "recover", "timeout", "panic", "crash", "fault"}
    MaxDisruptions = 3
INVARIANTS
    LogSequential
    CancelledStaysCancelled
PROPERTIES
    QuietIsFinal
