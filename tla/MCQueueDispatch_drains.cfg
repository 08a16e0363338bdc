SPECIFICATION FairSpec
CONSTANTS
    Executors = {e1, e2}
    Queues = {q}
    NoExecutor = NoExecutor
    NoQueue = NoQueue
    NoOutput = NoOutput
    Jobs = {j1, j2}
    Queue = q
    Partitions = {p1, p2}
    Priorities = {1, 2}
    DedupIds = {d1}
    NoDedup = NoDedup
    Versions = {v1, v2}
    NoVersion = NoVersion
    Unlimited = Unlimited
    MaxTasksPerIteration = 2
    MaxRecoveryAttempts = 5
    MaxTime = 0
    NoTime = NoTime
    MaxDisruptions = 2
    Fleets <- DrainFleets
    e1 = e1
    e2 = e2
    v1 = v1
    v2 = v2
    d1 = d1
PROPERTY Drains
CHECK_DEADLOCK FALSE
