SPECIFICATION Spec
CONSTANTS
    Ids = {"p", "q"}
    Topics = {"a", "b"}
    Keys = {"k"}
    NoKey = NoKey
    MaxSlots = 6
    Scenarios <- TransferTwice
    Tasks = {t1, t2, t3}
    Names <- FunctionNames
    NoId = NoId
    NoTask = NoTask
    Backstop = 1
    MaxTxRetries = 1
INVARIANT EffectsOnce
