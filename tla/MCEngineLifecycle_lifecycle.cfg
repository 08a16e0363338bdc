CONSTANTS
    Engines = {"e", "f"}
    NoEngine = NoEngine
    Scenarios <- All
    MaxLoops = 2
    MaxIds = 4
    Instants = {1, 3, 5}
SPECIFICATION Spec
INVARIANTS
    TickOnce
    NoOverlap
    NewestConfigKept
    
PROPERTIES
    TicksComplete
    PauseSticks
