SPECIFICATION Spec
CHECK_DEADLOCK FALSE
CONSTANTS
    Focuses <- AllFocuses
    Filters <- SomeFilters
    Period = 2
    Timeout = 5
    MaxEntries = 2
INVARIANTS
    SameReplies
    SameReads
    GcSpares
    
