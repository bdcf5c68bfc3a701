CONSTANTS
    MaxConns = 1
    Started = 1
    MaxSize = 2
SPECIFICATION Spec
INVARIANTS NoCrash
CHECK_DEADLOCK FALSE
