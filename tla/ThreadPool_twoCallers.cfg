CONSTANTS
    Callers = {c1, c2}
    Tasks = {t1, t2, t3}
    NoTask = NoTask
    MaxSize = 1
    MinSize = 1
    MaxWaits = 0
    Reluctant = {}
    Prompt = TRUE
SPECIFICATION Spec
INVARIANTS NoCrash
CHECK_DEADLOCK FALSE
