CONSTANTS
    Callers = {c1}
    Tasks = {t1, t2}
    NoTask = NoTask
    MaxSize = 2
    MinSize = 2
    MaxWaits = 2
    Reluctant = {}
    Prompt = TRUE
SPECIFICATION Spec
INVARIANTS WaitAllMeansDone
CHECK_DEADLOCK FALSE
