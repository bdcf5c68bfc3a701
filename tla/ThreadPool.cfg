CONSTANTS
    Callers = {c1}
    Tasks = {t1, t2, t3}
    NoTask = NoTask
    MaxSize = 2
    MinSize = 1
    MaxWaits = 1
    Reluctant = {}
    Prompt = TRUE
SPECIFICATION FairSpec
INVARIANTS PoolRight
PROPERTIES WorkIsDone
\* the caller may stop, and a process that died stays dead
CHECK_DEADLOCK FALSE
