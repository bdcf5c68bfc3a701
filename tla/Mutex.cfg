CONSTANTS
    Threads = {t1, t2, t3}
    NULL_THREAD = NULL_THREAD
    MaxDepth = 2
SPECIFICATION FairSpec
INVARIANTS MutualExclusion UnlockVerdict OneUnlockIsEnough
PROPERTIES ImplementsRecursiveLock WaiterProgress
