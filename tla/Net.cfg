CONSTANTS
    MaxConns = 3
    Started = 1
    MaxSize = 2
    Monitors = {"m1"}
    Workers = {"w1", "w2"}
    MaxFtps = 1
    Objs = {"o1", "o2"}
    Fds = {3, 4}
    MaxSockets = 4
    MaxIncoming = 2
    Bytes = {"a", "n"}
    Delims <- LineEnds
    Counts = {1, 3}
    MaxSent = 5
    Chunk = 2
    Low = 1
    MaxBuffer = 5
    Round = 2
    Word = 2
SPECIFICATION NetSpec
INVARIANTS StreamIntact DescriptorsSound AnswersRight ServerRight CollectedOnce
PROPERTIES ServersGoOn
\* peers, clients and users may stop, and bounds end every behaviour
CHECK_DEADLOCK FALSE
