CONSTANTS
    Threads = {"t1", "t2"}
    Names = {"a"}
    Priorities = {2, 9}
    INFO = 2
    FATAL = 9
    MaxCalls = 4
    MaxOutputs = 3
    None = "none"
    Processes = {"o1", "o2"}
    Pids = {"p1", "p2"}
    Codes = {"0"}
    Tries = 2
    MaxStrangers = 1
    Nobody = "nobody"
    Numbers = {1, 2}
    MaxBirths = 4
    MaxRefreshes = 3
    FsObjects = {"d", "f"}
    Dirs = {"d"}
    MaxChanges = 3
    MaxWatchCalls = 4
    FileNames = {"a", "b", "c"}
    MaxEvents = 3
    Machines <- Computers
    Callers = {"t1", "t2"}
    Boot = 86398
    Wrap = 4
    MaxTime = 3
    Keywords = {"a"}
    Values = {1}
    MaxTriggers = 3
    MaxFeeds = 2
    Uid = 7
    OtherIds = {7, 9}
    MaxSeq = 2
    MaxWait = 2
    MaxPackets = 2
    Hosts = {"a", "b"}
    Distance <- Away
    AttemptsPerHop = 2
    MaxTraces = 2
    MaxHops = 2
SPECIFICATION SystemSpec
INVARIANTS LoggerRight ChildrenRight ListedRight FilesRight WatchRight DirectoryRight SystemInfoRight TriggersRight TraceRight
PROPERTIES DestroyEnds WaitEnds
\* processes end, files are closed, and bounds end every behaviour
CHECK_DEADLOCK FALSE
