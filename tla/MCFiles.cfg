SPECIFICATION Spec
CONSTANTS
    Tasks = {"t1", "t2", "t3"}
    Procs = {"p", "q"}
    ProcOf <- MCProcOf
    Mains = {"t1", "t3"}
    Forked = {"q"}
    FileIds = {1, 2, 3, 4, 5, 6}
    Chans = {1, 2}
    FILE_MAX = 4
    Limits = {2, 5}
    DupTargets = {1, 4}
    ReadSizes = {0, 1}
    WriteSizes = {1, 2, 3}
    SMALL = 1
    PIPE_BUFFER_SIZE = 2
    PAIR_SIZE = 1
    Watches <- MCWatches
    MaxQueue = 4
    MaxChars = 1
    MaxCalls = 4
CHECK_DEADLOCK FALSE
INVARIANTS DescriptorsKnown
PROPERTIES EofReachesReader WriterProgress WaitNotices
