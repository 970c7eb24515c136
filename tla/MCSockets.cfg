SPECIFICATION BothSpec
CONSTANTS
    Ports = {1, 2, 3, 4, 5}
    Ephemeral = {3, 4, 5}
    SrvIds = {1, 2, 3}
    ConnIds = {1, 2, 3, 4}
    Tasks = {"t1", "t2"}
    SockIds = {1, 2, 3, 4, 5}
    NFds = 4
    BindPorts = {1, 2}
    ReadSizes = {1}
    WriteSizes = {2}
    MaxCalls = 4
    IpcKeys = {1}
    MaxIpcKey = 3
    PRIVATE_BASE = 1
    max_bytes = 3
    max_messages = 3
    MsgTypes = {1, 2}
    MsgSizes = {0, 1, 2}
    MsgAsks <- SomeAsks
    SemCounts = {0, 1}
    SemValues = {0, 1}
    MaxIpc = 6
CHECK_DEADLOCK FALSE
INVARIANTS StreamConserved StuckOnlyAfterEnd HaltOnlyUnpaired TypesInOrder
PROPERTIES ReplacedOnlyByLateAccept
