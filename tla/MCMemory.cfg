CONSTANTS
    Procs = {p1, p2}
    First = p1
    NFrames = 8
    NPages = 14
    ElfPages = {1, 2}
    ImageStart = 2
    ImageLen = 1
    HeapPages = {3, 4}
    GapPages = {5}
    ShmStart = 7
    StackStart = 9
    StackLen = 2
    MapStart = 11
    HeapGrow = 2
    LowWater = 1
    BufferLen = 1
    NFilePages = 2
    Keys = {k1}
    MaxAttach = 2
    Touch = {0, 1, 3, 5, 8, 10, 11}
    Starts = {11}
    Cuts = {10, 11, 12}
    Lens = {1, 3}
    Offsets = {0, 1}
    MaxSteps = 4
    MaxMaps = 1
SPECIFICATION Spec
INVARIANTS WritableExclusive
PROPERTIES DanglingOnlyBySplit WriteBackInPlace AutoPlacementFree
CHECK_DEADLOCK FALSE
