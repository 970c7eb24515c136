CONSTANTS
    Harts = {h1}
    Areas <- MemAreas
    PAGE_SIZE = 2
    Width = 4
    NoFrame = NoFrame
    MaxRun = 4
    total_pages = 6
    MaxPages = 7
    LARGE_POOL_SIZE = 10
    LARGE_ALLOC_THRESHOLD = 1
    SWEEP_FREE = 2
    RESET_MIN = 2
    RESET_SMALL = 4
    RESET_HALF = 3
    HeapSizes = {2, 3}
    HeapAligns = {1, 2}
    HeapIds = {1, 2, 3, 4, 5}
    MaxAfterReset = 1
SPECIFICATION AllocSpec
INVARIANTS OneOwner ScanExact OverlapOnlyByReset RefusesOnlyFull
PROPERTIES HandedOutCleared
CHECK_DEADLOCK FALSE
