CONSTANTS
    MaxTask = 3
    MaxSent = 2
    Codes = {256}
    KillSigs = {9}
    CatchSigs = {12}
    CloneSigs = {17}
SPECIFICATION Spec
INVARIANTS ReleaseAssert NoZombieLost CleanedQuiet StrandedOnlyByMain
PROPERTIES TreeSpec ExitEndsThreads WaitReturns
CHECK_DEADLOCK FALSE
