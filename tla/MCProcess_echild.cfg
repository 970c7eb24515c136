CONSTANTS
    MaxTask = 3
    MaxSent = 2
    Codes = {3}
    KillSigs = {9}
    CatchSigs = {12}
    CloneSigs = {17}
SPECIFICATION Spec
PROPERTY WaitWithoutChildEnds
CHECK_DEADLOCK FALSE
