SPECIFICATION Spec
CONSTANTS
    PageSize = 2
    Fds = {1, 2}
    NodeIds = {1, 2, 3, 4, 5, 6, 7, 8, 9}
    NFrames = 2
    Args <- MCArgs
    NewName <- MCNewName
    Sizes = {1, 3}
    MaxSize = 4
    MaxEntries = 1
    MaxSteps = 4
CHECK_DEADLOCK FALSE
INVARIANTS NoStaleBytes LengthBacked
PROPERTIES UnlinkedIsGone ListingExact
