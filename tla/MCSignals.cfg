CONSTANTS
    Sig = {10, 11, 14, 34}
    Sent = {10, 34}
    Installs <- SomeInstalls
    Masks <- RealTimeMasks
    MaxWaiting = 1
    MaxDepth = 2
SPECIFICATION MCSpec
INVARIANTS RealTimeConserved MaskLeaksOnlyByDrop HandlersDoNotNest
PROPERTIES Delivered ExitNoticed
CHECK_DEADLOCK FALSE
