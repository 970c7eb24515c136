CONSTANTS
    Sig = {14, 34}
    Sent = {14, 34}
    Installs <- LibcInstalls
    Masks <- RealTimeMasks
    MaxWaiting = 1
    MaxDepth = 2
SPECIFICATION MCSpec
INVARIANT MaskRestored
CHECK_DEADLOCK FALSE
