CONSTANTS
    t1 = t1
    t2 = t2
    t3 = t3
    Threads = {t1, t2, t3}
    Addr = {1, 2}
    Values = {0, 1}
    Blocking = {t3}
    Timed = {FALSE, TRUE}
    TidAddr = {2}
    Wakes = {0, 1}
    Moves = {1, 2}
    MaxQueue = 2
SPECIFICATION MCSpec
PROPERTY ExitWakesOne
CHECK_DEADLOCK FALSE
