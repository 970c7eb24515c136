CONSTANTS
    Harts = {h1, h2}
    MaxTask = 4
SPECIFICATION ExecSpec
INVARIANTS Exclusive
PROPERTIES NoOvertaking PoolSpec
CHECK_DEADLOCK FALSE
