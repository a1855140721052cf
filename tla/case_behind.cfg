SPECIFICATION Spec
CONSTANTS
    Callers = {t1}
    Clerks = {k1}
    MaxAttempts = 2
    MaxCycles = 1
    MaxVersion = 2
    MaxLate = 0
    MaxExits = 0
INVARIANT
    CaughtUp
CHECK_DEADLOCK FALSE
