SPECIFICATION SceneSpec
CONSTANTS
    Callers = {t1, t2}
    Second = t2
    Clerks = {k1}
    MaxAttempts = 2
    MaxCycles = 1
    MaxVersion = 2
    MaxLate = 1
    MaxExits = 1
INVARIANTS
    TypeOK
    SyncedWasShown
    AppliedOnce
    DecidedByWorkflow
PROPERTY
    NewestSettles
CHECK_DEADLOCK FALSE
