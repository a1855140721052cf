SPECIFICATION SchedulersSpec
CONSTANTS
    Rows <- MCRows
    Lookbacks = {0}
    Batch = 1
    Runners = {q1, q2}
    NoRunner = NoRunner
    NoMark = NoMark
    PauseThreshold = 1
    MaxFaults = 1
    MaxChanges = 3
    Workers = {w1, w2}
    Users = {u1}
    RetryLimit = 1
    MaxChanges_AI = 1
    MaxCommands = 1
    MaxOutages = 1
    MaxLosses = 1
INVARIANTS
    SchedulersTypeOK
    PassedIsCaptured
    ResultStands
PROPERTIES
    RowsArrive
    RequestsSettle
CHECK_DEADLOCK FALSE
