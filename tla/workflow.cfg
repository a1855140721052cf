SPECIFICATION Spec
CONSTANTS
    Users = {u1, u2}
    Requests = {r1, r2}
    FourEyes = TRUE
    ReviewerExcluded = TRUE
    MaxStages = 3
    MaxTasks = 3
    MaxUpdates = 8
SYMMETRY Symmetry
INVARIANTS
    TypeOK
    SeparateApprover
    DecidedIsRecorded
    ReviewedBeforeDecision
PROPERTY
    OneHolder
CHECK_DEADLOCK FALSE
