SPECIFICATION Spec
CONSTANTS
    Users = {u1}
    Requests = {r1, r2}
    FourEyes = FALSE
    ReviewerExcluded = FALSE
    MaxStages = 2
    MaxTasks = 3
    MaxUpdates = 8
SYMMETRY Symmetry
PROPERTY
    DecisionsStand
CHECK_DEADLOCK FALSE
