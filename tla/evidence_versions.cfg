SPECIFICATION Spec
CONSTANTS
    Workers = {w1}
    Clerks = {k1}
    Nobody = Nobody
    MaxAttempts = 1
    MaxVersions = 2
    MaxClaims = 2
    MaxHolds = 1
    MaxChecks = 1
    MaxCrashes = 0
INVARIANTS
    ActiveHasCurrent
    LineageIntact

CHECK_DEADLOCK FALSE
