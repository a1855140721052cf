SPECIFICATION Spec
CONSTANTS
    Workers = {w1}
    Clerks = {k1}
    Nobody = Nobody
    MaxAttempts = 1
    MaxVersions = 2
    MaxClaims = 2
    MaxHolds = 0
    MaxChecks = 0
    MaxCrashes = 0
INVARIANTS
    CurrentStaysReadable

CHECK_DEADLOCK FALSE
