SPECIFICATION FairSpec
CONSTANTS
    Workers = {w1, w2}
    Clerks = {k1}
    Nobody = Nobody
    MaxAttempts = 2
    MaxVersions = 1
    MaxClaims = 4
    MaxHolds = 0
    MaxChecks = 0
    MaxCrashes = 1
INVARIANTS
    TypeOK
    CurrentIsVerified
    NothingStranded
PROPERTY
    UploadsSettle
CHECK_DEADLOCK FALSE
