SPECIFICATION FairSpec
CONSTANTS
    Proofs = {p1}
    Providers = {"immediate"}
    Workers = {w1}
    Operators = {}
    MaxAttempts = 2
    MaxOperations = 0
    MaxCrashes = 1
    MaxSubmissions = 3
    Nobody = Nobody
    Departed = Departed
PROPERTY
    RestartResubmits
CHECK_DEADLOCK FALSE
