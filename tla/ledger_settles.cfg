SPECIFICATION FairSpec
CONSTANTS
    Proofs = {p1, p2}
    Providers = {"immediate"}
    Workers = {w1}
    Operators = {o1}
    MaxAttempts = 2
    MaxOperations = 2
    MaxCrashes = 0
    MaxSubmissions = 5
    Nobody = Nobody
    Departed = Departed
PROPERTY
    Settles
CHECK_DEADLOCK FALSE
