SPECIFICATION Spec
CONSTANTS
    Proofs = {p1}
    Providers = {"immediate", "deferred"}
    Workers = {w1, w2}
    Operators = {o1}
    MaxAttempts = 2
    MaxOperations = 2
    MaxCrashes = 1
    MaxSubmissions = 3
    Nobody = Nobody
    Departed = Departed
SYMMETRY WorkerSymmetry
INVARIANTS
    TypeOK
    AnnouncedIsAnchored
    ConfirmedIsRecorded
    AttemptExclusive
    ConflictIsForeign
PROPERTIES
    ImplementsSaga
CHECK_DEADLOCK FALSE
