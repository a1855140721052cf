SPECIFICATION ServicesSpec
CONSTANTS
    Triggers = {t1}
    Cases = {k1, k2}
    Callers = {c1, c2}
    Publishers = {f1, f2}
    NoCase = NoCase
    NoTrigger = NoTrigger
    MaxReplays = 1
    MaxAbandons = 1
    MaxEvents = 3
    Ids = {1, 2, 3}
    EventIds = {e1}
    Jobs = {j1}
    Auditors = {a1, a2}
    NoId = NoId
    NoJob = NoJob
    MaxOffset = 2
    MaxTime = 3
    MaxRedeliveries = 1
    MaxExits = 1
    Logins = {l1}
    Tabs = {b1, b2}
    NoLogin = NoLogin
    MaxTokens = 4
    MaxUnheard = 1
    Versions = {v1}
    NoVersion = NoVersion
    Flushes = {g1, g2}
    MaxAppended = 2
    MaxSent = 3
    MaxRereads = 1
    EvidenceVersions = {x1}
    ProofIds = {1, 2, 3}
    Callers_CP = {u1}
    NoTarget = NoTarget
    PageSize = 1
    MaxDecisions = 2
    MaxRequestedAt = 1
    MaxChecks = 1
    Definitions = {d1, d2}
    Prompts = {q1}
    Editors = {h1, h2}
    MaxNumber = 2
    MaxContents = 2
    MaxPins = 1
INVARIANTS
    ServicesTypeOK
    QueuedOrSent
    StrandedOnlyByExit
    BreaksOnlyAtTies
    PassedIsKept
    SessionFollowsBrowser
    RevokedIsRefused
    SettledIsLatest
    ShownIsHeld
    PagedOnce
    GovernanceStands
PROPERTY
    JobEndsOnce
CHECK_DEADLOCK FALSE
