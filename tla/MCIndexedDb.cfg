\* Two tabs and one thread, three operations of every kind.
CONSTANTS
    t1 = t1
    u1 = u1
    u2 = u2
    u3 = u3
    s1 = s1
    s2 = s2
    c1 = c1
    c2 = c2
    None = None
    Threads <- MCThreads
    TurnIds <- MCTurnIds
    Sources <- MCSources
    TurnCreatedAt <- MCTurnCreatedAt
    TurnRank <- MCTurnRank
    TurnSources <- MCTurnSources
    TurnSupport <- MCTurnSupport
    RetryOf <- MCRetryOf
    Request <- MCRequest
    Grounded <- MCTurnIds
    Backup <- MCBackup
    Legacy <- MCLegacy
    Clients <- MCClients
    Kinds <- MCKinds
    LegacyThreads <- MCThreads
    LegacyExpiry = 1
    Retention = 1
    MaxOps = 3
    MaxTime = 2
SPECIFICATION Spec
SYMMETRY Symmetry
INVARIANTS
    TypeOK
    OneFace
    RevisionsIdentify
    BuildsValidThreads
    NoFalseCorruption
    IndexComplete
PROPERTIES
    CommitsOnlyExtend
    RefinesHistory
