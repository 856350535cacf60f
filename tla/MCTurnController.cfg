\* A run in one tab, and another client that commits a turn and removes the thread.
CONSTANTS
    t1 = t1
    u1 = u1
    u2 = u2
    v1 = v1
    v2 = v2
    w1 = w1
    s1 = s1
    s2 = s2
    c1 = c1
    c2 = c2
    b1 = b1
    b2 = b2
    None = None
    Threads <- MCThreads
    TurnIds <- MCOneRunTurnIds
    Sources <- MCSources
    TurnCreatedAt <- MCAtStart
    TurnRank <- MCTurnRank
    TurnSources <- MCTurnSources
    TurnSupport <- MCNoSupport
    RetryOf <- MCNoRetry
    Request <- MCAtStart
    Grounded <- MCOneRunTurnIds
    Backup <- MCArchived
    Legacy <- MCArchived
    Clients <- MCClients
    Kinds <- MCOthers
    LegacyThreads <- MCThreads
    LegacyExpiry = 1
    Retention = 1
    MaxOps = 1
    MaxTime = 1
    Runs <- MCOneRun
    Tabs <- MCOneRunTab
    TabOf <- MCOneRunTabOf
    Shown = t1
    FullTurn <- MCOneRunFull
    BareTurn <- MCOneRunBare
    Endings <- MCEndings
    MaxRetries = 1
    Remote = TRUE
SPECIFICATION FairSpec
INVARIANTS
    ControllerTypeOK
    SavedTurnsStay
    RebasedTurnsLand
PROPERTIES
    EveryRunEnds
