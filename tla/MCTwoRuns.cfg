\* Two submissions in one tab, with every ending.
CONSTANTS
    t1 = t1
    u1 = u1
    u2 = u2
    v1 = v1
    v2 = v2
    w1 = w1
    s1 = s1
    s2 = s2
    c1 = c1
    c2 = c2
    b1 = b1
    b2 = b2
    None = None
    Threads <- MCThreads
    TurnIds <- MCTurnIds
    Sources <- MCSources
    TurnCreatedAt <- MCAtStart
    TurnRank <- MCTurnRank
    TurnSources <- MCTurnSources
    TurnSupport <- MCSupportOfU2
    RetryOf <- MCNoRetry
    Request <- MCAtStart
    Grounded <- MCTurnIds
    Backup <- MCArchived
    Legacy <- MCLookup
    Clients <- MCClients
    Kinds <- MCOthers
    LegacyThreads <- MCThreads
    LegacyExpiry = 1
    Retention = 1
    MaxOps = 0
    MaxTime = 1
    Runs <- MCClients
    Tabs <- MCOneRunTab
    TabOf <- MCOneTab
    Shown = t1
    FullTurn <- MCFullTurn
    BareTurn <- MCBareTurn
    Endings <- MCEndings
    MaxRetries = 0
    Remote = FALSE
SPECIFICATION WorkspaceSpec
INVARIANTS
    SavedTurnsStay
    RebasedTurnsLand
