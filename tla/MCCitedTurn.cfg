\* A run in one tab whose turn rests on one of the thread, and another client that
\* imports a backup of the thread from before that turn.
CONSTANTS
    t1 = t1
    u1 = u1
    u2 = u2
    v1 = v1
    v2 = v2
    w1 = w1
    s1 = s1
    s2 = s2
    c1 = c1
    c2 = c2
    b1 = b1
    b2 = b2
    None = None
    Threads <- MCThreads
    TurnIds <- MCCitingTurnIds
    Sources <- MCSources
    TurnCreatedAt <- MCAtStart
    TurnRank <- MCTurnRank
    TurnSources <- MCTurnSources
    TurnSupport <- MCSupportOfU1
    RetryOf <- MCNoRetry
    Request <- MCAtStart
    Grounded <- MCCitingTurnIds
    Backup <- MCArchived
    Legacy <- MCLookup
    Clients <- MCClients
    Kinds <- MCImports
    LegacyThreads <- MCThreads
    LegacyExpiry = 1
    Retention = 1
    MaxOps = 1
    MaxTime = 0
    Runs <- MCOneRun
    Tabs <- MCOneRunTab
    TabOf <- MCOneRunTabOf
    Shown = t1
    FullTurn <- MCOneRunFull
    BareTurn <- MCOneRunBare
    Endings <- MCTerminal
    MaxRetries = 0
    Remote = FALSE
SPECIFICATION WorkspaceSpec
INVARIANTS
    CitingTurnsLand
