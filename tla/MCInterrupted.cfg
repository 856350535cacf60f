\* One run alone, whose stream breaks after a research state.
CONSTANTS
    t1 = t1
    u1 = u1
    u2 = u2
    v1 = v1
    v2 = v2
    w1 = w1
    s1 = s1
    s2 = s2
    c1 = c1
    c2 = c2
    b1 = b1
    b2 = b2
    None = None
    Threads <- MCThreads
    TurnIds <- MCOneRunTurnIds
    Sources <- MCSources
    TurnCreatedAt <- MCAtStart
    TurnRank <- MCTurnRank
    TurnSources <- MCTurnSources
    TurnSupport <- MCNoSupport
    RetryOf <- MCNoRetry
    Request <- MCAtStart
    Grounded <- MCOneRunTurnIds
    Backup <- MCArchived
    Legacy <- MCArchived
    Clients <- MCClients
    Kinds <- MCOthers
    LegacyThreads <- MCThreads
    LegacyExpiry = 1
    Retention = 1
    MaxOps = 0
    MaxTime = 0
    Runs <- MCOneRun
    Tabs <- MCOneRunTab
    TabOf <- MCOneRunTabOf
    Shown = t1
    FullTurn <- MCOneRunFull
    BareTurn <- MCOneRunBare
    Endings <- MCInterruptedEndings
    MaxRetries = 1
    Remote = FALSE
SPECIFICATION WorkspaceSpec
INVARIANTS
    BlockedMeansGone
