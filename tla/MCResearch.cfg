\* One research of a short thread; three turns of history for the context.
CONSTANTS
    MaxPacks = 2
    MaxCandidates = 3
    Initial = 2
    MaxSources = 3
    Workers = 2
    SearchResults <- MCSearchResults
    Root = 0
    Questions <- MCQuestions
    Queries = {0, 1}
    Decompositions <- MCDecompositions
    Claims <- MCClaims
    Budget <- MCBudget
    MaxDepth = 2
    MaxTurns = 3
    MaxChars = 12
    MaxPerSource = 4
    MaxTotal = 11
    MinPart = 2
    KnownPerTurn = 2
    CiteCost = 2
    MaxResults = 2
    MaxThread = 3
    Histories <- MCHistories
    Asks <- MCAsks
    Texts <- MCTexts
SPECIFICATION Spec
CHECK_DEADLOCK FALSE
INVARIANTS
    TypeOK
    ContextFits
    ComfortableThreadsServe
    BudgetsHold
    ActiveIsStack
    GapsDecided
    SufficientIsEarned
    StopIsTrue
    KnowledgeTravels
    OnePackPerSource
    ReferencesClosed
    AnswerIsWhole
PROPERTIES
    ResearchEnds
