\* One turn over a connection that may break, with every signal valid or not.
CONSTANTS
    MaxFrames = 2
    MaxChars = 3
    Batch = 2
    MaxEvents = 7
    MaxPhases = 2
    MaxFragments = 4
    FragmentSizes <- MCFragmentSizes
SPECIFICATION FairSpec
INVARIANTS
    TypeOK
    EndsAgree
    GoodTurnsSurvive
    LossIsReal
    DraftHasState
PROPERTIES
    StreamEnds
    LossEndsExecution
