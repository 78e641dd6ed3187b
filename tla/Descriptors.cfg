CONSTANTS
    Limit = 7
    CloseMayThrow = TRUE
    MaxTurns = 3
SPECIFICATION Spec
INVARIANTS
    TypeOK
    AnswersItsClient
    HarmNeedsAHit
    LeaksOnePerRelay
    ServerNeverFills
CHECK_DEADLOCK FALSE
