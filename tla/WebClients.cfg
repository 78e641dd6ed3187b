SPECIFICATION Spec
CONSTANTS
    RequestLen = 3  BufLen = 3  MaxAnswer = 4
INVARIANTS TypeOK AnswerToTheRequest KilledByIgnoredResult
PROPERTY EndsWhenTheServerActs
CHECK_DEADLOCK FALSE
