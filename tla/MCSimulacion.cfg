SPECIFICATION Spec
CONSTANTS
    Goat = Goat  Horse = Horse  Camel = Camel
    GoatDesc = GoatDesc  HorseDesc = HorseDesc  CamelDesc = CamelDesc
    Names = {Goat, Horse, Camel}  Describe <- MCDescribe
    Question = Camel  NotFound = NotFound  Nothing = Nothing
    Marks = {0, 1, 2}
INVARIANTS TypeOK NeverAllWaiting
PROPERTIES FollowsTheFlow EndsUnlessOneFails
CHECK_DEADLOCK FALSE
