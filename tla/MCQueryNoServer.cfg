SPECIFICATION Spec
CONSTANTS
    NUL = NUL  JUNK = JUNK  GET = GET  SP = SP
    NotFound = NotFound  InvalidRequest = InvalidRequest
    Error500 = Error500  Error504 = Error504
    c1 = c1  c2 = c2  c3 = c3  x = x  y = y
    Letters = {x, y}
    Good <- MCGood  Bad <- MCBad  Size <- MCSize
    Clients = {c1, c2}
    WithArgument = {}
    Asks <- FigureAsks
    ClientLen = 1  RequestLen = 4  ResponseLen = 2
    ListenQueue = 2  PsQueue = 1
    TestCases = {0}  CloseMayThrow = FALSE  MaxStarts = 1
INVARIANT NoServerIsAnError
CHECK_DEADLOCK FALSE
