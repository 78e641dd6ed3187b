SPECIFICATION Spec
CONSTANTS
    i1 = i1  i2 = i2  s1 = s1  s2 = s2  Nobody = Nobody
    Intermediates = {i1, i2}  Servers = {s1}
    Lossy = TRUE  RcvBuf = 2  MaxStarts = 4
INVARIANTS TypeOK NeverAnswersTwice
PROPERTIES AnswersArePaidFor Silence
CHECK_DEADLOCK FALSE
