SPECIFICATION Spec
CONSTANTS
    i1 = i1  i2 = i2  s1 = s1  s2 = s2  Nobody = Nobody
    Intermediates = {i1}  Servers = {s1}
    Lossy = FALSE  RcvBuf = 2  MaxStarts = 2
PROPERTY Discovered
CHECK_DEADLOCK FALSE
