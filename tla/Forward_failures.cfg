CONSTANTS
    Server = {s1, s2}
    BadAddress = {s2}
    Handler = {h1, h2}
    MaxRequests = 3
SYMMETRY Symmetry
SPECIFICATION Spec
INVARIANT FailuresCounted
CHECK_DEADLOCK FALSE
