CONSTANTS
    Server = {s1, s2}
    BadAddress = {s2}
    Handler = {h1, h2, h3}
    MaxRequests = 4
SYMMETRY Symmetry
SPECIFICATION Spec
INVARIANTS TypeOK InFlightExact Ledger
CHECK_DEADLOCK FALSE
