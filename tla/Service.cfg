CONSTANTS
    Own = {o1, o2}
    Background = {b1, b2}
    Request <- MCRequest
    Probe = {p1}
    MaxConc = 1
SPECIFICATION ServiceSpec
INVARIANTS TypeOK TokensExact ServiceTypeOK RIFsReconcile
PROPERTIES EveryRequestAnswered ForwardedEnd
