CONSTANTS
    Probe = {p1, p2, p3, p4}
    Times = {0, 1}
    RIFs = {1, 2}
    Latencies = {1, 2}
    Signal <- MCSignal
    Threshold = {0, 1, 2}
    PoolSize = 3
    MaxUses = 1
    Overshoot = 1
SYMMETRY Symmetry
SPECIFICATION Spec
INVARIANTS TypeOK WorstLoopCorrect ChoiceLoopCorrect QuantileLoopCorrect
PROPERTY RefinesPool
