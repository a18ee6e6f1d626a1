CONSTANTS
    N = 3
    Handler = {h1, h2, h3}
    Word = 16
    Latencies = {0, 2, 8}
    InitialEWMA = 4
    Scale = 8
    ANum = 1
    ADen = 2
    AtOnce <- MCAtOnce
    MaxProbes <- MCMaxProbes
    MaxRefresh = 2
SYMMETRY Symmetry
SPECIFICATION Spec
INVARIANTS TypeOK RotationFair LeastLoadedWithinDrift ShareWithinDrift EstimateInRange
