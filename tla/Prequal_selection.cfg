CONSTANTS
    Server = {s1, s2, s3}
    Handler = {h1}
    PoolSize = 3
    AgeLimit = 1
    ProbeRate = 1
    RemoveRate = 1
    Drift = 1
    QNum = 84
    QDen = 100
    RIFs = {1, 2}
    Latencies = {1, 2}
    ProbeResult <- MCProbeResult
    MaxProbes = 1
    MaxTime = 0
SYMMETRY Symmetry
SPECIFICATION Spec
INVARIANTS TypeOK UseOvershootBounded
PROPERTIES ChoiceNotDominated HotOnlyWhenColdUnhealthy RemovalNotDominating
