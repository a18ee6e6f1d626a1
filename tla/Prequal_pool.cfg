CONSTANTS
    Server = {s1, s2, s3}
    Handler = {h1, h2}
    PoolSize = 2
    AgeLimit = 0
    ProbeRate = 6
    RemoveRate = 1
    Drift = 1
    QNum = 84
    QDen = 100
    RIFs = {1}
    Latencies = {1}
    ProbeResult <- MCProbeResult
    MaxProbes = 1
    MaxTime = 1
SPECIFICATION Spec
SYMMETRY Symmetry
INVARIANTS Inv PoolBounded UseOvershootBounded
PROPERTIES EvictionSparesFresh ImplementsPool
