CONSTANTS
    Server = {s1, s2}
    Handler = {h1}
    PoolSize = 2
    AgeLimit = 1
    ProbeRate = 1
    RemoveRate = 1
    Drift = 1
    QNum = 84
    QDen = 100
    RIFs = {1}
    Latencies = {1}
    ProbeResult <- MCProbeResult
    MaxProbes = 2
    MaxTime = 0
SYMMETRY Symmetry
SPECIFICATION Spec
PROPERTY ChoiceHasSignals
