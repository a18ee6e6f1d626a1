CONSTANTS
    Periodic = {p1, p2, p3, p4}
    Triggered = {t1}
    Interval = 1
    Timeout = 2
    Start = 2
SPECIFICATION Spec
INVARIANTS TypeOK ProbesBounded
PROPERTIES HealthDetects GaugeDetects HealthFollows
