------------------------------- MODULE Health -------------------------------
(***************************************************************************)
(* The recorded health of one backend: Server.IsHealthy and the gauge      *)
(* lb_server_health, written by the goroutines of the periodic prober and  *)
(* of the probes that requests trigger.  Each probe is an HTTP call with a *)
(* timeout; calls overlap and their results land in any order.  Backends   *)
(* do not interact here, so one stands for each.                           *)
(*                                                                         *)
(* Time counts ticks.  A goroutine of the balancer whose call has returned *)
(* takes its steps within the tick.                                        *)
(***************************************************************************)
EXTENDS Integers, FiniteSets

CONSTANTS
    Periodic,        \* goroutines of probeAllServers, enough that one is free
    Triggered,       \* bound: goroutines of triggerAsyncProbes at once
    Interval,        \* Config.ProbeInterval
    Timeout,         \* Config.ProbeTimeout
    Start            \* from StartBackground to the first tick of the prober

Probe == Periodic \cup Triggered

\* Old results land for at most a timeout.  The first probe after that is sent
\* within an interval and may take a timeout of its own.
Lag == Timeout + Interval + Timeout

ASSUME HealthAssumption ==
    /\ IsFiniteSet(Periodic) /\ IsFiniteSet(Triggered) /\ Periodic \cap Triggered = {}
    /\ Interval \in Nat \ {0} /\ Timeout \in Nat
    /\ Start \in 0..(Timeout + Interval)

VARIABLES
    up,              \* whether the backend answers /health with 200
    stable,          \* ticks since that last changed, counted up to Lag + 1
    healthy,         \* Server.IsHealthy
    gauge,           \* whether lb_server_health is 1
    due,             \* ticks to the next one of the prober's ticker
    phase,           \* where each probe goroutine is
    left,            \* ticks to the deadline of its context
    may              \* the results its call can return

probes == <<phase, left, may>>
vars == <<up, stable, healthy, gauge, due, probes>>

\* AddServer in main: healthy before any probe; the gauge does not exist yet.
Init ==
    /\ up \in BOOLEAN /\ stable = 0
    /\ healthy = TRUE /\ gauge = FALSE
    /\ due = Start
    /\ phase = [p \in Probe |-> "idle"]
    /\ left = [p \in Probe |-> 0]
    /\ may = [p \in Probe |-> {}]

-----------------------------------------------------------------------------
\* The backend, and time.

\* The backend stops or comes back.  A call under way has met both states and
\* may return either: its answer is on the way, or the connection is broken,
\* or it hangs until the deadline.
Flip ==
    /\ up' = ~up /\ stable' = 0
    /\ may' = [p \in Probe |-> IF phase[p] = "sent" THEN BOOLEAN ELSE may[p]]
    /\ UNCHANGED <<healthy, gauge, due, phase, left>>

Min0(n) == IF n > 0 THEN n - 1 ELSE 0

Tick ==
    /\ due > 0
    /\ \A p \in Probe : phase[p] = "idle" \/ (phase[p] = "sent" /\ left[p] > 0)
    /\ due' = due - 1
    /\ left' = [p \in Probe |-> Min0(left[p])]
    /\ stable' = IF stable > Lag THEN stable ELSE stable + 1
    /\ UNCHANGED <<up, healthy, gauge, phase, may>>

-----------------------------------------------------------------------------
\* Probes.

\* Slip: a client with no timeout but that of the next batch.
SendPatient(p) ==
    /\ phase[p] = "idle"
    /\ phase' = [phase EXCEPT ![p] = "sent"]
    /\ left' = [left EXCEPT ![p] = Timeout + Interval]
    /\ may' = [may EXCEPT ![p] = {up}]

\* probeServer sends GET /health under a context with ProbeTimeout.
Send(p) ==
    /\ phase[p] = "idle"
    /\ phase' = [phase EXCEPT ![p] = "sent"]
    /\ left' = [left EXCEPT ![p] = Timeout]
    /\ may' = [may EXCEPT ![p] = {up}]

\* A tick of runPeriodicProber: the goroutine it starts does not wait for the
\* ones before it.
ProbeAll ==
    /\ due = 0
    /\ due' = Interval
    /\ \E p \in Periodic : Send(p)
    /\ UNCHANGED <<up, stable, healthy, gauge>>

\* A request draws this server in triggerAsyncProbes.
Trigger(p) == Send(p) /\ UNCHANGED <<up, stable, healthy, gauge, due>>

End(p, to, results) ==
    /\ phase' = [phase EXCEPT ![p] = to]
    /\ left' = [left EXCEPT ![p] = 0]
    /\ may' = [may EXCEPT ![p] = results]

\* Slip: an unhealthy result is dropped, as a triggered probe drops it.
RecordHealthyOnly(p, r) ==
    /\ phase[p] = "sent" /\ r \in may[p]
    /\ healthy' = (healthy \/ r)
    /\ End(p, "publish", {r})
    /\ UNCHANGED <<up, stable, gauge, due>>

\* probeServer returns r to a periodic probe, which records it under lb.mu.
Record(p, r) ==
    /\ phase[p] = "sent" /\ r \in may[p]
    /\ healthy' = r
    /\ End(p, "publish", {r})
    /\ UNCHANGED <<up, stable, gauge, due>>

\* Slip: the gauge is set where the result was healthy only.
PublishHealthyOnly(p) ==
    /\ phase[p] = "publish"
    /\ gauge' = (gauge \/ TRUE \in may[p])
    /\ End(p, "idle", {})
    /\ UNCHANGED <<up, stable, healthy, due>>

\* After the unlock: lb_server_health is set to what this probe saw.
Publish(p) ==
    /\ phase[p] = "publish"
    /\ gauge' \in may[p]
    /\ End(p, "idle", {})
    /\ UNCHANGED <<up, stable, healthy, due>>

\* Slip: it goes on to the gauge.
RecordTriggeredPublished(p, r) ==
    /\ phase[p] = "sent" /\ r \in may[p]
    /\ healthy' = (healthy \/ r)
    /\ End(p, "publish", {r})
    /\ UNCHANGED <<up, stable, gauge, due>>

\* The same of a triggered probe, which gives up on an unhealthy result and
\* sets no gauge.
RecordTriggered(p, r) ==
    /\ phase[p] = "sent" /\ r \in may[p]
    /\ healthy' = (healthy \/ r)
    /\ End(p, "idle", {})
    /\ UNCHANGED <<up, stable, gauge, due>>

-----------------------------------------------------------------------------
Next ==
    \/ Flip
    \/ Tick
    \/ ProbeAll
    \/ \E p \in Periodic, r \in BOOLEAN : Record(p, r)
    \/ \E p \in Periodic : Publish(p)
    \/ \E p \in Triggered : Trigger(p)
    \/ \E p \in Triggered, r \in BOOLEAN : RecordTriggered(p, r)

\* Time goes on, the ticker fires, every call returns by its deadline and the
\* goroutine goes on.  Nothing is assumed of the backend or of requests.
Fairness ==
    /\ WF_vars(Tick) /\ WF_vars(ProbeAll)
    /\ \A p \in Periodic : WF_vars(Publish(p) \/ \E r \in BOOLEAN : Record(p, r))
    /\ \A p \in Triggered : WF_vars(\E r \in BOOLEAN : RecordTriggered(p, r))

Spec == Init /\ [][Next]_vars /\ Fairness

-----------------------------------------------------------------------------
\* Properties.

\* Every variable has its type.  A call under way can return the present state of
\* the backend, and only periodic probes get to the gauge.
TypeOK ==
    /\ up \in BOOLEAN /\ stable \in 0..(Lag + 1)
    /\ healthy \in BOOLEAN /\ gauge \in BOOLEAN
    /\ due \in Nat
    /\ phase \in [Probe -> {"idle", "sent", "publish"}]
    /\ left \in [Probe -> Nat]
    /\ may \in [Probe -> SUBSET BOOLEAN]
    /\ \A p \in Probe : phase[p] = "sent" => up \in may[p]
    /\ \A p \in Triggered : phase[p] # "publish"

\* Every tick starts a goroutine without waiting for the last one, also when the
\* backend hangs: the timeout alone keeps their number down.
ProbesBounded ==
    Cardinality({p \in Periodic : phase[p] # "idle"}) <= (Timeout \div Interval) + 1

\* Late results overwrite newer ones (balancer.go:166-167), and triggered probes
\* only ever report success.  Still IsHealthy is a detector: once the backend has
\* been up, or down, for a ProbeTimeout no verdict changes to the wrong one, and
\* after two of them and an interval the verdict is right.
HealthOf == INSTANCE Detector WITH Memory <- Timeout, view <- healthy
HealthDetects == HealthOf!Spec

\* lb_server_health is set outside the lock (180-184), so its stores need not be
\* in the order of those to IsHealthy, but it keeps the same promise.
GaugeOf == INSTANCE Detector WITH Memory <- Timeout, view <- gauge
GaugeDetects == GaugeOf!Spec

\* A backend that comes back is used again, and one that is gone is not.
HealthFollows ==
    /\ <>[]up => <>[](healthy /\ gauge)
    /\ <>[]~up => <>[](~healthy /\ ~gauge)
=============================================================================
