------------------------------ MODULE Prequal ------------------------------
(***************************************************************************)
(* One load balancer running the Prequal algorithm: the probe pool, the    *)
(* server health it keeps, and the goroutines that share them, namely the  *)
(* periodic prober, one goroutine per probe, one per request being         *)
(* assigned, and the worst-probe remover.  A step is what a goroutine does *)
(* between two accesses to shared state: under ProbePool.mu, under         *)
(* LoadBalancer.mu, or the unlocked read of Server.IsHealthy.              *)
(***************************************************************************)
EXTENDS PoolOps

CONSTANTS
    Server,          \* the registered backends (fixed once main has started)
    Handler,         \* request goroutines that can be in selectPrequal at once
    PoolSize,        \* Config.ProbePoolSize
    AgeLimit,        \* Config.ProbeAgeTimeout, in clock ticks
    ProbeRate,       \* int(Config.ProbeRatePerQuery)
    RemoveRate,      \* Config.ProbeRemoveRate
    Drift,           \* Config.DriftRate
    QNum, QDen,      \* Config.QRIF as a fraction
    ProbeResult,     \* what probeServer can return
    MaxProbes,       \* bound: probes of one server in a behaviour
    MaxTime          \* bound: clock ticks in a behaviour

NoRIF == -1          \* serverRIF of a probe that read no X-RIF header

ASSUME ConstantsAssumption ==
    /\ IsFiniteSet(Server)
    /\ IsFiniteSet(Handler) /\ Handler # {}
    /\ PoolSize \in Nat \ {0} /\ AgeLimit \in Nat
    /\ ProbeRate \in Nat /\ RemoveRate \in Nat /\ Drift \in Nat
    /\ QNum \in Nat /\ QDen \in Nat \ {0}
    /\ ProbeResult \subseteq [isHealthy : BOOLEAN, rif : Int, latency : Nat]
    /\ MaxProbes \in Nat /\ MaxTime \in Nat

\* The i-th probe of a server.  It names the goroutine, the HTTP call and the
\* *ProbeEntry the goroutine may create.
Probe == Server \X (1..MaxProbes)
ServerOf(p) == p[1]

MaxUses == Breuse(Cardinality(Server), PoolSize, ProbeRate, RemoveRate, Drift)

VARIABLES
    now,             \* the monotonic clock
    healthy,         \* Server.IsHealthy
    phase,           \* where each probe goroutine is
    periodic,        \* the probes started by probeAllServers
    entry,           \* the ProbeEntry of each probe
    pool,            \* ProbePool.entries
    pc,              \* where each request goroutine is
    snap,            \* selectPrequal: entries, the fresh ones it copied
    todo,            \* selectPrequal: the part of snap the loop has not reached
    cand,            \* selectPrequal: hot and cold, the part it found healthy
    removing,        \* runProbeRemover is between its two pool calls
    threshold,       \* runProbeRemover: threshold
    removeToggle     \* LoadBalancer.removeToggle

probeVars   == <<healthy, phase, periodic>>
requestVars == <<pc, snap, todo, cand>>
removerVars == <<removing, threshold, removeToggle>>
vars == <<now, healthy, phase, periodic, entry, pool, pc, snap, todo, cand,
          removing, threshold, removeToggle>>

NoServer == "none"   \* a nil *Server

\* A probe spawned at time t, before its result is known.
NewEntry(t) == [timestamp |-> t, rif |-> NoRIF, latency |-> 0, useCount |-> 0]

Init ==
    /\ now = 0
    /\ healthy = [s \in Server |-> TRUE]
    /\ phase = [p \in Probe |-> "unused"]
    /\ periodic = {}
    /\ entry = [p \in Probe |-> NewEntry(0)]
    /\ pool = {}
    /\ pc = [h \in Handler |-> "idle"]
    /\ snap = [h \in Handler |-> {}]
    /\ todo = [h \in Handler |-> {}]
    /\ cand = [h \in Handler |-> {}]
    /\ removing = FALSE
    /\ threshold = 0
    /\ removeToggle = FALSE

-----------------------------------------------------------------------------
\* Probing.

Unused(s) == {i \in 1..MaxProbes : phase[<<s, i>>] = "unused"}

\* Slip: a probe resets the entries its server already has in place.
SpawnInPlace(T) ==
    LET started == {p \in Probe : /\ ServerOf(p) \in T
                                  /\ p[2] \in Unused(ServerOf(p))
                                  /\ \A i \in Unused(ServerOf(p)) : p[2] <= i}
    IN  /\ phase' = [p \in Probe |-> IF p \in started THEN "sent" ELSE phase[p]]
        /\ entry' = [p \in Probe |-> IF ServerOf(p) \in T THEN NewEntry(now) ELSE entry[p]]

\* Start one probe goroutine for every server of T.  A server with no probe
\* left gets none: its call would be one that never answers.
Spawn(T) ==
    LET started == {p \in Probe : /\ ServerOf(p) \in T
                                  /\ p[2] \in Unused(ServerOf(p))
                                  /\ \A i \in Unused(ServerOf(p)) : p[2] <= i}
    IN  /\ phase' = [p \in Probe |-> IF p \in started THEN "sent" ELSE phase[p]]
        /\ entry' = [p \in Probe |-> IF p \in started THEN NewEntry(now) ELSE entry[p]]

\* A tick of runPeriodicProber: probeAllServers.
ProbeAll ==
    /\ \E s \in Server : Unused(s) # {}
    /\ Spawn(Server)
    /\ periodic' = periodic \cup {p \in Probe : phase'[p] # phase[p]}
    /\ UNCHANGED <<now, healthy, pool, requestVars, removerVars>>

\* Slip: the two signals exchanged when the entry is built.
RecordedSwapped(r, firedAt) ==
    [timestamp |-> firedAt, rif |-> r.latency, latency |-> r.rif, useCount |-> 0]

\* The &ProbeEntry{...} of a probe result.
Recorded(r, firedAt) ==
    [timestamp |-> firedAt, rif |-> r.rif, latency |-> r.latency, useCount |-> 0]

\* probeServer returns r and the goroutine records the health under lb.mu.  A
\* probe that a request triggered gives up on an unhealthy result instead.
\* firedAt is the time the goroutine first ran, at or after the time it was
\* spawned and before the answer.
Respond(p, r) ==
    /\ phase[p] = "sent"
    /\ \/ /\ p \in periodic \/ r.isHealthy
          /\ phase' = [phase EXCEPT ![p] = "adding"]
          /\ healthy' = [healthy EXCEPT ![ServerOf(p)] = r.isHealthy]
          /\ \E firedAt \in entry[p].timestamp..now :
                entry' = [entry EXCEPT ![p] = Recorded(r, firedAt)]
       \/ /\ p \notin periodic /\ ~r.isHealthy
          /\ phase' = [phase EXCEPT ![p] = "dropped"]
          /\ UNCHANGED <<healthy, entry>>
    /\ UNCHANGED <<now, periodic, pool, requestVars, removerVars>>

\* ProbePool.Add of the entry, whose MaxUses is the constant computeBreuse().
Add(p) ==
    /\ phase[p] = "adding"
    /\ phase' = [phase EXCEPT ![p] = "done"]
    /\ pool' \in AfterAdd(pool, entry, p, PoolSize)
    /\ UNCHANGED <<now, healthy, periodic, entry, requestVars, removerVars>>

-----------------------------------------------------------------------------
\* Serving a request: ServeHTTP up to the return of SelectServer.

\* ServeHTTP spawns triggerAsyncProbes, which draws ProbeRate distinct servers.
Arrive(h) ==
    /\ pc[h] = "idle"
    /\ \E T \in kSubset(Min({ProbeRate, Cardinality(Server)}), Server) : Spawn(T)
    /\ pc' = [pc EXCEPT ![h] = "select"]
    /\ UNCHANGED <<now, healthy, periodic, pool, snap, todo, cand, removerVars>>

\* selectPrequal calls pool.Fresh(); with fewer than two entries it falls back
\* to selectRandom.
TakeFresh(h) ==
    LET fresh == FreshAt(pool, entry, now, AgeLimit)
    IN  /\ pc[h] = "select"
        /\ IF Cardinality(fresh) < 2
           THEN /\ pc' = [pc EXCEPT ![h] = "random"]
                /\ UNCHANGED <<snap, todo>>
           ELSE /\ pc' = [pc EXCEPT ![h] = "classify"]
                /\ snap' = [snap EXCEPT ![h] = fresh]
                /\ todo' = [todo EXCEPT ![h] = fresh]
        /\ UNCHANGED <<now, probeVars, entry, pool, cand, removerVars>>

\* One iteration of the classification loop: e.Server.IsHealthy is read with
\* no lock held, so every iteration may see another health.
Classify(h, p) ==
    /\ pc[h] = "classify"
    /\ p \in todo[h]
    /\ todo' = [todo EXCEPT ![h] = @ \ {p}]
    /\ cand' = [cand EXCEPT ![h] = IF healthy[ServerOf(p)] THEN @ \cup {p} ELSE @]
    /\ UNCHANGED <<now, probeVars, entry, pool, pc, snap, removerVars>>

\* The hot/cold boundary of a request: the quantile over its whole snapshot.
RIFThreshold(h) == RifQuantile(snap[h], entry, QNum, QDen)

\* SelectServer returns and the locals of selectPrequal go out of scope.
Return(h) ==
    /\ pc' = [pc EXCEPT ![h] = "idle"]
    /\ snap' = [snap EXCEPT ![h] = {}]
    /\ todo' = [todo EXCEPT ![h] = {}]
    /\ cand' = [cand EXCEPT ![h] = {}]

\* Slip: > where the code has >=.
SpentLate(uses) == uses > MaxUses

\* MarkUsed: the entry has reached its reuse budget.
Spent(uses) == uses >= MaxUses

\* The loop is over: p is chosen by the HCL rule, and pool.MarkUsed(p) removes
\* it if it has reached its budget (and is still in the pool).  The server
\* returned is ServerOf(p).
MarkUsed(h, p) ==
    /\ pc[h] = "classify" /\ todo[h] = {}
    /\ p \in Preferred(cand[h], entry, RIFThreshold(h))
    /\ entry' = [entry EXCEPT ![p].useCount = @ + 1]
    /\ pool' = IF Spent(entry'[p].useCount) THEN pool \ {p} ELSE pool
    /\ Return(h)
    /\ UNCHANGED <<now, probeVars, removerVars>>

\* The servers healthyServersLocked may leave selectRandom to draw from.
RandomTarget ==
    LET up == {s \in Server : healthy[s]} IN IF up = {} THEN {NoServer} ELSE up

\* selectRandom returns s: the pool was too thin, or no candidate was healthy.
SelectRandom(h, s) ==
    /\ \/ pc[h] = "random"
       \/ pc[h] = "classify" /\ todo[h] = {} /\ cand[h] = {}
    /\ s \in RandomTarget
    /\ Return(h)
    /\ UNCHANGED <<now, probeVars, entry, pool, removerVars>>

-----------------------------------------------------------------------------
\* The worst-probe remover, a goroutine of its own.

\* A tick of runProbeRemover: currentRIFThreshold takes pool.mu and lets it go.
ScanThreshold ==
    /\ ~removing
    /\ removing' = TRUE
    /\ threshold' = RifQuantile(FreshAt(pool, entry, now, AgeLimit), entry, QNum, QDen)
    /\ removeToggle' = ~removeToggle
    /\ UNCHANGED <<now, probeVars, entry, pool, requestVars>>

\* pool.RemoveWorst(threshold, removeToggle), on the pool as it is by then.
RemoveWorst ==
    /\ removing
    /\ removing' = FALSE
    /\ threshold' = 0
    /\ pool' \in AfterRemoveWorst(pool, entry, threshold, removeToggle)
    /\ UNCHANGED <<now, probeVars, entry, requestVars, removeToggle>>

Tick ==
    /\ now < MaxTime
    /\ now' = now + 1
    /\ UNCHANGED <<probeVars, entry, pool, requestVars, removerVars>>

-----------------------------------------------------------------------------
Next ==
    \/ Tick
    \/ ProbeAll
    \/ \E p \in Probe : Add(p)
    \/ \E p \in Probe, r \in ProbeResult : Respond(p, r)
    \/ \E h \in Handler : Arrive(h) \/ TakeFresh(h)
    \/ \E h \in Handler, p \in Probe : Classify(h, p) \/ MarkUsed(h, p)
    \/ \E h \in Handler, s \in Server \cup {NoServer} : SelectRandom(h, s)
    \/ ScanThreshold
    \/ RemoveWorst

Spec == Init /\ [][Next]_vars

-----------------------------------------------------------------------------
\* Properties.

Entry == [timestamp : Nat, rif : Int, latency : Nat, useCount : Nat]

\* Every variable has its type.
TypeOK ==
    /\ now \in Nat
    /\ healthy \in [Server -> BOOLEAN]
    /\ phase \in [Probe -> {"unused", "sent", "adding", "done", "dropped"}]
    /\ periodic \subseteq Probe
    /\ entry \in [Probe -> Entry]
    /\ pool \subseteq Probe
    /\ pc \in [Handler -> {"idle", "select", "random", "classify"}]
    /\ snap \in [Handler -> SUBSET Probe]
    /\ todo \in [Handler -> SUBSET Probe]
    /\ cand \in [Handler -> SUBSET Probe]
    /\ removing \in BOOLEAN
    /\ threshold \in Int
    /\ removeToggle \in BOOLEAN

\* However many probe goroutines call ProbePool.Add at once, the pool never
\* outgrows its configured size ("Bounded ProbePool").
PoolBounded == Cardinality(pool) <= PoolSize

\* MarkUsed removes a spent entry from the pool, but a request that copied the
\* entry before it was spent still uses it.  So an entry in the pool is below
\* its budget, and one that has left it overshoots by at most one use for each
\* other request that was selecting at the time.
UseOvershootBounded ==
    /\ \A p \in pool : entry[p].useCount < MaxUses
    /\ \A p \in Probe : entry[p].useCount <= MaxUses + Cardinality(Handler) - 1

\* The requests that have p in the snapshot they are selecting from.
Holders(p) == {h \in Handler : p \in snap[h]}

\* A request classifies and chooses within its snapshot, which is empty at any
\* other time.
SnapshotOK ==
    \A h \in Handler : /\ cand[h] \subseteq snap[h]
                       /\ todo[h] \subseteq snap[h]
                       /\ pc[h] # "classify" => snap[h] = {}

\* Nobody has used or knows an entry that is not yet added.
UnaddedUnknown ==
    \A p \in Probe : phase[p] # "done" =>
        p \notin pool /\ Holders(p) = {} /\ entry[p].useCount = 0

\* Once p has left the pool no request can add it to its snapshot, and a request
\* that chooses it gives the snapshot up: uses only move from Holders(p), those
\* that may still happen, to useCount.
UseBudget ==
    \A p \in Probe :
        IF p \in pool
        THEN entry[p].useCount < MaxUses
        ELSE entry[p].useCount + Cardinality(Holders(p))
                 <= MaxUses + Cardinality(Handler) - 1

\* The inductive invariant behind UseOvershootBounded.
Inv == TypeOK /\ SnapshotOK /\ UnaddedUnknown /\ UseBudget

\* The step in which request h chooses the pool entry p.
Chooses(h, p) ==
    /\ pc[h] = "classify" /\ pc'[h] = "idle"
    /\ entry'[p].useCount = entry[p].useCount + 1

\* p is worse than q in both signals.
WorseInBoth(p, q) ==
    /\ entry[p].rif > entry[q].rif
    /\ entry[p].latency > entry[q].latency

\* Whatever the hot/cold boundary, selectPrequal never picks an entry when a
\* healthy candidate had both a lower RIF and a lower latency.
ChoiceNotDominated ==
    [][\A h \in Handler, p \in Probe :
          Chooses(h, p) => ~\E q \in cand[h] : WorseInBoth(p, q)]_vars

\* The entries of its snapshot that are cold to request h, healthy or not.
ColdOf(h) == {q \in snap[h] : entry[q].rif <= RIFThreshold(h)}

\* A request settles for a hot entry only when the loop of selectPrequal dropped
\* every cold one, because its server was marked unhealthy; and by the meaning of
\* QRIF those are more than that share of the other entries it had copied.
HotOnlyWhenColdUnhealthy ==
    [][\A h \in Handler, p \in Probe :
          (Chooses(h, p) /\ entry[p].rif > RIFThreshold(h)) =>
              /\ ColdOf(h) \cap cand[h] = {}
              /\ Cardinality(ColdOf(h)) * QDen > (Cardinality(snap[h]) - 1) * QNum]_vars

\* runProbeRemover computes its threshold and removes in two critical sections,
\* with additions, evictions and uses in between.  Even with a threshold of a
\* pool that is gone, a removal by load never drops an entry and keeps one that
\* is worse in both signals.
RemovalNotDominating ==
    [][\A p \in pool \ pool' :
          (removing /\ ~removing' /\ ~removeToggle)
              => ~\E q \in pool' : WorseInBoth(q, p)]_vars

\* The probe whose result is added in this step.
Adds(p) == phase[p] = "adding" /\ phase'[p] = "done"

Fresh(p) == now - entry[p].timestamp <= AgeLimit

\* ProbePool.Add makes room only when the pool is full, and never drops a
\* fresh entry while it keeps a stale one: with probe results landing out of
\* the order they were fired in, the slice is not ordered by age.
EvictionSparesFresh ==
    [][(\E p \in Probe : Adds(p)) =>
          \A old \in pool \ pool' :
              /\ Cardinality(pool) >= PoolSize
              /\ Fresh(old) => \A kept \in pool \cap pool' : Fresh(kept)]_vars

\* The entries that have been added, with what they carry.
Added == {p \in Probe : phase[p] = "done"}

AddedEntry ==
    [p \in Probe |-> IF p \in Added THEN entry[p]
                     ELSE [timestamp |-> 0, rif |-> 0, latency |-> 0, useCount |-> 0]]

\* What an entry can carry, and the thresholds the remover can compute.
Signals == {[timestamp |-> t, rif |-> r.rif, latency |-> r.latency] :
               t \in 0..MaxTime, r \in ProbeResult}
Boundaries == {0} \cup {r.rif : r \in ProbeResult}

\* The goroutines that probe, select and remove at once leave ProbePool as if its
\* callers took turns: each entry is added once, before its first use and with
\* what its probe observed, it is used no more than the requests allow, and each
\* change of the pool is one call of Pool, with a threshold that is one of an
\* entry, or 0.
SharedPool ==
    INSTANCE Pool WITH
        entry <- AddedEntry, added <- Added,
        Signal <- Signals, Threshold <- Boundaries,
        Overshoot <- Cardinality(Handler) - 1

ImplementsPool == SharedPool!Spec

\* types.go:61 says an entry "carries the load signals observed at the moment of
\* probing": a request is then never assigned by an entry that observed none.
ChoiceHasSignals ==
    [][\A h \in Handler, p \in Probe :
          Chooses(h, p) => entry[p].rif # NoRIF]_vars
=============================================================================
