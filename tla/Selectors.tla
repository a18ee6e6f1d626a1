----------------------------- MODULE Selectors -----------------------------
(***************************************************************************)
(* The selectors Prequal is compared with: round robin, least loaded,      *)
(* least loaded of two, and weighted round robin.  Each copies the healthy *)
(* servers under lb.mu and then works without the lock, on a counter, on   *)
(* ClientRIF or on weights that other goroutines change meanwhile.  A step *)
(* is one access to shared state.  With no healthy server they return nil  *)
(* before any of this (Forward has that request).                          *)
(***************************************************************************)
EXTENDS Integers, FiniteSets, SequencesExt

CONSTANTS
    N,               \* number of servers; they are numbered as registered
    Handler,         \* request goroutines
    Word,            \* the number of values of rrIdx, 2^32 in the source
    Latencies,       \* what a probe can measure, in ms; 0 when it fails at once
    InitialEWMA,     \* AddServer's "optimistic initial latency estimate"
    Scale,           \* the 1000 of the weight, in units that let it be an integer
    ANum, ADen,      \* Config.EWMAAlpha as a fraction
    AtOnce,          \* bound, by algorithm: requests at once
    MaxProbes,       \* bound, by algorithm: probe results in a behaviour
    MaxRefresh       \* bound: refreshes of the weights in a behaviour

Server == 1..N
Algorithm == {"roundrobin", "leastloaded", "llpo2c", "weightedrr"}

ASSUME SelectorsAssumption ==
    /\ N \in Nat \ {0} /\ IsFiniteSet(Handler)
    /\ Word \in Nat /\ Word >= 2 * N
    /\ IsFiniteSet(Latencies) /\ Latencies \subseteq Nat
    /\ InitialEWMA \in Nat \ {0}
    /\ Scale \in Nat /\ \A l \in Latencies \cup {InitialEWMA} : l <= Scale
    /\ ADen \in Nat \ {0} /\ ANum \in 0..ADen
    /\ AtOnce \in [Algorithm -> Nat] /\ MaxProbes \in [Algorithm -> Nat] /\ MaxRefresh \in Nat

VARIABLES
    algorithm,       \* Config.Algorithm
    healthy,         \* the servers with IsHealthy
    clientRIF,       \* Server.ClientRIF
    rrIdx,           \* LoadBalancer.rrIdx
    latency,         \* Server.LatencyMs
    ewma, weight,    \* Server.EWMALatency, Server.Weight
    refreshed,       \* recomputeWRRWeights holds lb.mu and has done this many
    pc,              \* where each request goroutine is
    list,            \* its healthy, or the two servers it drew
    i,               \* its position in the list
    best,            \* the server chosen so far
    x,               \* ClientRIF it has loaded, or its sum of weights so far
    draw,            \* its random number: it stands for draw < r < draw + 1
    moved,           \* history: by how much what it reads has changed since it began
    turns,           \* history: the last picks of round robin from one list
    probed, updates  \* how often these bounded steps were taken

lb == <<algorithm, healthy, clientRIF, rrIdx>>
wrr == <<latency, ewma, weight, refreshed>>
locals == <<pc, list, i, best, x, draw>>
bounded == <<probed, updates>>
vars == <<lb, wrr, locals, moved, turns, bounded>>

Init ==
    /\ algorithm \in Algorithm
    /\ healthy = Server
    /\ clientRIF = [s \in Server |-> 0]
    /\ rrIdx = 0
    /\ latency = [s \in Server |-> 0]
    /\ ewma = [s \in Server |-> InitialEWMA] /\ weight = [s \in Server |-> 1]
    /\ refreshed = 0
    /\ pc = [h \in Handler |-> "idle"] /\ list = [h \in Handler |-> <<>>]
    /\ i = [h \in Handler |-> 0] /\ best = [h \in Handler |-> 0]
    /\ x = [h \in Handler |-> 0] /\ draw = [h \in Handler |-> 0]
    /\ moved = [h \in Handler |-> 0]
    /\ turns = [list |-> <<>>, picks |-> <<>>]
    /\ probed = 0 /\ updates = 0

-----------------------------------------------------------------------------
\* Requests.

Unlocked == refreshed = 0      \* nobody holds lb.mu for writing

\* healthyServersLocked: the healthy servers in the order of registration, which
\* is one list only.
HealthyLists ==
    {l \in [1..Cardinality(healthy) -> healthy] : \A a, b \in DOMAIN l : a < b => l[a] < l[b]}

\* The servers selectLLPo2C draws: two different ones, in either order.
Pairs(l) == {<<l[p[1]], l[p[2]]>> : p \in {q \in (DOMAIN l) \X (DOMAIN l) : q[1] # q[2]}}

\* What the selector goes on with: the two it drew, or the whole list.
Candidates(l) == IF algorithm = "llpo2c" /\ Len(l) > 1 THEN Pairs(l) ELSE {l}

\* SelectServer dispatches and the selector copies the healthy servers.  A single
\* one is the least loaded without a look at it.
Snapshot(h) ==
    /\ pc[h] = "idle" /\ Unlocked /\ healthy # {}
    /\ Cardinality({g \in Handler : pc[g] # "idle"}) < AtOnce[algorithm]
    /\ \E all \in HealthyLists : \E l \in Candidates(all) :
          /\ list' = [list EXCEPT ![h] = l]
          /\ best' = [best EXCEPT ![h] = l[1]]
          /\ pc' = [pc EXCEPT ![h] =
                       IF Len(l) = 1 /\ algorithm \in {"leastloaded", "llpo2c"}
                       THEN "chosen" ELSE algorithm]
    /\ i' = [i EXCEPT ![h] = 1]
    /\ UNCHANGED <<lb, wrr, x, draw, moved, turns, bounded>>

\* The selector goes on to pc q with these locals, or is at its end with server s.
Step(h, q, pos, val) ==
    /\ pc' = [pc EXCEPT ![h] = q]
    /\ i' = [i EXCEPT ![h] = pos]
    /\ x' = [x EXCEPT ![h] = val]
    /\ UNCHANGED <<lb, wrr, list, moved, bounded>>

Choose(h, s) ==
    /\ best' = [best EXCEPT ![h] = s]
    /\ Step(h, "chosen", i[h], 0)

\* Slip: the ticket is taken modulo the number of all servers first.
TurnOfAll(ticket, l) == l[((ticket % N) % Len(l)) + 1]

\* The server whose turn it is; int(idx-1) is never negative where int has 64 bits.
Turn(ticket, l) == l[(ticket % Len(l)) + 1]

\* History: the turns given out from the same list, as many as RotationFair needs.
Remember(ticket, l) ==
    LET before == IF turns.list = l THEN turns.picks ELSE <<>>
        picks  == Append(before, [ticket |-> ticket, server |-> Turn(ticket, l)])
    IN  turns' = [list |-> l, picks |-> IF Len(picks) < 2 * Len(l) THEN picks ELSE Tail(picks)]

\* selectRoundRobin: AddUint32, and the index from the value before it.
Ticket(h) ==
    LET idx    == (rrIdx + 1) % Word
        ticket == (idx - 1) % Word
    IN  /\ pc[h] = "roundrobin"
        /\ rrIdx' = idx
        /\ Remember(ticket, list[h])
        /\ pc' = [pc EXCEPT ![h] = "chosen"]
        /\ best' = [best EXCEPT ![h] = Turn(ticket, list[h])]
        /\ UNCHANGED <<algorithm, healthy, clientRIF, wrr, list, i, x, draw, moved, bounded>>

\* One iteration of selectLeastLoaded: ClientRIF of the next server is loaded,
\* and then that of the best so far, again.
Load(h) ==
    /\ pc[h] = "leastloaded"
    /\ Step(h, "compare", i[h], clientRIF[list[h][i[h] + 1]])
    /\ UNCHANGED <<best, draw, turns>>

\* Slip: the two loads the wrong way round.
CompareFlipped(h) ==
    LET next   == list[h][i[h] + 1]
        better == IF clientRIF[best[h]] < x[h] THEN next ELSE best[h]
    IN  /\ pc[h] = "compare"
        /\ IF i[h] + 1 = Len(list[h])
           THEN Choose(h, better)
           ELSE /\ best' = [best EXCEPT ![h] = better]
                /\ Step(h, "leastloaded", i[h] + 1, 0)
        /\ UNCHANGED <<draw, turns>>

Compare(h) ==
    LET next   == list[h][i[h] + 1]
        better == IF x[h] < clientRIF[best[h]] THEN next ELSE best[h]
    IN  /\ pc[h] = "compare"
        /\ IF i[h] + 1 = Len(list[h])
           THEN Choose(h, better)
           ELSE /\ best' = [best EXCEPT ![h] = better]
                /\ Step(h, "leastloaded", i[h] + 1, 0)
        /\ UNCHANGED <<draw, turns>>

\* selectLLPo2C: ClientRIF of the first, then that of the second.
LoadFirst(h) ==
    /\ pc[h] = "llpo2c"
    /\ Step(h, "compare2", 1, clientRIF[list[h][1]])
    /\ UNCHANGED <<best, draw, turns>>

CompareSecond(h) ==
    /\ pc[h] = "compare2"
    /\ Choose(h, IF x[h] <= clientRIF[list[h][2]] THEN list[h][1] ELSE list[h][2])
    /\ UNCHANGED <<draw, turns>>

\* selectWeightedRR: the sum, whose last iteration is followed by the draw.  The
\* total is positive (EstimateInRange), so its branch for zero is never taken.
Sum(h) ==
    LET total == x[h] + weight[list[h][i[h]]]
    IN  /\ pc[h] = "weightedrr"
        /\ IF i[h] < Len(list[h])
           THEN Step(h, "weightedrr", i[h] + 1, total) /\ UNCHANGED draw
           ELSE /\ \E r \in 0..(total - 1) : draw' = [draw EXCEPT ![h] = r]
                /\ Step(h, "scan", 1, 0)
        /\ UNCHANGED <<best, turns>>

\* Slip: the draw is compared with the sum before the server's own weight.
ScanLate(h) ==
    LET s   == list[h][i[h]]
        cum == x[h] + weight[s]
    IN  /\ pc[h] = "scan"
        /\ IF draw[h] < x[h] \/ i[h] = Len(list[h])
           THEN Choose(h, s)
           ELSE Step(h, "scan", i[h] + 1, cum) /\ UNCHANGED best
        /\ UNCHANGED <<draw, turns>>

\* Slip: no server is returned past the last sum.
ScanToNil(h) ==
    LET s   == list[h][i[h]]
        cum == x[h] + weight[s]
    IN  /\ pc[h] = "scan"
        /\ IF draw[h] < cum \/ i[h] = Len(list[h])
           THEN Choose(h, IF draw[h] < cum THEN s ELSE 0)
           ELSE Step(h, "scan", i[h] + 1, cum) /\ UNCHANGED best
        /\ UNCHANGED <<draw, turns>>

\* The scan reads the weights again; past the last sum it takes the last server.
Scan(h) ==
    LET s   == list[h][i[h]]
        cum == x[h] + weight[s]
    IN  /\ pc[h] = "scan"
        /\ IF draw[h] < cum \/ i[h] = Len(list[h])
           THEN Choose(h, s)
           ELSE Step(h, "scan", i[h] + 1, cum) /\ UNCHANGED best
        /\ UNCHANGED <<draw, turns>>

\* History: h has stopped selecting or being served, and one ClientRIF has changed by
\* one for those that read it.
LoadMoved(h) ==
    moved' = [g \in Handler |->
        IF g = h \/ pc[g] \in {"idle", "busy"} THEN 0
        ELSE IF algorithm \in {"leastloaded", "llpo2c"} /\ moved[g] < Cardinality(Handler)
        THEN moved[g] + 1 ELSE moved[g]]

\* forwardRequest counts the request in; the selector's locals are gone.
Enter(h) ==
    /\ pc[h] = "chosen"
    /\ pc' = [pc EXCEPT ![h] = "busy"]
    /\ clientRIF' = [clientRIF EXCEPT ![best[h]] = @ + 1]
    /\ list' = [list EXCEPT ![h] = <<>>]
    /\ i' = [i EXCEPT ![h] = 0] /\ draw' = [draw EXCEPT ![h] = 0]
    /\ LoadMoved(h)
    /\ UNCHANGED <<algorithm, healthy, rrIdx, wrr, best, x, turns, bounded>>

\* The request is over.
Leave(h) ==
    /\ pc[h] = "busy"
    /\ pc' = [pc EXCEPT ![h] = "idle"]
    /\ clientRIF' = [clientRIF EXCEPT ![best[h]] = @ - 1]
    /\ best' = [best EXCEPT ![h] = 0]
    /\ LoadMoved(h)
    /\ UNCHANGED <<algorithm, healthy, rrIdx, wrr, list, i, x, draw, turns, bounded>>

-----------------------------------------------------------------------------
\* Background goroutines.

\* A probe of s is recorded, under lb.mu.  What it measured is only read by the
\* weights.
Probed(s, ok, ms) ==
    /\ Unlocked /\ probed < MaxProbes[algorithm]
    /\ algorithm # "weightedrr" => ms = latency[s]
    /\ probed' = probed + 1
    /\ healthy' = IF ok THEN healthy \cup {s} ELSE healthy \ {s}
    /\ latency' = [latency EXCEPT ![s] = ms]
    /\ UNCHANGED <<algorithm, clientRIF, rrIdx, ewma, weight, refreshed, locals, moved, turns,
                   updates>>

\* Slip: a measurement of 0 ms is smoothed in like any other.
SampleAsMeasured(s) == latency[s]

\* The sample of a refresh: the estimate itself where the probe measured 0 ms.
Sample(s) == IF latency[s] > 0 THEN latency[s] ELSE ewma[s]

Smoothed(lat, old) == (ANum * lat + (ADen - ANum) * old) \div ADen

\* History: the weight of s has changed by so much.
WeightMoved(s) ==
    LET change == IF weight'[s] >= weight[s] THEN weight'[s] - weight[s]
                  ELSE weight[s] - weight'[s]
    IN  moved' = [g \in Handler |->
                     IF pc[g] \in {"idle", "busy"} THEN 0 ELSE moved[g] + change]

\* A tick of runWeightUpdater: recomputeWRRWeights holds lb.mu for the whole
\* loop, but the selectors read the weights without it.  The estimate is never
\* zero, so neither branch for that is taken.
Refresh ==
    LET s == refreshed + 1
    IN  /\ algorithm = "weightedrr"
        /\ Unlocked => updates < MaxRefresh
        /\ updates' = IF Unlocked THEN updates + 1 ELSE updates
        /\ ewma' = [ewma EXCEPT ![s] = Smoothed(Sample(s), @)]
        /\ weight' = [weight EXCEPT ![s] = Scale \div ewma'[s]]
        /\ refreshed' = IF s = N THEN 0 ELSE s
        /\ WeightMoved(s)
        /\ UNCHANGED <<lb, latency, locals, turns, probed>>

-----------------------------------------------------------------------------
Next ==
    \/ \E h \in Handler :
          \/ Snapshot(h) \/ Enter(h) \/ Leave(h)
          \/ Ticket(h)
          \/ Load(h) \/ Compare(h) \/ LoadFirst(h) \/ CompareSecond(h)
          \/ Sum(h) \/ Scan(h)
    \/ \E s \in Server, ok \in BOOLEAN, ms \in Latencies : Probed(s, ok, ms)
    \/ Refresh

Spec == Init /\ [][Next]_vars

-----------------------------------------------------------------------------
\* Properties.

Selecting == Algorithm \cup {"compare", "compare2", "scan", "chosen"}

\* Every variable has its type.
TypeOK ==
    /\ algorithm \in Algorithm /\ healthy \subseteq Server
    /\ clientRIF \in [Server -> Nat] /\ rrIdx \in 0..(Word - 1)
    /\ latency \in [Server -> Latencies \cup {0}]
    /\ ewma \in [Server -> Nat] /\ weight \in [Server -> Nat]
    /\ refreshed \in 0..(N - 1)
    /\ pc \in [Handler -> Selecting \cup {"idle", "busy"}]
    /\ list \in [Handler -> Seq(Server)]
    /\ i \in [Handler -> 0..N] /\ best \in [Handler -> 0..N]
    /\ x \in [Handler -> Nat] /\ draw \in [Handler -> Nat] /\ moved \in [Handler -> Nat]
    /\ \A h \in Handler : pc[h] \in Selecting =>
          best[h] \in Range(list[h]) /\ i[h] \in 1..Len(list[h])

\* Requests that run side by side share one rotation, on whatever list each of
\* them copied: as many turns in a row as the list is long go to different
\* servers.  Where rrIdx wraps the rotation starts over at the wrong place, but
\* no server waits for more than twice as long.
RotationFair ==
    LET p       == turns.picks
        size    == Len(turns.list)
        Recent(k) == {p[j].server : j \in (Len(p) - k + 1)..Len(p)}
    IN  p # <<>> =>
          /\ (Len(p) >= size /\ p[Len(p) - size + 1].ticket < p[Len(p)].ticket)
                 => Recent(size) = Range(turns.list)
          /\ Len(p) = 2 * size - 1 => Recent(2 * size - 1) = Range(turns.list)

\* The least-loaded rules compare loads of different moments.  What they choose
\* is then not the least loaded server any more, but it has at most one request
\* more than any other candidate for each change of ClientRIF since they began.
LeastLoadedWithinDrift ==
    \A h \in Handler : pc[h] = "chosen" /\ algorithm \in {"leastloaded", "llpo2c"} =>
        \A s \in Range(list[h]) : clientRIF[best[h]] <= clientRIF[s] + moved[h]

\* The sum of the weights before position k of the list l.
Before(l, k) == FoldLeft(LAMBDA acc, s : acc + weight[s], 0, SubSeq(l, 1, k - 1))

\* The sum and the scan of selectWeightedRR read weights that refreshes change in
\* between, so the draw can be made from one total and compared with another.  The
\* server it ends on, by the fall through to the last one too, is the one whose
\* share of the present weights the draw falls in, give or take the changes since
\* the selection began: with none, each server is chosen for as many draws as it
\* has weight.
ShareWithinDrift ==
    \A h \in Handler : pc[h] = "chosen" /\ algorithm = "weightedrr" =>
        \E k \in DOMAIN list[h] :
            /\ list[h][k] = best[h]
            /\ Before(list[h], k) <= draw[h] + moved[h]
            /\ draw[h] < Before(list[h], k + 1) + moved[h]

\* A probe that fails at once measures 0 ms.  However the refreshes smooth what
\* probes measure, the estimate stays within what was measured, so the weight is
\* finite, and positive: no server is starved, and none gets everything.
EstimateInRange ==
    \A s \in Server :
        /\ \E low, high \in (Latencies \ {0}) \cup {InitialEWMA} : ewma[s] \in low..high
        /\ weight[s] > 0
=============================================================================
