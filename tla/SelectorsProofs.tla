-------------------------- MODULE SelectorsProofs --------------------------
(***************************************************************************)
(* What the selectors promise beside goroutines that change what they      *)
(* read, for any number of servers and requests: the weights stay          *)
(* positive; the least-loaded rules, which compare loads of ClientRIF from *)
(* different moments, stay within a bound by the number of changes; round  *)
(* robin stays fair; weighted draws match the weights.                     *)
(***************************************************************************)
EXTENDS Selectors, FoldProofs, FiniteSetTheorems, SequenceTheorems, TLAPS

-----------------------------------------------------------------------------
\* The weights.

Measured == (Latencies \ {0}) \cup {InitialEWMA}

LEMMA Smoothing ==
  ASSUME NEW num \in Nat, NEW den \in Nat, den > 0, num <= den,
         NEW l \in Nat, NEW o \in Nat, NEW low \in Nat, NEW high \in Nat,
         low <= l, low <= o, l <= high, o <= high
  PROVE  (num * l + (den - num) * o) \div den \in low..high
  <1> DEFINE sum == num * l + (den - num) * o
  <1>1. sum \in Nat /\ low * den <= sum /\ sum <= high * den
    <2>1. PICK d \in Nat : d = den - num
      OBVIOUS
    <2>2. num * l \in Nat /\ d * o \in Nat
      BY SMT
    <2>3. num * low <= num * l /\ num * l <= num * high
      BY SMT
    <2>4. d * low <= d * o /\ d * o <= d * high
      BY SMT
    <2>5. num * low + d * low = low * den /\ num * high + d * high = high * den
      BY <2>1, SMT
    <2> QED BY <2>1, <2>2, <2>3, <2>4, <2>5, SMT
  <1> HIDE DEF sum
  <1>2. PICK q \in Int : q = sum \div den
    BY <1>1
  <1>3. q * den <= sum /\ sum < (q + 1) * den
    BY <1>1, <1>2, SMT
  <1>4. low < q + 1
    <2>1. low * den < (q + 1) * den
      BY <1>1, <1>3, SMT
    <2> QED BY <2>1, SMT
  <1>5. q < high + 1
    <2>1. q * den < (high + 1) * den
      BY <1>1, <1>3, SMT
    <2> QED BY <2>1, SMT
  <1> QED BY <1>2, <1>4, <1>5 DEF sum

LEMMA QuotientPositive ==
  ASSUME NEW a \in Nat, NEW b \in Nat, b > 0, b <= a
  PROVE  a \div b \in Nat /\ a \div b > 0
  <1>1. PICK q \in Int : q = a \div b
    OBVIOUS
  <1>2. a < (q + 1) * b
    BY <1>1, SMT
  <1>3. b * 1 < (q + 1) * b
    BY <1>2
  <1>4. 1 < q + 1
    BY <1>3, SMT
  <1> QED BY <1>1, <1>4

LEMMA MeasuredPositive ==
  \A l \in Measured : l \in Nat /\ l > 0 /\ l <= Scale
  BY SelectorsAssumption DEF Measured

Within(e) == \E low, high \in Measured : e \in low..high

\* Inductive only with what the probes have left.
Weights ==
    /\ latency \in [Server -> Latencies \cup {0}]
    /\ ewma \in [Server -> Nat] /\ weight \in [Server -> Nat]
    /\ refreshed \in 0..(N - 1)
    /\ \A s \in Server : Within(ewma[s]) /\ weight[s] > 0

LEMMA SmoothedWithin ==
  ASSUME NEW l \in Nat, NEW o \in Nat, Within(l), Within(o)
  PROVE  Smoothed(l, o) \in Nat /\ Within(Smoothed(l, o))
  <1>1. PICK a \in Measured, b \in Measured : a <= l /\ l <= b
    BY MeasuredPositive DEF Within
  <1>2. PICK c \in Measured, d \in Measured : c <= o /\ o <= d
    BY MeasuredPositive DEF Within
  <1>3. PICK low \in Measured : low <= l /\ low <= o
    BY <1>1, <1>2, MeasuredPositive
  <1>4. PICK high \in Measured : l <= high /\ o <= high
    BY <1>1, <1>2, MeasuredPositive
  <1>5. low \in Nat /\ high \in Nat
    BY MeasuredPositive
  <1>6. ANum \in Nat /\ ADen \in Nat /\ ADen > 0 /\ ANum <= ADen
    BY SelectorsAssumption
  <1>7. Smoothed(l, o) \in low..high
    BY <1>3, <1>4, <1>5, <1>6, Smoothing DEF Smoothed
  <1> QED BY <1>5, <1>7 DEF Within

LEMMA WithinFacts ==
  ASSUME NEW e \in Nat, Within(e)
  PROVE  e > 0 /\ e <= Scale
  BY MeasuredPositive, SelectorsAssumption DEF Within

LEMMA RefreshWeights == Weights /\ Refresh => Weights'
  <1> SUFFICES ASSUME Weights, Refresh PROVE Weights'
    OBVIOUS
  <1> DEFINE s == refreshed + 1
             e == Smoothed(Sample(s), ewma[s])
  <1>1. s \in Server /\ N \in Nat
    BY SelectorsAssumption DEF Weights, Server
  <1>2. /\ ewma' = [ewma EXCEPT ![s] = e]
        /\ weight' = [weight EXCEPT ![s] = Scale \div ewma'[s]]
        /\ refreshed' = IF s = N THEN 0 ELSE s
        /\ latency' = latency
    BY DEF Refresh, lb
  <1>3. Sample(s) \in Nat /\ Within(Sample(s))
    <2>1. CASE latency[s] > 0
      <3>1. latency[s] \in Measured
        BY <1>1, <2>1, SelectorsAssumption DEF Weights, Measured
      <3>2. latency[s] \in latency[s]..latency[s] /\ latency[s] \in Nat
        BY <3>1, MeasuredPositive
      <3> QED BY <2>1, <3>1, <3>2 DEF Sample, Within
    <2>2. CASE ~(latency[s] > 0)
      BY <1>1, <2>2 DEF Sample, Weights
    <2> QED BY <2>1, <2>2
  <1>4. e \in Nat /\ Within(e)
    BY <1>1, <1>3, SmoothedWithin DEF Weights
  <1> HIDE DEF e
  <1>5. ewma'[s] = e
    BY <1>1, <1>2 DEF Weights
  <1>6. Scale \in Nat /\ Scale \div e \in Nat /\ Scale \div e > 0
    BY <1>4, WithinFacts, QuotientPositive, SelectorsAssumption
  <1>7. /\ ewma' \in [Server -> Nat] /\ weight' \in [Server -> Nat]
        /\ \A t \in Server : Within(ewma'[t]) /\ weight'[t] > 0
    BY <1>1, <1>2, <1>4, <1>5, <1>6 DEF Weights
  <1>8. refreshed' \in 0..(N - 1)
    BY <1>1, <1>2 DEF Weights, Server
  <1> QED BY <1>2, <1>7, <1>8 DEF Weights, Within

LEMMA NextWeights == Weights /\ [Next]_vars => Weights'
  <1> SUFFICES ASSUME Weights, [Next]_vars PROVE Weights'
    OBVIOUS
  <1>1. ASSUME UNCHANGED wrr PROVE Weights'
    BY <1>1 DEF Weights, wrr, Within
  <1>2. ASSUME NEW s \in Server, NEW ok \in BOOLEAN, NEW ms \in Latencies, Probed(s, ok, ms)
        PROVE  Weights'
    BY <1>2 DEF Probed, Weights, Within
  <1>3. ASSUME NEW h \in Handler,
               \/ Snapshot(h) \/ Enter(h) \/ Leave(h) \/ Ticket(h)
               \/ Load(h) \/ Compare(h) \/ LoadFirst(h) \/ CompareSecond(h)
               \/ Sum(h) \/ Scan(h)
        PROVE  UNCHANGED wrr
    BY <1>3 DEF Snapshot, Enter, Leave, Ticket, Load, Compare, LoadFirst, CompareSecond,
                Sum, Scan, Step, Choose
  <1>4. UNCHANGED vars => UNCHANGED wrr
    BY DEF vars
  <1> QED BY <1>1, <1>2, <1>3, <1>4, RefreshWeights DEF Next

LEMMA InitWeights == Init => Weights
  <1> SUFFICES ASSUME Init PROVE Weights
    OBVIOUS
  <1>1. InitialEWMA \in Nat /\ InitialEWMA \in Measured /\ N \in Nat /\ N > 0
    BY SelectorsAssumption DEF Measured
  <1>2. InitialEWMA \in InitialEWMA..InitialEWMA
    BY <1>1
  <1>3. Within(InitialEWMA)
    BY <1>1, <1>2 DEF Within
  <1> QED BY <1>1, <1>3 DEF Init, Weights

\* The latency estimate of a server is always between two positive measurements, so
\* its weight is finite and positive, whatever the probes measure and whenever a
\* refresh comes.
THEOREM EstimateStaysInRange == Spec => []EstimateInRange
  <1>1. Weights => EstimateInRange
    BY DEF Weights, EstimateInRange, Within, Measured
  <1> QED BY <1>1, InitWeights, NextWeights, PTL DEF Spec

-----------------------------------------------------------------------------
\* The locals of a request.

LeastLoaded == {"leastloaded", "llpo2c"}

\* What TypeOK does not say of where a request can be, and with what.
Placed(h) ==
    /\ pc[h] \in Algorithm => pc[h] = algorithm
    /\ pc[h] = "scan" => algorithm \notin LeastLoaded
    /\ pc[h] = "compare" => algorithm = "leastloaded"
    /\ pc[h] = "compare2" => algorithm = "llpo2c"
    /\ Len(list[h]) <= N
    /\ pc[h] = "busy" => best[h] \in Server
    /\ algorithm \in LeastLoaded => moved[h] <= Cardinality(Handler)
    /\ pc[h] \in {"idle", "busy"} => moved[h] = 0
    /\ pc[h] \in {"leastloaded", "compare"} =>
          /\ i[h] < Len(list[h])
          /\ \E k \in 1..i[h] : best[h] = list[h][k]
          /\ \A j, k \in 1..Len(list[h]) : j # k => list[h][j] # list[h][k]
    /\ pc[h] \in {"llpo2c", "compare2"} => Len(list[h]) = 2

BusyAt(s) == {g \in Handler : pc[g] = "busy" /\ best[g] = s}

Counted == \A s \in Server : clientRIF[s] = Cardinality(BusyAt(s))

\* How far the best so far is from the others, and what is loaded from what it has
\* become.  While a load is compared, an error in it and one in the choice so far
\* would add up if both could come from the same change.
Sound(h) ==
    LET l == list[h]
        next == list[h][i[h] + 1]
    IN  /\ pc[h] \in {"leastloaded", "compare"} =>
              \A k \in 1..i[h] : clientRIF[best[h]] <= clientRIF[l[k]] + moved[h]
        /\ pc[h] = "compare" =>
              /\ x[h] <= Cardinality(Handler)
              /\ x[h] <= clientRIF[next] + moved[h]
              /\ \A k \in 1..i[h] :
                    clientRIF[best[h]] + clientRIF[next] <= clientRIF[l[k]] + x[h] + moved[h]
        /\ pc[h] = "compare2" =>
              /\ x[h] <= Cardinality(Handler)
              /\ x[h] <= clientRIF[l[1]] + moved[h]
              /\ clientRIF[l[1]] <= x[h] + moved[h]
        /\ pc[h] = "chosen" /\ algorithm \in LeastLoaded =>
              \A k \in 1..Len(l) : clientRIF[best[h]] <= clientRIF[l[k]] + moved[h]

LInv == TypeOK /\ Counted /\ \A h \in Handler : Placed(h) /\ Sound(h)

LEMMA Bound == Cardinality(Handler) \in Nat /\ IsFiniteSet(Handler)
  BY FS_CardinalityType, SelectorsAssumption

\* No two servers together have more requests in flight than there are.
Capped(rif) ==
    /\ \A s \in Server : rif[s] <= Cardinality(Handler)
    /\ \A s, t \in Server : s # t => rif[s] + rif[t] <= Cardinality(Handler)

LEMMA CountedIsCapped == Counted => Capped(clientRIF)
  <1> SUFFICES ASSUME Counted PROVE Capped(clientRIF)
    OBVIOUS
  <1>1. ASSUME NEW s \in Server
        PROVE  IsFiniteSet(BusyAt(s)) /\ clientRIF[s] \in Nat /\ clientRIF[s] <= Cardinality(Handler)
    <2>1. BusyAt(s) \subseteq Handler
      BY DEF BusyAt
    <2> QED BY <2>1, Bound, FS_Subset, FS_CardinalityType DEF Counted
  <1>2. ASSUME NEW s \in Server, NEW t \in Server, s # t
        PROVE  clientRIF[s] + clientRIF[t] <= Cardinality(Handler)
    <2>1. BusyAt(s) \cap BusyAt(t) = {} /\ (BusyAt(s) \cup BusyAt(t)) \subseteq Handler
      BY <1>2 DEF BusyAt
    <2>2. Cardinality(BusyAt(s) \cap BusyAt(t)) = 0
      BY <2>1, FS_EmptySet
    <2>3. Cardinality(BusyAt(s) \cup BusyAt(t)) <= Cardinality(Handler)
      BY <2>1, Bound, FS_Subset
    <2>4. Cardinality(BusyAt(s) \cup BusyAt(t))
            = Cardinality(BusyAt(s)) + Cardinality(BusyAt(t)) - Cardinality(BusyAt(s) \cap BusyAt(t))
      BY <1>1, FS_Union
    <2>5. Cardinality(BusyAt(s)) = clientRIF[s] /\ Cardinality(BusyAt(t)) = clientRIF[t]
      BY DEF Counted
    <2> QED BY <1>1, <2>2, <2>3, <2>4, <2>5
  <1> QED BY <1>1, <1>2 DEF Capped

\* Two loads that differ in one server, by one.
LEMMA OneChange ==
  ASSUME NEW C \in [Server -> Nat], NEW D \in [Server -> Nat],
         NEW r \in Server, D[r] = C[r] - 1 \/ D[r] = C[r] + 1,
         \A s \in Server \ {r} : D[s] = C[s],
         NEW m \in Nat
  PROVE  /\ \A s, t \in Server : C[s] <= C[t] + m => D[s] <= D[t] + (m + 1)
         /\ \A s \in Server, v \in Nat : v <= C[s] + m => v <= D[s] + (m + 1)
         /\ \A s \in Server, v \in Nat : C[s] <= v + m => D[s] <= v + (m + 1)
         /\ \A s, n, t \in Server, v \in Nat :
               s # n /\ C[s] + C[n] <= C[t] + v + m => D[s] + D[n] <= D[t] + v + (m + 1)
  <1>1. \A s \in Server : /\ C[s] \in Nat /\ D[s] \in Nat
                          /\ s = r => D[s] = C[s] - 1 \/ D[s] = C[s] + 1
                          /\ s # r => D[s] = C[s]
    OBVIOUS
  <1> QED BY <1>1

\* One change of ClientRIF, seen by a request that is selecting.
LEMMA DriftKeepsSound ==
  ASSUME NEW h \in Handler, TypeOK, Placed(h), Sound(h), pc[h] \in Selecting,
         UNCHANGED algorithm, algorithm \in LeastLoaded,
         pc'[h] = pc[h], list'[h] = list[h], i'[h] = i[h], best'[h] = best[h], x'[h] = x[h],
         clientRIF' \in [Server -> Nat], Capped(clientRIF'),
         NEW r \in Server, clientRIF'[r] = clientRIF[r] - 1 \/ clientRIF'[r] = clientRIF[r] + 1,
         \A s \in Server \ {r} : clientRIF'[s] = clientRIF[s],
         moved'[h] = IF moved[h] < Cardinality(Handler) THEN moved[h] + 1 ELSE moved[h]
  PROVE  Sound(h)'
  <1> DEFINE l == list[h]
             next == list[h][i[h] + 1]
             H == Cardinality(Handler)
             b == best[h]
             m == moved[h]
             C == clientRIF
             D == clientRIF'
  <1>1. l \in Seq(Server) /\ x[h] \in Nat /\ C \in [Server -> Nat] /\ m \in Nat
    BY DEF TypeOK
  <1>2. Len(l) \in Nat /\ DOMAIN l = 1..Len(l) /\ \A k \in 1..Len(l) : l[k] \in Server
    BY <1>1, LenProperties
  <1>3. i[h] \in 1..Len(l) /\ b \in Server
    BY <1>2 DEF TypeOK, Range
  <1>4. H \in Nat /\ m <= H
    BY Bound DEF Placed
  <1>5. pc[h] = "compare" => next \in Server /\ b # next /\ \A k \in 1..i[h] : l[k] \in Server
    <2>1. ASSUME pc[h] = "compare" PROVE i[h] + 1 \in 1..Len(l)
      BY <1>2, <1>3, <2>1 DEF Placed
    <2>2. ASSUME pc[h] = "compare" PROVE b # next
      <3>1. PICK k \in 1..i[h] : b = l[k]
        BY <2>2 DEF Placed
      <3>2. k \in 1..Len(l) /\ k # i[h] + 1
        BY <1>2, <1>3
      <3> QED BY <2>1, <2>2, <3>1, <3>2 DEF Placed
    <2> QED BY <1>2, <1>3, <2>1, <2>2
  <1>6. pc[h] = "leastloaded" => \A k \in 1..i[h] : l[k] \in Server
    BY <1>2, <1>3
  <1>7. pc[h] = "compare2" => l[1] \in Server
    BY <1>2, <1>3
  <1> HIDE DEF l, next, H, b, m
  <1>8. CASE m < H
    <2>1. moved'[h] = m + 1
      BY <1>8 DEF H, m
    <2>2. /\ \A s, t \in Server : C[s] <= C[t] + m => D[s] <= D[t] + (m + 1)
          /\ \A s \in Server, v \in Nat : v <= C[s] + m => v <= D[s] + (m + 1)
          /\ \A s \in Server, v \in Nat : C[s] <= v + m => D[s] <= v + (m + 1)
          /\ \A s, n, t \in Server, v \in Nat :
               s # n /\ C[s] + C[n] <= C[t] + v + m => D[s] + D[n] <= D[t] + v + (m + 1)
      BY <1>1, OneChange
    <2> HIDE DEF C, D
    <2>3. pc[h] \in {"leastloaded", "compare"} => \A k \in 1..i[h] : D[b] <= D[l[k]] + (m + 1)
      BY <1>3, <1>5, <1>6, <2>2 DEF Sound, C, l, b, m
    <2>4. pc[h] = "compare" =>
              /\ x[h] <= H
              /\ x[h] <= D[next] + (m + 1)
              /\ \A k \in 1..i[h] : D[b] + D[next] <= D[l[k]] + x[h] + (m + 1)
      BY <1>1, <1>3, <1>5, <2>2 DEF Sound, C, l, b, m, next, H
    <2>5. pc[h] = "compare2" =>
              /\ x[h] <= H
              /\ x[h] <= D[l[1]] + (m + 1)
              /\ D[l[1]] <= x[h] + (m + 1)
      BY <1>1, <1>7, <2>2 DEF Sound, C, l, m, H
    <2>6. pc[h] = "chosen" /\ algorithm \in LeastLoaded =>
              \A k \in 1..Len(l) : D[b] <= D[l[k]] + (m + 1)
      BY <1>2, <1>3, <2>2 DEF Sound, C, l, b, m
    <2> QED BY <2>1, <2>3, <2>4, <2>5, <2>6 DEF Sound, D, l, b, m, next, H
  <1>9. CASE ~(m < H)
    <2>1. moved'[h] = m /\ m = H
      BY <1>1, <1>4, <1>9 DEF H, m
    <2>2. /\ \A s \in Server : D[s] \in Nat /\ D[s] <= m
          /\ \A s, t \in Server : s # t => D[s] + D[t] <= m
      BY <2>1 DEF Capped, H
    <2> HIDE DEF D
    <2>3. \A s, t \in Server : D[s] <= D[t] + m
      BY <1>1, <2>2
    <2>4. \A v \in Nat, s, n, t \in Server : s # n => D[s] + D[n] <= D[t] + v + m
      <3> SUFFICES ASSUME NEW v \in Nat, NEW s \in Server, NEW n \in Server, NEW t \in Server,
                          s # n
                   PROVE  D[s] + D[n] <= D[t] + v + m
        OBVIOUS
      <3>1. D[s] + D[n] <= m /\ D[t] \in Nat /\ D[s] \in Nat /\ D[n] \in Nat
        BY <2>2
      <3>2. \A p, q, u, w \in Nat : p + q <= w => p + q <= u + v + w
        OBVIOUS
      <3> QED BY <1>1, <3>1, <3>2
    <2>5. pc[h] \in {"leastloaded", "compare"} => \A k \in 1..i[h] : D[b] <= D[l[k]] + m
      BY <1>3, <1>5, <1>6, <2>3
    <2>6. pc[h] = "compare" =>
              /\ x[h] <= H
              /\ x[h] <= D[next] + m
              /\ \A k \in 1..i[h] : D[b] + D[next] <= D[l[k]] + x[h] + m
      <3>1. ASSUME pc[h] = "compare" PROVE x[h] <= m
        BY <2>1, <3>1 DEF Sound, H
      <3>2. ASSUME pc[h] = "compare" PROVE x[h] <= D[next] + m
        BY <1>1, <1>5, <2>2, <3>1, <3>2
      <3> QED BY <1>1, <1>3, <1>5, <2>1, <2>4, <3>1, <3>2
    <2>7. pc[h] = "compare2" => x[h] <= H /\ x[h] <= D[l[1]] + m /\ D[l[1]] <= x[h] + m
      <3>1. ASSUME pc[h] = "compare2" PROVE x[h] <= m
        BY <2>1, <3>1 DEF Sound, H
      <3> QED BY <1>1, <1>7, <2>1, <2>2, <3>1
    <2>8. pc[h] = "chosen" /\ algorithm \in LeastLoaded =>
              \A k \in 1..Len(l) : D[b] <= D[l[k]] + m
      BY <1>2, <1>3, <2>3
    <2> QED BY <2>1, <2>5, <2>6, <2>7, <2>8 DEF Sound, D, l, b, m, next, H
  <1> QED BY <1>8, <1>9

-----------------------------------------------------------------------------
\* Steps of one request that only it can see.

Points == Selecting \cup {"idle", "busy"}

\* The part of TypeOK that is about one request.
Typed(h) ==
    pc[h] \in Selecting => best[h] \in Range(list[h]) /\ i[h] \in 1..Len(list[h])

\* The other requests keep their locals, the balancer its loads.
Local(h) ==
    /\ UNCHANGED <<algorithm, clientRIF, moved>>
    /\ pc[h] # "busy" /\ pc'[h] # "busy"
    /\ \A g \in Handler \ {h} : /\ pc'[g] = pc[g] /\ list'[g] = list[g] /\ i'[g] = i[g]
                                /\ best'[g] = best[g] /\ x'[g] = x[g]

LEMMA LocalStep ==
  ASSUME LInv, NEW h \in Handler, Local(h), TypeOK', Placed(h)', Sound(h)'
  PROVE  LInv'
  <1>1. ASSUME NEW g \in Handler, g # h PROVE Placed(g)' /\ Sound(g)'
    <2>1. /\ pc'[g] = pc[g] /\ list'[g] = list[g] /\ i'[g] = i[g]
          /\ best'[g] = best[g] /\ x'[g] = x[g] /\ moved'[g] = moved[g]
          /\ algorithm' = algorithm /\ clientRIF' = clientRIF
      BY <1>1 DEF Local
    <2>2. Placed(g) /\ Sound(g)
      BY DEF LInv
    <2>3. Placed(g)'
      BY <2>1, <2>2 DEF Placed
    <2>4. Sound(g)'
      BY <2>1, <2>2 DEF Sound
    <2> QED BY <2>3, <2>4
  <1>2. ASSUME NEW s \in Server PROVE BusyAt(s)' = BusyAt(s)
    BY DEF Local, BusyAt
  <1>3. Counted'
    BY <1>2 DEF LInv, Counted, Local
  <1> QED BY <1>1, <1>3 DEF LInv

\* What Step does to the types.
LEMMA StepTypes ==
  ASSUME TypeOK, NEW h \in Handler, NEW q \in Selecting, NEW pos \in 0..N, NEW val \in Nat,
         Step(h, q, pos, val), pos \in 1..Len(list[h]),
         best' = [best EXCEPT ![h] = best'[h]], best'[h] \in 0..N, best'[h] \in Range(list[h]),
         draw' \in [Handler -> Nat]
  PROVE  /\ TypeOK'
         /\ pc'[h] = q /\ i'[h] = pos /\ x'[h] = val /\ list'[h] = list[h]
         /\ pc[h] # "busy" => Local(h)
  <1>1. /\ pc' = [pc EXCEPT ![h] = q] /\ i' = [i EXCEPT ![h] = pos] /\ x' = [x EXCEPT ![h] = val]
        /\ UNCHANGED <<algorithm, healthy, clientRIF, rrIdx, latency, ewma, weight, refreshed,
                       list, moved>>
    BY DEF Step, lb, wrr
  <1>2. /\ pc \in [Handler -> Points] /\ i \in [Handler -> 0..N] /\ x \in [Handler -> Nat]
        /\ best \in [Handler -> 0..N]
    BY DEF TypeOK, Points
  <1>3. q \in Points /\ q # "busy"
    BY DEF Points, Selecting, Algorithm
  <1>4. /\ pc' \in [Handler -> Points] /\ i' \in [Handler -> 0..N] /\ x' \in [Handler -> Nat]
        /\ best' \in [Handler -> 0..N]
        /\ pc'[h] = q /\ i'[h] = pos /\ x'[h] = val /\ list'[h] = list[h]
        /\ \A g \in Handler \ {h} : /\ pc'[g] = pc[g] /\ i'[g] = i[g] /\ x'[g] = x[g]
                                    /\ best'[g] = best[g] /\ list'[g] = list[g]
    BY <1>1, <1>2, <1>3
  <1>5. \A g \in Handler : Typed(g)'
    BY <1>1, <1>4 DEF TypeOK, Typed
  <1>6. TypeOK'
    BY <1>1, <1>4, <1>5 DEF TypeOK, Typed, Points
  <1> QED BY <1>1, <1>3, <1>4, <1>6 DEF Local

LEMMA ListFacts ==
  ASSUME TypeOK, NEW h \in Handler
  PROVE  /\ list[h] \in Seq(Server) /\ Len(list[h]) \in Nat
         /\ DOMAIN list[h] = 1..Len(list[h])
         /\ \A k \in 1..Len(list[h]) :
               list[h][k] \in Server /\ list[h][k] \in 0..N /\ list[h][k] \in Range(list[h])
         /\ pc[h] \in Selecting => best[h] \in Server /\ i[h] \in 1..Len(list[h])
         /\ N \in Nat
  <1>1. list[h] \in Seq(Server)
    BY DEF TypeOK
  <1>2. /\ Len(list[h]) \in Nat /\ DOMAIN list[h] = 1..Len(list[h])
        /\ \A k \in 1..Len(list[h]) : list[h][k] \in Server
    BY <1>1, LenProperties
  <1>3. \A k \in 1..Len(list[h]) : list[h][k] \in Range(list[h])
    BY <1>2 DEF Range
  <1>4. pc[h] \in Selecting => best[h] \in Server /\ i[h] \in 1..Len(list[h])
    BY <1>2 DEF TypeOK, Range
  <1>5. N \in Nat /\ Server \subseteq 0..N
    BY SelectorsAssumption DEF Server
  <1> QED BY <1>1, <1>2, <1>3, <1>4, <1>5

LEMMA Rifs == TypeOK => \A s \in Server : clientRIF[s] \in Nat
  BY DEF TypeOK

LEMMA LoadLInv == \A h \in Handler : LInv /\ Load(h) => LInv'
  <1> SUFFICES ASSUME NEW h \in Handler, LInv, Load(h) PROVE LInv'
    OBVIOUS
  <1>1. TypeOK /\ Placed(h) /\ Sound(h) /\ pc[h] = "leastloaded" /\ moved[h] \in Nat
    BY DEF LInv, Load, TypeOK
  <1>2. pc[h] \in Selecting /\ "compare" \in Selecting /\ pc[h] \in Algorithm
    BY <1>1 DEF Selecting, Algorithm
  <1> DEFINE next == list[h][i[h] + 1]
  <1>3. i[h] \in 1..Len(list[h]) /\ i[h] + 1 \in 1..Len(list[h]) /\ next \in Server
        /\ i[h] \in 0..N /\ best[h] \in 0..N /\ best[h] \in Range(list[h])
    <2>1. i[h] \in 0..N /\ best[h] \in 0..N /\ best[h] \in Range(list[h])
      BY <1>1, <1>2 DEF TypeOK
    <2>2. i[h] \in 1..Len(list[h]) /\ i[h] < Len(list[h]) /\ Len(list[h]) \in Nat
      BY <1>1, <1>2, ListFacts DEF Placed
    <2>3. i[h] + 1 \in 1..Len(list[h])
      BY <2>2
    <2> QED BY <1>1, <2>1, <2>2, <2>3, ListFacts
  <1>4. clientRIF[next] \in Nat /\ clientRIF[next] <= Cardinality(Handler)
    BY <1>1, <1>3, Rifs, CountedIsCapped DEF LInv, Capped
  <1>5. /\ Step(h, "compare", i[h], clientRIF[next])
        /\ best' = [best EXCEPT ![h] = best'[h]] /\ best'[h] = best[h]
        /\ draw' \in [Handler -> Nat]
    BY <1>1 DEF Load, TypeOK
  <1> HIDE DEF next
  <1>6. /\ TypeOK' /\ Local(h)
        /\ pc'[h] = "compare" /\ i'[h] = i[h] /\ x'[h] = clientRIF[next]
        /\ best'[h] = best[h] /\ list'[h] = list[h]
    <2>1. pc[h] # "busy"
      BY <1>1
    <2> HIDE <1>1
    <2> QED BY <1>1, <1>2, <1>3, <1>4, <1>5, <2>1, StepTypes
  <1>7. UNCHANGED <<algorithm, clientRIF, moved>>
    BY <1>6 DEF Local
  <1>8. algorithm = "leastloaded"
    BY <1>1, <1>2 DEF Placed
  <1>9. Placed(h)'
    BY <1>1, <1>6, <1>7, <1>8 DEF Placed, Algorithm
  <1>10. \A k \in 1..i[h] : list[h][k] \in Server
    BY <1>1, <1>3, ListFacts
  <1>11. Sound(h)'
    <2>1. clientRIF[next] <= clientRIF[next] + moved[h]
      BY <1>1, <1>4
    <2>2. \A k \in 1..i[h] : clientRIF[best[h]] <= clientRIF[list[h][k]] + moved[h]
      BY <1>1 DEF Sound
    <2>3. best[h] \in Server
      BY <1>1, <1>2, ListFacts
    <2>4. \A a, b, c, m \in Nat : a <= b + m => a + c <= b + c + m
      OBVIOUS
    <2>5. \A k \in 1..i[h] :
             clientRIF[best[h]] + clientRIF[next] <= clientRIF[list[h][k]] + clientRIF[next] + moved[h]
      BY <1>1, <1>4, <1>10, <2>2, <2>3, <2>4, Rifs
    <2> QED BY <1>4, <1>6, <1>7, <2>1, <2>2, <2>5 DEF Sound, next
  <1> QED BY <1>6, <1>9, <1>11, LocalStep

\* The comparison leaves the choice within the drift, whichever way it goes.
LEMMA BetterWithinDrift ==
  ASSUME LInv, NEW h \in Handler, pc[h] = "compare",
         NEW better, better = IF x[h] < clientRIF[best[h]] THEN list[h][i[h] + 1] ELSE best[h]
  PROVE  /\ i[h] + 1 \in 1..Len(list[h]) /\ i[h] \in 0..N /\ i[h] + 1 \in 0..N
         /\ better \in 0..N /\ better \in Range(list[h])
         /\ \E k \in 1..(i[h] + 1) : better = list[h][k]
         /\ \A k \in 1..(i[h] + 1) : clientRIF[better] <= clientRIF[list[h][k]] + moved[h]
  <1> DEFINE next == list[h][i[h] + 1]
             C == clientRIF
             b == best[h]
             m == moved[h]
  <1>1. TypeOK /\ Placed(h) /\ Sound(h) /\ pc[h] \in Selecting
    BY DEF LInv, Selecting
  <1>2. i[h] \in 1..Len(list[h]) /\ i[h] < Len(list[h]) /\ Len(list[h]) \in Nat /\ Len(list[h]) <= N
        /\ N \in Nat
    BY <1>1, ListFacts DEF Placed
  <1>3. i[h] + 1 \in 1..Len(list[h]) /\ i[h] \in 0..N /\ i[h] + 1 \in 0..N /\ i[h] \in Nat
    BY <1>2
  <1>4. /\ \A k \in 1..(i[h] + 1) : list[h][k] \in Server
        /\ next \in Server /\ next \in 0..N /\ next \in Range(list[h])
        /\ b \in Server /\ b \in 0..N /\ b \in Range(list[h])
    <2>1. \A k \in 1..(i[h] + 1) : k \in 1..Len(list[h])
      BY <1>2, <1>3
    <2>2. b \in Server /\ b \in 0..N /\ b \in Range(list[h])
      BY <1>1, ListFacts DEF TypeOK
    <2> QED BY <1>1, <1>3, <2>1, <2>2, ListFacts
  <1>5. /\ x[h] <= C[next] + m
        /\ \A k \in 1..i[h] : C[b] <= C[list[h][k]] + m /\ C[b] + C[next] <= C[list[h][k]] + x[h] + m
    BY <1>1 DEF Sound
  <1>6. m \in Nat /\ x[h] \in Nat /\ \A s \in Server : C[s] \in Nat
    BY <1>1 DEF TypeOK
  <1>7. \E k \in 1..i[h] : b = list[h][k]
    BY <1>1 DEF Placed
  <1>8. \A k \in 1..(i[h] + 1) : k \in 1..i[h] \/ k = i[h] + 1
    BY <1>3
  <1>9. 1..i[h] \subseteq 1..(i[h] + 1) /\ i[h] + 1 \in 1..(i[h] + 1)
    BY <1>3
  <1> HIDE DEF C, b, m
  <1>10. CASE x[h] < C[b]
    <2>1. better = next
      BY <1>10 DEF C, b
    <2>2. ASSUME NEW k \in 1..i[h] PROVE C[next] <= C[list[h][k]] + m
      <3>1. \A p, q, r, v, w \in Nat : p + q <= r + v + w /\ v < p => q <= r + w
        OBVIOUS
      <3>2. list[h][k] \in Server
        BY <1>4, <1>9
      <3>3. C[b] \in Nat /\ C[next] \in Nat /\ C[list[h][k]] \in Nat
        BY <1>4, <1>6, <3>2
      <3> HIDE DEF next
      <3> QED BY <1>5, <1>6, <1>10, <3>1, <3>3
    <2>3. C[next] <= C[next] + m
      BY <1>4, <1>6
    <2>4. \A k \in 1..(i[h] + 1) : C[next] <= C[list[h][k]] + m
      BY <1>8, <2>2, <2>3
    <2> QED BY <1>3, <1>4, <1>9, <2>1, <2>4 DEF C, m
  <1>11. CASE ~(x[h] < C[b])
    <2>1. better = b
      BY <1>11 DEF C, b
    <2>2. C[b] <= C[next] + m
      <3>1. C[b] \in Nat /\ C[next] \in Nat
        BY <1>4, <1>6
      <3> HIDE DEF next
      <3> QED BY <1>5, <1>6, <1>11, <3>1
    <2>3. \A k \in 1..(i[h] + 1) : C[b] <= C[list[h][k]] + m
      BY <1>5, <1>8, <2>2
    <2> QED BY <1>3, <1>4, <1>7, <1>9, <2>1, <2>3 DEF C, m
  <1> QED BY <1>10, <1>11

LEMMA CompareLInv == \A h \in Handler : LInv /\ Compare(h) => LInv'
  <1> SUFFICES ASSUME NEW h \in Handler, LInv, Compare(h) PROVE LInv'
    OBVIOUS
  <1> DEFINE better == IF x[h] < clientRIF[best[h]] THEN list[h][i[h] + 1] ELSE best[h]
  <1>1. TypeOK /\ Placed(h) /\ pc[h] = "compare" /\ pc[h] # "busy"
    BY DEF LInv, Compare
  <1>2. /\ i[h] + 1 \in 1..Len(list[h]) /\ i[h] \in 0..N /\ i[h] + 1 \in 0..N
        /\ better \in 0..N /\ better \in Range(list[h])
        /\ \E k \in 1..(i[h] + 1) : better = list[h][k]
        /\ \A k \in 1..(i[h] + 1) : clientRIF[better] <= clientRIF[list[h][k]] + moved[h]
    BY <1>1, BetterWithinDrift
  <1>3. /\ best' = [best EXCEPT ![h] = better] /\ draw' \in [Handler -> Nat]
        /\ \/ i[h] + 1 = Len(list[h]) /\ Step(h, "chosen", i[h], 0)
           \/ i[h] + 1 # Len(list[h]) /\ Step(h, "leastloaded", i[h] + 1, 0)
    BY <1>1 DEF Compare, Choose, TypeOK
  <1> HIDE DEF better
  <1>4. best'[h] = better /\ best' = [best EXCEPT ![h] = best'[h]]
    BY <1>1, <1>3 DEF TypeOK
  <1>5. "chosen" \in Selecting /\ "leastloaded" \in Selecting /\ 0 \in Nat
    BY DEF Selecting, Algorithm
  <1>6. algorithm = "leastloaded" /\ Len(list[h]) \in Nat /\ i[h] \in 1..Len(list[h])
    <2>1. pc[h] \in Selecting
      BY <1>1 DEF Selecting
    <2> QED BY <1>1, <2>1, ListFacts DEF Placed
  <1>7. /\ best' = [best EXCEPT ![h] = best'[h]] /\ best'[h] \in 0..N /\ best'[h] \in Range(list[h])
        /\ draw' \in [Handler -> Nat]
    BY <1>2, <1>3, <1>4
  <1>8. i[h] \in 0..N /\ i[h] + 1 \in 0..N /\ i[h] + 1 \in 1..Len(list[h])
    BY <1>2
  <1>9. CASE i[h] + 1 = Len(list[h]) /\ Step(h, "chosen", i[h], 0)
    <2>1. TypeOK' /\ Local(h) /\ pc'[h] = "chosen" /\ i'[h] = i[h] /\ list'[h] = list[h]
      BY <1>1, <1>5, <1>6, <1>7, <1>8, <1>9, StepTypes
    <2>2. UNCHANGED <<algorithm, clientRIF, moved>>
      BY <2>1 DEF Local
    <2>3. Placed(h)'
      BY <1>1, <2>1, <2>2 DEF Placed, Algorithm
    <2>4. Sound(h)'
      BY <1>2, <1>4, <1>9, <2>1, <2>2 DEF Sound
    <2> QED BY <2>1, <2>3, <2>4, LocalStep
  <1>10. CASE i[h] + 1 # Len(list[h]) /\ Step(h, "leastloaded", i[h] + 1, 0)
    <2>1. /\ TypeOK' /\ Local(h)
          /\ pc'[h] = "leastloaded" /\ i'[h] = i[h] + 1 /\ list'[h] = list[h]
      BY <1>1, <1>5, <1>7, <1>8, <1>10, StepTypes
    <2>2. UNCHANGED <<algorithm, clientRIF, moved>>
      BY <2>1 DEF Local
    <2>3. i[h] + 1 < Len(list[h])
      BY <1>2, <1>6, <1>10
    <2>4. Placed(h)'
      BY <1>1, <1>2, <1>4, <1>6, <2>1, <2>2, <2>3 DEF Placed, Algorithm
    <2>5. Sound(h)'
      BY <1>2, <1>4, <2>1, <2>2 DEF Sound
    <2> QED BY <2>1, <2>4, <2>5, LocalStep
  <1> QED BY <1>3, <1>9, <1>10

LEMMA LoadFirstLInv == \A h \in Handler : LInv /\ LoadFirst(h) => LInv'
  <1> SUFFICES ASSUME NEW h \in Handler, LInv, LoadFirst(h) PROVE LInv'
    OBVIOUS
  <1> DEFINE first == clientRIF[list[h][1]]
  <1>1. TypeOK /\ Placed(h) /\ pc[h] = "llpo2c" /\ pc[h] # "busy" /\ moved[h] \in Nat
    BY DEF LInv, LoadFirst, TypeOK
  <1>2. pc[h] \in Selecting /\ "compare2" \in Selecting /\ pc[h] \in Algorithm
    BY <1>1 DEF Selecting, Algorithm
  <1>3. Len(list[h]) = 2 /\ 1 \in 1..Len(list[h]) /\ list[h][1] \in Server
    BY <1>1, ListFacts DEF Placed
  <1>4. 1 \in 0..N /\ best[h] \in 0..N /\ best[h] \in Range(list[h])
    BY <1>1, <1>2, SelectorsAssumption DEF TypeOK
  <1>5. first \in Nat /\ first <= Cardinality(Handler)
    BY <1>1, <1>3, Rifs, CountedIsCapped DEF LInv, Capped
  <1>6. /\ Step(h, "compare2", 1, first) /\ draw' \in [Handler -> Nat]
        /\ best' = [best EXCEPT ![h] = best'[h]] /\ best'[h] = best[h]
    BY <1>1 DEF LoadFirst, TypeOK
  <1> HIDE DEF first
  <1>7. TypeOK' /\ Local(h) /\ pc'[h] = "compare2" /\ x'[h] = first /\ list'[h] = list[h]
    BY <1>1, <1>2, <1>3, <1>4, <1>5, <1>6, StepTypes
  <1>8. UNCHANGED <<algorithm, clientRIF, moved>>
    BY <1>7 DEF Local
  <1>9. Placed(h)'
    BY <1>1, <1>2, <1>7, <1>8 DEF Placed, Algorithm, LeastLoaded
  <1>10. first <= first + moved[h]
    BY <1>1, <1>5
  <1>11. Sound(h)'
    BY <1>5, <1>7, <1>8, <1>10 DEF Sound, first
  <1> QED BY <1>7, <1>9, <1>11, LocalStep

LEMMA CompareSecondLInv == \A h \in Handler : LInv /\ CompareSecond(h) => LInv'
  <1> SUFFICES ASSUME NEW h \in Handler, LInv, CompareSecond(h) PROVE LInv'
    OBVIOUS
  <1> DEFINE first == list[h][1]
             second == list[h][2]
             better == IF x[h] <= clientRIF[second] THEN first ELSE second
  <1>1. TypeOK /\ Placed(h) /\ Sound(h) /\ pc[h] = "compare2" /\ pc[h] # "busy"
        /\ moved[h] \in Nat /\ x[h] \in Nat /\ pc[h] \in Selecting
    BY DEF LInv, CompareSecond, TypeOK, Selecting
  <1>2. /\ Len(list[h]) = 2 /\ i[h] \in 1..Len(list[h]) /\ i[h] \in 0..N
        /\ first \in Server /\ first \in 0..N /\ first \in Range(list[h])
        /\ second \in Server /\ second \in 0..N /\ second \in Range(list[h])
    <2>1. Len(list[h]) = 2
      BY <1>1 DEF Placed
    <2>2. 1 \in 1..Len(list[h]) /\ 2 \in 1..Len(list[h])
      BY <2>1
    <2>3. i[h] \in 0..N
      BY <1>1 DEF TypeOK
    <2> QED BY <1>1, <2>1, <2>2, <2>3, ListFacts
  <1>3. /\ Step(h, "chosen", i[h], 0) /\ best' = [best EXCEPT ![h] = better]
        /\ draw' \in [Handler -> Nat]
    BY <1>1 DEF CompareSecond, Choose, TypeOK
  <1>4. best'[h] = better /\ best' = [best EXCEPT ![h] = best'[h]]
        /\ better \in 0..N /\ better \in Range(list[h])
    BY <1>1, <1>2, <1>3 DEF TypeOK
  <1>5. x[h] <= clientRIF[first] + moved[h] /\ clientRIF[first] <= x[h] + moved[h]
    BY <1>1 DEF Sound
  <1>6. clientRIF[first] \in Nat /\ clientRIF[second] \in Nat
    BY <1>1, <1>2, Rifs
  <1>7. clientRIF[better] <= clientRIF[first] + moved[h]
        /\ clientRIF[better] <= clientRIF[second] + moved[h]
    <2>1. CASE x[h] <= clientRIF[second]
      BY <1>1, <1>5, <1>6, <2>1
    <2>2. CASE ~(x[h] <= clientRIF[second])
      BY <1>1, <1>5, <1>6, <2>2
    <2> QED BY <2>1, <2>2
  <1> HIDE DEF better
  <1>8. "chosen" \in Selecting /\ 0 \in Nat
    BY DEF Selecting
  <1>9. /\ best' = [best EXCEPT ![h] = best'[h]] /\ best'[h] \in 0..N /\ best'[h] \in Range(list[h])
         /\ draw' \in [Handler -> Nat] /\ i[h] \in 0..N /\ i[h] \in 1..Len(list[h])
         /\ Step(h, "chosen", i[h], 0)
    BY <1>2, <1>3, <1>4
  <1>10. TypeOK' /\ Local(h) /\ pc'[h] = "chosen" /\ list'[h] = list[h]
    BY <1>1, <1>8, <1>9, StepTypes
  <1>11. UNCHANGED <<algorithm, clientRIF, moved>>
    BY <1>10 DEF Local
  <1>12. Placed(h)'
    BY <1>1, <1>10, <1>11 DEF Placed, Algorithm
  <1>13. \A k \in 1..Len(list[h]) : k = 1 \/ k = 2
    BY <1>2
  <1>14. Sound(h)'
    BY <1>4, <1>7, <1>10, <1>11, <1>13 DEF Sound
  <1> QED BY <1>10, <1>12, <1>14, LocalStep

\* Nothing is promised of what the other rules choose.
LEMMA OtherRulesSound ==
  ASSUME NEW h \in Handler, algorithm' \notin LeastLoaded,
         pc'[h] \in {"idle", "busy", "roundrobin", "weightedrr", "scan", "chosen"}
  PROVE  Sound(h)'
  BY DEF Sound

LEMMA SumLInv == \A h \in Handler : LInv /\ Sum(h) => LInv'
  <1> SUFFICES ASSUME NEW h \in Handler, LInv, Sum(h) PROVE LInv'
    OBVIOUS
  <1> DEFINE total == x[h] + weight[list[h][i[h]]]
  <1>1. TypeOK /\ Placed(h) /\ pc[h] = "weightedrr" /\ pc[h] # "busy"
        /\ pc[h] \in Selecting /\ pc[h] \in Algorithm
    BY DEF LInv, Sum, Selecting, Algorithm
  <1>2. algorithm = "weightedrr" /\ algorithm \notin LeastLoaded
    BY <1>1 DEF Placed, LeastLoaded
  <1>3. i[h] \in 1..Len(list[h]) /\ Len(list[h]) \in Nat /\ Len(list[h]) <= N /\ N \in Nat
        /\ list[h][i[h]] \in Server
    BY <1>1, ListFacts DEF Placed
  <1>4. total \in Nat
    <2>1. x[h] \in Nat /\ weight \in [Server -> Nat]
      BY <1>1 DEF TypeOK
    <2>2. weight[list[h][i[h]]] \in Nat
      BY <1>3, <2>1
    <2> QED BY <2>1, <2>2
  <1>5. best' = best /\ best[h] \in 0..N /\ best[h] \in Range(list[h])
    BY <1>1 DEF Sum, TypeOK
  <1>6. best' = [best EXCEPT ![h] = best'[h]] /\ best'[h] \in 0..N /\ best'[h] \in Range(list[h])
    BY <1>1, <1>5 DEF TypeOK
  <1>7. draw' \in [Handler -> Nat]
    <2>1. CASE i[h] < Len(list[h])
      BY <1>1, <2>1 DEF Sum, TypeOK
    <2>2. CASE ~(i[h] < Len(list[h]))
      <3>1. PICK r \in 0..(total - 1) : draw' = [draw EXCEPT ![h] = r]
        BY <2>2 DEF Sum
      <3>2. r \in Nat /\ draw \in [Handler -> Nat]
        BY <1>1, <1>4 DEF TypeOK
      <3> QED BY <3>1, <3>2
    <2> QED BY <2>1, <2>2
  <1>8. "weightedrr" \in Selecting /\ "scan" \in Selecting /\ 0 \in Nat
    BY DEF Selecting, Algorithm
  <1>9. TypeOK' /\ Local(h) /\ list'[h] = list[h] /\ pc'[h] \in {"weightedrr", "scan"}
    <2>1. CASE i[h] < Len(list[h])
      <3>1. Step(h, "weightedrr", i[h] + 1, total)
        BY <2>1 DEF Sum
      <3>2. i[h] + 1 \in 0..N /\ i[h] + 1 \in 1..Len(list[h])
        BY <1>3, <2>1
      <3> HIDE DEF total
      <3> QED BY <1>1, <1>4, <1>6, <1>7, <1>8, <3>1, <3>2, StepTypes
    <2>2. CASE ~(i[h] < Len(list[h]))
      <3>1. Step(h, "scan", 1, 0)
        BY <2>2 DEF Sum
      <3>2. 1 \in 0..N /\ 1 \in 1..Len(list[h])
        BY <1>3
      <3> QED BY <1>1, <1>6, <1>7, <1>8, <3>1, <3>2, StepTypes
    <2> QED BY <2>1, <2>2
  <1>10. UNCHANGED <<algorithm, clientRIF, moved>>
    BY <1>9 DEF Local
  <1>11. Placed(h)'
    BY <1>1, <1>2, <1>9, <1>10 DEF Placed, Algorithm
  <1>12. Sound(h)'
    BY <1>2, <1>9, <1>10, OtherRulesSound
  <1> QED BY <1>9, <1>11, <1>12, LocalStep

LEMMA ScanLInv == \A h \in Handler : LInv /\ Scan(h) => LInv'
  <1> SUFFICES ASSUME NEW h \in Handler, LInv, Scan(h) PROVE LInv'
    OBVIOUS
  <1> DEFINE s == list[h][i[h]]
             cum == x[h] + weight[s]
  <1>1. TypeOK /\ Placed(h) /\ pc[h] = "scan" /\ pc[h] # "busy" /\ pc[h] \in Selecting
    BY DEF LInv, Scan, Selecting
  <1>2. algorithm \notin LeastLoaded
    BY <1>1 DEF Placed
  <1>3. i[h] \in 1..Len(list[h]) /\ Len(list[h]) \in Nat /\ Len(list[h]) <= N /\ N \in Nat
        /\ s \in Server /\ s \in 0..N /\ s \in Range(list[h])
    BY <1>1, ListFacts DEF Placed
  <1>4. cum \in Nat /\ draw' \in [Handler -> Nat]
    <2>1. x[h] \in Nat /\ weight \in [Server -> Nat] /\ draw' \in [Handler -> Nat]
      BY <1>1 DEF TypeOK, Scan
    <2>2. weight[s] \in Nat
      BY <1>3, <2>1
    <2> QED BY <2>1, <2>2
  <1>5. "chosen" \in Selecting /\ "scan" \in Selecting /\ 0 \in Nat
    BY DEF Selecting
  <1>6. TypeOK' /\ Local(h) /\ list'[h] = list[h] /\ pc'[h] \in {"scan", "chosen"}
    <2>1. CASE draw[h] < cum \/ i[h] = Len(list[h])
      <3>1. Step(h, "chosen", i[h], 0) /\ best' = [best EXCEPT ![h] = s]
        BY <2>1 DEF Scan, Choose
      <3>2. best' = [best EXCEPT ![h] = best'[h]] /\ best'[h] = s
        BY <1>1, <3>1 DEF TypeOK
      <3>3. i[h] \in 0..N /\ best'[h] \in 0..N /\ best'[h] \in Range(list[h])
        BY <1>3, <3>2
      <3> HIDE DEF s, cum
      <3> QED BY <1>1, <1>3, <1>4, <1>5, <3>1, <3>2, <3>3, StepTypes
    <2>2. CASE ~(draw[h] < cum \/ i[h] = Len(list[h]))
      <3>1. Step(h, "scan", i[h] + 1, cum) /\ best' = best
        BY <2>2 DEF Scan
      <3>2. best' = [best EXCEPT ![h] = best'[h]]
            /\ best'[h] \in 0..N /\ best'[h] \in Range(list[h])
        BY <1>1, <3>1 DEF TypeOK
      <3>3. i[h] + 1 \in 0..N /\ i[h] + 1 \in 1..Len(list[h])
        BY <1>3, <2>2
      <3> HIDE DEF s, cum
      <3> QED BY <1>1, <1>4, <1>5, <3>1, <3>2, <3>3, StepTypes
    <2> QED BY <2>1, <2>2
  <1>7. UNCHANGED <<algorithm, clientRIF, moved>>
    BY <1>6 DEF Local
  <1>8. Placed(h)'
    BY <1>1, <1>2, <1>6, <1>7 DEF Placed, Algorithm
  <1>9. Sound(h)'
    BY <1>2, <1>6, <1>7, OtherRulesSound
  <1> QED BY <1>6, <1>8, <1>9, LocalStep

LEMMA TicketLInv == \A h \in Handler : LInv /\ Ticket(h) => LInv'
  <1> SUFFICES ASSUME NEW h \in Handler, LInv, Ticket(h) PROVE LInv'
    OBVIOUS
  <1> DEFINE idx == (rrIdx + 1) % Word
             ticket == (idx - 1) % Word
             turn == (ticket % Len(list[h])) + 1
  <1>1. TypeOK /\ Placed(h) /\ pc[h] = "roundrobin" /\ pc[h] # "busy"
        /\ pc[h] \in Selecting /\ pc[h] \in Algorithm
    BY DEF LInv, Ticket, Selecting, Algorithm
  <1>2. algorithm \notin LeastLoaded
    BY <1>1 DEF Placed, LeastLoaded
  <1>3. i[h] \in 1..Len(list[h]) /\ Len(list[h]) \in Nat /\ Len(list[h]) > 0
    BY <1>1, ListFacts
  <1>4. Word \in Nat /\ Word > 0 /\ rrIdx \in Nat
    BY <1>1, SelectorsAssumption DEF TypeOK
  <1>5. idx \in 0..(Word - 1) /\ ticket \in 0..(Word - 1)
    BY <1>4
  <1>6. turn \in 1..Len(list[h])
    <2>1. ticket \in Nat
      BY <1>4, <1>5
    <2>2. \A a, n \in Nat : n > 0 => (a % n) + 1 \in 1..n
      OBVIOUS
    <2> HIDE DEF ticket
    <2> QED BY <1>3, <2>1, <2>2
  <1>7. /\ rrIdx' = idx /\ pc' = [pc EXCEPT ![h] = "chosen"]
        /\ best' = [best EXCEPT ![h] = list[h][turn]]
        /\ UNCHANGED <<algorithm, healthy, clientRIF, latency, ewma, weight, refreshed,
                       list, i, x, draw, moved>>
    BY DEF Ticket, Turn, wrr
  <1> HIDE DEF idx, ticket, turn
  <1>8. list[h][turn] \in 0..N /\ list[h][turn] \in Range(list[h])
    BY <1>1, <1>6, ListFacts
  <1>9. /\ pc \in [Handler -> Points] /\ best \in [Handler -> 0..N]
        /\ "chosen" \in Points
    BY <1>1 DEF TypeOK, Points, Selecting
  <1>10. /\ pc' \in [Handler -> Points] /\ best' \in [Handler -> 0..N]
         /\ pc'[h] = "chosen" /\ best'[h] = list[h][turn]
         /\ \A g \in Handler \ {h} : pc'[g] = pc[g] /\ best'[g] = best[g]
    BY <1>7, <1>8, <1>9
  <1>11. \A g \in Handler : Typed(g)'
    <2>1. ASSUME NEW g \in Handler, g # h PROVE Typed(g)'
      BY <1>1, <1>7, <1>10, <2>1 DEF TypeOK, Typed
    <2>2. Typed(h)'
      BY <1>3, <1>7, <1>8, <1>10 DEF Typed
    <2> QED BY <2>1, <2>2
  <1>12. TypeOK'
    BY <1>1, <1>5, <1>7, <1>10, <1>11 DEF TypeOK, Typed, Points
  <1>13. Local(h)
    BY <1>1, <1>7, <1>10 DEF Local
  <1>14. Placed(h)'
    BY <1>1, <1>7, <1>10 DEF Placed, Algorithm
  <1>15. Sound(h)'
    BY <1>2, <1>7, <1>10, OtherRulesSound
  <1> QED BY <1>12, <1>13, <1>14, <1>15, LocalStep

\* A list of servers, each once.
Distinct(l) ==
    /\ l \in Seq(Server) /\ Len(l) \in 1..N
    /\ \A j, k \in 1..Len(l) : j # k => l[j] # l[k]

LEMMA HealthyListsDistinct ==
  ASSUME TypeOK, healthy # {}, NEW l \in HealthyLists
  PROVE  Distinct(l)
  <1> DEFINE n == Cardinality(healthy)
  <1>1. N \in Nat /\ healthy \subseteq 1..N
    BY SelectorsAssumption DEF TypeOK, Server
  <1>2. IsFiniteSet(healthy) /\ n <= N
    <2>1. IsFiniteSet(1..N) /\ Cardinality(1..N) <= N
      BY <1>1, FS_Interval
    <2>2. IsFiniteSet(healthy) /\ n <= Cardinality(1..N)
      BY <1>1, <2>1, FS_Subset
    <2>3. n \in Nat /\ Cardinality(1..N) \in Nat
      BY <2>1, <2>2, FS_CardinalityType
    <2> QED BY <1>1, <2>1, <2>2, <2>3
  <1>3. n \in Nat /\ n # 0
    BY <1>2, FS_CardinalityType, FS_EmptySet
  <1> HIDE DEF n
  <1>4. l \in [1..n -> healthy] /\ \A a, b \in 1..n : a < b => l[a] < l[b]
    BY DEF HealthyLists, n
  <1>5. l \in [1..n -> Server]
    BY <1>1, <1>4 DEF Server
  <1>6. l \in Seq(Server) /\ Len(l) = n
    <2>1. l \in Seq(Server)
      BY <1>3, <1>5, SeqDef
    <2>2. DOMAIN l = 1..n /\ DOMAIN l = 1..Len(l) /\ Len(l) \in Nat
      BY <1>5, <2>1, LenProperties
    <2> QED BY <1>3, <2>1, <2>2
  <1>7. \A a \in 1..n : l[a] \in Nat
    <2>1. \A s \in healthy : s \in Nat
      BY <1>1
    <2> QED BY <1>4, <2>1
  <1>8. ASSUME NEW a \in 1..n, NEW b \in 1..n, a # b PROVE l[a] # l[b]
    <2>1. a < b \/ b < a
      BY <1>3, <1>8
    <2> QED BY <1>4, <1>7, <2>1
  <1> QED BY <1>1, <1>2, <1>3, <1>6, <1>8 DEF Distinct

LEMMA CandidatesDistinct ==
  ASSUME NEW all, Distinct(all), NEW l \in Candidates(all)
  PROVE  Distinct(l) /\ (algorithm = "llpo2c" /\ Len(l) # 1 => Len(l) = 2)
  <1>1. all \in Seq(Server) /\ Len(all) \in 1..N /\ N \in Nat
        /\ DOMAIN all = 1..Len(all) /\ \A k \in 1..Len(all) : all[k] \in Server
    <2>1. all \in Seq(Server) /\ Len(all) \in 1..N /\ N \in Nat
      BY SelectorsAssumption DEF Distinct
    <2> QED BY <2>1, LenProperties
  <1>2. CASE algorithm = "llpo2c" /\ Len(all) > 1
    <2>1. PICK p \in (DOMAIN all) \X (DOMAIN all) :
             p[1] # p[2] /\ l = <<all[p[1]], all[p[2]]>>
      BY <1>2 DEF Candidates, Pairs
    <2>2. p[1] \in 1..Len(all) /\ p[2] \in 1..Len(all)
      BY <1>1, <2>1
    <2>3. PICK a \in Server, b \in Server : l = <<a, b>> /\ a # b
      BY <1>1, <2>1, <2>2 DEF Distinct
    <2>4. l \in Seq(Server) /\ Len(l) = 2 /\ l[1] = a /\ l[2] = b
      BY <2>3
    <2>5. Len(l) \in 1..N
      BY <1>1, <1>2, <2>4
    <2>6. ASSUME NEW j \in 1..Len(l), NEW k \in 1..Len(l), j # k PROVE l[j] # l[k]
      <3>1. (j = 1 /\ k = 2) \/ (j = 2 /\ k = 1)
        BY <2>4, <2>6
      <3> QED BY <2>3, <2>4, <3>1
    <2> QED BY <2>4, <2>5, <2>6 DEF Distinct
  <1>3. CASE ~(algorithm = "llpo2c" /\ Len(all) > 1)
    <2>1. l = all
      BY <1>3 DEF Candidates
    <2> QED BY <1>1, <1>3, <2>1
  <1> QED BY <1>2, <1>3

LEMMA SnapshotLInv == \A h \in Handler : LInv /\ Snapshot(h) => LInv'
  <1> SUFFICES ASSUME NEW h \in Handler, LInv, Snapshot(h) PROVE LInv'
    OBVIOUS
  <1>1. TypeOK /\ Placed(h) /\ pc[h] = "idle" /\ moved[h] \in Nat /\ algorithm \in Algorithm
    BY DEF LInv, Snapshot, TypeOK
  <1>2. PICK all \in HealthyLists : \E l \in Candidates(all) :
          /\ list' = [list EXCEPT ![h] = l]
          /\ best' = [best EXCEPT ![h] = l[1]]
          /\ pc' = [pc EXCEPT ![h] =
                       IF Len(l) = 1 /\ algorithm \in {"leastloaded", "llpo2c"}
                       THEN "chosen" ELSE algorithm]
    BY DEF Snapshot
  <1>3. PICK l \in Candidates(all) :
          /\ list' = [list EXCEPT ![h] = l]
          /\ best' = [best EXCEPT ![h] = l[1]]
          /\ pc' = [pc EXCEPT ![h] =
                       IF Len(l) = 1 /\ algorithm \in {"leastloaded", "llpo2c"}
                       THEN "chosen" ELSE algorithm]
    BY <1>2
  <1>4. Distinct(l) /\ (algorithm = "llpo2c" /\ Len(l) # 1 => Len(l) = 2)
    BY <1>1, HealthyListsDistinct, CandidatesDistinct DEF Snapshot
  <1>5. /\ l \in Seq(Server) /\ Len(l) \in 1..N /\ N \in Nat /\ 1 \in 1..Len(l) /\ 1 \in 0..N
        /\ l[1] \in Server /\ l[1] \in 0..N /\ l[1] \in Range(l)
    <2>1. l \in Seq(Server) /\ Len(l) \in 1..N /\ N \in Nat
      BY <1>4, SelectorsAssumption DEF Distinct
    <2>2. 1 \in 1..Len(l) /\ 1 \in 0..N
      BY <2>1
    <2>3. l[1] \in Server /\ l[1] \in Range(l)
      BY <2>1, <2>2, LenProperties DEF Range
    <2> QED BY <2>1, <2>2, <2>3 DEF Server
  <1>6. PICK q \in {"chosen", algorithm} :
          /\ pc' = [pc EXCEPT ![h] = q]
          /\ Len(l) = 1 /\ algorithm \in {"leastloaded", "llpo2c"} <=> q = "chosen"
    BY <1>1, <1>3 DEF Algorithm
  <1>7. /\ q \in Selecting /\ q \in Points /\ q # "busy"
        /\ pc \in [Handler -> Points] /\ list \in [Handler -> Seq(Server)]
        /\ best \in [Handler -> 0..N] /\ i \in [Handler -> 0..N]
    BY <1>1, <1>6 DEF TypeOK, Points, Selecting, Algorithm
  <1>8. /\ i' = [i EXCEPT ![h] = 1]
        /\ UNCHANGED <<algorithm, healthy, clientRIF, rrIdx, latency, ewma, weight, refreshed,
                       x, draw, moved>>
    BY DEF Snapshot, lb, wrr
  <1>9. /\ pc' \in [Handler -> Points] /\ list' \in [Handler -> Seq(Server)]
        /\ best' \in [Handler -> 0..N] /\ i' \in [Handler -> 0..N]
        /\ pc'[h] = q /\ list'[h] = l /\ best'[h] = l[1] /\ i'[h] = 1
        /\ \A g \in Handler \ {h} : /\ pc'[g] = pc[g] /\ list'[g] = list[g]
                                    /\ best'[g] = best[g] /\ i'[g] = i[g]
    BY <1>3, <1>5, <1>6, <1>7, <1>8
  <1>10. \A g \in Handler : Typed(g)'
    <2>1. ASSUME NEW g \in Handler, g # h PROVE Typed(g)'
      BY <1>1, <1>9, <2>1 DEF TypeOK, Typed
    <2>2. Typed(h)'
      BY <1>5, <1>9 DEF Typed
    <2> QED BY <2>1, <2>2
  <1>11. TypeOK'
    BY <1>1, <1>8, <1>9, <1>10 DEF TypeOK, Typed, Points
  <1>12. Local(h)
    BY <1>1, <1>7, <1>8, <1>9 DEF Local
  <1>13. q = "leastloaded" => Len(l) > 1
    <2>1. q = "leastloaded" => algorithm = "leastloaded"
      BY <1>6
    <2>2. q = "leastloaded" => Len(l) # 1
      BY <1>6, <2>1
    <2>3. \A n \in 1..N : n # 1 => n > 1
      BY <1>5
    <2>4. Len(l) \in 1..N
      BY <1>5
    <2> QED BY <2>2, <2>3, <2>4
  <1>14. q = "llpo2c" => Len(l) = 2
    BY <1>4, <1>6
  <1>15. q # "scan" /\ q # "compare" /\ q # "compare2" /\ q # "idle" /\ (q \in Algorithm => q = algorithm)
    BY <1>1, <1>6 DEF Algorithm
  <1>16. 1 \in 1..1 /\ l[1] = l[1]
    OBVIOUS
  <1>17. Placed(h)'
    BY <1>1, <1>4, <1>5, <1>7, <1>8, <1>9, <1>13, <1>14, <1>15, <1>16 DEF Placed, Distinct
  <1>18. clientRIF[l[1]] <= clientRIF[l[1]] + moved[h]
    BY <1>1, <1>5, Rifs
  <1>19. q = "chosen" => \A k \in 1..Len(l) : k = 1
    <2>1. q = "chosen" => Len(l) = 1
      BY <1>6
    <2> QED BY <2>1
  <1>20. \A k \in 1..1 : k = 1
    OBVIOUS
  <1>21. Sound(h)'
    BY <1>8, <1>9, <1>15, <1>18, <1>19, <1>20 DEF Sound
  <1> QED BY <1>11, <1>12, <1>17, <1>21, LocalStep

-----------------------------------------------------------------------------
\* The steps that change what others read.

\* A request comes to or leaves a server, and the locals of the others stay.
LEMMA DriftStep ==
  ASSUME LInv, NEW h \in Handler, TypeOK', Counted', Placed(h)', Sound(h)',
         algorithm' = algorithm, LoadMoved(h),
         NEW r \in Server, clientRIF'[r] = clientRIF[r] - 1 \/ clientRIF'[r] = clientRIF[r] + 1,
         \A s \in Server \ {r} : clientRIF'[s] = clientRIF[s],
         \A g \in Handler \ {h} : /\ pc'[g] = pc[g] /\ list'[g] = list[g] /\ i'[g] = i[g]
                                  /\ best'[g] = best[g] /\ x'[g] = x[g]
  PROVE  LInv'
  <1>1. Capped(clientRIF')
    <2>1. Counted' => Capped(clientRIF)'
      BY CountedIsCapped, PTL
    <2> QED BY <2>1 DEF Capped
  <1>2. ASSUME NEW g \in Handler, g # h PROVE Placed(g)' /\ Sound(g)'
    <2>1. /\ pc'[g] = pc[g] /\ list'[g] = list[g] /\ i'[g] = i[g]
          /\ best'[g] = best[g] /\ x'[g] = x[g]
      BY <1>2
    <2>2. TypeOK /\ Placed(g) /\ Sound(g) /\ moved[g] \in Nat /\ Cardinality(Handler) \in Nat
      BY Bound DEF LInv, TypeOK
    <2>3. moved'[g] = IF pc[g] \in {"idle", "busy"} THEN 0
                      ELSE IF algorithm \in LeastLoaded /\ moved[g] < Cardinality(Handler)
                      THEN moved[g] + 1 ELSE moved[g]
      BY <1>2 DEF LoadMoved, LeastLoaded
    <2>4. Placed(g)'
      <3>1. /\ algorithm \in LeastLoaded => moved'[g] <= Cardinality(Handler)
            /\ pc[g] \in {"idle", "busy"} => moved'[g] = 0
        BY <2>2, <2>3 DEF Placed
      <3> HIDE <2>3
      <3> QED BY <2>1, <2>2, <3>1 DEF Placed
    <2>5. Sound(g)'
      <3>1. CASE pc[g] \in {"idle", "busy"}
        BY <2>1, <3>1 DEF Sound
      <3>2. CASE pc[g] \notin {"idle", "busy"} /\ algorithm \in LeastLoaded
        <4>1. pc[g] \in Selecting
          BY <2>2, <3>2 DEF TypeOK
        <4>2. moved'[g] = IF moved[g] < Cardinality(Handler) THEN moved[g] + 1 ELSE moved[g]
          BY <2>3, <3>2
        <4>3. clientRIF' \in [Server -> Nat]
          BY DEF TypeOK
        <4> QED BY <1>1, <2>1, <2>2, <3>2, <4>1, <4>2, <4>3, DriftKeepsSound
      <3>3. CASE algorithm \notin LeastLoaded
        <4>1. pc[g] \notin {"leastloaded", "compare", "compare2"}
          BY <2>2, <3>3 DEF Placed, Algorithm, LeastLoaded
        <4> QED BY <2>1, <3>3, <4>1 DEF Sound
      <3> QED BY <3>1, <3>2, <3>3
    <2> QED BY <2>4, <2>5
  <1> QED BY <1>2 DEF LInv

LEMMA EnterLInv == \A h \in Handler : LInv /\ Enter(h) => LInv'
  <1> SUFFICES ASSUME NEW h \in Handler, LInv, Enter(h) PROVE LInv'
    OBVIOUS
  <1>1. TypeOK /\ Counted /\ pc[h] = "chosen" /\ pc[h] \in Selecting
    BY DEF LInv, Enter, Selecting
  <1>2. PICK r \in Server : r = best[h] /\ N \in Nat
    BY <1>1, ListFacts
  <1>3. /\ pc' = [pc EXCEPT ![h] = "busy"]
        /\ clientRIF' = [clientRIF EXCEPT ![r] = clientRIF[r] + 1]
        /\ list' = [list EXCEPT ![h] = <<>>]
        /\ i' = [i EXCEPT ![h] = 0] /\ draw' = [draw EXCEPT ![h] = 0]
        /\ LoadMoved(h)
        /\ UNCHANGED <<algorithm, healthy, rrIdx, latency, ewma, weight, refreshed, best, x>>
    BY <1>2 DEF Enter, wrr
  <1>4. /\ pc \in [Handler -> Points] /\ list \in [Handler -> Seq(Server)]
        /\ i \in [Handler -> 0..N] /\ clientRIF \in [Server -> Nat] /\ draw \in [Handler -> Nat]
        /\ "busy" \in Points /\ "busy" \notin Selecting /\ 0 \in 0..N
    BY <1>1, <1>2 DEF TypeOK, Points, Selecting, Algorithm
  <1>5. <<>> \in Seq(Server) /\ Len(<<>>) = 0
    OBVIOUS
  <1>6. /\ pc' \in [Handler -> Points] /\ list' \in [Handler -> Seq(Server)]
        /\ i' \in [Handler -> 0..N] /\ clientRIF' \in [Server -> Nat]
        /\ draw' \in [Handler -> Nat]
        /\ pc'[h] = "busy" /\ list'[h] = <<>>
        /\ clientRIF'[r] = clientRIF[r] + 1
        /\ \A s \in Server \ {r} : clientRIF'[s] = clientRIF[s]
        /\ \A g \in Handler \ {h} : /\ pc'[g] = pc[g] /\ list'[g] = list[g] /\ i'[g] = i[g]
                                    /\ best'[g] = best[g] /\ x'[g] = x[g]
    BY <1>2, <1>3, <1>4, <1>5
  <1>7. moved' \in [Handler -> Nat] /\ moved'[h] = 0
    <2>1. moved \in [Handler -> Nat]
      BY <1>1 DEF TypeOK
    <2> QED BY <1>3, <2>1 DEF LoadMoved
  <1>8. \A g \in Handler : Typed(g)'
    <2>1. ASSUME NEW g \in Handler, g # h PROVE Typed(g)'
      BY <1>1, <1>6, <2>1 DEF TypeOK, Typed
    <2>2. Typed(h)'
      BY <1>4, <1>6 DEF Typed
    <2> QED BY <2>1, <2>2
  <1>9. TypeOK'
    BY <1>1, <1>3, <1>6, <1>7, <1>8 DEF TypeOK, Typed, Points
  <1>10. BusyAt(r)' = BusyAt(r) \cup {h} /\ h \notin BusyAt(r)
    BY <1>1, <1>2, <1>3, <1>6 DEF BusyAt
  <1>11. \A s \in Server \ {r} : BusyAt(s)' = BusyAt(s)
    BY <1>1, <1>2, <1>3, <1>6 DEF BusyAt
  <1>12. Counted'
    <2>1. IsFiniteSet(BusyAt(r))
      <3>1. BusyAt(r) \subseteq Handler
        BY DEF BusyAt
      <3> QED BY <3>1, Bound, FS_Subset
    <2>2. Cardinality(BusyAt(r) \cup {h}) = Cardinality(BusyAt(r)) + 1
      BY <1>10, <2>1, FS_AddElement
    <2>3. Cardinality(BusyAt(r)') = clientRIF'[r]
      BY <1>1, <1>2, <1>6, <1>10, <2>2 DEF Counted
    <2>4. \A s \in Server \ {r} : Cardinality(BusyAt(s)') = clientRIF'[s]
      BY <1>1, <1>6, <1>11 DEF Counted
    <2> QED BY <2>3, <2>4 DEF Counted
  <1>13. Placed(h)'
    <2>1. 0 <= N /\ 0 <= Cardinality(Handler)
      BY <1>2, Bound
    <2> QED BY <1>2, <1>3, <1>4, <1>5, <1>6, <1>7, <2>1 DEF Placed, Algorithm
  <1>14. Sound(h)'
    BY <1>6 DEF Sound
  <1> QED BY <1>2, <1>3, <1>6, <1>9, <1>12, <1>13, <1>14, DriftStep

LEMMA LeaveLInv == \A h \in Handler : LInv /\ Leave(h) => LInv'
  <1> SUFFICES ASSUME NEW h \in Handler, LInv, Leave(h) PROVE LInv'
    OBVIOUS
  <1>1. TypeOK /\ Counted /\ Placed(h) /\ pc[h] = "busy"
    BY DEF LInv, Leave
  <1>2. PICK r \in Server : r = best[h] /\ N \in Nat
    BY <1>1, SelectorsAssumption DEF Placed
  <1>3. /\ pc' = [pc EXCEPT ![h] = "idle"]
        /\ clientRIF' = [clientRIF EXCEPT ![r] = clientRIF[r] - 1]
        /\ best' = [best EXCEPT ![h] = 0]
        /\ LoadMoved(h)
        /\ UNCHANGED <<algorithm, healthy, rrIdx, latency, ewma, weight, refreshed,
                       list, i, x, draw>>
    BY <1>2 DEF Leave, wrr
  <1>4. IsFiniteSet(BusyAt(r)) /\ h \in BusyAt(r)
    <2>1. BusyAt(r) \subseteq Handler /\ h \in BusyAt(r)
      BY <1>1, <1>2 DEF BusyAt
    <2> QED BY <2>1, Bound, FS_Subset
  <1>5. Cardinality(BusyAt(r) \ {h}) = clientRIF[r] - 1 /\ clientRIF[r] - 1 \in Nat
    <2>1. Cardinality(BusyAt(r) \ {h}) = Cardinality(BusyAt(r)) - 1
      BY <1>4, FS_RemoveElement
    <2>2. Cardinality(BusyAt(r) \ {h}) \in Nat
      BY <1>4, FS_RemoveElement, FS_CardinalityType
    <2> QED BY <1>1, <1>2, <2>1, <2>2 DEF Counted
  <1>6. /\ pc \in [Handler -> Points] /\ best \in [Handler -> 0..N]
        /\ clientRIF \in [Server -> Nat] /\ "idle" \in Points /\ "idle" \notin Selecting
        /\ 0 \in 0..N
    BY <1>1, <1>2 DEF TypeOK, Points, Selecting, Algorithm
  <1>7. /\ pc' \in [Handler -> Points] /\ best' \in [Handler -> 0..N]
        /\ clientRIF' \in [Server -> Nat]
        /\ pc'[h] = "idle" /\ list'[h] = list[h]
        /\ clientRIF'[r] = clientRIF[r] - 1
        /\ \A s \in Server \ {r} : clientRIF'[s] = clientRIF[s]
        /\ \A g \in Handler \ {h} : /\ pc'[g] = pc[g] /\ list'[g] = list[g] /\ i'[g] = i[g]
                                    /\ best'[g] = best[g] /\ x'[g] = x[g]
    BY <1>2, <1>3, <1>5, <1>6
  <1>8. moved' \in [Handler -> Nat] /\ moved'[h] = 0
    <2>1. moved \in [Handler -> Nat]
      BY <1>1 DEF TypeOK
    <2> QED BY <1>3, <2>1 DEF LoadMoved
  <1>9. \A g \in Handler : Typed(g)'
    <2>1. ASSUME NEW g \in Handler, g # h PROVE Typed(g)'
      BY <1>1, <1>7, <2>1 DEF TypeOK, Typed
    <2>2. Typed(h)'
      BY <1>6, <1>7 DEF Typed
    <2> QED BY <2>1, <2>2
  <1>10. TypeOK'
    BY <1>1, <1>3, <1>7, <1>8, <1>9 DEF TypeOK, Typed, Points
  <1>11. BusyAt(r)' = BusyAt(r) \ {h}
    BY <1>1, <1>2, <1>3, <1>7 DEF BusyAt
  <1>12. \A s \in Server \ {r} : BusyAt(s)' = BusyAt(s)
    BY <1>1, <1>2, <1>3, <1>7 DEF BusyAt
  <1>13. Counted'
    <2>1. Cardinality(BusyAt(r)') = clientRIF'[r]
      BY <1>5, <1>7, <1>11
    <2>2. \A s \in Server \ {r} : Cardinality(BusyAt(s)') = clientRIF'[s]
      BY <1>1, <1>7, <1>12 DEF Counted
    <2> QED BY <2>1, <2>2 DEF Counted
  <1>14. Placed(h)'
    <2>1. 0 <= Cardinality(Handler)
      BY Bound
    <2> QED BY <1>1, <1>3, <1>7, <1>8, <2>1 DEF Placed, Algorithm
  <1>15. Sound(h)'
    BY <1>7 DEF Sound
  <1> QED BY <1>2, <1>3, <1>7, <1>10, <1>13, <1>14, <1>15, DriftStep

\* What the background goroutines leave alone.
LEMMA BackgroundStep ==
  ASSUME LInv, TypeOK', UNCHANGED <<algorithm, clientRIF, locals>>,
         \/ UNCHANGED moved
         \/ algorithm = "weightedrr" /\ \E s \in Server : WeightMoved(s)
  PROVE  LInv'
  <1>1. UNCHANGED <<pc, list, i, best, x>> /\ algorithm' = algorithm /\ clientRIF' = clientRIF
    BY DEF locals
  <1>2. ASSUME NEW s \in Server PROVE BusyAt(s)' = BusyAt(s)
    BY <1>1 DEF BusyAt
  <1>3. Counted'
    BY <1>1, <1>2 DEF LInv, Counted
  <1>4. ASSUME NEW h \in Handler PROVE Placed(h)' /\ Sound(h)'
    <2>1. TypeOK /\ Placed(h) /\ Sound(h)
      BY DEF LInv
    <2>2. CASE UNCHANGED moved
      <3>1. Placed(h)'
        BY <1>1, <2>1, <2>2 DEF Placed
      <3>2. Sound(h)'
        BY <1>1, <2>1, <2>2 DEF Sound
      <3> QED BY <3>1, <3>2
    <2>3. CASE algorithm = "weightedrr" /\ \E s \in Server : WeightMoved(s)
      <3>1. pc[h] \in {"idle", "busy"} => moved'[h] = 0
        BY <2>3 DEF WeightMoved
      <3>2. algorithm \notin LeastLoaded
        BY <2>3 DEF LeastLoaded
      <3>3. Placed(h)'
        BY <1>1, <2>1, <3>1, <3>2 DEF Placed
      <3>4. pc[h] \notin {"leastloaded", "compare", "compare2"}
        BY <2>1, <2>3 DEF Placed, Algorithm
      <3>5. Sound(h)'
        BY <1>1, <3>2, <3>4 DEF Sound
      <3> QED BY <3>3, <3>5
    <2> QED BY <2>2, <2>3
  <1> QED BY <1>3, <1>4 DEF LInv

LEMMA ProbedLInv ==
  \A s \in Server, ok \in BOOLEAN, ms \in Latencies : LInv /\ Probed(s, ok, ms) => LInv'
  <1> SUFFICES ASSUME NEW s \in Server, NEW ok \in BOOLEAN, NEW ms \in Latencies,
                      LInv, Probed(s, ok, ms)
               PROVE  LInv'
    OBVIOUS
  <1>1. TypeOK
    BY DEF LInv
  <1>2. /\ healthy' \subseteq Server
        /\ latency' \in [Server -> Latencies \cup {0}]
        /\ UNCHANGED <<algorithm, clientRIF, rrIdx, ewma, weight, refreshed, locals, moved>>
    BY <1>1 DEF Probed, TypeOK
  <1>3. TypeOK'
    BY <1>1, <1>2 DEF TypeOK, locals
  <1> QED BY <1>2, <1>3, BackgroundStep

\* By how much the weight of s has changed.
Change(s) == IF weight'[s] >= weight[s] THEN weight'[s] - weight[s] ELSE weight[s] - weight'[s]

LEMMA WeightMovedTypes ==
  ASSUME TypeOK, weight' \in [Server -> Nat], NEW s \in Server, WeightMoved(s)
  PROVE  /\ Change(s) \in Nat
         /\ weight'[s] <= weight[s] + Change(s) /\ weight[s] <= weight'[s] + Change(s)
         /\ \A h \in Handler :
               moved'[h] = IF pc[h] \in {"idle", "busy"} THEN 0 ELSE moved[h] + Change(s)
         /\ moved' \in [Handler -> Nat]
  <1>1. weight[s] \in Nat /\ weight'[s] \in Nat /\ moved \in [Handler -> Nat]
    BY DEF TypeOK
  <1>2. /\ Change(s) \in Nat
        /\ weight'[s] <= weight[s] + Change(s) /\ weight[s] <= weight'[s] + Change(s)
    BY <1>1 DEF Change
  <1>3. moved' = [h \in Handler |->
                     IF pc[h] \in {"idle", "busy"} THEN 0 ELSE moved[h] + Change(s)]
    BY DEF WeightMoved, Change
  <1> QED BY <1>1, <1>2, <1>3

LEMMA RefreshLInv == LInv /\ Weights' /\ Refresh => LInv'
  <1> SUFFICES ASSUME LInv, Weights', Refresh PROVE LInv'
    OBVIOUS
  <1>1. TypeOK
    BY DEF LInv
  <1>2. /\ UNCHANGED <<algorithm, healthy, clientRIF, rrIdx, latency, locals>>
        /\ algorithm = "weightedrr"
    BY DEF Refresh, lb
  <1>3. ewma' \in [Server -> Nat] /\ weight' \in [Server -> Nat] /\ refreshed' \in 0..(N - 1)
    BY DEF Weights
  <1>4. PICK s \in Server : WeightMoved(s)
    <2>1. refreshed + 1 \in Server
      BY <1>1, SelectorsAssumption DEF TypeOK, Server
    <2> QED BY <2>1 DEF Refresh
  <1>5. moved' \in [Handler -> Nat]
    BY <1>1, <1>3, <1>4, WeightMovedTypes
  <1>6. TypeOK'
    BY <1>1, <1>2, <1>3, <1>5 DEF TypeOK, locals
  <1> QED BY <1>2, <1>4, <1>6, BackgroundStep

LEMMA InitLInv == Init => LInv
  <1> SUFFICES ASSUME Init PROVE LInv
    OBVIOUS
  <1>1. /\ N \in Nat /\ N > 0 /\ Word \in Nat /\ Word > 0 /\ 0 \in 0..(Word - 1) /\ 0 \in 0..(N - 1)
        /\ 0 \in 0..N /\ InitialEWMA \in Nat
    BY SelectorsAssumption
  <1>2. <<>> \in Seq(Server) /\ Len(<<>>) = 0
    OBVIOUS
  <1>3. \A h \in Handler : pc[h] = "idle" /\ moved[h] = 0 /\ list[h] = <<>>
    BY DEF Init
  <1>4. "idle" \notin Selecting
    BY DEF Selecting, Algorithm
  <1>5. TypeOK
    BY <1>1, <1>2, <1>3, <1>4 DEF Init, TypeOK
  <1>6. Counted
    <2>1. \A s \in Server : BusyAt(s) = {}
      BY <1>3 DEF BusyAt
    <2> QED BY <2>1, FS_EmptySet DEF Init, Counted
  <1>7. \A h \in Handler : Placed(h) /\ Sound(h)
    <2> SUFFICES ASSUME NEW h \in Handler PROVE Placed(h) /\ Sound(h)
      OBVIOUS
    <2>1. 0 <= N /\ 0 <= Cardinality(Handler)
      BY <1>1, Bound
    <2>2. Placed(h)
      BY <1>2, <1>3, <2>1 DEF Placed, Algorithm
    <2>3. Sound(h)
      BY <1>3 DEF Sound
    <2> QED BY <2>2, <2>3
  <1> QED BY <1>5, <1>6, <1>7 DEF LInv

LEMMA NextLInv == LInv /\ Weights /\ [Next]_vars => LInv'
  <1> SUFFICES ASSUME LInv, Weights, [Next]_vars PROVE LInv'
    OBVIOUS
  <1>1. CASE UNCHANGED vars
    <2>1. UNCHANGED <<algorithm, healthy, clientRIF, rrIdx, latency, ewma, weight, refreshed,
                      pc, list, i, best, x, draw, moved>>
      BY <1>1 DEF vars, lb, wrr, locals
    <2>2. TypeOK'
      BY <2>1 DEF LInv, TypeOK
    <2> QED BY <2>1, <2>2, BackgroundStep DEF locals
  <1>2. CASE Refresh
    BY <1>2, RefreshLInv, RefreshWeights
  <1> QED BY <1>1, <1>2, SnapshotLInv, EnterLInv, LeaveLInv, TicketLInv, LoadLInv, CompareLInv,
             LoadFirstLInv, CompareSecondLInv, SumLInv, ScanLInv, ProbedLInv DEF Next

LEMMA Drift == Spec => [](LInv /\ Weights)
  <1>1. Init => LInv /\ Weights
    BY InitLInv, InitWeights
  <1>2. LInv /\ Weights /\ [Next]_vars => LInv' /\ Weights'
    BY NextLInv, NextWeights
  <1> QED BY <1>1, <1>2, PTL DEF Spec

\* Every variable keeps its type, and a request that is selecting always has a
\* server of its own list as the best so far.
THEOREM TypeCorrect == Spec => []TypeOK
  <1>1. LInv => TypeOK
    BY DEF LInv
  <1> QED BY <1>1, Drift, PTL

\* Whatever requests come and go while a least-loaded rule is at work, and however
\* its loads of ClientRIF interleave with them, the server it chooses has at most
\* one request more than any other candidate for each such change.
THEOREM LeastLoadedStaysWithinDrift == Spec => []LeastLoadedWithinDrift
  <1>1. LInv => LeastLoadedWithinDrift
    <2> SUFFICES ASSUME LInv, NEW h \in Handler,
                        pc[h] = "chosen", algorithm \in {"leastloaded", "llpo2c"},
                        NEW s \in Range(list[h])
                 PROVE  clientRIF[best[h]] <= clientRIF[s] + moved[h]
      BY DEF LeastLoadedWithinDrift
    <2>1. \A k \in 1..Len(list[h]) : clientRIF[best[h]] <= clientRIF[list[h][k]] + moved[h]
      BY DEF LInv, Sound, LeastLoaded
    <2>2. DOMAIN list[h] = 1..Len(list[h])
      BY ListFacts DEF LInv
    <2>3. PICK k \in 1..Len(list[h]) : s = list[h][k]
      BY <2>2 DEF Range
    <2> QED BY <2>1, <2>3
  <1> QED BY <1>1, Drift, PTL

-----------------------------------------------------------------------------
\* The rotation of round robin.

LEMMA Remainder ==
  ASSUME NEW n \in Nat, n > 0, NEW a \in Int, NEW q \in Int, NEW r \in 0..(n - 1), a = q * n + r
  PROVE  a % n = r
  <1>1. PICK s \in Int, b \in 0..(n - 1) : a = s * n + b /\ b = a % n
    <2>1. a % n \in 0..(n - 1) /\ a = (a \div n) * n + (a % n) /\ a \div n \in Int
      BY SMT
    <2> QED BY <2>1
  <1>2. PICK d \in Int : d = q - s
    OBVIOUS
  <1>3. d * n = b - r
    <2>1. q * n - s * n = (q - s) * n
      BY SMT
    <2> QED BY <1>1, <1>2, <2>1, SMT
  <1>4. ~(d >= 1)
    <2>1. ASSUME d >= 1 PROVE d * n >= n
      BY <2>1, SMT
    <2> QED BY <1>1, <1>3, <2>1, SMT
  <1>5. ~(d <= 0 - 1)
    <2>1. ASSUME d <= 0 - 1 PROVE d * n <= 0 - n
      BY <2>1, SMT
    <2> QED BY <1>1, <1>3, <2>1, SMT
  <1>6. d = 0
    BY <1>4, <1>5
  <1>7. d * n = 0
    BY <1>6
  <1> QED BY <1>1, <1>3, <1>7

\* rrIdx holds the next ticket, and wraps.
LEMMA NextTicket ==
  ASSUME NEW w \in Nat, w > 1, NEW r \in 0..(w - 1)
  PROVE  /\ (r + 1) % w = IF r = w - 1 THEN 0 ELSE r + 1
         /\ (((r + 1) % w) - 1) % w = r
  <1>1. CASE r = w - 1
    <2>1. (r + 1) % w = 0
      <3>1. r + 1 = 1 * w + 0 /\ 0 \in 0..(w - 1) /\ r + 1 \in Int
        BY <1>1
      <3> QED BY <3>1, Remainder
    <2>2. (0 - 1) % w = r
      <3>1. 0 - 1 = (0 - 1) * w + r /\ 0 - 1 \in Int
        BY <1>1
      <3> QED BY <3>1, Remainder
    <2> QED BY <1>1, <2>1, <2>2
  <1>2. CASE r # w - 1
    <2>1. (r + 1) % w = r + 1
      <3>1. r + 1 = 0 * w + (r + 1) /\ r + 1 \in 0..(w - 1) /\ r + 1 \in Int /\ 0 \in Int
        BY <1>2
      <3> QED BY <3>1, Remainder
    <2>2. r % w = r
      <3>1. r = 0 * w + r /\ r \in Int /\ 0 \in Int
        OBVIOUS
      <3> QED BY <3>1, Remainder
    <2>3. (r + 1) - 1 = r
      OBVIOUS
    <2> QED BY <1>2, <2>1, <2>2, <2>3
  <1> QED BY <1>1, <1>2

\* n numbers in a row have every remainder.
LEMMA EveryRemainder ==
  ASSUME NEW n \in Nat, n > 0, NEW c \in Nat, NEW r \in 0..(n - 1)
  PROVE  \E d \in 0..(n - 1) : (c + d) % n = r
  <1>1. PICK q \in Int, b \in 0..(n - 1) : c = q * n + b
    <2>1. c % n \in 0..(n - 1) /\ c = (c \div n) * n + (c % n) /\ c \div n \in Int
      BY SMT
    <2> QED BY <2>1
  <1>2. CASE b <= r
    <2>1. r - b \in 0..(n - 1) /\ c + (r - b) = q * n + r /\ c + (r - b) \in Int
      <3>1. q * n \in Int
        OBVIOUS
      <3> QED BY <1>1, <1>2, <3>1
    <2> QED BY <2>1, Remainder
  <1>3. CASE ~(b <= r)
    <2>1. (q + 1) * n = q * n + n /\ q * n \in Int /\ q + 1 \in Int
      BY SMT
    <2>2. (r - b) + n \in 0..(n - 1) /\ c + ((r - b) + n) = (q + 1) * n + r
          /\ c + ((r - b) + n) \in Int
      BY <1>1, <1>3, <2>1
    <2> QED BY <2>1, <2>2, Remainder
  <1> QED BY <1>2, <1>3

Pick == [ticket : 0..(Word - 1), server : Server]

\* What is remembered are the last turns of the list: their tickets lead up to r,
\* the next one, and wrap at most once.
Rotation(p, l, r) ==
    /\ l \in Seq(Server) /\ Len(l) <= N
    /\ p \in Seq(Pick)
    /\ p # <<>> => l # <<>> /\ Len(p) < 2 * Len(l)
    /\ \A j \in 1..Len(p) :
          /\ p[j].server = Turn(p[j].ticket, l)
          /\ \/ p[j].ticket = r - (Len(p) + 1 - j)
             \/ p[j].ticket = r - (Len(p) + 1 - j) + Word

LEMMA TurnIsServer ==
  ASSUME NEW l \in Seq(Server), l # <<>>, NEW t \in Nat
  PROVE  Turn(t, l) \in Server /\ Turn(t, l) \in Range(l)
  <1>1. Len(l) \in Nat /\ Len(l) > 0 /\ DOMAIN l = 1..Len(l)
    BY LenProperties, EmptySeq
  <1>2. PICK n \in Nat : n = Len(l)
    BY <1>1
  <1>3. t % n \in 0..(n - 1)
    BY <1>1, <1>2, SMT
  <1>4. (t % n) + 1 \in 1..n
    BY <1>2, <1>3
  <1> QED BY <1>1, <1>2, <1>4 DEF Turn, Range

Served(p, a, b) == {p[j].server : j \in a..b}

\* A window of as many turns as the list is long, with no wrap in it.
LEMMA WindowCovers ==
  ASSUME NEW l \in Seq(Server), l # <<>>, NEW p, NEW a \in Nat, NEW c \in Nat,
         \A j \in a..(a + Len(l) - 1) :
            p[j].server = Turn(p[j].ticket, l) /\ p[j].ticket = c + (j - a)
  PROVE  Served(p, a, a + Len(l) - 1) = Range(l)
  <1>1. Len(l) \in Nat /\ Len(l) > 0 /\ DOMAIN l = 1..Len(l)
    BY LenProperties, EmptySeq
  <1>2. PICK n \in Nat : n = Len(l) /\ n > 0
    BY <1>1
  <1>3. ASSUME NEW j \in a..(a + n - 1) PROVE p[j].server \in Range(l)
    <2>1. p[j].server = Turn(p[j].ticket, l) /\ p[j].ticket \in Nat
      BY <1>2, <1>3
    <2> QED BY <2>1, TurnIsServer
  <1>4. ASSUME NEW s \in Range(l) PROVE \E j \in a..(a + n - 1) : p[j].server = s
    <2>1. PICK k \in 1..n : l[k] = s
      BY <1>1, <1>2 DEF Range
    <2>2. PICK d \in 0..(n - 1) : (c + d) % n = k - 1
      <3>1. k - 1 \in 0..(n - 1)
        OBVIOUS
      <3> QED BY <1>2, <3>1, EveryRemainder
    <2>3. a + d \in a..(a + n - 1) /\ (a + d) - a = d /\ (k - 1) + 1 = k
      OBVIOUS
    <2>4. p[a + d].server = Turn(p[a + d].ticket, l) /\ p[a + d].ticket = c + d
      BY <1>2, <2>3
    <2>5. Turn(c + d, l) = l[k]
      BY <1>2, <2>2, <2>3 DEF Turn
    <2> QED BY <2>1, <2>3, <2>4, <2>5
  <1> QED BY <1>2, <1>3, <1>4 DEF Served

LEMMA RotationGrows ==
  ASSUME NEW l \in Seq(Server), l # <<>>, Len(l) <= N, NEW p, NEW r \in 0..(Word - 1),
         Rotation(p, l, r),
         NEW q, q = Append(p, [ticket |-> r, server |-> Turn(r, l)])
  PROVE  Rotation(IF Len(q) < 2 * Len(l) THEN q ELSE Tail(q), l, (r + 1) % Word)
  <1> DEFINE new == [ticket |-> r, server |-> Turn(r, l)]
             r1 == (r + 1) % Word
  <1>1. /\ Len(l) \in Nat /\ Len(l) > 0 /\ N \in Nat /\ Word \in Nat /\ Word > 1
        /\ Word >= 2 * N /\ r \in Nat
    BY LenProperties, EmptySeq, SelectorsAssumption
  <1>2. new \in Pick
    BY <1>1, TurnIsServer DEF Pick
  <1>3. p \in Seq(Pick) /\ Len(p) \in Nat /\ (p # <<>> => Len(p) < 2 * Len(l)) /\ Len(p) < 2 * Len(l)
    BY <1>1, LenProperties DEF Rotation
  <1>4. /\ q \in Seq(Pick) /\ Len(q) = Len(p) + 1
        /\ \A j \in 1..Len(p) : q[j] = p[j]
        /\ q[Len(p) + 1] = new
    BY <1>2, <1>3, AppendProperties
  <1>5. r1 = IF r = Word - 1 THEN 0 ELSE r + 1
    BY <1>1, NextTicket
  <1> HIDE DEF r1
  <1>6. ASSUME NEW j \in 1..Len(q)
        PROVE  /\ q[j].server = Turn(q[j].ticket, l)
               /\ q[j].ticket \in 0..(Word - 1)
               /\ \/ q[j].ticket = r1 - (Len(q) + 1 - j)
                  \/ q[j].ticket = r1 - (Len(q) + 1 - j) + Word
    <2>1. CASE j = Len(p) + 1
      <3>1. q[j].ticket = r /\ q[j].server = Turn(r, l)
        BY <1>4, <2>1
      <3> QED BY <1>1, <1>3, <1>4, <1>5, <2>1, <3>1
    <2>2. CASE j # Len(p) + 1
      <3>1. j \in 1..Len(p)
        BY <1>3, <1>4, <2>2
      <3>2. PICK t \in 0..(Word - 1) : t = p[j].ticket
        <4>1. p[j] \in Pick
          BY <1>3, <3>1, LenProperties
        <4> QED BY <4>1 DEF Pick
      <3>3. /\ p[j].server = Turn(t, l)
            /\ t = r - (Len(p) + 1 - j) \/ t = r - (Len(p) + 1 - j) + Word
        BY <3>1, <3>2 DEF Rotation
      <3>4. q[j].ticket = t /\ q[j].server = p[j].server
        BY <1>4, <3>1, <3>2
      <3>5. Len(p) + 1 - j < Word /\ Len(p) + 1 - j >= 1
        BY <1>1, <1>3, <3>1
      <3>6. t = r1 - (Len(p) + 2 - j) \/ t = r1 - (Len(p) + 2 - j) + Word
        <4>1. PICK m \in Nat : m = Len(p)
          BY <1>3
        <4>2. PICK w \in Nat : w = Word
          BY <1>1
        <4>3. PICK v \in Int : v = r1
          BY <1>1, <1>5
        <4>4. /\ v = IF r = w - 1 THEN 0 ELSE r + 1
              /\ t = r - (m + 1 - j) \/ t = r - (m + 1 - j) + w
              /\ m + 1 - j < w /\ m + 1 - j >= 1 /\ t \in 0..(w - 1) /\ r \in 0..(w - 1)
              /\ j \in Int
          BY <1>5, <3>1, <3>3, <3>5, <4>1, <4>2, <4>3
        <4>5. t = v - (m + 2 - j) \/ t = v - (m + 2 - j) + w
          BY <4>4
        <4> QED BY <4>1, <4>2, <4>3, <4>5
      <3> QED BY <1>1, <1>3, <1>4, <3>3, <3>4, <3>6
    <2> QED BY <2>1, <2>2
  <1>7. CASE Len(q) < 2 * Len(l)
    BY <1>4, <1>6, <1>7 DEF Rotation, r1
  <1>8. CASE ~(Len(q) < 2 * Len(l))
    <2> DEFINE z == Tail(q)
    <2>1. q # <<>>
      BY <1>1, <1>3, <1>4, EmptySeq
    <2>2. z \in Seq(Pick) /\ Len(z) = Len(p) /\ \A j \in 1..Len(p) : z[j] = q[j + 1]
      BY <1>3, <1>4, <2>1, HeadTailProperties
    <2>3. Len(z) < 2 * Len(l)
      BY <1>1, <1>3, <2>2
    <2> HIDE DEF z
    <2>4. ASSUME NEW j \in 1..Len(z)
          PROVE  /\ z[j].server = Turn(z[j].ticket, l)
                 /\ \/ z[j].ticket = r1 - (Len(z) + 1 - j)
                    \/ z[j].ticket = r1 - (Len(z) + 1 - j) + Word
      <3>1. j + 1 \in 1..Len(q) /\ z[j] = q[j + 1]
            /\ Len(q) + 1 - (j + 1) = Len(z) + 1 - j
        BY <1>3, <1>4, <2>2
      <3> QED BY <1>6, <3>1
    <2>5. Rotation(z, l, r1)
      BY <2>2, <2>3, <2>4 DEF Rotation
    <2> QED BY <1>8, <2>5 DEF z, r1
  <1> QED BY <1>7, <1>8

RotInv == Rotation(turns.picks, turns.list, rrIdx)

LEMMA TicketRotInv == \A h \in Handler : LInv /\ RotInv /\ Ticket(h) => RotInv'
  <1> SUFFICES ASSUME NEW h \in Handler, LInv, RotInv, Ticket(h) PROVE RotInv'
    OBVIOUS
  <1>1. TypeOK /\ Placed(h) /\ pc[h] = "roundrobin" /\ pc[h] \in Selecting
    BY DEF LInv, Ticket, Selecting, Algorithm
  <1>2. PICK l \in Seq(Server) : l = list[h]
    BY <1>1, ListFacts
  <1>3. l # <<>> /\ Len(l) <= N
    <2>1. i[h] \in 1..Len(l) /\ Len(l) \in Nat
      BY <1>1, <1>2, ListFacts
    <2>2. Len(l) # 0
      BY <2>1
    <2> QED BY <1>1, <1>2, <2>2 DEF Placed
  <1>4. PICK r \in 0..(Word - 1) : r = rrIdx
    BY <1>1 DEF TypeOK
  <1>5. Word \in Nat /\ Word > 1
    BY SelectorsAssumption
  <1>6. rrIdx' = (r + 1) % Word /\ Remember(r, l)
    <2>1. (((r + 1) % Word) - 1) % Word = r
      BY <1>5, NextTicket
    <2> QED BY <1>2, <1>4, <2>1 DEF Ticket
  <1>7. PICK p : /\ p = IF turns.list = l THEN turns.picks ELSE <<>>
                 /\ turns' = [list |-> l,
                              picks |-> LET q == Append(p, [ticket |-> r, server |-> Turn(r, l)])
                                        IN  IF Len(q) < 2 * Len(l) THEN q ELSE Tail(q)]
    BY <1>6, Zenon DEF Remember
  <1>8. Rotation(p, l, r)
    <2>1. CASE turns.list = l
      BY <1>4, <1>7, <2>1 DEF RotInv
    <2>2. CASE turns.list # l
      <3>1. p = <<>> /\ <<>> \in Seq(Pick) /\ Len(<<>>) = 0
        BY <1>7, <2>2
      <3> QED BY <1>3, <3>1 DEF Rotation
    <2> QED BY <2>1, <2>2
  <1>9. PICK q : q = Append(p, [ticket |-> r, server |-> Turn(r, l)])
    OBVIOUS
  <1>10. Rotation(IF Len(q) < 2 * Len(l) THEN q ELSE Tail(q), l, (r + 1) % Word)
    BY <1>3, <1>8, <1>9, RotationGrows
  <1>11. turns'.list = l /\ turns'.picks = IF Len(q) < 2 * Len(l) THEN q ELSE Tail(q)
    BY <1>7, <1>9
  <1> QED BY <1>6, <1>10, <1>11 DEF RotInv

LEMMA NextRotInv == LInv /\ RotInv /\ [Next]_vars => RotInv'
  <1> SUFFICES ASSUME LInv, RotInv, [Next]_vars PROVE RotInv'
    OBVIOUS
  <1>1. ASSUME UNCHANGED <<turns, rrIdx>> PROVE RotInv'
    BY <1>1 DEF RotInv
  <1>2. ASSUME NEW h \in Handler,
               \/ Snapshot(h) \/ Enter(h) \/ Leave(h) \/ Load(h) \/ Compare(h)
               \/ LoadFirst(h) \/ CompareSecond(h) \/ Sum(h) \/ Scan(h)
        PROVE  UNCHANGED <<turns, rrIdx>>
    BY <1>2 DEF Snapshot, Enter, Leave, Load, Compare, LoadFirst, CompareSecond,
                Sum, Scan, Step, Choose, lb
  <1>3. ASSUME NEW s \in Server, NEW ok \in BOOLEAN, NEW ms \in Latencies, Probed(s, ok, ms)
        PROVE  UNCHANGED <<turns, rrIdx>>
    BY <1>3 DEF Probed
  <1>4. Refresh => UNCHANGED <<turns, rrIdx>>
    BY DEF Refresh, lb
  <1>5. UNCHANGED vars => UNCHANGED <<turns, rrIdx>>
    BY DEF vars, lb
  <1> QED BY <1>1, <1>2, <1>3, <1>4, <1>5, TicketRotInv DEF Next

\* Tickets rise by one inside a window that does not end below its start.
LEMMA NoWrapBetween ==
  ASSUME NEW w \in Nat, NEW r \in Int, NEW m \in Nat, NEW n \in Nat,
         m < 2 * n, 2 * n <= w, NEW a \in 1..m, a + n - 1 <= m, NEW j \in a..(a + n - 1),
         NEW c \in 0..(w - 1), NEW t \in 0..(w - 1), NEW d \in 0..(w - 1), c <= d,
         c = r - (m + 1 - a) \/ c = r - (m + 1 - a) + w,
         t = r - (m + 1 - j) \/ t = r - (m + 1 - j) + w,
         d = r - (m + 1 - (a + n - 1)) \/ d = r - (m + 1 - (a + n - 1)) + w
  PROVE  t = c + (j - a)
  OBVIOUS

\* RotationFair of the picks p from the list l.
FairTurns(p, l) ==
    /\ (Len(p) >= Len(l) /\ p[Len(p) - Len(l) + 1].ticket < p[Len(p)].ticket)
           => Served(p, Len(p) - Len(l) + 1, Len(p)) = Range(l)
    /\ Len(p) = 2 * Len(l) - 1
           => Served(p, Len(p) - (2 * Len(l) - 1) + 1, Len(p)) = Range(l)

LEMMA RotationIsFair ==
  ASSUME NEW p, NEW l, NEW r \in Nat, Rotation(p, l, r), p # <<>>
  PROVE  FairTurns(p, l)
  <1>3. PICK n \in Nat, m \in Nat : n = Len(l) /\ m = Len(p)
    BY LenProperties DEF Rotation
  <1>4. \A j \in 1..m : p[j].ticket \in 0..(Word - 1)
    <2>1. \A j \in 1..m : p[j] \in Pick
      BY <1>3, LenProperties DEF Rotation
    <2> QED BY <2>1 DEF Pick
  <1>5. /\ l \in Seq(Server) /\ l # <<>> /\ n > 0 /\ m > 0 /\ m < 2 * n /\ 2 * n <= Word
        /\ Word \in Nat
    BY <1>3, EmptySeq, SelectorsAssumption DEF Rotation
  <1>6. \A j \in 1..m :
           /\ p[j].server = Turn(p[j].ticket, l)
           /\ p[j].ticket = r - (m + 1 - j) \/ p[j].ticket = r - (m + 1 - j) + Word
    BY <1>3 DEF Rotation
  <1>7. r \in Int
    OBVIOUS
  <1>8. ASSUME NEW a \in 1..m, a + n - 1 <= m, p[a].ticket <= p[a + n - 1].ticket
        PROVE  Served(p, a, a + n - 1) = Range(l)
    <2>1. PICK c \in Nat : c = p[a].ticket
      BY <1>4
    <2>2. ASSUME NEW j \in a..(a + n - 1) PROVE p[j].ticket = c + (j - a)
      <3>1. PICK t \in Int, d \in Int : t = p[j].ticket /\ d = p[a + n - 1].ticket
                                        /\ t \in 0..(Word - 1) /\ d \in 0..(Word - 1)
        <4>1. j \in 1..m /\ a + n - 1 \in 1..m
          BY <1>5, <1>8
        <4> QED BY <1>4, <4>1
      <3>2. /\ c = r - (m + 1 - a) \/ c = r - (m + 1 - a) + Word
            /\ t = r - (m + 1 - j) \/ t = r - (m + 1 - j) + Word
            /\ d = r - (m + 1 - (a + n - 1)) \/ d = r - (m + 1 - (a + n - 1)) + Word
            /\ c <= d /\ c \in 0..(Word - 1)
        <4>1. j \in 1..m /\ a + n - 1 \in 1..m
          BY <1>5, <1>8
        <4> QED BY <1>4, <1>6, <1>8, <2>1, <3>1, <4>1
      <3>3. t = c + (j - a)
        <4>1. PICK w \in Nat : w = Word
          BY <1>5
        <4>2. /\ m < 2 * n /\ 2 * n <= w /\ a + n - 1 <= m /\ c <= d
              /\ c \in 0..(w - 1) /\ t \in 0..(w - 1) /\ d \in 0..(w - 1)
          BY <1>5, <1>8, <3>1, <3>2, <4>1
        <4>3. /\ c = r - (m + 1 - a) \/ c = r - (m + 1 - a) + w
              /\ t = r - (m + 1 - j) \/ t = r - (m + 1 - j) + w
              /\ d = r - (m + 1 - (a + n - 1)) \/ d = r - (m + 1 - (a + n - 1)) + w
          BY <3>2, <4>1
        <4> QED BY <1>7, <4>2, <4>3, NoWrapBetween
      <3> QED BY <3>1, <3>3
    <2>3. a \in Nat /\ \A j \in a..(a + Len(l) - 1) :
                           p[j].server = Turn(p[j].ticket, l) /\ p[j].ticket = c + (j - a)
      <3>1. ASSUME NEW j \in a..(a + n - 1) PROVE p[j].server = Turn(p[j].ticket, l)
        <4>1. j \in 1..m
          BY <1>5, <1>8
        <4> QED BY <1>6, <4>1
      <3>2. a \in Nat /\ n = Len(l)
        BY <1>3
      <3> QED BY <2>2, <3>1, <3>2
    <2>4. Served(p, a, a + Len(l) - 1) = Range(l)
      BY <1>5, <2>3, WindowCovers
    <2> QED BY <1>3, <2>4
  <1>9. ASSUME m >= n, p[m - n + 1].ticket < p[m].ticket PROVE Served(p, m - n + 1, m) = Range(l)
    <2>1. PICK a \in 1..m : a = m - n + 1
      BY <1>5, <1>9
    <2>2. a + n - 1 = m
      BY <2>1
    <2>3. p[a].ticket <= p[a + n - 1].ticket
      BY <1>4, <1>5, <1>9, <2>1, <2>2
    <2>4. Served(p, a, a + n - 1) = Range(l)
      BY <1>8, <2>2, <2>3
    <2> QED BY <2>1, <2>2, <2>4
  <1>10. ASSUME m = 2 * n - 1 PROVE Served(p, 1, m) = Range(l)
    <2>1. ASSUME NEW j \in 1..m PROVE p[j].server \in Range(l)
      <3>1. p[j].ticket \in Nat
        BY <1>4, <1>5
      <3> QED BY <1>5, <1>6, <3>1, TurnIsServer
    <2>2. \E a \in 1..m : a + n - 1 <= m /\ p[a].ticket <= p[a + n - 1].ticket
      <3>1. 1 \in 1..m /\ n \in 1..m /\ m \in 1..m /\ 1 + n - 1 = n /\ n + n - 1 = m
        BY <1>5, <1>10
      <3>2. p[1].ticket <= p[n].ticket \/ p[n].ticket <= p[m].ticket
        <4>1. PICK c \in 0..(Word - 1), d \in 0..(Word - 1), e \in 0..(Word - 1) :
                  c = p[1].ticket /\ d = p[n].ticket /\ e = p[m].ticket
          BY <1>4, <3>1
        <4>2. /\ c = r - m \/ c = r - m + Word
              /\ d = r - (m + 1 - n) \/ d = r - (m + 1 - n) + Word
              /\ e = r - 1 \/ e = r - 1 + Word
          <5>1. c = r - (m + 1 - 1) \/ c = r - (m + 1 - 1) + Word
            BY <1>6, <3>1, <4>1
          <5>2. d = r - (m + 1 - n) \/ d = r - (m + 1 - n) + Word
            BY <1>6, <3>1, <4>1
          <5>3. e = r - (m + 1 - m) \/ e = r - (m + 1 - m) + Word
            BY <1>6, <3>1, <4>1
          <5>4. m + 1 - 1 = m /\ m + 1 - m = 1
            OBVIOUS
          <5> QED BY <5>1, <5>2, <5>3, <5>4
        <4>3. c <= d \/ d <= e
          <5>1. m = 2 * n - 1 /\ n > 0 /\ 2 * n <= Word /\ Word \in Nat
            BY <1>5, <1>10
          <5> QED BY <1>7, <4>2, <5>1
        <4> QED BY <4>1, <4>3
      <3>3. CASE p[1].ticket <= p[n].ticket
        <4>1. 1 + n - 1 <= m /\ p[1].ticket <= p[1 + n - 1].ticket
          BY <3>1, <3>3
        <4> QED BY <3>1, <4>1
      <3>4. CASE p[n].ticket <= p[m].ticket
        <4>1. n + n - 1 <= m /\ p[n].ticket <= p[n + n - 1].ticket
          BY <3>1, <3>4
        <4> QED BY <3>1, <4>1
      <3> QED BY <3>2, <3>3, <3>4
    <2>3. PICK a \in 1..m : a + n - 1 <= m /\ p[a].ticket <= p[a + n - 1].ticket
      BY <2>2
    <2>4. Served(p, a, a + n - 1) = Range(l)
      BY <1>8, <2>3
    <2>5. a..(a + n - 1) \subseteq 1..m
      <3>1. a + n - 1 <= m
        BY <2>3
      <3> QED BY <3>1
    <2> QED BY <2>1, <2>4, <2>5 DEF Served
  <1>11. m = 2 * n - 1 => m - (2 * n - 1) + 1 = 1
    OBVIOUS
  <1> QED BY <1>3, <1>9, <1>10, <1>11 DEF FairTurns

\* Round robin goes on fairly from whatever lists its requests copied, also where
\* rrIdx wraps: of any 2n - 1 turns in a row from a list of n servers none is left
\* out, and of any n if the counter did not wrap among them.
THEOREM RotationStaysFair == Spec => []RotationFair
  <1>1. Init => RotInv
    <2> SUFFICES ASSUME Init PROVE RotInv
      OBVIOUS
    <2>1. turns.list = <<>> /\ turns.picks = <<>> /\ N \in Nat
      BY SelectorsAssumption DEF Init
    <2>2. <<>> \in Seq(Server) /\ <<>> \in Seq(Pick) /\ Len(<<>>) = 0
      OBVIOUS
    <2> QED BY <2>1, <2>2 DEF RotInv, Rotation
  <1>2. LInv /\ RotInv => RotationFair
    <2>1. LInv => rrIdx \in Nat
      BY SelectorsAssumption DEF LInv, TypeOK
    <2>2. turns.picks # <<>> /\ FairTurns(turns.picks, turns.list) => RotationFair
      BY Zenon DEF FairTurns, Served, RotationFair
    <2>3. turns.picks = <<>> => RotationFair
      BY Zenon DEF RotationFair
    <2> QED BY <2>1, <2>2, <2>3, RotationIsFair DEF RotInv
  <1> QED BY <1>1, <1>2, NextRotInv, Drift, PTL DEF Spec

-----------------------------------------------------------------------------
\* The draws of weighted round robin.

\* S has the sums of the weights w of the servers of l.
SumsOf(S, l, w) ==
    /\ S \in [0..Len(l) -> Nat]
    /\ S[0] = 0
    /\ \A j \in 1..Len(l) : S[j] = S[j - 1] + w[l[j]]

LEMMA BeforeIsSum ==
  ASSUME NEW l \in Seq(Server), weight \in [Server -> Nat]
  PROVE  \E S : SumsOf(S, l, weight) /\ \A k \in 1..(Len(l) + 1) : Before(l, k) = S[k - 1]
  <1>1. PICK n \in Nat : n = Len(l) /\ \A j \in 1..n : l[j] \in Server /\ weight[l[j]] \in Nat
    BY LenProperties
  <1> DEFINE F == [aj \in Nat \X (1..n) |-> aj[1] + weight[l[aj[2]]]]
  <1>2. F \in [Nat \X (1..n) -> Nat]
    BY <1>1
  <1>3. PICK g \in [SUBSET (1..n) -> Nat] : Folds(g, n, 0, F)
    <2> HIDE DEF F
    <2> QED BY <1>2, FoldExists
  <1>4. \A u \in SUBSET (1..n) : u # {} =>
            /\ Max(u) \in 1..n /\ u \ {Max(u)} \in SUBSET (1..n)
            /\ g[u] = g[u \ {Max(u)}] + weight[l[Max(u)]]
    <2> SUFFICES ASSUME NEW u \in SUBSET (1..n), u # {}
                 PROVE  /\ Max(u) \in 1..n /\ u \ {Max(u)} \in SUBSET (1..n)
                        /\ g[u] = g[u \ {Max(u)}] + weight[l[Max(u)]]
      OBVIOUS
    <2>1. Max(u) \in 1..n /\ u \ {Max(u)} \in SUBSET (1..n)
      BY MaxOf
    <2>2. F[<<g[u \ {Max(u)}], Max(u)>>] = g[u \ {Max(u)}] + weight[l[Max(u)]]
      <3>1. <<g[u \ {Max(u)}], Max(u)>> \in Nat \X (1..n)
        BY <2>1
      <3> QED BY <3>1
    <2>3. g[u] = F[<<g[u \ {Max(u)}], Max(u)>>]
      <3> HIDE DEF F
      <3> QED BY <1>3 DEF Folds
    <2> QED BY <2>1, <2>2, <2>3
  <1>5. g[{}] = 0
    <2>1. {} \in SUBSET (1..n)
      OBVIOUS
    <2> HIDE DEF F
    <2> QED BY <1>3, <2>1 DEF Folds
  <1> HIDE DEF F
  <1> DEFINE S == [j \in 0..n |-> g[1..j]]
  <1>6. SumsOf(S, l, weight)
    <2>1. S \in [0..n -> Nat]
      <3>1. \A j \in 0..n : 1..j \in SUBSET (1..n)
        OBVIOUS
      <3> QED BY <3>1
    <2>2. S[0] = 0
      <3>1. 1..0 = {} /\ 0 \in 0..n
        OBVIOUS
      <3> QED BY <1>5, <3>1
    <2>3. ASSUME NEW j \in 1..n PROVE S[j] = S[j - 1] + weight[l[j]]
      <3>1. j \in 0..n /\ j - 1 \in 0..n
        OBVIOUS
      <3>2. /\ 1..j \in SUBSET (1..n) /\ 1..j # {} /\ Max(1..j) = j
            /\ (1..j) \ {Max(1..j)} = 1..(j - 1)
        BY PrefixOfPositions
      <3>3. g[1..j] = g[1..(j - 1)] + weight[l[j]]
        BY <1>4, <3>2
      <3> QED BY <3>1, <3>3
    <2> HIDE DEF S
    <2> QED BY <1>1, <2>1, <2>2, <2>3 DEF SumsOf
  <1>7. ASSUME NEW k \in 1..(n + 1) PROVE Before(l, k) = g[1..(k - 1)]
    <2> DEFINE seq == SubSeq(l, 1, k - 1)
               iter == CHOOSE f : f = [u \in SUBSET DOMAIN seq |->
                           IF u = {} THEN 0 ELSE f[u \ {Max(u)}] + weight[seq[Max(u)]]]
    <2>1. PICK m \in 0..n : m = k - 1
      OBVIOUS
    <2>2. DOMAIN seq = 1..m /\ \A j \in 1..m : seq[j] = l[j]
      <3>1. 1 \in 1..(Len(l) + 1) /\ k - 1 \in 0..Len(l)
        BY <1>1, <2>1
      <3>2. Len(seq) = m /\ \A j \in 1..m : seq[j] = l[j]
        BY <1>1, <2>1
      <3>3. seq \in Seq(Server)
        BY <1>1, <2>1
      <3> QED BY <3>2, <3>3, LenProperties
    <2>3. Before(l, k) = iter[DOMAIN seq]
      BY Zenon DEF Before, FoldLeft, MapThenFoldSet
    <2> HIDE DEF seq
    <2> DEFINE f == [u \in SUBSET (1..m) |-> g[u]]
    <2>4. f = [u \in SUBSET DOMAIN seq |->
                  IF u = {} THEN 0 ELSE f[u \ {Max(u)}] + weight[seq[Max(u)]]]
      <3>1. SUBSET (1..m) \subseteq SUBSET (1..n)
        OBVIOUS
      <3>2. ASSUME NEW u \in SUBSET (1..m), u # {}
            PROVE  g[u] = f[u \ {Max(u)}] + weight[seq[Max(u)]]
        <4>1. m \in Nat
          OBVIOUS
        <4>2. Max(u) \in u
          BY <3>2, <4>1, MaxOf
        <4>3. Max(u) \in 1..m /\ u \ {Max(u)} \in SUBSET (1..m)
          BY <4>2
        <4>4. f[u \ {Max(u)}] = g[u \ {Max(u)}] /\ seq[Max(u)] = l[Max(u)]
          BY <2>2, <4>3
        <4>5. u \in SUBSET (1..n)
          BY <3>1
        <4> HIDE DEF f
        <4> QED BY <1>4, <3>2, <4>4, <4>5
      <3>3. \A u \in SUBSET (1..m) : f[u] = IF u = {} THEN 0
                                          ELSE f[u \ {Max(u)}] + weight[seq[Max(u)]]
        <4> TAKE u \in SUBSET (1..m)
        <4>1. f[u] = g[u]
          OBVIOUS
        <4> HIDE DEF f
        <4> QED BY <1>5, <3>2, <4>1
      <3>4. f = [u \in SUBSET (1..m) |-> f[u]]
        OBVIOUS
      <3> HIDE DEF f
      <3> QED BY <2>2, <3>3, <3>4
    <2>5. iter = [u \in SUBSET DOMAIN seq |->
                     IF u = {} THEN 0 ELSE iter[u \ {Max(u)}] + weight[seq[Max(u)]]]
      <3> HIDE DEF f
      <3> QED BY <2>4, Zenon DEF iter
    <2> HIDE DEF iter, f
    <2> DEFINE T == {j \in 0..m : iter[1..j] = g[1..j]}
    <2>6. 0 \in T
      <3>1. 1..0 = {} /\ 0 \in 0..m /\ {} \in SUBSET DOMAIN seq
        OBVIOUS
      <3>2. iter[{}] = 0
        BY <2>5, <3>1
      <3> QED BY <1>5, <3>1, <3>2
    <2>7. ASSUME NEW j \in 0..(m - 1), j \in T PROVE j + 1 \in T
      <3>1. j + 1 \in 1..m /\ j + 1 \in 1..n /\ j + 1 \in 0..m /\ (j + 1) - 1 = j /\ m \in Nat
        OBVIOUS
      <3>2. /\ 1..(j + 1) \in SUBSET (1..m) /\ 1..(j + 1) # {} /\ Max(1..(j + 1)) = j + 1
            /\ (1..(j + 1)) \ {Max(1..(j + 1))} = 1..j
        BY <3>1, PrefixOfPositions
      <3>3. 1..(j + 1) \in SUBSET (1..n)
        BY <3>2
      <3>4. iter[1..(j + 1)] = iter[1..j] + weight[seq[j + 1]]
        BY <2>2, <2>5, <3>2
      <3>5. g[1..(j + 1)] = g[1..j] + weight[l[j + 1]]
        BY <1>4, <3>2, <3>3
      <3>6. iter[1..j] = g[1..j]
        BY <2>7
      <3> QED BY <2>2, <3>1, <3>4, <3>5, <3>6
    <2>8. \A j \in 0..m : j \in T
      <3>1. m \in Nat
        OBVIOUS
      <3> HIDE DEF T
      <3> QED BY <2>6, <2>7, <3>1, UpTo
    <2>9. m \in T
      <3> HIDE DEF T
      <3> QED BY <2>8
    <2> QED BY <2>1, <2>2, <2>3, <2>9
  <1>8. \A k \in 1..(n + 1) : Before(l, k) = S[k - 1]
    BY <1>7
  <1> HIDE DEF S
  <1> QED BY <1>1, <1>6, <1>8

\* No server twice.
Apart(l) == \A j, k \in 1..Len(l) : j # k => l[j] # l[k]

\* Two differences add up.
LEMMA Chained ==
  ASSUME NEW a \in Nat, NEW b \in Nat, NEW d \in Nat, NEW m \in Nat, NEW c \in Nat
  PROVE  /\ a <= b + m /\ b <= d + c => a <= d + (m + c)
         /\ a < b + m /\ b <= d + c => a < d + (m + c)
         /\ a <= b + m /\ d <= a + c => d <= b + (m + c)
  OBVIOUS

\* A sum goes on as far from another as it was.
LEMMA SameAdded ==
  ASSUME NEW a \in Nat, NEW b \in Nat, NEW d \in Nat, NEW c \in Nat, a <= b + c
  PROVE  a + d <= (b + d) + c
  OBVIOUS

\* When the weight of one server changes, each sum changes by as much at most.
LEMMA SumsShift ==
  ASSUME NEW l \in Seq(Server), Apart(l),
         NEW w \in [Server -> Nat], NEW v \in [Server -> Nat], NEW r \in Server, NEW c \in Nat,
         \A t \in Server \ {r} : v[t] = w[t], v[r] <= w[r] + c, w[r] <= v[r] + c,
         NEW S, NEW T, SumsOf(S, l, w), SumsOf(T, l, v)
  PROVE  \A j \in 0..Len(l) : T[j] <= S[j] + c /\ S[j] <= T[j] + c
  <1>1. PICK n \in Nat : n = Len(l) /\ \A j \in 1..n : l[j] \in Server
    BY LenProperties
  <1>2. /\ S \in [0..n -> Nat] /\ T \in [0..n -> Nat] /\ S[0] = 0 /\ T[0] = 0
        /\ \A j \in 1..n : S[j] = S[j - 1] + w[l[j]] /\ T[j] = T[j - 1] + v[l[j]]
    BY <1>1 DEF SumsOf
  <1> DEFINE Shifted == {j \in 0..n : /\ T[j] <= S[j] + c /\ S[j] <= T[j] + c
                                      /\ (\A k \in 1..j : l[k] # r) => T[j] = S[j]}
  <1>3. 0 \in Shifted
    BY <1>2
  <1>4. ASSUME NEW j \in 0..(n - 1), j \in Shifted PROVE j + 1 \in Shifted
    <2>1. j + 1 \in 1..n /\ j + 1 \in 0..n /\ (j + 1) - 1 = j /\ j \in 0..n
      BY <1>1
    <2>2. PICK a \in Nat, b \in Nat, d \in Nat, e \in Nat :
              /\ a = S[j] /\ b = T[j] /\ d = w[l[j + 1]] /\ e = v[l[j + 1]]
              /\ S[j + 1] = a + d /\ T[j + 1] = b + e
      <3>1. S[j] \in Nat /\ T[j] \in Nat /\ w[l[j + 1]] \in Nat /\ v[l[j + 1]] \in Nat
        BY <1>1, <1>2, <2>1
      <3>2. S[j + 1] = S[j] + w[l[j + 1]] /\ T[j + 1] = T[j] + v[l[j + 1]]
        BY <1>2, <2>1
      <3> QED BY <3>1, <3>2
    <2>3. /\ b <= a + c /\ a <= b + c
          /\ (\A k \in 1..j : l[k] # r) => b = a
      BY <1>4, <2>2
    <2>4. CASE l[j + 1] = r
      <3>1. \A k \in 1..j : l[k] # r
        <4> SUFFICES ASSUME NEW k \in 1..j PROVE l[k] # l[j + 1]
          BY <2>4
        <4>1. k \in 1..n /\ k # j + 1
          BY <1>1, <2>1
        <4> QED BY <1>1, <2>1, <4>1 DEF Apart
      <3>2. b = a /\ e <= d + c /\ d <= e + c
        BY <2>2, <2>3, <2>4, <3>1
      <3>3. e + a <= (d + a) + c /\ d + a <= (e + a) + c
        BY <3>2, SameAdded
      <3>5. b + e <= (a + d) + c /\ a + d <= (b + e) + c
        BY <3>2, <3>3
      <3>4. ~(\A k \in 1..(j + 1) : l[k] # r)
        BY <2>1, <2>4
      <3> QED BY <2>1, <2>2, <3>4, <3>5
    <2>5. CASE l[j + 1] # r
      <3>1. e = d
        BY <1>1, <2>1, <2>2, <2>5
      <3>2. b + e <= (a + d) + c /\ a + d <= (b + e) + c
        BY <2>3, <3>1, SameAdded
      <3>3. ASSUME \A k \in 1..(j + 1) : l[k] # r PROVE b + e = a + d
        <4>1. \A k \in 1..j : k \in 1..(j + 1)
          BY <2>1
        <4> QED BY <2>3, <3>1, <3>3, <4>1
      <3> QED BY <2>1, <2>2, <3>2, <3>3
    <2> QED BY <2>4, <2>5
  <1>5. \A j \in 0..n : j \in Shifted
    <2> HIDE DEF Shifted
    <2> QED BY <1>1, <1>3, <1>4, UpTo
  <1> QED BY <1>1, <1>5

\* Where a weighted selection is.  x is the sum of the weights before its position and
\* the draw is not below it, and it ends on the server whose share the draw is in, all
\* give or take what has changed since it began.
Drawing(h) ==
    \A S : SumsOf(S, list[h], weight) =>
        /\ pc[h] \in {"weightedrr", "scan"} =>
              x[h] <= S[i[h] - 1] + moved[h] /\ S[i[h] - 1] <= x[h] + moved[h]
        /\ pc[h] = "scan" => x[h] <= draw[h] /\ draw[h] < S[Len(list[h])] + moved[h]
        /\ pc[h] = "chosen" =>
              \E k \in 1..Len(list[h]) : /\ list[h][k] = best[h]
                                         /\ S[k - 1] <= draw[h] + moved[h]
                                         /\ draw[h] < S[k] + moved[h]

\* Inductive only with where x is cleared, and a list that has no server twice.
Cleared == {"idle", "busy", "chosen", "roundrobin", "leastloaded", "llpo2c"}

DrawInv(h) ==
    /\ pc[h] \in Cleared => x[h] = 0
    /\ algorithm = "weightedrr" =>
          /\ pc[h] \notin {"idle", "busy"} => Apart(list[h])
          /\ Drawing(h)

\* What other requests do keeps it.
LEMMA DrawKept ==
  ASSUME NEW g \in Handler, DrawInv(g), algorithm' = algorithm,
         pc'[g] = pc[g], list'[g] = list[g], i'[g] = i[g], best'[g] = best[g],
         x'[g] = x[g], draw'[g] = draw[g],
         algorithm = "weightedrr" =>
             (moved'[g] = moved[g] /\ weight' = weight) \/ pc[g] \in {"idle", "busy"}
  PROVE  DrawInv(g)'
  <1>1. pc'[g] \in Cleared => x'[g] = 0
    BY DEF DrawInv
  <1>2. ASSUME algorithm = "weightedrr" PROVE Drawing(g)'
    <2>1. CASE moved'[g] = moved[g] /\ weight' = weight
      BY <1>2, <2>1 DEF DrawInv, Drawing
    <2>2. CASE pc[g] \in {"idle", "busy"}
      BY <2>2 DEF Drawing
    <2> QED BY <1>2, <2>1, <2>2
  <1>3. ASSUME algorithm = "weightedrr", pc'[g] \notin {"idle", "busy"} PROVE Apart(list'[g])
    BY <1>3 DEF DrawInv
  <1>4. Apart(list[g])' <=> Apart(list'[g])
    BY DEF Apart
  <1> QED BY <1>1, <1>2, <1>3, <1>4 DEF DrawInv

\* A change of one weight is counted.
LEMMA DrawDrifts ==
  ASSUME TypeOK, NEW g \in Handler, DrawInv(g), algorithm' = algorithm,
         algorithm = "weightedrr", UNCHANGED locals,
         weight' \in [Server -> Nat], NEW s \in Server, WeightMoved(s),
         \A t \in Server \ {s} : weight'[t] = weight[t]
  PROVE  DrawInv(g)'
  <1>1. UNCHANGED <<pc, list, i, best, x, draw>>
    BY DEF locals
  <1>2. CASE pc[g] \in {"idle", "busy"}
    BY <1>1, <1>2, DrawKept
  <1>3. CASE pc[g] \notin {"idle", "busy"}
    <2>1. PICK c \in Nat : /\ weight'[s] <= weight[s] + c /\ weight[s] <= weight'[s] + c
                           /\ moved'[g] = moved[g] + c
      BY <1>3, WeightMovedTypes
    <2>2. /\ Drawing(g) /\ Apart(list[g]) /\ pc[g] \in Selecting
          /\ moved[g] \in Nat /\ x[g] \in Nat /\ draw[g] \in Nat
          /\ list[g] \in Seq(Server) /\ weight \in [Server -> Nat]
      BY <1>3 DEF DrawInv, TypeOK
    <2>3. i[g] \in 1..Len(list[g]) /\ Len(list[g]) \in Nat
      BY <2>2, ListFacts
    <2>4. PICK S : SumsOf(S, list[g], weight)
      BY <2>2, BeforeIsSum
    <2>5. ASSUME NEW T, SumsOf(T, list[g], weight')
          PROVE  /\ pc[g] \in {"weightedrr", "scan"} =>
                       x[g] <= T[i[g] - 1] + moved'[g] /\ T[i[g] - 1] <= x[g] + moved'[g]
                 /\ pc[g] = "scan" => x[g] <= draw[g] /\ draw[g] < T[Len(list[g])] + moved'[g]
                 /\ pc[g] = "chosen" =>
                       \E k \in 1..Len(list[g]) : /\ list[g][k] = best[g]
                                                  /\ T[k - 1] <= draw[g] + moved'[g]
                                                  /\ draw[g] < T[k] + moved'[g]
      <3>1. \A j \in 0..Len(list[g]) : T[j] <= S[j] + c /\ S[j] <= T[j] + c
        BY <2>1, <2>2, <2>4, <2>5, SumsShift
      <3>2. \A j \in 0..Len(list[g]) : S[j] \in Nat /\ T[j] \in Nat
        BY <2>4, <2>5 DEF SumsOf
      <3>3. i[g] - 1 \in 0..Len(list[g]) /\ Len(list[g]) \in 0..Len(list[g])
        BY <2>3
      <3>4. ASSUME pc[g] \in {"weightedrr", "scan"}
            PROVE  x[g] <= T[i[g] - 1] + moved'[g] /\ T[i[g] - 1] <= x[g] + moved'[g]
        <4>1. x[g] <= S[i[g] - 1] + moved[g] /\ S[i[g] - 1] <= x[g] + moved[g]
          BY <2>2, <2>4, <3>4 DEF Drawing
        <4>2. PICK a \in Nat, b \in Nat : a = S[i[g] - 1] /\ b = T[i[g] - 1]
          BY <3>2, <3>3
        <4>3. b <= a + c /\ a <= b + c
          BY <3>1, <3>3, <4>2
        <4>4. x[g] <= b + (moved[g] + c) /\ b <= x[g] + (moved[g] + c)
          BY <2>2, <4>1, <4>2, <4>3, Chained
        <4> QED BY <2>1, <4>2, <4>4
      <3>5. ASSUME pc[g] = "scan"
            PROVE  x[g] <= draw[g] /\ draw[g] < T[Len(list[g])] + moved'[g]
        <4>1. x[g] <= draw[g] /\ draw[g] < S[Len(list[g])] + moved[g]
          BY <2>2, <2>4, <3>5 DEF Drawing
        <4>2. PICK a \in Nat, b \in Nat : a = S[Len(list[g])] /\ b = T[Len(list[g])]
          BY <3>2, <3>3
        <4>3. a <= b + c
          BY <3>1, <3>3, <4>2
        <4>4. draw[g] < b + (moved[g] + c)
          BY <2>2, <4>1, <4>2, <4>3, Chained
        <4> QED BY <2>1, <4>1, <4>2, <4>4
      <3>6. ASSUME pc[g] = "chosen"
            PROVE  \E k \in 1..Len(list[g]) : /\ list[g][k] = best[g]
                                              /\ T[k - 1] <= draw[g] + moved'[g]
                                              /\ draw[g] < T[k] + moved'[g]
        <4>1. PICK k \in 1..Len(list[g]) : /\ list[g][k] = best[g]
                                           /\ S[k - 1] <= draw[g] + moved[g]
                                           /\ draw[g] < S[k] + moved[g]
          BY <2>2, <2>4, <3>6 DEF Drawing
        <4>2. k - 1 \in 0..Len(list[g]) /\ k \in 0..Len(list[g])
          BY <2>3
        <4>3. T[k - 1] <= draw[g] + moved'[g]
          <5>1. PICK a \in Nat, b \in Nat : a = S[k - 1] /\ b = T[k - 1]
            BY <3>2, <4>2
          <5>2. a <= draw[g] + moved[g] /\ b <= a + c
            BY <3>1, <4>1, <4>2, <5>1
          <5>3. b <= draw[g] + (moved[g] + c)
            BY <2>2, <5>2, Chained
          <5> QED BY <2>1, <5>1, <5>3
        <4>4. draw[g] < T[k] + moved'[g]
          <5>1. PICK a \in Nat, b \in Nat : a = S[k] /\ b = T[k]
            BY <3>2, <4>2
          <5>2. draw[g] < a + moved[g] /\ a <= b + c
            BY <3>1, <4>1, <4>2, <5>1
          <5>3. draw[g] < b + (moved[g] + c)
            BY <2>2, <5>2, Chained
          <5> QED BY <2>1, <5>1, <5>3
        <4> QED BY <4>1, <4>3, <4>4
      <3> QED BY <3>4, <3>5, <3>6
    <2>6. Drawing(g)'
      BY <1>1, <2>5 DEF Drawing
    <2>7. Apart(list[g])'
      BY <1>1, <2>2 DEF Apart
    <2>8. pc'[g] \in Cleared => x'[g] = 0
      BY <1>1 DEF DrawInv
    <2> QED BY <2>6, <2>7, <2>8 DEF DrawInv
  <1> QED BY <1>2, <1>3

\* A step of h that leaves the weights and every other request alone.
OnlyOf(h) ==
    /\ algorithm' = algorithm /\ weight' = weight /\ moved' = moved
    /\ \A g \in Handler \ {h} : /\ pc'[g] = pc[g] /\ list'[g] = list[g] /\ i'[g] = i[g]
                                /\ best'[g] = best[g] /\ x'[g] = x[g] /\ draw'[g] = draw[g]

LEMMA OnlyOfDraw ==
  ASSUME NEW h \in Handler, OnlyOf(h), \A g \in Handler : DrawInv(g), DrawInv(h)'
  PROVE  \A g \in Handler : DrawInv(g)'
  <1> SUFFICES ASSUME NEW g \in Handler, g # h PROVE DrawInv(g)'
    OBVIOUS
  <1> QED BY DrawKept DEF OnlyOf

DInv == \A h \in Handler : DrawInv(h)

LEMMA SnapshotDInv == \A h \in Handler : LInv /\ DInv /\ Snapshot(h) => DInv'
  <1> SUFFICES ASSUME NEW h \in Handler, LInv, DInv, Snapshot(h) PROVE DInv'
    OBVIOUS
  <1>1. TypeOK /\ DrawInv(h) /\ pc[h] = "idle" /\ pc[h] \in Cleared
    BY DEF LInv, DInv, Snapshot, Cleared
  <1>2. PICK all \in HealthyLists : \E l \in Candidates(all) :
                    /\ list' = [list EXCEPT ![h] = l]
                    /\ best' = [best EXCEPT ![h] = l[1]]
                    /\ pc' = [pc EXCEPT ![h] =
                                 IF Len(l) = 1 /\ algorithm \in {"leastloaded", "llpo2c"}
                                 THEN "chosen" ELSE algorithm]
    BY DEF Snapshot
  <1>10. PICK l \in Candidates(all) :
                    /\ list' = [list EXCEPT ![h] = l]
                    /\ best' = [best EXCEPT ![h] = l[1]]
                    /\ pc' = [pc EXCEPT ![h] =
                                 IF Len(l) = 1 /\ algorithm \in {"leastloaded", "llpo2c"}
                                 THEN "chosen" ELSE algorithm]
    BY <1>2
  <1>8. PICK q : /\ list' = [list EXCEPT ![h] = l] /\ pc' = [pc EXCEPT ![h] = q]
                 /\ best' = [best EXCEPT ![h] = l[1]]
                 /\ q = IF Len(l) = 1 /\ algorithm \in {"leastloaded", "llpo2c"}
                        THEN "chosen" ELSE algorithm
    BY <1>10
  <1>9. Apart(l)
    <2>1. Distinct(l)
      BY <1>1, <1>2, HealthyListsDistinct, CandidatesDistinct DEF Snapshot
    <2> QED BY <2>1 DEF Distinct, Apart
  <1>3. i' = [i EXCEPT ![h] = 1] /\ UNCHANGED <<algorithm, weight, x, draw, moved>>
    BY DEF Snapshot, lb, wrr
  <1>4. /\ pc'[h] = q /\ i'[h] = 1 /\ x'[h] = 0 /\ list'[h] = l
        /\ \A g \in Handler \ {h} : /\ pc'[g] = pc[g] /\ list'[g] = list[g] /\ i'[g] = i[g]
                                    /\ best'[g] = best[g]
    BY <1>1, <1>8, <1>3 DEF TypeOK, DrawInv
  <1>5. OnlyOf(h)
    BY <1>3, <1>4 DEF OnlyOf
  <1>6. algorithm = "weightedrr" => Drawing(h)' /\ Apart(list[h])'
    <2>1. moved'[h] \in Nat
      BY <1>1, <1>3 DEF TypeOK
    <2>2. algorithm = "weightedrr" => Drawing(h)'
      BY <1>3, <1>4, <1>8, <2>1 DEF Drawing, SumsOf
    <2>3. Apart(list[h])'
      BY <1>4, <1>9 DEF Apart
    <2> QED BY <2>2, <2>3
  <1>7. DrawInv(h)'
    BY <1>3, <1>4, <1>6 DEF DrawInv
  <1> QED BY <1>5, <1>7, OnlyOfDraw DEF DInv

\* The selectors that do not draw.
LEMMA UndrawnDInv ==
  \A h \in Handler : LInv /\ DInv /\ (Ticket(h) \/ Load(h) \/ Compare(h) \/ LoadFirst(h)
                                       \/ CompareSecond(h)) => DInv'
  <1> SUFFICES ASSUME NEW h \in Handler, LInv, DInv,
                      Ticket(h) \/ Load(h) \/ Compare(h) \/ LoadFirst(h) \/ CompareSecond(h)
               PROVE  DInv'
    OBVIOUS
  <1>1. TypeOK /\ Placed(h) /\ DrawInv(h)
    BY DEF LInv, DInv
  <1>2. algorithm # "weightedrr"
    BY <1>1 DEF Ticket, Load, Compare, LoadFirst, CompareSecond, Placed, Algorithm
  <1>3. OnlyOf(h)
    BY <1>1 DEF Ticket, Load, Compare, LoadFirst, CompareSecond, Step, Choose, OnlyOf, TypeOK,
                lb, wrr
  <1>4. pc'[h] \in Cleared => x'[h] = 0
    <2>1. CASE Ticket(h)
      BY <1>1, <2>1 DEF Ticket, DrawInv, Cleared
    <2>2. CASE Load(h) \/ LoadFirst(h)
      BY <1>1, <2>2 DEF Load, LoadFirst, Step, Cleared, TypeOK
    <2>3. CASE Compare(h)
      BY <1>1, <2>3 DEF Compare, Choose, Step, TypeOK
    <2>4. CASE CompareSecond(h)
      BY <1>1, <2>4 DEF CompareSecond, Choose, Step, TypeOK
    <2> QED BY <2>1, <2>2, <2>3, <2>4
  <1>5. DrawInv(h)'
    BY <1>2, <1>3, <1>4 DEF DrawInv, OnlyOf
  <1> QED BY <1>3, <1>5, OnlyOfDraw DEF DInv

\* What a weighted selection reads at its position.
LEMMA AtPosition ==
  ASSUME TypeOK, NEW h \in Handler, pc[h] \in Selecting,
         NEW S, SumsOf(S, list[h], weight)
  PROVE  /\ i[h] \in 1..Len(list[h]) /\ Len(list[h]) \in Nat
         /\ weight[list[h][i[h]]] \in Nat
         /\ S[i[h] - 1] \in Nat /\ S[i[h]] \in Nat /\ S[Len(list[h])] \in Nat /\ S[0] = 0
         /\ S[i[h]] = S[i[h] - 1] + weight[list[h][i[h]]]
         /\ draw[h] \in Nat /\ x[h] \in Nat
  <1>1. i[h] \in 1..Len(list[h]) /\ Len(list[h]) \in Nat /\ list[h][i[h]] \in Server
    BY ListFacts
  <1>2. weight[list[h][i[h]]] \in Nat /\ draw[h] \in Nat /\ x[h] \in Nat
    BY <1>1 DEF TypeOK
  <1>3. i[h] - 1 \in 0..Len(list[h]) /\ i[h] \in 0..Len(list[h])
        /\ Len(list[h]) \in 0..Len(list[h])
    BY <1>1
  <1> QED BY <1>1, <1>2, <1>3 DEF SumsOf

LEMMA SumDInv == \A h \in Handler : LInv /\ DInv /\ Sum(h) => DInv'
  <1> SUFFICES ASSUME NEW h \in Handler, LInv, DInv, Sum(h) PROVE DInv'
    OBVIOUS
  <1> DEFINE total == x[h] + weight[list[h][i[h]]]
  <1>1. TypeOK /\ DrawInv(h) /\ pc[h] = "weightedrr" /\ pc[h] \in Selecting
    BY DEF LInv, DInv, Sum, Selecting, Algorithm
  <1>2. OnlyOf(h) /\ list'[h] = list[h]
    BY <1>1 DEF Sum, Step, OnlyOf, TypeOK, lb, wrr
  <1>3. \/ /\ i[h] < Len(list[h])
           /\ pc'[h] = "weightedrr" /\ i'[h] = i[h] + 1 /\ x'[h] = total
        \/ /\ ~(i[h] < Len(list[h]))
           /\ pc'[h] = "scan" /\ i'[h] = 1 /\ x'[h] = 0 /\ draw'[h] \in 0..(total - 1)
    BY <1>1 DEF Sum, Step, TypeOK
  <1>4. ASSUME algorithm = "weightedrr" PROVE Drawing(h)'
    <2> SUFFICES ASSUME NEW S, SumsOf(S, list[h], weight)
                 PROVE  /\ pc'[h] \in {"weightedrr", "scan"} =>
                              /\ x'[h] <= S[i'[h] - 1] + moved[h]
                              /\ S[i'[h] - 1] <= x'[h] + moved[h]
                        /\ pc'[h] = "scan" =>
                              x'[h] <= draw'[h] /\ draw'[h] < S[Len(list[h])] + moved[h]
                        /\ pc'[h] # "chosen"
      BY <1>2 DEF Drawing, OnlyOf
    <2>1. /\ i[h] \in 1..Len(list[h]) /\ Len(list[h]) \in Nat
          /\ S[i[h]] = S[i[h] - 1] + weight[list[h][i[h]]] /\ S[i[h]] \in Nat /\ S[0] = 0
          /\ S[i[h] - 1] \in Nat /\ weight[list[h][i[h]]] \in Nat
          /\ x[h] \in Nat /\ moved[h] \in Nat
      BY <1>1, AtPosition DEF TypeOK
    <2>2. total <= S[i[h]] + moved[h] /\ S[i[h]] <= total + moved[h] /\ total \in Nat
      <3>1. x[h] <= S[i[h] - 1] + moved[h] /\ S[i[h] - 1] <= x[h] + moved[h]
        BY <1>1, <1>4 DEF DrawInv, Drawing
      <3>2. PICK a \in Nat, d \in Nat : a = S[i[h] - 1] /\ d = weight[list[h][i[h]]]
        BY <2>1
      <3>3. x[h] + d <= (a + d) + moved[h] /\ a + d <= (x[h] + d) + moved[h]
        BY <2>1, <3>1, <3>2, SameAdded
      <3>4. S[i[h]] = a + d /\ total = x[h] + d
        BY <2>1, <3>2
      <3>5. x[h] + d \in Nat
        BY <2>1
      <3> HIDE DEF total
      <3> QED BY <3>3, <3>4, <3>5
    <2> HIDE DEF total
    <2>3. CASE i[h] < Len(list[h])
      <3>1. pc'[h] = "weightedrr" /\ i'[h] = i[h] + 1 /\ x'[h] = total
        BY <1>3, <2>3
      <3>2. (i[h] + 1) - 1 = i[h]
        BY <2>1
      <3> QED BY <2>2, <3>1, <3>2
    <2>4. CASE ~(i[h] < Len(list[h]))
      <3>1. i[h] = Len(list[h])
        BY <2>1, <2>4
      <3>2. pc'[h] = "scan" /\ i'[h] = 1 /\ x'[h] = 0 /\ draw'[h] \in 0..(total - 1)
        BY <1>3, <2>4
      <3> QED BY <2>1, <2>2, <3>1, <3>2
    <2> QED BY <2>3, <2>4
  <1>5. pc'[h] \notin Cleared
    BY <1>3 DEF Cleared
  <1>6. DrawInv(h)'
    <2>1. algorithm = "weightedrr" => Apart(list[h])'
      BY <1>1, <1>2 DEF DrawInv, Apart
    <2> QED BY <1>2, <1>4, <1>5, <2>1 DEF DrawInv, OnlyOf
  <1> QED BY <1>2, <1>6, OnlyOfDraw DEF DInv

LEMMA ScanDInv == \A h \in Handler : LInv /\ DInv /\ Scan(h) => DInv'
  <1> SUFFICES ASSUME NEW h \in Handler, LInv, DInv, Scan(h) PROVE DInv'
    OBVIOUS
  <1> DEFINE s == list[h][i[h]]
             cum == x[h] + weight[s]
  <1>1. TypeOK /\ DrawInv(h) /\ pc[h] = "scan" /\ pc[h] \in Selecting
    BY DEF LInv, DInv, Scan, Selecting
  <1>2. OnlyOf(h) /\ list'[h] = list[h] /\ draw' = draw
    BY <1>1 DEF Scan, Choose, Step, OnlyOf, TypeOK, lb, wrr
  <1>3. \/ /\ draw[h] < cum \/ i[h] = Len(list[h])
           /\ pc'[h] = "chosen" /\ x'[h] = 0 /\ best'[h] = s
        \/ /\ ~(draw[h] < cum) /\ i[h] # Len(list[h])
           /\ pc'[h] = "scan" /\ i'[h] = i[h] + 1 /\ x'[h] = cum
    <2>1. /\ pc \in [Handler -> Points] /\ i \in [Handler -> 0..N] /\ x \in [Handler -> Nat]
          /\ best \in [Handler -> 0..N]
      BY <1>1 DEF TypeOK, Points
    <2>2. CASE draw[h] < cum \/ i[h] = Len(list[h])
      <3>1. Choose(h, s)
        BY <2>2, Zenon DEF Scan
      <3> QED BY <2>1, <2>2, <3>1 DEF Choose, Step
    <2>3. CASE ~(draw[h] < cum \/ i[h] = Len(list[h]))
      <3>1. Step(h, "scan", i[h] + 1, cum)
        BY <2>3, Zenon DEF Scan
      <3> QED BY <2>1, <2>3, <3>1 DEF Step
    <2> QED BY <2>2, <2>3
  <1>4. ASSUME algorithm = "weightedrr" PROVE Drawing(h)'
    <2> SUFFICES ASSUME NEW S, SumsOf(S, list[h], weight)
                 PROVE  /\ pc'[h] # "weightedrr"
                        /\ pc'[h] = "scan" =>
                              /\ x'[h] <= S[i'[h] - 1] + moved[h]
                              /\ S[i'[h] - 1] <= x'[h] + moved[h]
                              /\ x'[h] <= draw[h] /\ draw[h] < S[Len(list[h])] + moved[h]
                        /\ pc'[h] = "chosen" =>
                              \E k \in 1..Len(list[h]) :
                                  /\ list[h][k] = best'[h]
                                  /\ S[k - 1] <= draw[h] + moved[h]
                                  /\ draw[h] < S[k] + moved[h]
      BY <1>2 DEF Drawing, OnlyOf
    <2>1. /\ i[h] \in 1..Len(list[h]) /\ Len(list[h]) \in Nat
          /\ S[i[h]] = S[i[h] - 1] + weight[list[h][i[h]]] /\ S[i[h]] \in Nat
          /\ S[i[h] - 1] \in Nat /\ weight[list[h][i[h]]] \in Nat
          /\ draw[h] \in Nat /\ x[h] \in Nat /\ moved[h] \in Nat
      BY <1>1, AtPosition DEF TypeOK
    <2>2. /\ x[h] <= S[i[h] - 1] + moved[h] /\ S[i[h] - 1] <= x[h] + moved[h]
          /\ x[h] <= draw[h] /\ draw[h] < S[Len(list[h])] + moved[h]
      BY <1>1, <1>4 DEF DrawInv, Drawing
    <2>3. cum <= S[i[h]] + moved[h] /\ S[i[h]] <= cum + moved[h] /\ cum \in Nat
      <3>1. PICK a \in Nat, d \in Nat : a = S[i[h] - 1] /\ d = weight[s]
        BY <2>1
      <3>2. x[h] + d <= (a + d) + moved[h] /\ a + d <= (x[h] + d) + moved[h]
        BY <2>1, <2>2, <3>1, SameAdded
      <3>3. S[i[h]] = a + d /\ cum = x[h] + d
        BY <2>1, <3>1
      <3>4. x[h] + d \in Nat
        BY <2>1
      <3> HIDE DEF cum
      <3> QED BY <3>2, <3>3, <3>4
    <2> HIDE DEF cum, s
    <2>4. CASE draw[h] < cum \/ i[h] = Len(list[h])
      <3>1. pc'[h] = "chosen" /\ best'[h] = list[h][i[h]]
        BY <1>3, <2>4 DEF s
      <3>2. S[i[h] - 1] <= draw[h] + moved[h]
        BY <2>1, <2>2
      <3>3. draw[h] < S[i[h]] + moved[h]
        BY <2>1, <2>2, <2>3, <2>4
      <3> QED BY <2>1, <3>1, <3>2, <3>3
    <2>5. CASE ~(draw[h] < cum \/ i[h] = Len(list[h]))
      <3>1. pc'[h] = "scan" /\ i'[h] = i[h] + 1 /\ x'[h] = cum
        BY <1>3, <2>5
      <3>2. (i[h] + 1) - 1 = i[h] /\ cum <= draw[h]
        <4>1. i[h] \in Int /\ cum \in Nat /\ draw[h] \in Nat /\ ~(draw[h] < cum)
          BY <2>1, <2>3, <2>5
        <4> QED BY <4>1
      <3>3. S[i'[h] - 1] = S[i[h]]
        BY <3>1, <3>2
      <3>4. draw[h] < S[Len(list[h])] + moved[h]
        BY <2>2
      <3> QED BY <2>3, <3>1, <3>2, <3>3, <3>4
    <2> QED BY <2>4, <2>5
  <1>5. pc'[h] \in Cleared => x'[h] = 0
    BY <1>3 DEF Cleared
  <1>6. DrawInv(h)'
    <2>1. algorithm = "weightedrr" => Apart(list[h])'
      BY <1>1, <1>2 DEF DrawInv, Apart
    <2> QED BY <1>2, <1>4, <1>5, <2>1 DEF DrawInv, OnlyOf
  <1> QED BY <1>2, <1>6, OnlyOfDraw DEF DInv

LEMMA EnterLeaveDInv == \A h \in Handler : LInv /\ DInv /\ (Enter(h) \/ Leave(h)) => DInv'
  <1> SUFFICES ASSUME NEW h \in Handler, LInv, DInv, Enter(h) \/ Leave(h) PROVE DInv'
    OBVIOUS
  <1>1. TypeOK /\ DrawInv(h)
    BY DEF LInv, DInv
  <1>2. /\ pc[h] \in {"chosen", "busy"} /\ pc'[h] \in {"busy", "idle"} /\ x' = x
        /\ algorithm' = algorithm /\ weight' = weight /\ LoadMoved(h)
        /\ \A g \in Handler \ {h} : /\ pc'[g] = pc[g] /\ list'[g] = list[g] /\ i'[g] = i[g]
                                    /\ best'[g] = best[g] /\ x'[g] = x[g] /\ draw'[g] = draw[g]
    BY <1>1 DEF Enter, Leave, TypeOK, wrr
  <1>3. DrawInv(h)'
    <2>1. x'[h] = 0
      BY <1>1, <1>2 DEF DrawInv, Cleared
    <2>2. Drawing(h)'
      BY <1>2 DEF Drawing
    <2> QED BY <1>2, <2>1, <2>2 DEF DrawInv
  <1>4. ASSUME NEW g \in Handler, g # h PROVE DrawInv(g)'
    <2>1. algorithm = "weightedrr" => moved'[g] = moved[g] \/ pc[g] \in {"idle", "busy"}
      BY <1>2, <1>4 DEF LoadMoved
    <2> QED BY <1>2, <1>4, <2>1, DrawKept DEF DInv
  <1> QED BY <1>3, <1>4 DEF DInv

LEMMA NextDInv == LInv /\ LInv' /\ DInv /\ [Next]_vars => DInv'
  <1> SUFFICES ASSUME LInv, LInv', DInv, [Next]_vars PROVE DInv'
    OBVIOUS
  <1>1. ASSUME UNCHANGED <<algorithm, weight, moved, locals>> PROVE DInv'
    BY <1>1, DrawKept DEF DInv, locals
  <1>2. ASSUME NEW s \in Server, NEW ok \in BOOLEAN, NEW ms \in Latencies, Probed(s, ok, ms)
        PROVE  UNCHANGED <<algorithm, weight, moved, locals>>
    BY <1>2 DEF Probed
  <1>3. ASSUME Refresh PROVE DInv'
    <2>1. PICK s \in Server : s = refreshed + 1
      BY SelectorsAssumption DEF LInv, TypeOK, Server
    <2>2. /\ UNCHANGED <<algorithm, locals>> /\ algorithm = "weightedrr" /\ WeightMoved(s)
          /\ weight' = [weight EXCEPT ![s] = Scale \div ewma'[s]]
      BY <1>3, <2>1 DEF Refresh, lb
    <2>3. /\ TypeOK /\ weight \in [Server -> Nat] /\ weight' \in [Server -> Nat]
          /\ \A t \in Server \ {s} : weight'[t] = weight[t]
      BY <2>2 DEF LInv, TypeOK
    <2> QED BY <2>2, <2>3, DrawDrifts DEF DInv
  <1>4. UNCHANGED vars => UNCHANGED <<algorithm, weight, moved, locals>>
    BY DEF vars, lb, wrr
  <1> QED BY <1>1, <1>2, <1>3, <1>4, SnapshotDInv, UndrawnDInv, SumDInv, ScanDInv,
             EnterLeaveDInv DEF Next

\* A request of weighted round robin chooses the server whose share of the present
\* weights its draw falls into, give or take what refreshes have changed since it
\* began: with no change each server is chosen for exactly as many draws as it has
\* weight, whatever other requests do.
THEOREM ShareStaysWithinDrift == Spec => []ShareWithinDrift
  <1>1. Init => DInv
    BY DEF Init, DInv, DrawInv, Drawing, Cleared
  <1>2. LInv /\ DInv => ShareWithinDrift
    <2> SUFFICES ASSUME LInv, DInv, NEW h \in Handler,
                        pc[h] = "chosen", algorithm = "weightedrr"
                 PROVE  \E k \in DOMAIN list[h] :
                            /\ list[h][k] = best[h]
                            /\ Before(list[h], k) <= draw[h] + moved[h]
                            /\ draw[h] < Before(list[h], k + 1) + moved[h]
      BY DEF ShareWithinDrift
    <2>1. PICK l \in Seq(Server) : l = list[h] /\ DOMAIN l = 1..Len(l) /\ Len(l) \in Nat
      BY ListFacts DEF LInv
    <2>2. weight \in [Server -> Nat]
      BY DEF LInv, TypeOK
    <2>3. PICK S : SumsOf(S, l, weight) /\ \A k \in 1..(Len(l) + 1) : Before(l, k) = S[k - 1]
      BY <2>2, BeforeIsSum
    <2>4. PICK k \in 1..Len(l) : /\ l[k] = best[h]
                                 /\ S[k - 1] <= draw[h] + moved[h] /\ draw[h] < S[k] + moved[h]
      BY <2>1, <2>3 DEF DInv, DrawInv, Drawing
    <2>5. k \in 1..(Len(l) + 1) /\ k + 1 \in 1..(Len(l) + 1) /\ (k + 1) - 1 = k
      BY <2>1
    <2>6. Before(l, k) = S[k - 1] /\ Before(l, k + 1) = S[k]
      BY <2>3, <2>5
    <2> QED BY <2>1, <2>4, <2>6
  <1> QED BY <1>1, <1>2, NextDInv, Drift, PTL DEF Spec
=============================================================================
