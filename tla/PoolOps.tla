------------------------------ MODULE PoolOps ------------------------------
(***************************************************************************)
(* The choices ProbePool and the Prequal selection rule make, as operators *)
(* on a set S of probes and a function e that gives each probe its entry   *)
(* [timestamp, rif, latency, ...].  Where a loop of the source keeps the   *)
(* first of several equal entries the operator yields all of them: which   *)
(* one comes first depends only on the position in a slice.  PoolSlice     *)
(* has the loops themselves and shows that each picks from these sets.     *)
(***************************************************************************)
EXTENDS Integers, FiniteSets, FiniteSetsExt

\* The entries now.Sub(Timestamp) <= ageLimit keeps.
FreshAt(S, e, now, ageLimit) == {p \in S : now - e[p].timestamp <= ageLimit}

\* Slip: After where the code has Before.
OldestFlipped(S, e) == {p \in S : \A q \in S : e[q].timestamp <= e[p].timestamp}

\* removeOldestLocked: no other timestamp is Before this one.
Oldest(S, e) == {p \in S : \A q \in S : e[p].timestamp <= e[q].timestamp}

\* Slip: the comparison of the latency loop the wrong way round.
LeastLatencyFlipped(S, e) == {p \in S : \A q \in S : e[q].latency <= e[p].latency}

LeastLatency(S, e) == {p \in S : \A q \in S : e[p].latency <= e[q].latency}
MostLatency(S, e)  == {p \in S : \A q \in S : e[q].latency <= e[p].latency}
LeastRIF(S, e)     == {p \in S : \A q \in S : e[p].rif <= e[q].rif}
MostRIF(S, e)      == {p \in S : \A q \in S : e[q].rif <= e[p].rif}

Hot(S, e, threshold)  == {p \in S : e[p].rif > threshold}
Cold(S, e, threshold) == S \ Hot(S, e, threshold)

\* Slip: the two branches of RemoveWorst exchanged.
WorstExchanged(S, e, threshold) ==
    LET cold == Cold(S, e, threshold)
    IN  IF cold # {} THEN MostLatency(cold, e) ELSE MostRIF(S, e)

\* RemoveWorst without removeOldest: the hottest entry, or the slowest one
\* when no entry is hot.
Worst(S, e, threshold) ==
    LET hot == Hot(S, e, threshold)
    IN  IF hot # {} THEN MostRIF(hot, e) ELSE MostLatency(S, e)

\* Slip: > where the code has >=.
AfterAddLate(S, e, p, size) ==
    IF Cardinality(S) > size
    THEN {(S \ {old}) \cup {p} : old \in Oldest(S, e)}
    ELSE {S \cup {p}}

\* The pools Add(p) may leave, with an eviction when size is reached.
AfterAdd(S, e, p, size) ==
    IF Cardinality(S) >= size
    THEN {(S \ {old}) \cup {p} : old \in Oldest(S, e)}
    ELSE {S \cup {p}}

\* The pools RemoveWorst(threshold, removeOldest) may leave.
AfterRemoveWorst(S, e, threshold, removeOldest) ==
    IF S = {} THEN {S}
    ELSE {S \ {p} : p \in IF removeOldest THEN Oldest(S, e) ELSE Worst(S, e, threshold)}

\* Slip: the hot list is tried first.
PreferredHotFirst(S, e, threshold) ==
    LET hot == Hot(S, e, threshold)
    IN  IF hot # {} THEN LeastRIF(hot, e) ELSE LeastLatency(S, e)

\* The HCL rule: the fastest cold entry, or the least loaded one when all
\* are hot.
Preferred(S, e, threshold) ==
    LET cold == Cold(S, e, threshold)
    IN  IF cold # {} THEN LeastLatency(cold, e) ELSE LeastRIF(S, e)

\* The value at (0-based) position k when the RIFs of S are sorted.
RIFAtRank(S, e, k) ==
    CHOOSE v \in {e[p].rif : p \in S} :
        /\ Cardinality({p \in S : e[p].rif < v}) <= k
        /\ k < Cardinality({p \in S : e[p].rif <= v})

\* Slip: the share of all n entries, not of the n - 1 steps between them.
QuantileIndexOfAll(n, num, den) ==
    LET idx == (n * num) \div den IN IF idx >= n THEN n - 1 ELSE idx

\* rifQuantile for the quantile num/den: int() truncates, and an index past
\* the end (num > den) is clamped to the last entry.
QuantileIndex(n, num, den) ==
    LET idx == ((n - 1) * num) \div den IN IF idx >= n THEN n - 1 ELSE idx

RifQuantile(S, e, num, den) ==
    IF S = {} THEN 0 ELSE RIFAtRank(S, e, QuantileIndex(Cardinality(S), num, den))

\* Slip: formula (1) as it stands, with neither the fallback nor the floor of one.
BreuseLiteral(n, m, probeRate, removeRate, drift) ==
    ((1 + drift) * n) \div ((n - m) * probeRate - removeRate * n)

\* computeBreuse for n servers, a pool of m, and integer rates: formula (1)
\* with its denominator multiplied through by n, and the fallback for a
\* denominator that is not positive.
Breuse(n, m, probeRate, removeRate, drift) ==
    LET denom == (n - m) * probeRate - removeRate * n
        v     == ((1 + drift) * n) \div denom
    IN  IF n = 0 THEN 1
        ELSE IF denom <= 0 THEN (m \div n) + 1
        ELSE IF v < 1 THEN 1 ELSE v
=============================================================================
