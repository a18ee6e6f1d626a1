----------------------------- MODULE PoolSlice -----------------------------
(***************************************************************************)
(* ProbePool as the source has it, a slice of entries in the order of      *)
(* their insertion and the loops over it, and the loops of selectPrequal   *)
(* and rifQuantile over the slice Fresh returns.                           *)
(***************************************************************************)
EXTENDS PoolOps, SequencesExt

CONSTANTS Probe, Signal, Threshold, PoolSize, MaxUses,
          Overshoot        \* bound: uses of one entry beyond MaxUses

ASSUME PoolSliceAssumption ==
    /\ Signal \subseteq [timestamp : Nat, rif : Int, latency : Nat]
    /\ Threshold \subseteq Int
    /\ PoolSize \in Nat \ {0} /\ MaxUses \in Nat \ {0} /\ Overshoot \in Nat

VARIABLES
    entry,           \* the ProbeEntry values
    added,           \* the entries that were ever passed to Add
    entries          \* ProbePool.entries

vars == <<entry, added, entries>>

Init ==
    /\ added = {}
    /\ entries = <<>>
    /\ entry = [p \in Probe |-> [timestamp |-> 0, rif |-> 0, latency |-> 0, useCount |-> 0]]

-----------------------------------------------------------------------------
\* The loops.

\* Slip: After where the code has Before.
RemoveOldestLockedFlipped(s) ==
    LET later(oldest, i) == IF entry[s[i]].timestamp > entry[s[oldest]].timestamp
                            THEN i ELSE oldest
    IN  IF s = <<>> THEN s ELSE RemoveAt(s, FoldLeftDomain(later, 1, s))

\* The first index whose timestamp no later one is Before.
RemoveOldestLocked(s) ==
    LET earlier(oldest, i) == IF entry[s[i]].timestamp < entry[s[oldest]].timestamp
                              THEN i ELSE oldest
    IN  IF s = <<>> THEN s ELSE RemoveAt(s, FoldLeftDomain(earlier, 1, s))

\* The entries are pointers: the first equal one is the only one.
RemoveEntryLocked(s, target) == RemoveFirst(s, target)

\* Slip: an entry that is not hot can replace a hot one.
WorstSkippingGuard(s, threshold) ==
    LET worse(worst, p) ==
            IF entry[p].rif > threshold
            THEN IF entry[worst].rif <= threshold \/ entry[p].rif > entry[worst].rif
                 THEN p ELSE worst
            ELSE IF entry[p].latency > entry[worst].latency THEN p ELSE worst
    IN  FoldLeft(worse, Head(s), Tail(s))

\* The scan of RemoveWorst: worst is the first entry, then each later one that
\* is the first hot one, hotter, or (none being hot so far) slower.
WorstLoop(s, threshold) ==
    LET worse(worst, p) ==
            IF entry[p].rif > threshold
            THEN IF entry[worst].rif <= threshold \/ entry[p].rif > entry[worst].rif
                 THEN p ELSE worst
            ELSE IF entry[worst].rif <= threshold /\ entry[p].latency > entry[worst].latency
                 THEN p ELSE worst
    IN  FoldLeft(worse, Head(s), Tail(s))

\* The first loop of selectPrequal: the healthy entries of s, cold and hot.
Split(s, healthy, threshold) ==
    LET put(lists, p) ==
            IF p \notin healthy THEN lists
            ELSE IF entry[p].rif > threshold
            THEN [cold |-> lists.cold, hot |-> Append(lists.hot, p)]
            ELSE [cold |-> Append(lists.cold, p), hot |-> lists.hot]
    IN  FoldLeft(put, [cold |-> <<>>, hot |-> <<>>], s)

Fastest(s) ==
    LET faster(chosen, p) == IF entry[p].latency < entry[chosen].latency THEN p ELSE chosen
    IN  FoldLeft(faster, Head(s), Tail(s))

LeastLoaded(s) ==
    LET lower(chosen, p) == IF entry[p].rif < entry[chosen].rif THEN p ELSE chosen
    IN  FoldLeft(lower, Head(s), Tail(s))

\* Slip: the cold list is searched for the lowest RIF.
ChosenByRIF(s, healthy, threshold) ==
    LET lists == Split(s, healthy, threshold)
    IN  IF lists.cold # <<>> THEN LeastLoaded(lists.cold) ELSE LeastLoaded(lists.hot)

\* selectPrequal's choice among the entries of s that are healthy (some are).
Chosen(s, healthy, threshold) ==
    LET lists == Split(s, healthy, threshold)
    IN  IF lists.cold # <<>> THEN Fastest(lists.cold) ELSE LeastLoaded(lists.hot)

\* sort.Slice: the values of r rearranged in ascending order.
Sorted(r) ==
    CHOOSE a \in {[k \in DOMAIN r |-> r[perm[k]]] : perm \in Bijection(DOMAIN r, DOMAIN r)} :
        \A j, k \in DOMAIN r : j <= k => a[j] <= a[k]

\* rifQuantile: sort the RIFs and index them.
RifQuantileLoop(s, num, den) ==
    LET rifs == [k \in DOMAIN s |-> entry[s[k]].rif]
    IN  IF s = <<>> THEN 0
        ELSE Sorted(rifs)[QuantileIndex(Len(s), num, den) + 1]

-----------------------------------------------------------------------------
\* The calls, each under ProbePool.mu.

\* Slip: > where the code has >=.
FullLate(s) == Len(s) > PoolSize

Full(s) == Len(s) >= PoolSize

\* A probe goroutine adds an entry it has just created.
Add(p) ==
    /\ p \notin added
    /\ added' = added \cup {p}
    /\ \E s \in Signal :
          entry' = [entry EXCEPT ![p] = [timestamp |-> s.timestamp, rif |-> s.rif,
                                         latency |-> s.latency, useCount |-> 0]]
    /\ entries' = Append(IF Full(entries) THEN RemoveOldestLocked(entries) ELSE entries, p)

\* A request uses an entry that Fresh once gave it: the entry may have left the
\* slice, and removeEntryLocked then finds nothing.
MarkUsed(p) ==
    /\ p \in added
    /\ entry[p].useCount < MaxUses + Overshoot
    /\ entry' = [entry EXCEPT ![p].useCount = @ + 1]
    /\ entries' = IF entry'[p].useCount >= MaxUses
                  THEN RemoveEntryLocked(entries, p) ELSE entries
    /\ UNCHANGED added

RemoveWorst(threshold, removeOldest) ==
    /\ entries' = IF entries = <<>> THEN entries
                  ELSE IF removeOldest THEN RemoveOldestLocked(entries)
                  ELSE RemoveEntryLocked(entries, WorstLoop(entries, threshold))
    /\ UNCHANGED <<entry, added>>

Next ==
    \/ \E p \in Probe : Add(p) \/ MarkUsed(p)
    \/ \E t \in Threshold, b \in BOOLEAN : RemoveWorst(t, b)

Spec == Init /\ [][Next]_vars

-----------------------------------------------------------------------------
\* Properties.

\* The slice holds distinct entries that were added, at most PoolSize of them.
TypeOK ==
    /\ entry \in [Probe -> [timestamp : Nat, rif : Int, latency : Nat, useCount : Nat]]
    /\ added \subseteq Probe
    /\ entries \in Seq(added) /\ IsInjective(entries) /\ Len(entries) <= PoolSize

\* The slice, its loops and its in-place removals implement the bounded set of
\* Pool: every caller of ProbePool sees one atomic change of a set.
SetPool == INSTANCE Pool WITH pool <- ToSet(entries)
RefinesPool == SetPool!Spec

\* The scan of RemoveWorst keeps one candidate for two orders at once and switches
\* from latency to RIF at the first hot entry: for every threshold, also one that
\* is not the RIF of an entry, it ends on an entry the set-level rule calls worst.
WorstLoopCorrect ==
    entries # <<>> =>
        \A t \in Threshold : WorstLoop(entries, t) \in Worst(ToSet(entries), entry, t)

\* Whatever part of a fresh copy of the pool is healthy, and whatever the
\* boundary, the loops of selectPrequal end on an entry the HCL rule prefers.
ChoiceLoopCorrect ==
    \A healthy \in SUBSET ToSet(entries), t \in Threshold :
        healthy # {} => Chosen(entries, healthy, t) \in Preferred(healthy, entry, t)

\* v is a num/den-quantile of the RIFs of S: no more than that share of the other
\* entries is below it, and more than that share at it or below, or all are.
IsQuantile(v, S, num, den) ==
    LET below  == {p \in S : entry[p].rif < v}
        atMost == {p \in S : entry[p].rif <= v}
        share  == (Cardinality(S) - 1) * num
    IN  /\ Cardinality(below) * den <= share
        /\ Cardinality(atMost) * den > share \/ atMost = S

\* Sorting, truncating and clamping pick a quantile: for every q from 0 to 1, and so
\* far past it that the index runs off the end, the value indexed is a quantile of
\* the RIFs, and the one that the set-level rules use.
QuantileLoopCorrect ==
    entries # <<>> => \A num \in 0..20 :
        LET v == RifQuantileLoop(entries, num, 10)
        IN  /\ IsQuantile(v, ToSet(entries), num, 10)
            /\ v = RifQuantile(ToSet(entries), entry, num, 10)
=============================================================================
