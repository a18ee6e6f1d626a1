-------------------------------- MODULE Pool --------------------------------
(***************************************************************************)
(* What ProbePool promises its callers: a bounded set of entries, each     *)
(* call one atomic change of it.  Which of several equally old or equally  *)
(* bad entries is dropped is left open.  PoolSlice shows that the slice of *)
(* the source implements it, and Prequal that the goroutines which share   *)
(* the pool use it so.                                                     *)
(***************************************************************************)
EXTENDS PoolOps

CONSTANTS
    Probe,           \* the entries a caller may create
    Signal,          \* [timestamp, rif, latency] of a new entry
    Threshold,       \* the thresholds a caller may pass to RemoveWorst
    PoolSize,        \* ProbePool.maxSize
    MaxUses,         \* ProbeEntry.MaxUses
    Overshoot        \* uses of one entry beyond that, by callers with a copy

VARIABLES entry, added, pool

Init ==
    /\ added = {}
    /\ pool = {}
    /\ entry = [p \in Probe |-> [timestamp |-> 0, rif |-> 0, latency |-> 0, useCount |-> 0]]

Add(p) ==
    /\ p \notin added
    /\ added' = added \cup {p}
    /\ \E s \in Signal :
          entry' = [entry EXCEPT ![p] = [timestamp |-> s.timestamp, rif |-> s.rif,
                                         latency |-> s.latency, useCount |-> 0]]
    /\ pool' \in AfterAdd(pool, entry, p, PoolSize)

MarkUsed(p) ==
    /\ p \in added
    /\ entry[p].useCount < MaxUses + Overshoot
    /\ entry' = [entry EXCEPT ![p].useCount = @ + 1]
    /\ pool' = IF entry'[p].useCount >= MaxUses THEN pool \ {p} ELSE pool
    /\ UNCHANGED added

RemoveWorst(threshold, removeOldest) ==
    /\ pool' \in AfterRemoveWorst(pool, entry, threshold, removeOldest)
    /\ UNCHANGED <<entry, added>>

Next ==
    \/ \E p \in Probe : Add(p) \/ MarkUsed(p)
    \/ \E t \in Threshold, b \in BOOLEAN : RemoveWorst(t, b)

Spec == Init /\ [][Next]_<<entry, added, pool>>
=============================================================================
