--------------------------- MODULE PrequalProofs ---------------------------
(***************************************************************************)
(* Proofs about Prequal for every number of servers, requests and probes,  *)
(* every pool size, quantile and rate.                                     *)
(***************************************************************************)
EXTENDS Prequal, PoolOpsProofs

-----------------------------------------------------------------------------
\* The sets the specification counts are finite, and a budget is at least 1.
LEMMA ProbeFinite == IsFiniteSet(Probe)
  <1>1. IsFiniteSet(1..MaxProbes)
    BY ConstantsAssumption, FS_Interval
  <1> QED BY <1>1, ConstantsAssumption, FS_Product DEF Probe

LEMMA HandlerFinite ==
  /\ IsFiniteSet(Handler) /\ Cardinality(Handler) \in Nat \ {0}
  /\ \A H \in SUBSET Handler : /\ IsFiniteSet(H) /\ Cardinality(H) \in Nat
                               /\ Cardinality(H) <= Cardinality(Handler)
  <1>1. IsFiniteSet(Handler) /\ Handler # {}
    BY ConstantsAssumption
  <1>2. \A H \in SUBSET Handler : /\ IsFiniteSet(H) /\ Cardinality(H) \in Nat
                                  /\ Cardinality(H) <= Cardinality(Handler)
    BY <1>1, FS_Subset, FS_CardinalityType
  <1> QED BY <1>1, <1>2, FS_EmptySet, FS_CardinalityType

LEMMA MaxUsesPositive == MaxUses \in Nat \ {0}
  BY ConstantsAssumption, FS_CardinalityType, BreusePositive DEF MaxUses

\* The entries of any set of probes have integer RIFs.
LEMMA EntriesHaveRIFs ==
  ASSUME TypeOK, NEW S \in SUBSET Probe
  PROVE  HasRIFs(S, entry)
  BY ProbeFinite, FS_Subset DEF TypeOK, Entry, HasRIFs

-----------------------------------------------------------------------------
\* Type correctness.

LEMMA TypeInit == Init => TypeOK
  <1> SUFFICES ASSUME Init PROVE TypeOK
    OBVIOUS
  <1>1. entry \in [Probe -> Entry]
    BY DEF Init, Entry, NewEntry, NoRIF
  <1>2. /\ healthy \in [Server -> BOOLEAN] /\ removing \in BOOLEAN
        /\ removeToggle \in BOOLEAN
    BY DEF Init
  <1> QED BY <1>1, <1>2 DEF Init, TypeOK

LEMMA SpawnType ==
  ASSUME TypeOK, NEW T, Spawn(T)
  PROVE  /\ phase' \in [Probe -> {"unused", "sent", "adding", "done", "dropped"}]
         /\ entry' \in [Probe -> Entry]
  BY DEF TypeOK, Spawn, Entry, NewEntry, NoRIF

\* A spawned probe is one that was not used before.
LEMMA SpawnFrame ==
  ASSUME TypeOK, NEW T, Spawn(T), NEW p \in Probe
  PROVE  \/ phase[p] = "unused" /\ phase'[p] = "sent" /\ entry'[p].useCount = 0
         \/ phase'[p] = phase[p] /\ entry'[p] = entry[p]
  <1>1. p = <<p[1], p[2]>>
    BY DEF Probe
  <1> QED BY <1>1 DEF TypeOK, Spawn, Unused, ServerOf, NewEntry

LEMMA TypeStep == TypeOK /\ [Next]_vars => TypeOK'
  <1> SUFFICES ASSUME TypeOK, [Next]_vars PROVE TypeOK'
    OBVIOUS
  <1> USE DEF TypeOK, probeVars, requestVars, removerVars
  <1>1. CASE Tick
    BY <1>1, ConstantsAssumption DEF Tick
  <1>2. CASE ProbeAll
    BY <1>2, SpawnType DEF ProbeAll
  <1>3. ASSUME NEW p \in Probe, Add(p) PROVE TypeOK'
    BY <1>3 DEF Add, AfterAdd
  <1>4. ASSUME NEW p \in Probe, NEW r \in ProbeResult, Respond(p, r) PROVE TypeOK'
    <2>1. /\ r \in [isHealthy : BOOLEAN, rif : Int, latency : Nat]
          /\ ServerOf(p) \in Server
      BY ConstantsAssumption DEF Probe, ServerOf
    <2>2. \A firedAt \in entry[p].timestamp..now : Recorded(r, firedAt) \in Entry
      BY <2>1 DEF Recorded, Entry
    <2>3. entry' \in [Probe -> Entry]
      BY <1>4, <2>2 DEF Respond
    <2>4. healthy' \in [Server -> BOOLEAN]
      BY <1>4, <2>1 DEF Respond
    <2>5. phase' \in [Probe -> {"unused", "sent", "adding", "done", "dropped"}]
      BY <1>4 DEF Respond
    <2> QED BY <1>4, <2>3, <2>4, <2>5 DEF Respond
  <1>5. ASSUME NEW h \in Handler, Arrive(h) PROVE TypeOK'
    BY <1>5, SpawnType DEF Arrive
  <1>6. ASSUME NEW h \in Handler, TakeFresh(h) PROVE TypeOK'
    BY <1>6 DEF TakeFresh, FreshAt
  <1>7. ASSUME NEW h \in Handler, NEW p \in Probe, Classify(h, p) PROVE TypeOK'
    BY <1>7 DEF Classify
  <1>8. ASSUME NEW h \in Handler, NEW p \in Probe, MarkUsed(h, p) PROVE TypeOK'
    BY <1>8 DEF MarkUsed, Return, Entry
  <1>9. ASSUME NEW h \in Handler, NEW s \in Server \cup {NoServer}, SelectRandom(h, s)
        PROVE  TypeOK'
    BY <1>9 DEF SelectRandom, Return
  <1>10. CASE ScanThreshold
    <2>1. FreshAt(pool, entry, now, AgeLimit) \in SUBSET Probe
      BY DEF FreshAt
    <2>2. threshold' \in Int
      BY <1>10, <2>1, EntriesHaveRIFs, QuantileInteger, ConstantsAssumption
      DEF ScanThreshold
    <2> QED BY <1>10, <2>2 DEF ScanThreshold
  <1>11. CASE RemoveWorst
    <2>1. pool' \in SUBSET Probe
      BY <1>11 DEF RemoveWorst, AfterRemoveWorst
    <2>2. /\ removing' = FALSE /\ threshold' = 0
          /\ UNCHANGED <<now, probeVars, entry, requestVars, removeToggle>>
      BY <1>11 DEF RemoveWorst, AfterRemoveWorst
    <2>3. removing' \in BOOLEAN /\ removeToggle' \in BOOLEAN
      BY <2>2
    <2>4. threshold' \in Int
      BY <2>2
    <2>5. UNCHANGED <<now, healthy, phase, periodic, entry, pc, snap, todo, cand>>
      BY <2>2
    <2> QED BY <2>1, <2>3, <2>4, <2>5
  <1>12. CASE UNCHANGED vars
    BY <1>12 DEF vars
  <1> QED BY <1>1, <1>2, <1>3, <1>4, <1>5, <1>6, <1>7, <1>8, <1>9, <1>10, <1>11, <1>12
          DEF Next

\* Every variable keeps its type.
THEOREM TypeCorrect == Spec => []TypeOK
  <1>1. TypeOK /\ [Next]_vars => TypeOK'
    BY TypeStep
  <1> QED BY <1>1, TypeInit, PTL DEF Spec

-----------------------------------------------------------------------------
\* The reuse budget.

LEMMA InvInit == Init => Inv
  <1> SUFFICES ASSUME Init PROVE Inv
    OBVIOUS
  <1>1. TypeOK
    BY TypeInit
  <1>2. SnapshotOK
    BY DEF Init, SnapshotOK
  <1>3. UnaddedUnknown
    BY DEF Init, UnaddedUnknown, Holders, NewEntry
  <1>4. UseBudget
    <2>1. ASSUME NEW p \in Probe
          PROVE  p \notin pool /\ entry[p].useCount = 0 /\ Holders(p) = {}
      BY DEF Init, NewEntry, Holders
    <2>2. Cardinality({}) = 0
      BY FS_EmptySet
    <2> QED BY <2>1, <2>2, HandlerFinite, MaxUsesPositive DEF UseBudget
  <1> QED BY <1>1, <1>2, <1>3, <1>4 DEF Inv

LEMMA SnapshotStep == Inv /\ [Next]_vars => SnapshotOK'
  <1> SUFFICES ASSUME Inv, [Next]_vars PROVE SnapshotOK'
    OBVIOUS
  <1> USE DEF Inv, TypeOK, SnapshotOK, probeVars, requestVars, removerVars
  <1>1. ASSUME NEW h \in Handler, Arrive(h) PROVE SnapshotOK'
    BY <1>1 DEF Arrive
  <1>2. ASSUME NEW h \in Handler, TakeFresh(h) PROVE SnapshotOK'
    BY <1>2 DEF TakeFresh
  <1>3. ASSUME NEW h \in Handler, NEW p \in Probe, Classify(h, p) PROVE SnapshotOK'
    BY <1>3 DEF Classify
  <1>4. ASSUME NEW h \in Handler, NEW p \in Probe, MarkUsed(h, p) PROVE SnapshotOK'
    BY <1>4 DEF MarkUsed, Return
  <1>5. ASSUME NEW h \in Handler, NEW s \in Server \cup {NoServer}, SelectRandom(h, s)
        PROVE  SnapshotOK'
    BY <1>5 DEF SelectRandom, Return
  <1>6. CASE UNCHANGED requestVars
    BY <1>6
  <1>7. ASSUME NEW p \in Probe, NEW r \in ProbeResult, Respond(p, r)
        PROVE  UNCHANGED requestVars
    BY <1>7 DEF Respond
  <1> QED BY <1>1, <1>2, <1>3, <1>4, <1>5, <1>6, <1>7
          DEF Next, Tick, ProbeAll, Add, ScanThreshold, RemoveWorst, vars

LEMMA UnaddedStep == Inv /\ [Next]_vars => UnaddedUnknown'
  <1> SUFFICES ASSUME Inv, [Next]_vars, NEW p \in Probe, phase'[p] # "done"
               PROVE  p \notin pool' /\ Holders(p)' = {} /\ entry'[p].useCount = 0
    BY DEF UnaddedUnknown
  <1> USE DEF Inv, TypeOK, UnaddedUnknown, Holders, probeVars, requestVars, removerVars
  <1>1. CASE Tick
    BY <1>1 DEF Tick
  <1>2. CASE ProbeAll
    BY <1>2, SpawnFrame DEF ProbeAll
  <1>3. ASSUME NEW a \in Probe, Add(a)
        PROVE  p \notin pool' /\ Holders(p)' = {} /\ entry'[p].useCount = 0
    BY <1>3 DEF Add, AfterAdd
  <1>4. ASSUME NEW a \in Probe, NEW r \in ProbeResult, Respond(a, r)
        PROVE  p \notin pool' /\ Holders(p)' = {} /\ entry'[p].useCount = 0
    BY <1>4 DEF Respond, Recorded
  <1>5. ASSUME NEW h \in Handler, Arrive(h)
        PROVE  p \notin pool' /\ Holders(p)' = {} /\ entry'[p].useCount = 0
    BY <1>5, SpawnFrame DEF Arrive
  <1>6. ASSUME NEW h \in Handler, TakeFresh(h)
        PROVE  p \notin pool' /\ Holders(p)' = {} /\ entry'[p].useCount = 0
    BY <1>6 DEF TakeFresh, FreshAt
  <1>7. ASSUME NEW h \in Handler, NEW q \in Probe, Classify(h, q)
        PROVE  p \notin pool' /\ Holders(p)' = {} /\ entry'[p].useCount = 0
    BY <1>7 DEF Classify
  <1>8. ASSUME NEW h \in Handler, NEW q \in Probe, MarkUsed(h, q)
        PROVE  p \notin pool' /\ Holders(p)' = {} /\ entry'[p].useCount = 0
    <2>1. q \in snap[h]
      <3>1. Preferred(cand[h], entry, RIFThreshold(h)) \subseteq cand[h]
        BY DEF Preferred, LeastLatency, LeastRIF, Cold, Hot
      <3> QED BY <1>8, <3>1 DEF MarkUsed, SnapshotOK
    <2>2. p # q
      BY <1>8, <2>1 DEF MarkUsed
    <2> QED BY <1>8, <2>2 DEF MarkUsed, Return
  <1>9. ASSUME NEW h \in Handler, NEW s \in Server \cup {NoServer}, SelectRandom(h, s)
        PROVE  p \notin pool' /\ Holders(p)' = {} /\ entry'[p].useCount = 0
    BY <1>9 DEF SelectRandom, Return
  <1>10. CASE ScanThreshold
    BY <1>10 DEF ScanThreshold
  <1>11. CASE RemoveWorst
    BY <1>11 DEF RemoveWorst, AfterRemoveWorst
  <1>12. CASE UNCHANGED vars
    BY <1>12 DEF vars
  <1> QED BY <1>1, <1>2, <1>3, <1>4, <1>5, <1>6, <1>7, <1>8, <1>9, <1>10, <1>11, <1>12
          DEF Next

\* UseBudget for one probe.
Budget(p) ==
    IF p \in pool
    THEN entry[p].useCount < MaxUses
    ELSE entry[p].useCount + Cardinality(Holders(p)) <= MaxUses + Cardinality(Handler) - 1

LEMMA HoldersCounted ==
  ASSUME NEW p
  PROVE  /\ IsFiniteSet(Holders(p)) /\ Cardinality(Holders(p)) \in Nat
         /\ Cardinality(Holders(p)) <= Cardinality(Handler)
  BY HandlerFinite DEF Holders

\* An entry that leaves the pool, or stays where it is, keeps its budget when it
\* is not used and no request outside the pool's view learns of it.
LEMMA BudgetKept ==
  ASSUME Inv, NEW p \in Probe, entry'[p].useCount = entry[p].useCount,
         Holders(p)' \subseteq Holders(p) \/ p \in pool,
         Holders(p)' \subseteq Handler,
         p \in pool' => p \in pool
  PROVE  Budget(p)'
  <1>1. Budget(p) /\ entry[p].useCount \in Nat /\ MaxUses \in Nat \ {0}
    BY MaxUsesPositive DEF Inv, UseBudget, Budget, TypeOK, Entry
  <1>2. /\ IsFiniteSet(Holders(p)') /\ Cardinality(Holders(p)') \in Nat
        /\ Cardinality(Holders(p)') <= Cardinality(Handler)
        /\ Cardinality(Handler) \in Nat
    BY HandlerFinite
  <1>3. CASE p \in pool'
    BY <1>1, <1>3 DEF Budget
  <1>4. CASE p \notin pool' /\ p \in pool
    BY <1>1, <1>2, <1>4 DEF Budget
  <1>5. CASE p \notin pool' /\ p \notin pool
    <2>1. Cardinality(Holders(p)') <= Cardinality(Holders(p))
      BY <1>5, HoldersCounted, FS_Subset
    <2>2. Cardinality(Holders(p)) \in Nat
      BY HoldersCounted
    <2> QED BY <1>1, <1>2, <1>5, <2>1, <2>2 DEF Budget
  <1> QED BY <1>3, <1>4, <1>5

LEMMA BudgetStep == Inv /\ [Next]_vars => UseBudget'
  <1> SUFFICES ASSUME Inv, [Next]_vars, NEW p \in Probe PROVE Budget(p)'
    BY DEF UseBudget, Budget
  <1> USE DEF probeVars, requestVars, removerVars
  <1>0. TypeOK /\ SnapshotOK /\ UnaddedUnknown /\ Budget(p)
    BY DEF Inv, UseBudget, Budget
  <1>a. Holders(p)' \subseteq Handler
    BY DEF Holders
  <1>1. CASE Tick
    BY <1>1, <1>a, BudgetKept DEF Tick, Holders
  <1>2. CASE ProbeAll
    <2>1. entry'[p].useCount = entry[p].useCount
      BY <1>0, <1>2, SpawnFrame DEF ProbeAll, UnaddedUnknown
    <2> QED BY <1>2, <1>a, <2>1, BudgetKept DEF ProbeAll, Holders
  <1>3. ASSUME NEW a \in Probe, Add(a) PROVE Budget(p)'
    <2>1. UNCHANGED <<entry, snap>> /\ Holders(p)' = Holders(p)
      BY <1>3 DEF Add, Holders
    <2>2. CASE p # a
      <3>1. p \in pool' => p \in pool
        BY <1>3, <2>2 DEF Add, AfterAdd
      <3> QED BY <1>a, <2>1, <3>1, BudgetKept
    <2>3. CASE p = a
      <3>1. p \in pool' /\ phase[p] # "done"
        BY <1>3, <2>3 DEF Add, AfterAdd
      <3> QED BY <1>0, <2>1, <3>1, MaxUsesPositive DEF Budget, UnaddedUnknown
    <2> QED BY <2>2, <2>3
  <1>4. ASSUME NEW a \in Probe, NEW r \in ProbeResult, Respond(a, r) PROVE Budget(p)'
    <2>1. entry'[p].useCount = entry[p].useCount
      BY <1>0, <1>4 DEF Respond, Recorded, UnaddedUnknown, TypeOK
    <2> QED BY <1>4, <1>a, <2>1, BudgetKept DEF Respond, Holders
  <1>5. ASSUME NEW h \in Handler, Arrive(h) PROVE Budget(p)'
    <2>1. entry'[p].useCount = entry[p].useCount
      BY <1>0, <1>5, SpawnFrame DEF Arrive, UnaddedUnknown
    <2> QED BY <1>5, <1>a, <2>1, BudgetKept DEF Arrive, Holders
  <1>6. ASSUME NEW h \in Handler, TakeFresh(h) PROVE Budget(p)'
    <2>1. Holders(p)' \subseteq Holders(p) \/ p \in pool
      BY <1>0, <1>6 DEF TakeFresh, FreshAt, Holders, TypeOK
    <2> QED BY <1>6, <1>a, <2>1, BudgetKept DEF TakeFresh
  <1>7. ASSUME NEW h \in Handler, NEW q \in Probe, Classify(h, q) PROVE Budget(p)'
    BY <1>7, <1>a, BudgetKept DEF Classify, Holders
  <1>8. ASSUME NEW h \in Handler, NEW q \in Probe, MarkUsed(h, q) PROVE Budget(p)'
    <2>1. h \in Holders(q)
      <3>1. Preferred(cand[h], entry, RIFThreshold(h)) \subseteq cand[h]
        BY DEF Preferred, LeastLatency, LeastRIF, Cold, Hot
      <3> QED BY <1>0, <1>8, <3>1 DEF MarkUsed, SnapshotOK, Holders
    <2>2. Holders(p)' = Holders(p) \ {h}
      BY <1>0, <1>8 DEF MarkUsed, Return, Holders, TypeOK
    <2>3. CASE p # q
      <3>1. /\ entry'[p].useCount = entry[p].useCount
            /\ p \in pool' => p \in pool
        BY <1>0, <1>8, <2>3 DEF MarkUsed, TypeOK
      <3> QED BY <1>a, <2>2, <3>1, BudgetKept
    <2>4. CASE p = q
      <3>1. /\ entry'[p].useCount = entry[p].useCount + 1
            /\ entry[p].useCount \in Nat
            /\ pool' = IF entry[p].useCount + 1 >= MaxUses THEN pool \ {p} ELSE pool
        BY <1>0, <1>8, <2>4 DEF MarkUsed, Spent, TypeOK, Entry
      <3>2. /\ Cardinality(Holders(p)) \in Nat
            /\ Cardinality(Holders(p)') = Cardinality(Holders(p)) - 1
            /\ Cardinality(Holders(p)) <= Cardinality(Handler)
            /\ Cardinality(Handler) \in Nat /\ MaxUses \in Nat
        BY <2>1, <2>2, <2>4, HoldersCounted, FS_RemoveElement, HandlerFinite, MaxUsesPositive
      <3>3. CASE p \in pool /\ entry[p].useCount + 1 >= MaxUses
        BY <1>0, <3>1, <3>2, <3>3 DEF Budget
      <3>4. CASE p \in pool /\ ~(entry[p].useCount + 1 >= MaxUses)
        BY <1>0, <3>1, <3>2, <3>4 DEF Budget
      <3>5. CASE p \notin pool
        BY <1>0, <3>1, <3>2, <3>5 DEF Budget
      <3> QED BY <3>3, <3>4, <3>5
    <2> QED BY <2>3, <2>4
  <1>9. ASSUME NEW h \in Handler, NEW s \in Server \cup {NoServer}, SelectRandom(h, s)
        PROVE  Budget(p)'
    <2>1. Holders(p)' \subseteq Holders(p)
      BY <1>0, <1>9 DEF SelectRandom, Return, Holders, TypeOK
    <2> QED BY <1>9, <1>a, <2>1, BudgetKept DEF SelectRandom
  <1>10. CASE ScanThreshold
    BY <1>10, <1>a, BudgetKept DEF ScanThreshold, Holders
  <1>11. CASE RemoveWorst
    <2>1. p \in pool' => p \in pool
      BY <1>11 DEF RemoveWorst, AfterRemoveWorst
    <2> QED BY <1>11, <1>a, <2>1, BudgetKept DEF RemoveWorst, AfterRemoveWorst, Holders
  <1>12. CASE UNCHANGED vars
    BY <1>12, <1>a, BudgetKept DEF vars, Holders
  <1> QED BY <1>1, <1>2, <1>3, <1>4, <1>5, <1>6, <1>7, <1>8, <1>9, <1>10, <1>11, <1>12
          DEF Next

THEOREM InvInvariant == Spec => []Inv
  <1>1. Inv /\ [Next]_vars => Inv'
    BY TypeStep, SnapshotStep, UnaddedStep, BudgetStep DEF Inv
  <1> QED BY <1>1, InvInit, PTL DEF Spec

\* An entry overshoots its reuse budget by at most one use for each other
\* request that was selecting at the time.
THEOREM OvershootBounded == Spec => []UseOvershootBounded
  <1>1. Inv => UseOvershootBounded
    <2> SUFFICES ASSUME Inv, NEW p \in Probe
                 PROVE  /\ p \in pool => entry[p].useCount < MaxUses
                        /\ entry[p].useCount <= MaxUses + Cardinality(Handler) - 1
      BY DEF UseOvershootBounded, Inv, TypeOK
    <2>1. /\ Budget(p) /\ entry[p].useCount \in Nat /\ MaxUses \in Nat
          /\ Cardinality(Holders(p)) \in Nat /\ Cardinality(Handler) \in Nat \ {0}
      BY HoldersCounted, HandlerFinite, MaxUsesPositive
      DEF Inv, UseBudget, Budget, TypeOK, Entry
    <2> QED BY <2>1 DEF Budget
  <1> QED BY <1>1, InvInvariant, PTL

-----------------------------------------------------------------------------
\* The size of the pool.

\* The pool never holds more entries than its configured size.
THEOREM PoolNeverOverflows == Spec => []PoolBounded
  <1>1. Init => PoolBounded
    BY FS_EmptySet, ConstantsAssumption DEF Init, PoolBounded
  <1>2. TypeOK /\ PoolBounded /\ [Next]_vars => PoolBounded'
    <2> SUFFICES ASSUME TypeOK, PoolBounded, [Next]_vars PROVE PoolBounded'
      OBVIOUS
    <2>1. IsFiniteSet(pool) /\ Cardinality(pool) \in Nat /\ PoolSize \in Nat \ {0}
      BY ProbeFinite, FS_Subset, FS_CardinalityType, ConstantsAssumption DEF TypeOK
    <2>2. CASE pool' \subseteq pool
      <3>1. Cardinality(pool') <= Cardinality(pool) /\ Cardinality(pool') \in Nat
        BY <2>1, <2>2, FS_Subset, FS_CardinalityType
      <3> QED BY <2>1, <3>1 DEF PoolBounded
    <2>3. ASSUME NEW p \in Probe, Add(p) PROVE PoolBounded'
      <3>1. CASE Cardinality(pool) >= PoolSize
        <4>1. PICK old \in pool : pool' = (pool \ {old}) \cup {p}
          BY <2>3, <3>1 DEF Add, AfterAdd, Oldest
        <4>2. IsFiniteSet(pool \ {old}) /\ Cardinality(pool \ {old}) = Cardinality(pool) - 1
          BY <2>1, <4>1, FS_RemoveElement
        <4> DEFINE rest == pool \ {old}
        <4>3. Cardinality(rest) \in Nat
          BY <4>2, FS_CardinalityType
        <4>4. Cardinality(pool') = IF p \in rest THEN Cardinality(rest) ELSE Cardinality(rest) + 1
          <5> HIDE DEF rest
          <5> QED BY <4>1, <4>2, FS_AddElement DEF rest
        <4> QED BY <2>1, <4>2, <4>3, <4>4 DEF PoolBounded
      <3>2. CASE ~(Cardinality(pool) >= PoolSize)
        <4>1. pool' = pool \cup {p}
          BY <2>3, <3>2 DEF Add, AfterAdd
        <4>2. Cardinality(pool') = IF p \in pool THEN Cardinality(pool) ELSE Cardinality(pool) + 1
          BY <2>1, <4>1, FS_AddElement
        <4> QED BY <2>1, <3>2, <4>2 DEF PoolBounded
      <3> QED BY <3>1, <3>2
    <2>4. ASSUME NEW h \in Handler, NEW p \in Probe, MarkUsed(h, p)
          PROVE  pool' \subseteq pool
      BY <2>4 DEF MarkUsed
    <2>5. CASE RemoveWorst
      BY <2>2, <2>5 DEF RemoveWorst, AfterRemoveWorst
    <2>6. CASE UNCHANGED pool
      BY <2>2, <2>6
    <2>7. ASSUME NEW p \in Probe, NEW r \in ProbeResult, Respond(p, r)
          PROVE  UNCHANGED pool
      BY <2>7 DEF Respond
    <2> QED BY <2>2, <2>3, <2>4, <2>5, <2>6, <2>7
            DEF Next, Tick, ProbeAll, Arrive, TakeFresh, Classify, SelectRandom,
                ScanThreshold, vars
  <1> QED BY <1>1, <1>2, TypeCorrect, PTL DEF Spec

-----------------------------------------------------------------------------
\* What a choice, a removal and an eviction may never do.

\* Only MarkUsed chooses an entry, and it chooses by the HCL rule.
LEMMA ChoiceIsPreferred ==
  ASSUME TypeOK, [Next]_vars, NEW h \in Handler, NEW p \in Probe, Chooses(h, p)
  PROVE  p \in Preferred(cand[h], entry, RIFThreshold(h))
  <1> USE DEF TypeOK, Entry, Chooses
  <1>1. ASSUME NEW g \in Handler, NEW q \in Probe, MarkUsed(g, q)
        PROVE  p \in Preferred(cand[h], entry, RIFThreshold(h))
    <2>1. g = h
      BY <1>1 DEF MarkUsed, Return
    <2>2. q = p
      BY <1>1 DEF MarkUsed
    <2> QED BY <1>1, <2>1, <2>2 DEF MarkUsed
  <1>2. ASSUME ~ \E g \in Handler, q \in Probe : MarkUsed(g, q) PROVE FALSE
    <2>1. entry' = entry \/ pc' = pc \/ \E g \in Handler : Arrive(g)
      BY <1>2 DEF Next, Tick, ProbeAll, Add, Respond, TakeFresh, Classify, SelectRandom,
                  ScanThreshold, RemoveWorst, vars, requestVars
    <2>2. ASSUME NEW g \in Handler, Arrive(g) PROVE pc'[h] # "idle" \/ pc'[h] = pc[h]
      BY <2>2 DEF Arrive
    <2>3. entry[p].useCount + 1 # entry[p].useCount
      OBVIOUS
    <2> QED BY <2>1, <2>2, <2>3
  <1> QED BY <1>1, <1>2

\* No candidate had both signals better than the chosen entry.
THEOREM ChoiceNeverDominated == Spec => ChoiceNotDominated
  <1>1. TypeOK /\ [Next]_vars =>
          [\A h \in Handler, p \in Probe :
              Chooses(h, p) => ~\E q \in cand[h] : WorseInBoth(p, q)]_vars
    <2> SUFFICES ASSUME TypeOK, [Next]_vars, NEW h \in Handler, NEW p \in Probe,
                        Chooses(h, p), NEW q \in cand[h], WorseInBoth(p, q)
                 PROVE  FALSE
      OBVIOUS
    <2>1. p \in Preferred(cand[h], entry, RIFThreshold(h))
      BY ChoiceIsPreferred
    <2>2. /\ q \in Probe
          /\ entry[p].rif \in Int /\ entry[q].rif \in Int
          /\ entry[p].latency \in Nat /\ entry[q].latency \in Nat
      BY DEF TypeOK, Entry
    <2>3. RIFThreshold(h) \in Int
      BY EntriesHaveRIFs, QuantileInteger, ConstantsAssumption DEF RIFThreshold, TypeOK
    <2>4. CASE Cold(cand[h], entry, RIFThreshold(h)) # {}
      <3>1. /\ ~(entry[p].rif > RIFThreshold(h))
            /\ \A c \in Cold(cand[h], entry, RIFThreshold(h)) : entry[p].latency <= entry[c].latency
        BY <2>1, <2>4 DEF Preferred, LeastLatency, Cold, Hot
      <3>2. q \in Cold(cand[h], entry, RIFThreshold(h))
        BY <2>2, <2>3, <3>1 DEF WorseInBoth, Cold, Hot
      <3> QED BY <2>2, <3>1, <3>2 DEF WorseInBoth
    <2>5. CASE Cold(cand[h], entry, RIFThreshold(h)) = {}
      <3>1. entry[p].rif <= entry[q].rif
        BY <2>1, <2>5 DEF Preferred, LeastRIF
      <3> QED BY <2>2, <3>1 DEF WorseInBoth
    <2> QED BY <2>4, <2>5
  <1> QED BY <1>1, TypeCorrect, PTL DEF Spec, ChoiceNotDominated

\* A hot entry is chosen only when no cold one of the snapshot is a candidate any more,
\* and the cold ones were more than a QNum/QDen share of the other entries.
THEOREM HotChoiceExplained == Spec => HotOnlyWhenColdUnhealthy
  <1>1. TypeOK /\ SnapshotOK /\ [Next]_vars =>
          [\A h \in Handler, p \in Probe :
              (Chooses(h, p) /\ entry[p].rif > RIFThreshold(h)) =>
                  /\ ColdOf(h) \cap cand[h] = {}
                  /\ Cardinality(ColdOf(h)) * QDen > (Cardinality(snap[h]) - 1) * QNum]_vars
    <2> SUFFICES ASSUME TypeOK, SnapshotOK, [Next]_vars, NEW h \in Handler,
                        NEW p \in Probe, Chooses(h, p), entry[p].rif > RIFThreshold(h)
                 PROVE  /\ ColdOf(h) \cap cand[h] = {}
                        /\ Cardinality(ColdOf(h)) * QDen > (Cardinality(snap[h]) - 1) * QNum
      OBVIOUS
    <2>1. p \in Preferred(cand[h], entry, RIFThreshold(h))
      BY ChoiceIsPreferred
    <2>2. Cold(cand[h], entry, RIFThreshold(h)) = {} /\ p \in cand[h]
      BY <2>1 DEF Preferred, LeastLatency, LeastRIF, Cold, Hot
    <2>3. snap[h] \in SUBSET Probe /\ p \in snap[h] /\ HasRIFs(snap[h], entry)
      BY <2>2, EntriesHaveRIFs DEF TypeOK, SnapshotOK
    <2>4. RIFThreshold(h) \in Int /\ entry[p].rif \in Int
      BY <2>3, QuantileInteger, ConstantsAssumption DEF RIFThreshold, HasRIFs
    <2>5. ColdOf(h) \cap cand[h] = {}
      <3> SUFFICES ASSUME NEW q \in snap[h], q \in cand[h], entry[q].rif <= RIFThreshold(h)
                   PROVE  FALSE
        BY DEF ColdOf
      <3>1. entry[q].rif \in Int
        BY <2>3 DEF HasRIFs
      <3> QED BY <2>2, <2>4, <3>1 DEF Cold, Hot
    <2>6. p \notin ColdOf(h)
      BY <2>4 DEF ColdOf
    <2>7. ColdOf(h) = AtMost(snap[h], entry, RIFThreshold(h))
      BY DEF ColdOf, AtMost
    <2>8. \/ Cardinality(AtMost(snap[h], entry, RIFThreshold(h))) * QDen
                 > (Cardinality(snap[h]) - 1) * QNum
          \/ AtMost(snap[h], entry, RIFThreshold(h)) = snap[h]
      BY <2>3, QuantileShare, ConstantsAssumption DEF RIFThreshold
    <2> QED BY <2>3, <2>5, <2>6, <2>7, <2>8
  <1>2. Inv => TypeOK /\ SnapshotOK
    BY DEF Inv
  <1> QED BY <1>1, <1>2, InvInvariant, PTL DEF Spec, HotOnlyWhenColdUnhealthy

\* A removal by load, whatever happened since its threshold was computed, never
\* keeps an entry that is worse in both signals.
THEOREM RemovalNeverDominating == Spec => RemovalNotDominating
  <1>1. TypeOK /\ [Next]_vars =>
          [\A p \in pool \ pool' :
              (removing /\ ~removing' /\ ~removeToggle)
                  => ~\E q \in pool' : WorseInBoth(q, p)]_vars
    <2> SUFFICES ASSUME TypeOK, [Next]_vars, NEW p \in pool \ pool',
                        removing, ~removing', ~removeToggle,
                        NEW q \in pool', WorseInBoth(q, p)
                 PROVE  FALSE
      OBVIOUS
    <2>1. RemoveWorst
      <3>1. UNCHANGED removing \/ RemoveWorst \/ ScanThreshold
        BY DEF Next, Tick, ProbeAll, Add, Respond, Arrive, TakeFresh, Classify, MarkUsed,
               SelectRandom, vars, removerVars
      <3> QED BY <3>1 DEF ScanThreshold
    <2>2. p \in Worst(pool, entry, threshold) /\ q \in pool
      BY <2>1 DEF RemoveWorst, AfterRemoveWorst
    <2>3. /\ entry[p].rif \in Int /\ entry[q].rif \in Int /\ threshold \in Int
          /\ entry[p].latency \in Nat /\ entry[q].latency \in Nat
      BY <2>2 DEF TypeOK, Entry
    <2>4. CASE Hot(pool, entry, threshold) # {}
      <3>1. entry[p].rif > threshold
        BY <2>2, <2>4 DEF Worst, MostRIF, Hot
      <3>2. q \in Hot(pool, entry, threshold)
        BY <2>2, <2>3, <3>1 DEF WorseInBoth, Hot
      <3>3. entry[q].rif <= entry[p].rif
        BY <2>2, <2>4, <3>2 DEF Worst, MostRIF
      <3> QED BY <2>3, <3>3 DEF WorseInBoth
    <2>5. CASE Hot(pool, entry, threshold) = {}
      <3>1. entry[q].latency <= entry[p].latency
        BY <2>2, <2>5 DEF Worst, MostLatency
      <3> QED BY <2>3, <3>1 DEF WorseInBoth
    <2> QED BY <2>4, <2>5
  <1> QED BY <1>1, TypeCorrect, PTL DEF Spec, RemovalNotDominating

\* An addition makes room only in a full pool, and never at the cost of a fresh
\* entry while a stale one stays.
THEOREM EvictionNeverWastes == Spec => EvictionSparesFresh
  <1>1. TypeOK /\ [Next]_vars =>
          [(\E p \in Probe : Adds(p)) =>
              \A old \in pool \ pool' :
                  /\ Cardinality(pool) >= PoolSize
                  /\ Fresh(old) => \A kept \in pool \cap pool' : Fresh(kept)]_vars
    <2> SUFFICES ASSUME TypeOK, [Next]_vars, NEW p \in Probe, Adds(p),
                        NEW old \in pool \ pool'
                 PROVE  /\ Cardinality(pool) >= PoolSize
                        /\ Fresh(old) => \A kept \in pool \cap pool' : Fresh(kept)
      OBVIOUS
    <2>1. \E a \in Probe : Add(a)
      <3>1. ASSUME NEW T, Spawn(T) PROVE FALSE
        BY <3>1, SpawnFrame DEF Adds
      <3>2. ASSUME NEW a \in Probe, NEW r \in ProbeResult, Respond(a, r) PROVE FALSE
        BY <3>2 DEF Respond, Adds, TypeOK
      <3> QED BY <3>1, <3>2
              DEF Next, Tick, ProbeAll, Arrive, TakeFresh, Classify, MarkUsed, SelectRandom,
                  ScanThreshold, RemoveWorst, vars, probeVars, Adds
    <2>2. PICK a \in Probe : Add(a)
      BY <2>1
    <2>3. Cardinality(pool) >= PoolSize /\ old \in Oldest(pool, entry)
      BY <2>2 DEF Add, AfterAdd
    <2>4. ASSUME Fresh(old), NEW kept \in pool PROVE Fresh(kept)
      <3>1. entry[old].timestamp <= entry[kept].timestamp
        BY <2>3 DEF Oldest
      <3>2. /\ entry[old].timestamp \in Nat /\ entry[kept].timestamp \in Nat
            /\ now \in Nat /\ AgeLimit \in Nat
        BY ConstantsAssumption DEF TypeOK, Entry
      <3> QED BY <2>4, <3>1, <3>2 DEF Fresh
    <2> QED BY <2>3, <2>4
  <1> QED BY <1>1, TypeCorrect, PTL DEF Spec, EvictionSparesFresh

-----------------------------------------------------------------------------
\* The pool, as its callers leave it.

\* The fields of an entry that are written once, when its probe has answered.
SignalOf(p) == [timestamp |-> entry[p].timestamp, rif |-> entry[p].rif,
                latency |-> entry[p].latency]

\* Time is within its bound and no entry is of the future.
ClockOK == now <= MaxTime /\ \A p \in Probe : entry[p].timestamp <= now

\* An entry that is, or is about to be, added carries what its probe observed.
SignalsOK == \A p \in Probe : phase[p] \in {"adding", "done"} => SignalOf(p) \in Signals

\* The remover's threshold is 0 or the RIF of an entry, also of one that is gone.
BoundaryOK == threshold \in Boundaries

\* The inductive invariant behind ImplementsPool.
SharedInv == Inv /\ ClockOK /\ SignalsOK /\ BoundaryOK

LEMMA SharedInit == Init => SharedInv
  <1> SUFFICES ASSUME Init PROVE SharedInv
    OBVIOUS
  <1>1. ClockOK
    BY ConstantsAssumption DEF Init, ClockOK, NewEntry
  <1>2. SignalsOK /\ BoundaryOK
    BY DEF Init, SignalsOK, BoundaryOK, Boundaries
  <1> QED BY <1>1, <1>2, InvInit DEF SharedInv

\* A spawned probe starts at the present moment.
LEMMA SpawnClock ==
  ASSUME TypeOK, ClockOK, SignalsOK, NEW T, Spawn(T), now' = now
  PROVE  ClockOK' /\ SignalsOK'
  <1> SUFFICES ASSUME NEW p \in Probe
               PROVE  /\ entry'[p].timestamp <= now'
                      /\ phase'[p] \in {"adding", "done"} => SignalOf(p)' \in Signals
    BY DEF ClockOK, SignalsOK
  <1>1. \/ phase'[p] = "sent" /\ entry'[p] = NewEntry(now)
        \/ phase'[p] = phase[p] /\ entry'[p] = entry[p]
    BY DEF Spawn, TypeOK
  <1>2. CASE phase'[p] = "sent" /\ entry'[p] = NewEntry(now)
    BY <1>2 DEF NewEntry, TypeOK
  <1>3. CASE phase'[p] = phase[p] /\ entry'[p] = entry[p]
    BY <1>3 DEF ClockOK, SignalsOK, SignalOf
  <1> QED BY <1>1, <1>2, <1>3

\* A use changes neither the age nor the signals of an entry.
LEMMA UseKeepsSignals ==
  ASSUME TypeOK, NEW h \in Handler, NEW q \in Probe, MarkUsed(h, q), NEW p \in Probe
  PROVE  /\ entry'[p].timestamp = entry[p].timestamp
         /\ entry'[p].rif = entry[p].rif
         /\ entry'[p].latency = entry[p].latency
  BY DEF MarkUsed, TypeOK, Entry

LEMMA ClockStep == SharedInv /\ [Next]_vars => ClockOK' /\ SignalsOK'
  <1> SUFFICES ASSUME TypeOK, ClockOK, SignalsOK, [Next]_vars PROVE ClockOK' /\ SignalsOK'
    BY DEF SharedInv, Inv
  <1> USE DEF probeVars, requestVars, removerVars
  <1>1. CASE Tick
    <2>1. /\ now \in Nat /\ now < MaxTime /\ now' = now + 1 /\ MaxTime \in Nat
          /\ UNCHANGED <<entry, phase>>
      BY <1>1, ConstantsAssumption DEF Tick, TypeOK
    <2>2. \A p \in Probe : entry[p].timestamp \in Nat
      BY DEF TypeOK, Entry
    <2> QED BY <2>1, <2>2 DEF ClockOK, SignalsOK, SignalOf
  <1>2. CASE ProbeAll
    BY <1>2, SpawnClock DEF ProbeAll
  <1>3. ASSUME NEW a \in Probe, Add(a) PROVE ClockOK' /\ SignalsOK'
    <2>1. /\ UNCHANGED <<entry, now>> /\ phase[a] = "adding"
          /\ phase' = [phase EXCEPT ![a] = "done"]
      BY <1>3 DEF Add
    <2>2. \A p \in Probe : phase'[p] \in {"adding", "done"} => phase[p] \in {"adding", "done"}
      BY <2>1 DEF TypeOK
    <2> QED BY <2>1, <2>2 DEF ClockOK, SignalsOK, SignalOf
  <1>4. ASSUME NEW a \in Probe, NEW r \in ProbeResult, Respond(a, r)
        PROVE  ClockOK' /\ SignalsOK'
    <2>1. CASE UNCHANGED entry /\ phase' = [phase EXCEPT ![a] = "dropped"]
      <3>1. \A p \in Probe : phase'[p] \in {"adding", "done"} => phase[p] \in {"adding", "done"}
        BY <2>1 DEF TypeOK
      <3>2. now' = now
        BY <1>4 DEF Respond
      <3> QED BY <2>1, <3>1, <3>2 DEF ClockOK, SignalsOK, SignalOf
    <2>2. CASE ~ (UNCHANGED entry /\ phase' = [phase EXCEPT ![a] = "dropped"])
      <3>1. PICK firedAt \in entry[a].timestamp..now :
                entry' = [entry EXCEPT ![a] = Recorded(r, firedAt)]
        BY <1>4, <2>2 DEF Respond
      <3>2. phase' = [phase EXCEPT ![a] = "adding"] /\ now' = now
        BY <1>4, <2>2 DEF Respond
      <3>3. entry[a].timestamp \in Nat /\ now \in Nat /\ MaxTime \in Nat
        BY ConstantsAssumption DEF TypeOK, Entry
      <3>4. firedAt <= now /\ firedAt \in 0..MaxTime
        BY <3>1, <3>3 DEF ClockOK
      <3>5. SignalOf(a)' \in Signals /\ entry'[a].timestamp <= now'
        <4>1. entry'[a] = Recorded(r, firedAt)
          BY <3>1 DEF TypeOK
        <4>2. SignalOf(a)' = [timestamp |-> firedAt, rif |-> r.rif, latency |-> r.latency]
          BY <4>1 DEF SignalOf, Recorded
        <4> QED BY <3>2, <3>4, <4>1, <4>2 DEF Signals, Recorded
      <3>6. ASSUME NEW p \in Probe, p # a
            PROVE  phase'[p] = phase[p] /\ entry'[p] = entry[p]
        BY <3>1, <3>2, <3>6 DEF TypeOK
      <3> QED BY <3>2, <3>5, <3>6 DEF ClockOK, SignalsOK, SignalOf
    <2> QED BY <2>1, <2>2
  <1>5. ASSUME NEW h \in Handler, Arrive(h) PROVE ClockOK' /\ SignalsOK'
    BY <1>5, SpawnClock DEF Arrive
  <1>6. ASSUME NEW h \in Handler, NEW q \in Probe, MarkUsed(h, q)
        PROVE  ClockOK' /\ SignalsOK'
    <2>1. UNCHANGED <<now, phase>>
      BY <1>6 DEF MarkUsed
    <2> QED BY <1>6, <2>1, UseKeepsSignals DEF ClockOK, SignalsOK, SignalOf
  <1>7. CASE UNCHANGED <<now, phase, entry>>
    BY <1>7 DEF ClockOK, SignalsOK, SignalOf
  <1> QED BY <1>1, <1>2, <1>3, <1>4, <1>5, <1>6, <1>7
          DEF Next, TakeFresh, Classify, SelectRandom, ScanThreshold, RemoveWorst, vars

LEMMA BoundaryStep == SharedInv /\ [Next]_vars => BoundaryOK'
  <1> SUFFICES ASSUME SharedInv, [Next]_vars PROVE BoundaryOK'
    OBVIOUS
  <1>1. CASE ScanThreshold
    <2> DEFINE F == FreshAt(pool, entry, now, AgeLimit)
    <2>1. F \in SUBSET pool /\ pool \in SUBSET Probe
      BY DEF FreshAt, SharedInv, Inv, TypeOK
    <2>2. threshold' = RifQuantile(F, entry, QNum, QDen)
      BY <1>1 DEF ScanThreshold
    <2>3. CASE F = {}
      BY <2>2, <2>3 DEF RifQuantile, BoundaryOK, Boundaries
    <2>4. CASE F # {}
      <3>1. HasRIFs(F, entry)
        BY <2>1, EntriesHaveRIFs DEF SharedInv, Inv
      <3>2. PICK p \in F : entry[p].rif = threshold'
        BY <2>2, <2>4, <3>1, QuantileAttained, ConstantsAssumption
      <3>3. p \in Probe /\ phase[p] = "done"
        BY <2>1, <3>2 DEF SharedInv, Inv, UnaddedUnknown
      <3>4. SignalOf(p) \in Signals
        BY <3>3 DEF SharedInv, SignalsOK
      <3>5. PICK r \in ProbeResult : SignalOf(p).rif = r.rif
        BY <3>4 DEF Signals
      <3> QED BY <3>2, <3>5 DEF SignalOf, BoundaryOK, Boundaries
    <2> QED BY <2>3, <2>4
  <1>2. CASE RemoveWorst
    BY <1>2 DEF RemoveWorst, AfterRemoveWorst, BoundaryOK, Boundaries
  <1>3. CASE UNCHANGED threshold
    BY <1>3 DEF SharedInv, BoundaryOK, Boundaries
  <1>4. ASSUME NEW a \in Probe, NEW r \in ProbeResult, Respond(a, r)
        PROVE  UNCHANGED threshold
    BY <1>4 DEF Respond, removerVars
  <1> QED BY <1>1, <1>2, <1>3, <1>4
          DEF Next, Tick, ProbeAll, Add, Arrive, TakeFresh, Classify, MarkUsed, SelectRandom,
              vars, removerVars

LEMMA SharedInvariant == Spec => []SharedInv
  <1>1. SharedInv /\ [Next]_vars => SharedInv'
    BY TypeStep, SnapshotStep, UnaddedStep, BudgetStep, ClockStep, BoundaryStep
    DEF SharedInv, Inv
  <1> QED BY <1>1, SharedInit, PTL DEF Spec

Mapped == <<AddedEntry, Added, pool>>

\* The rules look at the entries of the pool only, and those are all added.
LEMMA RulesSeeAdded ==
  ASSUME SharedInv
  PROVE  /\ \A p \in pool : AddedEntry[p] = entry[p]
         /\ SharedPool!Oldest(pool, AddedEntry) = Oldest(pool, entry)
         /\ SharedPool!Cardinality(pool) = Cardinality(pool)
         /\ \A t : SharedPool!Worst(pool, AddedEntry, t) = Worst(pool, entry, t)
  <1>1. \A p \in pool : AddedEntry[p] = entry[p]
    BY DEF SharedInv, Inv, UnaddedUnknown, TypeOK, AddedEntry, Added
  <1>2. SharedPool!Oldest(pool, AddedEntry) = Oldest(pool, entry)
    BY <1>1 DEF SharedPool!Oldest, Oldest
  <1>3. SharedPool!Cardinality(pool) = Cardinality(pool)
    BY DEF SharedPool!Cardinality, Cardinality
  <1>4. ASSUME NEW t
        PROVE  SharedPool!Worst(pool, AddedEntry, t) = Worst(pool, entry, t)
    <2>1. SharedPool!Hot(pool, AddedEntry, t) = Hot(pool, entry, t)
      BY <1>1 DEF SharedPool!Hot, Hot
    <2>2. Hot(pool, entry, t) \subseteq pool
      BY DEF Hot
    <2>3. \A S \in SUBSET pool : /\ SharedPool!MostRIF(S, AddedEntry) = MostRIF(S, entry)
                                 /\ SharedPool!MostLatency(S, AddedEntry) = MostLatency(S, entry)
      BY <1>1 DEF SharedPool!MostRIF, MostRIF, SharedPool!MostLatency, MostLatency
    <2> QED BY <2>1, <2>2, <2>3 DEF SharedPool!Worst, Worst
  <1> QED BY <1>1, <1>2, <1>3, <1>4

LEMMA SharedAdd ==
  ASSUME SharedInv, NEW p \in Probe, Add(p)
  PROVE  SharedPool!Add(p)
  <1>1. /\ phase[p] = "adding" /\ phase' = [phase EXCEPT ![p] = "done"] /\ entry' = entry
        /\ pool' \in AfterAdd(pool, entry, p, PoolSize)
    BY DEF Add
  <1>2. p \notin Added /\ Added' = Added \cup {p}
    BY <1>1 DEF Added, SharedInv, Inv, TypeOK
  <1>3. PICK s \in Signals : SignalOf(p) = s
    BY <1>1 DEF SharedInv, SignalsOK
  <1>4. entry[p] = [timestamp |-> s.timestamp, rif |-> s.rif,
                    latency |-> s.latency, useCount |-> 0]
    <2>1. entry[p].useCount = 0 /\ entry[p] \in Entry
      BY <1>1 DEF SharedInv, Inv, UnaddedUnknown, TypeOK
    <2> QED BY <1>3, <2>1 DEF SignalOf, Entry
  <1>5. AddedEntry' = [AddedEntry EXCEPT ![p] = [timestamp |-> s.timestamp, rif |-> s.rif,
                                                latency |-> s.latency, useCount |-> 0]]
    BY <1>1, <1>2, <1>4 DEF AddedEntry
  <1>6. pool' \in SharedPool!AfterAdd(pool, AddedEntry, p, PoolSize)
    BY <1>1, RulesSeeAdded DEF SharedPool!AfterAdd, AfterAdd
  <1> QED BY <1>2, <1>5, <1>6 DEF SharedPool!Add

LEMMA SharedUse ==
  ASSUME SharedInv, NEW h \in Handler, NEW p \in Probe, MarkUsed(h, p)
  PROVE  SharedPool!MarkUsed(p)
  <1>0. TypeOK /\ SnapshotOK /\ UnaddedUnknown /\ Budget(p)
    BY DEF SharedInv, Inv, UseBudget, Budget
  <1>1. h \in Holders(p)
    <2>1. Preferred(cand[h], entry, RIFThreshold(h)) \subseteq cand[h]
      BY DEF Preferred, LeastLatency, LeastRIF, Cold, Hot
    <2> QED BY <1>0, <2>1 DEF MarkUsed, SnapshotOK, Holders
  <1>2. p \in Added
    BY <1>0, <1>1 DEF UnaddedUnknown, Added
  <1>3. AddedEntry[p] = entry[p] /\ Added' = Added
    BY <1>2 DEF AddedEntry, Added, MarkUsed, probeVars
  <1>4. entry[p].useCount < MaxUses + (Cardinality(Handler) - 1)
    <2>1. Holders(p) # {}
      BY <1>1
    <2>2. Cardinality(Holders(p)) \in Nat \ {0}
      BY <2>1, HoldersCounted, FS_EmptySet
    <2>3. /\ entry[p].useCount \in Nat /\ MaxUses \in Nat
          /\ Cardinality(Handler) \in Nat \ {0}
      BY <1>0, HandlerFinite, MaxUsesPositive DEF TypeOK, Entry
    <2> QED BY <1>0, <2>2, <2>3 DEF Budget
  <1>5. SharedPool!Cardinality(Handler) = Cardinality(Handler)
    BY DEF SharedPool!Cardinality, Cardinality
  <1>6. AddedEntry' = [AddedEntry EXCEPT ![p].useCount = @ + 1]
    BY <1>0, <1>2, <1>3 DEF AddedEntry, MarkUsed, TypeOK
  <1>7. AddedEntry'[p].useCount = entry'[p].useCount
    BY <1>2, <1>3 DEF AddedEntry
  <1>8. pool' = IF AddedEntry'[p].useCount >= MaxUses THEN pool \ {p} ELSE pool
    BY <1>7 DEF MarkUsed, Spent
  <1> QED BY <1>2, <1>3, <1>4, <1>5, <1>6, <1>8 DEF SharedPool!MarkUsed

LEMMA SharedRemoval ==
  ASSUME SharedInv, RemoveWorst
  PROVE  SharedPool!RemoveWorst(threshold, removeToggle)
  <1>1. UNCHANGED <<AddedEntry, Added>>
    BY DEF RemoveWorst, AddedEntry, Added, probeVars
  <1>2. pool' \in AfterRemoveWorst(pool, entry, threshold, removeToggle)
    BY DEF RemoveWorst
  <1>3. pool' \in SharedPool!AfterRemoveWorst(pool, AddedEntry, threshold, removeToggle)
    BY <1>2, RulesSeeAdded DEF SharedPool!AfterRemoveWorst, AfterRemoveWorst
  <1> QED BY <1>1, <1>3 DEF SharedPool!RemoveWorst

\* A spawned probe is not added yet.
LEMMA SpawnUnseen ==
  ASSUME TypeOK, NEW T, Spawn(T)
  PROVE  UNCHANGED <<Added, AddedEntry>>
  <1>1. \A p \in Probe : \/ phase[p] # "done" /\ phase'[p] # "done"
                         \/ phase'[p] = phase[p] /\ entry'[p] = entry[p]
    BY SpawnFrame
  <1>2. Added' = Added
    BY <1>1 DEF Added
  <1> QED BY <1>1, <1>2 DEF AddedEntry, Added

LEMMA SharedStep == SharedInv /\ [Next]_vars => [SharedPool!Next]_Mapped
  <1> SUFFICES ASSUME SharedInv, [Next]_vars PROVE [SharedPool!Next]_Mapped
    OBVIOUS
  <1>0. TypeOK
    BY DEF SharedInv, Inv
  <1>1. ASSUME NEW p \in Probe, Add(p) PROVE [SharedPool!Next]_Mapped
    BY <1>1, SharedAdd DEF SharedPool!Next
  <1>2. ASSUME NEW h \in Handler, NEW p \in Probe, MarkUsed(h, p)
        PROVE  [SharedPool!Next]_Mapped
    BY <1>2, SharedUse DEF SharedPool!Next
  <1>3. CASE RemoveWorst
    <2>1. threshold \in Boundaries /\ removeToggle \in BOOLEAN
      BY <1>0 DEF SharedInv, BoundaryOK, TypeOK
    <2> QED BY <1>3, <2>1, SharedRemoval DEF SharedPool!Next, Boundaries
  <1>4. CASE ProbeAll
    BY <1>0, <1>4, SpawnUnseen DEF ProbeAll, Mapped
  <1>5. ASSUME NEW h \in Handler, Arrive(h) PROVE UNCHANGED Mapped
    BY <1>0, <1>5, SpawnUnseen DEF Arrive, Mapped
  <1>6. ASSUME NEW a \in Probe, NEW r \in ProbeResult, Respond(a, r)
        PROVE  UNCHANGED Mapped
    <2>1. /\ phase[a] = "sent" /\ phase'[a] # "done" /\ pool' = pool
          /\ \A p \in Probe : p # a => phase'[p] = phase[p] /\ entry'[p] = entry[p]
      BY <1>0, <1>6 DEF Respond, TypeOK
    <2>2. Added' = Added
      BY <2>1 DEF Added
    <2>3. AddedEntry' = AddedEntry
      BY <2>1, <2>2 DEF AddedEntry, Added
    <2> QED BY <2>1, <2>2, <2>3 DEF Mapped
  <1>7. CASE UNCHANGED <<phase, entry, pool>>
    BY <1>7 DEF Mapped, Added, AddedEntry
  <1> QED BY <1>1, <1>2, <1>3, <1>4, <1>5, <1>6, <1>7
          DEF Next, Tick, TakeFresh, Classify, SelectRandom, ScanThreshold, vars, probeVars

\* However probes, requests and the remover interleave, what they do to the pool
\* is a behaviour of Pool, with at most one use of an entry beyond its budget for
\* each other request.
THEOREM SharedPoolIsPool == Spec => ImplementsPool
  <1>1. Init => SharedPool!Init
    BY DEF Init, SharedPool!Init, Added, AddedEntry
  <1>2. Spec => SharedPool!Init /\ [][SharedPool!Next]_Mapped
    BY <1>1, SharedStep, SharedInvariant, PTL DEF Spec
  <1> QED BY <1>2 DEF ImplementsPool, SharedPool!Spec, Mapped

-----------------------------------------------------------------------------
\* The entries without a signal.

\* A triggered probe adds what a healthy answer reported, and nothing else.
TriggeredSignals ==
    \A p \in Probe \ periodic :
        phase[p] \in {"adding", "done"} =>
            \E r \in ProbeResult : r.isHealthy /\ r.rif = entry[p].rif

\* What ChoiceHasSignals comes to in the code: a request is assigned by an entry
\* without a RIF only if a periodic probe put it there, or a healthy backend sent
\* no X-RIF header.
SignalsMissingFromPeriodic ==
    [][\A h \in Handler, p \in Probe :
          Chooses(h, p) /\ entry[p].rif = NoRIF =>
              p \in periodic \/ \E r \in ProbeResult : r.isHealthy /\ r.rif = NoRIF]_vars

LEMMA TriggeredStep == Inv /\ TriggeredSignals /\ [Next]_vars => TriggeredSignals'
  <1> SUFFICES ASSUME TypeOK, TriggeredSignals, [Next]_vars,
                      NEW p \in Probe, p \notin periodic', phase'[p] \in {"adding", "done"}
               PROVE  \E r \in ProbeResult : r.isHealthy /\ r.rif = entry'[p].rif
    BY DEF Inv, TriggeredSignals
  <1> USE DEF probeVars, requestVars, removerVars
  <1>1. CASE p \notin periodic /\ phase[p] \in {"adding", "done"} /\ entry'[p].rif = entry[p].rif
    BY <1>1 DEF TriggeredSignals
  <1>2. ASSUME NEW a \in Probe, NEW r \in ProbeResult, Respond(a, r)
        PROVE  \/ p \notin periodic /\ phase[p] \in {"adding", "done"} /\ entry'[p].rif = entry[p].rif
               \/ r.isHealthy /\ r.rif = entry'[p].rif
    <2>1. CASE p = a
      BY <1>2, <2>1 DEF Respond, Recorded, TypeOK
    <2>2. CASE p # a
      BY <1>2, <2>2 DEF Respond, TypeOK
    <2> QED BY <2>1, <2>2
  <1>3. ASSUME NEW h \in Handler, NEW q \in Probe, MarkUsed(h, q)
        PROVE  p \notin periodic /\ phase[p] \in {"adding", "done"} /\ entry'[p].rif = entry[p].rif
    <2>1. UNCHANGED <<periodic, phase>>
      BY <1>3 DEF MarkUsed
    <2> QED BY <1>3, <2>1, UseKeepsSignals
  <1>4. ASSUME NEW T, Spawn(T), periodic \subseteq periodic'
        PROVE  p \notin periodic /\ phase[p] \in {"adding", "done"} /\ entry'[p].rif = entry[p].rif
    BY <1>4, SpawnFrame
  <1>5. ASSUME NEW a \in Probe, Add(a)
        PROVE  p \notin periodic /\ phase[p] \in {"adding", "done"} /\ entry'[p].rif = entry[p].rif
    BY <1>5 DEF Add, TypeOK
  <1>6. CASE UNCHANGED <<periodic, phase, entry>>
    BY <1>1, <1>6
  <1> QED BY <1>1, <1>2, <1>3, <1>4, <1>5, <1>6
          DEF Next, Tick, ProbeAll, Arrive, TakeFresh, Classify, SelectRandom,
              ScanThreshold, RemoveWorst, vars

\* A request assigned by an entry without a RIF owes it to a periodic probe, for
\* any fleet whose healthy backends send the header.
THEOREM OnlyPeriodicProbesMissSignals == Spec => SignalsMissingFromPeriodic
  <1>1. Init => TriggeredSignals
    BY DEF Init, TriggeredSignals
  <1>2. Inv /\ TriggeredSignals /\ [Next]_vars =>
          [\A h \in Handler, p \in Probe :
              Chooses(h, p) /\ entry[p].rif = NoRIF =>
                  p \in periodic \/ \E r \in ProbeResult : r.isHealthy /\ r.rif = NoRIF]_vars
    <2> SUFFICES ASSUME Inv, TriggeredSignals, [Next]_vars, NEW h \in Handler, NEW p \in Probe,
                        Chooses(h, p), entry[p].rif = NoRIF, p \notin periodic
                 PROVE  \E r \in ProbeResult : r.isHealthy /\ r.rif = NoRIF
      OBVIOUS
    <2>1. p \in snap[h]
      <3>1. p \in Preferred(cand[h], entry, RIFThreshold(h))
        BY ChoiceIsPreferred DEF Inv
      <3>2. Preferred(cand[h], entry, RIFThreshold(h)) \subseteq cand[h]
        BY DEF Preferred, LeastLatency, LeastRIF, Cold, Hot
      <3> QED BY <3>1, <3>2 DEF Inv, SnapshotOK
    <2>2. phase[p] = "done"
      BY <2>1 DEF Inv, UnaddedUnknown, Holders
    <2> QED BY <2>2 DEF TriggeredSignals
  <1> QED BY <1>1, <1>2, TriggeredStep, InvInvariant, PTL DEF Spec, SignalsMissingFromPeriodic
=============================================================================
