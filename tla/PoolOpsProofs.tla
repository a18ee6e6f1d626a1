--------------------------- MODULE PoolOpsProofs ---------------------------
(***************************************************************************)
(* What the operators of PoolOps return, for pools of any size.            *)
(***************************************************************************)
EXTENDS PoolOps, FiniteSetTheorems, TLAPS

\* A non-empty finite set has an element at which an integer-valued function
\* is least.  (Otherwise take a minimal subset that has none.)
LEMMA LeastExists ==
  ASSUME NEW S, IsFiniteSet(S), S # {}, NEW f \in [S -> Int]
  PROVE  \E p \in S : \A q \in S : f[p] <= f[q]
  <1> DEFINE Bad == {U \in FiniteSubsetsOf(S) :
                        U # {} /\ ~ \E p \in U : \A q \in U : f[p] <= f[q]}
  <1>1. SUFFICES ASSUME Bad # {} PROVE FALSE
    BY DEF FiniteSubsetsOf
  <1>2. Bad \subseteq FiniteSubsetsOf(S)
    OBVIOUS
  <1>3. PICK U \in Bad : \A V \in Bad : ~(<<V, U>> \in StrictSubsetOrdering(S))
    <2> HIDE DEF Bad
    <2> QED BY <1>1, <1>2, FS_StrictSubsetOrderingWellFounded, WFMin
  <1>4. /\ U \in SUBSET S /\ IsFiniteSet(U) /\ U # {}
        /\ ~ \E p \in U : \A q \in U : f[p] <= f[q]
    BY DEF FiniteSubsetsOf
  <1>5. PICK x \in U : TRUE
    BY <1>4
  <1> DEFINE V == U \ {x}
  <1>6. /\ V \in FiniteSubsetsOf(S)
        /\ <<V, U>> \in StrictSubsetOrdering(S)
    <2>1. IsFiniteSet(V)
      BY <1>4, FS_RemoveElement
    <2>2. V \in SUBSET S /\ V \subseteq U /\ V # U
      BY <1>4, <1>5
    <2> QED BY <2>1, <2>2, <1>4 DEF FiniteSubsetsOf, StrictSubsetOrdering
  <1>7. V = {} \/ \E p \in V : \A q \in V : f[p] <= f[q]
    BY <1>3, <1>6
  <1>8. CASE V = {}
    BY <1>8, <1>4, <1>5
  <1>9. CASE \E p \in V : \A q \in V : f[p] <= f[q]
    <2>1. PICK p \in V : \A q \in V : f[p] <= f[q]
      BY <1>9
    <2>2. f[p] \in Int /\ f[x] \in Int
      BY <1>4, <1>5
    <2>3. CASE f[p] <= f[x]
      BY <2>1, <2>3, <1>4
    <2>4. CASE f[x] < f[p]
      <3>1. \A q \in U : f[q] \in Int
        BY <1>4
      <3> QED BY <2>1, <2>2, <2>4, <3>1, <1>4, <1>5
    <2> QED BY <2>2, <2>3, <2>4
  <1> QED BY <1>7, <1>8, <1>9

\* ... and one at which it is greatest.
LEMMA GreatestExists ==
  ASSUME NEW S, IsFiniteSet(S), S # {}, NEW f \in [S -> Int]
  PROVE  \E p \in S : \A q \in S : f[q] <= f[p]
  <1> DEFINE g == [p \in S |-> 0 - f[p]]
  <1>1. g \in [S -> Int]
    OBVIOUS
  <1>2. PICK p \in S : \A q \in S : g[p] <= g[q]
    <2> HIDE DEF g
    <2> QED BY <1>1, LeastExists
  <1>3. \A q \in S : f[q] \in Int /\ f[p] \in Int /\ g[q] = 0 - f[q] /\ g[p] = 0 - f[p]
    OBVIOUS
  <1> QED BY <1>2, <1>3

-----------------------------------------------------------------------------
\* e gives every probe of S an integer RIF.
HasRIFs(S, e) == IsFiniteSet(S) /\ \A p \in S : e[p].rif \in Int

\* The rank of p: how many entries are at or below its RIF.
AtMost(S, e, v) == {q \in S : e[q].rif <= v}
Below(S, e, v)  == {q \in S : e[q].rif < v}

\* Some entry has the value at each rank of the sorted RIFs, so RIFAtRank
\* chooses from a set that is not empty.
LEMMA RankOccupied ==
  ASSUME NEW S, NEW e, HasRIFs(S, e), NEW k \in Nat, k < Cardinality(S)
  PROVE  \E p \in S : /\ Cardinality(Below(S, e, e[p].rif)) <= k
                      /\ k < Cardinality(AtMost(S, e, e[p].rif))
  <1> DEFINE f == [p \in S |-> e[p].rif]
             B == {p \in S : k < Cardinality(AtMost(S, e, e[p].rif))}
  <1>1. IsFiniteSet(S) /\ f \in [S -> Int] /\ \A p \in S : f[p] = e[p].rif
    BY DEF HasRIFs
  <1>2. S # {}
    BY FS_EmptySet
  <1>3. B # {}
    <2>1. PICK m \in S : \A q \in S : f[q] <= f[m]
      <3> HIDE DEF f
      <3> QED BY <1>1, <1>2, GreatestExists
    <2>2. AtMost(S, e, e[m].rif) = S
      BY <1>1, <2>1 DEF AtMost
    <2> QED BY <2>2
  <1>4. PICK p \in B : \A q \in B : e[p].rif <= e[q].rif
    <2>1. IsFiniteSet(B) /\ [q \in B |-> e[q].rif] \in [B -> Int]
      BY <1>1, FS_Subset DEF HasRIFs
    <2>2. PICK p \in B : \A q \in B : [r \in B |-> e[r].rif][p] <= [r \in B |-> e[r].rif][q]
      <3> DEFINE g == [r \in B |-> e[r].rif]
      <3>1. g \in [B -> Int]
        BY <2>1
      <3> HIDE DEF g, B
      <3>2. \E p \in B : \A q \in B : g[p] <= g[q]
        BY <2>1, <3>1, <1>3, LeastExists
      <3> QED BY <3>2 DEF g
    <2> QED BY <2>2
  <1> DEFINE L == Below(S, e, e[p].rif)
  <1>5. Cardinality(L) <= k
    <2>1. CASE L = {}
      BY <2>1, FS_EmptySet
    <2>2. CASE L # {}
      <3>1. IsFiniteSet(L) /\ L \subseteq S
        BY <1>1, FS_Subset DEF Below
      <3>2. PICK m \in L : \A q \in L : e[q].rif <= e[m].rif
        <4> DEFINE g == [r \in L |-> e[r].rif]
        <4>1. g \in [L -> Int]
          BY <3>1 DEF HasRIFs
        <4> HIDE DEF g, L
        <4>2. \E m \in L : \A q \in L : g[q] <= g[m]
          BY <2>2, <3>1, <4>1, GreatestExists
        <4> QED BY <4>2 DEF g
      <3>3. /\ e[m].rif < e[p].rif /\ m \in S
            /\ \A q \in S : e[q].rif \in Int
        BY DEF Below, HasRIFs
      <3>4. m \notin B
        BY <1>4, <3>3
      <3>5. L = AtMost(S, e, e[m].rif)
        BY <3>2, <3>3 DEF Below, AtMost
      <3>6. Cardinality(L) \in Nat
        BY <3>1, FS_CardinalityType
      <3>7. ~(k < Cardinality(L))
        BY <3>3, <3>4, <3>5
      <3> QED BY <3>6, <3>7
    <2> QED BY <2>1, <2>2
  <1> QED BY <1>4, <1>5

\* RifQuantile reads a rank that exists.
LEMMA QuantileIndexInRange ==
  ASSUME NEW n \in Nat \ {0}, NEW num \in Nat, NEW den \in Nat \ {0}
  PROVE  QuantileIndex(n, num, den) \in 0..(n - 1)
  <1>1. (n - 1) * num \in Nat
    OBVIOUS
  <1>2. ((n - 1) * num) \div den \in Nat
    BY <1>1
  <1> QED BY <1>2 DEF QuantileIndex

\* The boundary has the rank that the code indexes.
LEMMA QuantileRanked ==
  ASSUME NEW S, NEW e, HasRIFs(S, e), S # {},
         NEW num \in Nat, NEW den \in Nat \ {0}
  PROVE  LET v == RifQuantile(S, e, num, den)
             k == QuantileIndex(Cardinality(S), num, den)
         IN  /\ v \in {e[q].rif : q \in S}
             /\ Cardinality(Below(S, e, v)) <= k
             /\ k < Cardinality(AtMost(S, e, v))
  <1> DEFINE n == Cardinality(S)
             k == QuantileIndex(n, num, den)
             Ranked(v) == /\ Cardinality({p \in S : e[p].rif < v}) <= k
                          /\ k < Cardinality({p \in S : e[p].rif <= v})
  <1>1. n \in Nat \ {0}
    BY FS_CardinalityType, FS_EmptySet DEF HasRIFs
  <1>2. k \in 0..(n - 1)
    BY <1>1, QuantileIndexInRange
  <1>3. PICK p \in S : Ranked(e[p].rif)
    <2>1. k \in Nat /\ k < Cardinality(S)
      BY <1>1, <1>2
    <2> HIDE DEF k
    <2>2. \E p \in S : /\ Cardinality(Below(S, e, e[p].rif)) <= k
                       /\ k < Cardinality(AtMost(S, e, e[p].rif))
      BY <2>1, RankOccupied
    <2> QED BY <2>2 DEF Below, AtMost
  <1>4. \E v \in {e[q].rif : q \in S} : Ranked(v)
    BY <1>3
  <1>5. RIFAtRank(S, e, k) \in {e[q].rif : q \in S} /\ Ranked(RIFAtRank(S, e, k))
    <2> HIDE DEF k
    <2> QED BY <1>4 DEF RIFAtRank
  <1> HIDE DEF k
  <1> QED BY <1>5 DEF RifQuantile, Below, AtMost, k

\* The boundary between hot and cold is the RIF of one of the entries it is
\* computed from, whatever the quantile.
THEOREM QuantileAttained ==
  ASSUME NEW S, NEW e, HasRIFs(S, e), S # {},
         NEW num \in Nat, NEW den \in Nat \ {0}
  PROVE  \E p \in S : e[p].rif = RifQuantile(S, e, num, den)
  <1>1. RifQuantile(S, e, num, den) \in {e[q].rif : q \in S}
    BY QuantileRanked
  <1> QED BY <1>1

\* Dividing by den rounds down.
LEMMA DivisionRoundsDown ==
  ASSUME NEW a \in Nat, NEW den \in Nat \ {0}
  PROVE  /\ a \div den \in Nat
         /\ (a \div den) * den <= a
         /\ a < (a \div den + 1) * den
  BY SMT

\* The boundary is a num/den-quantile: no more than that share of the other entries
\* is below it, and more than that share at it or below, or all are.
THEOREM QuantileShare ==
  ASSUME NEW S, NEW e, HasRIFs(S, e), S # {},
         NEW num \in Nat, NEW den \in Nat \ {0}
  PROVE  LET v == RifQuantile(S, e, num, den)
             share == (Cardinality(S) - 1) * num
         IN  /\ Cardinality(Below(S, e, v)) * den <= share
             /\ Cardinality(AtMost(S, e, v)) * den > share \/ AtMost(S, e, v) = S
  <1> DEFINE n == Cardinality(S)
             k == QuantileIndex(n, num, den)
             v == RifQuantile(S, e, num, den)
             share == (n - 1) * num
             idx == share \div den
  <1>1. n \in Nat \ {0} /\ IsFiniteSet(S)
    BY FS_CardinalityType, FS_EmptySet DEF HasRIFs
  <1>2. k \in 0..(n - 1) /\ share \in Nat
    <2> HIDE DEF n
    <2>1. n - 1 \in Nat
      BY <1>1
    <2>2. (n - 1) * num \in Nat
      BY <2>1
    <2>3. k \in 0..(n - 1)
      BY <1>1, QuantileIndexInRange
    <2> QED BY <2>2, <2>3
  <1>3. /\ Cardinality(Below(S, e, v)) <= k
        /\ k < Cardinality(AtMost(S, e, v))
    BY <1>1, QuantileRanked
  <1>4. /\ Below(S, e, v) \subseteq S /\ AtMost(S, e, v) \subseteq S
        /\ Cardinality(Below(S, e, v)) \in Nat
        /\ Cardinality(AtMost(S, e, v)) \in Nat /\ Cardinality(AtMost(S, e, v)) <= n
        /\ (Cardinality(AtMost(S, e, v)) = n => AtMost(S, e, v) = S)
    <2> HIDE DEF v
    <2>1. Below(S, e, v) \subseteq S /\ AtMost(S, e, v) \subseteq S
      BY DEF Below, AtMost
    <2> QED BY <2>1, <1>1, FS_Subset, FS_CardinalityType
  <1>5. k = IF idx >= n THEN n - 1 ELSE idx
    BY DEF QuantileIndex
  <1>6. idx \in Nat /\ idx * den <= share /\ share < (idx + 1) * den
    <2> HIDE DEF share
    <2> QED BY <1>2, DivisionRoundsDown
  <1> HIDE DEF n, k, v, share, idx
  <1>7. k <= idx /\ k \in Nat
    BY <1>1, <1>2, <1>5, <1>6
  <1>8. PICK below \in Nat, atMost \in Nat : /\ below = Cardinality(Below(S, e, v))
                                            /\ atMost = Cardinality(AtMost(S, e, v))
    BY <1>4
  <1>9. below * den <= idx * den
    <2>1. PICK d \in Nat : idx = below + d
      <3>1. idx - below \in Nat /\ idx = below + (idx - below)
        BY <1>3, <1>6, <1>7, <1>8
      <3> QED BY <3>1
    <2>2. (below + d) * den = below * den + d * den /\ below * den \in Nat /\ d * den \in Nat
      BY <1>8, <2>1, SMT
    <2> QED BY <2>1, <2>2
  <1>10. atMost * den > share \/ AtMost(S, e, v) = S
    <2>1. CASE idx >= n
      BY <1>1, <1>3, <1>4, <1>5, <1>8, <2>1
    <2>2. CASE ~(idx >= n)
      <3>1. PICK d \in Nat : atMost = (idx + 1) + d
        <4>1. atMost - (idx + 1) \in Nat /\ atMost = (idx + 1) + (atMost - (idx + 1))
          BY <1>3, <1>5, <1>6, <1>8, <2>2
        <4> QED BY <4>1
      <3>2. /\ ((idx + 1) + d) * den = (idx + 1) * den + d * den
            /\ (idx + 1) * den \in Nat /\ d * den \in Nat
        BY <1>6, SMT
      <3> QED BY <1>2, <1>6, <3>1, <3>2
    <2> QED BY <2>1, <2>2
  <1>11. below * den <= share
    BY <1>2, <1>6, <1>9
  <1>12. /\ Cardinality(Below(S, e, v)) * den <= share
         /\ Cardinality(AtMost(S, e, v)) * den > share \/ AtMost(S, e, v) = S
    BY <1>8, <1>10, <1>11
  <1> QED BY <1>12 DEF v, share, n

\* The quantile is an integer, the empty pool included.
LEMMA QuantileInteger ==
  ASSUME NEW S, NEW e, HasRIFs(S, e), NEW num \in Nat, NEW den \in Nat \ {0}
  PROVE  RifQuantile(S, e, num, den) \in Int
  <1>1. CASE S = {}
    BY <1>1 DEF RifQuantile
  <1>2. CASE S # {}
    <2>1. PICK p \in S : e[p].rif = RifQuantile(S, e, num, den)
      BY <1>2, QuantileAttained
    <2> QED BY <2>1 DEF HasRIFs
  <1> QED BY <1>1, <1>2

\* computeBreuse never returns a budget below one use.
THEOREM BreusePositive ==
  ASSUME NEW n \in Nat, NEW m \in Nat, NEW probeRate \in Nat,
         NEW removeRate \in Nat, NEW drift \in Nat
  PROVE  Breuse(n, m, probeRate, removeRate, drift) \in Nat \ {0}
  <1> DEFINE denom == (n - m) * probeRate - removeRate * n
             v == ((1 + drift) * n) \div denom
  <1>1. denom \in Int
    OBVIOUS
  <1>2. CASE n = 0
    BY <1>2 DEF Breuse
  <1>3. CASE n # 0 /\ denom <= 0
    <2>1. m \div n \in Nat
      BY <1>3
    <2> QED BY <1>3, <2>1 DEF Breuse
  <1>4. CASE n # 0 /\ ~(denom <= 0)
    <2>1. denom \in Nat \ {0} /\ (1 + drift) * n \in Nat
      BY <1>1, <1>4
    <2>2. v \in Int
      <3> HIDE DEF denom
      <3> QED BY <2>1
    <2> QED BY <1>4, <2>2 DEF Breuse
  <1> QED BY <1>2, <1>3, <1>4
=============================================================================
