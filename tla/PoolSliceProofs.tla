-------------------------- MODULE PoolSliceProofs --------------------------
(***************************************************************************)
(* The slice of ProbePool and the loops over it, for pools of any size:    *)
(* each loop ends on an entry the set-level rule picks, and the slice      *)
(* implements the bounded set of Pool.                                     *)
(***************************************************************************)
EXTENDS PoolSlice, FoldProofs, PoolOpsProofs, SequenceTheorems

\* The entries of E have comparable fields.
Comparable(E) == \A p \in E : /\ entry[p].rif \in Int /\ entry[p].latency \in Int
                              /\ entry[p].timestamp \in Int

\* The loops start with the first entry and go through the others.
Scanned(E, s) ==
    /\ Len(s) - 1 \in Nat /\ Head(s) \in E
    /\ Tail(s) \in [1..(Len(s) - 1) -> E] /\ DOMAIN Tail(s) = 1..(Len(s) - 1)
    /\ ToSet(s) = {Head(s)} \cup {Tail(s)[k] : k \in 1..(Len(s) - 1)}

LEMMA HeadAndTail ==
  ASSUME NEW E, NEW s \in Seq(E), s # <<>>
  PROVE  Scanned(E, s)
  <1>1. /\ Tail(s) \in Seq(E) /\ Len(Tail(s)) = Len(s) - 1 /\ Head(s) \in E
        /\ \A k \in 1..Len(Tail(s)) : Tail(s)[k] = s[k + 1]
    BY HeadTailProperties
  <1>2. Head(s) = s[1] /\ Len(s) \in Nat /\ DOMAIN s = 1..Len(s)
    BY LenProperties
  <1>3. /\ Len(s) - 1 \in Nat /\ Tail(s) \in [1..(Len(s) - 1) -> E]
        /\ DOMAIN Tail(s) = 1..(Len(s) - 1)
    BY <1>1, LenProperties
  <1>4. \A k \in 1..Len(s) : k = 1 \/ (k - 1 \in 1..(Len(s) - 1) /\ (k - 1) + 1 = k)
    BY <1>2
  <1>5. \A k \in 1..(Len(s) - 1) : k + 1 \in 1..Len(s)
    BY <1>2
  <1>6. 1 \in 1..Len(s)
    BY <1>2, <1>3
  <1>7. ToSet(s) \subseteq {Head(s)} \cup {Tail(s)[k] : k \in 1..(Len(s) - 1)}
    BY <1>1, <1>2, <1>4 DEF ToSet
  <1>8. {Head(s)} \cup {Tail(s)[k] : k \in 1..(Len(s) - 1)} \subseteq ToSet(s)
    BY <1>1, <1>2, <1>5, <1>6 DEF ToSet
  <1> QED BY <1>1, <1>3, <1>7, <1>8 DEF Scanned

\* q is worse than p: hotter, or hot where p is not, or slower where none is hot.
Worse(p, q, t) ==
    IF entry[q].rif > t THEN entry[p].rif <= t \/ entry[q].rif > entry[p].rif
    ELSE entry[p].rif <= t /\ entry[q].latency > entry[p].latency

\* The scan of RemoveWorst ends on an entry none is worse than.
LEMMA WorstLoopKeeps ==
  ASSUME NEW E, NEW s \in Seq(E), s # <<>>, Comparable(E), NEW t \in Int
  PROVE  /\ WorstLoop(s, t) \in ToSet(s)
         /\ \A q \in ToSet(s) : ~Worse(WorstLoop(s, t), q, t)
  <1> DEFINE n == Len(s) - 1
             seq == Tail(s)
             worse(worst, p) ==
                 IF entry[p].rif > t
                 THEN IF entry[worst].rif <= t \/ entry[p].rif > entry[worst].rif
                      THEN p ELSE worst
                 ELSE IF entry[worst].rif <= t /\ entry[p].latency > entry[worst].latency
                      THEN p ELSE worst
             R == {pq \in E \X E : Worse(pq[1], pq[2], t)}
             iter == CHOOSE g : g = [u \in SUBSET DOMAIN seq |->
                         IF u = {} THEN Head(s) ELSE worse(g[u \ {Max(u)}], seq[Max(u)])]
  <1>1. /\ n \in Nat /\ Head(s) \in E /\ DOMAIN seq = 1..n /\ seq \in [1..n -> E]
        /\ ToSet(s) = {Head(s)} \cup {seq[k] : k \in 1..n}
    <2>1. Scanned(E, s)
      BY HeadAndTail
    <2> QED BY <2>1, Zenon DEF Scanned
  <1>2. \A p, q \in E : worse(p, q) = IF <<p, q>> \in R THEN q ELSE p
    BY DEF Worse
  <1>3. WorstLoop(s, t) = iter[DOMAIN seq]
    BY Zenon DEF WorstLoop, FoldLeft, MapThenFoldSet
  <1>4. \A a \in E : <<a, a>> \notin R
    BY DEF Worse, Comparable
  <1>5. \A a, b, c \in E : <<a, b>> \in R /\ <<b, c>> \in R => <<a, c>> \in R
    BY DEF Worse, Comparable
  <1>6. \A p, q \in E : <<p, q>> \notin R => ~Worse(p, q, t)
    OBVIOUS
  <1>7. StrictOn(R, E)
    BY <1>4, <1>5, Zenon DEF StrictOn
  <1> HIDE DEF n, seq, worse, R, iter
  <1>8. PICK g : KeepsAlways(g, E, Head(s), seq, R)
    BY <1>1, KeepExists
  <1>9. g = [u \in SUBSET DOMAIN seq |->
                IF u = {} THEN Head(s) ELSE worse(g[u \ {Max(u)}], seq[Max(u)])]
    BY <1>2, <1>8 DEF Keeps, KeepsAlways
  <1>10. iter = [u \in SUBSET DOMAIN seq |->
                   IF u = {} THEN Head(s) ELSE worse(iter[u \ {Max(u)}], seq[Max(u)])]
    BY <1>9, Zenon DEF iter
  <1>11. Keeps(iter, E, Head(s), seq, R)
    BY <1>2, <1>8, <1>10 DEF Keeps, KeepsAlways
  <1>12. /\ iter[DOMAIN seq] \in {Head(s)} \cup {seq[k] : k \in 1..n}
         /\ <<iter[DOMAIN seq], Head(s)>> \notin R
         /\ \A k \in 1..n : <<iter[DOMAIN seq], seq[k]>> \notin R
    BY <1>1, <1>7, <1>11, KeepsBest
  <1> QED BY <1>1, <1>3, <1>6, <1>12

\* The loop over the cold entries ends on one of the fastest,
LEMMA FastestKeeps ==
  ASSUME NEW E, NEW s \in Seq(E), s # <<>>, Comparable(E)
  PROVE  /\ Fastest(s) \in ToSet(s)
         /\ \A q \in ToSet(s) : entry[Fastest(s)].latency <= entry[q].latency
  <1> DEFINE n == Len(s) - 1
             seq == Tail(s)
             faster(chosen, p) == IF entry[p].latency < entry[chosen].latency THEN p ELSE chosen
             R == {pq \in E \X E : entry[pq[2]].latency < entry[pq[1]].latency}
             iter == CHOOSE g : g = [u \in SUBSET DOMAIN seq |->
                         IF u = {} THEN Head(s) ELSE faster(g[u \ {Max(u)}], seq[Max(u)])]
  <1>1. /\ n \in Nat /\ Head(s) \in E /\ DOMAIN seq = 1..n /\ seq \in [1..n -> E]
        /\ ToSet(s) = {Head(s)} \cup {seq[k] : k \in 1..n}
    <2>1. Scanned(E, s)
      BY HeadAndTail
    <2> QED BY <2>1, Zenon DEF Scanned
  <1>2. \A p, q \in E : faster(p, q) = IF <<p, q>> \in R THEN q ELSE p
    OBVIOUS
  <1>3. Fastest(s) = iter[DOMAIN seq]
    BY Zenon DEF Fastest, FoldLeft, MapThenFoldSet
  <1>4. \A a \in E : <<a, a>> \notin R
    BY DEF Comparable
  <1>5. \A a, b, c \in E : <<a, b>> \in R /\ <<b, c>> \in R => <<a, c>> \in R
    BY DEF Comparable
  <1>6. \A p, q \in E : <<p, q>> \notin R => entry[p].latency <= entry[q].latency
    BY DEF Comparable
  <1>7. StrictOn(R, E)
    BY <1>4, <1>5, Zenon DEF StrictOn
  <1> HIDE DEF n, seq, faster, R, iter
  <1>8. PICK g : KeepsAlways(g, E, Head(s), seq, R)
    BY <1>1, KeepExists
  <1>9. g = [u \in SUBSET DOMAIN seq |->
                IF u = {} THEN Head(s) ELSE faster(g[u \ {Max(u)}], seq[Max(u)])]
    BY <1>2, <1>8 DEF Keeps, KeepsAlways
  <1>10. iter = [u \in SUBSET DOMAIN seq |->
                    IF u = {} THEN Head(s) ELSE faster(iter[u \ {Max(u)}], seq[Max(u)])]
    BY <1>9, Zenon DEF iter
  <1>11. Keeps(iter, E, Head(s), seq, R)
    BY <1>2, <1>8, <1>10 DEF Keeps, KeepsAlways
  <1>12. /\ iter[DOMAIN seq] \in {Head(s)} \cup {seq[k] : k \in 1..n}
         /\ <<iter[DOMAIN seq], Head(s)>> \notin R
         /\ \A k \in 1..n : <<iter[DOMAIN seq], seq[k]>> \notin R
    BY <1>1, <1>7, <1>11, KeepsBest
  <1> QED BY <1>1, <1>3, <1>6, <1>12

\* ... and that over the hot ones on one of the least loaded.
LEMMA LeastLoadedKeeps ==
  ASSUME NEW E, NEW s \in Seq(E), s # <<>>, Comparable(E)
  PROVE  /\ LeastLoaded(s) \in ToSet(s)
         /\ \A q \in ToSet(s) : entry[LeastLoaded(s)].rif <= entry[q].rif
  <1> DEFINE n == Len(s) - 1
             seq == Tail(s)
             lower(chosen, p) == IF entry[p].rif < entry[chosen].rif THEN p ELSE chosen
             R == {pq \in E \X E : entry[pq[2]].rif < entry[pq[1]].rif}
             iter == CHOOSE g : g = [u \in SUBSET DOMAIN seq |->
                         IF u = {} THEN Head(s) ELSE lower(g[u \ {Max(u)}], seq[Max(u)])]
  <1>1. /\ n \in Nat /\ Head(s) \in E /\ DOMAIN seq = 1..n /\ seq \in [1..n -> E]
        /\ ToSet(s) = {Head(s)} \cup {seq[k] : k \in 1..n}
    <2>1. Scanned(E, s)
      BY HeadAndTail
    <2> QED BY <2>1, Zenon DEF Scanned
  <1>2. \A p, q \in E : lower(p, q) = IF <<p, q>> \in R THEN q ELSE p
    OBVIOUS
  <1>3. LeastLoaded(s) = iter[DOMAIN seq]
    BY Zenon DEF LeastLoaded, FoldLeft, MapThenFoldSet
  <1>4. \A a \in E : <<a, a>> \notin R
    BY DEF Comparable
  <1>5. \A a, b, c \in E : <<a, b>> \in R /\ <<b, c>> \in R => <<a, c>> \in R
    BY DEF Comparable
  <1>6. \A p, q \in E : <<p, q>> \notin R => entry[p].rif <= entry[q].rif
    BY DEF Comparable
  <1>7. StrictOn(R, E)
    BY <1>4, <1>5, Zenon DEF StrictOn
  <1> HIDE DEF n, seq, lower, R, iter
  <1>8. PICK g : KeepsAlways(g, E, Head(s), seq, R)
    BY <1>1, KeepExists
  <1>9. g = [u \in SUBSET DOMAIN seq |->
                IF u = {} THEN Head(s) ELSE lower(g[u \ {Max(u)}], seq[Max(u)])]
    BY <1>2, <1>8 DEF Keeps, KeepsAlways
  <1>10. iter = [u \in SUBSET DOMAIN seq |->
                    IF u = {} THEN Head(s) ELSE lower(iter[u \ {Max(u)}], seq[Max(u)])]
    BY <1>9, Zenon DEF iter
  <1>11. Keeps(iter, E, Head(s), seq, R)
    BY <1>2, <1>8, <1>10 DEF Keeps, KeepsAlways
  <1>12. /\ iter[DOMAIN seq] \in {Head(s)} \cup {seq[k] : k \in 1..n}
         /\ <<iter[DOMAIN seq], Head(s)>> \notin R
         /\ \A k \in 1..n : <<iter[DOMAIN seq], seq[k]>> \notin R
    BY <1>1, <1>7, <1>11, KeepsBest
  <1> QED BY <1>1, <1>3, <1>6, <1>12

\* The index removeOldestLocked removes: no other timestamp is Before that one.
OldestIndex(s) ==
    LET earlier(oldest, i) == IF entry[s[i]].timestamp < entry[s[oldest]].timestamp
                              THEN i ELSE oldest
    IN  FoldLeftDomain(earlier, 1, s)

LEMMA OldestIndexKeeps ==
  ASSUME NEW E, NEW s \in Seq(E), s # <<>>, Comparable(E)
  PROVE  /\ OldestIndex(s) \in 1..Len(s)
         /\ \A k \in 1..Len(s) : entry[s[OldestIndex(s)]].timestamp <= entry[s[k]].timestamp
  <1> DEFINE n == Len(s)
             P == 1..n
             seq == [i \in DOMAIN s |-> i]
             earlier(oldest, i) == IF entry[s[i]].timestamp < entry[s[oldest]].timestamp
                                   THEN i ELSE oldest
             R == {ij \in P \X P : entry[s[ij[2]]].timestamp < entry[s[ij[1]]].timestamp}
             iter == CHOOSE g : g = [u \in SUBSET DOMAIN seq |->
                         IF u = {} THEN 1 ELSE earlier(g[u \ {Max(u)}], seq[Max(u)])]
  <1>1. /\ n \in Nat /\ 1 \in P /\ DOMAIN seq = 1..n /\ seq \in [1..n -> P]
        /\ \A k \in 1..n : seq[k] = k
        /\ \A k \in P : entry[s[k]].timestamp \in Int
    <2>1. DOMAIN s = 1..n /\ n \in Nat /\ n # 0 /\ \A k \in 1..n : s[k] \in E
      BY LenProperties, EmptySeq
    <2>2. n \in Nat /\ 1 \in P
      BY <2>1
    <2>3. \A k \in P : entry[s[k]].timestamp \in Int
      BY <2>1 DEF Comparable
    <2> QED BY <2>1, <2>2, <2>3
  <1>2. \A p, q \in P : earlier(p, q) = IF <<p, q>> \in R THEN q ELSE p
    OBVIOUS
  <1>3. OldestIndex(s) = iter[DOMAIN seq]
    BY Zenon DEF OldestIndex, FoldLeftDomain, FoldLeft, MapThenFoldSet
  <1>4. \A a \in P : <<a, a>> \notin R
    <2> HIDE DEF P, n
    <2> QED BY <1>1
  <1>5. \A a, b, c \in P : <<a, b>> \in R /\ <<b, c>> \in R => <<a, c>> \in R
    <2> HIDE DEF P, n
    <2> QED BY <1>1
  <1>6. \A p, q \in P : <<p, q>> \notin R => entry[s[p]].timestamp <= entry[s[q]].timestamp
    <2> HIDE DEF P, n
    <2> QED BY <1>1
  <1>7. StrictOn(R, P)
    BY <1>4, <1>5, Zenon DEF StrictOn
  <1> HIDE DEF n, P, seq, earlier, R, iter
  <1>8. PICK g : KeepsAlways(g, P, 1, seq, R)
    BY <1>1, KeepExists
  <1>9. g = [u \in SUBSET DOMAIN seq |->
                IF u = {} THEN 1 ELSE earlier(g[u \ {Max(u)}], seq[Max(u)])]
    BY <1>2, <1>8 DEF Keeps, KeepsAlways
  <1>10. iter = [u \in SUBSET DOMAIN seq |->
                    IF u = {} THEN 1 ELSE earlier(iter[u \ {Max(u)}], seq[Max(u)])]
    BY <1>9, Zenon DEF iter
  <1>11. Keeps(iter, P, 1, seq, R)
    BY <1>2, <1>8, <1>10 DEF Keeps, KeepsAlways
  <1>12. /\ iter[DOMAIN seq] \in {1} \cup {seq[k] : k \in 1..n}
         /\ <<iter[DOMAIN seq], 1>> \notin R
         /\ \A k \in 1..n : <<iter[DOMAIN seq], seq[k]>> \notin R
    BY <1>1, <1>7, <1>11, KeepsBest
  <1>13. OldestIndex(s) \in P /\ \A k \in P : <<OldestIndex(s), k>> \notin R
    BY <1>1, <1>3, <1>12 DEF P
  <1> QED BY <1>6, <1>13 DEF P, n

-----------------------------------------------------------------------------
\* The entries of a slice, after an append and after a removal.

LEMMA Appended ==
  ASSUME NEW E, NEW s \in Seq(E), NEW p \in E
  PROVE  /\ Append(s, p) \in Seq(E) /\ Len(Append(s, p)) = Len(s) + 1
         /\ ToSet(Append(s, p)) = ToSet(s) \cup {p}
         /\ IsInjective(s) /\ p \notin ToSet(s) => IsInjective(Append(s, p))
  <1> DEFINE a == Append(s, p)
             n == Len(s)
  <1>1. /\ a \in Seq(E) /\ Len(a) = n + 1
        /\ \A i \in 1..n : a[i] = s[i]
        /\ a[n + 1] = p
    BY AppendProperties
  <1>2. n \in Nat /\ DOMAIN s = 1..n /\ DOMAIN a = 1..(n + 1)
    <2> HIDE DEF a
    <2> QED BY <1>1, LenProperties
  <1> HIDE DEF a, n
  <1>3. ToSet(a) = ToSet(s) \cup {p}
    <2>1. ToSet(a) = {a[i] : i \in 1..(n + 1)} /\ ToSet(s) = {s[i] : i \in 1..n}
      BY <1>2 DEF ToSet
    <2>2. 1..(n + 1) = (1..n) \cup {n + 1}
      BY <1>2
    <2> QED BY <1>1, <2>1, <2>2
  <1>4. ASSUME IsInjective(s), p \notin ToSet(s) PROVE IsInjective(a)
    <2>1. \A i \in 1..n : s[i] # p
      BY <1>2, <1>4 DEF ToSet
    <2>2. \A i, j \in 1..n : s[i] = s[j] => i = j
      BY <1>2, <1>4 DEF IsInjective
    <2>3. \A i \in 1..(n + 1) : i \in 1..n \/ i = n + 1
      BY <1>2
    <2> QED BY <1>1, <1>2, <2>1, <2>2, <2>3 DEF IsInjective
  <1> QED BY <1>1, <1>3, <1>4 DEF a, n

LEMMA RemovedAt ==
  ASSUME NEW E, NEW s \in Seq(E), IsInjective(s), NEW i \in 1..Len(s)
  PROVE  /\ RemoveAt(s, i) \in Seq(E) /\ Len(RemoveAt(s, i)) = Len(s) - 1
         /\ IsInjective(RemoveAt(s, i))
         /\ ToSet(RemoveAt(s, i)) = ToSet(s) \ {s[i]}
  <1> DEFINE n == Len(s)
             a == SubSeq(s, 1, i - 1)
             b == SubSeq(s, i + 1, n)
             r == a \o b
  <1>1. n \in Nat /\ DOMAIN s = 1..n /\ i \in 1..n /\ \A k \in 1..n : s[k] \in E
    BY LenProperties
  <1>2. a \in Seq(E) /\ Len(a) = i - 1 /\ \A k \in 1..(i - 1) : a[k] = s[k]
    <2>1. 1 \in Int /\ i - 1 \in Int /\ \A k \in 1..(i - 1) : s[k] \in E
      BY <1>1
    <2>2. /\ a \in Seq(E) /\ Len(a) = IF 1 <= i - 1 THEN (i - 1) - 1 + 1 ELSE 0
          /\ \A k \in 1..((i - 1) - 1 + 1) : a[k] = s[1 + k - 1]
      BY <2>1, SubSeqProperties
    <2> HIDE DEF a
    <2> QED BY <1>1, <2>2
  <1>3. b \in Seq(E) /\ Len(b) = n - i /\ \A k \in 1..(n - i) : b[k] = s[k + i]
    <2>1. i + 1 \in Int /\ n \in Int /\ \A k \in (i + 1)..n : s[k] \in E
      BY <1>1
    <2>2. /\ b \in Seq(E) /\ Len(b) = IF i + 1 <= n THEN n - (i + 1) + 1 ELSE 0
          /\ \A k \in 1..(n - (i + 1) + 1) : b[k] = s[(i + 1) + k - 1]
      BY <2>1, SubSeqProperties
    <2> HIDE DEF b, n
    <2>3. /\ n - (i + 1) + 1 = n - i /\ \A k \in 1..(n - i) : (i + 1) + k - 1 = k + i
          /\ (IF i + 1 <= n THEN n - (i + 1) + 1 ELSE 0) = n - i
      BY <1>1
    <2> QED BY <2>2, <2>3
  <1> HIDE DEF n, a, b
  <1>4. /\ r \in Seq(E) /\ Len(r) = n - 1
        /\ \A k \in 1..(n - 1) : r[k] = IF k < i THEN s[k] ELSE s[k + 1]
    <2>1. /\ r \in Seq(E) /\ Len(r) = Len(a) + Len(b)
          /\ \A k \in 1..(Len(a) + Len(b)) : r[k] = IF k <= Len(a) THEN a[k] ELSE b[k - Len(a)]
      BY <1>2, <1>3, ConcatProperties
    <2>2. Len(r) = n - 1
      BY <1>1, <1>2, <1>3, <2>1
    <2>3. ASSUME NEW k \in 1..(n - 1) PROVE r[k] = IF k < i THEN s[k] ELSE s[k + 1]
      <3>1. r[k] = IF k <= i - 1 THEN a[k] ELSE b[k - (i - 1)]
        BY <1>1, <1>2, <1>3, <2>1
      <3>2. CASE k < i
        <4>1. k \in 1..(i - 1)
          BY <1>1, <3>2
        <4>2. k <= i - 1
          BY <4>1
        <4> HIDE DEF r
        <4> QED BY <1>2, <3>1, <3>2, <4>1, <4>2
      <3>3. CASE ~(k < i)
        <4>1. k - (i - 1) \in 1..(n - i) /\ ~(k <= i - 1) /\ (k - (i - 1)) + i = k + 1
          BY <1>1, <3>3
        <4> HIDE DEF r
        <4> QED BY <1>3, <3>1, <3>3, <4>1
      <3> QED BY <3>2, <3>3
    <2> QED BY <2>1, <2>2, <2>3
  <1>5. DOMAIN r = 1..(n - 1)
    <2> HIDE DEF r
    <2> QED BY <1>4, LenProperties
  <1>6. RemoveAt(s, i) = r
    BY DEF RemoveAt, a, b, n
  <1> HIDE DEF r
  <1> DEFINE to(k) == IF k < i THEN k ELSE k + 1
  <1>7. \A k \in 1..(n - 1) : to(k) \in 1..n /\ to(k) # i /\ r[k] = s[to(k)]
    BY <1>1, <1>4
  <1>8. \A j, k \in 1..(n - 1) : to(j) = to(k) => j = k
    BY <1>1
  <1>9. \A j \in 1..n : j # i => \E k \in 1..(n - 1) : to(k) = j
    <2> SUFFICES ASSUME NEW j \in 1..n, j # i PROVE \E k \in 1..(n - 1) : to(k) = j
      OBVIOUS
    <2>1. CASE j < i
      <3>1. j \in 1..(n - 1) /\ to(j) = j
        BY <1>1, <2>1
      <3> QED BY <3>1
    <2>2. CASE j > i
      <3>1. j - 1 \in 1..(n - 1) /\ to(j - 1) = j
        BY <1>1, <2>2
      <3> QED BY <3>1
    <2> QED BY <1>1, <2>1, <2>2
  <1>10. \A j, k \in 1..n : s[j] = s[k] => j = k
    BY <1>1 DEF IsInjective
  <1> HIDE DEF to
  <1>11. IsInjective(r)
    BY <1>5, <1>7, <1>8, <1>10 DEF IsInjective
  <1>12. ToSet(r) = ToSet(s) \ {s[i]}
    <2>1. ToSet(r) \subseteq ToSet(s) \ {s[i]}
      BY <1>1, <1>5, <1>7, <1>10 DEF ToSet
    <2>2. ASSUME NEW p \in ToSet(s) \ {s[i]} PROVE p \in ToSet(r)
      <3>1. PICK j \in 1..n : s[j] = p /\ j # i
        BY <1>1, <2>2 DEF ToSet
      <3>2. PICK k \in 1..(n - 1) : to(k) = j
        BY <1>9, <3>1
      <3> QED BY <1>5, <1>7, <3>1, <3>2 DEF ToSet
    <2> QED BY <2>1, <2>2
  <1> QED BY <1>4, <1>6, <1>11, <1>12 DEF n

\* removeEntryLocked drops the entry, or nothing when it has left the slice.
LEMMA EntryRemoved ==
  ASSUME NEW E, NEW s \in Seq(E), IsInjective(s), NEW p
  PROVE  /\ RemoveEntryLocked(s, p) \in Seq(E) /\ Len(RemoveEntryLocked(s, p)) <= Len(s)
         /\ IsInjective(RemoveEntryLocked(s, p))
         /\ ToSet(RemoveEntryLocked(s, p)) = ToSet(s) \ {p}
  <1>1. Len(s) \in Nat /\ DOMAIN s = 1..Len(s)
    BY LenProperties
  <1>2. CASE \E i \in 1..Len(s) : s[i] = p
    <2>1. PICK i \in 1..Len(s) : s[i] = p
      BY <1>2
    <2>2. {k \in 1..Len(s) : s[k] = p} = {i}
      BY <1>1, <2>1 DEF IsInjective
    <2>3. Min({i}) = i
      BY DEF Min
    <2>4. SelectInSeq(s, LAMBDA v : v = p) = i
      BY <2>2, <2>3 DEF SelectInSeq
    <2>5. RemoveEntryLocked(s, p) = RemoveAt(s, i)
      BY <1>2, <2>4 DEF RemoveEntryLocked, RemoveFirst
    <2> QED BY <1>1, <2>1, <2>5, RemovedAt
  <1>3. CASE ~ \E i \in 1..Len(s) : s[i] = p
    <2>1. RemoveEntryLocked(s, p) = s
      BY <1>3 DEF RemoveEntryLocked, RemoveFirst
    <2>2. p \notin ToSet(s)
      BY <1>1, <1>3 DEF ToSet
    <2> QED BY <1>1, <2>1, <2>2
  <1> QED BY <1>2, <1>3

\* removeOldestLocked drops one of the oldest.
LEMMA OldestRemoved ==
  ASSUME NEW E, NEW s \in Seq(E), IsInjective(s), s # <<>>, Comparable(E)
  PROVE  /\ RemoveOldestLocked(s) \in Seq(E) /\ Len(RemoveOldestLocked(s)) = Len(s) - 1
         /\ IsInjective(RemoveOldestLocked(s))
         /\ \E p \in Oldest(ToSet(s), entry) : ToSet(RemoveOldestLocked(s)) = ToSet(s) \ {p}
  <1>1. DOMAIN s = 1..Len(s)
    BY LenProperties
  <1>2. RemoveOldestLocked(s) = RemoveAt(s, OldestIndex(s))
    BY DEF RemoveOldestLocked, OldestIndex
  <1>3. /\ OldestIndex(s) \in 1..Len(s)
        /\ \A k \in 1..Len(s) : entry[s[OldestIndex(s)]].timestamp <= entry[s[k]].timestamp
    BY OldestIndexKeeps
  <1>4. s[OldestIndex(s)] \in Oldest(ToSet(s), entry)
    BY <1>1, <1>3 DEF Oldest, ToSet
  <1>5. /\ RemoveAt(s, OldestIndex(s)) \in Seq(E)
        /\ Len(RemoveAt(s, OldestIndex(s))) = Len(s) - 1
        /\ IsInjective(RemoveAt(s, OldestIndex(s)))
        /\ ToSet(RemoveAt(s, OldestIndex(s))) = ToSet(s) \ {s[OldestIndex(s)]}
    BY <1>3, RemovedAt
  <1> QED BY <1>2, <1>4, <1>5

-----------------------------------------------------------------------------
\* The loop that tells the cold entries from the hot ones.

SplitInto(lists, E, s, healthy, t) ==
    /\ lists.cold \in Seq(E) /\ lists.hot \in Seq(E)
    /\ ToSet(lists.cold) = {p \in ToSet(s) : p \in healthy /\ entry[p].rif <= t}
    /\ ToSet(lists.hot) = {p \in ToSet(s) : p \in healthy /\ entry[p].rif > t}

LEMMA SplitCorrect ==
  ASSUME NEW E, NEW s \in Seq(E), Comparable(E), NEW healthy, NEW t \in Int
  PROVE  SplitInto(Split(s, healthy, t), E, s, healthy, t)
  <1> DEFINE n == Len(s)
             A == [cold : Seq(E), hot : Seq(E)]
             base == [cold |-> <<>>, hot |-> <<>>]
             put(lists, p) ==
                 IF p \notin healthy THEN lists
                 ELSE IF entry[p].rif > t
                 THEN [cold |-> lists.cold, hot |-> Append(lists.hot, p)]
                 ELSE [cold |-> Append(lists.cold, p), hot |-> lists.hot]
             F == [ak \in A \X (1..n) |-> put(ak[1], s[ak[2]])]
             iter == CHOOSE g : g = [u \in SUBSET DOMAIN s |->
                         IF u = {} THEN base ELSE put(g[u \ {Max(u)}], s[Max(u)])]
             cold(p) == p \in healthy /\ entry[p].rif <= t
             hot(p) == p \in healthy /\ entry[p].rif > t
  <1>1. n \in Nat /\ DOMAIN s = 1..n /\ \A k \in 1..n : s[k] \in E
    BY LenProperties
  <1>2. base \in A /\ ToSet(base.cold) = {} /\ ToSet(base.hot) = {}
    BY EmptySeq DEF ToSet
  <1>3. ASSUME NEW a \in A, NEW p \in E
        PROVE  /\ put(a, p) \in A
               /\ ToSet(put(a, p).cold) = ToSet(a.cold) \cup (IF cold(p) THEN {p} ELSE {})
               /\ ToSet(put(a, p).hot) = ToSet(a.hot) \cup (IF hot(p) THEN {p} ELSE {})
    <2>1. a.cold \in Seq(E) /\ a.hot \in Seq(E) /\ entry[p].rif \in Int
      BY DEF Comparable
    <2>2. /\ Append(a.cold, p) \in Seq(E) /\ ToSet(Append(a.cold, p)) = ToSet(a.cold) \cup {p}
          /\ Append(a.hot, p) \in Seq(E) /\ ToSet(Append(a.hot, p)) = ToSet(a.hot) \cup {p}
      BY <2>1, Appended
    <2>3. CASE p \notin healthy
      BY <2>3
    <2>4. CASE p \in healthy /\ entry[p].rif > t
      <3>1. put(a, p) = [cold |-> a.cold, hot |-> Append(a.hot, p)]
        BY <2>4
      <3>2. put(a, p).cold = a.cold /\ put(a, p).hot = Append(a.hot, p) /\ put(a, p) \in A
        BY <2>1, <2>2, <3>1
      <3>3. ~cold(p) /\ hot(p)
        BY <2>1, <2>4
      <3> HIDE DEF put, cold, hot
      <3> QED BY <2>2, <3>2, <3>3
    <2>5. CASE p \in healthy /\ ~(entry[p].rif > t)
      <3>1. put(a, p) = [cold |-> Append(a.cold, p), hot |-> a.hot]
        BY <2>5
      <3>2. put(a, p).cold = Append(a.cold, p) /\ put(a, p).hot = a.hot /\ put(a, p) \in A
        BY <2>1, <2>2, <3>1
      <3>3. cold(p) /\ ~hot(p)
        BY <2>1, <2>5
      <3> HIDE DEF put, cold, hot
      <3> QED BY <2>2, <3>2, <3>3
    <2> QED BY <2>3, <2>4, <2>5
  <1>4. Split(s, healthy, t) = iter[DOMAIN s]
    BY Zenon DEF Split, FoldLeft, MapThenFoldSet
  <1>5. A = [cold : Seq(E), hot : Seq(E)]
    OBVIOUS
  <1> HIDE DEF n, A, base, put, iter, cold, hot
  <1>6. F \in [A \X (1..n) -> A]
    BY <1>1, <1>3
  <1>7. PICK g : g \in [SUBSET (1..n) -> A] /\ Folds(g, n, base, F)
    <2> HIDE DEF F
    <2> QED BY <1>1, <1>2, <1>6, FoldExists
  <1>8. g = [u \in SUBSET DOMAIN s |->
                IF u = {} THEN base ELSE put(g[u \ {Max(u)}], s[Max(u)])]
    <2>1. ASSUME NEW u \in SUBSET (1..n), u # {}
          PROVE  F[<<g[u \ {Max(u)}], Max(u)>>] = put(g[u \ {Max(u)}], s[Max(u)])
      <3>1. Max(u) \in 1..n /\ u \ {Max(u)} \in SUBSET (1..n)
        BY <1>1, <2>1, MaxOf
      <3>2. <<g[u \ {Max(u)}], Max(u)>> \in A \X (1..n)
        BY <1>7, <3>1
      <3> QED BY <3>2
    <2> HIDE DEF F
    <2> QED BY <1>1, <1>7, <2>1 DEF Folds
  <1>9. iter = [u \in SUBSET DOMAIN s |->
                   IF u = {} THEN base ELSE put(iter[u \ {Max(u)}], s[Max(u)])]
    BY <1>8, Zenon DEF iter
  <1>10. /\ iter[{}] = base
         /\ \A k \in 1..n : iter[1..k] = put(iter[1..(k - 1)], s[k])
    <2>1. iter[{}] = base
      BY <1>1, <1>9
    <2>2. ASSUME NEW k \in 1..n PROVE iter[1..k] = put(iter[1..(k - 1)], s[k])
      <3>1. /\ 1..k \in SUBSET (1..n) /\ 1..k # {} /\ Max(1..k) = k
            /\ (1..k) \ {Max(1..k)} = 1..(k - 1)
        BY <1>1, PrefixOfPositions
      <3> QED BY <1>1, <1>9, <3>1
    <2> QED BY <2>1, <2>2
  <1> DEFINE Good(k) == /\ iter[1..k] \in A
                        /\ ToSet(iter[1..k].cold) = {p \in {s[j] : j \in 1..k} : cold(p)}
                        /\ ToSet(iter[1..k].hot) = {p \in {s[j] : j \in 1..k} : hot(p)}
             T == {k \in 0..n : Good(k)}
  <1>11. 0 \in T
    <2>1. 1..0 = {} /\ 0 \in 0..n
      BY <1>1
    <2> QED BY <1>2, <1>10, <2>1
  <1>12. ASSUME NEW k \in 0..(n - 1), k \in T PROVE k + 1 \in T
    <2>1. /\ k + 1 \in 1..n /\ k + 1 \in 0..n /\ k \in Nat /\ (k + 1) - 1 = k
          /\ 1..(k + 1) = (1..k) \cup {k + 1}
      BY <1>1
    <2>2. Good(k)
      BY <1>12
    <2>3. iter[1..(k + 1)] = put(iter[1..k], s[k + 1]) /\ s[k + 1] \in E
      BY <1>1, <1>10, <2>1
    <2>4. {s[j] : j \in 1..(k + 1)} = {s[j] : j \in 1..k} \cup {s[k + 1]}
      BY <2>1
    <2>5. PICK a \in A : a = iter[1..k]
      BY <2>2
    <2>6. PICK p \in E : p = s[k + 1]
      BY <2>3
    <2>7. /\ put(a, p) \in A
          /\ ToSet(put(a, p).cold) = ToSet(a.cold) \cup (IF cold(p) THEN {p} ELSE {})
          /\ ToSet(put(a, p).hot) = ToSet(a.hot) \cup (IF hot(p) THEN {p} ELSE {})
      BY <1>3
    <2>8. {q \in {s[j] : j \in 1..(k + 1)} : cold(q)}
            = {q \in {s[j] : j \in 1..k} : cold(q)} \cup (IF cold(p) THEN {p} ELSE {})
      BY <2>4, <2>6
    <2>9. {q \in {s[j] : j \in 1..(k + 1)} : hot(q)}
            = {q \in {s[j] : j \in 1..k} : hot(q)} \cup (IF hot(p) THEN {p} ELSE {})
      BY <2>4, <2>6
    <2>10. Good(k + 1)
      BY <2>2, <2>3, <2>5, <2>6, <2>7, <2>8, <2>9
    <2> QED BY <2>1, <2>10
  <1>13. \A k \in 0..n : k \in T
    <2> HIDE DEF T
    <2> QED BY <1>1, <1>11, <1>12, UpTo
  <1>14. Good(n) /\ ToSet(s) = {s[j] : j \in 1..n}
    <2>1. n \in 0..n /\ DOMAIN s = 1..n
      BY <1>1
    <2>2. Good(n)
      BY <1>13, <2>1
    <2> QED BY <2>1, <2>2 DEF ToSet
  <1>15. iter[1..n].cold \in Seq(E) /\ iter[1..n].hot \in Seq(E)
    BY <1>5, <1>14
  <1> QED BY <1>1, <1>4, <1>14, <1>15 DEF SplitInto, cold, hot

-----------------------------------------------------------------------------
\* What the choices of one state are.

LEMMA SliceFacts ==
  ASSUME TypeOK
  PROVE  /\ entries \in Seq(added) /\ IsInjective(entries) /\ Comparable(added)
         /\ ToSet(entries) \subseteq added
         /\ IsFiniteSet(ToSet(entries)) /\ Cardinality(ToSet(entries)) = Len(entries)
         /\ ((entries = <<>>) <=> (ToSet(entries) = {}))
  <1> DEFINE n == Len(entries)
  <1>1. entries \in Seq(added) /\ IsInjective(entries) /\ Comparable(added)
    BY DEF TypeOK, Comparable
  <1>2. n \in Nat /\ DOMAIN entries = 1..n /\ entries \in [1..n -> added]
    BY <1>1, LenProperties
  <1>3. ToSet(entries) = {entries[k] : k \in 1..n}
    BY <1>2 DEF ToSet
  <1>4. entries \in Bijection(1..n, ToSet(entries))
    BY <1>1, <1>2, <1>3 DEF Bijection, Injection, Surjection, IsInjective
  <1>5. ExistsBijection(1..n, ToSet(entries))
    BY <1>4 DEF ExistsBijection
  <1>6. IsFiniteSet(1..n)
    BY <1>2, FS_Interval
  <1>7. IsFiniteSet(ToSet(entries)) /\ Cardinality(ToSet(entries)) = n
    BY <1>2, <1>5, <1>6, FS_Bijection, FS_CountingElements
  <1>8. (entries = <<>>) <=> (ToSet(entries) = {})
    <2>1. ASSUME entries # <<>> PROVE ToSet(entries) # {}
      <3>1. n \in Nat \ {0}
        BY <1>1, <2>1, EmptySeq
      <3> QED BY <1>3, <3>1
    <2> QED BY <2>1 DEF ToSet
  <1> QED BY <1>1, <1>2, <1>3, <1>7, <1>8

LEMMA WorstIsWorst ==
  ASSUME NEW E, NEW s \in Seq(E), s # <<>>, Comparable(E), NEW t \in Int
  PROVE  WorstLoop(s, t) \in Worst(ToSet(s), entry, t)
  <1> DEFINE w == WorstLoop(s, t)
             S == ToSet(s)
  <1>1. w \in S /\ \A q \in S : ~Worse(w, q, t)
    BY WorstLoopKeeps
  <1>2. \A p \in S : entry[p].rif \in Int /\ entry[p].latency \in Int
    BY LenProperties DEF Comparable, ToSet
  <1> HIDE DEF w, S
  <1>3. CASE Hot(S, entry, t) # {}
    <2>1. entry[w].rif > t
      BY <1>1, <1>2, <1>3 DEF Worse, Hot
    <2>2. \A q \in Hot(S, entry, t) : entry[q].rif <= entry[w].rif
      BY <1>1, <1>2, <2>1 DEF Worse, Hot
    <2>3. w \in MostRIF(Hot(S, entry, t), entry)
      BY <1>1, <2>1, <2>2 DEF MostRIF, Hot
    <2> QED BY <1>3, <2>3 DEF Worst, w, S
  <1>4. CASE Hot(S, entry, t) = {}
    <2>1. \A q \in S : entry[q].latency <= entry[w].latency
      BY <1>1, <1>2, <1>4 DEF Worse, Hot
    <2>2. w \in MostLatency(S, entry)
      BY <1>1, <2>1 DEF MostLatency
    <2> QED BY <1>4, <2>2 DEF Worst, w, S
  <1> QED BY <1>3, <1>4

LEMMA ChosenIsPreferred ==
  ASSUME NEW E, NEW s \in Seq(E), Comparable(E), NEW t \in Int,
         NEW healthy \in SUBSET ToSet(s), healthy # {}
  PROVE  Chosen(s, healthy, t) \in Preferred(healthy, entry, t)
  <1> DEFINE lists == Split(s, healthy, t)
  <1>1. /\ lists.cold \in Seq(E) /\ lists.hot \in Seq(E)
        /\ ToSet(lists.cold) = {p \in ToSet(s) : p \in healthy /\ entry[p].rif <= t}
        /\ ToSet(lists.hot) = {p \in ToSet(s) : p \in healthy /\ entry[p].rif > t}
    BY SplitCorrect DEF SplitInto
  <1>2. \A p \in healthy : entry[p].rif \in Int
    BY LenProperties DEF Comparable, ToSet
  <1> HIDE DEF lists
  <1>3. /\ ToSet(lists.cold) = Cold(healthy, entry, t)
        /\ ToSet(lists.hot) = Hot(healthy, entry, t)
    BY <1>1, <1>2 DEF Cold, Hot
  <1>4. CASE lists.cold # <<>>
    <2>1. /\ Fastest(lists.cold) \in ToSet(lists.cold)
          /\ \A q \in ToSet(lists.cold) : entry[Fastest(lists.cold)].latency <= entry[q].latency
      BY <1>1, <1>4, FastestKeeps
    <2>2. Fastest(lists.cold) \in LeastLatency(Cold(healthy, entry, t), entry)
      BY <1>3, <2>1 DEF LeastLatency
    <2>3. Cold(healthy, entry, t) # {}
      BY <1>3, <2>1
    <2>4. Chosen(s, healthy, t) = Fastest(lists.cold)
      BY <1>4 DEF Chosen, lists
    <2> QED BY <2>2, <2>3, <2>4 DEF Preferred
  <1>5. CASE lists.cold = <<>>
    <2>1. Cold(healthy, entry, t) = {}
      BY <1>3, <1>5 DEF ToSet
    <2>2. Hot(healthy, entry, t) = healthy
      BY <2>1 DEF Cold, Hot
    <2>3. lists.hot # <<>>
      BY <1>3, <2>2 DEF ToSet
    <2>4. /\ LeastLoaded(lists.hot) \in ToSet(lists.hot)
          /\ \A q \in ToSet(lists.hot) : entry[LeastLoaded(lists.hot)].rif <= entry[q].rif
      BY <1>1, <2>3, LeastLoadedKeeps
    <2>5. LeastLoaded(lists.hot) \in LeastRIF(healthy, entry)
      BY <1>3, <2>2, <2>4 DEF LeastRIF
    <2>6. Chosen(s, healthy, t) = LeastLoaded(lists.hot)
      BY <1>5 DEF Chosen, lists
    <2> QED BY <2>1, <2>5, <2>6 DEF Preferred
  <1> QED BY <1>4, <1>5

-----------------------------------------------------------------------------
\* Sorting, and what stands at an index of the sorted slice.

Ascending(f, perm, k) ==
    /\ perm \in Bijection(1..k, 1..k)
    /\ \A i, j \in 1..k : i <= j => f[perm[i]] <= f[perm[j]]

\* Every list of numbers can be rearranged in ascending order.
LEMMA SortExists ==
  ASSUME NEW n \in Nat, NEW f \in [1..n -> Int]
  PROVE  \E perm : Ascending(f, perm, n)
  <1> DEFINE T == {k \in 0..n : \A g \in [1..k -> Int] : \E perm : Ascending(g, perm, k)}
  <1>1. 0 \in T
    <2>1. ASSUME NEW g \in [1..0 -> Int] PROVE Ascending(g, [i \in 1..0 |-> i], 0)
      <3>1. 1..0 = {}
        OBVIOUS
      <3>2. [i \in 1..0 |-> i] \in Bijection(1..0, 1..0)
        BY <3>1 DEF Bijection, Injection, Surjection, IsInjective
      <3> QED BY <3>1, <3>2 DEF Ascending
    <2> QED BY <2>1
  <1>2. ASSUME NEW k \in 0..(n - 1), k \in T PROVE k + 1 \in T
    <2>1. SUFFICES ASSUME NEW g \in [1..(k + 1) -> Int]
                   PROVE  \E perm : Ascending(g, perm, k + 1)
      OBVIOUS
    <2>2. k \in Nat /\ 1..k \subseteq 1..(k + 1) /\ k + 1 \in 1..(k + 1)
          /\ \A i \in 1..(k + 1) : i # k + 1 => i \in 1..k
      OBVIOUS
    <2>3. PICK m \in 1..(k + 1) : \A q \in 1..(k + 1) : g[q] <= g[m]
      <3>1. IsFiniteSet(1..(k + 1)) /\ 1..(k + 1) # {}
        <4>1. k + 1 \in Int
          OBVIOUS
        <4>2. 1..(k + 1) # {}
          BY <2>2
        <4> QED BY <4>1, <4>2, FS_Interval
      <3> QED BY <3>1, GreatestExists
    <2> DEFINE h == [i \in 1..k |-> IF i = m THEN g[k + 1] ELSE g[i]]
    <2>4. h \in [1..k -> Int]
      BY <2>2
    <2>5. PICK q : Ascending(h, q, k)
      <3> HIDE DEF h
      <3> QED BY <1>2, <2>4
    <2>6. /\ q \in [1..k -> 1..k]
          /\ \A i, j \in 1..k : q[i] = q[j] => i = j
          /\ \A v \in 1..k : \E i \in 1..k : q[i] = v
          /\ \A i, j \in 1..k : i <= j => h[q[i]] <= h[q[j]]
      <3> HIDE DEF h
      <3> QED BY <2>5 DEF Ascending, Bijection, Injection, Surjection, IsInjective
    <2> DEFINE p == [i \in 1..(k + 1) |->
                        IF i = k + 1 THEN m ELSE IF q[i] = m THEN k + 1 ELSE q[i]]
    <2>7. p \in [1..(k + 1) -> 1..(k + 1)]
      BY <2>2, <2>6
    <2>8. ASSUME NEW i \in 1..(k + 1), NEW j \in 1..(k + 1), p[i] = p[j] PROVE i = j
      <3>1. p[k + 1] = m /\ \A l \in 1..k : p[l] = IF q[l] = m THEN k + 1 ELSE q[l]
        BY <2>2
      <3>2. \A l \in 1..k : q[l] # k + 1 /\ q[l] \in 1..k /\ l # k + 1
        BY <2>2, <2>6
      <3> HIDE DEF p
      <3> QED BY <2>2, <2>6, <2>8, <3>1, <3>2
    <2>9. ASSUME NEW v \in 1..(k + 1) PROVE \E i \in 1..(k + 1) : p[i] = v
      <3>1. CASE v = m
        BY <2>2, <3>1
      <3>2. CASE v # m /\ v = k + 1
        <4>1. m \in 1..k
          BY <2>2, <3>2
        <4>2. PICK i \in 1..k : q[i] = m
          BY <2>6, <4>1
        <4>3. i # k + 1 /\ i \in 1..(k + 1)
          OBVIOUS
        <4> QED BY <4>2, <4>3, <3>2
      <3>3. CASE v # m /\ v # k + 1
        <4>1. v \in 1..k
          BY <2>2, <3>3
        <4>2. PICK i \in 1..k : q[i] = v
          BY <2>6, <4>1
        <4>3. i # k + 1 /\ i \in 1..(k + 1)
          OBVIOUS
        <4> QED BY <4>2, <4>3, <3>3
      <3> QED BY <3>1, <3>2, <3>3
    <2>10. ASSUME NEW i \in 1..(k + 1), NEW j \in 1..(k + 1), i <= j
           PROVE  g[p[i]] <= g[p[j]]
      <3>1. CASE j = k + 1
        <4>1. p[j] = m /\ p[i] \in 1..(k + 1)
          BY <2>7, <3>1
        <4> HIDE DEF p
        <4> QED BY <4>1, <2>3
      <3>2. CASE j # k + 1
        <4>1. i \in 1..k /\ j \in 1..k /\ i # k + 1
          BY <2>10, <3>2
        <4>2. \A l \in 1..k : g[p[l]] = h[q[l]]
          <5> TAKE l \in 1..k
          <5>1. l # k + 1 /\ l \in 1..(k + 1)
            OBVIOUS
          <5>4. q[l] \in 1..k
            <6> HIDE DEF h
            <6> QED BY <2>6
          <5>2. h[q[l]] = IF q[l] = m THEN g[k + 1] ELSE g[q[l]]
            BY <5>4
          <5>3. p[l] = IF q[l] = m THEN k + 1 ELSE q[l]
            BY <5>1
          <5> QED BY <5>2, <5>3
        <4> HIDE DEF p, h
        <4> QED BY <4>1, <4>2, <2>6, <2>10
      <3> QED BY <3>1, <3>2
    <2>11. p \in Bijection(1..(k + 1), 1..(k + 1))
      <3> HIDE DEF p
      <3> QED BY <2>7, <2>8, <2>9 DEF Bijection, Injection, Surjection, IsInjective
    <2> HIDE DEF p
    <2> QED BY <2>10, <2>11 DEF Ascending
  <1>3. \A k \in 0..n : k \in T
    <2> HIDE DEF T
    <2> QED BY <1>1, <1>2, UpTo
  <1>4. n \in T
    <2> HIDE DEF T
    <2> QED BY <1>3
  <1> QED BY <1>4

LEMMA SortedAscends ==
  ASSUME NEW n \in Nat, NEW f \in [1..n -> Int]
  PROVE  \E perm : Ascending(f, perm, n) /\ Sorted(f) = [k \in 1..n |-> f[perm[k]]]
  <1> DEFINE As == {[k \in 1..n |-> f[perm[k]]] : perm \in Bijection(1..n, 1..n)}
             Up(a) == \A j, k \in 1..n : j <= k => a[j] <= a[k]
  <1>1. PICK perm : Ascending(f, perm, n)
    BY SortExists
  <1>2. \E a \in As : Up(a)
    <2>1. [k \in 1..n |-> f[perm[k]]] \in As
      BY <1>1 DEF Ascending
    <2>2. Up([k \in 1..n |-> f[perm[k]]])
      BY <1>1 DEF Ascending
    <2> HIDE DEF As, Up
    <2> QED BY <2>1, <2>2
  <1>3. Sorted(f) = CHOOSE a \in As : Up(a)
    <2> DEFINE AsOn(d) == {[k \in d |-> f[p[k]]] : p \in Bijection(d, d)}
               UpOn(d, a) == \A j, k \in d : j <= k => a[j] <= a[k]
    <2>1. DOMAIN f = 1..n
      OBVIOUS
    <2>2. Sorted(f) = CHOOSE a \in AsOn(DOMAIN f) : UpOn(DOMAIN f, a)
      BY Zenon DEF Sorted
    <2>3. Sorted(f) = CHOOSE a \in AsOn(1..n) : UpOn(1..n, a)
      <3> HIDE DEF AsOn, UpOn
      <3> QED BY Zenon, <2>1, <2>2
    <2> QED BY Zenon, <2>3
  <1>4. Sorted(f) \in As /\ Up(Sorted(f))
    <2> HIDE DEF As, Up
    <2> QED BY <1>2, <1>3
  <1>5. PICK q \in Bijection(1..n, 1..n) : Sorted(f) = [k \in 1..n |-> f[q[k]]]
    BY <1>4
  <1>6. \A i, j \in 1..n : i <= j => f[q[i]] <= f[q[j]]
    BY <1>4, <1>5
  <1> QED BY <1>5, <1>6 DEF Ascending

FirstOf(b, k) == {b[j] : j \in 1..k}

\* The first k members of a set listed without repetition.
LEMMA FirstCount ==
  ASSUME NEW S, NEW n \in Nat, NEW b \in Bijection(1..n, S), NEW k \in 0..n
  PROVE  IsFiniteSet(FirstOf(b, k)) /\ Cardinality(FirstOf(b, k)) = k
  <1> DEFINE T == FirstOf(b, k)
             c == [j \in 1..k |-> b[j]]
  <1>1. b \in [1..n -> S] /\ (\A i, j \in 1..n : b[i] = b[j] => i = j) /\ 1..k \subseteq 1..n
        /\ k \in Nat
    BY DEF Bijection, Injection, IsInjective
  <1>2. c \in Bijection(1..k, T)
    <2>1. c \in [1..k -> T]
      BY DEF FirstOf
    <2>2. \A i, j \in 1..k : c[i] = c[j] => i = j
      BY <1>1
    <2>3. \A v \in T : \E j \in 1..k : c[j] = v
      BY DEF FirstOf
    <2> HIDE DEF c, T
    <2> QED BY <2>1, <2>2, <2>3 DEF Bijection, Injection, Surjection, IsInjective
  <1>3. IsFiniteSet(1..k) /\ Cardinality(1..k) = k
    BY <1>1, FS_Interval, FS_CountingElements
  <1>4. ExistsBijection(1..k, T)
    <2> HIDE DEF c, T
    <2> QED BY <1>2 DEF ExistsBijection
  <1>5. IsFiniteSet(T) /\ Cardinality(T) = k
    <2> HIDE DEF T
    <2> QED BY <1>3, <1>4, FS_Bijection
  <1> QED BY <1>5

AtRank(S, e, k, v) ==
    /\ Cardinality({p \in S : e[p].rif < v}) <= k
    /\ k < Cardinality({p \in S : e[p].rif <= v})

\* At most one value has a given rank.
LEMMA OneAtRank ==
  ASSUME NEW S, NEW e, HasRIFs(S, e), NEW k \in Nat, NEW v \in Int, NEW w \in Int,
         AtRank(S, e, k, v), AtRank(S, e, k, w)
  PROVE  v = w
  <1>1. ASSUME NEW x \in Int, NEW y \in Int, AtRank(S, e, k, x), AtRank(S, e, k, y), x < y
        PROVE  FALSE
    <2> DEFINE A == {p \in S : e[p].rif <= x}
               B == {p \in S : e[p].rif < y}
    <2>1. A \subseteq B /\ B \subseteq S
      BY <1>1 DEF HasRIFs
    <2>2. IsFiniteSet(B) /\ IsFiniteSet(A)
      BY <2>1, FS_Subset DEF HasRIFs
    <2>3. Cardinality(A) <= Cardinality(B) /\ Cardinality(A) \in Nat /\ Cardinality(B) \in Nat
      <3> HIDE DEF A, B
      <3> QED BY <2>1, <2>2, FS_Subset, FS_CardinalityType
    <2>4. Cardinality(B) <= k /\ k < Cardinality(A)
      BY <1>1 DEF AtRank
    <2> QED BY <2>3, <2>4
  <1> QED BY <1>1

LEMMA SortedAtRank ==
  ASSUME NEW E, NEW s \in Seq(E), s # <<>>, IsInjective(s), Comparable(E),
         Cardinality(ToSet(s)) = Len(s), IsFiniteSet(ToSet(s)), NEW k \in 0..(Len(s) - 1)
  PROVE  Sorted([j \in DOMAIN s |-> entry[s[j]].rif])[k + 1] = RIFAtRank(ToSet(s), entry, k)
  <1> DEFINE n == Len(s)
             S == ToSet(s)
             f == [j \in DOMAIN s |-> entry[s[j]].rif]
  <1>1. /\ n \in Nat /\ DOMAIN s = 1..n /\ k \in Nat /\ k + 1 \in 1..n /\ k \in 0..n
        /\ k + 1 \in 0..n
        /\ s \in [1..n -> S] /\ \A p \in S : entry[p].rif \in Int
    BY LenProperties DEF ToSet, Comparable
  <1>2. f \in [1..n -> Int] /\ \A j \in 1..n : f[j] = entry[s[j]].rif
    BY <1>1
  <1>3. PICK perm : Ascending(f, perm, n) /\ Sorted(f) = [j \in 1..n |-> f[perm[j]]]
    <2> HIDE DEF f, n
    <2> QED BY <1>1, <1>2, SortedAscends
  <1>4. perm \in Bijection(1..n, 1..n) /\ \A i, j \in 1..n : i <= j => f[perm[i]] <= f[perm[j]]
    <2> HIDE DEF f, n
    <2> QED BY <1>3 DEF Ascending
  <1> DEFINE b == [j \in 1..n |-> s[perm[j]]]
             v == f[perm[k + 1]]
  <1>5. /\ perm \in [1..n -> 1..n]
        /\ \A i, j \in 1..n : perm[i] = perm[j] => i = j
        /\ \A l \in 1..n : \E j \in 1..n : perm[j] = l
    <2> HIDE DEF n, f
    <2> QED BY <1>4 DEF Bijection, Injection, Surjection, IsInjective
  <1>6. /\ \A i, j \in 1..n : s[i] = s[j] => i = j
        /\ \A p \in S : \E j \in 1..n : s[j] = p
    BY <1>1 DEF IsInjective, ToSet
  <1>7. b \in Bijection(1..n, S)
    <2>1. b \in [1..n -> S] /\ \A j \in 1..n : b[j] = s[perm[j]]
      <3> HIDE DEF S, n
      <3> QED BY <1>1, <1>5
    <2> HIDE DEF b, S, n
    <2>2. ASSUME NEW i \in 1..n, NEW j \in 1..n, b[i] = b[j] PROVE i = j
      <3>1. s[perm[i]] = s[perm[j]]
        BY <2>1, <2>2
      <3>2. perm[i] \in 1..n /\ perm[j] \in 1..n
        BY <1>5
      <3>3. perm[i] = perm[j]
        BY <1>6, <3>1, <3>2
      <3> QED BY <1>5, <3>3
    <2>3. \A p \in S : \E j \in 1..n : b[j] = p
      BY <1>5, <1>6, <2>1
    <2> QED BY <2>1, <2>2, <2>3 DEF Bijection, Injection, Surjection, IsInjective
  <1>8. \A j \in 1..n : entry[b[j]].rif = f[perm[j]] /\ f[perm[j]] \in Int
    BY <1>2, <1>5
  <1>9. v \in Int
    BY <1>1, <1>8
  <1>10. \A p \in S : \E j \in 1..n : b[j] = p
    <2> HIDE DEF b, S, n
    <2> QED BY <1>7 DEF Bijection, Surjection
  <1>11. \A i, j \in 1..n : i <= j => entry[b[i]].rif <= entry[b[j]].rif
    <2> HIDE DEF b, S, n, f
    <2> QED BY <1>4, <1>8
  <1>12. v = entry[b[k + 1]].rif
    BY <1>1, <1>8
  <1> HIDE DEF b, v, S, n, f
  <1>13. {p \in S : entry[p].rif < v} \subseteq FirstOf(b, k)
    <2> SUFFICES ASSUME NEW p \in S, entry[p].rif < v PROVE p \in FirstOf(b, k)
      OBVIOUS
    <2>1. PICK j \in 1..n : b[j] = p
      BY <1>10
    <2>2. ~(k + 1 <= j)
      BY <1>1, <1>8, <1>11, <1>12, <2>1
    <2>3. j \in 1..k
      BY <1>1, <2>2
    <2> QED BY <2>1, <2>3 DEF FirstOf
  <1>14. FirstOf(b, k + 1) \subseteq {p \in S : entry[p].rif <= v}
    <2> SUFFICES ASSUME NEW j \in 1..(k + 1) PROVE b[j] \in S /\ entry[b[j]].rif <= v
      BY DEF FirstOf
    <2>1. j \in 1..n /\ j <= k + 1
      BY <1>1
    <2>2. b[j] \in S
      BY <1>7, <2>1 DEF Bijection, Injection
    <2> QED BY <1>1, <1>11, <1>12, <2>1, <2>2
  <1>15. Cardinality({p \in S : entry[p].rif < v}) <= k
    <2>1. IsFiniteSet(FirstOf(b, k)) /\ Cardinality(FirstOf(b, k)) = k
      BY <1>1, <1>7, FirstCount
    <2> QED BY <1>13, <2>1, FS_Subset
  <1>16. k + 1 <= Cardinality({p \in S : entry[p].rif <= v})
    <2>1. PICK l \in 0..n : l = k + 1
      BY <1>1
    <2>2. IsFiniteSet(FirstOf(b, l)) /\ Cardinality(FirstOf(b, l)) = l
      <3>1. n \in Nat
        BY <1>1
      <3> QED BY <3>1, <1>7, FirstCount
    <2>3. Cardinality(FirstOf(b, k + 1)) = k + 1
      BY <2>1, <2>2
    <2>4. IsFiniteSet({p \in S : entry[p].rif <= v})
      BY FS_Subset DEF S
    <2> QED BY <1>14, <2>3, <2>4, FS_Subset
  <1>17. AtRank(S, entry, k, v)
    <2>1. Cardinality({p \in S : entry[p].rif <= v}) \in Nat
      <3>1. IsFiniteSet({p \in S : entry[p].rif <= v})
        BY FS_Subset DEF S
      <3> QED BY <3>1, FS_CardinalityType
    <2> QED BY <1>1, <1>15, <1>16, <2>1 DEF AtRank
  <1>18. v \in {entry[p].rif : p \in S}
    <2>1. b[k + 1] \in S
      BY <1>1, <1>7 DEF Bijection, Injection
    <2> QED BY <1>12, <2>1
  <1>19. /\ RIFAtRank(S, entry, k) \in {entry[p].rif : p \in S}
         /\ AtRank(S, entry, k, RIFAtRank(S, entry, k))
    <2>1. RIFAtRank(S, entry, k) = CHOOSE w \in {entry[p].rif : p \in S} : AtRank(S, entry, k, w)
      BY DEF RIFAtRank, AtRank
    <2> QED BY <1>17, <1>18, <2>1
  <1>20. RIFAtRank(S, entry, k) = v
    <2>1. HasRIFs(S, entry)
      BY <1>1 DEF HasRIFs, S
    <2>2. RIFAtRank(S, entry, k) \in Int
      BY <1>1, <1>19
    <2> QED BY <1>1, <1>9, <1>17, <1>19, <2>1, <2>2, OneAtRank
  <1>21. Sorted(f)[k + 1] = v
    BY <1>1, <1>3 DEF v
  <1> QED BY <1>20, <1>21 DEF S, f

LEMMA QuantileIsRanked ==
  ASSUME NEW E, NEW s \in Seq(E), IsInjective(s), Comparable(E),
         Cardinality(ToSet(s)) = Len(s), IsFiniteSet(ToSet(s)),
         (s = <<>>) <=> (ToSet(s) = {}),
         NEW num \in Nat, NEW den \in Nat \ {0}
  PROVE  RifQuantileLoop(s, num, den) = RifQuantile(ToSet(s), entry, num, den)
  <1>1. CASE s = <<>>
    BY <1>1 DEF RifQuantileLoop, RifQuantile
  <1>2. CASE s # <<>>
    <2>1. Len(s) \in Nat \ {0}
      BY <1>2, LenProperties, EmptySeq
    <2> DEFINE k == QuantileIndex(Len(s), num, den)
    <2>2. k \in 0..(Len(s) - 1)
      BY <2>1, QuantileIndexInRange
    <2>3. RifQuantileLoop(s, num, den) = Sorted([j \in DOMAIN s |-> entry[s[j]].rif])[k + 1]
      BY <1>2 DEF RifQuantileLoop
    <2>4. RifQuantile(ToSet(s), entry, num, den) = RIFAtRank(ToSet(s), entry, k)
      BY <1>2 DEF RifQuantile
    <2> HIDE DEF k
    <2> QED BY <1>2, <2>2, <2>3, <2>4, SortedAtRank
  <1> QED BY <1>1, <1>2

-----------------------------------------------------------------------------
\* Each call changes the set of entries as Pool says, and keeps the slice typed.

Mapped == <<entry, added, ToSet(entries)>>

LEMMA AddStep ==
  ASSUME TypeOK, NEW p \in Probe, Add(p)
  PROVE  TypeOK' /\ SetPool!Add(p)
  <1> DEFINE kept == IF Full(entries) THEN RemoveOldestLocked(entries) ELSE entries
  <1>1. /\ entries \in Seq(added) /\ IsInjective(entries) /\ Comparable(added)
        /\ ToSet(entries) \subseteq added
        /\ Cardinality(ToSet(entries)) = Len(entries) /\ Len(entries) \in Nat
        /\ Len(entries) <= PoolSize /\ PoolSize \in Nat \ {0}
    BY SliceFacts, LenProperties, PoolSliceAssumption DEF TypeOK
  <1>2. PICK sig \in Signal :
            entry' = [entry EXCEPT ![p] = [timestamp |-> sig.timestamp, rif |-> sig.rif,
                                           latency |-> sig.latency, useCount |-> 0]]
    BY DEF Add
  <1>3. entry' \in [Probe -> [timestamp : Nat, rif : Int, latency : Nat, useCount : Nat]]
    <2>1. sig.timestamp \in Nat /\ sig.rif \in Int /\ sig.latency \in Nat
      BY PoolSliceAssumption
    <2> QED BY <1>2, <2>1 DEF TypeOK
  <1>4. /\ kept \in Seq(added) /\ IsInjective(kept) /\ Len(kept) + 1 <= PoolSize
        /\ IF Cardinality(ToSet(entries)) >= PoolSize
           THEN \E old \in Oldest(ToSet(entries), entry) : ToSet(kept) = ToSet(entries) \ {old}
           ELSE ToSet(kept) = ToSet(entries)
    <2>1. CASE Full(entries)
      <3>1. entries # <<>> /\ Len(entries) >= PoolSize
        BY <1>1, <2>1 DEF Full
      <3>2. /\ kept \in Seq(added) /\ Len(kept) = Len(entries) - 1 /\ IsInjective(kept)
            /\ \E old \in Oldest(ToSet(entries), entry) : ToSet(kept) = ToSet(entries) \ {old}
        BY <1>1, <2>1, <3>1, OldestRemoved
      <3> HIDE DEF kept
      <3> QED BY <1>1, <3>1, <3>2
    <2>2. CASE ~Full(entries)
      <3>1. kept = entries /\ ~(Len(entries) >= PoolSize)
        BY <2>2 DEF Full
      <3> HIDE DEF kept
      <3> QED BY <1>1, <3>1
    <2> QED BY <2>1, <2>2
  <1>5. /\ p \notin added /\ added' = added \cup {p} /\ entries' = Append(kept, p)
    BY DEF Add
  <1> HIDE DEF kept
  <1>6. kept \in Seq(added') /\ p \in added' /\ added' \subseteq Probe
    BY <1>4, <1>5, SeqMonotonic DEF TypeOK
  <1>7. p \notin ToSet(kept)
    BY <1>1, <1>4, <1>5
  <1>8. /\ entries' \in Seq(added') /\ Len(entries') = Len(kept) + 1
        /\ ToSet(entries') = ToSet(kept) \cup {p} /\ IsInjective(entries')
    BY <1>4, <1>5, <1>6, <1>7, Appended
  <1>9. TypeOK'
    BY <1>3, <1>4, <1>6, <1>8 DEF TypeOK
  <1>10. ToSet(entries') \in SetPool!AfterAdd(ToSet(entries), entry, p, PoolSize)
    <2>1. SetPool!Cardinality(ToSet(entries)) = Cardinality(ToSet(entries))
      BY DEF SetPool!Cardinality, Cardinality
    <2> QED BY <2>1, <1>4, <1>8 DEF SetPool!AfterAdd, SetPool!Oldest, Oldest
  <1> QED BY <1>2, <1>5, <1>9, <1>10 DEF SetPool!Add

LEMMA MarkUsedStep ==
  ASSUME TypeOK, NEW p \in Probe, MarkUsed(p)
  PROVE  TypeOK' /\ SetPool!MarkUsed(p)
  <1>1. /\ entries \in Seq(added) /\ IsInjective(entries) /\ Len(entries) \in Nat
        /\ Len(entries) <= PoolSize /\ PoolSize \in Nat
    BY SliceFacts, LenProperties, PoolSliceAssumption DEF TypeOK
  <1>2. /\ RemoveEntryLocked(entries, p) \in Seq(added)
        /\ Len(RemoveEntryLocked(entries, p)) <= Len(entries)
        /\ IsInjective(RemoveEntryLocked(entries, p))
        /\ ToSet(RemoveEntryLocked(entries, p)) = ToSet(entries) \ {p}
    BY <1>1, EntryRemoved
  <1>3. Len(RemoveEntryLocked(entries, p)) \in Nat
    BY <1>2, LenProperties
  <1>4. /\ p \in added /\ entry[p].useCount < MaxUses + Overshoot /\ added' = added
        /\ entry' = [entry EXCEPT ![p].useCount = @ + 1]
        /\ entries' = IF entry'[p].useCount >= MaxUses
                      THEN RemoveEntryLocked(entries, p) ELSE entries
    BY DEF MarkUsed
  <1>5. entry' \in [Probe -> [timestamp : Nat, rif : Int, latency : Nat, useCount : Nat]]
    <2>1. entry[p] \in [timestamp : Nat, rif : Int, latency : Nat, useCount : Nat]
      BY DEF TypeOK
    <2>2. [entry[p] EXCEPT !.useCount = @ + 1]
              \in [timestamp : Nat, rif : Int, latency : Nat, useCount : Nat]
      BY <2>1
    <2>3. entry' = [entry EXCEPT ![p] = [entry[p] EXCEPT !.useCount = @ + 1]]
      BY <1>4
    <2> QED BY <2>2, <2>3 DEF TypeOK
  <1>6. /\ entries' \in Seq(added') /\ IsInjective(entries') /\ Len(entries') <= PoolSize
    BY <1>1, <1>2, <1>3, <1>4
  <1>7. ToSet(entries') = IF entry'[p].useCount >= MaxUses
                          THEN ToSet(entries) \ {p} ELSE ToSet(entries)
    BY <1>2, <1>4
  <1> QED BY <1>4, <1>5, <1>6, <1>7 DEF TypeOK, SetPool!MarkUsed

LEMMA RemoveWorstStep ==
  ASSUME TypeOK, NEW t \in Threshold, NEW b \in BOOLEAN, RemoveWorst(t, b)
  PROVE  TypeOK' /\ SetPool!RemoveWorst(t, b)
  <1>1. /\ entries \in Seq(added) /\ IsInjective(entries) /\ Len(entries) \in Nat
        /\ Comparable(added) /\ ((entries = <<>>) <=> (ToSet(entries) = {}))
        /\ Len(entries) <= PoolSize /\ PoolSize \in Nat /\ t \in Int
    BY SliceFacts, LenProperties, PoolSliceAssumption DEF TypeOK
  <1>2. entry' = entry /\ added' = added
    BY DEF RemoveWorst
  <1>3. CASE entries = <<>>
    <2>1. entries' = entries
      BY <1>3 DEF RemoveWorst
    <2>2. ToSet(entries') \in SetPool!AfterRemoveWorst(ToSet(entries), entry, t, b)
      BY <1>1, <1>3, <2>1 DEF SetPool!AfterRemoveWorst
    <2> QED BY <1>2, <2>1, <2>2 DEF TypeOK, SetPool!RemoveWorst
  <1>4. CASE entries # <<>> /\ b
    <2>1. entries' = RemoveOldestLocked(entries)
      BY <1>4 DEF RemoveWorst
    <2>2. /\ entries' \in Seq(added) /\ Len(entries') = Len(entries) - 1 /\ IsInjective(entries')
          /\ \E p \in Oldest(ToSet(entries), entry) : ToSet(entries') = ToSet(entries) \ {p}
      BY <1>1, <1>4, <2>1, OldestRemoved
    <2>3. TypeOK'
      BY <1>1, <1>2, <2>2 DEF TypeOK
    <2>4. ToSet(entries') \in SetPool!AfterRemoveWorst(ToSet(entries), entry, t, b)
      BY <1>1, <1>4, <2>2 DEF SetPool!AfterRemoveWorst, SetPool!Oldest, Oldest
    <2> QED BY <1>2, <2>3, <2>4 DEF SetPool!RemoveWorst
  <1>5. CASE entries # <<>> /\ ~b
    <2> DEFINE w == WorstLoop(entries, t)
    <2>1. entries' = RemoveEntryLocked(entries, w)
      BY <1>5 DEF RemoveWorst
    <2>2. w \in Worst(ToSet(entries), entry, t)
      BY <1>1, <1>5, WorstIsWorst
    <2> HIDE DEF w
    <2>3. /\ entries' \in Seq(added) /\ Len(entries') <= Len(entries) /\ IsInjective(entries')
          /\ ToSet(entries') = ToSet(entries) \ {w}
      BY <1>1, <2>1, EntryRemoved
    <2>4. Len(entries') \in Nat
      BY <2>3, LenProperties
    <2>5. TypeOK'
      BY <1>1, <1>2, <2>3, <2>4 DEF TypeOK
    <2>6. w \in SetPool!Worst(ToSet(entries), entry, t)
      BY <2>2 DEF SetPool!Worst, SetPool!Hot, SetPool!MostRIF, SetPool!MostLatency,
                  Worst, Hot, MostRIF, MostLatency
    <2>7. ToSet(entries') \in SetPool!AfterRemoveWorst(ToSet(entries), entry, t, b)
      BY <1>1, <1>5, <2>3, <2>6 DEF SetPool!AfterRemoveWorst
    <2> QED BY <1>2, <2>5, <2>7 DEF SetPool!RemoveWorst
  <1> QED BY <1>3, <1>4, <1>5

LEMMA InitTypeOK == Init => TypeOK
  <1> SUFFICES ASSUME Init PROVE TypeOK
    OBVIOUS
  <1>1. entries = <<>> /\ entries \in Seq(added) /\ Len(entries) = 0 /\ DOMAIN entries = {}
    <2>1. entries = <<>>
      BY DEF Init
    <2> QED BY <2>1, EmptySeq
  <1>2. IsInjective(entries)
    BY <1>1 DEF IsInjective
  <1>3. Len(entries) <= PoolSize
    BY <1>1, PoolSliceAssumption
  <1> QED BY <1>1, <1>2, <1>3 DEF Init, TypeOK

LEMMA NextStep == TypeOK /\ [Next]_vars => TypeOK' /\ [SetPool!Next]_Mapped
  <1> SUFFICES ASSUME TypeOK, [Next]_vars PROVE TypeOK' /\ [SetPool!Next]_Mapped
    OBVIOUS
  <1>1. ASSUME NEW p \in Probe, Add(p) PROVE TypeOK' /\ [SetPool!Next]_Mapped
    BY <1>1, AddStep DEF SetPool!Next
  <1>2. ASSUME NEW p \in Probe, MarkUsed(p) PROVE TypeOK' /\ [SetPool!Next]_Mapped
    BY <1>2, MarkUsedStep DEF SetPool!Next
  <1>3. ASSUME NEW t \in Threshold, NEW b \in BOOLEAN, RemoveWorst(t, b)
        PROVE  TypeOK' /\ [SetPool!Next]_Mapped
    BY <1>3, RemoveWorstStep DEF SetPool!Next
  <1>4. CASE UNCHANGED vars
    BY <1>4 DEF vars, TypeOK, Mapped
  <1> QED BY <1>1, <1>2, <1>3, <1>4 DEF Next

-----------------------------------------------------------------------------
\* The slice of ProbePool holds distinct entries, at most PoolSize of them, whatever
\* is added, used and removed and in which order.
THEOREM TypeCorrect == Spec => []TypeOK
  BY InitTypeOK, NextStep, PTL DEF Spec

\* Each call of ProbePool changes the set of the slice's entries as Pool lets it.
THEOREM SliceImplementsPool == Spec => RefinesPool
  <1>1. Init => SetPool!Init
    BY DEF Init, SetPool!Init, ToSet
  <1>2. Spec => SetPool!Init /\ [][SetPool!Next]_Mapped
    BY <1>1, InitTypeOK, NextStep, PTL DEF Spec
  <1> QED BY <1>2 DEF RefinesPool, SetPool!Spec, Mapped

\* The scan of RemoveWorst always ends on an entry the set-level rule calls worst.
THEOREM WorstLoopAlwaysCorrect == Spec => []WorstLoopCorrect
  <1>1. TypeOK => WorstLoopCorrect
    BY SliceFacts, WorstIsWorst, PoolSliceAssumption DEF WorstLoopCorrect
  <1> QED BY <1>1, TypeCorrect, PTL

\* The loops of selectPrequal always end on an entry the HCL rule prefers.
THEOREM ChoiceLoopAlwaysCorrect == Spec => []ChoiceLoopCorrect
  <1>1. TypeOK => ChoiceLoopCorrect
    BY SliceFacts, ChosenIsPreferred, PoolSliceAssumption DEF ChoiceLoopCorrect
  <1> QED BY <1>1, TypeCorrect, PTL

\* Sorting the RIFs of the slice, truncating and clamping the index, always gives a
\* quantile of the RIFs, and the one the set-level rules use.
THEOREM QuantileLoopAlwaysCorrect == Spec => []QuantileLoopCorrect
  <1>1. TypeOK => QuantileLoopCorrect
    <2> SUFFICES ASSUME TypeOK, entries # <<>>, NEW num \in 0..20
                 PROVE  /\ IsQuantile(RifQuantileLoop(entries, num, 10), ToSet(entries), num, 10)
                        /\ RifQuantileLoop(entries, num, 10)
                               = RifQuantile(ToSet(entries), entry, num, 10)
      BY DEF QuantileLoopCorrect
    <2>1. num \in Nat /\ 10 \in Nat \ {0}
      OBVIOUS
    <2>2. RifQuantileLoop(entries, num, 10) = RifQuantile(ToSet(entries), entry, num, 10)
      BY <2>1, SliceFacts, QuantileIsRanked
    <2>3. ToSet(entries) # {} /\ HasRIFs(ToSet(entries), entry)
      BY SliceFacts DEF HasRIFs, Comparable
    <2>4. IsQuantile(RifQuantile(ToSet(entries), entry, num, 10), ToSet(entries), num, 10)
      <3> DEFINE S == ToSet(entries)
                 v == RifQuantile(S, entry, num, 10)
      <3>1. /\ Cardinality(Below(S, entry, v)) * 10 <= (Cardinality(S) - 1) * num
            /\ \/ Cardinality(AtMost(S, entry, v)) * 10 > (Cardinality(S) - 1) * num
               \/ AtMost(S, entry, v) = S
        <4> HIDE DEF S
        <4>1. S # {} /\ HasRIFs(S, entry)
          BY <2>3 DEF S
        <4> QED BY <2>1, <4>1, QuantileShare
      <3> HIDE DEF S, v
      <3>2. IsQuantile(v, S, num, 10)
        BY <3>1 DEF IsQuantile, Below, AtMost
      <3> QED BY <3>2 DEF S, v
    <2> QED BY <2>2, <2>4
  <1> QED BY <1>1, TypeCorrect, PTL
=============================================================================
