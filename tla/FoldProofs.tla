----------------------------- MODULE FoldProofs -----------------------------
(***************************************************************************)
(* Induction up to a number, and what a fold over positions 1..n is.  The  *)
(* folds of the community modules are recursive functions on sets, which   *)
(* are a CHOOSE to the provers: what they choose has to exist first.       *)
(***************************************************************************)
EXTENDS Integers, FiniteSetsExt, NaturalsInduction, WellFoundedInduction, TLAPS

\* Induction with a set in place of a predicate.
LEMMA UpTo ==
  ASSUME NEW n \in Nat, NEW T, 0 \in T,
         \A k \in 0..(n - 1) : k \in T => k + 1 \in T
  PROVE  \A k \in 0..n : k \in T
  <1> DEFINE Bad == {k \in Nat : k <= n /\ k \notin T}
  <1>1. SUFFICES ASSUME Bad # {} PROVE FALSE
    OBVIOUS
  <1>2. PICK b \in Bad : \A k \in Bad : ~(<<k, b>> \in OpToRel(<, Nat))
    <2>1. Bad \subseteq Nat
      OBVIOUS
    <2> HIDE DEF Bad
    <2> QED BY <1>1, <2>1, NatLessThanWellFounded, WFMin
  <1>3. b \in Nat /\ b <= n /\ b \notin T /\ b # 0
    OBVIOUS
  <1>4. b - 1 \in 0..(n - 1) /\ <<b - 1, b>> \in OpToRel(<, Nat)
    BY <1>3 DEF OpToRel
  <1>5. b - 1 \in T
    <2>1. b - 1 \notin Bad
      <3> HIDE DEF Bad
      <3> QED BY <1>2, <1>4
    <2> QED BY <1>3, <2>1
  <1>6. (b - 1) + 1 = b
    BY <1>3
  <1> QED BY <1>3, <1>4, <1>5, <1>6

\* Max of a non-empty part of 1..n.
LEMMA MaxOf ==
  ASSUME NEW n \in Nat, NEW u \in SUBSET (1..n), u # {}
  PROVE  /\ Max(u) \in u
         /\ \A k \in u : k <= Max(u)
  <1> DEFINE Above == {k \in Nat : \A j \in u : j <= k}
  <1>1. n \in Above
    OBVIOUS
  <1>2. PICK m \in Above : \A k \in Above : ~(<<k, m>> \in OpToRel(<, Nat))
    <2>1. Above \subseteq Nat
      OBVIOUS
    <2> HIDE DEF Above
    <2> QED BY <1>1, <2>1, NatLessThanWellFounded, WFMin
  <1>3. m \in u
    <2>1. SUFFICES ASSUME m \notin u PROVE FALSE
      OBVIOUS
    <2>2. \A j \in u : j \in Nat /\ j > 0 /\ j <= m /\ j # m
      BY <2>1
    <2>3. m \in Nat /\ m > 0
      <3>1. PICK j \in u : TRUE
        OBVIOUS
      <3> QED BY <2>2, <3>1
    <2>4. m - 1 \in Above /\ <<m - 1, m>> \in OpToRel(<, Nat)
      BY <2>2, <2>3 DEF OpToRel
    <2> QED BY <2>4, <1>2
  <1>4. \A j \in u : m >= j
    OBVIOUS
  <1>5. Max(u) \in u /\ \A j \in u : Max(u) >= j
    BY <1>3, <1>4 DEF Max
  <1> QED BY <1>5

\* What a fold is computed with: a value for each set of positions, from the value
\* for the set without its last position.
Folds(g, n, base, F) ==
    g = [u \in SUBSET (1..n) |->
            IF u = {} THEN base ELSE F[<<g[u \ {Max(u)}], Max(u)>>]]

\* There is one for every function F on values and positions.
LEMMA FoldExists ==
  ASSUME NEW n \in Nat, NEW A, NEW base \in A, NEW F \in [A \X (1..n) -> A]
  PROVE  \E g \in [SUBSET (1..n) -> A] : Folds(g, n, base, F)
  <1> DEFINE T == {k \in 0..n : \E g \in [SUBSET (1..k) -> A] : Folds(g, k, base, F)}
  <1>1. 0 \in T
    <2> DEFINE g == [u \in SUBSET (1..0) |-> base]
    <2>1. 1..0 = {} /\ SUBSET (1..0) = {{}}
      OBVIOUS
    <2>2. g \in [SUBSET (1..0) -> A] /\ Folds(g, 0, base, F)
      BY <2>1 DEF Folds
    <2> QED BY <2>2
  <1>2. ASSUME NEW k \in 0..(n - 1), k \in T PROVE k + 1 \in T
    <2>1. PICK g \in [SUBSET (1..k) -> A] : Folds(g, k, base, F)
      BY <1>2
    <2>2. k \in Nat /\ k + 1 \in 1..n /\ k + 1 \in 0..n /\ 1..k \subseteq 1..n
      OBVIOUS
    <2> DEFINE h == [u \in SUBSET (1..(k + 1)) |->
                        IF k + 1 \in u THEN F[<<g[u \ {k + 1}], k + 1>>] ELSE g[u]]
    <2>3. \A u \in SUBSET (1..(k + 1)) :
              u \ {k + 1} \in SUBSET (1..k) /\ (k + 1 \notin u => u \in SUBSET (1..k))
      BY <2>2
    <2>4. h \in [SUBSET (1..(k + 1)) -> A]
      BY <2>2, <2>3
    <2>5. ASSUME NEW u \in SUBSET (1..(k + 1)), k + 1 \in u
          PROVE  Max(u) = k + 1 /\ h[u \ {Max(u)}] = g[u \ {k + 1}]
      <3>1. Max(u) \in u /\ k + 1 <= Max(u) /\ Max(u) \in 1..(k + 1)
        <4>1. k + 1 \in Nat /\ u # {}
          BY <2>2, <2>5
        <4> HIDE DEF h
        <4>2. Max(u) \in u /\ \A j \in u : j <= Max(u)
          BY <4>1, MaxOf
        <4> QED BY <2>5, <4>2
      <3>2. Max(u) = k + 1
        BY <2>2, <3>1
      <3>3. u \ {k + 1} \in SUBSET (1..(k + 1)) /\ k + 1 \notin u \ {k + 1}
        OBVIOUS
      <3> QED BY <3>2, <3>3
    <2>6. ASSUME NEW u \in SUBSET (1..(k + 1)), k + 1 \notin u, u # {}
          PROVE  h[u] = F[<<h[u \ {Max(u)}], Max(u)>>]
      <3>1. u \in SUBSET (1..k) /\ u \ {Max(u)} \in SUBSET (1..k)
            /\ u \ {Max(u)} \in SUBSET (1..(k + 1)) /\ k + 1 \notin u \ {Max(u)}
        BY <2>3, <2>6
      <3>2. h[u] = g[u] /\ h[u \ {Max(u)}] = g[u \ {Max(u)}]
        BY <2>6, <3>1
      <3>3. g[u] = F[<<g[u \ {Max(u)}], Max(u)>>]
        BY <2>1, <2>6, <3>1 DEF Folds
      <3> QED BY <3>2, <3>3
    <2>7. h[{}] = base
      <3>1. {} \in SUBSET (1..k) /\ {} \in SUBSET (1..(k + 1)) /\ k + 1 \notin {}
        OBVIOUS
      <3>2. g[{}] = base
        BY <2>1, <3>1 DEF Folds
      <3> QED BY <3>1, <3>2
    <2>8. \A u \in SUBSET (1..(k + 1)) :
              h[u] = IF u = {} THEN base ELSE F[<<h[u \ {Max(u)}], Max(u)>>]
      <3> SUFFICES ASSUME NEW u \in SUBSET (1..(k + 1))
                   PROVE  h[u] = IF u = {} THEN base ELSE F[<<h[u \ {Max(u)}], Max(u)>>]
        OBVIOUS
      <3>1. CASE u = {}
        BY <2>7, <3>1
      <3>2. CASE u # {} /\ k + 1 \in u
        <4>1. h[u] = F[<<g[u \ {k + 1}], k + 1>>]
          BY <3>2
        <4> HIDE DEF h
        <4> QED BY <2>5, <3>2, <4>1
      <3>3. CASE u # {} /\ k + 1 \notin u
        <4> HIDE DEF h
        <4> QED BY <2>6, <3>3
      <3> QED BY <3>1, <3>2, <3>3
    <2>9. Folds(h, k + 1, base, F)
      <3> HIDE DEF h
      <3> QED BY <2>4, <2>8 DEF Folds
    <2> QED BY <2>2, <2>4, <2>9
  <1> HIDE DEF T
  <1>3. \A k \in 0..n : k \in T
    BY <1>1, <1>2, UpTo
  <1>4. n \in T
    BY <1>3
  <1> QED BY <1>4 DEF T

LEMMA PrefixOfPositions ==
  ASSUME NEW n \in Nat, NEW k \in 1..n
  PROVE  /\ 1..k \in SUBSET (1..n) /\ 1..k # {}
         /\ Max(1..k) = k
         /\ (1..k) \ {Max(1..k)} = 1..(k - 1)
  <1>1. 1..k \in SUBSET (1..n) /\ 1..k # {} /\ k \in 1..k
    OBVIOUS
  <1>2. Max(1..k) \in 1..k /\ k <= Max(1..k)
    BY <1>1, MaxOf
  <1>3. Max(1..k) = k
    BY <1>2
  <1>4. (1..k) \ {k} = 1..(k - 1)
    OBVIOUS
  <1> QED BY <1>1, <1>3, <1>4

-----------------------------------------------------------------------------
\* Loops that keep one candidate and replace it by each element that is better:
\* R has <<a, b>> where b replaces a.

Keeps(g, E, base, seq, R) ==
    /\ g[{}] = base
    /\ \A u \in SUBSET DOMAIN seq : u # {} /\ g[u \ {Max(u)}] \in E =>
          g[u] = IF <<g[u \ {Max(u)}], seq[Max(u)]>> \in R THEN seq[Max(u)]
                 ELSE g[u \ {Max(u)}]

\* The same for every set of positions, with nothing outside E.
KeepsAlways(g, E, base, seq, R) ==
    /\ g \in [SUBSET DOMAIN seq -> E]
    /\ Keeps(g, E, base, seq, R)
    /\ \A u \in SUBSET DOMAIN seq : u # {} => g[u \ {Max(u)}] \in E /\ seq[Max(u)] \in E

LEMMA KeepExists ==
  ASSUME NEW n \in Nat, NEW E, NEW base \in E, NEW seq \in [1..n -> E], NEW R
  PROVE  \E g : KeepsAlways(g, E, base, seq, R)
  <1> DEFINE F == [ak \in E \X (1..n) |->
                      IF <<ak[1], seq[ak[2]]>> \in R THEN seq[ak[2]] ELSE ak[1]]
  <1>1. F \in [E \X (1..n) -> E] /\ DOMAIN seq = 1..n
    OBVIOUS
  <1>2. PICK g \in [SUBSET (1..n) -> E] : Folds(g, n, base, F)
    <2> HIDE DEF F
    <2> QED BY <1>1, FoldExists
  <1>3. ASSUME NEW u \in SUBSET (1..n), u # {}
        PROVE  /\ Max(u) \in 1..n /\ u \ {Max(u)} \in SUBSET (1..n)
               /\ F[<<g[u \ {Max(u)}], Max(u)>>]
                    = IF <<g[u \ {Max(u)}], seq[Max(u)]>> \in R THEN seq[Max(u)]
                      ELSE g[u \ {Max(u)}]
    <2>1. Max(u) \in 1..n /\ u \ {Max(u)} \in SUBSET (1..n)
      BY <1>3, MaxOf
    <2>2. <<g[u \ {Max(u)}], Max(u)>> \in E \X (1..n)
      BY <2>1
    <2> QED BY <2>1, <2>2
  <1> HIDE DEF F
  <1>4. Keeps(g, E, base, seq, R)
    BY <1>1, <1>2, <1>3 DEF Folds, Keeps
  <1>5. \A u \in SUBSET DOMAIN seq : u # {} => g[u \ {Max(u)}] \in E /\ seq[Max(u)] \in E
    BY <1>1, <1>3
  <1> QED BY <1>1, <1>2, <1>4, <1>5 DEF KeepsAlways

\* No element is better than itself, and what is better than a better one is better.
StrictOn(R, E) ==
    /\ \A a \in E : <<a, a>> \notin R
    /\ \A a, b, c \in E : <<a, b>> \in R /\ <<b, c>> \in R => <<a, c>> \in R

\* What such a loop ends with, if R is a strict order: an element that none of the
\* others is better than.
LEMMA KeepsBest ==
  ASSUME NEW n \in Nat, NEW E, NEW base \in E, NEW seq \in [1..n -> E], NEW R, StrictOn(R, E),
         NEW iter, Keeps(iter, E, base, seq, R)
  PROVE  /\ iter[DOMAIN seq] \in {base} \cup {seq[k] : k \in 1..n}
         /\ <<iter[DOMAIN seq], base>> \notin R
         /\ \A k \in 1..n : <<iter[DOMAIN seq], seq[k]>> \notin R
  <1> DEFINE Best(k) == /\ iter[1..k] \in {base} \cup {seq[j] : j \in 1..k}
                        /\ <<iter[1..k], base>> \notin R
                        /\ \A j \in 1..k : <<iter[1..k], seq[j]>> \notin R
             T == {k \in 0..n : Best(k)}
  <1>1. 0 \in T
    <2>1. 1..0 = {} /\ 0 \in 0..n
      OBVIOUS
    <2>2. iter[{}] = base
      BY DEF Keeps
    <2> QED BY <2>1, <2>2 DEF StrictOn
  <1>2. ASSUME NEW k \in 0..(n - 1), k \in T PROVE k + 1 \in T
    <2>1. /\ k + 1 \in 1..n /\ k + 1 \in 0..n /\ k \in Nat /\ (k + 1) - 1 = k
          /\ 1..(k + 1) = (1..k) \cup {k + 1}
      OBVIOUS
    <2>2. Best(k)
      BY <1>2
    <2>3. iter[1..k] \in E /\ seq[k + 1] \in E /\ \A j \in 1..k : seq[j] \in E
      BY <2>1, <2>2
    <2>4. iter[1..(k + 1)] = IF <<iter[1..k], seq[k + 1]>> \in R THEN seq[k + 1] ELSE iter[1..k]
      <3>1. /\ 1..(k + 1) \in SUBSET (1..n) /\ 1..(k + 1) # {} /\ Max(1..(k + 1)) = k + 1
            /\ (1..(k + 1)) \ {Max(1..(k + 1))} = 1..k
        BY <2>1, PrefixOfPositions
      <3>2. DOMAIN seq = 1..n
        OBVIOUS
      <3> QED BY <2>3, <3>1, <3>2 DEF Keeps
    <2>5. PICK c \in E : c = iter[1..k]
      BY <2>3
    <2>6. PICK p \in E : p = seq[k + 1]
      BY <2>3
    <2>7. /\ c \in {base} \cup {seq[j] : j \in 1..k} /\ <<c, base>> \notin R
          /\ \A j \in 1..k : <<c, seq[j]>> \notin R
      BY <2>2, <2>5
    <2>8. CASE <<c, p>> \in R
      <3>1. iter[1..(k + 1)] = p /\ <<p, p>> \notin R
        BY <2>4, <2>5, <2>6, <2>8 DEF StrictOn
      <3>2. \A q \in E : <<c, q>> \notin R => <<p, q>> \notin R
        BY <2>8 DEF StrictOn
      <3>3. <<p, base>> \notin R /\ \A j \in 1..k : <<p, seq[j]>> \notin R
        BY <2>3, <2>7, <3>2
      <3>4. Best(k + 1)
        BY <2>1, <2>6, <3>1, <3>3
      <3> QED BY <2>1, <3>4
    <2>9. CASE <<c, p>> \notin R
      <3>1. iter[1..(k + 1)] = c
        BY <2>4, <2>5, <2>6, <2>9
      <3>2. Best(k + 1)
        BY <2>1, <2>6, <2>7, <2>9, <3>1
      <3> QED BY <2>1, <3>2
    <2> QED BY <2>8, <2>9
  <1> HIDE DEF T
  <1>3. \A k \in 0..n : k \in T
    BY <1>1, <1>2, UpTo
  <1>4. n \in T /\ DOMAIN seq = 1..n
    BY <1>3
  <1> QED BY <1>4 DEF T
=============================================================================
