------------------------- MODULE OcrSchedulerProofs -------------------------
(* Theorems about OcrScheduler: whatever the interleaving of submissions,    *)
(* synchronous callers, timeouts and workers, and for any number of each, a  *)
(* job is at one place, a page is counted once, no wake-up is lost, and the  *)
(* two lanes share slots and pages as the scheduler promises.                *)
EXTENDS OcrScheduler, SequencesExt, FiniteSetTheorems, SequenceTheorems, WellFoundedInduction, TLAPS

-----------------------------------------------------------------------------
(* Numbers *)

\* A set of numbers that is not empty has a least one.
LEMMA LeastExists ==
  ASSUME NEW I \in SUBSET Nat, I # {}
  PROVE  \E m \in I : \A n \in I : m <= n
<1> DEFINE Below == {s \in Nat \X Nat : s[1] < s[2]}
<1>1. IsWellFoundedOn(Below, Nat)
  BY NatLessThanWellFounded DEF OpToRel
<1>2. \E m \in I : \A n \in I : <<n, m>> \notin Below
  <2> HIDE DEF Below
  <2> QED
    BY <1>1, WFMin
<1>3. PICK m \in I : \A n \in I : <<n, m>> \notin Below
  BY <1>2
<1>4. ASSUME NEW n \in I, n < m
      PROVE  <<n, m>> \in Below
  <2>1. n \in Nat /\ m \in Nat
    OBVIOUS
  <2>2. <<n, m>> \in Nat \X Nat /\ <<n, m>>[1] = n /\ <<n, m>>[2] = m
    BY <2>1
  <2> QED
    BY <1>4, <2>2
<1>5. \A n \in I : ~(n < m)
  <2> HIDE DEF Below
  <2> QED
    BY <1>3, <1>4
<1>6. \A n \in I : n \in Nat /\ m \in Nat
  OBVIOUS
<1> QED
  BY <1>5, <1>6

LEMMA GreatestExists ==
  ASSUME NEW k \in Nat, NEW I \in SUBSET (0..k), I # {}
  PROVE  \E m \in I : \A n \in I : n <= m
<1> DEFINE J == {k - i : i \in I}
<1>0. J \in SUBSET Nat /\ J # {}
  <2>1. \A i \in I : i \in 0..k
    OBVIOUS
  <2>2. \A i \in I : k - i \in Nat
    BY <2>1
  <2> QED
    BY <2>2
<1>1. PICK m \in J : \A n \in J : m <= n
  <2> HIDE DEF J
  <2> QED
    BY <1>0, LeastExists
<1>2. k - m \in I /\ \A n \in I : m <= k - n
  BY <1>1
<1> QED
  BY <1>2

\* A set of numbers up to k that holds 0 and, with a number, the next one, holds them all.
LEMMA UpTo ==
  ASSUME NEW k \in Nat, NEW I, 0 \in I, \A n \in 0..k : n < k /\ n \in I => n + 1 \in I
  PROVE  \A n \in 0..k : n \in I
<1> DEFINE Out == {n \in 0..k : n \notin I}
<1> SUFFICES ASSUME Out # {} PROVE FALSE
  OBVIOUS
<1>0. Out \in SUBSET Nat
  OBVIOUS
<1>1. PICK m \in Out : \A n \in Out : m <= n
  <2> HIDE DEF Out
  <2> QED
    BY <1>0, LeastExists
<1>2. m \in 0..k /\ m # 0 /\ m \notin I
  OBVIOUS
<1>3. m - 1 \in 0..k /\ m - 1 < k /\ m - 1 \notin Out
  BY <1>1, <1>2
<1> QED
  BY <1>2, <1>3

LEMMA MinIs ==
  ASSUME NEW I \in SUBSET Nat, I # {}
  PROVE  Min(I) \in I /\ \A n \in I : Min(I) <= n
BY LeastExists DEF Min

LEMMA MaxIs ==
  ASSUME NEW k \in Nat, NEW I \in SUBSET (0..k), I # {}
  PROVE  Max(I) \in I /\ \A n \in I : n <= Max(I)
<1>1. PICK m \in I : \A n \in I : n <= m
  BY GreatestExists
<1>2. \A n \in I : m >= n
  BY <1>1
<1>3. Max(I) \in I /\ \A n \in I : Max(I) >= n
  BY <1>2 DEF Max
<1>4. \A n \in I : n \in Nat
  OBVIOUS
<1> QED
  BY <1>3, <1>4

\* Division with remainder, and that there is only one.
LEMMA Divided ==
  ASSUME NEW a \in Nat, NEW n \in Nat \ {0}
  PROVE  a \div n \in Nat /\ a % n \in 0..(n - 1) /\ a = n * (a \div n) + (a % n)
<1>1. a = n * (a \div n) + (a % n)
  OBVIOUS
<1>2. a \div n \in Nat /\ a % n \in 0..(n - 1)
  OBVIOUS
<1> QED
  BY <1>1, <1>2

LEMMA Remainder ==
  ASSUME NEW q \in Nat, NEW n \in Nat \ {0}, NEW x \in 0..(n - 1)
  PROVE  (n * q + x) % n = x
<1> DEFINE d == (n * q + x) \div n
           r == (n * q + x) % n
<1>1. n * d + r = n * q + x /\ d \in Nat /\ r \in 0..(n - 1)
  <2>1. n * q + x \in Nat
    OBVIOUS
  <2> QED
    BY <2>1, Divided
<1> HIDE DEF d, r
<1>2. CASE d < q
  <2>1. n * (d + 1) <= n * q
    BY <1>1, <1>2
  <2> QED
    BY <1>1, <2>1
<1>3. CASE d > q
  <2>1. n * (q + 1) <= n * d
    BY <1>1, <1>3
  <2> QED
    BY <1>1, <2>1
<1>4. d = q => r = x
  BY <1>1
<1> QED
  BY <1>1, <1>2, <1>3, <1>4 DEF r

\* Counting on from anywhere, a round of n reaches every place.
LEMMA RoundReaches ==
  ASSUME NEW a \in Nat, NEW n \in Nat \ {0}, NEW x \in 0..(n - 1)
  PROVE  \E o \in 0..(n - 1) : (a + o) % n = x
<1> DEFINE q == a \div n
           r == a % n
<1>1. q \in Nat /\ r \in 0..(n - 1) /\ a = n * q + r
  <2>1. a \div n \in Nat /\ a % n \in 0..(n - 1) /\ a = n * (a \div n) + (a % n)
    BY Divided
  <2> QED
    BY <2>1
<1> HIDE DEF q, r
<1>2. CASE x >= r
  <2>1. x - r \in 0..(n - 1) /\ a + (x - r) = n * q + x
    BY <1>1, <1>2
  <2>2. (n * q + x) % n = x
    BY <1>1, Remainder
  <2> QED
    BY <2>1, <2>2
<1>3. CASE ~(x >= r)
  <2>1. x - r + n \in 0..(n - 1) /\ a + (x - r + n) = n * (q + 1) + x /\ q + 1 \in Nat
    BY <1>1, <1>3
  <2>2. (n * (q + 1) + x) % n = x
    BY <2>1, Remainder
  <2> QED
    BY <2>1, <2>2
<1> QED
  BY <1>2, <1>3

-----------------------------------------------------------------------------
(* A loop of a known number of turns *)

\* A loop has a state after each of its turns.
LEMMA LoopRuns ==
  ASSUME NEW k \in Nat, NEW S, NEW start \in S, NEW turn \in [S -> S]
  PROVE  \E f \in [0..k -> S] : \A n \in 0..k : f[n] = IF n = 0 THEN start ELSE turn[f[n - 1]]
<1> DEFINE Runs(m, g) ==
             g \in [0..m -> S] /\ \A n \in 0..m : g[n] = IF n = 0 THEN start ELSE turn[g[n - 1]]
           I == {m \in 0..k : \E g : Runs(m, g)}
<1>1. 0 \in I
  <2>1. Runs(0, [n \in 0..0 |-> start])
    OBVIOUS
  <2> HIDE DEF Runs
  <2> QED
    BY <2>1
<1>2. ASSUME NEW m \in 0..k, m < k, m \in I
      PROVE  m + 1 \in I
  <2>1. PICK h : Runs(m, h)
    BY <1>2
  <2> DEFINE g == [n \in 0..(m + 1) |-> IF n = m + 1 THEN turn[h[m]] ELSE h[n]]
  <2>2. \A n \in 0..(m + 1) : g[n] = IF n = 0 THEN start ELSE turn[g[n - 1]]
    <3> SUFFICES ASSUME NEW n \in 0..(m + 1)
                 PROVE  g[n] = IF n = 0 THEN start ELSE turn[g[n - 1]]
      OBVIOUS
    <3>1. CASE n = m + 1
      BY <3>1
    <3>2. CASE n # m + 1
      <4>1. n \in 0..m /\ n - 1 # m + 1
        BY <3>2
      <4>2. h[n] = IF n = 0 THEN start ELSE turn[h[n - 1]]
        BY <2>1, <4>1
      <4>3. g[n] = h[n] /\ (n # 0 => g[n - 1] = h[n - 1])
        BY <4>1
      <4> QED
        BY <4>2, <4>3
    <3> QED
      BY <3>1, <3>2
  <2>3. Runs(m + 1, g)
    <3>1. h[m] \in S /\ \A n \in 0..m : h[n] \in S
      BY <2>1
    <3>2. \A n \in 0..(m + 1) : n # m + 1 => n \in 0..m
      OBVIOUS
    <3>3. g \in [0..(m + 1) -> S]
      BY <3>1, <3>2
    <3> HIDE DEF g
    <3> QED
      BY <2>2, <3>3
  <2>4. m + 1 \in 0..k
    BY <1>2
  <2> HIDE DEF Runs, g
  <2> QED
    BY <2>3, <2>4
<1>3. k \in I
  <2> HIDE DEF I
  <2> QED
    BY <1>1, <1>2, UpTo
<1> QED
  BY <1>3

\* What every turn keeps holds after each of them.
LEMMA LoopKeeps ==
  ASSUME NEW k \in Nat, NEW f, NEW turn, \A n \in 1..k : f[n] = turn[f[n - 1]],
         NEW I, f[0] \in I, \A s \in I : turn[s] \in I
  PROVE  \A n \in 0..k : f[n] \in I
<1> DEFINE J == {n \in 0..k : f[n] \in I}
<1>1. 0 \in J
  OBVIOUS
<1>2. ASSUME NEW n \in 0..k, n < k, n \in J
      PROVE  n + 1 \in J
  <2>1. n + 1 \in 1..k /\ (n + 1) - 1 = n
    BY <1>2
  <2>2. f[n + 1] = turn[f[n]]
    BY <2>1
  <2> QED
    BY <1>2, <2>1, <2>2
<1>3. \A n \in 0..k : n \in J
  <2> HIDE DEF J
  <2> QED
    BY <1>1, <1>2, UpTo
<1> QED
  BY <1>3

-----------------------------------------------------------------------------
(* How often and where a value occurs *)

Places(s, e) == {i \in DOMAIN s : s[i] = e}

LEMMA PlacesFinite ==
  ASSUME NEW S, NEW s \in Seq(S), NEW e
  PROVE  /\ Places(s, e) \in SUBSET (1..Len(s)) /\ IsFiniteSet(Places(s, e))
         /\ Cardinality(Places(s, e)) \in Nat
         /\ Cardinality(Places(s, e)) = 0 <=> e \notin ToSet(s)
<1>1. Places(s, e) \in SUBSET (1..Len(s)) /\ Len(s) \in Nat
  BY DEF Places
<1>2. IsFiniteSet(Places(s, e))
  <2>1. IsFiniteSet(1..Len(s))
    BY <1>1, FS_Interval
  <2> QED
    BY <1>1, <2>1, FS_Subset
<1>3. Places(s, e) = {} <=> e \notin ToSet(s)
  BY DEF Places, ToSet
<1> QED
  BY <1>1, <1>2, <1>3, FS_EmptySet, FS_CardinalityType

\* Moving every place by a one-to-one map keeps their number.
LEMMA Moved ==
  ASSUME NEW A, NEW B, IsFiniteSet(A), NEW f \in [A -> B],
         \A x, y \in A : f[x] = f[y] => x = y, \A y \in B : \E x \in A : f[x] = y
  PROVE  IsFiniteSet(B) /\ Cardinality(B) = Cardinality(A)
<1>1. f \in Bijection(A, B)
  BY DEF Bijection, Injection, Surjection, IsInjective
<1> QED
  BY <1>1, FS_Bijection DEF ExistsBijection

LEMMA AppendPlaces ==
  ASSUME NEW S, NEW s \in Seq(S), NEW x \in S, NEW e
  PROVE  /\ Cardinality(Places(Append(s, x), e)) =
              IF e = x THEN Cardinality(Places(s, e)) + 1 ELSE Cardinality(Places(s, e))
         /\ ToSet(Append(s, x)) = ToSet(s) \cup {x}
<1>1. /\ Append(s, x) \in Seq(S) /\ Len(Append(s, x)) = Len(s) + 1
      /\ \A i \in 1..Len(s) : Append(s, x)[i] = s[i]
      /\ Append(s, x)[Len(s) + 1] = x
  BY AppendProperties
<1>2. Len(s) \in Nat /\ DOMAIN s = 1..Len(s) /\ DOMAIN Append(s, x) = 1..(Len(s) + 1)
  BY <1>1, LenProperties
<1>3. Places(Append(s, x), e) = IF e = x THEN Places(s, e) \cup {Len(s) + 1} ELSE Places(s, e)
  BY <1>1, <1>2 DEF Places
<1>4. Len(s) + 1 \notin Places(s, e) /\ IsFiniteSet(Places(s, e))
  BY <1>2, PlacesFinite
<1>5. ToSet(Append(s, x)) = ToSet(s) \cup {x}
  BY <1>1, <1>2 DEF ToSet
<1> QED
  BY <1>3, <1>4, <1>5, FS_AddElement

LEMMA PrependPlaces ==
  ASSUME NEW S, NEW s \in Seq(S), NEW x \in S, NEW e
  PROVE  /\ <<x>> \o s \in Seq(S) /\ Len(<<x>> \o s) = Len(s) + 1
         /\ \A i \in 1..(Len(s) + 1) : (<<x>> \o s)[i] = IF i = 1 THEN x ELSE s[i - 1]
         /\ Cardinality(Places(<<x>> \o s, e)) =
              IF e = x THEN Cardinality(Places(s, e)) + 1 ELSE Cardinality(Places(s, e))
         /\ ToSet(<<x>> \o s) = ToSet(s) \cup {x}
<1> DEFINE t == <<x>> \o s
<1>0. <<x>> \in Seq(S) /\ Len(<<x>>) = 1 /\ <<x>>[1] = x /\ Len(s) \in Nat
  BY LenProperties
<1>1. t \in Seq(S) /\ Len(t) = Len(s) + 1
  BY <1>0, ConcatProperties
<1>2. \A i \in 1..(Len(s) + 1) : t[i] = IF i = 1 THEN x ELSE s[i - 1]
  BY <1>0, ConcatProperties
<1>3. DOMAIN s = 1..Len(s) /\ DOMAIN t = 1..(Len(s) + 1)
  BY <1>1, LenProperties
<1> HIDE DEF t
<1> DEFINE A == Places(s, e)
           B == {i \in 2..(Len(s) + 1) : s[i - 1] = e}
           f == [i \in A |-> i + 1]
<1>4. IsFiniteSet(B) /\ Cardinality(B) = Cardinality(A)
  <2>1. f \in [A -> B]
    BY <1>0, <1>3 DEF Places
  <2>2. A \in SUBSET (1..Len(s)) /\ IsFiniteSet(A)
    BY PlacesFinite
  <2>3. \A i, k \in A : f[i] = f[k] => i = k
    BY <1>0, <2>2
  <2>4. \A k \in B : \E i \in A : f[i] = k
    <3> SUFFICES ASSUME NEW k \in B PROVE k - 1 \in A /\ f[k - 1] = k
      OBVIOUS
    <3> QED
      BY <1>0, <1>3 DEF Places
  <2> HIDE DEF A, B, f
  <2> QED
    BY <2>1, <2>2, <2>3, <2>4, Moved
<1>5. Places(t, e) = IF e = x THEN B \cup {1} ELSE B
  BY <1>0, <1>2, <1>3 DEF Places
<1>6. 1 \notin B
  OBVIOUS
<1>7. Cardinality(Places(t, e)) =
        IF e = x THEN Cardinality(Places(s, e)) + 1 ELSE Cardinality(Places(s, e))
  <2> HIDE DEF B
  <2> QED
    BY <1>4, <1>5, <1>6, FS_AddElement
<1>8. ToSet(t) = ToSet(s) \cup {x}
  <2>1. \A i \in 1..Len(s) : i + 1 \in 1..(Len(s) + 1) /\ t[i + 1] = s[i]
    BY <1>0, <1>2
  <2>2. \A i \in 1..(Len(s) + 1) : i # 1 => i - 1 \in 1..Len(s)
    BY <1>0
  <2>3. 1 \in 1..(Len(s) + 1) /\ t[1] = x
    BY <1>0, <1>2
  <2> QED
    BY <1>2, <1>3, <2>1, <2>2, <2>3 DEF ToSet
<1> QED
  BY <1>1, <1>2, <1>7, <1>8 DEF t

LEMMA RemoveAtIs ==
  ASSUME NEW S, NEW s \in Seq(S), NEW i \in 1..Len(s)
  PROVE  /\ RemoveAt(s, i) \in Seq(S) /\ Len(RemoveAt(s, i)) = Len(s) - 1
         /\ \A k \in 1..(Len(s) - 1) : RemoveAt(s, i)[k] = IF k < i THEN s[k] ELSE s[k + 1]
<1> DEFINE a == SubSeq(s, 1, i - 1)
           b == SubSeq(s, i + 1, Len(s))
<1>1. Len(s) \in Nat /\ i \in Nat
  BY LenProperties
<1>2. /\ a \in Seq(S) /\ Len(a) = i - 1
      /\ \A k \in 1..(i - 1) : a[k] = s[k]
  <2>1. \A k \in 1..(i - 1) : s[k] \in S
    BY <1>1, ElementOfSeq
  <2> QED
    BY <1>1, <2>1, SubSeqProperties
<1>3. /\ b \in Seq(S) /\ Len(b) = Len(s) - i
      /\ \A k \in 1..(Len(s) - i) : b[k] = s[k + i]
  <2>1. \A k \in (i + 1)..Len(s) : s[k] \in S
    BY <1>1, ElementOfSeq
  <2>2. /\ b \in Seq(S) /\ Len(b) = IF i + 1 <= Len(s) THEN Len(s) - (i + 1) + 1 ELSE 0
        /\ \A k \in 1..(Len(s) - (i + 1) + 1) : b[k] = s[(i + 1) + k - 1]
    BY <1>1, <2>1, SubSeqProperties
  <2> QED
    BY <1>1, <2>2
<1> HIDE DEF a, b
<1>4. /\ a \o b \in Seq(S) /\ Len(a \o b) = Len(s) - 1
      /\ \A k \in 1..(Len(s) - 1) : (a \o b)[k] = IF k <= i - 1 THEN a[k] ELSE b[k - (i - 1)]
  <2>1. /\ a \o b \in Seq(S) /\ Len(a \o b) = Len(a) + Len(b)
        /\ \A k \in 1..(Len(a) + Len(b)) : (a \o b)[k] = IF k <= Len(a) THEN a[k] ELSE b[k - Len(a)]
    BY <1>2, <1>3, ConcatProperties
  <2>2. Len(a) = i - 1 /\ Len(a) + Len(b) = Len(s) - 1
    BY <1>1, <1>2, <1>3
  <2> QED
    BY <2>1, <2>2
<1>5. \A k \in 1..(Len(s) - 1) : (a \o b)[k] = IF k < i THEN s[k] ELSE s[k + 1]
  BY <1>1, <1>2, <1>3, <1>4
<1> QED
  BY <1>4, <1>5 DEF RemoveAt, a, b

\* Where the places of a value are after one of the sequence is taken out.
LEMMA RemoveAtPlaces ==
  ASSUME NEW S, NEW s \in Seq(S), NEW i \in 1..Len(s), NEW e
  PROVE  /\ Cardinality(Places(RemoveAt(s, i), e)) =
              IF e = s[i] THEN Cardinality(Places(s, e)) - 1 ELSE Cardinality(Places(s, e))
         /\ ToSet(RemoveAt(s, i)) \subseteq ToSet(s)
         /\ ToSet(s) \subseteq ToSet(RemoveAt(s, i)) \cup {s[i]}
<1> DEFINE t == RemoveAt(s, i)
           A == Places(s, e) \ {i}
           B == Places(t, e)
           f == [k \in A |-> IF k < i THEN k ELSE k - 1]
<1>1. /\ t \in Seq(S) /\ Len(t) = Len(s) - 1
      /\ \A k \in 1..(Len(s) - 1) : t[k] = IF k < i THEN s[k] ELSE s[k + 1]
  BY RemoveAtIs
<1>2. /\ Len(s) \in Nat /\ i \in Nat
      /\ DOMAIN s = 1..Len(s) /\ DOMAIN t = 1..(Len(s) - 1)
  BY <1>1, LenProperties
<1> HIDE DEF t
<1>3. Places(s, e) \in SUBSET (1..Len(s)) /\ IsFiniteSet(Places(s, e))
      /\ (i \in Places(s, e) <=> e = s[i])
  BY PlacesFinite, <1>2 DEF Places
<1>4. IsFiniteSet(B) /\ Cardinality(B) = Cardinality(A)
  <2>1. f \in [A -> B]
    <3> SUFFICES ASSUME NEW k \in A PROVE (IF k < i THEN k ELSE k - 1) \in B
      OBVIOUS
    <3>1. k \in 1..Len(s) /\ k # i /\ s[k] = e
      BY <1>2 DEF Places
    <3>2. CASE k < i
      BY <1>1, <1>2, <3>1, <3>2 DEF Places
    <3>3. CASE k > i
      <4>1. k - 1 \in 1..(Len(s) - 1) /\ ~(k - 1 < i) /\ (k - 1) + 1 = k
        BY <1>2, <3>1, <3>3
      <4> QED
        BY <1>1, <1>2, <3>1, <3>3, <4>1 DEF Places
    <3> QED
      BY <1>2, <3>1, <3>2, <3>3
  <2>2. A \in SUBSET (1..Len(s)) /\ IsFiniteSet(A) /\ i \notin A
    BY <1>3, FS_RemoveElement
  <2>3. \A k, m \in A : f[k] = f[m] => k = m
    BY <1>2, <2>2
  <2>4. \A m \in B : \E k \in A : f[k] = m
    <3> SUFFICES ASSUME NEW m \in B
                 PROVE  LET k == IF m < i THEN m ELSE m + 1 IN k \in A /\ f[k] = m
      OBVIOUS
    <3>1. m \in 1..(Len(s) - 1) /\ t[m] = e
      BY <1>2 DEF Places
    <3>2. CASE m < i
      BY <1>1, <1>2, <3>1, <3>2 DEF Places
    <3>3. CASE ~(m < i)
      <4>1. m + 1 \in 1..Len(s) /\ m + 1 # i /\ s[m + 1] = e
        BY <1>1, <1>2, <3>1, <3>3
      <4>2. m + 1 \in A
        BY <1>2, <4>1 DEF Places
      <4>3. f[m + 1] = m
        BY <1>2, <3>1, <3>3, <4>2
      <4> QED
        BY <3>3, <4>2, <4>3
    <3> QED
      BY <3>2, <3>3
  <2> HIDE DEF A, B, f
  <2> QED
    BY <2>1, <2>2, <2>3, <2>4, Moved
<1>5. Cardinality(B) =
        IF e = s[i] THEN Cardinality(Places(s, e)) - 1 ELSE Cardinality(Places(s, e))
  <2> HIDE DEF B
  <2> QED
    BY <1>3, <1>4, FS_RemoveElement
<1>6. \A k \in 1..(Len(s) - 1) : \E m \in 1..Len(s) : t[k] = s[m]
  <2> SUFFICES ASSUME NEW k \in 1..(Len(s) - 1)
               PROVE  \E m \in 1..Len(s) : t[k] = s[m]
    OBVIOUS
  <2>1. /\ t[k] = s[IF k < i THEN k ELSE k + 1]
        /\ k \in 1..Len(s) /\ k + 1 \in 1..Len(s)
    BY <1>1, <1>2
  <2> QED
    BY <2>1
<1>7. \A m \in 1..Len(s) : m # i => \E k \in 1..(Len(s) - 1) : t[k] = s[m]
  <2> SUFFICES ASSUME NEW m \in 1..Len(s), m # i
               PROVE  \E k \in 1..(Len(s) - 1) : t[k] = s[m]
    OBVIOUS
  <2>1. CASE m < i
    BY <1>1, <1>2, <2>1
  <2>2. CASE m > i
    <3>1. m - 1 \in 1..(Len(s) - 1) /\ ~(m - 1 < i) /\ (m - 1) + 1 = m
      BY <1>2, <2>2
    <3> QED
      BY <1>1, <3>1
  <2> QED
    BY <1>2, <2>1, <2>2
<1>8. ToSet(t) \subseteq ToSet(s)
  BY <1>2, <1>6 DEF ToSet
<1>9. ToSet(s) \subseteq ToSet(t) \cup {s[i]}
  <2>1. ToSet(t) = {t[k] : k \in 1..(Len(s) - 1)} /\ ToSet(s) = {s[m] : m \in 1..Len(s)}
    BY <1>2 DEF ToSet
  <2> SUFFICES ASSUME NEW m \in 1..Len(s), m # i PROVE s[m] \in ToSet(t)
    BY <2>1
  <2> QED
    BY <1>7, <2>1
<1> QED
  BY <1>5, <1>8, <1>9 DEF t

\* Taking out the first occurrence of a value takes out one place of it.
LEMMA RemoveFirstIs ==
  ASSUME NEW S, NEW s \in Seq(S), NEW e
  PROVE  \/ e \notin ToSet(s) /\ RemoveFirst(s, e) = s
         \/ \E i \in 1..Len(s) : s[i] = e /\ RemoveFirst(s, e) = RemoveAt(s, i)
<1> DEFINE I == {i \in 1..Len(s) : s[i] = e}
<1>1. Len(s) \in Nat /\ DOMAIN s = 1..Len(s)
  BY LenProperties
<1>2. CASE I = {}
  BY <1>1, <1>2 DEF RemoveFirst, ToSet
<1>3. CASE I # {}
  <2>1. I \in SUBSET Nat
    BY <1>1
  <2>2. Min(I) \in I
    <3> HIDE DEF I
    <3> QED
      BY <1>3, <2>1, MinIs
  <2>3. RemoveFirst(s, e) = RemoveAt(s, Min(I))
    BY <1>3 DEF RemoveFirst, SelectInSeq
  <2> QED
    BY <2>2, <2>3
<1> QED
  BY <1>2, <1>3

-----------------------------------------------------------------------------
(* One turn of the admission loop *)

\* How often a job is in line or active.
Slotted(s, j) == Times(s.pending, j) + Times(s.active, j)

LEMMA TimesIs ==
  ASSUME NEW s \in Seq(Job), NEW j
  PROVE  /\ Times(s, j) \in Nat
         /\ Times(s, j) = 0 <=> j \notin ToSet(s)
BY PlacesFinite DEF Times, Places

LEMMA SeqIs ==
  ASSUME NEW s \in Seq(Job)
  PROVE  /\ Len(s) \in Nat /\ DOMAIN s = 1..Len(s)
         /\ \A i \in 1..Len(s) : s[i] \in Job /\ s[i] \in ToSet(s)
         /\ ToSet(s) \subseteq Job
         /\ s = <<>> <=> Len(s) = 0
BY LenProperties, ElementOfSeq DEF ToSet

\* Taking a job out of a sequence it is in.
LEMMA TakeOut ==
  ASSUME NEW s \in Seq(Job), NEW j \in ToSet(s), NEW k
  PROVE  /\ RemoveFirst(s, j) \in Seq(Job) /\ Len(RemoveFirst(s, j)) = Len(s) - 1
         /\ Times(RemoveFirst(s, j), k) = IF k = j THEN Times(s, k) - 1 ELSE Times(s, k)
         /\ ToSet(RemoveFirst(s, j)) \subseteq ToSet(s)
<1>1. PICK i \in 1..Len(s) : s[i] = j /\ RemoveFirst(s, j) = RemoveAt(s, i)
  BY RemoveFirstIs
<1>2. RemoveAt(s, i) \in Seq(Job) /\ Len(RemoveAt(s, i)) = Len(s) - 1
  BY RemoveAtIs
<1>3. /\ Cardinality(Places(RemoveAt(s, i), k)) =
           IF k = s[i] THEN Cardinality(Places(s, k)) - 1 ELSE Cardinality(Places(s, k))
      /\ ToSet(RemoveAt(s, i)) \subseteq ToSet(s)
  BY RemoveAtPlaces
<1> QED
  BY <1>1, <1>2, <1>3 DEF Times, Places

\* Putting one at the end, or in front.
LEMMA PutIn ==
  ASSUME NEW s \in Seq(Job), NEW j \in Job, NEW k
  PROVE  /\ Append(s, j) \in Seq(Job) /\ Len(Append(s, j)) = Len(s) + 1
         /\ Times(Append(s, j), k) = IF k = j THEN Times(s, k) + 1 ELSE Times(s, k)
         /\ ToSet(Append(s, j)) = ToSet(s) \cup {j}
         /\ <<j>> \o s \in Seq(Job) /\ Len(<<j>> \o s) = Len(s) + 1
         /\ Times(<<j>> \o s, k) = IF k = j THEN Times(s, k) + 1 ELSE Times(s, k)
         /\ ToSet(<<j>> \o s) = ToSet(s) \cup {j}
<1>1. Append(s, j) \in Seq(Job) /\ Len(Append(s, j)) = Len(s) + 1
  BY AppendProperties
<1>2. /\ Cardinality(Places(Append(s, j), k)) =
           IF k = j THEN Cardinality(Places(s, k)) + 1 ELSE Cardinality(Places(s, k))
      /\ ToSet(Append(s, j)) = ToSet(s) \cup {j}
  BY AppendPlaces
<1>3. /\ <<j>> \o s \in Seq(Job) /\ Len(<<j>> \o s) = Len(s) + 1
      /\ Cardinality(Places(<<j>> \o s, k)) =
           IF k = j THEN Cardinality(Places(s, k)) + 1 ELSE Cardinality(Places(s, k))
      /\ ToSet(<<j>> \o s) = ToSet(s) \cup {j}
  BY PrependPlaces
<1> QED
  BY <1>1, <1>2, <1>3 DEF Times, Places

LEMMA TakeOutNone ==
  ASSUME NEW s \in Seq(Job), NEW j, j \notin ToSet(s)
  PROVE  RemoveFirst(s, j) = s
BY RemoveFirstIs, SeqIs

\* The job that gets the free slot: an OCR job is the first one in line, and a synchronous
\* one is let past OCR only where the lanes allow it.
LEMMA CandidateIs ==
  ASSUME NEW s \in SlotState, HasRoom(s)
  PROVE  /\ \E i \in 1..Len(s.pending) :
              /\ s.pending[i] = Candidate(s)
              /\ Candidate(s) \in Persistent => \A k \in 1..(i - 1) : s.pending[k] \notin Persistent
         /\ Candidate(s) \in Sync /\ HasPersistent(s.pending) => MaxActive = 1 \/ ~HasSync(s.active)
<1> DEFINE p == s.pending
           First(T) == {i \in 1..Len(p) : p[i] \in T}
<1>1. p \in Seq(Job) /\ Len(p) \in Nat \ {0} /\ DOMAIN p = 1..Len(p)
  BY SeqIs DEF SlotState, HasRoom
<1>2. ASSUME NEW T, First(T) # {}
      PROVE  /\ Min(First(T)) \in 1..Len(p) /\ p[Min(First(T))] \in T
             /\ \A k \in 1..(Min(First(T)) - 1) : p[k] \notin T
  <2>1. First(T) \in SUBSET Nat
    BY <1>1
  <2>2. Min(First(T)) \in First(T) /\ \A n \in First(T) : Min(First(T)) <= n
    BY <1>2, <2>1, MinIs
  <2>3. \A k \in 1..(Min(First(T)) - 1) : k \in 1..Len(p) /\ ~(Min(First(T)) <= k)
    BY <1>1, <2>2
  <2> QED
    BY <2>2, <2>3
<1>3. /\ HasSync(p) => First(Sync) # {} /\ FirstSync(p) = p[Min(First(Sync))]
      /\ HasPersistent(p) => First(Persistent) # {} /\ FirstPersistent(p) = p[Min(First(Persistent))]
  BY <1>1 DEF HasSync, HasPersistent, FirstSync, FirstPersistent, SelectInSeq, ToSet
<1>4. Persistent \cap Sync = {}
  BY LaneAssumption
<1>5. CASE ~(HasSync(p) /\ HasPersistent(p))
  <2>1. Candidate(s) = p[1] /\ 1 \in 1..Len(p)
    BY <1>1, <1>5 DEF Candidate
  <2>2. Candidate(s) \in Sync => HasSync(p)
    BY <1>1, <2>1 DEF HasSync, ToSet
  <2> QED
    BY <1>5, <2>1, <2>2
<1>6. CASE HasSync(p) /\ HasPersistent(p)
  <2>1. CASE IF MaxActive = 1 THEN s.preferSync ELSE ~HasSync(s.active)
    <3>1. Candidate(s) = p[Min(First(Sync))]
      BY <1>3, <1>6, <2>1 DEF Candidate
    <3> HIDE DEF First
    <3> QED
      BY <1>2, <1>3, <1>4, <1>6, <2>1, <3>1
  <2>2. CASE ~(IF MaxActive = 1 THEN s.preferSync ELSE ~HasSync(s.active))
    <3>1. Candidate(s) = p[Min(First(Persistent))]
      BY <1>3, <1>6, <2>2 DEF Candidate
    <3> HIDE DEF First
    <3> QED
      BY <1>2, <1>3, <1>4, <1>6, <3>1
  <2> QED
    BY <2>1, <2>2
<1> QED
  BY <1>5, <1>6

LEMMA AdmitIs ==
  ASSUME NEW s \in SlotState
  PROVE  /\ Admit[s] \in SlotState
         /\ ~HasRoom(s) => Admit[s] = s
         /\ HasRoom(s) => /\ Candidate(s) \in ToSet(s.pending)
                          /\ Admit[s].pending = RemoveFirst(s.pending, Candidate(s))
                          /\ Admit[s].active = Append(s.active, Candidate(s))
                          /\ Admit[s].preferSync = (Candidate(s) \in Persistent)
<1> DEFINE j == Candidate(s)
           t == [pending |-> RemoveFirst(s.pending, j), active |-> Append(s.active, j),
                 preferSync |-> j \in Persistent]
<1>1. s.pending \in Seq(Job) /\ s.active \in Seq(Job)
  BY DEF SlotState
<1>2. CASE ~HasRoom(s)
  BY <1>2 DEF Admit
<1>3. CASE HasRoom(s)
  <2>1. j \in ToSet(s.pending) /\ j \in Job
    BY <1>1, <1>3, CandidateIs, SeqIs
  <2>2. Admit[s] = t
    BY <1>3 DEF Admit
  <2>3. RemoveFirst(s.pending, j) \in Seq(Job)
    BY <1>1, <2>1, TakeOut
  <2>4. Append(s.active, j) \in Seq(Job)
    BY <1>1, <2>1, AppendProperties
  <2> HIDE DEF j
  <2>5. t \in SlotState
    BY <2>3, <2>4 DEF SlotState
  <2> QED
    BY <1>3, <2>1, <2>2, <2>5 DEF j
<1> QED
  BY <1>2, <1>3

LEMMA AdmitCounts ==
  ASSUME NEW s \in SlotState, Len(s.active) <= MaxActive, NEW k
  PROVE  /\ Slotted(Admit[s], k) = Slotted(s, k)
         /\ Len(Admit[s].active) <= MaxActive
         /\ HasRoom(s) => Len(Admit[s].active) = Len(s.active) + 1
         /\ ToSet(Admit[s].pending) \subseteq ToSet(s.pending)
         /\ ToSet(Admit[s].active) \subseteq ToSet(s.active) \cup ToSet(s.pending)
<1>1. s.pending \in Seq(Job) /\ s.active \in Seq(Job) /\ MaxActive \in Nat
  BY SlotAssumption DEF SlotState
<1>2. CASE ~HasRoom(s)
  BY <1>2, AdmitIs
<1>3. CASE HasRoom(s)
  <2> DEFINE j == Candidate(s)
  <2>1. /\ j \in ToSet(s.pending) /\ j \in Job
        /\ Admit[s].pending = RemoveFirst(s.pending, j)
        /\ Admit[s].active = Append(s.active, j)
    BY <1>1, <1>3, AdmitIs, SeqIs
  <2> HIDE DEF j
  <2>2. /\ Times(Admit[s].pending, k) = IF k = j THEN Times(s.pending, k) - 1 ELSE Times(s.pending, k)
        /\ ToSet(Admit[s].pending) \subseteq ToSet(s.pending)
    BY <1>1, <2>1, TakeOut
  <2>3. /\ Times(Admit[s].active, k) = IF k = j THEN Times(s.active, k) + 1 ELSE Times(s.active, k)
        /\ ToSet(Admit[s].active) = ToSet(s.active) \cup {j}
    <3>1. /\ Times(Append(s.active, j), k) =
               IF k = j THEN Times(s.active, k) + 1 ELSE Times(s.active, k)
          /\ ToSet(Append(s.active, j)) = ToSet(s.active) \cup {j}
      <4>1. s.active \in Seq(Job) /\ j \in Job
        BY <1>1, <2>1
      <4> QED
        BY <4>1, PutIn
    <3>2. Admit[s].active = Append(s.active, j)
      BY <2>1
    <3> QED
      BY <3>1, <3>2
  <2>4. Len(Admit[s].active) = Len(s.active) + 1 /\ Len(s.active) < MaxActive /\ Len(s.active) \in Nat
    BY <1>1, <1>3, <2>1, AppendProperties, SeqIs DEF HasRoom
  <2>5. Times(s.pending, k) \in Nat /\ Times(s.active, k) \in Nat
    BY <1>1, TimesIs
  <2> QED
    BY <1>1, <2>1, <2>2, <2>3, <2>4, <2>5 DEF Slotted
<1> QED
  BY <1>2, <1>3

-----------------------------------------------------------------------------
(* The yield *)

LEMMA SlotsTyped ==
  ASSUME TypeOK
  PROVE  Slots \in SlotState
BY DEF TypeOK, Slots, SlotState

\* The job that yields is an active OCR job with pages left, and no synchronous one is active.
LEMMA YieldingIs ==
  ASSUME TypeOK, Yielding # NoJob
  PROVE  /\ Yielding \in Persistent /\ Yielding \in Active /\ Yielding \in Job
         /\ HasUnits(Yielding) /\ SyncNeedsSlot
<1> DEFINE I == {i \in 1..Len(active) : active[i] \in Persistent /\ HasUnits(active[i])}
<1>1. active \in Seq(Job) /\ Len(active) \in Nat /\ DOMAIN active = 1..Len(active)
  BY SeqIs DEF TypeOK
<1>2. I \in SUBSET (0..Len(active))
  BY <1>1
<1>3. SyncNeedsSlot /\ I # {} /\ Yielding = active[Max(I)]
  BY DEF Yielding, SelectLastInSeq
<1>4. Max(I) \in I
  <2> HIDE DEF I
  <2> QED
    BY <1>1, <1>2, <1>3, MaxIs
<1> QED
  BY <1>1, <1>3, <1>4 DEF Active, ToSet, Job

LEMMA AfterYieldIs ==
  ASSUME TypeOK
  PROVE  /\ AfterYield \in SlotState
         /\ ~Yields => AfterYield = Slots
         /\ Yields => /\ Yielding \in Active /\ Yielding \in Job
                      /\ AfterYield.pending = <<Yielding>> \o pending
                      /\ AfterYield.active = RemoveFirst(active, Yielding)
                      /\ AfterYield.preferSync = preferSync
<1>1. pending \in Seq(Job) /\ active \in Seq(Job) /\ preferSync \in BOOLEAN
  BY DEF TypeOK
<1>2. CASE ~Yields
  BY <1>2, SlotsTyped DEF AfterYield
<1>3. CASE Yields
  <2> DEFINE t == [pending |-> <<Yielding>> \o pending, active |-> RemoveFirst(active, Yielding),
                   preferSync |-> preferSync]
  <2>1. Yielding \in Active /\ Yielding \in Job
    BY <1>3, YieldingIs DEF Yields
  <2>2. AfterYield = t
    BY <1>3 DEF AfterYield, Slots
  <2>3. <<Yielding>> \o pending \in Seq(Job) /\ RemoveFirst(active, Yielding) \in Seq(Job)
    BY <1>1, <2>1, PrependPlaces, TakeOut DEF Active
  <2>4. t \in SlotState
    BY <1>1, <2>3 DEF SlotState
  <2> QED
    BY <1>3, <2>1, <2>2, <2>4
<1> QED
  BY <1>2, <1>3

LEMMA AfterYieldCounts ==
  ASSUME TypeOK, Len(active) <= MaxActive, NEW k
  PROVE  /\ Slotted(AfterYield, k) = Times(pending, k) + Times(active, k)
         /\ Len(AfterYield.active) <= MaxActive
         /\ ToSet(AfterYield.pending) = IF Yields THEN Pending \cup {Yielding} ELSE Pending
         /\ ToSet(AfterYield.active) \subseteq Active
<1>1. pending \in Seq(Job) /\ active \in Seq(Job) /\ MaxActive \in Nat /\ Len(active) \in Nat
  BY SlotAssumption, SeqIs DEF TypeOK
<1>2. Times(pending, k) \in Nat /\ Times(active, k) \in Nat
  BY <1>1, TimesIs
<1>3. CASE ~Yields
  BY <1>3, AfterYieldIs DEF Slots, Slotted, Pending, Active
<1>4. CASE Yields
  <2>1. /\ Yielding \in Active /\ Yielding \in Job
        /\ AfterYield.pending = <<Yielding>> \o pending
        /\ AfterYield.active = RemoveFirst(active, Yielding)
    BY <1>4, AfterYieldIs
  <2>2. /\ Times(AfterYield.pending, k) =
             IF k = Yielding THEN Times(pending, k) + 1 ELSE Times(pending, k)
        /\ ToSet(AfterYield.pending) = Pending \cup {Yielding}
    BY <1>1, <2>1, PutIn DEF Pending
  <2>3. /\ Times(AfterYield.active, k) =
             IF k = Yielding THEN Times(active, k) - 1 ELSE Times(active, k)
        /\ ToSet(AfterYield.active) \subseteq Active
        /\ Len(AfterYield.active) = Len(active) - 1
    BY <1>1, <2>1, TakeOut DEF Active
  <2> QED
    BY <1>1, <1>2, <1>4, <2>2, <2>3 DEF Slotted
<1> QED
  BY <1>3, <1>4

-----------------------------------------------------------------------------
(* The slots after the pass *)

LEMMA FilledRuns ==
  ASSUME TypeOK
  PROVE  \E f : /\ f[0] = AfterYield
                /\ \A n \in 1..MaxActive : f[n] = Admit[f[n - 1]]
                /\ Filled = f[MaxActive]
<1> DEFINE f[n \in 0..MaxActive] == IF n = 0 THEN AfterYield ELSE Admit[f[n - 1]]
<1>1. Filled = f[MaxActive]
  BY DEF Filled
<1>2. MaxActive \in Nat
  BY SlotAssumption
<1>3. AfterYield \in SlotState /\ Admit \in [SlotState -> SlotState]
  <2>1. DOMAIN Admit = SlotState /\ Admit = [s \in SlotState |-> Admit[s]]
    BY DEF Admit
  <2> QED
    BY <2>1, AfterYieldIs, AdmitIs
<1>4. PICK g \in [0..MaxActive -> SlotState] :
        \A n \in 0..MaxActive : g[n] = IF n = 0 THEN AfterYield ELSE Admit[g[n - 1]]
  BY <1>2, <1>3, LoopRuns
<1>5. g = [n \in 0..MaxActive |-> IF n = 0 THEN AfterYield ELSE Admit[g[n - 1]]]
  BY <1>4
<1>6. f = [n \in 0..MaxActive |-> IF n = 0 THEN AfterYield ELSE Admit[f[n - 1]]]
  BY <1>5
<1> HIDE DEF f
<1>7. f[0] = AfterYield /\ \A n \in 1..MaxActive : f[n] = Admit[f[n - 1]]
  BY <1>2, <1>6
<1> QED
  BY <1>1, <1>7

\* What the yield leaves and every admission keeps holds of the slots after the pass.
LEMMA FilledKeeps ==
  ASSUME TypeOK, NEW I, AfterYield \in I, \A s \in I : Admit[s] \in I
  PROVE  Filled \in I
<1>1. PICK f : /\ f[0] = AfterYield
               /\ \A n \in 1..MaxActive : f[n] = Admit[f[n - 1]]
               /\ Filled = f[MaxActive]
  BY FilledRuns
<1>2. \A n \in 0..MaxActive : f[n] \in I
  BY <1>1, LoopKeeps, SlotAssumption
<1> QED
  BY <1>1, <1>2, SlotAssumption

\* The pass moves jobs between the line and the slots; it neither loses nor adds one.
LEMMA FilledCounts ==
  ASSUME TypeOK, Len(active) <= MaxActive, NEW k
  PROVE  /\ Filled \in SlotState /\ Len(Filled.active) <= MaxActive
         /\ Slotted(Filled, k) = Times(pending, k) + Times(active, k)
         /\ ToSet(Filled.pending) \subseteq IF Yields THEN Pending \cup {Yielding} ELSE Pending
         /\ ToSet(Filled.active) \subseteq Active \cup Pending
<1> DEFINE line == IF Yields THEN Pending \cup {Yielding} ELSE Pending
           count == Times(pending, k) + Times(active, k)
           I == {s \in SlotState : /\ Len(s.active) <= MaxActive
                                   /\ Slotted(s, k) = count
                                   /\ ToSet(s.pending) \subseteq line
                                   /\ ToSet(s.active) \subseteq Active \cup Pending}
<1>1. line \subseteq Active \cup Pending
  BY YieldingIs DEF Yields
<1> HIDE DEF line, count
<1>2. AfterYield \in I
  <2>1. AfterYield \in SlotState
    BY AfterYieldIs
  <2>2. /\ Slotted(AfterYield, k) = count
        /\ Len(AfterYield.active) <= MaxActive
        /\ ToSet(AfterYield.pending) \subseteq line
        /\ ToSet(AfterYield.active) \subseteq Active \cup Pending
    BY AfterYieldCounts DEF line, count
  <2> QED
    BY <2>1, <2>2
<1>3. ASSUME NEW s \in I PROVE Admit[s] \in I
  <2>1. s \in SlotState /\ Len(s.active) <= MaxActive /\ Slotted(s, k) = count
    OBVIOUS
  <2>2. Admit[s] \in SlotState
    BY <2>1, AdmitIs
  <2>3. /\ Slotted(Admit[s], k) = Slotted(s, k)
        /\ Len(Admit[s].active) <= MaxActive
        /\ ToSet(Admit[s].pending) \subseteq ToSet(s.pending)
        /\ ToSet(Admit[s].active) \subseteq ToSet(s.active) \cup ToSet(s.pending)
    BY <2>1, AdmitCounts
  <2> QED
    BY <1>1, <2>1, <2>2, <2>3
<1>4. Filled \in I
  <2> HIDE DEF I
  <2> QED
    BY <1>2, <1>3, FilledKeeps
<1> QED
  BY <1>4 DEF line, count

\* After the pass no job in line could have had a slot.
LEMMA FilledFull ==
  ASSUME TypeOK, Len(active) <= MaxActive
  PROVE  ~HasRoom(Filled)
<1>1. PICK f : /\ f[0] = AfterYield
               /\ \A n \in 1..MaxActive : f[n] = Admit[f[n - 1]]
               /\ Filled = f[MaxActive]
  BY FilledRuns
<1>2. MaxActive \in Nat
  BY SlotAssumption
<1> DEFINE I == {n \in 0..MaxActive : /\ f[n] \in SlotState /\ Len(f[n].active) <= MaxActive
                                      /\ HasRoom(f[n]) => Len(f[n].active) >= n}
<1>3. 0 \in I
  <2>1. AfterYield \in SlotState
    BY AfterYieldIs
  <2>2. Len(AfterYield.active) <= MaxActive
    BY AfterYieldCounts
  <2>3. Len(AfterYield.active) \in Nat
    BY <2>1, SeqIs DEF SlotState
  <2> QED
    BY <1>1, <1>2, <2>1, <2>2, <2>3
<1>4. ASSUME NEW n \in 0..MaxActive, n < MaxActive, n \in I
      PROVE  n + 1 \in I
  <2>1. n + 1 \in 1..MaxActive /\ (n + 1) - 1 = n
    BY <1>2, <1>4
  <2>2. f[n + 1] = Admit[f[n]]
    BY <1>1, <2>1
  <2> DEFINE s == f[n]
             t == Admit[s]
  <2>3. s \in SlotState /\ Len(s.active) <= MaxActive /\ (HasRoom(s) => Len(s.active) >= n)
    BY <1>4
  <2> HIDE DEF s, t
  <2>4. Len(s.active) \in Nat
    BY <2>3, SeqIs DEF SlotState
  <2>5. /\ t \in SlotState /\ (~HasRoom(s) => t = s)
    BY <2>3, AdmitIs DEF t
  <2>6. /\ Len(t.active) <= MaxActive
        /\ HasRoom(s) => Len(t.active) = Len(s.active) + 1
    BY <2>3, AdmitCounts DEF t
  <2>7. HasRoom(t) => Len(t.active) >= n + 1
    BY <2>3, <2>4, <2>5, <2>6
  <2>8. f[n + 1] = t
    BY <2>2 DEF s, t
  <2>9. n + 1 \in 0..MaxActive
    BY <2>1
  <2> QED
    BY <2>5, <2>6, <2>7, <2>8, <2>9
<1>5. MaxActive \in I
  <2>1. \A n \in 0..MaxActive : n \in I
    <3> HIDE DEF I
    <3> QED
      BY <1>2, <1>3, <1>4, UpTo
  <2> QED
    BY <1>2, <2>1
<1>6. Len(Filled.active) \in Nat
  BY <1>1, <1>5, SeqIs DEF SlotState
<1> QED
  BY <1>1, <1>2, <1>5, <1>6 DEF HasRoom

\* Nothing changes when no OCR job yields and nobody can be admitted.
LEMMA FilledStays ==
  TypeOK /\ ~Yields /\ ~HasRoom(Slots) => Filled = Slots
<1> SUFFICES ASSUME TypeOK, ~Yields, ~HasRoom(Slots)
             PROVE  Filled \in {Slots}
  OBVIOUS
<1>1. AfterYield \in {Slots}
  BY AfterYieldIs
<1>2. \A s \in {Slots} : Admit[s] \in {Slots}
  BY SlotsTyped, AdmitIs
<1> QED
  BY <1>1, <1>2, FilledKeeps

\* While an OCR job is asked for its slot in the middle of a page, the pass changes
\* nothing, and no synchronous job is active.
LEMMA HeldIs ==
  TypeOK /\ Held # NoJob =>
    /\ Filled = Slots /\ Held = Yielding /\ Held \in Active /\ HasUnits(Held)
    /\ inflight[Held] # 0 /\ ~HasSync(active)
<1> SUFFICES ASSUME TypeOK, Held # NoJob
             PROVE  /\ Filled = Slots /\ Held = Yielding /\ Held \in Active /\ HasUnits(Held)
                    /\ inflight[Held] # 0 /\ ~HasSync(active)
  OBVIOUS
<1>1. ~Yields /\ Held = Yielding /\ Yielding # NoJob /\ inflight[Yielding] # 0
  BY DEF Held, Yields
<1>2. SyncNeedsSlot /\ Yielding \in Active /\ HasUnits(Yielding)
  BY <1>1, YieldingIs
<1>3. ~HasRoom(Slots)
  <2>1. Len(active) >= MaxActive /\ Len(active) \in Nat /\ MaxActive \in Nat
    BY <1>2, SlotAssumption, SeqIs DEF SyncNeedsSlot, TypeOK
  <2> QED
    BY <2>1 DEF HasRoom, Slots
<1>4. Filled = Slots
  BY <1>1, <1>3, FilledStays
<1>5. ~HasSync(active)
  BY <1>2 DEF SyncNeedsSlot
<1> QED
  BY <1>1, <1>2, <1>4, <1>5

-----------------------------------------------------------------------------
(* The order of OCR jobs *)

\* The jobs of T that are in q are there in submission order.
Sorted(q, T) ==
  \A a, b \in DOMAIN q : a < b /\ q[a] \in T /\ q[b] \in T => ticket[q[a]] < ticket[q[b]]

\* The OCR jobs that may still yield.
Going == {j \in Persistent : HasUnits(j)}

\* Lines and slots in submission order.
InOrder(s) ==
  /\ Sorted(s.pending, Persistent)
  /\ Sorted(s.active, Going)
  /\ \A i \in ToSet(s.active) \cap Going, j \in ToSet(s.pending) \cap Persistent : ticket[i] < ticket[j]

LEMMA RemoveSorted ==
  ASSUME NEW s \in Seq(Job), NEW T, Sorted(s, T), NEW i \in 1..Len(s)
  PROVE  /\ Sorted(RemoveAt(s, i), T)
         /\ \A j \in ToSet(RemoveAt(s, i)) : \E k \in 1..Len(s) : k # i /\ s[k] = j
<1> DEFINE t == RemoveAt(s, i)
           from(k) == IF k < i THEN k ELSE k + 1
<1>1. /\ t \in Seq(Job) /\ Len(t) = Len(s) - 1
      /\ \A k \in 1..(Len(s) - 1) : t[k] = IF k < i THEN s[k] ELSE s[k + 1]
  BY RemoveAtIs
<1>2. /\ Len(s) \in Nat /\ i \in Nat
      /\ DOMAIN s = 1..Len(s) /\ DOMAIN t = 1..(Len(s) - 1)
  BY <1>1, SeqIs
<1> HIDE DEF t
<1>3. \A k \in 1..(Len(s) - 1) : from(k) \in 1..Len(s) /\ from(k) # i /\ t[k] = s[from(k)]
  BY <1>1, <1>2
<1>4. \A a, b \in 1..(Len(s) - 1) : a < b => from(a) < from(b)
  BY <1>2
<1> HIDE DEF from
<1>5. Sorted(t, T)
  BY <1>2, <1>3, <1>4 DEF Sorted
<1>6. \A j \in ToSet(t) : \E k \in 1..Len(s) : k # i /\ s[k] = j
  BY <1>2, <1>3 DEF ToSet
<1> QED
  BY <1>5, <1>6 DEF t

LEMMA RemoveFirstSorted ==
  ASSUME NEW s \in Seq(Job), NEW T, Sorted(s, T), NEW j
  PROVE  Sorted(RemoveFirst(s, j), T)
BY RemoveFirstIs, RemoveSorted

LEMMA AppendSorted ==
  ASSUME NEW s \in Seq(Job), NEW T, Sorted(s, T), NEW j \in Job,
         j \in T => \A i \in ToSet(s) \cap T : ticket[i] < ticket[j]
  PROVE  Sorted(Append(s, j), T)
<1>1. /\ Append(s, j) \in Seq(Job) /\ Len(Append(s, j)) = Len(s) + 1
      /\ \A i \in 1..Len(s) : Append(s, j)[i] = s[i]
      /\ Append(s, j)[Len(s) + 1] = j
  BY AppendProperties
<1>2. /\ Len(s) \in Nat /\ DOMAIN s = 1..Len(s) /\ DOMAIN Append(s, j) = 1..(Len(s) + 1)
      /\ \A i \in 1..Len(s) : s[i] \in ToSet(s)
  BY <1>1, SeqIs
<1> SUFFICES ASSUME NEW a \in 1..(Len(s) + 1), NEW b \in 1..(Len(s) + 1), a < b,
                    Append(s, j)[a] \in T, Append(s, j)[b] \in T
             PROVE  ticket[Append(s, j)[a]] < ticket[Append(s, j)[b]]
  BY <1>2 DEF Sorted
<1>3. a \in 1..Len(s) /\ (b \in 1..Len(s) \/ b = Len(s) + 1)
  BY <1>2
<1> QED
  BY <1>1, <1>2, <1>3 DEF Sorted

LEMMA PrependSorted ==
  ASSUME NEW s \in Seq(Job), NEW T, Sorted(s, T), NEW j \in Job,
         \A i \in ToSet(s) \cap T : ticket[j] < ticket[i]
  PROVE  Sorted(<<j>> \o s, T)
<1>1. /\ <<j>> \o s \in Seq(Job) /\ Len(<<j>> \o s) = Len(s) + 1
      /\ \A i \in 1..(Len(s) + 1) : (<<j>> \o s)[i] = IF i = 1 THEN j ELSE s[i - 1]
  BY PrependPlaces
<1>2. /\ Len(s) \in Nat /\ DOMAIN s = 1..Len(s) /\ DOMAIN (<<j>> \o s) = 1..(Len(s) + 1)
      /\ \A i \in 1..Len(s) : s[i] \in ToSet(s)
  BY <1>1, SeqIs
<1> DEFINE t == <<j>> \o s
<1> HIDE DEF t
<1> SUFFICES ASSUME NEW a \in 1..(Len(s) + 1), NEW b \in 1..(Len(s) + 1), a < b,
                    t[a] \in T, t[b] \in T
             PROVE  ticket[t[a]] < ticket[t[b]]
  BY <1>2 DEF Sorted, t
<1>3. b - 1 \in 1..Len(s) /\ t[b] = s[b - 1]
  BY <1>1, <1>2 DEF t
<1>4. CASE a = 1
  <2>1. t[a] = j
    BY <1>1, <1>2, <1>4 DEF t
  <2> QED
    BY <1>2, <1>3, <2>1
<1>5. CASE a # 1
  <2>1. a - 1 \in 1..Len(s) /\ t[a] = s[a - 1] /\ a - 1 < b - 1
    BY <1>1, <1>2, <1>5 DEF t
  <2> QED
    BY <1>2, <1>3, <2>1 DEF Sorted
<1> QED
  BY <1>4, <1>5

\* An admission takes the OCR job that waits longest.
LEMMA AdmitInOrder ==
  ASSUME TypeOK, NEW s \in SlotState, InOrder(s)
  PROVE  InOrder(Admit[s])
<1>1. s.pending \in Seq(Job) /\ s.active \in Seq(Job) /\ Len(s.pending) \in Nat
      /\ DOMAIN s.pending = 1..Len(s.pending)
  BY SeqIs DEF SlotState
<1>2. CASE ~HasRoom(s)
  BY <1>2, AdmitIs
<1>3. CASE HasRoom(s)
  <2> DEFINE c == Candidate(s)
  <2>1. /\ c \in ToSet(s.pending) /\ c \in Job
        /\ Admit[s].pending = RemoveFirst(s.pending, c)
        /\ Admit[s].active = Append(s.active, c)
    BY <1>1, <1>3, AdmitIs, SeqIs
  <2>2. PICK i \in 1..Len(s.pending) :
          /\ s.pending[i] = c
          /\ c \in Persistent => \A k \in 1..(i - 1) : s.pending[k] \notin Persistent
    BY <1>3, CandidateIs
  <2>3. PICK n \in 1..Len(s.pending) :
          s.pending[n] = c /\ RemoveFirst(s.pending, c) = RemoveAt(s.pending, n)
    BY <1>1, <2>1, RemoveFirstIs
  <2> HIDE DEF c
  <2>4. /\ Sorted(s.pending, Persistent) /\ Sorted(s.active, Going)
        /\ \A h \in ToSet(s.active) \cap Going, j \in ToSet(s.pending) \cap Persistent : ticket[h] < ticket[j]
    BY DEF InOrder
  <2>5. /\ Sorted(Admit[s].pending, Persistent)
        /\ \A j \in ToSet(Admit[s].pending) : \E k \in 1..Len(s.pending) : k # n /\ s.pending[k] = j
    <3>1. Admit[s].pending = RemoveAt(s.pending, n)
      BY <2>1, <2>3
    <3>2. /\ Sorted(RemoveAt(s.pending, n), Persistent)
          /\ \A j \in ToSet(RemoveAt(s.pending, n)) : \E k \in 1..Len(s.pending) : k # n /\ s.pending[k] = j
      BY <1>1, <2>4, RemoveSorted
    <3> QED
      BY <3>1, <3>2
  <2>6. ToSet(Admit[s].pending) \subseteq ToSet(s.pending)
    BY <1>1, <2>1, TakeOut
  <2>7. ASSUME NEW j \in ToSet(Admit[s].pending) \cap Persistent, c \in Persistent
        PROVE  ticket[c] < ticket[j]
    <3>1. PICK k \in 1..Len(s.pending) : k # n /\ s.pending[k] = j
      BY <2>5
    <3>2. ticket[c] \in Nat
      BY <2>1 DEF TypeOK
    <3>3. ~(k < i) /\ ~(n < i)
      BY <1>1, <2>2, <2>3, <2>7, <3>1
    <3>4. ~(i < n)
      BY <1>1, <2>2, <2>3, <2>4, <2>7, <3>2 DEF Sorted
    <3>5. i < k
      BY <1>1, <3>1, <3>3, <3>4
    <3> QED
      BY <1>1, <2>2, <2>4, <2>7, <3>1, <3>5 DEF Sorted
  <2>8. Sorted(Admit[s].active, Going)
    <3>1. c \in Going => \A h \in ToSet(s.active) \cap Going : ticket[h] < ticket[c]
      BY <2>1, <2>4 DEF Going
    <3>2. Sorted(Append(s.active, c), Going)
      BY <1>1, <2>1, <2>4, <3>1, AppendSorted
    <3> QED
      BY <2>1, <3>2
  <2>9. ToSet(Admit[s].active) = ToSet(s.active) \cup {c}
    <3>1. ToSet(Append(s.active, c)) = ToSet(s.active) \cup {c}
      BY <1>1, <2>1, PutIn
    <3> QED
      BY <2>1, <3>1
  <2>10. \A h \in ToSet(Admit[s].active) \cap Going, j \in ToSet(Admit[s].pending) \cap Persistent :
           ticket[h] < ticket[j]
    BY <2>4, <2>6, <2>7, <2>9 DEF Going
  <2> QED
    BY <2>5, <2>8, <2>10 DEF InOrder
<1> QED
  BY <1>2, <1>3

\* The OCR job that yields is the youngest active one with pages left.
LEMMA YieldInOrder ==
  ASSUME TypeOK, InOrder(Slots), \A j \in Job : Times(active, j) <= 1
  PROVE  InOrder(AfterYield)
<1>1. pending \in Seq(Job) /\ active \in Seq(Job) /\ Len(active) \in Nat
      /\ DOMAIN active = 1..Len(active)
  BY SeqIs DEF TypeOK
<1>2. CASE ~Yields
  BY <1>2, AfterYieldIs
<1>3. CASE Yields
  <2> DEFINE y == Yielding
             I == {i \in 1..Len(active) : active[i] \in Persistent /\ HasUnits(active[i])}
  <2>1. /\ y \in Active /\ y \in Job
        /\ AfterYield.pending = <<y>> \o pending
        /\ AfterYield.active = RemoveFirst(active, y)
    BY <1>3, AfterYieldIs
  <2>2. y \in Going
    BY <1>3, YieldingIs DEF Yields, Going
  <2>3. I \in SUBSET (0..Len(active)) /\ I # {} /\ y = active[Max(I)]
    BY <1>1, <1>3 DEF Yielding, Yields, SelectLastInSeq
  <2>4. Max(I) \in I /\ \A i \in I : i <= Max(I)
    <3> HIDE DEF I
    <3> QED
      BY <1>1, <2>3, MaxIs
  <2>5. /\ Sorted(pending, Persistent) /\ Sorted(active, Going)
        /\ \A h \in Active \cap Going, j \in Pending \cap Persistent : ticket[h] < ticket[j]
    BY DEF InOrder, Slots, Active, Pending
  <2>6. PICK n \in 1..Len(active) : active[n] = y /\ RemoveFirst(active, y) = RemoveAt(active, n)
    BY <1>1, <2>1, RemoveFirstIs DEF Active
  <2>7. /\ Sorted(AfterYield.active, Going)
        /\ \A h \in ToSet(AfterYield.active) : \E k \in 1..Len(active) : k # n /\ active[k] = h
    BY <1>1, <2>1, <2>5, <2>6, RemoveSorted
  <2>8. y \notin ToSet(AfterYield.active)
    <3>1. Times(AfterYield.active, y) = Times(active, y) - 1 /\ AfterYield.active \in Seq(Job)
      BY <1>1, <2>1, TakeOut DEF Active
    <3>2. Times(active, y) \in Nat /\ Times(active, y) <= 1
      BY <1>1, <2>1, TimesIs
    <3>3. Times(AfterYield.active, y) \in Nat
      BY <3>1, TimesIs
    <3>4. Times(AfterYield.active, y) = 0
      BY <3>1, <3>2, <3>3
    <3> QED
      BY <3>1, <3>4, TimesIs
  <2>9. \A h \in ToSet(AfterYield.active) \cap Going : ticket[h] < ticket[y]
    <3> SUFFICES ASSUME NEW h \in ToSet(AfterYield.active) \cap Going
                 PROVE  ticket[h] < ticket[y]
      OBVIOUS
    <3>1. PICK k \in 1..Len(active) : active[k] = h
      BY <2>7
    <3>2. k \in I /\ h # y
      BY <2>8, <3>1 DEF Going
    <3>3. k < Max(I) /\ active[Max(I)] \in Going
      BY <1>1, <2>2, <2>3, <2>4, <3>1, <3>2
    <3> HIDE DEF y
    <3> QED
      BY <1>1, <2>3, <2>4, <2>5, <3>1, <3>3 DEF Sorted
  <2>10. \A j \in Pending \cap Persistent : ticket[y] < ticket[j]
    BY <2>1, <2>2, <2>5
  <2>11. /\ Sorted(AfterYield.pending, Persistent)
         /\ ToSet(AfterYield.pending) = Pending \cup {y}
    <3>1. Sorted(<<y>> \o pending, Persistent)
      BY <1>1, <2>1, <2>5, <2>10, PrependSorted DEF Pending
    <3>2. ToSet(<<y>> \o pending) = Pending \cup {y}
      BY <1>1, <2>1, PrependPlaces DEF Pending
    <3> QED
      BY <2>1, <3>1, <3>2
  <2>12. ToSet(AfterYield.active) \subseteq Active
    BY <1>1, <2>1, TakeOut DEF Active
  <2>13. \A h \in ToSet(AfterYield.active) \cap Going, j \in ToSet(AfterYield.pending) \cap Persistent :
           ticket[h] < ticket[j]
    BY <2>5, <2>9, <2>11, <2>12
  <2> QED
    BY <2>7, <2>11, <2>13 DEF InOrder
<1> QED
  BY <1>2, <1>3

LEMMA FilledInOrder ==
  ASSUME TypeOK, InOrder(Slots), \A j \in Job : Times(active, j) <= 1
  PROVE  InOrder(Filled)
<1> DEFINE I == {s \in SlotState : InOrder(s)}
<1>1. AfterYield \in I
  BY YieldInOrder, AfterYieldIs
<1>2. \A s \in I : Admit[s] \in I
  BY AdmitInOrder, AdmitIs
<1>3. Filled \in I
  <2> HIDE DEF I
  <2> QED
    BY <1>1, <1>2, FilledKeeps
<1> QED
  BY <1>3

-----------------------------------------------------------------------------
(* What a worker takes *)

LEMMA FirstFinishableIs ==
  ASSUME TypeOK
  PROVE  /\ FirstFinishable = 0 => \A i \in 1..Len(active) : ~Finishable(active[i])
         /\ FirstFinishable # 0 => /\ FirstFinishable \in 1..Len(active)
                                   /\ Finishable(active[FirstFinishable])
<1> DEFINE I == {i \in 1..Len(active) : Finishable(active[i])}
<1>1. FirstFinishable = IF I = {} THEN 0 ELSE Min(I)
  BY DEF FirstFinishable, SelectInSeq
<1>2. CASE I = {}
  BY <1>1, <1>2
<1>3. CASE I # {}
  <2>1. I \in SUBSET Nat
    OBVIOUS
  <2>2. Min(I) \in I
    <3> HIDE DEF I
    <3> QED
      BY <1>3, <2>1, MinIs
  <2> QED
    BY <1>1, <1>3, <2>2
<1> QED
  BY <1>2, <1>3

\* The round robin looks at every active job.
LEMMA ChosenIs ==
  ASSUME TypeOK, NEW act \in Seq(Job)
  PROVE  /\ Chosen[act] = 0 => \A i \in 1..Len(act) : ~Choosable(act, act[i])
         /\ Chosen[act] # 0 => Chosen[act] \in 1..Len(act) /\ Choosable(act, act[Chosen[act]])
<1> DEFINE start == IF PreferPersistent(act) THEN persistentRR ELSE syncRR
           turn(offset) == ((start + offset) % Len(act)) + 1
           offsets == {o \in 0..(Len(act) - 1) : Choosable(act, act[turn(o)])}
<1>1. Chosen[act] = IF offsets = {} THEN 0
                    ELSE turn(CHOOSE o \in offsets : \A p \in offsets : o <= p)
  BY DEF Chosen
<1>2. start \in Nat /\ Len(act) \in Nat
  BY SlotAssumption, SeqIs DEF TypeOK
<1> HIDE DEF start
<1>3. CASE offsets = {}
  <2> SUFFICES ASSUME NEW i \in 1..Len(act) PROVE ~Choosable(act, act[i])
    BY <1>1, <1>3
  <2>1. Len(act) \in Nat \ {0} /\ i - 1 \in 0..(Len(act) - 1)
    BY <1>2
  <2>2. PICK o \in 0..(Len(act) - 1) : (start + o) % Len(act) = i - 1
    BY <1>2, <2>1, RoundReaches
  <2>3. turn(o) = i
    BY <2>1, <2>2
  <2>4. o \notin offsets
    BY <1>3
  <2> HIDE DEF turn
  <2> QED
    BY <2>3, <2>4
<1>4. CASE offsets # {}
  <2>1. offsets \in SUBSET Nat
    OBVIOUS
  <2>2. \E m \in offsets : \A p \in offsets : m <= p
    <3> HIDE DEF offsets
    <3> QED
      BY <1>4, <2>1, LeastExists
  <2> DEFINE m == CHOOSE o \in offsets : \A p \in offsets : o <= p
  <2>3. m \in offsets
    <3> HIDE DEF offsets
    <3> QED
      BY <2>2
  <2> HIDE DEF m
  <2>4. m \in 0..(Len(act) - 1) /\ Choosable(act, act[turn(m)])
    BY <2>3
  <2>5. Len(act) \in Nat \ {0} /\ start + m \in Nat
    BY <1>2, <2>4
  <2>6. turn(m) \in 1..Len(act)
    <3>1. (start + m) % Len(act) \in 0..(Len(act) - 1)
      BY <2>5, Divided
    <3> QED
      BY <2>5, <3>1
  <2>7. Chosen[act] = turn(m)
    <3> HIDE DEF offsets, turn
    <3> QED
      BY <1>1, <1>4 DEF m
  <2> HIDE DEF turn
  <2> QED
    BY <2>4, <2>5, <2>6, <2>7
<1> QED
  BY <1>3, <1>4

\* When there is nothing to choose, every job with pages left is the one asked to yield.
LEMMA NothingChosen ==
  ASSUME TypeOK, NEW act \in Seq(Job), Chosen[act] = 0, NEW i \in 1..Len(act)
  PROVE  ~Finishable(act[i]) /\ (HasUnits(act[i]) => act[i] = Held)
<1>1. \A k \in 1..Len(act) : ~Choosable(act, act[k])
  BY ChosenIs
<1>2. \A k \in 1..Len(act) : act[k] \in ToSet(act) /\ act[k] \in Job
  BY SeqIs
<1>3. ToSet(act) = {act[k] : k \in 1..Len(act)}
  BY SeqIs DEF ToSet
<1>4. ~Finishable(act[i])
  BY <1>1 DEF Choosable
<1>5. ASSUME Ready(act[i]) PROVE FALSE
  <2>1. CASE ~Mixed(act)
    BY <1>1, <1>5, <2>1 DEF Choosable
  <2>2. CASE Mixed(act)
    <3>1. PICK p \in 1..Len(act) : act[p] \in Persistent /\ Ready(act[p])
      BY <1>3, <2>2 DEF Mixed
    <3>2. PICK s \in 1..Len(act) : act[s] \in Sync /\ Ready(act[s])
      BY <1>3, <2>2 DEF Mixed
    <3>3. Persistent \cap Sync = {}
      BY LaneAssumption
    <3>4. PreferPersistent(act) \in BOOLEAN
      BY <2>2 DEF PreferPersistent, TypeOK
    <3> QED
      BY <1>1, <3>1, <3>2, <3>3, <3>4 DEF Choosable
  <2> QED
    BY <2>1, <2>2
<1> QED
  BY <1>4, <1>5 DEF Ready

-----------------------------------------------------------------------------
(* The worker threads *)

LEMMA ThreadsCounted ==
  ASSUME NEW j
  PROVE  /\ IsFiniteSet(Finishers(j)) /\ Cardinality(Finishers(j)) \in Nat
         /\ Cardinality(Finishers(j)) = 0 <=> Finishers(j) = {}
         /\ IsFiniteSet(Readers(j)) /\ Cardinality(Readers(j)) \in Nat
         /\ Cardinality(Readers(j)) = 0 <=> Readers(j) = {}
<1>1. IsFiniteSet(Finishers(j)) /\ IsFiniteSet(Readers(j))
  <2>1. Finishers(j) \subseteq Worker /\ Readers(j) \subseteq Worker
    BY DEF Finishers, Readers
  <2> QED
    BY <2>1, WorkerAssumption, FS_Subset
<1> QED
  BY <1>1, FS_CardinalityType, FS_EmptySet

\* One worker more or less.
LEMMA OneMore ==
  ASSUME NEW A, IsFiniteSet(A), NEW B, NEW w, A \ {w} = B \ {w}
  PROVE  /\ IsFiniteSet(B) /\ Cardinality(A) \in Nat
         /\ w \in A /\ w \notin B => Cardinality(B) = Cardinality(A) - 1
         /\ w \notin A /\ w \in B => Cardinality(B) = Cardinality(A) + 1
         /\ (w \in A <=> w \in B) => B = A
<1>1. CASE w \in A /\ w \notin B
  <2>1. B = A \ {w}
    BY <1>1
  <2> QED
    BY <1>1, <2>1, FS_RemoveElement, FS_CardinalityType
<1>2. CASE w \notin A /\ w \in B
  <2>1. B = A \cup {w}
    BY <1>2
  <2> QED
    BY <1>2, <2>1, FS_AddElement, FS_CardinalityType
<1>3. CASE w \in A <=> w \in B
  <2>1. A = B
    BY <1>3
  <2> QED
    BY <1>3, <2>1, FS_CardinalityType
<1> QED
  BY <1>1, <1>2, <1>3

\* The other threads do nothing but wake up.
OthersStay(w) == \A v \in Worker \ {w} : wk'[v] = wk[v] \/ (wk[v] = Asleep /\ wk'[v] = Idle)

\* What one thread does changes the counts by its own part.
LEMMA ThreadMoves ==
  ASSUME NEW w, OthersStay(w), NEW j \in Job
  PROVE  /\ w \in Finishers(j) /\ w \notin Finishers(j)' =>
              Cardinality(Finishers(j)') = Cardinality(Finishers(j)) - 1
         /\ w \notin Finishers(j) /\ w \in Finishers(j)' =>
              Cardinality(Finishers(j)') = Cardinality(Finishers(j)) + 1
         /\ (w \in Finishers(j) <=> w \in Finishers(j)') => Finishers(j)' = Finishers(j)
         /\ w \in Readers(j) /\ w \notin Readers(j)' =>
              Cardinality(Readers(j)') = Cardinality(Readers(j)) - 1
         /\ w \notin Readers(j) /\ w \in Readers(j)' =>
              Cardinality(Readers(j)') = Cardinality(Readers(j)) + 1
         /\ (w \in Readers(j) <=> w \in Readers(j)') => Readers(j)' = Readers(j)
<1>1. IsFiniteSet(Finishers(j)) /\ IsFiniteSet(Readers(j))
  BY ThreadsCounted
<1>2. NoJob # j
  BY LaneAssumption
<1>3. Finishers(j) \ {w} = Finishers(j)' \ {w}
  BY <1>2 DEF OthersStay, Finishers, Asleep, Idle
<1>4. Readers(j) \ {w} = Readers(j)' \ {w}
  BY <1>2 DEF OthersStay, Readers, Asleep, Idle
<1>5. /\ w \in Finishers(j) /\ w \notin Finishers(j)' =>
           Cardinality(Finishers(j)') = Cardinality(Finishers(j)) - 1
      /\ w \notin Finishers(j) /\ w \in Finishers(j)' =>
           Cardinality(Finishers(j)') = Cardinality(Finishers(j)) + 1
      /\ (w \in Finishers(j) <=> w \in Finishers(j)') => Finishers(j)' = Finishers(j)
  BY <1>1, <1>3, OneMore
<1>6. /\ w \in Readers(j) /\ w \notin Readers(j)' =>
           Cardinality(Readers(j)') = Cardinality(Readers(j)) - 1
      /\ w \notin Readers(j) /\ w \in Readers(j)' =>
           Cardinality(Readers(j)') = Cardinality(Readers(j)) + 1
      /\ (w \in Readers(j) <=> w \in Readers(j)') => Readers(j)' = Readers(j)
  BY <1>1, <1>4, OneMore
<1> QED
  BY <1>5, <1>6

\* Nobody reads or finishes anything else when threads wake up, or when one that was
\* at the top of its loop falls asleep or leaves.
LEMMA ThreadsRest ==
  ASSUME \A v \in Worker : wk'[v] = wk[v] \/ {wk[v], wk'[v]} \subseteq {Idle, Asleep, Gone},
         NEW j \in Job
  PROVE  Finishers(j)' = Finishers(j) /\ Readers(j)' = Readers(j)
<1>1. NoJob # j
  BY LaneAssumption
<1>2. Finishers(j)' = Finishers(j)
  BY <1>1 DEF Finishers, Idle, Asleep, Gone
<1>3. Readers(j)' = Readers(j)
  BY <1>1 DEF Readers, Idle, Asleep, Gone
<1> QED
  BY <1>2, <1>3

-----------------------------------------------------------------------------
(* The bookkeeping *)

\* The places where a job is.
Whereabouts(j) == Times(pending, j) + Times(active, j) + Cardinality(Finishers(j))

\* A job nobody has submitted is nowhere, and nothing of it is in memory.
NewIsUntouched ==
  \A j \in Job : place[j] = "new" =>
    Whereabouts(j) = 0 /\ inflight[j] = 0 /\ Readers(j) = {} /\ j \notin data

Bookkept == Inv /\ NewIsUntouched

LEMMA WhereaboutsIs ==
  ASSUME Bookkept, NEW j \in Job
  PROVE  /\ Times(pending, j) \in Nat /\ Times(active, j) \in Nat
         /\ Cardinality(Finishers(j)) \in Nat
         /\ Whereabouts(j) <= 1 /\ Whereabouts(j) \in Nat
         /\ j \in Pending <=> Times(pending, j) = 1
         /\ j \in Active <=> Times(active, j) = 1
         /\ Finishers(j) # {} <=> Cardinality(Finishers(j)) = 1
<1>1. pending \in Seq(Job) /\ active \in Seq(Job)
  BY DEF Bookkept, Inv, TypeOK
<1>2. /\ Times(pending, j) \in Nat /\ (Times(pending, j) = 0 <=> j \notin Pending)
      /\ Times(active, j) \in Nat /\ (Times(active, j) = 0 <=> j \notin Active)
  BY <1>1, TimesIs DEF Pending, Active
<1>3. Cardinality(Finishers(j)) \in Nat /\ (Cardinality(Finishers(j)) = 0 <=> Finishers(j) = {})
  BY ThreadsCounted
<1>4. Whereabouts(j) <= 1
  BY DEF Bookkept, Inv, OnePlacePerJob, Whereabouts
<1> QED
  BY <1>2, <1>3, <1>4 DEF Whereabouts

LEMMA SamePlaces ==
  ASSUME Bookkept, Len(active') <= MaxActive, UNCHANGED <<place, caller, stopped>>,
         \A j \in Job : Whereabouts(j)' = Whereabouts(j)
  PROVE  OnePlacePerJob'
BY DEF Bookkept, Inv, OnePlacePerJob, Whereabouts

LEMMA SamePages ==
  ASSUME Bookkept, UNCHANGED <<work, stopped>>,
         \A j \in Job : Readers(j)' = Readers(j)
  PROVE  PagesAccounted'
<1>1. units' = units /\ inflight' = inflight /\ done' = done /\ erred' = erred
  BY DEF work
<1> QED
  BY <1>1 DEF Bookkept, Inv, PagesAccounted

\* A step that moves jobs without reading a page.
LEMMA OnlyMoved ==
  ASSUME Bookkept, TypeOK', Len(active') <= MaxActive,
         UNCHANGED <<work, place, caller, stopped>>, data' \subseteq data,
         \A j \in Job : Whereabouts(j)' = Whereabouts(j) /\ Readers(j)' = Readers(j),
         \A j \in Job : Finishers(j)' # {} => Finishers(j) # {} \/ Finishable(j)
  PROVE  Bookkept'
<1>1. OnePlacePerJob' /\ PagesAccounted'
  BY SamePlaces, SamePages
<1>2. units' = units /\ inflight' = inflight /\ done' = done /\ erred' = erred
  BY DEF work
<1>3. FinishedIsComplete'
  <2> SUFFICES ASSUME ~stopped, NEW j \in Job, Finishers(j)' # {}
               PROVE  /\ units[j] = 0 /\ inflight[j] = 0
                      /\ j \in erred \/ done[j] = Size[j]
    BY <1>2 DEF FinishedIsComplete
  <2>1. CASE Finishers(j) # {}
    BY <2>1 DEF Bookkept, Inv, FinishedIsComplete
  <2>2. CASE Finishable(j)
    <3>1. units[j] = 0 /\ inflight[j] = 0
      BY <2>2 DEF Finishable
    <3>2. j \notin erred => units[j] + inflight[j] + done[j] = Size[j]
      BY DEF Bookkept, Inv, PagesAccounted
    <3>3. done[j] \in Nat
      BY DEF Bookkept, Inv, TypeOK
    <3> QED
      BY <3>1, <3>2, <3>3
  <2> QED
    BY <2>1, <2>2
<1>4. NewIsUntouched'
  BY <1>2 DEF Bookkept, NewIsUntouched
<1> QED
  BY <1>1, <1>3, <1>4 DEF Bookkept, Inv

LEMMA TakeOutAt ==
  ASSUME NEW s \in Seq(Job), NEW i \in 1..Len(s), NEW k
  PROVE  /\ RemoveAt(s, i) \in Seq(Job) /\ Len(RemoveAt(s, i)) = Len(s) - 1
         /\ Times(RemoveAt(s, i), k) = IF k = s[i] THEN Times(s, k) - 1 ELSE Times(s, k)
         /\ ToSet(RemoveAt(s, i)) \subseteq ToSet(s)
<1>1. RemoveAt(s, i) \in Seq(Job) /\ Len(RemoveAt(s, i)) = Len(s) - 1
  BY RemoveAtIs
<1>2. /\ Cardinality(Places(RemoveAt(s, i), k)) =
           IF k = s[i] THEN Cardinality(Places(s, k)) - 1 ELSE Cardinality(Places(s, k))
      /\ ToSet(RemoveAt(s, i)) \subseteq ToSet(s)
  BY RemoveAtPlaces
<1> QED
  BY <1>1, <1>2 DEF Times, Places

LEMMA ToFinish ==
  ASSUME TypeOK, NEW w \in Worker, wk[w] = Idle, NEW k \in Job,
         wk' = [wk EXCEPT ![w] = [pc |-> "finish", job |-> k]], NEW j \in Job
  PROVE  /\ Cardinality(Finishers(j)') =
              IF j = k THEN Cardinality(Finishers(j)) + 1 ELSE Cardinality(Finishers(j))
         /\ j # k => Finishers(j)' = Finishers(j)
         /\ Readers(j)' = Readers(j)
<1>1. wk'[w] = [pc |-> "finish", job |-> k] /\ OthersStay(w)
  BY DEF TypeOK, OthersStay
<1>2. w \notin Finishers(j) /\ w \notin Readers(j) /\ w \notin Readers(j)'
  BY <1>1 DEF Finishers, Readers, Idle
<1>3. w \in Finishers(j)' <=> j = k
  BY <1>1 DEF Finishers
<1> QED
  BY <1>1, <1>2, <1>3, ThreadMoves

LEMMA TakeFinishedKeeps ==
  ASSUME Bookkept, NEW w \in Worker, TakeFinished(w)
  PROVE  Bookkept'
<1> DEFINE i == FirstFinishable
           k == active[i]
<1>1. /\ TypeOK /\ wk[w] = Idle /\ active \in Seq(Job) /\ Len(active) <= MaxActive
      /\ active' = RemoveAt(active, i) /\ pending' = pending
      /\ wk' = [wk EXCEPT ![w] = [pc |-> "finish", job |-> k]]
      /\ UNCHANGED <<lanes, work, place, caller, stopped, data, order, bypass>>
  BY DEF Bookkept, Inv, OnePlacePerJob, TakeFinished, Scheduling, TypeOK
<1>2. i \in 1..Len(active) /\ Finishable(k)
  BY <1>1, FirstFinishableIs DEF TakeFinished
<1>3. k \in Job
  BY <1>1, <1>2, SeqIs
<1> HIDE DEF i, k
<1>4. active' \in Seq(Job) /\ Len(active') = Len(active) - 1
  BY <1>1, <1>2, RemoveAtIs
<1>5. Len(active') <= MaxActive
  BY <1>1, <1>4, SeqIs, SlotAssumption
<1>6. TypeOK'
  <2>1. wk' \in [Worker -> [pc : {"open", "read", "finish"}, job : Job] \cup {Idle, Asleep, Gone}]
    BY <1>1, <1>3 DEF TypeOK
  <2> QED
    BY <1>1, <1>4, <2>1 DEF TypeOK, lanes, work, order
<1>7. ASSUME NEW j \in Job
      PROVE  /\ Whereabouts(j)' = Whereabouts(j) /\ Readers(j)' = Readers(j)
             /\ Finishers(j)' # {} => Finishers(j) # {} \/ Finishable(j)
  <2>1. Times(active', j) = IF j = k THEN Times(active, j) - 1 ELSE Times(active, j)
    <3>1. Times(RemoveAt(active, i), j) =
            IF j = active[i] THEN Times(active, j) - 1 ELSE Times(active, j)
      BY <1>1, <1>2, TakeOutAt
    <3> QED
      BY <1>1, <3>1 DEF k
  <2>2. /\ Cardinality(Finishers(j)') =
             IF j = k THEN Cardinality(Finishers(j)) + 1 ELSE Cardinality(Finishers(j))
        /\ j # k => Finishers(j)' = Finishers(j)
        /\ Readers(j)' = Readers(j)
    BY <1>1, <1>3, ToFinish
  <2>3. /\ Times(pending, j) \in Nat /\ Times(active, j) \in Nat
        /\ Cardinality(Finishers(j)) \in Nat
    BY WhereaboutsIs
  <2>4. Whereabouts(j)' = Times(pending', j) + Times(active', j) + Cardinality(Finishers(j)')
    BY DEF Whereabouts, Times
  <2>5. Whereabouts(j)' = Whereabouts(j)
    BY <1>1, <2>1, <2>2, <2>3, <2>4 DEF Whereabouts
  <2> QED
    BY <1>2, <2>2, <2>5
<1> QED
  BY <1>1, <1>5, <1>6, <1>7, OnlyMoved

\* The pass of the scheduler, seen by the bookkeeping.
LEMMA PassCounts ==
  ASSUME Bookkept
  PROVE  /\ Filled.pending \in Seq(Job) /\ Filled.active \in Seq(Job) /\ Filled.preferSync \in BOOLEAN
         /\ Len(Filled.active) <= MaxActive /\ Len(Filled.active) \in Nat
         /\ \A j \in Job : /\ Times(Filled.pending, j) \in Nat /\ Times(Filled.active, j) \in Nat
                           /\ Times(Filled.pending, j) + Times(Filled.active, j) =
                                Times(pending, j) + Times(active, j)
<1>1. TypeOK /\ Len(active) <= MaxActive
  BY DEF Bookkept, Inv, OnePlacePerJob
<1>2. Filled \in SlotState /\ Len(Filled.active) <= MaxActive
  BY <1>1, FilledCounts
<1>3. \A j \in Job : Slotted(Filled, j) = Times(pending, j) + Times(active, j)
  BY <1>1, FilledCounts
<1>4. Filled.pending \in Seq(Job) /\ Filled.active \in Seq(Job) /\ Filled.preferSync \in BOOLEAN
  BY <1>2 DEF SlotState
<1>5. Len(Filled.active) \in Nat
  BY <1>4, SeqIs
<1>6. \A j \in Job : Times(Filled.pending, j) \in Nat /\ Times(Filled.active, j) \in Nat
  BY <1>4, TimesIs
<1> QED
  BY <1>2, <1>3, <1>4, <1>5, <1>6 DEF Slotted

LEMMA TakeEmptyKeeps ==
  ASSUME Bookkept, NEW w \in Worker, TakeEmpty(w)
  PROVE  Bookkept'
<1> DEFINE act == Filled.active
           at == Chosen[act]
           k == act[at]
<1>1. /\ TypeOK /\ wk[w] = Idle /\ at # 0 /\ Finishable(k)
      /\ pending' = Filled.pending /\ active' = RemoveAt(act, at) /\ preferSync' = Filled.preferSync
      /\ data' \subseteq data
      /\ wk' = [wk EXCEPT ![w] = [pc |-> "finish", job |-> k]]
      /\ UNCHANGED <<persistentRR, syncRR, syncStreak, stopped, work, place, caller, order, bypass>>
  BY DEF Bookkept, Inv, TakeEmpty, TakeSlots, Scheduling
<1>2. /\ act \in Seq(Job) /\ Len(act) <= MaxActive /\ Len(act) \in Nat
      /\ Filled.pending \in Seq(Job) /\ Filled.preferSync \in BOOLEAN
  BY PassCounts
<1>3. at \in 1..Len(act)
  BY <1>1, <1>2, ChosenIs
<1>4. k \in Job
  BY <1>2, <1>3, SeqIs
<1>5. active' \in Seq(Job) /\ Len(active') = Len(act) - 1
  BY <1>1, <1>2, <1>3, RemoveAtIs
<1>6. Len(active') <= MaxActive
  BY <1>2, <1>5, SlotAssumption
<1>7. TypeOK'
  <2> HIDE DEF k, act
  <2>1. wk' \in [Worker -> [pc : {"open", "read", "finish"}, job : Job] \cup {Idle, Asleep, Gone}]
    BY <1>1, <1>4 DEF TypeOK
  <2> QED
    BY <1>1, <1>2, <1>5, <2>1 DEF TypeOK, work, order
<1>8. ASSUME NEW j \in Job
      PROVE  /\ Whereabouts(j)' = Whereabouts(j) /\ Readers(j)' = Readers(j)
             /\ Finishers(j)' # {} => Finishers(j) # {} \/ Finishable(j)
  <2>1. Times(RemoveAt(act, at), j) = IF j = act[at] THEN Times(act, j) - 1 ELSE Times(act, j)
    BY <1>2, <1>3, TakeOutAt
  <2>2. /\ Cardinality(Finishers(j)') =
             IF j = k THEN Cardinality(Finishers(j)) + 1 ELSE Cardinality(Finishers(j))
        /\ j # k => Finishers(j)' = Finishers(j)
        /\ Readers(j)' = Readers(j)
    <3> HIDE DEF k
    <3> QED
      BY <1>1, <1>4, ToFinish
  <2>3. /\ Times(pending, j) \in Nat /\ Times(active, j) \in Nat
        /\ Cardinality(Finishers(j)) \in Nat
    BY WhereaboutsIs
  <2>4. /\ Times(Filled.pending, j) \in Nat /\ Times(act, j) \in Nat
        /\ Times(Filled.pending, j) + Times(act, j) = Times(pending, j) + Times(active, j)
    BY PassCounts
  <2>5. Whereabouts(j)' = Times(pending', j) + Times(active', j) + Cardinality(Finishers(j)')
    BY DEF Whereabouts, Times
  <2>6. Whereabouts(j)' = Whereabouts(j)
    <3> HIDE DEF act, at
    <3> QED
      BY <1>1, <2>1, <2>2, <2>3, <2>4, <2>5 DEF Whereabouts
  <2> QED
    BY <1>1, <2>2, <2>6
<1> QED
  BY <1>1, <1>6, <1>7, <1>8, OnlyMoved

LEMMA SleepKeeps ==
  ASSUME Bookkept, NEW w \in Worker, Sleep(w)
  PROVE  Bookkept'
<1>1. /\ TypeOK /\ wk[w] = Idle
      /\ pending' = Filled.pending /\ active' = Filled.active /\ preferSync' = Filled.preferSync
      /\ data' \subseteq data
      /\ wk' = [wk EXCEPT ![w] = Asleep]
      /\ UNCHANGED <<persistentRR, syncRR, syncStreak, stopped, work, place, caller, order, bypass>>
  BY DEF Bookkept, Inv, Sleep, TakeSlots, Scheduling
<1>2. /\ active' \in Seq(Job) /\ Len(active') <= MaxActive
      /\ pending' \in Seq(Job) /\ preferSync' \in BOOLEAN
  BY <1>1, PassCounts
<1>3. TypeOK'
  <2>1. wk' \in [Worker -> [pc : {"open", "read", "finish"}, job : Job] \cup {Idle, Asleep, Gone}]
    BY <1>1 DEF TypeOK
  <2> QED
    BY <1>1, <1>2, <2>1 DEF TypeOK, work, order
<1>4. \A v \in Worker : wk'[v] = wk[v] \/ {wk[v], wk'[v]} \subseteq {Idle, Asleep, Gone}
  BY <1>1 DEF TypeOK
<1>5. ASSUME NEW j \in Job
      PROVE  /\ Whereabouts(j)' = Whereabouts(j) /\ Readers(j)' = Readers(j)
             /\ Finishers(j)' # {} => Finishers(j) # {} \/ Finishable(j)
  <2>1. Finishers(j)' = Finishers(j) /\ Readers(j)' = Readers(j)
    BY <1>4, ThreadsRest
  <2>2. Times(Filled.pending, j) + Times(Filled.active, j) = Times(pending, j) + Times(active, j)
    BY PassCounts
  <2>3. Whereabouts(j)' = Times(pending', j) + Times(active', j) + Cardinality(Finishers(j)')
    BY DEF Whereabouts, Times
  <2>4. Whereabouts(j)' = Whereabouts(j)
    BY <1>1, <2>1, <2>2, <2>3 DEF Whereabouts
  <2> QED
    BY <2>1, <2>4
<1> QED
  BY <1>1, <1>2, <1>3, <1>5, OnlyMoved

\* What holds of the job whose page a worker takes.
LEMMA PageTaken ==
  ASSUME Bookkept, NEW w \in Worker, TakePage(w)
  PROVE  LET j == Filled.active[Chosen[Filled.active]] IN
         /\ Chosen[Filled.active] \in 1..Len(Filled.active)
         /\ j \in Job /\ j \in ToSet(Filled.active) /\ HasUnits(j) /\ Ready(j)
         /\ Choosable(Filled.active, j) /\ ~Finishable(j)
         /\ Times(Filled.active, j) = 1 /\ Times(Filled.pending, j) = 0
         /\ Finishers(j) = {} /\ Whereabouts(j) = 1
<1> DEFINE act == Filled.active
           at == Chosen[act]
           j == act[at]
<1>1. TypeOK /\ at # 0 /\ ~Finishable(j)
  BY DEF Bookkept, Inv, TakePage
<1>2. act \in Seq(Job)
  BY PassCounts
<1>3. at \in 1..Len(act) /\ Choosable(act, j)
  BY <1>1, <1>2, ChosenIs
<1>4. j \in Job /\ j \in ToSet(act)
  BY <1>2, <1>3, SeqIs
<1> HIDE DEF act, at, j
<1>5. Ready(j)
  BY <1>1, <1>3 DEF Choosable
<1>6. Times(act, j) # 0
  BY <1>2, <1>4, TimesIs
<1>7. /\ Times(Filled.pending, j) \in Nat /\ Times(act, j) \in Nat
      /\ Times(Filled.pending, j) + Times(act, j) = Times(pending, j) + Times(active, j)
  BY <1>4, PassCounts DEF act
<1>8. /\ Times(pending, j) \in Nat /\ Times(active, j) \in Nat /\ Cardinality(Finishers(j)) \in Nat
      /\ Whereabouts(j) <= 1 /\ (Finishers(j) # {} <=> Cardinality(Finishers(j)) = 1)
  BY <1>4, WhereaboutsIs
<1>9. /\ Times(act, j) = 1 /\ Times(Filled.pending, j) = 0
      /\ Finishers(j) = {} /\ Whereabouts(j) = 1
  BY <1>6, <1>7, <1>8 DEF Whereabouts
<1>10. HasUnits(j)
  BY <1>5 DEF Ready
<1> QED
  BY <1>1, <1>3, <1>4, <1>5, <1>9, <1>10 DEF act, at, j

LEMMA TakePageKeeps ==
  ASSUME Bookkept, NEW w \in Worker, TakePage(w)
  PROVE  Bookkept'
<1> DEFINE act == Filled.active
           at == Chosen[act]
           k == act[at]
<1>1. /\ TypeOK /\ wk[w] = Idle /\ ~stopped
      /\ pending' = Filled.pending /\ active' = act /\ preferSync' = Filled.preferSync
      /\ data' \subseteq data
      /\ persistentRR' = IF k \in Persistent THEN at ELSE persistentRR
      /\ syncRR' = IF k \in Sync THEN at ELSE syncRR
      /\ syncStreak' = NextStreak(k)
      /\ units' = [units EXCEPT ![k] = @ - 1]
      /\ inflight' = [inflight EXCEPT ![k] = @ + 1]
      /\ wk' = [wk EXCEPT ![w] = [pc |-> "open", job |-> k]]
      /\ bypass' \in {0, bypass + 1}
      /\ UNCHANGED <<stopped, done, erred, place, caller, order>>
  BY DEF Bookkept, Inv, TakePage, TakeSlots, Scheduling
<1>2. /\ act \in Seq(Job) /\ Len(act) <= MaxActive /\ Len(act) \in Nat
      /\ Filled.pending \in Seq(Job) /\ Filled.preferSync \in BOOLEAN
      /\ \A j \in Job : Times(Filled.pending, j) + Times(act, j) = Times(pending, j) + Times(active, j)
  BY PassCounts
<1>3. /\ at \in 1..Len(act) /\ k \in Job /\ HasUnits(k)
      /\ Finishers(k) = {} /\ Whereabouts(k) = 1
  BY PageTaken
<1> HIDE DEF act, at, k
<1>4. units[k] \in Nat /\ units[k] > 0 /\ inflight[k] \in Nat
  BY <1>1, <1>3 DEF HasUnits, TypeOK
<1>5. /\ units' \in [Job -> Nat] /\ inflight' \in [Job -> Nat]
      /\ units'[k] = units[k] - 1 /\ inflight'[k] = inflight[k] + 1
      /\ \A j \in Job : j # k => units'[j] = units[j] /\ inflight'[j] = inflight[j]
  BY <1>1, <1>3, <1>4 DEF TypeOK
<1>6. syncStreak' \in 0..2
  BY <1>1, <1>3 DEF NextStreak, TypeOK, Job
<1>7. TypeOK'
  <2>1. wk' \in [Worker -> [pc : {"open", "read", "finish"}, job : Job] \cup {Idle, Asleep, Gone}]
    BY <1>1, <1>3 DEF TypeOK
  <2>2. persistentRR' \in 0..MaxActive /\ syncRR' \in 0..MaxActive
    BY <1>1, <1>2, <1>3, SlotAssumption DEF TypeOK
  <2>3. bypass' \in Nat
    BY <1>1 DEF TypeOK
  <2> QED
    BY <1>1, <1>2, <1>5, <1>6, <2>1, <2>2, <2>3 DEF TypeOK, order
<1>8. ASSUME NEW j \in Job
      PROVE  /\ Finishers(j)' = Finishers(j)
             /\ Cardinality(Readers(j)') =
                  IF j = k THEN Cardinality(Readers(j)) + 1 ELSE Cardinality(Readers(j))
             /\ j # k => Readers(j)' = Readers(j)
  <2>1. wk'[w] = [pc |-> "open", job |-> k] /\ OthersStay(w)
    BY <1>1 DEF TypeOK, OthersStay
  <2>2. w \notin Finishers(j) /\ w \notin Finishers(j)' /\ w \notin Readers(j)
    BY <1>1, <2>1 DEF Finishers, Readers, Idle
  <2>3. w \in Readers(j)' <=> j = k
    BY <2>1 DEF Readers
  <2> QED
    BY <2>1, <2>2, <2>3, ThreadMoves
<1>9. ASSUME NEW j \in Job
      PROVE  Whereabouts(j)' = Whereabouts(j)
  <2>1. Whereabouts(j)' = Times(pending', j) + Times(active', j) + Cardinality(Finishers(j)')
    BY DEF Whereabouts, Times
  <2> QED
    BY <1>1, <1>2, <1>8, <2>1 DEF Whereabouts
<1>10. OnePlacePerJob'
  BY <1>1, <1>2, <1>9, SamePlaces
<1>11. PagesAccounted'
  <2> SUFFICES ASSUME NEW j \in Job
               PROVE  /\ inflight'[j] = Cardinality(Readers(j)')
                      /\ j \notin erred => units'[j] + inflight'[j] + done[j] = Size[j]
    BY <1>1 DEF PagesAccounted
  <2>1. /\ inflight[j] = Cardinality(Readers(j))
        /\ j \notin erred => units[j] + inflight[j] + done[j] = Size[j]
    BY <1>1 DEF Bookkept, Inv, PagesAccounted
  <2>2. done[j] \in Nat
    BY <1>1 DEF TypeOK
  <2> QED
    BY <1>4, <1>5, <1>8, <2>1, <2>2
<1>12. FinishedIsComplete'
  <2> SUFFICES ASSUME NEW j \in Job, Finishers(j)' # {}
               PROVE  /\ units'[j] = 0 /\ inflight'[j] = 0
                      /\ j \in erred \/ done[j] = Size[j]
    BY <1>1 DEF FinishedIsComplete
  <2>1. Finishers(j) # {} /\ j # k
    BY <1>3, <1>8
  <2> QED
    BY <1>1, <1>5, <2>1 DEF Bookkept, Inv, FinishedIsComplete
<1>13. NewIsUntouched'
  <2> SUFFICES ASSUME NEW j \in Job, place[j] = "new"
               PROVE  /\ Whereabouts(j)' = 0 /\ inflight'[j] = 0
                      /\ Readers(j)' = {} /\ j \notin data'
    BY <1>1 DEF NewIsUntouched
  <2>1. /\ Whereabouts(j) = 0 /\ inflight[j] = 0
        /\ Readers(j) = {} /\ j \notin data
    BY DEF Bookkept, NewIsUntouched
  <2> QED
    BY <1>1, <1>3, <1>5, <1>8, <1>9, <2>1
<1> QED
  BY <1>7, <1>10, <1>11, <1>12, <1>13 DEF Bookkept, Inv

\* A step that leaves the jobs and the pages where they are.
LEMMA NothingMoves ==
  ASSUME Bookkept, UNCHANGED <<pending, active, persistentRR, syncRR, preferSync, syncStreak,
                               stopped, units, inflight, done, erred, data, ticket, lastTicket,
                               place, bypass>>,
         \A v \in Worker : wk'[v] = wk[v] \/ {wk[v], wk'[v]} \subseteq {Idle, Asleep, Gone},
         TypeOK', \A j \in Sync : caller[j] = "timedout" => caller'[j] = "timedout"
  PROVE  Bookkept'
<1>1. \A j \in Job : Finishers(j)' = Finishers(j) /\ Readers(j)' = Readers(j)
  BY ThreadsRest
<1>2. \A j \in Job : Times(pending', j) = Times(pending, j) /\ Times(active', j) = Times(active, j)
  OBVIOUS
<1>3. OnePlacePerJob'
  BY <1>1, <1>2 DEF Bookkept, Inv, OnePlacePerJob
<1>4. PagesAccounted' /\ FinishedIsComplete'
  BY <1>1 DEF Bookkept, Inv, PagesAccounted, FinishedIsComplete
<1>5. NewIsUntouched'
  BY <1>1, <1>2 DEF Bookkept, NewIsUntouched, Whereabouts
<1> QED
  BY <1>3, <1>4, <1>5 DEF Bookkept, Inv

LEMMA LeaveKeeps ==
  ASSUME Bookkept, NEW w \in Worker, Leave(w)
  PROVE  Bookkept'
<1>1. TypeOK /\ wk[w] = Idle /\ wk' = [wk EXCEPT ![w] = Gone]
  BY DEF Bookkept, Inv, Leave
<1>2. wk' \in [Worker -> [pc : {"open", "read", "finish"}, job : Job] \cup {Idle, Asleep, Gone}]
  BY <1>1 DEF TypeOK
<1>3. TypeOK'
  BY <1>1, <1>2 DEF TypeOK, Leave, lanes, work, order
<1>4. \A v \in Worker : wk'[v] = wk[v] \/ {wk[v], wk'[v]} \subseteq {Idle, Asleep, Gone}
  BY <1>1 DEF TypeOK
<1> QED
  BY <1>3, <1>4, NothingMoves DEF Leave, lanes, work, order

LEMMA CallersKeep ==
  ASSUME Bookkept, NEW j \in Sync, CallRejected(j) \/ Return(j) \/ Expire(j)
  PROVE  Bookkept'
<1>1. /\ TypeOK /\ caller[j] # "timedout"
      /\ \E c \in {"rejected", "returned", "expired"} : caller' = [caller EXCEPT ![j] = c]
      /\ UNCHANGED <<pending, active, lanes, stopped, work, data, place, wk, bypass, order>>
  BY DEF Bookkept, Inv, CallRejected, Return, Expire
<1>2. caller' \in [Sync -> {"new", "waiting", "expired", "returned", "timedout", "rejected"}]
  BY <1>1 DEF TypeOK
<1>3. TypeOK'
  BY <1>1, <1>2 DEF TypeOK, lanes, work, order
<1>4. \A k \in Sync : caller[k] = "timedout" => caller'[k] = "timedout"
  BY <1>1 DEF TypeOK
<1> QED
  BY <1>1, <1>3, <1>4, NothingMoves DEF lanes, work, order

LEMMA OpenInputKeeps ==
  ASSUME Bookkept, NEW w \in Worker, OpenInput(w)
  PROVE  Bookkept'
<1> DEFINE k == wk[w].job
<1>1. /\ TypeOK /\ wk[w].pc = "open" /\ wk' = [wk EXCEPT ![w].pc = "read"]
      /\ data' = IF k \in Persistent THEN data \cup {k} ELSE data
      /\ UNCHANGED <<pending, active, lanes, stopped, work, place, caller, bypass, order>>
  BY DEF Bookkept, Inv, OpenInput
<1>2. /\ wk[w] \in [pc : {"open", "read", "finish"}, job : Job] /\ k \in Job
      /\ wk'[w] = [pc |-> "read", job |-> k] /\ wk[w] = [pc |-> "open", job |-> k]
      /\ \A v \in Worker \ {w} : wk'[v] = wk[v]
  BY <1>1 DEF TypeOK, Idle, Asleep, Gone
<1> HIDE DEF k
<1>3. TypeOK'
  <2>1. wk' = [wk EXCEPT ![w] = [pc |-> "read", job |-> k]]
    BY <1>1, <1>2 DEF TypeOK
  <2>2. wk' \in [Worker -> [pc : {"open", "read", "finish"}, job : Job] \cup {Idle, Asleep, Gone}]
    BY <1>1, <1>2, <2>1 DEF TypeOK
  <2>3. data' \subseteq Persistent
    BY <1>1 DEF TypeOK
  <2> QED
    BY <1>1, <2>2, <2>3 DEF TypeOK, lanes, work, order
<1>4. OthersStay(w)
  BY <1>2 DEF OthersStay
<1>5. ASSUME NEW j \in Job
      PROVE  Finishers(j)' = Finishers(j) /\ Readers(j)' = Readers(j)
  <2>1. w \notin Finishers(j) /\ w \notin Finishers(j)' /\ (w \in Readers(j) <=> w \in Readers(j)')
    BY <1>2 DEF Finishers, Readers
  <2> QED
    BY <1>4, <2>1, ThreadMoves
<1>6. \A j \in Job : Times(pending', j) = Times(pending, j) /\ Times(active', j) = Times(active, j)
  BY <1>1
<1>7. OnePlacePerJob'
  BY <1>1, <1>5, <1>6 DEF Bookkept, Inv, OnePlacePerJob
<1>8. PagesAccounted' /\ FinishedIsComplete'
  BY <1>1, <1>5 DEF Bookkept, Inv, PagesAccounted, FinishedIsComplete, work
<1>9. NewIsUntouched'
  <2>1. w \in Readers(k)
    BY <1>2 DEF Readers
  <2>2. place[k] # "new"
    BY <1>2, <2>1 DEF Bookkept, NewIsUntouched
  <2>3. \A j \in Job : j # k => (j \in data' <=> j \in data)
    BY <1>1
  <2> QED
    BY <1>1, <1>5, <1>6, <2>2, <2>3 DEF Bookkept, NewIsUntouched, Whereabouts, work
<1> QED
  BY <1>3, <1>7, <1>8, <1>9 DEF Bookkept, Inv

LEMMA FinishJobKeeps ==
  ASSUME Bookkept, NEW w \in Worker, FinishJob(w)
  PROVE  Bookkept'
<1> DEFINE k == wk[w].job
<1>1. /\ TypeOK /\ wk[w].pc = "finish" /\ wk' = [wk EXCEPT ![w] = Idle]
      /\ place' = IF stopped /\ k \in Persistent THEN place ELSE [place EXCEPT ![k] = "settled"]
      /\ data' = data \ {k}
      /\ UNCHANGED <<pending, active, lanes, stopped, work, caller, bypass, order>>
  BY DEF Bookkept, Inv, FinishJob
<1>2. /\ k \in Job /\ wk'[w] = Idle /\ wk[w] = [pc |-> "finish", job |-> k]
      /\ \A v \in Worker \ {w} : wk'[v] = wk[v]
  BY <1>1 DEF TypeOK, Idle, Asleep, Gone
<1> HIDE DEF k
<1>3. TypeOK'
  <2>1. wk' \in [Worker -> [pc : {"open", "read", "finish"}, job : Job] \cup {Idle, Asleep, Gone}]
    BY <1>1 DEF TypeOK
  <2>2. data' \subseteq Persistent /\ place' \in [Job -> {"new", "queued", "settled"}]
    BY <1>1, <1>2 DEF TypeOK
  <2> QED
    BY <1>1, <2>1, <2>2 DEF TypeOK, lanes, work, order
<1>4. OthersStay(w)
  BY <1>2 DEF OthersStay
<1>5. NoJob \notin Job
  BY LaneAssumption
<1>6. ASSUME NEW j \in Job
      PROVE  /\ Cardinality(Finishers(j)') =
                  IF j = k THEN Cardinality(Finishers(j)) - 1 ELSE Cardinality(Finishers(j))
             /\ j # k => Finishers(j)' = Finishers(j)
             /\ Readers(j)' = Readers(j)
  <2>1. /\ w \in Finishers(j) <=> j = k
        /\ w \notin Finishers(j)' /\ w \notin Readers(j) /\ w \notin Readers(j)'
    BY <1>2, <1>5 DEF Finishers, Readers, Idle
  <2> QED
    BY <1>4, <2>1, ThreadMoves
<1>7. ASSUME NEW j \in Job
      PROVE  Times(pending', j) = Times(pending, j) /\ Times(active', j) = Times(active, j)
  BY <1>1
<1>8. w \in Finishers(k) /\ place[k] # "new"
  <2>1. w \in Finishers(k)
    BY <1>2 DEF Finishers
  <2>2. Whereabouts(k) # 0
    BY <1>2, <2>1, WhereaboutsIs DEF Whereabouts
  <2> QED
    BY <1>2, <2>1, <2>2 DEF Bookkept, NewIsUntouched
<1>9. OnePlacePerJob'
  <2> SUFFICES ASSUME NEW j \in Job
               PROVE  LET places == Times(pending', j) + Times(active', j) + Cardinality(Finishers(j)') IN
                      /\ places <= 1
                      /\ place'[j] = "queued" /\ ~stopped =>
                           places = 1 \/ (j \in Sync /\ caller[j] = "timedout")
    BY <1>1 DEF Bookkept, Inv, OnePlacePerJob
  <2>1. /\ Times(pending, j) \in Nat /\ Times(active, j) \in Nat /\ Cardinality(Finishers(j)) \in Nat
    BY WhereaboutsIs
  <2>2. LET places == Times(pending, j) + Times(active, j) + Cardinality(Finishers(j)) IN
        /\ places <= 1
        /\ place[j] = "queued" /\ ~stopped =>
             places = 1 \/ (j \in Sync /\ caller[j] = "timedout")
    BY DEF Bookkept, Inv, OnePlacePerJob
  <2>3. place'[j] = "queued" /\ ~stopped => j # k /\ place[j] = "queued"
    BY <1>1, <1>2 DEF TypeOK
  <2> QED
    BY <1>6, <1>7, <2>1, <2>2, <2>3
<1>10. PagesAccounted'
  BY <1>1, <1>6 DEF Bookkept, Inv, PagesAccounted, work
<1>11. FinishedIsComplete'
  BY <1>1, <1>6, <1>8 DEF Bookkept, Inv, FinishedIsComplete, work
<1>12. NewIsUntouched'
  <2> SUFFICES ASSUME NEW j \in Job, place'[j] = "new"
               PROVE  /\ Times(pending', j) + Times(active', j) + Cardinality(Finishers(j)') = 0
                      /\ inflight[j] = 0 /\ Readers(j)' = {} /\ j \notin data'
    BY <1>1 DEF NewIsUntouched, Whereabouts, Times, work
  <2>1. place[j] = "new" /\ j # k
    BY <1>1, <1>2, <1>8 DEF TypeOK
  <2>2. /\ Whereabouts(j) = 0 /\ inflight[j] = 0 /\ Readers(j) = {} /\ j \notin data
    BY <2>1 DEF Bookkept, NewIsUntouched
  <2> QED
    BY <1>1, <1>6, <1>7, <2>1, <2>2 DEF Whereabouts
<1> QED
  BY <1>3, <1>9, <1>10, <1>11, <1>12 DEF Bookkept, Inv

LEMMA ReturnPageKeeps ==
  ASSUME Bookkept, NEW w \in Worker, ReturnPage(w)
  PROVE  Bookkept'
<1> DEFINE k == wk[w].job
<1>1. /\ TypeOK /\ wk[w].pc = "read"
      /\ UNCHANGED <<pending, active, lanes, stopped, data, place, caller, bypass, order>>
  BY DEF Bookkept, Inv, ReturnPage
<1>2. /\ stopped => wk' = [wk EXCEPT ![w] = Idle] /\ UNCHANGED work
      /\ ~stopped => /\ inflight' = [inflight EXCEPT ![k] = @ - 1]
                     /\ \/ done' = [done EXCEPT ![k] = @ + 1] /\ UNCHANGED <<units, erred>>
                        \/ /\ erred' = erred \cup {k}
                           /\ units' = [units EXCEPT ![k] = 0]
                           /\ UNCHANGED done
                     /\ NotifyAnd(w, Idle)
  BY DEF ReturnPage
<1>3. wk[w] \in [pc : {"open", "read", "finish"}, job : Job] /\ k \in Job
      /\ wk[w] = [pc |-> "read", job |-> k]
  BY <1>1 DEF TypeOK, Idle, Asleep, Gone
<1> HIDE DEF k
<1>4. wk'[w] = Idle /\ OthersStay(w)
      /\ wk' \in [Worker -> [pc : {"open", "read", "finish"}, job : Job] \cup {Idle, Asleep, Gone}]
  BY <1>1, <1>2 DEF NotifyAnd, OthersStay, TypeOK
<1>5. NoJob \notin Job
  BY LaneAssumption
<1>6. ASSUME NEW j \in Job
      PROVE  /\ Cardinality(Readers(j)') =
                  IF j = k THEN Cardinality(Readers(j)) - 1 ELSE Cardinality(Readers(j))
             /\ j # k => Readers(j)' = Readers(j)
             /\ Finishers(j)' = Finishers(j)
  <2>1. /\ w \in Readers(j) <=> j = k
        /\ w \notin Readers(j)' /\ w \notin Finishers(j) /\ w \notin Finishers(j)'
    BY <1>3, <1>4, <1>5 DEF Finishers, Readers, Idle
  <2> QED
    BY <1>4, <2>1, ThreadMoves
<1>7. ASSUME NEW j \in Job
      PROVE  Times(pending', j) = Times(pending, j) /\ Times(active', j) = Times(active, j)
  BY <1>1
<1>8. Readers(k) # {} /\ place[k] # "new"
  <2>1. w \in Readers(k)
    BY <1>3 DEF Readers
  <2> QED
    BY <1>3, <2>1 DEF Bookkept, NewIsUntouched
<1>9. ~stopped => inflight[k] \in Nat \ {0} /\ Finishers(k) = {}
  <2>1. inflight[k] \in Nat /\ Cardinality(Readers(k)) # 0
    BY <1>1, <1>3, <1>8, ThreadsCounted DEF TypeOK
  <2> QED
    BY <1>3, <2>1 DEF Bookkept, Inv, PagesAccounted, FinishedIsComplete
<1>10. /\ units' \in [Job -> Nat] /\ inflight' \in [Job -> Nat] /\ done' \in [Job -> Nat]
       /\ erred' \subseteq Job
       /\ \A j \in Job : j # k => /\ units'[j] = units[j] /\ inflight'[j] = inflight[j]
                                  /\ done'[j] = done[j] /\ (j \in erred' <=> j \in erred)
  <2>1. CASE stopped
    BY <1>1, <1>2, <2>1 DEF TypeOK, work
  <2>2. CASE ~stopped
    <3>0. /\ units \in [Job -> Nat] /\ inflight \in [Job -> Nat] /\ done \in [Job -> Nat]
          /\ inflight[k] - 1 \in Nat /\ done[k] + 1 \in Nat
      BY <1>1, <1>3, <1>9, <2>2 DEF TypeOK
    <3>1. inflight' \in [Job -> Nat] /\ \A j \in Job : j # k => inflight'[j] = inflight[j]
      BY <1>2, <2>2, <3>0
    <3>2. done' \in [Job -> Nat] /\ \A j \in Job : j # k => done'[j] = done[j]
      BY <1>2, <2>2, <3>0
    <3>3. units' \in [Job -> Nat] /\ \A j \in Job : j # k => units'[j] = units[j]
      BY <1>2, <2>2, <3>0
    <3>4. erred' \subseteq Job /\ \A j \in Job : j # k => (j \in erred' <=> j \in erred)
      BY <1>1, <1>2, <1>3, <2>2 DEF TypeOK
    <3> QED
      BY <3>1, <3>2, <3>3, <3>4
  <2> QED
    BY <2>1, <2>2
<1>11. TypeOK'
  BY <1>1, <1>4, <1>10 DEF TypeOK, lanes, order
<1>12. OnePlacePerJob'
  BY <1>1, <1>6, <1>7 DEF Bookkept, Inv, OnePlacePerJob
<1>13. PagesAccounted'
  <2> SUFFICES ASSUME ~stopped, NEW j \in Job
               PROVE  /\ inflight'[j] = Cardinality(Readers(j)')
                      /\ j \notin erred' => units'[j] + inflight'[j] + done'[j] = Size[j]
    BY <1>1 DEF PagesAccounted
  <2>1. /\ inflight[j] = Cardinality(Readers(j))
        /\ j \notin erred => units[j] + inflight[j] + done[j] = Size[j]
        /\ units[j] \in Nat /\ inflight[j] \in Nat /\ done[j] \in Nat
    BY <1>1 DEF Bookkept, Inv, PagesAccounted, TypeOK
  <2>2. CASE j # k
    BY <1>6, <1>10, <2>1, <2>2
  <2>3. CASE j = k
    <3>1. inflight'[j] = inflight[j] - 1
      BY <1>1, <1>2, <2>3 DEF TypeOK
    <3>2. j \notin erred' =>
            done'[j] = done[j] + 1 /\ units'[j] = units[j] /\ j \notin erred
      BY <1>1, <1>2, <2>3 DEF TypeOK
    <3> QED
      BY <1>6, <2>1, <2>3, <3>1, <3>2
  <2> QED
    BY <2>2, <2>3
<1>14. FinishedIsComplete'
  <2> SUFFICES ASSUME ~stopped, NEW j \in Job, Finishers(j)' # {}
               PROVE  /\ units'[j] = 0 /\ inflight'[j] = 0
                      /\ j \in erred' \/ done'[j] = Size[j]
    BY <1>1 DEF FinishedIsComplete
  <2>1. Finishers(j) # {} /\ j # k
    BY <1>6, <1>9
  <2> QED
    BY <1>10, <2>1 DEF Bookkept, Inv, FinishedIsComplete
<1>15. NewIsUntouched'
  <2> SUFFICES ASSUME NEW j \in Job, place[j] = "new"
               PROVE  /\ Times(pending', j) + Times(active', j) + Cardinality(Finishers(j)') = 0
                      /\ inflight'[j] = 0 /\ Readers(j)' = {} /\ j \notin data
    BY <1>1 DEF NewIsUntouched, Whereabouts, Times
  <2>1. /\ Whereabouts(j) = 0 /\ inflight[j] = 0 /\ Readers(j) = {} /\ j \notin data /\ j # k
    BY <1>8 DEF Bookkept, NewIsUntouched
  <2> QED
    BY <1>6, <1>7, <1>10, <2>1 DEF Whereabouts
<1> QED
  BY <1>11, <1>12, <1>13, <1>14, <1>15 DEF Bookkept, Inv

LEMMA WokenKeeps ==
  ASSUME TypeOK, NotifyAll
  PROVE  /\ wk' \in [Worker -> [pc : {"open", "read", "finish"}, job : Job] \cup {Idle, Asleep, Gone}]
         /\ \A v \in Worker : wk'[v] = wk[v] \/ {wk[v], wk'[v]} \subseteq {Idle, Asleep, Gone}
         /\ \A v \in Worker : wk'[v] # Asleep
BY DEF TypeOK, NotifyAll, Idle, Asleep

LEMMA EnqueueKeeps ==
  ASSUME Bookkept, NEW k \in Job, EnqueueLocked(k),
         UNCHANGED <<active, lanes, stopped, work, data, bypass>>,
         caller' = caller \/ \E j \in Sync : caller[j] = "new" /\ caller' = [caller EXCEPT ![j] = "waiting"]
  PROVE  Bookkept'
<1>1. /\ TypeOK /\ place[k] = "new" /\ place' = [place EXCEPT ![k] = "queued"]
      /\ lastTicket' = lastTicket + 1 /\ ticket' = [ticket EXCEPT ![k] = lastTicket']
      /\ pending' = Append(pending, k) /\ NotifyAll
  BY DEF Bookkept, Inv, EnqueueLocked
<1>2. TypeOK'
  <2>1. caller' \in [Sync -> {"new", "waiting", "expired", "returned", "timedout", "rejected"}]
    BY <1>1 DEF TypeOK
  <2>2. /\ pending' \in Seq(Job) /\ place' \in [Job -> {"new", "queued", "settled"}]
        /\ lastTicket' \in Nat /\ ticket' \in [Job -> Nat]
    BY <1>1 DEF TypeOK
  <2> QED
    BY <1>1, <2>1, <2>2, WokenKeeps DEF TypeOK, lanes, work
<1>3. \A j \in Job : Finishers(j)' = Finishers(j) /\ Readers(j)' = Readers(j)
  BY <1>1, WokenKeeps, ThreadsRest
<1>4. ASSUME NEW j \in Job
      PROVE  /\ Times(pending', j) = IF j = k THEN Times(pending, j) + 1 ELSE Times(pending, j)
             /\ Times(active', j) = Times(active, j)
  <2>0. pending \in Seq(Job)
    BY <1>1 DEF TypeOK
  <2>1. Times(Append(pending, k), j) = IF j = k THEN Times(pending, j) + 1 ELSE Times(pending, j)
    BY <2>0, PutIn
  <2>2. pending' = Append(pending, k) /\ active' = active
    BY <1>1
  <2> QED
    BY <2>1, <2>2
<1>5. Whereabouts(k) = 0
  BY <1>1 DEF Bookkept, NewIsUntouched
<1>6. OnePlacePerJob'
  <2> SUFFICES ASSUME NEW j \in Job
               PROVE  LET places == Times(pending', j) + Times(active', j) + Cardinality(Finishers(j)') IN
                      /\ places <= 1
                      /\ place'[j] = "queued" /\ ~stopped =>
                           places = 1 \/ (j \in Sync /\ caller'[j] = "timedout")
    BY DEF Bookkept, Inv, OnePlacePerJob
  <2>1. Times(pending, j) \in Nat /\ Times(active, j) \in Nat /\ Cardinality(Finishers(j)) \in Nat
    BY WhereaboutsIs
  <2>2. LET places == Times(pending, j) + Times(active, j) + Cardinality(Finishers(j)) IN
        /\ places <= 1
        /\ place[j] = "queued" /\ ~stopped =>
             places = 1 \/ (j \in Sync /\ caller[j] = "timedout")
    BY DEF Bookkept, Inv, OnePlacePerJob
  <2>3. CASE j = k
    BY <1>3, <1>4, <1>5, <2>1, <2>3 DEF Whereabouts
  <2>4. CASE j # k
    <3>1. place'[j] = place[j]
      BY <1>1, <2>4 DEF TypeOK
    <3>2. j \in Sync /\ caller[j] = "timedout" => caller'[j] = "timedout"
      BY <1>1 DEF TypeOK
    <3> QED
      BY <1>3, <1>4, <2>2, <2>4, <3>1, <3>2
  <2> QED
    BY <2>3, <2>4
<1>7. PagesAccounted' /\ FinishedIsComplete'
  BY <1>3 DEF Bookkept, Inv, PagesAccounted, FinishedIsComplete, work
<1>8. NewIsUntouched'
  <2> SUFFICES ASSUME NEW j \in Job, place'[j] = "new"
               PROVE  /\ Times(pending', j) + Times(active', j) + Cardinality(Finishers(j)') = 0
                      /\ inflight[j] = 0 /\ Readers(j)' = {} /\ j \notin data
    BY DEF NewIsUntouched, Whereabouts, Times, work
  <2>1. j # k /\ place[j] = "new"
    BY <1>1 DEF TypeOK
  <2>2. /\ Whereabouts(j) = 0 /\ inflight[j] = 0 /\ Readers(j) = {} /\ j \notin data
    BY <2>1 DEF Bookkept, NewIsUntouched
  <2> QED
    BY <1>3, <1>4, <2>1, <2>2 DEF Whereabouts
<1> QED
  BY <1>2, <1>6, <1>7, <1>8 DEF Bookkept, Inv

\* Taking a job out of a sequence, whether or not it is there.
LEMMA TakeOutAny ==
  ASSUME NEW s \in Seq(Job), NEW j, NEW k
  PROVE  /\ RemoveFirst(s, j) \in Seq(Job) /\ Len(RemoveFirst(s, j)) <= Len(s)
         /\ Times(RemoveFirst(s, j), k) <= Times(s, k)
         /\ k # j => Times(RemoveFirst(s, j), k) = Times(s, k)
         /\ ToSet(RemoveFirst(s, j)) \subseteq ToSet(s)
         /\ Times(s, j) <= 1 => j \notin ToSet(RemoveFirst(s, j))
<1>1. Times(s, k) \in Nat /\ Times(s, j) \in Nat /\ Len(s) \in Nat
  BY TimesIs, SeqIs
<1>2. CASE j \notin ToSet(s)
  BY <1>1, <1>2, TakeOutNone
<1>3. CASE j \in ToSet(s)
  <2>1. /\ RemoveFirst(s, j) \in Seq(Job) /\ Len(RemoveFirst(s, j)) = Len(s) - 1
        /\ \A i : Times(RemoveFirst(s, j), i) = IF i = j THEN Times(s, i) - 1 ELSE Times(s, i)
        /\ ToSet(RemoveFirst(s, j)) \subseteq ToSet(s)
    BY <1>3, TakeOut
  <2>2. Times(RemoveFirst(s, j), j) \in Nat
        /\ (Times(RemoveFirst(s, j), j) = 0 <=> j \notin ToSet(RemoveFirst(s, j)))
    BY <2>1, TimesIs
  <2> QED
    BY <1>1, <2>1, <2>2
<1> QED
  BY <1>2, <1>3

LEMMA TimeOutKeeps ==
  ASSUME Bookkept, NEW k \in Sync, TimeOut(k)
  PROVE  Bookkept'
<1>1. /\ TypeOK /\ caller' = [caller EXCEPT ![k] = "timedout"]
      /\ erred' = erred \cup {k} /\ units' = [units EXCEPT ![k] = 0]
      /\ pending' = RemoveFirst(pending, k)
      /\ active' = IF inflight[k] = 0 THEN RemoveFirst(active, k) ELSE active
      /\ NotifyAll
      /\ UNCHANGED <<lanes, stopped, inflight, done, data, place, bypass, order>>
  BY DEF Bookkept, Inv, TimeOut
<1>2. k \in Job /\ pending \in Seq(Job) /\ active \in Seq(Job) /\ Len(active) <= MaxActive
  BY <1>1 DEF Job, TypeOK, Bookkept, Inv, OnePlacePerJob
<1>3. \A j \in Job : Finishers(j)' = Finishers(j) /\ Readers(j)' = Readers(j)
  BY <1>1, WokenKeeps, ThreadsRest
<1>4. pending' \in Seq(Job) /\ active' \in Seq(Job) /\ Len(active') <= MaxActive
  <2>1. RemoveFirst(pending, k) \in Seq(Job)
    BY <1>2, TakeOutAny
  <2>2. RemoveFirst(active, k) \in Seq(Job) /\ Len(RemoveFirst(active, k)) <= Len(active)
    BY <1>2, TakeOutAny
  <2>3. Len(active) \in Nat /\ Len(RemoveFirst(active, k)) \in Nat /\ MaxActive \in Nat
    BY <1>2, <2>2, SeqIs, SlotAssumption
  <2> QED
    BY <1>1, <1>2, <2>1, <2>2, <2>3
<1>5. ASSUME NEW j \in Job
      PROVE  /\ Times(pending', j) <= Times(pending, j) /\ Times(active', j) <= Times(active, j)
             /\ Times(pending', j) \in Nat /\ Times(active', j) \in Nat
             /\ j # k => Times(pending', j) = Times(pending, j) /\ Times(active', j) = Times(active, j)
  <2>1. /\ Times(RemoveFirst(pending, k), j) <= Times(pending, j)
        /\ j # k => Times(RemoveFirst(pending, k), j) = Times(pending, j)
    BY <1>2, TakeOutAny
  <2>2. /\ Times(RemoveFirst(active, k), j) <= Times(active, j)
        /\ j # k => Times(RemoveFirst(active, k), j) = Times(active, j)
    BY <1>2, TakeOutAny
  <2>3. Times(active, j) \in Nat
    BY <1>2, TimesIs
  <2>4. Times(pending', j) \in Nat /\ Times(active', j) \in Nat
    BY <1>4, TimesIs
  <2> QED
    BY <1>1, <2>1, <2>2, <2>3, <2>4
<1>6. /\ units' \in [Job -> Nat] /\ units'[k] = 0
      /\ \A j \in Job : j # k => units'[j] = units[j]
  BY <1>1, <1>2 DEF TypeOK
<1>7. TypeOK'
  <2>1. caller' \in [Sync -> {"new", "waiting", "expired", "returned", "timedout", "rejected"}]
        /\ erred' \subseteq Job
    BY <1>1, <1>2 DEF TypeOK
  <2> QED
    BY <1>1, <1>4, <1>6, <2>1, WokenKeeps DEF TypeOK, lanes, order
<1>8. OnePlacePerJob'
  <2> SUFFICES ASSUME NEW j \in Job
               PROVE  LET places == Times(pending', j) + Times(active', j) + Cardinality(Finishers(j)') IN
                      /\ places <= 1
                      /\ place[j] = "queued" /\ ~stopped =>
                           places = 1 \/ (j \in Sync /\ caller'[j] = "timedout")
    BY <1>1, <1>4 DEF OnePlacePerJob
  <2>1. Times(pending, j) \in Nat /\ Times(active, j) \in Nat /\ Cardinality(Finishers(j)) \in Nat
    BY WhereaboutsIs
  <2>2. LET places == Times(pending, j) + Times(active, j) + Cardinality(Finishers(j)) IN
        /\ places <= 1
        /\ place[j] = "queued" /\ ~stopped =>
             places = 1 \/ (j \in Sync /\ caller[j] = "timedout")
    BY DEF Bookkept, Inv, OnePlacePerJob
  <2>3. CASE j # k
    <3>1. j \in Sync => caller'[j] = caller[j]
      BY <1>1, <2>3 DEF TypeOK
    <3> QED
      BY <1>3, <1>5, <2>2, <2>3, <3>1
  <2>4. CASE j = k
    <3>1. caller'[j] = "timedout"
      BY <1>1, <2>4 DEF TypeOK
    <3> QED
      BY <1>3, <1>5, <2>1, <2>2, <2>4, <3>1
  <2> QED
    BY <2>3, <2>4
<1>9. PagesAccounted'
  <2> SUFFICES ASSUME ~stopped, NEW j \in Job
               PROVE  /\ inflight[j] = Cardinality(Readers(j)')
                      /\ j \notin erred' => units'[j] + inflight[j] + done[j] = Size[j]
    BY <1>1 DEF PagesAccounted
  <2>1. j \notin erred' => j # k /\ j \notin erred
    BY <1>1
  <2> QED
    BY <1>3, <1>6, <2>1 DEF Bookkept, Inv, PagesAccounted
<1>10. FinishedIsComplete'
  <2> SUFFICES ASSUME ~stopped, NEW j \in Job, Finishers(j)' # {}
               PROVE  /\ units'[j] = 0 /\ inflight[j] = 0
                      /\ j \in erred' \/ done[j] = Size[j]
    BY <1>1 DEF FinishedIsComplete
  <2>1. Finishers(j) # {}
    BY <1>3
  <2> QED
    BY <1>1, <1>6, <2>1 DEF Bookkept, Inv, FinishedIsComplete
<1>11. NewIsUntouched'
  <2> SUFFICES ASSUME NEW j \in Job, place[j] = "new"
               PROVE  /\ Times(pending', j) + Times(active', j) + Cardinality(Finishers(j)') = 0
                      /\ inflight[j] = 0 /\ Readers(j)' = {} /\ j \notin data
    BY <1>1 DEF NewIsUntouched, Whereabouts, Times
  <2>1. /\ Whereabouts(j) = 0 /\ inflight[j] = 0 /\ Readers(j) = {} /\ j \notin data
    BY DEF Bookkept, NewIsUntouched
  <2>2. Times(pending, j) \in Nat /\ Times(active, j) \in Nat /\ Cardinality(Finishers(j)) \in Nat
    BY WhereaboutsIs
  <2> QED
    BY <1>3, <1>5, <2>1, <2>2 DEF Whereabouts
<1> QED
  BY <1>7, <1>8, <1>9, <1>10, <1>11 DEF Bookkept, Inv

LEMMA ShutdownKeeps ==
  ASSUME Bookkept, Shutdown
  PROVE  Bookkept'
<1> DEFINE given == (Pending \cup Active) \cap Sync
<1>1. /\ TypeOK /\ stopped' = TRUE /\ erred' = erred \cup given
      /\ place' = [j \in Job |-> IF j \in given THEN "settled" ELSE place[j]]
      /\ NotifyAll
      /\ UNCHANGED <<pending, active, lanes, units, inflight, done, data, caller, bypass, order>>
  BY DEF Bookkept, Inv, Shutdown
<1>2. given \subseteq Job
  BY DEF Job
<1> HIDE DEF given
<1>3. TypeOK'
  <2>1. erred' \subseteq Job /\ place' \in [Job -> {"new", "queued", "settled"}]
    BY <1>1, <1>2 DEF TypeOK
  <2> QED
    BY <1>1, <2>1, WokenKeeps DEF TypeOK, lanes, order
<1>4. \A j \in Job : Finishers(j)' = Finishers(j) /\ Readers(j)' = Readers(j)
  BY <1>1, WokenKeeps, ThreadsRest
<1>5. \A j \in Job : Times(pending', j) = Times(pending, j) /\ Times(active', j) = Times(active, j)
  BY <1>1
<1>6. OnePlacePerJob' /\ PagesAccounted' /\ FinishedIsComplete'
  BY <1>1, <1>4, <1>5 DEF Bookkept, Inv, OnePlacePerJob, PagesAccounted, FinishedIsComplete
<1>7. NewIsUntouched'
  BY <1>1, <1>4, <1>5 DEF Bookkept, NewIsUntouched, Whereabouts
<1> QED
  BY <1>3, <1>6, <1>7 DEF Bookkept, Inv

LEMMA BookkeepingStarts == Init => Bookkept
<1> SUFFICES ASSUME Init PROVE Bookkept
  OBVIOUS
<1>0. <<>> \in Seq(Job) /\ Len(<<>>) = 0 /\ Cardinality({}) = 0 /\ 0 \in 0..MaxActive
  BY FS_EmptySet, SlotAssumption
<1>1. /\ pending = <<>> /\ active = <<>> /\ persistentRR = 0 /\ syncRR = 0
      /\ preferSync = TRUE /\ syncStreak = 0 /\ stopped = FALSE
      /\ units = Size /\ inflight = [j \in Job |-> 0] /\ done = [j \in Job |-> 0]
      /\ erred = {} /\ data = {} /\ ticket = [j \in Job |-> 0] /\ lastTicket = 0
      /\ place = [j \in Job |-> "new"] /\ caller = [j \in Sync |-> "new"]
      /\ wk = [w \in Worker |-> Idle] /\ bypass = 0
  BY DEF Init
<1>2. TypeOK
  <2>1. units \in [Job -> Nat] /\ inflight \in [Job -> Nat] /\ done \in [Job -> Nat]
        /\ ticket \in [Job -> Nat]
    BY <1>1, SizeAssumption
  <2>2. /\ place \in [Job -> {"new", "queued", "settled"}]
        /\ caller \in [Sync -> {"new", "waiting", "expired", "returned", "timedout", "rejected"}]
        /\ wk \in [Worker -> [pc : {"open", "read", "finish"}, job : Job] \cup {Idle, Asleep, Gone}]
    BY <1>1
  <2>3. pending \in Seq(Job) /\ active \in Seq(Job) /\ persistentRR \in 0..MaxActive /\ syncRR \in 0..MaxActive
    BY <1>0, <1>1
  <2>4. syncStreak \in 0..2 /\ lastTicket \in Nat /\ bypass \in Nat
    BY <1>1
  <2>5. preferSync \in BOOLEAN /\ stopped \in BOOLEAN /\ erred \subseteq Job /\ data \subseteq Persistent
    BY <1>1
  <2> QED
    BY <2>1, <2>2, <2>3, <2>4, <2>5, Zenon DEF TypeOK
<1>3. ASSUME NEW j \in Job
      PROVE  /\ Times(pending, j) = 0 /\ Times(active, j) = 0
             /\ Cardinality(Finishers(j)) = 0 /\ Cardinality(Readers(j)) = 0
             /\ Finishers(j) = {} /\ Readers(j) = {}
             /\ place[j] = "new" /\ inflight[j] = 0 /\ done[j] = 0 /\ units[j] = Size[j]
             /\ Size[j] \in Nat /\ j \notin data
  <2>1. DOMAIN pending = {} /\ DOMAIN active = {}
    BY <1>1
  <2>2. Times(pending, j) = 0 /\ Times(active, j) = 0
    <3>1. {i \in DOMAIN pending : pending[i] = j} = {} /\ {i \in DOMAIN active : active[i] = j} = {}
      BY <2>1
    <3> QED
      BY <1>0, <3>1 DEF Times
  <2>3. Finishers(j) = {} /\ Readers(j) = {}
    BY <1>1 DEF Finishers, Readers, Idle
  <2> QED
    BY <1>0, <1>1, <2>2, <2>3, SizeAssumption
<1>4. OnePlacePerJob
  <2>1. Len(active) <= MaxActive
    BY <1>0, <1>1, SlotAssumption
  <2> QED
    BY <1>3, <2>1 DEF OnePlacePerJob
<1>5. PagesAccounted
  BY <1>3 DEF PagesAccounted
<1>6. FinishedIsComplete /\ NewIsUntouched
  BY <1>3 DEF FinishedIsComplete, NewIsUntouched, Whereabouts
<1> QED
  BY <1>2, <1>4, <1>5, <1>6 DEF Bookkept, Inv

LEMMA BookkeepingStays == Bookkept /\ [Next]_vars => Bookkept'
<1> SUFFICES ASSUME Bookkept, [Next]_vars PROVE Bookkept'
  OBVIOUS
<1>1. ASSUME NEW w \in Worker, Work(w) PROVE Bookkept'
  BY <1>1, TakeFinishedKeeps, TakeEmptyKeeps, TakePageKeeps, SleepKeeps, LeaveKeeps,
     OpenInputKeeps, ReturnPageKeeps, FinishJobKeeps DEF Work
<1>2. ASSUME NEW j \in Persistent, Submit(j) PROVE Bookkept'
  BY <1>2, EnqueueKeeps DEF Submit, Job
<1>3. ASSUME NEW j \in Sync, Call(j) PROVE Bookkept'
  BY <1>3, EnqueueKeeps DEF Call, Job
<1>4. ASSUME NEW j \in Sync, CallRejected(j) \/ Return(j) \/ Expire(j) PROVE Bookkept'
  BY <1>4, CallersKeep
<1>5. ASSUME NEW j \in Sync, TimeOut(j) PROVE Bookkept'
  BY <1>5, TimeOutKeeps
<1>6. ASSUME Shutdown PROVE Bookkept'
  BY <1>6, ShutdownKeeps
<1>7. CASE UNCHANGED vars
  <2>1. TypeOK'
    BY <1>7 DEF vars, lanes, work, order, Bookkept, Inv, TypeOK
  <2> QED
    BY <1>7, <2>1, NothingMoves DEF vars, lanes, work, order
<1> QED
  BY <1>1, <1>2, <1>3, <1>4, <1>5, <1>6, <1>7 DEF Next

\* However workers, callers, timeouts and shutdown() interleave, an unsettled job is at
\* one place, a page is counted once and a document is assembled only when it is
\* complete (_next_unit_locked, _run_and_record and _run_sync, ocr_queue.py:683-932).
THEOREM BookkeepingHolds == Spec => []Inv
<1>1. Bookkept => Inv
  BY DEF Bookkept
<1> QED
  BY <1>1, BookkeepingStarts, BookkeepingStays, PTL DEF Spec

-----------------------------------------------------------------------------
(* Jobs in line *)



\* A job that yields has no page in flight; the ones the pass leaves in line had none.
LEMMA PassWaits ==
  ASSUME Bookkept, WaitingHoldsNothing, ~stopped, NEW j \in ToSet(Filled.pending)
  PROVE  /\ j \in Job /\ inflight[j] = 0 /\ Readers(j) = {}
         /\ j \notin IF Yields THEN data \ {Yielding} ELSE data
<1>1. TypeOK /\ Len(active) <= MaxActive
  BY DEF Bookkept, Inv, OnePlacePerJob
<1>2. j \in Job
  BY PassCounts, SeqIs
<1>3. j \in Pending \/ (Yields /\ j = Yielding)
  BY <1>1, FilledCounts
<1>4. CASE j \in Pending
  BY <1>2, <1>4 DEF WaitingHoldsNothing
<1>5. CASE Yields /\ j = Yielding
  <2>1. inflight[j] = 0
    BY <1>5 DEF Yields
  <2>2. inflight[j] = Cardinality(Readers(j))
    BY <1>2 DEF Bookkept, Inv, PagesAccounted
  <2> QED
    BY <1>2, <1>5, <2>1, <2>2, ThreadsCounted
<1> QED
  BY <1>3, <1>4, <1>5

LEMMA WaitingStays == Bookkept /\ WaitingHoldsNothing /\ [Next]_vars => WaitingHoldsNothing'
<1> SUFFICES ASSUME Bookkept, WaitingHoldsNothing, [Next]_vars,
                    NEW j \in ToSet(pending')
             PROVE  inflight'[j] = 0 /\ Readers(j)' = {} /\ j \notin data'
  BY DEF WaitingHoldsNothing, Pending
<1> USE DEF Pending
<1>0. TypeOK /\ NoJob \notin Job /\ ToSet(pending) \subseteq Job
  <2>1. TypeOK
    BY DEF Bookkept, Inv
  <2> QED
    BY <2>1, LaneAssumption, SeqIs DEF TypeOK
<1>1. ASSUME NEW w \in Worker, TakeFinished(w)
      PROVE  inflight'[j] = 0 /\ Readers(j)' = {} /\ j \notin data'
  <2>1. /\ j \in ToSet(pending) /\ data' = data /\ inflight' = inflight /\ wk[w] = Idle
        /\ wk' = [wk EXCEPT ![w] = [pc |-> "finish", job |-> active[FirstFinishable]]]
    BY <1>1 DEF TakeFinished, Scheduling, work
  <2>2. \A v \in Worker : wk'[v] = wk[v] \/ wk'[v].pc \notin {"open", "read"}
    BY <1>0, <2>1 DEF TypeOK
  <2>3. j \in Job /\ inflight[j] = 0 /\ Readers(j) = {} /\ j \notin data
    BY <1>0, <2>1 DEF WaitingHoldsNothing
  <2>4. Readers(j)' = {}
    BY <2>2, <2>3 DEF Readers
  <2> QED
    BY <2>1, <2>3, <2>4
<1>2. ASSUME NEW w \in Worker, TakeEmpty(w) \/ Sleep(w)
      PROVE  inflight'[j] = 0 /\ Readers(j)' = {} /\ j \notin data'
  <2>1. /\ pending' = Filled.pending /\ inflight' = inflight /\ ~stopped
        /\ data' = IF Yields THEN data \ {Yielding} ELSE data
        /\ \E x : x.pc \notin {"open", "read"} /\ wk' = [wk EXCEPT ![w] = x]
    BY <1>2 DEF TakeEmpty, Sleep, TakeSlots, Scheduling, work, Asleep
  <2>2. \A v \in Worker : wk'[v] = wk[v] \/ wk'[v].pc \notin {"open", "read"}
    BY <1>0, <2>1 DEF TypeOK
  <2>3. /\ j \in Job /\ inflight[j] = 0 /\ Readers(j) = {}
        /\ j \notin IF Yields THEN data \ {Yielding} ELSE data
    BY <2>1, PassWaits
  <2>4. Readers(j)' = {}
    BY <2>2, <2>3 DEF Readers
  <2> QED
    BY <2>1, <2>3, <2>4
<1>3. ASSUME NEW w \in Worker, TakePage(w)
      PROVE  inflight'[j] = 0 /\ Readers(j)' = {} /\ j \notin data'
  <2> DEFINE k == Filled.active[Chosen[Filled.active]]
  <2>1. /\ pending' = Filled.pending /\ inflight' = [inflight EXCEPT ![k] = @ + 1] /\ ~stopped
        /\ data' = IF Yields THEN data \ {Yielding} ELSE data
        /\ wk' = [wk EXCEPT ![w] = [pc |-> "open", job |-> k]]
    BY <1>3 DEF TakePage, TakeSlots, Scheduling
  <2>2. k \in Job /\ Times(Filled.pending, k) = 0
    BY <1>3, PageTaken
  <2> HIDE DEF k
  <2>3. /\ j \in Job /\ inflight[j] = 0 /\ Readers(j) = {}
        /\ j \notin IF Yields THEN data \ {Yielding} ELSE data
    BY <2>1, PassWaits
  <2>4. j # k
    BY <2>1, <2>2, PassCounts, TimesIs
  <2>5. \A v \in Worker : wk'[v] = wk[v] \/ wk'[v].job # j
    BY <1>0, <2>1, <2>4 DEF TypeOK
  <2>6. inflight'[j] = inflight[j]
    BY <1>0, <2>1, <2>3, <2>4 DEF TypeOK
  <2>7. Readers(j)' = {}
    BY <2>3, <2>5 DEF Readers
  <2> QED
    BY <2>1, <2>3, <2>6, <2>7
<1>4. ASSUME NEW w \in Worker, Leave(w) \/ FinishJob(w)
      PROVE  inflight'[j] = 0 /\ Readers(j)' = {} /\ j \notin data'
  <2>1. /\ pending' = pending /\ inflight' = inflight /\ data' \subseteq data
        /\ \E x \in {Gone, Idle} : wk' = [wk EXCEPT ![w] = x]
    BY <1>4 DEF Leave, FinishJob, work
  <2>2. \A v \in Worker : wk'[v] = wk[v] \/ wk'[v].job # j
    BY <1>0, <2>1 DEF TypeOK, Gone, Idle
  <2>3. j \in Job /\ inflight[j] = 0 /\ Readers(j) = {} /\ j \notin data
    BY <1>0, <2>1 DEF WaitingHoldsNothing
  <2>4. Readers(j)' = {}
    BY <2>2, <2>3 DEF Readers
  <2> QED
    BY <2>1, <2>3, <2>4
<1>5. ASSUME NEW w \in Worker, OpenInput(w) \/ ReturnPage(w)
      PROVE  inflight'[j] = 0 /\ Readers(j)' = {} /\ j \notin data'
  <2> DEFINE k == wk[w].job
  <2>1. /\ pending' = pending /\ wk[w].pc \in {"open", "read"}
        /\ inflight' = inflight \/ inflight' = [inflight EXCEPT ![k] = @ - 1]
        /\ data' = data \/ data' = data \cup {k}
    BY <1>5 DEF OpenInput, ReturnPage, work
  <2>2. k \in Job /\ w \in Readers(k)
    <3>1. wk[w] \in [pc : {"open", "read", "finish"}, job : Job]
      BY <1>0, <2>1 DEF TypeOK, Idle, Asleep, Gone
    <3> QED
      BY <2>1, <3>1 DEF Readers
  <2>3. j \in ToSet(pending) /\ j \in Job /\ Readers(j) = {} /\ inflight[j] = 0 /\ j \notin data /\ j # k
    BY <1>0, <2>1, <2>2 DEF WaitingHoldsNothing
  <2>4. \A v \in Worker : \/ wk'[v] = wk[v] \/ wk'[v].job # j
    <3>1. CASE OpenInput(w)
      <4>1. wk' = [wk EXCEPT ![w].pc = "read"]
        BY <3>1 DEF OpenInput
      <4>2. wk[w] \in [pc : {"open", "read", "finish"}, job : Job]
        BY <1>0, <2>1 DEF TypeOK, Idle, Asleep, Gone
      <4>3. wk'[w].job = k /\ \A v \in Worker : v # w => wk'[v] = wk[v]
        BY <1>0, <4>1, <4>2 DEF TypeOK
      <4> QED
        BY <2>3, <4>3
    <3>2. CASE ReturnPage(w)
      <4>1. wk' = [wk EXCEPT ![w] = Idle] \/ NotifyAnd(w, Idle)
        BY <3>2 DEF ReturnPage
      <4> QED
        BY <1>0, <2>3, <4>1 DEF NotifyAnd, TypeOK, Idle
    <3> QED
      BY <1>5, <3>1, <3>2
  <2>5. inflight'[j] = 0
    BY <1>0, <2>1, <2>2, <2>3 DEF TypeOK
  <2>6. Readers(j)' = {}
    BY <2>3, <2>4 DEF Readers
  <2> QED
    BY <2>1, <2>3, <2>5, <2>6
<1>6. ASSUME NEW k \in Job, EnqueueLocked(k), UNCHANGED <<inflight, data>>
      PROVE  inflight'[j] = 0 /\ Readers(j)' = {} /\ j \notin data'
  <2>1. pending' = Append(pending, k) /\ place[k] = "new" /\ NotifyAll
    BY <1>6 DEF EnqueueLocked
  <2>2. j \in ToSet(pending) \cup {k}
    <3>1. ToSet(Append(pending, k)) = ToSet(pending) \cup {k}
      BY <1>0, PutIn DEF TypeOK
    <3> QED
      BY <2>1, <3>1
  <2>3. inflight[j] = 0 /\ Readers(j) = {} /\ j \notin data /\ j \in Job
    BY <1>0, <2>1, <2>2 DEF WaitingHoldsNothing, Bookkept, NewIsUntouched
  <2>4. Readers(j)' = Readers(j)
    BY <1>0, <2>1, <2>3, WokenKeeps, ThreadsRest
  <2> QED
    BY <1>6, <2>3, <2>4
<1>7. ASSUME NEW k \in Sync, TimeOut(k)
      PROVE  inflight'[j] = 0 /\ Readers(j)' = {} /\ j \notin data'
  <2>1. pending' = RemoveFirst(pending, k) /\ NotifyAll /\ UNCHANGED <<inflight, data>>
    BY <1>7 DEF TimeOut
  <2>2. j \in ToSet(pending)
    <3>1. ToSet(RemoveFirst(pending, k)) \subseteq ToSet(pending)
      BY <1>0, TakeOutAny DEF TypeOK
    <3> QED
      BY <2>1, <3>1
  <2>3. Readers(j)' = Readers(j)
    BY <1>0, <2>1, <2>2, WokenKeeps, ThreadsRest
  <2> QED
    BY <2>1, <2>2, <2>3 DEF WaitingHoldsNothing
<1>8. ASSUME Shutdown
      PROVE  inflight'[j] = 0 /\ Readers(j)' = {} /\ j \notin data'
  <2>1. NotifyAll /\ UNCHANGED <<pending, inflight, data>>
    BY <1>8 DEF Shutdown
  <2>2. Readers(j)' = Readers(j)
    BY <1>0, <2>1, WokenKeeps, ThreadsRest
  <2> QED
    BY <2>1, <2>2 DEF WaitingHoldsNothing
<1>9. ASSUME UNCHANGED <<pending, inflight, data, wk>>
      PROVE  inflight'[j] = 0 /\ Readers(j)' = {} /\ j \notin data'
  <2>1. Readers(j)' = Readers(j)
    BY <1>9 DEF Readers
  <2> QED
    BY <1>9, <2>1 DEF WaitingHoldsNothing
<1>10. ASSUME NEW w \in Worker, Work(w)
       PROVE  inflight'[j] = 0 /\ Readers(j)' = {} /\ j \notin data'
  BY <1>1, <1>2, <1>3, <1>4, <1>5, <1>10 DEF Work
<1>11. ASSUME NEW k \in Job, Submit(k) \/ Call(k)
       PROVE  inflight'[j] = 0 /\ Readers(j)' = {} /\ j \notin data'
  BY <1>6, <1>11 DEF Submit, Call, work
<1>12. ASSUME NEW k \in Sync, CallRejected(k) \/ Return(k) \/ Expire(k)
       PROVE  inflight'[j] = 0 /\ Readers(j)' = {} /\ j \notin data'
  BY <1>9, <1>12 DEF CallRejected, Return, Expire, work
<1>13. CASE UNCHANGED vars
  BY <1>9, <1>13 DEF vars, work
<1> QED
  BY <1>7, <1>8, <1>10, <1>11, <1>12, <1>13 DEF Next, Job

\* A job in line, new or yielded, has no page in flight and no decrypted input in
\* memory: a yield happens between two pages and drops the input (ocr_queue.py:826-829).
THEOREM WaitingIsCheap == Spec => []WaitingHoldsNothing
<1>1. Init => WaitingHoldsNothing
  <2> SUFFICES ASSUME Init PROVE ToSet(pending) = {}
    BY DEF WaitingHoldsNothing, Pending
  <2>1. DOMAIN pending = {}
    BY DEF Init
  <2> QED
    BY <2>1 DEF ToSet
<1> QED
  BY <1>1, BookkeepingStarts, BookkeepingStays, WaitingStays, PTL DEF Spec

-----------------------------------------------------------------------------
(* Synchronous jobs whose caller has gone *)

\* Only an OCR job is put back in line.
LEMMA PassLine ==
  ASSUME Bookkept, NEW j \in ToSet(Filled.pending)
  PROVE  j \in Job /\ (j \in Sync => j \in Pending)
<1>1. TypeOK /\ Len(active) <= MaxActive
  BY DEF Bookkept, Inv, OnePlacePerJob
<1>2. j \in Pending \/ (Yields /\ j = Yielding)
  BY <1>1, FilledCounts
<1>3. Yields => Yielding \in Persistent
  BY <1>1, YieldingIs DEF Yields
<1>4. j \in Job
  BY PassCounts, SeqIs
<1> QED
  BY <1>2, <1>3, <1>4, LaneAssumption

LEMMA AbandonedStays == Bookkept /\ TimedOutIsAbandoned /\ [Next]_vars => TimedOutIsAbandoned'
<1> SUFFICES ASSUME Bookkept, TimedOutIsAbandoned, [Next]_vars,
                    NEW j \in Sync, caller'[j] = "timedout"
             PROVE  units'[j] = 0 /\ j \notin ToSet(pending')
  BY DEF TimedOutIsAbandoned, Pending
<1>0. TypeOK /\ j \in Job
  BY DEF Bookkept, Inv, Job
<1>1. ASSUME caller[j] = "timedout"
      PROVE  units[j] = 0 /\ j \notin ToSet(pending)
  BY <1>1 DEF TimedOutIsAbandoned, Pending
<1>2. ASSUME UNCHANGED <<units, caller, pending>>
      PROVE  units'[j] = 0 /\ j \notin ToSet(pending')
  BY <1>1, <1>2
<1>3. ASSUME NEW w \in Worker,
             TakeFinished(w) \/ Leave(w) \/ OpenInput(w) \/ FinishJob(w)
      PROVE  UNCHANGED <<units, caller, pending>>
  BY <1>3 DEF TakeFinished, Leave, OpenInput, FinishJob, work
<1>4. ASSUME NEW w \in Worker, TakeEmpty(w) \/ Sleep(w)
      PROVE  units'[j] = 0 /\ j \notin ToSet(pending')
  <2>1. units' = units /\ caller' = caller /\ pending' = Filled.pending
    BY <1>4 DEF TakeEmpty, Sleep, TakeSlots, work
  <2> QED
    BY <1>1, <2>1, PassLine DEF Pending
<1>5. ASSUME NEW w \in Worker, TakePage(w)
      PROVE  units'[j] = 0 /\ j \notin ToSet(pending')
  <2> DEFINE k == Filled.active[Chosen[Filled.active]]
  <2>1. units' = [units EXCEPT ![k] = @ - 1] /\ caller' = caller /\ pending' = Filled.pending
    BY <1>5 DEF TakePage, TakeSlots
  <2>2. k \in Job /\ HasUnits(k)
    BY <1>5, PageTaken
  <2> HIDE DEF k
  <2>3. units[j] = 0 /\ j \notin ToSet(pending)
    BY <1>1, <2>1
  <2>4. j # k
    BY <2>2, <2>3 DEF HasUnits
  <2>5. units'[j] = units[j]
    BY <1>0, <2>1, <2>4 DEF TypeOK
  <2> QED
    BY <2>1, <2>3, <2>5, PassLine DEF Pending
<1>6. ASSUME NEW w \in Worker, ReturnPage(w)
      PROVE  units'[j] = 0 /\ j \notin ToSet(pending')
  <2>1. /\ units' = units \/ \E k : units' = [units EXCEPT ![k] = 0]
        /\ caller' = caller /\ pending' = pending
    BY <1>6 DEF ReturnPage, work
  <2> QED
    BY <1>0, <1>1, <2>1 DEF TypeOK
<1>7. ASSUME NEW k \in Job, EnqueueLocked(k), j # k, caller[j] = "timedout", units' = units
      PROVE  units'[j] = 0 /\ j \notin ToSet(pending')
  <2>1. pending' = Append(pending, k) /\ pending \in Seq(Job)
    BY <1>0, <1>7 DEF EnqueueLocked, TypeOK
  <2>2. ToSet(Append(pending, k)) = ToSet(pending) \cup {k}
    BY <2>1, PutIn
  <2> QED
    BY <1>1, <1>7, <2>1, <2>2
<1>8. ASSUME NEW k \in Sync, CallRejected(k) \/ Return(k) \/ Expire(k)
      PROVE  units'[j] = 0 /\ j \notin ToSet(pending')
  <2>1. /\ units' = units /\ pending' = pending
        /\ \E c \in {"rejected", "returned", "expired"} : caller' = [caller EXCEPT ![k] = c]
    BY <1>8 DEF CallRejected, Return, Expire, work
  <2>2. caller[j] = "timedout"
    BY <1>0, <2>1 DEF TypeOK
  <2> QED
    BY <1>1, <2>1, <2>2
<1>9. ASSUME NEW k \in Sync, TimeOut(k)
      PROVE  units'[j] = 0 /\ j \notin ToSet(pending')
  <2>1. /\ units' = [units EXCEPT ![k] = 0] /\ pending' = RemoveFirst(pending, k)
        /\ caller' = [caller EXCEPT ![k] = "timedout"] /\ pending \in Seq(Job)
    BY <1>0, <1>9 DEF TimeOut, TypeOK
  <2>2. units'[j] = 0
    BY <1>0, <1>1, <2>1 DEF TypeOK
  <2>3. ToSet(RemoveFirst(pending, k)) \subseteq ToSet(pending)
    BY <2>1, TakeOutAny
  <2>4. CASE j # k
    <3>1. caller[j] = "timedout"
      BY <1>0, <2>1, <2>4 DEF TypeOK
    <3> QED
      BY <1>1, <2>1, <2>2, <2>3, <3>1
  <2>5. CASE j = k
    <3>1. Times(pending, k) <= 1
      BY <1>0, <2>5, WhereaboutsIs DEF Whereabouts
    <3>2. k \notin ToSet(RemoveFirst(pending, k))
      BY <2>1, <3>1, TakeOutAny
    <3> QED
      BY <2>1, <2>2, <2>5, <3>2
  <2> QED
    BY <2>4, <2>5
<1>10. ASSUME Shutdown
       PROVE  units'[j] = 0 /\ j \notin ToSet(pending')
  BY <1>2, <1>10 DEF Shutdown
<1>11. ASSUME NEW w \in Worker, Work(w)
       PROVE  units'[j] = 0 /\ j \notin ToSet(pending')
  BY <1>2, <1>3, <1>4, <1>5, <1>6, <1>11 DEF Work
<1>12. CASE UNCHANGED vars
  BY <1>2, <1>12 DEF vars, work
<1>13. ASSUME NEW k \in Persistent, Submit(k)
       PROVE  units'[j] = 0 /\ j \notin ToSet(pending')
  <2>1. k \in Job /\ j # k
    BY LaneAssumption DEF Job
  <2> QED
    BY <1>7, <1>13, <2>1 DEF Submit, work
<1>14. ASSUME NEW k \in Sync, Call(k)
       PROVE  units'[j] = 0 /\ j \notin ToSet(pending')
  <2>1. caller[k] = "new" /\ caller' = [caller EXCEPT ![k] = "waiting"]
    BY <1>14 DEF Call
  <2>2. k \in Job /\ j # k /\ caller[j] = "timedout"
    BY <1>0, <2>1 DEF Job, TypeOK
  <2> QED
    BY <1>7, <1>14, <2>2 DEF Call, work
<1> QED
  BY <1>8, <1>9, <1>10, <1>11, <1>12, <1>13, <1>14 DEF Next

\* Once the caller of a synchronous job has timed out, no page of it is left to start
\* and it is not in line, whatever the workers were doing meanwhile
\* (_run_sync, ocr_queue.py:705-718).
THEOREM AbandonedForGood == Spec => []TimedOutIsAbandoned
<1>1. Init => TimedOutIsAbandoned
  BY DEF Init, TimedOutIsAbandoned
<1> QED
  BY <1>1, BookkeepingStarts, BookkeepingStays, AbandonedStays, PTL DEF Spec

-----------------------------------------------------------------------------
(* The order of OCR jobs, whatever happens *)

\* Tickets are given in submission order.
Tickets == \A j \in Job : ticket[j] <= lastTicket

Ordered == Tickets /\ InOrder(Slots)

LEMMA SlotsInOrder ==
  /\ InOrder(Slots) <=>
       /\ Sorted(pending, Persistent) /\ Sorted(active, Going)
       /\ \A i \in Active \cap Going, j \in Pending \cap Persistent : ticket[i] < ticket[j]
  /\ InOrder(Slots) => OcrKeepsItsOrder
<1>1. InOrder(Slots) <=>
       /\ Sorted(pending, Persistent) /\ Sorted(active, Going)
       /\ \A i \in Active \cap Going, j \in Pending \cap Persistent : ticket[i] < ticket[j]
  BY DEF InOrder, Slots, Active, Pending
<1>2. InOrder(Slots) => OcrKeepsItsOrder
  BY <1>1 DEF OcrKeepsItsOrder, Sorted, Going
<1> QED
  BY <1>1, <1>2

\* What keeps the order when nobody gets a new ticket and pages only become fewer.
LEMMA OrderKept ==
  ASSUME UNCHANGED order, Ordered, Going' \subseteq Going,
         Sorted(pending', Persistent), Sorted(active', Going),
         \A i \in ToSet(active') \cap Going, j \in ToSet(pending') \cap Persistent : ticket[i] < ticket[j]
  PROVE  Ordered'
<1>1. ticket' = ticket /\ lastTicket' = lastTicket
  BY DEF order
<1>2. Tickets'
  BY <1>1 DEF Ordered, Tickets
<1>3. Sorted(pending, Persistent)' /\ Sorted(active, Going)'
  BY <1>1 DEF Sorted
<1>4. (\A i \in Active \cap Going, j \in Pending \cap Persistent : ticket[i] < ticket[j])'
  BY <1>1 DEF Active, Pending
<1>5. InOrder(Slots)'
  BY <1>3, <1>4 DEF InOrder, Slots, Active, Pending
<1> QED
  BY <1>2, <1>5 DEF Ordered

\* Pages left become fewer, and an error stays.
LEMMA GoingShrinks ==
  ASSUME TypeOK, erred \subseteq erred',
         \A j \in Job : units'[j] > 0 => units[j] > 0
  PROVE  Going' \subseteq Going
BY DEF Going, HasUnits, Job

LEMMA FilledOrdered ==
  ASSUME Bookkept, Ordered
  PROVE  /\ Sorted(Filled.pending, Persistent) /\ Sorted(Filled.active, Going)
         /\ \A i \in ToSet(Filled.active) \cap Going, j \in ToSet(Filled.pending) \cap Persistent :
              ticket[i] < ticket[j]
<1>1. TypeOK /\ InOrder(Slots)
  BY DEF Bookkept, Inv, Ordered
<1>2. \A j \in Job : Times(active, j) <= 1
  BY WhereaboutsIs DEF Whereabouts
<1>3. InOrder(Filled)
  BY <1>1, <1>2, FilledInOrder
<1> QED
  BY <1>3 DEF InOrder

LEMMA OrderStays == Bookkept /\ Ordered /\ [Next]_vars => Ordered'
<1> SUFFICES ASSUME Bookkept, Ordered, [Next]_vars PROVE Ordered'
  OBVIOUS
<1>0. /\ TypeOK /\ pending \in Seq(Job) /\ active \in Seq(Job)
      /\ Sorted(pending, Persistent) /\ Sorted(active, Going)
      /\ \A i \in ToSet(active) \cap Going, j \in ToSet(pending) \cap Persistent : ticket[i] < ticket[j]
  BY SlotsInOrder DEF Bookkept, Inv, TypeOK, Ordered, Active, Pending
<1>1. ASSUME NEW w \in Worker, TakeFinished(w)
      PROVE  Ordered'
  <2>1. /\ active' = RemoveAt(active, FirstFinishable) /\ FirstFinishable \in 1..Len(active)
        /\ UNCHANGED <<pending, order, units, erred>>
    BY <1>0, <1>1, FirstFinishableIs DEF TakeFinished, work
  <2>2. Sorted(active', Going) /\ ToSet(active') \subseteq ToSet(active)
    <3>1. Sorted(RemoveAt(active, FirstFinishable), Going)
      BY <1>0, <2>1, RemoveSorted
    <3>2. ToSet(RemoveAt(active, FirstFinishable)) \subseteq ToSet(active)
      BY <1>0, <2>1, TakeOutAt
    <3> QED
      BY <2>1, <3>1, <3>2
  <2>3. Going' \subseteq Going
    BY <1>0, <2>1, GoingShrinks
  <2> QED
    BY <1>0, <2>1, <2>2, <2>3, OrderKept
<1>2. ASSUME NEW w \in Worker, TakeEmpty(w)
      PROVE  Ordered'
  <2> DEFINE act == Filled.active
             at == Chosen[act]
  <2>1. /\ pending' = Filled.pending /\ active' = RemoveAt(act, at) /\ at # 0
        /\ UNCHANGED <<order, units, erred>>
    BY <1>2 DEF TakeEmpty, TakeSlots, work
  <2>2. act \in Seq(Job) /\ at \in 1..Len(act)
    BY <1>0, <2>1, PassCounts, ChosenIs
  <2> HIDE DEF at
  <2>3. Sorted(RemoveAt(act, at), Going) /\ ToSet(RemoveAt(act, at)) \subseteq ToSet(act)
    <3>1. Sorted(act, Going)
      BY FilledOrdered
    <3> HIDE DEF act
    <3> QED
      BY <2>2, <3>1, RemoveSorted, TakeOutAt
  <2>4. Going' \subseteq Going
    BY <1>0, <2>1, GoingShrinks
  <2>5. \A i \in ToSet(active') \cap Going, j \in ToSet(pending') \cap Persistent : ticket[i] < ticket[j]
    BY <2>1, <2>3, FilledOrdered
  <2>6. Sorted(pending', Persistent) /\ Sorted(active', Going)
    BY <2>1, <2>3, FilledOrdered
  <2> QED
    BY <2>1, <2>4, <2>5, <2>6, OrderKept
<1>3. ASSUME NEW w \in Worker, TakePage(w) \/ Sleep(w)
      PROVE  Ordered'
  <2>1. pending' = Filled.pending /\ active' = Filled.active /\ UNCHANGED <<order, erred>>
    BY <1>3 DEF TakePage, Sleep, TakeSlots, work
  <2>2. Going' \subseteq Going
    <3>1. units' = units \/ \E k : HasUnits(k) /\ units' = [units EXCEPT ![k] = @ - 1]
      BY <1>3, PageTaken DEF TakePage, Sleep, work
    <3>2. \A j \in Job : units[j] \in Nat /\ units'[j] \in {units[j], units[j] - 1}
      BY <1>0, <3>1 DEF TypeOK
    <3>3. \A j \in Job : units'[j] > 0 => units[j] > 0
      BY <3>2
    <3> QED
      BY <1>0, <2>1, <3>3, GoingShrinks
  <2>3. /\ Sorted(pending', Persistent) /\ Sorted(active', Going)
        /\ \A i \in ToSet(active') \cap Going, j \in ToSet(pending') \cap Persistent : ticket[i] < ticket[j]
    BY <2>1, FilledOrdered
  <2> QED
    BY <2>1, <2>2, <2>3, OrderKept
<1>4. ASSUME UNCHANGED <<pending, active, order>>, erred \subseteq erred',
             units' = units \/ \E k : units' = [units EXCEPT ![k] = 0]
      PROVE  Ordered'
  <2>1. \A j \in Job : units[j] \in Nat /\ units'[j] \in {units[j], 0}
    BY <1>0, <1>4 DEF TypeOK
  <2>2. \A j \in Job : units'[j] > 0 => units[j] > 0
    BY <2>1
  <2>3. Going' \subseteq Going
    BY <1>0, <1>4, <2>2, GoingShrinks
  <2> QED
    BY <1>0, <1>4, <2>3, OrderKept
<1>5. ASSUME NEW w \in Worker, Leave(w) \/ OpenInput(w) \/ ReturnPage(w) \/ FinishJob(w)
      PROVE  Ordered'
  <2>1. /\ UNCHANGED <<pending, active, order>> /\ erred \subseteq erred'
        /\ units' = units \/ \E k : units' = [units EXCEPT ![k] = 0]
    BY <1>5 DEF Leave, OpenInput, ReturnPage, FinishJob, work
  <2> QED
    BY <1>4, <2>1
<1>6. ASSUME NEW k \in Job, EnqueueLocked(k), UNCHANGED <<active, units, erred>>
      PROVE  Ordered'
  <2>1. /\ place[k] = "new" /\ pending' = Append(pending, k)
        /\ lastTicket' = lastTicket + 1 /\ ticket' = [ticket EXCEPT ![k] = lastTicket']
    BY <1>6 DEF EnqueueLocked
  <2>2. k \notin Pending /\ k \notin Active
    <3>1. Whereabouts(k) = 0
      BY <2>1 DEF Bookkept, NewIsUntouched
    <3>2. Times(pending, k) + Times(active, k) + Cardinality(Finishers(k)) = 0
      BY <3>1 DEF Whereabouts
    <3>3. /\ Times(pending, k) \in Nat /\ Times(active, k) \in Nat /\ Cardinality(Finishers(k)) \in Nat
          /\ k \in Pending <=> Times(pending, k) = 1
          /\ k \in Active <=> Times(active, k) = 1
      BY WhereaboutsIs
    <3>4. Times(pending, k) # 1 /\ Times(active, k) # 1
      <4> DEFINE p == Times(pending, k)
                 a == Times(active, k)
                 f == Cardinality(Finishers(k))
      <4>1. p + a + f = 0 /\ p \in Nat /\ a \in Nat /\ f \in Nat
        BY <3>2, <3>3
      <4> HIDE DEF p, a, f
      <4>2. p # 1 /\ a # 1
        BY <4>1
      <4> QED
        BY <4>2 DEF p, a
    <3> QED
      BY <3>3, <3>4
  <2>3. /\ lastTicket \in Nat /\ \A j \in Job : ticket[j] \in Nat /\ ticket[j] <= lastTicket
        /\ ticket'[k] = lastTicket + 1 /\ \A j \in Job : j # k => ticket'[j] = ticket[j]
    BY <1>0, <2>1 DEF Ordered, Tickets, TypeOK
  <2>4. Tickets'
    BY <2>1, <2>3 DEF Tickets
  <2>5. Going' = Going
    BY <1>6 DEF Going, HasUnits
  <2>6. /\ pending' \in Seq(Job) /\ Len(pending') = Len(pending) + 1
        /\ \A i \in 1..Len(pending) : pending'[i] = pending[i]
        /\ pending'[Len(pending) + 1] = k
        /\ ToSet(pending') = Pending \cup {k}
    <3>1. ToSet(Append(pending, k)) = ToSet(pending) \cup {k}
      BY <1>0, PutIn
    <3> QED
      BY <1>0, <2>1, <3>1, AppendProperties DEF Pending
  <2>7. /\ Len(pending) \in Nat /\ DOMAIN pending = 1..Len(pending) /\ DOMAIN pending' = 1..(Len(pending) + 1)
        /\ \A i \in 1..Len(pending) : pending[i] \in Job /\ pending[i] # k
    BY <1>0, <2>2, <2>6, SeqIs DEF Pending
  <2>8. Sorted(pending, Persistent)'
    <3> SUFFICES ASSUME NEW a \in 1..(Len(pending) + 1), NEW b \in 1..(Len(pending) + 1), a < b,
                        pending'[a] \in Persistent, pending'[b] \in Persistent
                 PROVE  ticket'[pending'[a]] < ticket'[pending'[b]]
      BY <2>7 DEF Sorted
    <3>1. a \in 1..Len(pending) /\ (b \in 1..Len(pending) \/ b = Len(pending) + 1)
      BY <2>7
    <3>2. ticket'[pending'[a]] = ticket[pending[a]] /\ ticket[pending[a]] <= lastTicket
          /\ ticket[pending[a]] \in Nat
      BY <2>3, <2>6, <2>7, <3>1
    <3>3. CASE b = Len(pending) + 1
      BY <2>3, <2>6, <3>2, <3>3
    <3>4. CASE b \in 1..Len(pending)
      <4>1. ticket'[pending'[b]] = ticket[pending[b]]
        BY <2>3, <2>6, <2>7, <3>4
      <4> QED
        BY <1>0, <2>6, <2>7, <3>1, <3>2, <3>4, <4>1 DEF Sorted
    <3> QED
      BY <3>1, <3>3, <3>4
  <2>9. /\ DOMAIN active = 1..Len(active)
        /\ \A i \in 1..Len(active) : active[i] \in Job /\ active[i] # k
    BY <1>0, <2>2, SeqIs DEF Active
  <2>10. Sorted(active, Going)'
    BY <1>0, <1>6, <2>3, <2>5, <2>9 DEF Sorted
  <2>11. (\A i \in Active \cap Going, j \in Pending \cap Persistent : ticket[i] < ticket[j])'
    <3> SUFFICES ASSUME NEW i \in Active \cap Going, NEW j \in ToSet(pending') \cap Persistent
                 PROVE  ticket'[i] < ticket'[j]
      BY <1>6, <2>5 DEF Active, Pending
    <3>1. i \in Job /\ i # k /\ ticket'[i] = ticket[i]
      BY <1>0, <2>2, <2>3, SeqIs DEF Active
    <3>2. j \in Job /\ (j = k \/ j \in Pending)
      BY <2>6 DEF Job
    <3> QED
      BY <1>0, <2>2, <2>3, <3>1, <3>2 DEF Active, Pending
  <2>12. InOrder(Slots)'
    BY <2>8, <2>10, <2>11 DEF InOrder, Slots, Active, Pending
  <2> QED
    BY <2>4, <2>12 DEF Ordered
<1>7. ASSUME NEW k \in Sync, TimeOut(k)
      PROVE  Ordered'
  <2>1. /\ pending' = RemoveFirst(pending, k)
        /\ active' = IF inflight[k] = 0 THEN RemoveFirst(active, k) ELSE active
        /\ units' = [units EXCEPT ![k] = 0] /\ erred \subseteq erred' /\ UNCHANGED order
    BY <1>7 DEF TimeOut
  <2>2. \A j \in Job : units'[j] > 0 => units[j] > 0
    BY <1>0, <2>1 DEF TypeOK
  <2>3. Going' \subseteq Going
    BY <1>0, <2>1, <2>2, GoingShrinks
  <2>4. /\ Sorted(RemoveFirst(pending, k), Persistent) /\ Sorted(RemoveFirst(active, k), Going)
        /\ ToSet(RemoveFirst(pending, k)) \subseteq ToSet(pending)
        /\ ToSet(RemoveFirst(active, k)) \subseteq ToSet(active)
    BY <1>0, RemoveFirstSorted, TakeOutAny
  <2>5. \A i \in ToSet(active') \cap Going, j \in ToSet(pending') \cap Persistent : ticket[i] < ticket[j]
    BY <1>0, <2>1, <2>4
  <2>6. Sorted(pending', Persistent) /\ Sorted(active', Going)
    BY <1>0, <2>1, <2>4
  <2> QED
    BY <2>1, <2>3, <2>5, <2>6, OrderKept
<1>8. ASSUME Shutdown
      PROVE  Ordered'
  BY <1>4, <1>8 DEF Shutdown
<1>9. ASSUME NEW k \in Sync, CallRejected(k) \/ Return(k) \/ Expire(k)
      PROVE  Ordered'
  BY <1>4, <1>9 DEF CallRejected, Return, Expire, work
<1>10. ASSUME NEW k \in Persistent, Submit(k)
       PROVE  Ordered'
  BY <1>6, <1>10 DEF Submit, work, Job
<1>11. ASSUME NEW k \in Sync, Call(k)
       PROVE  Ordered'
  BY <1>6, <1>11 DEF Call, work, Job
<1>12. ASSUME NEW w \in Worker, Work(w)
       PROVE  Ordered'
  BY <1>1, <1>2, <1>3, <1>5, <1>12 DEF Work
<1>13. CASE UNCHANGED vars
  BY <1>4, <1>13 DEF vars, work
<1> QED
  BY <1>7, <1>8, <1>9, <1>10, <1>11, <1>12, <1>13 DEF Next

\* OCR jobs keep their order through yields, admissions and timeouts: the line is in
\* submission order, and an active job with pages left came before every job in line
\* (ocr_queue.py:823-829).
THEOREM OcrOrderIsKept == Spec => []OcrKeepsItsOrder
<1>1. Init => Ordered
  <2> SUFFICES ASSUME Init PROVE Ordered
    OBVIOUS
  <2>1. DOMAIN pending = {} /\ DOMAIN active = {} /\ ToSet(pending) = {} /\ ToSet(active) = {}
    BY DEF Init, ToSet
  <2>2. Tickets
    BY DEF Init, Tickets
  <2> QED
    BY <2>1, <2>2, SlotsInOrder DEF Ordered, Sorted, Active, Pending
<1>2. Ordered => OcrKeepsItsOrder
  BY SlotsInOrder DEF Ordered
<1> QED
  BY <1>1, <1>2, BookkeepingStarts, BookkeepingStays, OrderStays, PTL DEF Spec

-----------------------------------------------------------------------------
(* The two lanes *)

\* The scheduler's own streak counts at least the synchronous page starts since OCR had
\* its turn.
StreakFits == bypass <= syncStreak

\* A synchronous page is started past an OCR job that could run only while the streak is short.
LEMMA StreakStays == Bookkept /\ StreakFits /\ [Next]_vars => StreakFits'
<1> SUFFICES ASSUME Bookkept, StreakFits, [Next]_vars PROVE StreakFits'
  OBVIOUS
<1>0. TypeOK /\ bypass \in Nat /\ syncStreak \in 0..2 /\ bypass <= syncStreak
  BY DEF Bookkept, Inv, TypeOK, StreakFits
<1>1. ASSUME UNCHANGED <<bypass, syncStreak>> PROVE StreakFits'
  BY <1>0, <1>1 DEF StreakFits
<1>2. ASSUME NEW w \in Worker, TakePage(w) PROVE StreakFits'
  <2> DEFINE act == Filled.active
             k == act[Chosen[act]]
             ocrReady == \E i \in ToSet(act) : i \in Persistent /\ HasUnits(i)
  <2>1. /\ syncStreak' = NextStreak(k)
        /\ bypass' = IF k \in Sync /\ ocrReady THEN bypass + 1 ELSE 0
    BY <1>2 DEF TakePage
  <2>2. k \in Job /\ k \in ToSet(act) /\ Ready(k) /\ Choosable(act, k) /\ ~Finishable(k)
    BY <1>2, PageTaken
  <2>3. Persistent \cap Sync = {} /\ (k \in Persistent \/ k \in Sync)
    BY <2>2, LaneAssumption DEF Job
  <2>4. CASE k \in Sync /\ ocrReady
    <3>1. PICK i \in ToSet(act) : i \in Persistent /\ HasUnits(i)
      BY <2>4
    <3>2. ASSUME i = Held PROVE FALSE
      <4>1. i \in Job /\ NoJob \notin Job
        BY <3>1, LaneAssumption DEF Job
      <4>2. Filled = Slots /\ ~HasSync(active)
        BY <1>0, <3>2, <4>1, HeldIs
      <4>3. k \in ToSet(active)
        BY <2>2, <4>2 DEF Slots
      <4> QED
        BY <2>4, <4>2, <4>3 DEF HasSync
    <3>3. Mixed(act)
      BY <2>2, <2>4, <3>1, <3>2 DEF Mixed, Ready
    <3>4. ~(syncStreak >= 2)
      BY <2>2, <2>3, <2>4, <3>3 DEF Choosable, PreferPersistent
    <3>5. syncStreak' = syncStreak + 1
      BY <1>0, <2>1, <2>3, <2>4, <3>4 DEF NextStreak
    <3> QED
      BY <1>0, <2>1, <2>4, <3>5 DEF StreakFits
  <2>5. CASE ~(k \in Sync /\ ocrReady)
    <3>1. syncStreak' \in 0..2
      BY <1>0, <2>1, <2>3 DEF NextStreak
    <3>2. bypass' = 0
      BY <2>1, <2>5
    <3> QED
      BY <3>1, <3>2 DEF StreakFits
  <2> QED
    BY <2>4, <2>5
<1>3. ASSUME NEW w \in Worker, Work(w), ~TakePage(w) PROVE StreakFits'
  BY <1>1, <1>3 DEF Work, TakeFinished, TakeEmpty, Sleep, Leave, OpenInput, ReturnPage, FinishJob, lanes
<1>4. ASSUME NEW j \in Persistent, Submit(j) PROVE StreakFits'
  BY <1>1, <1>4 DEF Submit, lanes
<1>5. ASSUME NEW j \in Sync, Call(j) \/ CallRejected(j) \/ Return(j) \/ Expire(j) \/ TimeOut(j)
      PROVE  StreakFits'
  BY <1>1, <1>5 DEF Call, CallRejected, Return, Expire, TimeOut, lanes
<1>6. CASE Shutdown
  BY <1>1, <1>6 DEF Shutdown, lanes
<1>7. CASE UNCHANGED vars
  BY <1>1, <1>7 DEF vars, lanes
<1> QED
  BY <1>2, <1>3, <1>4, <1>5, <1>6, <1>7 DEF Next

\* While OCR waits, the pass gives no synchronous job a slot next to another one.
LEMMA PassShares ==
  ASSUME TypeOK, MaxActive > 1, NEW j \in Sync, NEW k \in Sync, j # k,
         j \in ToSet(Filled.active) \ Active, k \in ToSet(Filled.active)
  PROVE  ~HasPersistent(Filled.pending)
<1> DEFINE I == {s \in SlotState :
                   j \in ToSet(s.active) \ Active /\ k \in ToSet(s.active) => ~HasPersistent(s.pending)}
<1>1. AfterYield \in I
  <2>1. AfterYield \in SlotState
    BY AfterYieldIs
  <2>2. ToSet(AfterYield.active) \subseteq Active
    <3>1. active \in Seq(Job)
      BY DEF TypeOK
    <3>2. Yields => ToSet(RemoveFirst(active, Yielding)) \subseteq Active
      BY <3>1, TakeOutAny DEF Active
    <3> QED
      BY <3>2, AfterYieldIs DEF Slots, Active
  <2> QED
    BY <2>1, <2>2
<1>2. ASSUME NEW s \in I PROVE Admit[s] \in I
  <2>1. s \in SlotState /\ Admit[s] \in SlotState /\ s.pending \in Seq(Job) /\ s.active \in Seq(Job)
    BY AdmitIs DEF SlotState
  <2>2. CASE ~HasRoom(s)
    BY <2>1, <2>2, AdmitIs
  <2>3. CASE HasRoom(s)
    <3> SUFFICES ASSUME j \in ToSet(Admit[s].active) \ Active, k \in ToSet(Admit[s].active),
                        HasPersistent(Admit[s].pending)
                 PROVE  FALSE
      BY <2>1
    <3> DEFINE c == Candidate(s)
    <3>1. /\ c \in ToSet(s.pending) /\ c \in Job
          /\ Admit[s].pending = RemoveFirst(s.pending, c)
          /\ Admit[s].active = Append(s.active, c)
      BY <2>1, <2>3, AdmitIs, SeqIs
    <3>2. c \in Sync /\ HasPersistent(s.pending) => ~HasSync(s.active)
      BY <2>1, <2>3, CandidateIs
    <3> HIDE DEF c
    <3>3. ToSet(Append(s.active, c)) = ToSet(s.active) \cup {c}
      BY <2>1, <3>1, PutIn
    <3>4. ToSet(RemoveFirst(s.pending, c)) \subseteq ToSet(s.pending)
      BY <2>1, TakeOutAny
    <3>5. HasPersistent(s.pending)
      BY <3>1, <3>4 DEF HasPersistent
    <3>6. c = j \/ c = k
      BY <3>1, <3>3, <3>5
    <3>7. ~HasSync(s.active)
      BY <3>2, <3>5, <3>6
    <3> QED
      BY <3>1, <3>3, <3>6, <3>7 DEF HasSync
  <2> QED
    BY <2>2, <2>3
<1>3. Filled \in I
  <2> HIDE DEF I
  <2> QED
    BY <1>1, <1>2, FilledKeeps
<1> QED
  BY <1>3

LEMMA SlotsShared == Bookkept /\ [Next]_vars => OneSyncSlotWhileOcrWaits
<1> SUFFICES ASSUME Bookkept, [Next]_vars,
                    NEW j \in Sync, NEW k \in Sync, MaxActive > 1, j # k,
                    j \in ToSet(active') \ Active, k \in ToSet(active')
             PROVE  ~HasPersistent(pending')
  BY DEF OneSyncSlotWhileOcrWaits, Active
<1>0. TypeOK /\ active \in Seq(Job)
  BY DEF Bookkept, Inv, TypeOK
<1>1. ASSUME ToSet(active') \subseteq ToSet(active) PROVE FALSE
  BY <1>1 DEF Active
<1>2. ASSUME ToSet(active') \subseteq ToSet(Filled.active), pending' = Filled.pending
      PROVE  ~HasPersistent(pending')
  BY <1>0, <1>2, PassShares
<1>3. ASSUME NEW w \in Worker, TakeFinished(w) PROVE FALSE
  <2>1. active' = RemoveAt(active, FirstFinishable) /\ FirstFinishable \in 1..Len(active)
    BY <1>0, <1>3, FirstFinishableIs DEF TakeFinished
  <2>2. ToSet(RemoveAt(active, FirstFinishable)) \subseteq ToSet(active)
    BY <1>0, <2>1, TakeOutAt
  <2> QED
    BY <1>1, <2>1, <2>2
<1>4. ASSUME NEW w \in Worker, TakeEmpty(w) PROVE ~HasPersistent(pending')
  <2> DEFINE act == Filled.active
             at == Chosen[act]
  <2>1. pending' = Filled.pending /\ active' = RemoveAt(act, at) /\ at # 0
    BY <1>4 DEF TakeEmpty, TakeSlots
  <2>2. act \in Seq(Job) /\ at \in 1..Len(act)
    BY <1>0, <2>1, PassCounts, ChosenIs
  <2> HIDE DEF at, act
  <2>3. ToSet(RemoveAt(act, at)) \subseteq ToSet(act)
    BY <2>2, TakeOutAt
  <2> QED
    BY <1>2, <2>1, <2>3 DEF act
<1>5. ASSUME NEW w \in Worker, TakePage(w) \/ Sleep(w) PROVE ~HasPersistent(pending')
  BY <1>2, <1>5 DEF TakePage, Sleep, TakeSlots
<1>6. ASSUME active' = active PROVE FALSE
  BY <1>1, <1>6
<1>7. ASSUME NEW w \in Worker, Leave(w) \/ OpenInput(w) \/ ReturnPage(w) \/ FinishJob(w)
      PROVE  active' = active
  BY <1>7 DEF Leave, OpenInput, ReturnPage, FinishJob
<1>8. ASSUME NEW i \in Sync, TimeOut(i) PROVE FALSE
  <2>1. active' = active \/ active' = RemoveFirst(active, i)
    BY <1>8 DEF TimeOut
  <2>2. ToSet(RemoveFirst(active, i)) \subseteq ToSet(active)
    BY <1>0, TakeOutAny
  <2> QED
    BY <1>1, <2>1, <2>2
<1>9. ASSUME NEW i, Submit(i) \/ Call(i) \/ CallRejected(i) \/ Return(i) \/ Expire(i)
      PROVE  active' = active
  BY <1>9 DEF Submit, Call, CallRejected, Return, Expire
<1>10. ASSUME NEW w \in Worker, Work(w) PROVE ~HasPersistent(pending')
  BY <1>3, <1>4, <1>5, <1>6, <1>7, <1>10 DEF Work
<1>11. CASE Shutdown
  BY <1>6, <1>11 DEF Shutdown
<1>12. CASE UNCHANGED vars
  BY <1>6, <1>12 DEF vars
<1> QED
  BY <1>6, <1>8, <1>9, <1>10, <1>11, <1>12 DEF Next

\* Neither lane starves the other: at most two synchronous pages in a row are started
\* past an active OCR job that could go on, and a second synchronous job gets no slot
\* next to an active one while OCR waits (ocr_queue.py:813-873).
THEOREM LanesAreShared == Spec => LanesShare
<1>1. Init => StreakFits
  BY DEF Init, StreakFits
<1>2. Bookkept /\ StreakFits /\ [Next]_vars => [OcrGetsItsTurn' /\ OneSyncSlotWhileOcrWaits]_vars
  <2> SUFFICES ASSUME Bookkept, StreakFits, [Next]_vars
               PROVE  OcrGetsItsTurn' /\ OneSyncSlotWhileOcrWaits
    OBVIOUS
  <2>1. StreakFits' /\ Bookkept'
    BY StreakStays, BookkeepingStays
  <2>2. OcrGetsItsTurn'
    BY <2>1 DEF OcrGetsItsTurn, StreakFits, Bookkept, Inv, TypeOK
  <2> QED
    BY <2>2, SlotsShared
<1> QED
  BY <1>1, <1>2, BookkeepingStarts, BookkeepingStays, StreakStays, PTL DEF Spec, LanesShare

-----------------------------------------------------------------------------
(* Nobody sleeps over work *)

SleepFits == (\E w \in Worker : wk[w] = Asleep) => stopped \/ NothingToTake

\* The jobs a worker would take if it found them active.
Finished == {j \in Job : Finishable(j)}
Takable == {j \in Job : Finishable(j) \/ Ready(j)}

LEMMA NothingIs ==
  Bookkept => (NothingToTake <=> /\ Active \cap Finished = {}
                                 /\ ToSet(Filled.active) \cap Takable = {})
<1> SUFFICES ASSUME Bookkept
             PROVE  NothingToTake <=> /\ Active \cap Finished = {}
                                      /\ ToSet(Filled.active) \cap Takable = {}
  OBVIOUS
<1> DEFINE act == Filled.active
<1>1. TypeOK /\ active \in Seq(Job) /\ act \in Seq(Job)
  BY PassCounts DEF Bookkept, Inv, TypeOK
<1>2. /\ Active = {active[i] : i \in 1..Len(active)} /\ Active \subseteq Job
      /\ ToSet(act) = {act[i] : i \in 1..Len(act)} /\ ToSet(act) \subseteq Job
  BY <1>1, SeqIs DEF Active, ToSet
<1> HIDE DEF act
<1>3. FirstFinishable = 0 <=> Active \cap Finished = {}
  BY <1>1, <1>2, FirstFinishableIs DEF Finished
<1>4. ASSUME Chosen[act] = 0 PROVE ToSet(act) \cap Takable = {}
  <2>1. \A i \in 1..Len(act) : ~Finishable(act[i]) /\ (HasUnits(act[i]) => act[i] = Held)
    BY <1>1, <1>4, NothingChosen
  <2> QED
    BY <1>2, <2>1 DEF Takable, Ready
<1>5. ASSUME Chosen[act] # 0 PROVE ToSet(act) \cap Takable # {}
  <2>1. Chosen[act] \in 1..Len(act) /\ Choosable(act, act[Chosen[act]])
    BY <1>1, <1>5, ChosenIs
  <2>2. act[Chosen[act]] \in ToSet(act) /\ act[Chosen[act]] \in Job
    BY <1>2, <2>1
  <2> QED
    BY <2>1, <2>2 DEF Takable, Choosable
<1> QED
  BY <1>3, <1>4, <1>5 DEF NothingToTake, act

LEMMA NothingIsAfter ==
  ASSUME Bookkept'
  PROVE  NothingToTake' <=> /\ ToSet(active') \cap Finished' = {}
                            /\ ToSet(Filled'.active) \cap Takable' = {}
<1>1. (Bookkept => (NothingToTake <=> /\ Active \cap Finished = {}
                                      /\ ToSet(Filled.active) \cap Takable = {}))'
  BY NothingIs, PTL
<1> QED
  BY <1>1 DEF Active

\* What nobody touches does not become work.
LEMMA SameToTake ==
  ASSUME Bookkept, Bookkept', NothingToTake,
         UNCHANGED <<pending, active, preferSync, units, inflight, erred>>
  PROVE  NothingToTake'
<1>1. Yielding' = Yielding
  BY DEF Yielding, SyncNeedsSlot, HasUnits, SelectLastInSeq
<1>2. Yields' = Yields /\ Held' = Held
  BY <1>1 DEF Yields, Held
<1>3. AfterYield' = AfterYield
  BY <1>1, <1>2 DEF AfterYield, Slots
<1>4. Filled' = Filled
  BY <1>3 DEF Filled
<1>5. Finished' = Finished /\ Takable' = Takable
  BY <1>2 DEF Finished, Takable, Finishable, Ready, HasUnits
<1> QED
  BY <1>4, <1>5, NothingIs, NothingIsAfter DEF Active

LEMMA YieldsIs ==
  TypeOK /\ Yields => Yielding \in Active /\ HasUnits(Yielding) /\ inflight[Yielding] = 0
BY YieldingIs DEF Yields

\* Looking a second time changes nothing: a pass that finds nothing leaves the slots so
\* that the next one finds nothing.
LEMMA PassIdempotent ==
  ASSUME Bookkept, Bookkept', NEW w \in Worker, Sleep(w)
  PROVE  NothingToTake'
<1>1. /\ TypeOK /\ TypeOK' /\ Len(active) <= MaxActive /\ NothingToTake
      /\ pending' = Filled.pending /\ active' = Filled.active /\ preferSync' = Filled.preferSync
      /\ UNCHANGED <<persistentRR, syncRR, syncStreak, units, inflight, done, erred>>
  BY DEF Bookkept, Inv, OnePlacePerJob, Sleep, TakeSlots, work
<1>2. Filled \in SlotState /\ Slots' = Filled /\ active' \in Seq(Job) /\ ToSet(active') \subseteq Job
  BY <1>1, FilledCounts, SeqIs DEF SlotState, Slots
<1>3. ToSet(active') \cap Takable = {}
  BY <1>1, NothingIs
<1>4. \A j \in ToSet(active') : ~Finishable(j) /\ (HasUnits(j) => j = Held)
  BY <1>2, <1>3 DEF Takable, Ready
<1>5. NoJob \notin Job
  BY LaneAssumption
<1>6. ~Yields'
  <2> SUFFICES ASSUME Yields' PROVE FALSE
    OBVIOUS
  <2>1. (TypeOK /\ Yields => Yielding \in Active /\ HasUnits(Yielding) /\ inflight[Yielding] = 0)'
    BY YieldsIs, PTL
  <2>2. Yielding' \in ToSet(active') /\ HasUnits(Yielding)' /\ inflight'[Yielding'] = 0
    BY <1>1, <2>1 DEF Active
  <2>3. units[Yielding'] > 0 /\ Yielding' \notin erred
    BY <1>1, <2>2 DEF HasUnits
  <2>4. Yielding' = Held /\ Held # NoJob
    BY <1>2, <1>4, <1>5, <2>2, <2>3 DEF HasUnits
  <2> QED
    BY <1>1, <2>2, <2>4, HeldIs
<1>7. Filled' = Filled
  <2>1. ~HasRoom(Filled)
    BY <1>1, FilledFull
  <2>2. (TypeOK /\ ~Yields /\ ~HasRoom(Slots) => Filled = Slots)'
    BY FilledStays, PTL
  <2> QED
    BY <1>1, <1>2, <1>6, <2>1, <2>2 DEF HasRoom
<1>8. ASSUME NEW j \in ToSet(active') \cap Takable' PROVE FALSE
  <2>1. ~Finishable(j)' /\ Ready(j)'
    BY <1>1, <1>4, <1>8 DEF Takable, Finishable
  <2>2. j # Held' /\ j = Held /\ Held # NoJob
    BY <1>1, <1>2, <1>4, <1>5, <2>1 DEF Ready, HasUnits
  <2>3. Filled = Slots
    BY <1>1, <2>2, HeldIs
  <2>4. pending' = pending /\ active' = active
    BY <1>1, <2>3 DEF Slots
  <2>5. preferSync' = preferSync
    BY <1>1, <2>3 DEF Slots
  <2>6. Yielding' = Yielding
    BY <1>1, <2>4, <2>5 DEF Yielding, SyncNeedsSlot, HasUnits, SelectLastInSeq
  <2>7. Held' = Held
    BY <1>1, <2>6 DEF Held, Yields
  <2> QED
    BY <2>2, <2>7
<1>9. ToSet(active') \cap Finished' = {}
  BY <1>1, <1>2, <1>4 DEF Finished, Finishable
<1> QED
  BY <1>1, <1>7, <1>8, <1>9, NothingIsAfter

LEMMA SleepFitsStays == Bookkept /\ SleepFits /\ [Next]_vars => SleepFits'
<1> SUFFICES ASSUME Bookkept, SleepFits, [Next]_vars PROVE SleepFits'
  OBVIOUS
<1>0. TypeOK /\ Bookkept' /\ Idle # Asleep /\ Gone # Asleep
  BY BookkeepingStays DEF Bookkept, Inv, Idle, Asleep, Gone
<1>1. ASSUME stopped' = TRUE PROVE SleepFits'
  BY <1>1 DEF SleepFits
<1>2. ASSUME \A v \in Worker : wk'[v] # Asleep PROVE SleepFits'
  BY <1>2 DEF SleepFits
<1>3. ASSUME UNCHANGED <<pending, active, preferSync, units, inflight, erred, stopped>>,
             \A v \in Worker : wk'[v] = Asleep => wk[v] = Asleep
      PROVE  SleepFits'
  <2>1. ASSUME NEW v \in Worker, wk'[v] = Asleep PROVE stopped' \/ NothingToTake'
    <3>1. stopped \/ NothingToTake
      BY <1>3, <2>1 DEF SleepFits
    <3> QED
      BY <1>0, <1>3, <3>1, SameToTake
  <2> QED
    BY <2>1 DEF SleepFits
<1>4. ASSUME NEW w \in Worker, TakeFinished(w) \/ TakeEmpty(w) \/ TakePage(w)
      PROVE  SleepFits'
  <2>1. ~stopped /\ ~NothingToTake
    BY <1>4 DEF TakeFinished, TakeEmpty, TakePage, Scheduling, NothingToTake
  <2>2. \A v \in Worker : wk[v] # Asleep
    BY <2>1 DEF SleepFits
  <2>3. \E x : x.pc # "asleep" /\ wk' = [wk EXCEPT ![w] = x]
    BY <1>4 DEF TakeFinished, TakeEmpty, TakePage
  <2>4. \A v \in Worker : wk'[v] # Asleep
    BY <1>0, <2>2, <2>3 DEF TypeOK, Asleep
  <2> QED
    BY <1>2, <2>4
<1>5. ASSUME NEW w \in Worker, Sleep(w) PROVE SleepFits'
  BY <1>0, <1>5, PassIdempotent DEF SleepFits
<1>6. ASSUME NEW w \in Worker, Leave(w) PROVE SleepFits'
  BY <1>1, <1>6 DEF Leave, SleepFits
<1>7. ASSUME NEW w \in Worker, OpenInput(w) \/ FinishJob(w) PROVE SleepFits'
  <2>1. UNCHANGED <<pending, active, preferSync, units, inflight, erred, stopped>>
    BY <1>7 DEF OpenInput, FinishJob, lanes, work
  <2>2. (wk' = [wk EXCEPT ![w].pc = "read"] /\ wk[w].pc = "open") \/ wk' = [wk EXCEPT ![w] = Idle]
    BY <1>7 DEF OpenInput, FinishJob
  <2>3. \A v \in Worker : wk'[v] = Asleep => wk[v] = Asleep
    <3>1. CASE wk' = [wk EXCEPT ![w].pc = "read"] /\ wk[w].pc = "open"
      <4>1. wk[w] \in [pc : {"open", "read", "finish"}, job : Job]
        BY <1>0, <3>1 DEF TypeOK, Idle, Asleep, Gone
      <4>2. wk'[w].pc = "read" /\ \A v \in Worker : v # w => wk'[v] = wk[v]
        BY <1>0, <3>1, <4>1 DEF TypeOK
      <4> QED
        BY <4>2 DEF Asleep
    <3>2. CASE wk' = [wk EXCEPT ![w] = Idle]
      BY <1>0, <3>2 DEF TypeOK
    <3> QED
      BY <2>2, <3>1, <3>2
  <2> QED
    BY <1>3, <2>1, <2>3
<1>8. ASSUME NEW w \in Worker, ReturnPage(w) PROVE SleepFits'
  <2>1. CASE stopped
    BY <1>1, <1>8, <2>1 DEF ReturnPage, SleepFits
  <2>2. CASE ~stopped
    <3>1. NotifyAnd(w, Idle)
      BY <1>8, <2>2 DEF ReturnPage
    <3>2. \A v \in Worker : wk'[v] # Asleep
      BY <1>0, <3>1 DEF NotifyAnd
    <3> QED
      BY <1>2, <3>2
  <2> QED
    BY <2>1, <2>2
<1>9. ASSUME NotifyAll PROVE SleepFits'
  BY <1>0, <1>2, <1>9, WokenKeeps
<1>10. ASSUME NEW j \in Sync, CallRejected(j) \/ Return(j) \/ Expire(j) PROVE SleepFits'
  BY <1>3, <1>10 DEF CallRejected, Return, Expire, lanes, work
<1>11. ASSUME NEW j, Submit(j) \/ Call(j) \/ TimeOut(j) PROVE SleepFits'
  BY <1>9, <1>11 DEF Submit, Call, TimeOut, EnqueueLocked
<1>12. CASE Shutdown
  BY <1>9, <1>12 DEF Shutdown
<1>13. CASE UNCHANGED vars
  BY <1>3, <1>13 DEF vars, lanes, work
<1>14. ASSUME NEW w \in Worker, Work(w) PROVE SleepFits'
  BY <1>4, <1>5, <1>6, <1>7, <1>8, <1>14 DEF Work
<1> QED
  BY <1>10, <1>11, <1>12, <1>13, <1>14 DEF Next

\* No wake-up is lost: while a worker sleeps there is nothing to take, or another one is
\* about to look, or the queue is stopped (every notify_all of ocr_queue.py against the
\* wait at 890).
THEOREM NoWakeUpIsLost == Spec => []SleepOnlyWhenNothingToTake
<1>1. Init => SleepFits
  BY DEF Init, SleepFits, Idle, Asleep
<1>2. SleepFits => SleepOnlyWhenNothingToTake
  BY DEF SleepFits, SleepOnlyWhenNothingToTake
<1> QED
  BY <1>1, <1>2, BookkeepingStarts, BookkeepingStays, SleepFitsStays, PTL DEF Spec

=============================================================================
