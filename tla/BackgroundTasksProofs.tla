------------------------ MODULE BackgroundTasksProofs ------------------------
(* Theorems about BackgroundTasks and the file cache under it: for any         *)
(* requests, keys, entries and limits, no cut-off document is served and no    *)
(* task is left behind.                                                        *)
EXTENDS BackgroundTasks, SequencesExt, FiniteSetTheorems, SequenceTheorems, WellFoundedInduction, TLAPS

-----------------------------------------------------------------------------
(* The strengthening *)

Running == {"queued", "working", "storing", "failing", "explaining"}
Final == {"completed", "failed"}

\* The code of this request runs on the event loop.
OnLoop(r) == job[r] = "asking" \/ (job[r] \in Running \ {"queued"} /\ Runner(r) = Loop)

\* One request's code at a time has the event loop, and whoever holds it runs.
LoopHeld ==
  /\ \A r \in Request : OnLoop(r) => holder = r /\ reading = "no"
  /\ IF holder = Nobody THEN reading = "no" ELSE reading # "no" \/ OnLoop(holder)

\* A request whose background task runs has a task that has not ended, and the other
\* way round; a task that ended says why, or is about to.
Followed ==
  \A r \in Request :
    /\ job[r] \in Running /\ KeyOf[r] \notin Inline => tasks[r] # NoTask /\ ~tasks[r].ended
    /\ KeyOf[r] \in Inline => tasks[r] = NoTask /\ job[r] \notin {"queued", "failing", "explaining"}
    /\ tasks[r] # NoTask => tasks[r].status # "unknown" /\ (~tasks[r].ended => job[r] \in Running)
    /\ job[r] = "explaining" => tasks[r].status \in Final
    /\ tasks[r].status \in Final => job[r] = "explaining" \/ tasks[r].result \/ tasks[r].error

\* A call of the cache is about a key, and evicts only while something is left.
CallsFit ==
  \A a \in Actor :
    /\ call[a].pc # "idle" => call[a].key \in Key
    /\ call[a].pc \in {"evict", "evictmeta"} => call[a].left # <<>> /\ call[a].over # 0

\* What the event loop looks up for a request is that request's entry, and what it finds
\* of a redacted document is not cut off.
LookupFits ==
  \A r \in Request : job[r] = "asking" =>
    /\ call[Loop].pc \in {"idle", "look", "load", "read", "purge", "purgemeta"}
    /\ call[Loop].pc # "idle" => call[Loop].key = KeyOf[r]
    /\ call[Loop].pc = "idle" /\ KeyOf[r] \in Json => call[Loop].hit # "part"

IInv == TypeOK /\ LoopHeld /\ Followed /\ CallsFit /\ LookupFits /\ DocumentIsWhole

-----------------------------------------------------------------------------
(* Taking an element out of a sequence *)

\* A set of numbers that is not empty has a least one.
LEMMA LeastExists ==
  ASSUME NEW I \in SUBSET Nat, I # {}
  PROVE  \E m \in I : \A n \in I : m <= n
<1> DEFINE Below == {s \in Nat \X Nat : s[1] < s[2]}
<1>1. IsWellFoundedOn(Below, Nat)
  BY NatLessThanWellFounded DEF OpToRel
<1>2. \E m \in I : \A n \in I : <<n, m>> \notin Below
  <2> HIDE DEF Below
  <2> QED
    BY <1>1, WFMin
<1>3. PICK m \in I : \A n \in I : <<n, m>> \notin Below
  BY <1>2
<1>4. ASSUME NEW n \in I, n < m
      PROVE  <<n, m>> \in Below
  <2>1. n \in Nat /\ m \in Nat
    OBVIOUS
  <2>2. <<n, m>> \in Nat \X Nat /\ <<n, m>>[1] = n /\ <<n, m>>[2] = m
    BY <2>1
  <2> QED
    BY <1>4, <2>2
<1>5. \A n \in I : ~(n < m)
  <2> HIDE DEF Below
  <2> QED
    BY <1>3, <1>4
<1>6. \A n \in I : n \in Nat /\ m \in Nat
  OBVIOUS
<1> QED
  BY <1>5, <1>6

LEMMA RemoveAtIs ==
  ASSUME NEW S, NEW s \in Seq(S), NEW i \in 1..Len(s)
  PROVE  /\ RemoveAt(s, i) \in Seq(S) /\ Len(RemoveAt(s, i)) = Len(s) - 1
         /\ \A k \in 1..(Len(s) - 1) : RemoveAt(s, i)[k] = IF k < i THEN s[k] ELSE s[k + 1]
<1> DEFINE a == SubSeq(s, 1, i - 1)
           b == SubSeq(s, i + 1, Len(s))
<1>1. Len(s) \in Nat /\ i \in Nat
  BY LenProperties
<1>2. /\ a \in Seq(S) /\ Len(a) = i - 1
      /\ \A k \in 1..(i - 1) : a[k] = s[k]
  <2>1. \A k \in 1..(i - 1) : s[k] \in S
    BY <1>1, ElementOfSeq
  <2> QED
    BY <1>1, <2>1, SubSeqProperties
<1>3. /\ b \in Seq(S) /\ Len(b) = Len(s) - i
      /\ \A k \in 1..(Len(s) - i) : b[k] = s[k + i]
  <2>1. \A k \in (i + 1)..Len(s) : s[k] \in S
    BY <1>1, ElementOfSeq
  <2>2. /\ b \in Seq(S) /\ Len(b) = IF i + 1 <= Len(s) THEN Len(s) - (i + 1) + 1 ELSE 0
        /\ \A k \in 1..(Len(s) - (i + 1) + 1) : b[k] = s[(i + 1) + k - 1]
    BY <1>1, <2>1, SubSeqProperties
  <2> QED
    BY <1>1, <2>2
<1> HIDE DEF a, b
<1>4. /\ a \o b \in Seq(S) /\ Len(a \o b) = Len(s) - 1
      /\ \A k \in 1..(Len(s) - 1) : (a \o b)[k] = IF k <= i - 1 THEN a[k] ELSE b[k - (i - 1)]
  <2>1. /\ a \o b \in Seq(S) /\ Len(a \o b) = Len(a) + Len(b)
        /\ \A k \in 1..(Len(a) + Len(b)) : (a \o b)[k] = IF k <= Len(a) THEN a[k] ELSE b[k - Len(a)]
    BY <1>2, <1>3, ConcatProperties
  <2>2. Len(a) = i - 1 /\ Len(a) + Len(b) = Len(s) - 1
    BY <1>1, <1>2, <1>3
  <2> QED
    BY <2>1, <2>2
<1>5. \A k \in 1..(Len(s) - 1) : (a \o b)[k] = IF k < i THEN s[k] ELSE s[k + 1]
  BY <1>1, <1>2, <1>3, <1>4
<1> QED
  BY <1>4, <1>5 DEF RemoveAt, a, b

\* The elements of what is left when one of a sequence is taken out.
LEMMA RemoveAtElements ==
  ASSUME NEW S, NEW s \in Seq(S), NEW i \in 1..Len(s)
  PROVE  /\ ToSet(RemoveAt(s, i)) \subseteq ToSet(s)
         /\ ToSet(s) \subseteq ToSet(RemoveAt(s, i)) \cup {s[i]}
<1> DEFINE t == RemoveAt(s, i)
<1>1. /\ t \in Seq(S) /\ Len(t) = Len(s) - 1
      /\ \A k \in 1..(Len(s) - 1) : t[k] = IF k < i THEN s[k] ELSE s[k + 1]
  BY RemoveAtIs
<1>2. /\ Len(s) \in Nat /\ i \in Nat
      /\ DOMAIN s = 1..Len(s) /\ DOMAIN t = 1..(Len(s) - 1)
  BY <1>1, LenProperties
<1> HIDE DEF t
<1>3. \A k \in 1..(Len(s) - 1) : \E m \in 1..Len(s) : t[k] = s[m]
  <2> SUFFICES ASSUME NEW k \in 1..(Len(s) - 1)
               PROVE  \E m \in 1..Len(s) : t[k] = s[m]
    OBVIOUS
  <2>1. /\ t[k] = s[IF k < i THEN k ELSE k + 1]
        /\ k \in 1..Len(s) /\ k + 1 \in 1..Len(s)
    BY <1>1, <1>2
  <2> QED
    BY <2>1
<1>4. \A m \in 1..Len(s) : m # i => \E k \in 1..(Len(s) - 1) : t[k] = s[m]
  <2> SUFFICES ASSUME NEW m \in 1..Len(s), m # i
               PROVE  \E k \in 1..(Len(s) - 1) : t[k] = s[m]
    OBVIOUS
  <2>1. CASE m < i
    BY <1>1, <1>2, <2>1
  <2>2. CASE m > i
    <3>1. m - 1 \in 1..(Len(s) - 1) /\ ~(m - 1 < i) /\ (m - 1) + 1 = m
      BY <1>2, <2>2
    <3> QED
      BY <1>1, <3>1
  <2> QED
    BY <1>2, <2>1, <2>2
<1>5. ToSet(t) \subseteq ToSet(s)
  BY <1>2, <1>3 DEF ToSet
<1>6. ToSet(s) \subseteq ToSet(t) \cup {s[i]}
  <2>1. ToSet(t) = {t[k] : k \in 1..(Len(s) - 1)} /\ ToSet(s) = {s[m] : m \in 1..Len(s)}
    BY <1>2 DEF ToSet
  <2> SUFFICES ASSUME NEW m \in 1..Len(s), m # i PROVE s[m] \in ToSet(t)
    BY <2>1
  <2> QED
    BY <1>4, <2>1
<1> QED
  BY <1>5, <1>6 DEF t

\* Taking out the first occurrence of a value takes out one place of it.
LEMMA RemoveFirstIs ==
  ASSUME NEW S, NEW s \in Seq(S), NEW e
  PROVE  \/ e \notin ToSet(s) /\ RemoveFirst(s, e) = s
         \/ \E i \in 1..Len(s) : s[i] = e /\ RemoveFirst(s, e) = RemoveAt(s, i)
<1> DEFINE I == {i \in 1..Len(s) : s[i] = e}
<1>1. Len(s) \in Nat /\ DOMAIN s = 1..Len(s)
  BY LenProperties
<1>2. CASE I = {}
  BY <1>1, <1>2 DEF RemoveFirst, ToSet
<1>3. CASE I # {}
  <2>1. I \in SUBSET Nat
    BY <1>1
  <2>2. Min(I) \in I
    <3> HIDE DEF I
    <3> QED
      BY <1>3, <2>1, LeastExists DEF Min
  <2>3. RemoveFirst(s, e) = RemoveAt(s, Min(I))
    BY <1>3 DEF RemoveFirst, SelectInSeq
  <2> QED
    BY <2>2, <2>3
<1> QED
  BY <1>2, <1>3

-----------------------------------------------------------------------------
(* The age order *)

AgeType(s, names) == s \in Seq(Key) /\ IsInjective(s) /\ ToSet(s) = names

\* Taking a key out of the order.
LEMMA TakenOut ==
  ASSUME NEW s \in Seq(Key), IsInjective(s), NEW k
  PROVE  AgeType(RemoveFirst(s, k), ToSet(s) \ {k})
<1>0. Len(s) \in Nat /\ DOMAIN s = 1..Len(s)
  BY LenProperties
<1>1. CASE k \notin ToSet(s) /\ RemoveFirst(s, k) = s
  BY <1>1 DEF AgeType
<1>2. ASSUME NEW i \in 1..Len(s), s[i] = k, RemoveFirst(s, k) = RemoveAt(s, i)
      PROVE  AgeType(RemoveFirst(s, k), ToSet(s) \ {k})
  <2> DEFINE t == RemoveAt(s, i)
  <2>1. /\ t \in Seq(Key) /\ Len(t) = Len(s) - 1
        /\ \A n \in 1..(Len(s) - 1) : t[n] = IF n < i THEN s[n] ELSE s[n + 1]
    BY RemoveAtIs
  <2>2. ToSet(t) \subseteq ToSet(s) /\ ToSet(s) \subseteq ToSet(t) \cup {s[i]}
    BY RemoveAtElements
  <2>3. DOMAIN t = 1..(Len(s) - 1)
    BY <2>1, LenProperties
  <2> HIDE DEF t
  <2>4. ASSUME NEW n \in 1..(Len(s) - 1)
        PROVE  \E m \in 1..Len(s) : t[n] = s[m] /\ m = (IF n < i THEN n ELSE n + 1)
    BY <1>0, <2>1
  <2>5. IsInjective(t)
    <3> SUFFICES ASSUME NEW n \in 1..(Len(s) - 1), NEW m \in 1..(Len(s) - 1), t[n] = t[m]
                 PROVE  n = m
      BY <2>3 DEF IsInjective
    <3>1. PICK n1 \in 1..Len(s) : t[n] = s[n1] /\ n1 = (IF n < i THEN n ELSE n + 1)
      BY <2>4
    <3>2. PICK m1 \in 1..Len(s) : t[m] = s[m1] /\ m1 = (IF m < i THEN m ELSE m + 1)
      BY <2>4
    <3>3. n1 = m1
      BY <1>0, <3>1, <3>2 DEF IsInjective
    <3> QED
      BY <1>0, <3>1, <3>2, <3>3
  <2>6. k \notin ToSet(t)
    <3> SUFFICES ASSUME NEW n \in 1..(Len(s) - 1), t[n] = k
                 PROVE  FALSE
      BY <2>3 DEF ToSet
    <3>1. PICK m \in 1..Len(s) : t[n] = s[m] /\ m = (IF n < i THEN n ELSE n + 1)
      BY <2>4
    <3>2. m = i
      BY <1>0, <1>2, <3>1 DEF IsInjective
    <3> QED
      BY <1>0, <3>1, <3>2
  <2>7. ToSet(t) = ToSet(s) \ {k}
    BY <1>2, <2>2, <2>6
  <2> QED
    BY <1>2, <2>1, <2>5, <2>7 DEF AgeType, t
<1> QED
  BY <1>1, <1>2, RemoveFirstIs

\* A key that is written again is the youngest.
LEMMA PutLast ==
  ASSUME NEW s \in Seq(Key), IsInjective(s), NEW k \in Key
  PROVE  AgeType(Append(RemoveFirst(s, k), k), ToSet(s) \cup {k})
<1> DEFINE t == RemoveFirst(s, k)
           u == Append(t, k)
<1>1. t \in Seq(Key) /\ IsInjective(t) /\ ToSet(t) = ToSet(s) \ {k}
  BY TakenOut DEF AgeType
<1> HIDE DEF t
<1>2. /\ u \in Seq(Key) /\ Len(u) = Len(t) + 1 /\ Len(t) \in Nat
      /\ \A i \in 1..Len(t) : u[i] = t[i]
      /\ u[Len(t) + 1] = k
  BY <1>1, AppendProperties, LenProperties
<1>3. DOMAIN t = 1..Len(t) /\ DOMAIN u = 1..(Len(t) + 1)
  BY <1>1, <1>2, LenProperties
<1> HIDE DEF u
<1>4. ToSet(u) = ToSet(t) \cup {k}
  BY <1>2, <1>3 DEF ToSet
<1>5. \A i \in 1..Len(t) : t[i] \in ToSet(t) /\ t[i] # k
  BY <1>1, <1>3 DEF ToSet
<1>6. IsInjective(u)
  <2> SUFFICES ASSUME NEW i \in 1..(Len(t) + 1), NEW j \in 1..(Len(t) + 1), u[i] = u[j]
               PROVE  i = j
    BY <1>3 DEF IsInjective
  <2>1. \A n \in 1..(Len(t) + 1) : n \in 1..Len(t) \/ n = Len(t) + 1
    BY <1>2
  <2>2. CASE i \in 1..Len(t) /\ j \in 1..Len(t)
    BY <1>1, <1>2, <1>3, <2>2 DEF IsInjective
  <2> QED
    BY <1>2, <1>5, <2>1, <2>2
<1> QED
  BY <1>1, <1>2, <1>4, <1>6 DEF AgeType, u, t

\* Listing what an earlier process left.
LEMMA Listed == AgeType(SetToSeq(Stored), Stored)
<1> DEFINE n == Cardinality(Stored)
           f == SetToSeq(Stored)
<1>1. IsFiniteSet(Stored) /\ Stored \subseteq Key
  BY KeyAssumption, FS_Subset
<1>2. n \in Nat /\ ExistsBijection(1..n, Stored)
  BY <1>1, FS_CardinalityType
<1> HIDE DEF n
<1>3. PICK g \in [1..n -> Stored] : IsInjective(g)
  BY <1>2 DEF ExistsBijection, Bijection, Injection
<1>4. f \in [1..n -> Stored] /\ IsInjective(f)
  BY <1>3 DEF SetToSeq, n
<1>5. f \in Surjection(1..n, Stored)
  <2>1. IsFiniteSet(1..n) /\ Cardinality(1..n) = n
    BY <1>2, FS_Interval
  <2>2. f \in Injection(1..n, Stored)
    BY <1>4 DEF Injection, IsInjective
  <2> HIDE DEF f
  <2> QED
    BY <1>1, <2>1, <2>2, FS_Injection DEF n
<1>6. ToSet(f) = Stored
  BY <1>4, <1>5 DEF ToSet, Surjection
<1>7. f \in Seq(Key)
  BY <1>1, <1>2, <1>4
<1> QED
  BY <1>4, <1>6, <1>7 DEF AgeType

-----------------------------------------------------------------------------
(* The steps of the cache *)

CallState == [pc : CallStep, key : Key \cup {NoKey}, linked : BOOLEAN,
              left : Seq(Key), over : Nat, hit : {"none", "part", "whole"}]

CallFits(c) ==
  /\ c \in CallState
  /\ c.pc # "idle" => c.key \in Key
  /\ c.pc \in {"evict", "evictmeta"} => c.left # <<>> /\ c.over # 0

CacheFits == CacheTypeOK /\ CallsFit

LEMMA CallsHaveState ==
  ASSUME CacheFits
  PROVE  /\ call \in [Actor -> CallState] /\ \A a \in Actor : CallFits(call[a])
         /\ AgeType(byAge, {k \in Key : dat[k] # "none"})
BY DEF CacheFits, CacheTypeOK, CallsFit, CallFits, CallState, AgeType

LEMMA FitsAgain ==
  ASSUME call' \in [Actor -> CallState], \A a \in Actor : CallFits(call'[a]),
         dat' \in [Key -> {"none", "part", "whole"}],
         meta' \in [Key -> {"none", "part", "fresh", "expired"}],
         AgeType(byAge', {k \in Key : dat'[k] # "none"}), faults' \in Nat
  PROVE  CacheFits'
BY DEF CacheFits, CacheTypeOK, CallsFit, CallFits, CallState, AgeType

\* A call that has not begun fits.
LEMMA NoCallFits ==
  CallFits(NoCall) /\ \A hit \in {"none", "part", "whole"} : CallFits([NoCall EXCEPT !.hit = hit])
<1>1. <<>> \in Seq(Key)
  OBVIOUS
<1> QED
  BY <1>1 DEF CallFits, CallState, NoCall, CallStep

\* One call goes on, and a file it removed is no longer found by the others.
LEMMA CallMoves ==
  ASSUME CacheFits, NEW a \in Actor, NEW state, CallFits(state), NEW k, NEW holding,
         call' = [call EXCEPT ![a] = state] \/ Unlinked(k, holding, a, state)
  PROVE  call' \in [Actor -> CallState] /\ \A b \in Actor : CallFits(call'[b])
<1>1. call \in [Actor -> CallState] /\ \A b \in Actor : CallFits(call[b])
  BY CallsHaveState
<1>2. ASSUME NEW c, CallFits(c) PROVE CallFits([c EXCEPT !.linked = FALSE])
  BY <1>2 DEF CallFits, CallState
<1>3. \A c : CallFits(c) => c \in CallState
  BY DEF CallFits
<1> HIDE DEF CallFits, CallState
<1>4. CASE call' = [call EXCEPT ![a] = state]
  BY <1>1, <1>3, <1>4
<1>5. CASE Unlinked(k, holding, a, state)
  <2>1. \A b \in Actor : call'[b] = IF b = a THEN state
           ELSE IF call[b].pc = holding /\ call[b].key = k THEN [call[b] EXCEPT !.linked = FALSE]
           ELSE call[b]
    BY <1>5 DEF Unlinked
  <2>2. \A b \in Actor : CallFits(call'[b])
    BY <1>1, <1>2, <2>1
  <2>3. DOMAIN call' = Actor /\ call' = [b \in Actor |-> call'[b]]
    BY <1>5 DEF Unlinked
  <2> QED
    BY <1>3, <2>2, <2>3
<1> QED
  BY <1>4, <1>5

\* A removed data file leaves the order, a written one is its last.
LEMMA FileGoes ==
  ASSUME CacheFits, NEW k, dat' = [dat EXCEPT ![k] = "none"], byAge' = RemoveFirst(byAge, k)
  PROVE  dat' \in [Key -> {"none", "part", "whole"}] /\ AgeType(byAge', {m \in Key : dat'[m] # "none"})
<1>1. AgeType(byAge', ToSet(byAge) \ {k})
  BY TakenOut DEF CacheFits, CacheTypeOK
<1>2. {m \in Key : dat'[m] # "none"} = ToSet(byAge) \ {k}
  BY DEF CacheFits, CacheTypeOK
<1> QED
  BY <1>1, <1>2 DEF CacheFits, CacheTypeOK

LEMMA FileComes ==
  ASSUME CacheFits, NEW k \in Key, NEW what \in {"part", "whole"},
         dat' = [dat EXCEPT ![k] = what], byAge' = Touched(k)
  PROVE  dat' \in [Key -> {"none", "part", "whole"}] /\ AgeType(byAge', {m \in Key : dat'[m] # "none"})
<1>1. AgeType(byAge', ToSet(byAge) \cup {k})
  BY PutLast DEF CacheFits, CacheTypeOK, Touched
<1>2. {m \in Key : dat'[m] # "none"} = ToSet(byAge) \cup {k}
  BY DEF CacheFits, CacheTypeOK
<1> QED
  BY <1>1, <1>2 DEF CacheFits, CacheTypeOK

\* A step that touches no file only moves its call.
LEMMA OnlyCallMoves ==
  ASSUME CacheFits, NEW a \in Actor, NEW state, CallFits(state),
         call' = [call EXCEPT ![a] = state], UNCHANGED files, faults' \in Nat
  PROVE  CacheFits'
<1>1. call' \in [Actor -> CallState] /\ \A b \in Actor : CallFits(call'[b])
  BY CallMoves
<1>2. dat' = dat /\ meta' = meta /\ byAge' = byAge
  BY DEF files
<1> QED
  BY <1>1, <1>2, CallsHaveState, FitsAgain DEF CacheFits, CacheTypeOK

\* Files are removed in two steps, which lose the place of no other call.
LEMMA DatRemoved ==
  ASSUME CacheFits, NEW a \in Actor, NEW state, CallFits(state), NEW k, RemoveDat(a, k, state)
  PROVE  CacheFits'
<1>1. call' \in [Actor -> CallState] /\ \A b \in Actor : CallFits(call'[b])
  BY CallMoves DEF RemoveDat
<1>2. dat' \in [Key -> {"none", "part", "whole"}] /\ AgeType(byAge', {m \in Key : dat'[m] # "none"})
  BY FileGoes DEF RemoveDat
<1> QED
  BY <1>1, <1>2, FitsAgain DEF RemoveDat, CacheFits, CacheTypeOK

LEMMA MetaRemoved ==
  ASSUME CacheFits, NEW a \in Actor, NEW state, CallFits(state), NEW k, RemoveMeta(a, k, state)
  PROVE  CacheFits'
<1>1. call' \in [Actor -> CallState] /\ \A b \in Actor : CallFits(call'[b])
  BY CallMoves DEF RemoveMeta
<1>2. meta' \in [Key -> {"none", "part", "fresh", "expired"}] /\ dat' = dat /\ byAge' = byAge
      /\ faults' \in Nat
  BY DEF RemoveMeta, CacheFits, CacheTypeOK
<1> QED
  BY <1>1, <1>2, CallsHaveState, FitsAgain DEF CacheFits, CacheTypeOK

\* What a call is after each of its steps.
LEMMA StateMoves ==
  ASSUME CacheFits, NEW a \in Actor, call[a].pc # "idle"
  PROVE  /\ call[a].key \in Key
         /\ \A pc \in CallStep \ {"evict", "evictmeta"} :
              /\ CallFits([call[a] EXCEPT !.pc = pc])
              /\ \A b \in BOOLEAN : CallFits([call[a] EXCEPT !.pc = pc, !.linked = b])
BY CallsHaveState DEF CallFits, CallState

LEMMA GettingKeeps ==
  ASSUME CacheFits, NEW a \in Actor, Look(a) \/ Load(a) \/ Purge(a) \/ PurgeMeta(a) \/ Read(a)
  PROVE  CacheFits'
<1>0. call[a].pc # "idle" /\ faults \in Nat
  BY DEF Look, Load, Purge, PurgeMeta, Read, Step, CacheFits, CacheTypeOK
<1>1. /\ call[a].key \in Key
      /\ \A pc \in {"load", "read", "purge", "purgemeta"} : CallFits([call[a] EXCEPT !.pc = pc])
  BY <1>0, StateMoves DEF CallStep
<1>2. CallFits([NoCall EXCEPT !.hit = "none"]) /\ CallFits(NoCall)
      /\ CallFits([NoCall EXCEPT !.hit = dat[call[a].key]])
  <2>1. dat[call[a].key] \in {"none", "part", "whole"}
    BY <1>1 DEF CacheFits, CacheTypeOK
  <2> QED
    BY <2>1, NoCallFits
<1>3. CASE Look(a)
  BY <1>0, <1>1, <1>2, <1>3, OnlyCallMoves DEF Look, Answer, Proceed
<1>4. CASE Load(a)
  BY <1>0, <1>1, <1>2, <1>4, OnlyCallMoves DEF Load, Answer, Proceed
<1>5. CASE Purge(a)
  BY <1>1, <1>5, DatRemoved DEF Purge
<1>6. CASE PurgeMeta(a)
  BY <1>2, <1>6, MetaRemoved DEF PurgeMeta
<1>7. CASE Read(a)
  BY <1>0, <1>2, <1>7, OnlyCallMoves DEF Read, Answer
<1> QED
  BY <1>3, <1>4, <1>5, <1>6, <1>7

LEMMA WritingKeeps ==
  ASSUME CacheFits, NEW a \in Actor, OpenDat(a) \/ WriteDat(a) \/ OpenMeta(a) \/ WriteMeta(a)
  PROVE  CacheFits'
<1>0. call[a].pc # "idle" /\ faults \in Nat
  BY DEF OpenDat, WriteDat, OpenMeta, WriteMeta, Step, CacheFits, CacheTypeOK
<1>1. /\ call[a].key \in Key
      /\ \A pc \in {"write", "label", "stamp", "list"} :
           /\ CallFits([call[a] EXCEPT !.pc = pc])
           /\ CallFits([call[a] EXCEPT !.pc = pc, !.linked = TRUE])
  BY <1>0, StateMoves DEF CallStep
<1>2. CASE Raises /\ Proceed(a, "list") /\ UNCHANGED files
  <2>1. call' = [call EXCEPT ![a] = [call[a] EXCEPT !.pc = "list"]]
    BY <1>2 DEF Proceed
  <2>2. faults' \in Nat
    BY <1>0, <1>2 DEF Raises
  <2> QED
    BY <1>1, <1>2, <2>1, <2>2, OnlyCallMoves
<1>3. ASSUME NEW state, CallFits(state), call' = [call EXCEPT ![a] = state], faults' = faults,
             meta' \in [Key -> {"none", "part", "fresh", "expired"}],
             dat' \in [Key -> {"none", "part", "whole"}],
             AgeType(byAge', {m \in Key : dat'[m] # "none"})
      PROVE  CacheFits'
  <2>1. call' \in [Actor -> CallState] /\ \A b \in Actor : CallFits(call'[b])
    BY <1>3, CallMoves
  <2> QED
    BY <1>0, <1>3, <2>1, FitsAgain
<1>4. /\ dat \in [Key -> {"none", "part", "whole"}] /\ AgeType(byAge, {m \in Key : dat[m] # "none"})
      /\ meta \in [Key -> {"none", "part", "fresh", "expired"}]
  BY CallsHaveState DEF CacheFits, CacheTypeOK
<1>5. CASE OpenDat(a)
  <2> SUFFICES ASSUME dat' = [dat EXCEPT ![call[a].key] = "part"], byAge' = Touched(call[a].key),
                      call' = [call EXCEPT ![a].pc = "write", ![a].linked = TRUE],
                      UNCHANGED <<meta, faults>>
               PROVE  CacheFits'
    BY <1>2, <1>5 DEF OpenDat
  <2>1. call' = [call EXCEPT ![a] = [call[a] EXCEPT !.pc = "write", !.linked = TRUE]]
    BY CallsHaveState DEF CallState
  <2>2. dat' \in [Key -> {"none", "part", "whole"}] /\ AgeType(byAge', {m \in Key : dat'[m] # "none"})
    BY <1>1, FileComes
  <2> QED
    BY <1>1, <1>3, <1>4, <2>1, <2>2
<1>6. CASE WriteDat(a)
  <2> SUFFICES ASSUME IF call[a].linked
                        THEN dat' = [dat EXCEPT ![call[a].key] = "whole"] /\ byAge' = Touched(call[a].key)
                        ELSE UNCHANGED <<dat, byAge>>,
                      Proceed(a, "label"), UNCHANGED <<meta, faults>>
               PROVE  CacheFits'
    BY <1>2, <1>6 DEF WriteDat
  <2>1. call' = [call EXCEPT ![a] = [call[a] EXCEPT !.pc = "label"]]
    BY CallsHaveState DEF CallState, Proceed
  <2>2. dat' \in [Key -> {"none", "part", "whole"}] /\ AgeType(byAge', {m \in Key : dat'[m] # "none"})
    BY <1>1, <1>4, FileComes
  <2> QED
    BY <1>1, <1>3, <1>4, <2>1, <2>2
<1>7. CASE OpenMeta(a)
  <2> SUFFICES ASSUME meta' = [meta EXCEPT ![call[a].key] = "part"],
                      call' = [call EXCEPT ![a].pc = "stamp", ![a].linked = TRUE],
                      UNCHANGED <<dat, byAge, faults>>
               PROVE  CacheFits'
    BY <1>2, <1>7 DEF OpenMeta
  <2>1. call' = [call EXCEPT ![a] = [call[a] EXCEPT !.pc = "stamp", !.linked = TRUE]]
    BY CallsHaveState DEF CallState
  <2> QED
    BY <1>1, <1>3, <1>4, <2>1
<1>8. CASE WriteMeta(a)
  <2> SUFFICES ASSUME meta' = IF call[a].linked THEN [meta EXCEPT ![call[a].key] = "fresh"] ELSE meta,
                      Proceed(a, "list"), UNCHANGED <<dat, byAge, faults>>
               PROVE  CacheFits'
    BY <1>2, <1>8 DEF WriteMeta
  <2>1. call' = [call EXCEPT ![a] = [call[a] EXCEPT !.pc = "list"]]
    BY CallsHaveState DEF CallState, Proceed
  <2> QED
    BY <1>1, <1>3, <1>4, <2>1
<1> QED
  BY <1>5, <1>6, <1>7, <1>8

\* What is to be evicted is a sequence of keys that is not empty.
LEMMA SortedFits ==
  ASSUME CacheFits, NEW names \in SUBSET Key, Cardinality(names) > Limit, NEW order \in Sorted(names)
  PROVE  order \in Seq(Key) /\ order # <<>> /\ Cardinality(names) - Limit \in Nat \ {0}
<1>1. Cardinality(names) \in Nat /\ Limit \in Nat
  BY KeyAssumption, CacheBoundAssumption, FS_Subset, FS_CardinalityType
<1>2. order \in [1..Cardinality(names) -> names] /\ Cardinality(names) >= 1
  BY <1>1 DEF Sorted
<1>3. order \in Seq(names) /\ Len(order) = Cardinality(names)
  BY <1>1, <1>2
<1>4. order \in Seq(Key)
  BY <1>1, <1>2
<1> QED
  BY <1>1, <1>2, <1>3, <1>4

LEMMA PruningKeeps ==
  ASSUME CacheFits, NEW a \in Actor, ListEntries(a) \/ StatEntries(a) \/ Evict(a) \/ EvictMeta(a)
  PROVE  CacheFits'
<1>0. call[a].pc # "idle" /\ faults \in Nat
  BY DEF ListEntries, StatEntries, Evict, EvictMeta, Step, CacheFits, CacheTypeOK
<1>1. CallFits(call[a]) /\ CallFits(NoCall) /\ CallFits([NoCall EXCEPT !.hit = "none"])
      /\ call \in [Actor -> CallState]
  BY CallsHaveState, NoCallFits
<1>2. CASE ListEntries(a)
  <2>1. call' = [call EXCEPT ![a] = [call[a] EXCEPT !.pc = "stat", !.left = byAge]]
    BY <1>1, <1>2 DEF CallState, ListEntries
  <2>2. CallFits([call[a] EXCEPT !.pc = "stat", !.left = byAge])
    <3>1. call[a] \in CallState /\ CallFits(call[a])
      BY <1>1
    <3>2. byAge \in Seq(Key)
      BY CallsHaveState DEF AgeType
    <3> QED
      BY <1>0, <3>1, <3>2 DEF CallFits, CallState, CallStep
  <2>3. UNCHANGED files /\ faults' \in Nat
    BY <1>0, <1>2 DEF ListEntries
  <2> QED
    BY <2>1, <2>2, <2>3, OnlyCallMoves
<1>3. CASE StatEntries(a)
  <2> DEFINE names == ToSet(call[a].left)
             over == Cardinality(names) - Limit
  <2>1. CASE Answer(a, "none")
    BY <1>0, <1>1, <1>3, <2>1, OnlyCallMoves DEF StatEntries, Answer
  <2>2. ASSUME over > 0, NEW order \in Sorted(names),
               call' = [call EXCEPT ![a].pc = "evict", ![a].left = order, ![a].over = over]
        PROVE  CacheFits'
    <3>1. names \in SUBSET Key
      <4>1. call[a].left \in Seq(Key)
        BY <1>1 DEF CallState
      <4> QED
        BY <4>1, ElementOfSeq, LenProperties DEF ToSet
    <3>2. Cardinality(names) > Limit
      <4>1. Cardinality(names) \in Nat /\ Limit \in Nat
        BY <3>1, KeyAssumption, CacheBoundAssumption, FS_Subset, FS_CardinalityType
      <4> QED
        BY <2>2, <4>1
    <3>3. order \in Seq(Key) /\ order # <<>> /\ over \in Nat \ {0}
      BY <2>2, <3>1, <3>2, SortedFits
    <3> HIDE DEF names, over
    <3>4. call' = [call EXCEPT ![a] = [call[a] EXCEPT !.pc = "evict", !.left = order, !.over = over]]
      BY <1>1, <2>2 DEF CallState
    <3>5. CallFits([call[a] EXCEPT !.pc = "evict", !.left = order, !.over = over])
      <4>1. call[a] \in CallState /\ CallFits(call[a])
        BY <1>1
      <4> QED
        BY <1>0, <3>3, <4>1 DEF CallFits, CallState, CallStep
    <3>6. UNCHANGED files /\ faults' \in Nat
      BY <1>0, <1>3 DEF StatEntries
    <3> QED
      BY <1>0, <3>4, <3>5, <3>6, OnlyCallMoves
  <2> QED
    BY <1>3, <2>1, <2>2 DEF StatEntries
<1>4. CASE Evict(a)
  <2>1. CallFits([call[a] EXCEPT !.pc = "evictmeta"])
    BY <1>1, <1>4 DEF CallFits, CallState, CallStep, Evict, Step
  <2> QED
    BY <1>4, <2>1, DatRemoved DEF Evict
<1>5. CASE EvictMeta(a)
  <2> DEFINE c == call[a]
             rest == [c EXCEPT !.pc = "evict", !.left = Tail(@), !.over = @ - 1]
  <2>1. CASE c.over = 1 \/ Len(c.left) = 1
    BY <1>1, <1>5, <2>1, MetaRemoved DEF EvictMeta
  <2>2. CASE ~(c.over = 1 \/ Len(c.left) = 1)
    <3>1. c.left \in Seq(Key) /\ c.left # <<>> /\ c.over \in Nat \ {0} /\ c \in CallState /\ c.key \in Key
      BY <1>0, <1>1, <1>5 DEF CallFits, CallState, EvictMeta, Step
    <3>2. Tail(c.left) \in Seq(Key) /\ Len(Tail(c.left)) = Len(c.left) - 1
      BY <3>1, HeadTailProperties
    <3>3. Len(c.left) \in Nat /\ Len(c.left) # 0
      BY <3>1, LenProperties, EmptySeq
    <3>4. Tail(c.left) # <<>> /\ c.over - 1 \in Nat \ {0}
      <4> HIDE DEF c
      <4>1. Len(Tail(c.left)) # 0
        BY <2>2, <3>2, <3>3
      <4>2. c.over - 1 \in Nat \ {0}
        BY <2>2, <3>1
      <4>3. Len(<<>>) = 0
        OBVIOUS
      <4> QED
        BY <4>1, <4>2, <4>3
    <3>5. CallFits(rest)
      BY <3>1, <3>2, <3>4 DEF CallFits, CallState, CallStep
    <3>6. RemoveMeta(a, Head(c.left), rest)
      BY <1>5, <2>2 DEF EvictMeta
    <3> HIDE DEF c, rest
    <3> QED
      BY <3>5, <3>6, MetaRemoved
  <2> QED
    BY <2>1, <2>2
<1> QED
  BY <1>2, <1>3, <1>4, <1>5

\* A call begins.
LEMMA BeginningKeeps ==
  ASSUME CacheFits, NEW a \in Actor, NEW k \in Key, Get(a, k) \/ Put(a, k)
  PROVE  CacheFits'
<1>1. \A pc \in {"look", "open"} : CallFits([NoCall EXCEPT !.pc = pc, !.key = k])
  BY NoCallFits DEF CallFits, CallState, CallStep, NoCall
<1> QED
  BY <1>1, OnlyCallMoves DEF Get, Put, CacheFits, CacheTypeOK

LEMMA CacheKeeps ==
  ASSUME CacheFits
  PROVE  /\ \A a \in Actor : CacheStep(a) => CacheFits'
         /\ \A a \in Actor, k \in Key : Get(a, k) \/ Put(a, k) => CacheFits'
         /\ \A k \in Key : Expire(k) => CacheFits'
         /\ CacheCrash => CacheFits'
         /\ UNCHANGED cacheVars => CacheFits'
<1>1. ASSUME NEW a \in Actor, CacheStep(a) PROVE CacheFits'
  BY <1>1, GettingKeeps, WritingKeeps, PruningKeeps DEF CacheStep
<1>2. ASSUME NEW k \in Key, Expire(k) PROVE CacheFits'
  BY <1>2 DEF Expire, CacheFits, CacheTypeOK, CallsFit
<1>3. ASSUME CacheCrash PROVE CacheFits'
  <2>1. call' = [a \in Actor |-> NoCall] /\ UNCHANGED <<dat, meta, byAge, faults>>
    BY <1>3 DEF CacheCrash, files
  <2>2. call' \in [Actor -> CallState] /\ \A a \in Actor : CallFits(call'[a])
    BY <2>1, NoCallFits DEF CallFits
  <2> QED
    BY <2>1, <2>2, CallsHaveState, FitsAgain DEF CacheFits, CacheTypeOK
<1>4. ASSUME UNCHANGED cacheVars PROVE CacheFits'
  BY <1>4 DEF cacheVars, files, CacheFits, CacheTypeOK, CallsFit
<1> QED
  BY <1>1, <1>2, <1>3, <1>4, BeginningKeeps

-----------------------------------------------------------------------------
(* What the event loop looks up *)

GetStep == {"look", "load", "read", "purge", "purgemeta"}

\* A step of one actor leaves the others where they are.
LEMMA OthersStay ==
  ASSUME CacheFits, NEW a \in Actor, CacheStep(a), NEW b \in Actor, b # a
  PROVE  call'[b].pc = call[b].pc /\ call'[b].key = call[b].key /\ call'[b].hit = call[b].hit
<1>1. call \in [Actor -> CallState]
  BY CallsHaveState
<1>2. CASE \E state : call' = [call EXCEPT ![a] = state]
  BY <1>1, <1>2
<1>3. ASSUME NEW k, NEW holding, NEW state, Unlinked(k, holding, a, state)
      PROVE  call'[b].pc = call[b].pc /\ call'[b].key = call[b].key /\ call'[b].hit = call[b].hit
  BY <1>1, <1>3 DEF Unlinked, CallState
<1>4. ASSUME NEW pc, Proceed(a, pc) PROVE \E state : call' = [call EXCEPT ![a] = state]
  BY <1>4 DEF Proceed
<1>5. ASSUME NEW hit, Answer(a, hit) PROVE \E state : call' = [call EXCEPT ![a] = state]
  BY <1>5 DEF Answer
<1>6. CASE Look(a) \/ Load(a) \/ Read(a) \/ ListEntries(a) \/ WriteMeta(a) \/ WriteDat(a)
  BY <1>2, <1>4, <1>5, <1>6 DEF Look, Load, Read, ListEntries, WriteMeta, WriteDat
<1>7. CASE OpenDat(a) \/ OpenMeta(a)
  BY <1>1, <1>2, <1>4, <1>7 DEF OpenDat, OpenMeta
<1>8. CASE StatEntries(a)
  BY <1>1, <1>2, <1>5, <1>8 DEF StatEntries
<1>9. CASE Purge(a) \/ PurgeMeta(a) \/ Evict(a) \/ EvictMeta(a)
  BY <1>3, <1>9 DEF Purge, PurgeMeta, Evict, EvictMeta, RemoveDat, RemoveMeta
<1> QED
  BY <1>6, <1>7, <1>8, <1>9 DEF CacheStep

\* A lookup stays with its key, and does not return what is cut off of a JSON result.
LEMMA LookupGoesOn ==
  ASSUME CacheFits, NEW a \in Actor, CacheStep(a), call[a].pc \in GetStep
  PROVE  /\ call'[a].pc \in GetStep \cup {"idle"}
         /\ call'[a].pc # "idle" => call'[a].key = call[a].key
         /\ call'[a].pc = "idle" /\ call[a].key \in Json => call'[a].hit # "part"
<1>1. call \in [Actor -> CallState]
  BY CallsHaveState
<1>2. Look(a) \/ Load(a) \/ Purge(a) \/ PurgeMeta(a) \/ Read(a)
  BY DEF CacheStep, GetStep, OpenDat, WriteDat, OpenMeta, WriteMeta, ListEntries, StatEntries,
         Evict, EvictMeta, Step
<1>3. ASSUME NEW hit, Answer(a, hit)
      PROVE  call'[a].pc = "idle" /\ call'[a].hit = hit
  BY <1>1, <1>3 DEF Answer, NoCall
<1>4. ASSUME NEW pc, Proceed(a, pc)
      PROVE  call'[a].pc = pc /\ call'[a].key = call[a].key
  BY <1>1, <1>4 DEF Proceed, CallState
<1>5. CASE Look(a)
  BY <1>3, <1>4, <1>5 DEF Look, GetStep
<1>6. CASE Load(a)
  BY <1>3, <1>4, <1>6 DEF Load, GetStep
<1>7. CASE Purge(a)
  BY <1>1, <1>7 DEF Purge, RemoveDat, Unlinked, GetStep, CallState
<1>8. CASE PurgeMeta(a)
  BY <1>1, <1>8 DEF PurgeMeta, RemoveMeta, Unlinked, GetStep, NoCall
<1>9. CASE Read(a)
  BY <1>3, <1>9 DEF Read
<1> QED
  BY <1>2, <1>5, <1>6, <1>7, <1>8, <1>9

-----------------------------------------------------------------------------
(* The steps of the tasks *)

TaskRecord == [status : {"unknown", "pending", "processing", "completed", "failed"},
               result : BOOLEAN, error : BOOLEAN, ended : BOOLEAN]

TasksFit ==
  /\ tasks \in [Request -> TaskRecord]
  /\ job \in [Request -> Where]
  /\ holder \in Request \cup {Nobody}
  /\ reading \in {"no", "pending", "processing", "completed", "failed"}
  /\ bare \subseteq Request
  /\ asks \in 0..MaxAsks /\ crashes \in 0..MaxCrashes

\* A step of one request's code.
TaskStep(r) ==
  \/ Ask(r) \/ Handle(r) \/ SetProcessing(r) \/ Run(r) \/ ReadStatus(r) \/ ReadRest(r)

USE DEF Running, Final

LEMMA TypesAre == TypeOK <=> CacheTypeOK /\ TasksFit
BY DEF TypeOK, TasksFit, TaskRecord

LEMMA NoTaskIs ==
  /\ NoTask \in TaskRecord /\ NewTask \in TaskRecord
  /\ NewTask # NoTask /\ NewTask.status = "pending" /\ ~NewTask.ended
  /\ NoTask.status = "unknown"
BY DEF NoTask, NewTask, TaskRecord

LEMMA TasksKeepType ==
  ASSUME IInv, NEW r \in Request, TaskStep(r)
  PROVE  TasksFit'
<1>1. TasksFit /\ CacheTypeOK
  BY TypesAre DEF IInv
<1>2. CASE Ask(r)
  BY <1>1, <1>2, RequestAssumption DEF Ask, TasksFit, Where
<1>3. CASE ServeHit(r)
  <2>1. call[Loop].hit \in {"whole", "part"}
    BY <1>1, <1>3, RequestAssumption DEF ServeHit, CacheTypeOK
  <2> QED
    BY <1>1, <1>3, <2>1 DEF ServeHit, TasksFit, Where
<1>4. CASE CreateTask(r)
  BY <1>1, <1>4, NoTaskIs DEF CreateTask, TasksFit, Where
<1>5. CASE RunInline(r) \/ StoreResult(r) \/ OperationFails(r) \/ ServeInline(r)
  BY <1>1, <1>5 DEF RunInline, StoreResult, OperationFails, ServeInline, TasksFit, Where
<1>6. CASE SetProcessing(r)
  BY <1>1, <1>6 DEF SetProcessing, TasksFit, TaskRecord, Where
<1>7. CASE SetStatus(r)
  BY <1>1, <1>7 DEF SetStatus, TasksFit, TaskRecord, Where
<1>8. CASE SetResult(r)
  <2> DEFINE t == tasks[r]
             told == [t EXCEPT !.result = t.status = "completed", !.error = t.status = "failed",
                               !.ended = TRUE]
  <2>1. t \in TaskRecord /\ (t.status = "completed") \in BOOLEAN /\ (t.status = "failed") \in BOOLEAN
    BY <1>1 DEF TasksFit
  <2>2. told \in TaskRecord
    BY <2>1 DEF TaskRecord
  <2>3. tasks' = [tasks EXCEPT ![r] = told]
    BY <1>1, <1>8, <2>1 DEF SetResult, TasksFit, TaskRecord
  <2>4. /\ job' = [job EXCEPT ![r] = "ended"] /\ holder' \in {holder, Nobody}
        /\ UNCHANGED <<reading, bare, asks, crashes>>
    BY <1>8 DEF SetResult
  <2> HIDE DEF t, told
  <2> QED
    BY <1>1, <2>2, <2>3, <2>4 DEF TasksFit, Where
<1>9. CASE ReadStatus(r)
  <2>1. tasks[r].status \in {"pending", "processing", "completed", "failed"}
    BY <1>1, <1>9 DEF ReadStatus, TasksFit, TaskRecord, IInv, Followed
  <2> QED
    BY <1>1, <1>9, <2>1 DEF ReadStatus, TasksFit
<1>10. CASE ReadRest(r)
  BY <1>1, <1>10 DEF ReadRest, TasksFit
<1> QED
  BY <1>2, <1>3, <1>4, <1>5, <1>6, <1>7, <1>8, <1>9, <1>10 DEF TaskStep, Handle, Run

LEMMA LoopKeepsHolder ==
  ASSUME IInv, NEW r \in Request, TaskStep(r)
  PROVE  LoopHeld'
<1> USE DEF IInv, LoopHeld, OnLoop, Runner, LoopIsFree
<1>1. TasksFit /\ RequestAssumption
  BY TypesAre, RequestAssumption
<1>2. CASE Ask(r)
  BY <1>1, <1>2 DEF Ask, TasksFit, RequestAssumption
<1>3. CASE ServeHit(r)
  BY <1>1, <1>3 DEF ServeHit, TasksFit, RequestAssumption, CacheTypeOK, TypeOK
<1>4. CASE CreateTask(r)
  BY <1>1, <1>4 DEF CreateTask, Missed, TasksFit
<1>5. CASE RunInline(r)
  BY <1>1, <1>5 DEF RunInline, Missed, TasksFit
<1>6. CASE SetProcessing(r)
  BY <1>1, <1>6 DEF SetProcessing, TasksFit, RequestAssumption
<1>7. CASE StoreResult(r)
  BY <1>1, <1>7 DEF StoreResult, TasksFit
<1>8. CASE OperationFails(r)
  BY <1>1, <1>8 DEF OperationFails, TasksFit
<1>9. CASE ServeInline(r)
  BY <1>1, <1>9 DEF ServeInline, PutReturned, TasksFit
<1>10. CASE SetStatus(r)
  BY <1>1, <1>10 DEF SetStatus, PutReturned, TasksFit
<1>11. CASE SetResult(r)
  BY <1>1, <1>11 DEF SetResult, TasksFit
<1>12. CASE ReadStatus(r)
  BY <1>1, <1>12 DEF ReadStatus, TasksFit, RequestAssumption, Followed, TypeOK
<1>13. CASE ReadRest(r)
  BY <1>1, <1>13 DEF ReadRest, TasksFit
<1> QED
  BY <1>2, <1>3, <1>4, <1>5, <1>6, <1>7, <1>8, <1>9, <1>10, <1>11, <1>12, <1>13
     DEF TaskStep, Handle, Run

LEMMA TasksKeepFollowed ==
  ASSUME IInv, NEW r \in Request, TaskStep(r)
  PROVE  Followed'
<1> USE DEF IInv, Followed
<1>1. TasksFit /\ RequestAssumption
  BY TypesAre, RequestAssumption
<1>2. CASE Ask(r)
  BY <1>1, <1>2 DEF Ask, TasksFit
<1>3. CASE ServeHit(r)
  BY <1>1, <1>3 DEF ServeHit, TasksFit, RequestAssumption, CacheTypeOK, TypeOK
<1>4. CASE CreateTask(r)
  BY <1>1, <1>4, NoTaskIs DEF CreateTask, Missed, TasksFit
<1>5. CASE RunInline(r)
  BY <1>1, <1>5 DEF RunInline, Missed, TasksFit
<1>6. CASE SetProcessing(r)
  BY <1>1, <1>6, NoTaskIs DEF SetProcessing, TasksFit, TaskRecord
<1>7. CASE StoreResult(r)
  BY <1>1, <1>7 DEF StoreResult, TasksFit
<1>8. CASE OperationFails(r)
  BY <1>1, <1>8 DEF OperationFails, TasksFit
<1>9. CASE ServeInline(r)
  BY <1>1, <1>9 DEF ServeInline, PutReturned, TasksFit
<1>10. CASE SetStatus(r)
  BY <1>1, <1>10, NoTaskIs DEF SetStatus, PutReturned, TasksFit, TaskRecord
<1>11. CASE SetResult(r)
  BY <1>1, <1>11, NoTaskIs DEF SetResult, TasksFit, TaskRecord
<1>12. CASE ReadStatus(r)
  BY <1>1, <1>12 DEF ReadStatus
<1>13. CASE ReadRest(r)
  BY <1>1, <1>13 DEF ReadRest
<1> QED
  BY <1>2, <1>3, <1>4, <1>5, <1>6, <1>7, <1>8, <1>9, <1>10, <1>11, <1>12, <1>13
     DEF TaskStep, Handle, Run

LEMMA TasksKeepLookup ==
  ASSUME IInv, NEW r \in Request, TaskStep(r)
  PROVE  LookupFits' /\ DocumentIsWhole'
<1> USE DEF IInv, LookupFits, DocumentIsWhole
<1>1. TasksFit /\ RequestAssumption /\ call \in [Actor -> CallState]
  BY TypesAre, RequestAssumption, CallsHaveState DEF CacheFits
<1>2. CASE Ask(r)
  <2>1. call'[Loop].pc = "look" /\ call'[Loop].key = KeyOf[r]
    BY <1>1, <1>2 DEF Ask, Get, NoCall, RequestAssumption
  <2>2. \A q \in Request : job[q] # "asking"
    BY <1>1, <1>2 DEF Ask, LoopIsFree, LoopHeld, OnLoop, RequestAssumption
  <2> QED
    BY <1>1, <1>2, <2>1, <2>2 DEF Ask, TasksFit
<1>3. CASE ServeHit(r)
  BY <1>1, <1>3 DEF ServeHit, TasksFit, Free, cacheVars
<1>4. CASE CreateTask(r) \/ RunInline(r)
  BY <1>1, <1>4 DEF CreateTask, RunInline, TasksFit, cacheVars
<1>5. CASE StoreResult(r)
  <2>1. job[r] = "working" /\ job' = [job EXCEPT ![r] = "storing"] /\ Put(Runner(r), KeyOf[r])
    BY <1>5 DEF StoreResult
  <2>2. CASE Runner(r) = Loop
    <3>1. \A q \in Request : job[q] # "asking"
      BY <2>1, <2>2 DEF LoopHeld, OnLoop
    <3> QED
      BY <1>1, <2>1, <3>1 DEF TasksFit
  <2>3. CASE Runner(r) # Loop
    <3>1. call'[Loop] = call[Loop]
      BY <1>1, <2>1, <2>3 DEF Put, RequestAssumption
    <3> QED
      BY <1>1, <2>1, <3>1 DEF TasksFit
  <2> QED
    BY <2>2, <2>3
<1>6. CASE SetProcessing(r) \/ OperationFails(r) \/ ServeInline(r) \/ SetStatus(r) \/ SetResult(r)
  BY <1>1, <1>6 DEF SetProcessing, OperationFails, ServeInline, SetStatus, SetResult, TasksFit, cacheVars
<1>7. CASE ReadStatus(r) \/ ReadRest(r)
  BY <1>7 DEF ReadStatus, ReadRest, cacheVars
<1> QED
  BY <1>2, <1>3, <1>4, <1>5, <1>6, <1>7 DEF TaskStep, Handle, Run

-----------------------------------------------------------------------------
(* Theorems *)

\* A step of one request's code is a step of the cache's callers, or none of the cache.
LEMMA TasksKeepCache ==
  ASSUME IInv, NEW r \in Request, TaskStep(r)
  PROVE  CacheFits'
<1>1. CacheFits /\ RequestAssumption
  BY TypesAre, RequestAssumption DEF IInv, CacheFits
<1>2. CASE Ask(r) \/ StoreResult(r)
  <2>1. \E a \in Actor, k \in Key : Get(a, k) \/ Put(a, k)
    BY <1>1, <1>2 DEF Ask, StoreResult, Runner, RequestAssumption
  <2> QED
    BY <1>1, <2>1, CacheKeeps
<1>3. CASE UNCHANGED cacheVars
  BY <1>1, <1>3, CacheKeeps
<1> QED
  BY <1>2, <1>3 DEF TaskStep, Handle, Run, ServeHit, CreateTask, RunInline, SetProcessing,
     OperationFails, ServeInline, SetStatus, SetResult, ReadStatus, ReadRest

LEMMA TypesAgain ==
  ASSUME CacheFits', TasksFit'
  PROVE  TypeOK' /\ CallsFit'
BY DEF CacheFits, TypeOK, TasksFit, TaskRecord

LEMMA StartFits == Init => IInv
<1> SUFFICES ASSUME Init PROVE IInv
  OBVIOUS
<1>1. CacheFits
  <2>1. call \in [Actor -> CallState] /\ CallsFit
    BY NoCallFits DEF Init, CacheInit, CallsFit, CallFits, NoCall
  <2>2. /\ dat \in [Key -> {"none", "part", "whole"}]
        /\ meta \in [Key -> {"none", "part", "fresh", "expired"}]
        /\ faults \in Nat
    BY DEF Init, CacheInit
  <2>3. AgeType(byAge, {k \in Key : dat[k] # "none"})
    <3>1. {k \in Key : dat[k] # "none"} = Stored
      BY KeyAssumption DEF Init, CacheInit
    <3> QED
      BY <3>1, Listed DEF Init, CacheInit
  <2> QED
    BY <2>1, <2>2, <2>3 DEF CacheFits, CacheTypeOK, CallState, AgeType
<1>2. TasksFit
  BY NoTaskIs, RequestAssumption DEF Init, TasksFit, Where
<1>3. LoopHeld /\ Followed /\ LookupFits /\ DocumentIsWhole
  BY NoTaskIs DEF Init, LoopHeld, OnLoop, Followed, LookupFits, DocumentIsWhole
<1> QED
  BY <1>1, <1>2, <1>3, TypesAre DEF IInv, CacheFits

LEMMA StepFits == IInv /\ [Next]_vars => IInv'
<1> SUFFICES ASSUME IInv, [Next]_vars PROVE IInv'
  OBVIOUS
<1>0. CacheFits /\ TasksFit /\ RequestAssumption
  BY TypesAre, RequestAssumption DEF IInv, CacheFits
<1>1. ASSUME NEW r \in Request, TaskStep(r) PROVE IInv'
  BY <1>1, TasksKeepCache, TasksKeepType, TypesAgain, LoopKeepsHolder, TasksKeepFollowed, TasksKeepLookup
     DEF IInv
<1>2. ASSUME CacheFits', UNCHANGED taskVars, LookupFits' PROVE IInv'
  <2>1. TasksFit' /\ LoopHeld' /\ Followed' /\ DocumentIsWhole'
    BY <1>0, <1>2 DEF taskVars, TasksFit, LoopHeld, OnLoop, Followed, DocumentIsWhole, IInv
  <2> QED
    BY <1>2, <2>1, TypesAgain DEF IInv
<1>3. ASSUME NEW a \in Actor, CallStepBy(a) PROVE IInv'
  <2>1. CacheStep(a) /\ UNCHANGED taskVars
    BY <1>3 DEF CallStepBy
  <2>2. CacheFits'
    BY <1>0, <2>1, CacheKeeps
  <2>3. LookupFits'
    <3> SUFFICES ASSUME NEW r \in Request, job[r] = "asking"
                 PROVE  /\ call'[Loop].pc \in GetStep \cup {"idle"}
                        /\ call'[Loop].pc # "idle" => call'[Loop].key = KeyOf[r]
                        /\ call'[Loop].pc = "idle" /\ KeyOf[r] \in Json => call'[Loop].hit # "part"
      BY <2>1 DEF LookupFits, taskVars, GetStep
    <3>1. /\ call[Loop].pc \in GetStep \cup {"idle"}
          /\ call[Loop].pc # "idle" => call[Loop].key = KeyOf[r]
          /\ call[Loop].pc = "idle" /\ KeyOf[r] \in Json => call[Loop].hit # "part"
      BY DEF IInv, LookupFits, GetStep
    <3>2. Loop \in Actor
      BY <1>0 DEF RequestAssumption
    <3>3. CASE a # Loop
      BY <1>0, <2>1, <3>1, <3>2, <3>3, OthersStay
    <3>4. CASE a = Loop /\ call[Loop].pc \in GetStep
      <4>1. call[Loop].key = KeyOf[r]
        BY <3>1, <3>4 DEF GetStep
      <4> QED
        BY <1>0, <2>1, <3>2, <3>4, <4>1, LookupGoesOn
    <3>5. ~(a = Loop /\ call[Loop].pc = "idle")
      BY <2>1 DEF CacheStep, Look, Load, Purge, PurgeMeta, Read, OpenDat, WriteDat, OpenMeta, WriteMeta,
         ListEntries, StatEntries, Evict, EvictMeta, Step
    <3> QED
      BY <3>1, <3>3, <3>4, <3>5
  <2> QED
    BY <1>2, <2>1, <2>2, <2>3
<1>4. ASSUME NEW k \in Key, EntryExpires(k) PROVE IInv'
  <2>1. CacheFits' /\ UNCHANGED taskVars /\ call' = call
    BY <1>0, <1>4, CacheKeeps DEF EntryExpires, Expire
  <2> QED
    BY <1>2, <2>1 DEF IInv, LookupFits, taskVars
<1>5. ASSUME Crash PROVE IInv'
  <2>1. CacheFits'
    BY <1>0, <1>5, CacheKeeps DEF Crash
  <2>2. TasksFit'
    BY <1>0, <1>5, NoTaskIs DEF Crash, TasksFit, Where, RequestAssumption
  <2>3. LoopHeld' /\ Followed' /\ LookupFits' /\ DocumentIsWhole'
    BY <1>0, <1>5, NoTaskIs
       DEF Crash, TasksFit, LoopHeld, OnLoop, Followed, LookupFits, DocumentIsWhole, IInv
  <2> QED
    BY <2>1, <2>2, <2>3, TypesAgain DEF IInv
<1>6. ASSUME UNCHANGED vars PROVE IInv'
  <2>1. CacheFits' /\ UNCHANGED taskVars /\ call' = call
    BY <1>0, <1>6, CacheKeeps DEF vars, cacheVars
  <2> QED
    BY <1>2, <2>1 DEF IInv, LookupFits, taskVars
<1> QED
  BY <1>1, <1>3, <1>4, <1>5, <1>6 DEF Next, TaskStep

\* The strengthening holds: the event loop runs one request's code at a time, a task has a
\* runner until it ends, and a lookup returns no cut-off JSON
\* (cache_service.py:45-97, redact.py:67-107, convert.py:50-61).
THEOREM Inductive == Spec => []IInv
BY StartFits, StepFits, PTL DEF Spec

\* Files, entries and tasks keep their types and relations, and no redacted document that
\* was cut off is served, for any keys, cache limit, faults and crashes
\* (cache_service.py:45-190).
THEOREM DocumentsAreWhole == Spec => []Inv
<1>1. IInv => Inv
  BY DEF IInv, Inv
<1> QED
  BY <1>1, Inductive, PTL

\* A task that has not ended has a runner that will end it, whoever holds the event loop runs,
\* and a client who met a bare outcome is told the rest when it asks again
\* (redact.py:67-77, convert.py:50-61, task_service.py:111-112).
THEOREM TasksAreFollowed == Spec => []NoTaskAbandoned
<1>1. IInv => NoTaskAbandoned
  <2> SUFFICES ASSUME IInv PROVE NoTaskAbandoned
    OBVIOUS
  <2>1. TasksFit
    BY TypesAre DEF IInv
  <2> QED
    BY <2>1 DEF IInv, TasksFit, LoopHeld, OnLoop, LoopIsFree, Followed, NoTaskAbandoned
<1> QED
  BY <1>1, Inductive, PTL

=============================================================================
