------------------------- MODULE RequestIntakeProofs -------------------------
(* Theorems about RequestIntake, for every set of copies and requests, every  *)
(* limit and any number of restarts.                                          *)
EXTENDS RequestIntake, FiniteSetTheorems, TLAPS

-----------------------------------------------------------------------------
(* The inductive invariant. *)

Shape ==
  /\ clock \in 0..MaxClock /\ restarts \in 0..MaxRestarts
  /\ stage \in [Copy -> Waiting \cup Answered]
  /\ seen \in [Copy -> Int] /\ claimed \in [Copy -> Int]
  /\ source \in [Copy -> Sources \cup {NoSource}] /\ held \in [Copy -> Nat]

\* What a copy has seen or claimed lies in the past.
Past == \A c \in Copy : seen[c] \in -1..clock /\ claimed[c] \in -1..clock

LedgerShape ==
  /\ IsFiniteSet(ledger) /\ Cardinality(ledger) <= MaxEntries
  /\ \A row \in ledger : row.expires \in Nat

RowOf(c) == [nonce |-> RequestOf[c].nonce, expires |-> Expiry(c)]

\* Nobody clears the row of a request that is still fresh.
Remembered == \A c \in Copy : claimed[c] # Never /\ InWindow(c, clock) => RowOf(c) \in ledger

\* What a copy has passed on its way to where it is.
Passed == \A c \in Copy :
  /\ held[c] <= MaxSize
  /\ stage[c] \in {"claim", "accepted", "connecting", "streaming", "downloaded"} => RequestOf[c].signed
  /\ stage[c] \in {"connecting", "streaming", "downloaded"} =>
       /\ RequestOf[c].host = "allowed"
       /\ source[c].addresses[1] \in Public
  /\ stage[c] = "downloaded" => source[c].whole /\ held[c] = source[c].size

IInv == Shape /\ Past /\ LedgerShape /\ Remembered /\ AcceptedOnce /\ Passed

-----------------------------------------------------------------------------
(* Steps. *)

LEMMA InitIInv == Init => IInv
<1> SUFFICES ASSUME Init PROVE IInv  OBVIOUS
<1> USE IntakeAssumption DEF Init, Never, Waiting, Answered
<1>1. Shape  BY DEF Shape
<1>2. Past  BY DEF Past
<1>3. LedgerShape  BY FS_EmptySet DEF LedgerShape
<1>4. Remembered /\ AcceptedOnce  BY DEF Remembered, AcceptedOnce
<1>5. Passed  BY DEF Passed
<1> QED BY <1>1, <1>2, <1>3, <1>4, <1>5 DEF IInv

\* Only these three steps touch the clock, the ledger or what a copy remembers of them.
LEMMA OtherSteps ==
  ASSUME [Next]_vars
  PROVE  \/ Tick
         \/ \E c \in Copy : CheckTime(c) \/ Claim(c)
         \/ UNCHANGED <<clock, seen, ledger, claimed>>
BY DEF Next, vars, CheckSignature, ClaimFails, Resolve, Connect, Chunk, StreamEnds, NetworkFails, Restart

\* Moving a copy keeps the type of stage.
LEMMA MovesTyped ==
  ASSUME stage \in [Copy -> Waiting \cup Answered], NEW c \in Copy,
         NEW to \in Waiting \cup Answered, Moves(c, to)
  PROVE  stage' \in [Copy -> Waiting \cup Answered]
BY DEF Moves

LEMMA ShapeStep ==
  ASSUME Shape, [Next]_vars
  PROVE  Shape'
<1> USE IntakeAssumption, MovesTyped DEF Shape, Waiting, Answered, fetch
<1>1. ASSUME NEW c \in Copy, CheckTime(c)  PROVE Shape'  BY <1>1 DEF CheckTime
<1>2. ASSUME NEW c \in Copy, CheckSignature(c)  PROVE Shape'  BY <1>2 DEF CheckSignature
<1>3. ASSUME NEW c \in Copy, Claim(c)  PROVE Shape'  BY <1>3 DEF Claim
<1>4. ASSUME NEW c \in Copy, ClaimFails(c)  PROVE Shape'  BY <1>4 DEF ClaimFails
<1>5. ASSUME NEW c \in Copy, Resolve(c)  PROVE Shape'  BY <1>5 DEF Resolve
<1>6. ASSUME NEW c \in Copy, Connect(c)  PROVE Shape'  BY <1>6 DEF Connect
<1>7. ASSUME NEW c \in Copy, Chunk(c)  PROVE Shape'  BY <1>7 DEF Chunk
<1>8. ASSUME NEW c \in Copy, StreamEnds(c)  PROVE Shape'  BY <1>8 DEF StreamEnds
<1>9. ASSUME NEW c \in Copy, NetworkFails(c)  PROVE Shape'  BY <1>9 DEF NetworkFails
<1>10. CASE Tick  BY <1>10 DEF Tick
<1>11. CASE Restart  BY <1>11 DEF Restart
<1>12. CASE UNCHANGED vars  BY <1>12 DEF vars
<1> QED BY <1>1, <1>2, <1>3, <1>4, <1>5, <1>6, <1>7, <1>8, <1>9, <1>10, <1>11, <1>12 DEF Next

LEMMA PastStep ==
  ASSUME Shape, Past, [Next]_vars
  PROVE  Past'
<1> USE IntakeAssumption DEF Shape, Past
<1>1. CASE Tick  BY <1>1 DEF Tick
<1>2. ASSUME NEW c \in Copy, CheckTime(c)  PROVE Past'
  <2>1. \A d \in Copy : seen'[d] \in {seen[d], clock}  BY <1>2 DEF CheckTime
  <2>2. clock' = clock /\ claimed' = claimed  BY <1>2 DEF CheckTime
  <2>3. clock \in -1..clock  OBVIOUS
  <2>4. \A d \in Copy : seen[d] \in -1..clock /\ claimed[d] \in -1..clock  OBVIOUS
  <2> HIDE DEF Shape, Past
  <2>5. \A d \in Copy : seen'[d] \in -1..clock' /\ claimed'[d] \in -1..clock'
    BY <2>1, <2>2, <2>3, <2>4
  <2> QED BY <2>5 DEF Past
<1>3. ASSUME NEW c \in Copy, Claim(c)  PROVE Past'
  <2>1. \A d \in Copy : claimed'[d] \in {claimed[d], clock}  BY <1>3 DEF Claim
  <2>2. clock' = clock /\ seen' = seen  BY <1>3 DEF Claim
  <2>3. clock \in -1..clock  OBVIOUS
  <2>4. \A d \in Copy : seen[d] \in -1..clock /\ claimed[d] \in -1..clock  OBVIOUS
  <2> HIDE DEF Shape, Past
  <2>5. \A d \in Copy : seen'[d] \in -1..clock' /\ claimed'[d] \in -1..clock'
    BY <2>1, <2>2, <2>3, <2>4
  <2> QED BY <2>5 DEF Past
<1>4. CASE UNCHANGED <<clock, seen, ledger, claimed>>  BY <1>4
<1> QED BY <1>1, <1>2, <1>3, <1>4, OtherSteps

\* The rows a claim leaves are some of those that were there.
LEMMA LedgerStep ==
  ASSUME Shape, LedgerShape, [Next]_vars
  PROVE  LedgerShape'
<1>1. ASSUME NEW c \in Copy, Claim(c)  PROVE LedgerShape'
  <2> DEFINE left == {row \in ledger : row.expires >= seen[c]}
  <2>1. IsFiniteSet(left) /\ Cardinality(left) \in Nat /\ Cardinality(left) <= Cardinality(ledger)
    BY FS_Subset, FS_CardinalityType DEF LedgerShape
  <2>2. CASE ledger' = ledger  BY <2>2 DEF LedgerShape
  <2>3. CASE /\ ledger' = left \union {RowOf(c)}
             /\ Cardinality(left) < MaxEntries
    <3>1. /\ IsFiniteSet(left \cup {RowOf(c)})
          /\ Cardinality(left \cup {RowOf(c)}) =
               IF RowOf(c) \in left THEN Cardinality(left) ELSE Cardinality(left) + 1
      BY <2>1, FS_AddElement
    <3>2. Cardinality(left \cup {RowOf(c)}) \in Nat  BY <3>1, FS_CardinalityType
    <3>3. RowOf(c).expires \in Nat  BY IntakeAssumption DEF RowOf, Expiry
    <3> QED BY <2>1, <2>3, <3>1, <3>2, <3>3, IntakeAssumption DEF LedgerShape
  <2>4. ledger' = ledger \/ (ledger' = left \union {RowOf(c)} /\ Cardinality(left) < MaxEntries)
    BY <1>1, <2>1, IntakeAssumption DEF Claim, RowOf
  <2> QED BY <2>2, <2>3, <2>4
<1>2. CASE ledger' = ledger  BY <1>2 DEF LedgerShape
<1> QED BY <1>1, <1>2, OtherSteps DEF Tick, CheckTime

LEMMA RememberedStep ==
  ASSUME Shape, Past, Remembered, [Next]_vars
  PROVE  Remembered'
<1> USE IntakeAssumption DEF Shape, Past, InWindow
<1>1. CASE Tick  BY <1>1 DEF Tick, Remembered, RowOf, Expiry
<1>2. ASSUME NEW c \in Copy, CheckTime(c)  PROVE Remembered'
  BY <1>2 DEF CheckTime, Remembered, RowOf, Expiry
<1>3. ASSUME NEW c \in Copy, Claim(c)  PROVE Remembered'
  <2> DEFINE left == {row \in ledger : row.expires >= seen[c]}
  <2>1. CASE UNCHANGED <<ledger, claimed>>
    BY <1>3, <2>1 DEF Claim, Remembered, RowOf, Expiry
  <2>2. CASE ledger' = left \union {RowOf(c)} /\ claimed' = [claimed EXCEPT ![c] = clock]
    <3> SUFFICES ASSUME NEW d \in Copy, claimed'[d] # Never, InWindow(d, clock')
                 PROVE  RowOf(d) \in ledger'
      BY DEF Remembered, RowOf, Expiry
    <3>1. clock' = clock  BY <1>3 DEF Claim
    <3>2. CASE d = c  BY <2>2, <3>2
    <3>3. CASE d # c
      <4>1. RowOf(d) \in ledger  BY <2>2, <3>1, <3>3 DEF Remembered
      <4>2. RowOf(d).expires >= seen[c]  BY <3>1 DEF RowOf, Expiry
      <4> QED BY <2>2, <4>1, <4>2
    <3> QED BY <3>2, <3>3
  <2> QED BY <1>3, <2>1, <2>2 DEF Claim, RowOf
<1>4. CASE UNCHANGED <<clock, seen, ledger, claimed>>  BY <1>4 DEF Remembered, RowOf, Expiry
<1> QED BY <1>1, <1>2, <1>3, <1>4, OtherSteps

\* A copy that claims finds the row of the other one, if the request is still fresh.
LEMMA OnceStep ==
  ASSUME Shape, Past, LedgerShape, Remembered, AcceptedOnce, [Next]_vars
  PROVE  AcceptedOnce'
<1>1. ASSUME NEW c \in Copy, Claim(c), claimed' # claimed  PROVE AcceptedOnce'
  <2> DEFINE left == {row \in ledger : row.expires >= seen[c]}
  <2>1. claimed' = [claimed EXCEPT ![c] = clock]
    BY <1>1 DEF Claim
  <2>2. IsFiniteSet(left) /\ Cardinality(left) \in Nat
    BY FS_Subset, FS_CardinalityType DEF LedgerShape
  <2>3. \A row \in left : row.nonce # RequestOf[c].nonce
    BY <1>1, <2>2, IntakeAssumption DEF Claim, Known
  <2>4. ASSUME NEW d \in Copy, d # c, RequestOf[d] = RequestOf[c], claimed[d] # Never, InWindow(c, clock)
        PROVE  FALSE
    <3>1. RowOf(d) \in ledger  BY <2>4 DEF Remembered, InWindow
    <3>2. RowOf(d).expires >= seen[c]
      BY <2>4, IntakeAssumption DEF RowOf, Expiry, InWindow, Past, Shape
    <3>3. RowOf(d).nonce = RequestOf[c].nonce  BY <2>4 DEF RowOf
    <3> QED BY <2>3, <3>1, <3>2, <3>3
  <2> SUFFICES ASSUME NEW a \in Copy, NEW b \in Copy, a # b, RequestOf[a] = RequestOf[b],
                      claimed'[a] # Never, claimed'[b] # Never
               PROVE  ~(InWindow(a, claimed'[a]) /\ InWindow(b, claimed'[b]))
    BY DEF AcceptedOnce, InWindow
  <2>5. CASE a = c  BY <2>1, <2>4, <2>5 DEF Shape
  <2>6. CASE b = c  BY <2>1, <2>4, <2>6 DEF Shape
  <2>7. CASE a # c /\ b # c  BY <2>1, <2>7 DEF Shape, AcceptedOnce
  <2> QED BY <2>5, <2>6, <2>7
<1>2. CASE claimed' = claimed  BY <1>2 DEF AcceptedOnce, InWindow
<1> QED BY <1>1, <1>2, OtherSteps DEF Tick, CheckTime

LEMMA PassedStep ==
  ASSUME Shape, Passed, [Next]_vars
  PROVE  Passed'
<1> USE IntakeAssumption DEF Shape, Passed, Moves, fetch
<1>1. ASSUME NEW c \in Copy, CheckTime(c)  PROVE Passed'  BY <1>1 DEF CheckTime
<1>2. ASSUME NEW c \in Copy, CheckSignature(c)  PROVE Passed'  BY <1>2 DEF CheckSignature
<1>3. ASSUME NEW c \in Copy, Claim(c)  PROVE Passed'
  <2>1. stage[c] = "claim" /\ UNCHANGED <<source, held>>  BY <1>3 DEF Claim
  <2>2. Moves(c, "full") \/ Moves(c, "replayed") \/ Moves(c, "accepted")  BY <1>3 DEF Claim
  <2>3. RequestOf[c].signed /\ held[c] <= MaxSize  BY <2>1
  <2>4. stage'[c] \in {"full", "replayed", "accepted"} /\ \A d \in Copy : d # c => stage'[d] = stage[d]
    BY <2>2
  <2> QED BY <2>1, <2>3, <2>4
<1>4. ASSUME NEW c \in Copy, ClaimFails(c)  PROVE Passed'  BY <1>4 DEF ClaimFails
<1>5. ASSUME NEW c \in Copy, Resolve(c)  PROVE Passed'
  <2>1. CASE Moves(c, "rejected")
    <3>1. held' = held /\ \A d \in Copy : d # c => source'[d] = source[d]  BY <1>5 DEF Resolve
    <3>2. stage'[c] = "rejected" /\ \A d \in Copy : d # c => stage'[d] = stage[d]  BY <2>1
    <3> QED BY <3>1, <3>2
  <2>2. CASE stage' = [stage EXCEPT ![c] = "connecting"]
    <3>1. PICK s \in Sources : /\ source' = [source EXCEPT ![c] = s]
                               /\ s.addresses # <<>>
                               /\ \A i \in DOMAIN s.addresses : s.addresses[i] \in Public
      BY <1>5, <2>2 DEF Resolve
    <3>2. 1 \in DOMAIN s.addresses  BY <3>1
    <3> QED BY <1>5, <2>2, <3>1, <3>2 DEF Resolve
  <2> QED BY <1>5, <2>1, <2>2 DEF Resolve
<1>6. ASSUME NEW c \in Copy, Connect(c)  PROVE Passed'  BY <1>6 DEF Connect
<1>7. ASSUME NEW c \in Copy, Chunk(c)  PROVE Passed'  BY <1>7 DEF Chunk, TooLarge
<1>8. ASSUME NEW c \in Copy, StreamEnds(c)  PROVE Passed'  BY <1>8 DEF StreamEnds
<1>9. ASSUME NEW c \in Copy, NetworkFails(c)  PROVE Passed'  BY <1>9 DEF NetworkFails
<1>10. CASE Tick  BY <1>10 DEF Tick
<1>11. CASE Restart  BY <1>11 DEF Restart, Waiting
<1>12. CASE UNCHANGED vars  BY <1>12 DEF vars
<1> QED BY <1>1, <1>2, <1>3, <1>4, <1>5, <1>6, <1>7, <1>8, <1>9, <1>10, <1>11, <1>12 DEF Next

-----------------------------------------------------------------------------
(* Theorems. *)

LEMMA Invariant == Spec => []IInv
<1>1. IInv /\ [Next]_vars => IInv'
  BY ShapeStep, PastStep, LedgerStep, RememberedStep, OnceStep, PassedStep DEF IInv
<1> QED BY InitIInv, <1>1, PTL DEF Spec

\* Of the copies of one sensitive request at most one gets through verify_hmac() while
\* the request is fresh, for any deliveries, interleavings, restarts and limits.
THEOREM NoncesHold == Spec => []Inv
<1>1. IInv => Inv
  BY DEF IInv, Inv, TypeOK, Shape, Past, LedgerShape
<1> QED BY Invariant, <1>1, PTL

\* download_pdf() hands on a whole file from a checked address of the allowed host, or
\* nothing, and holds no more than the limit meanwhile.
THEOREM DownloadsHold == Spec => []WholeOrNothing
<1>1. IInv => WholeOrNothing
  BY DEF IInv, WholeOrNothing, Passed
<1> QED BY Invariant, <1>1, PTL
=============================================================================
