--------------------------- MODULE TableGridProofs ---------------------------
(* Theorems about TableGrid, for every set of spans and texts and any limits. *)
EXTENDS TableGrid, FiniteSetTheorems, WellFoundedInduction, TLAPS

-----------------------------------------------------------------------------
(* Numbers. *)

\* Every nonempty set of naturals has a least element.
LEMMA LeastExists ==
  ASSUME NEW S \in SUBSET Nat, S # {}
  PROVE  \E m \in S : \A x \in S : m <= x
<1>1. PICK m \in S : \A x \in S : ~(<<x, m>> \in OpToRel(<, Nat))
  BY NatLessThanWellFounded, WFMin
<1>2. \A x \in S : ~(x < m)
  BY <1>1 DEF OpToRel
<1> QED BY <1>2

\* A bounded one has a greatest, which is the one MaxOf chooses.
LEMMA MaxIsGreatest ==
  ASSUME NEW S \in SUBSET Nat, S # {}, NEW b \in Nat, \A x \in S : x <= b
  PROVE  MaxOf(S) \in S /\ \A x \in S : x <= MaxOf(S)
<1> DEFINE D == {b - x : x \in S}
<1>1. \A x \in S : b - x \in Nat  OBVIOUS
<1>2. D \in SUBSET Nat /\ D # {}  BY <1>1
<1>3. PICK d \in D : \A e \in D : d <= e  BY <1>2, LeastExists
<1>4. PICK m \in S : d = b - m  BY <1>3
<1>5. \A x \in S : b - m <= b - x  BY <1>3, <1>4
<1>6. \A x \in S : x <= m  BY <1>5
<1> QED BY <1>6 DEF MaxOf

\* StartCell finds a free column: the columns from `from` on are more than the slots.
LEMMA FirstFreeIsFree ==
  ASSUME NEW r \in Nat, NEW from \in Nat, IsFiniteSet(occupied)
  PROVE  /\ FirstFree(r, from) \in Nat /\ FirstFree(r, from) >= from
         /\ <<r, FirstFree(r, from)>> \notin occupied
         /\ \A k \in from..(FirstFree(r, from) - 1) : <<r, k>> \in occupied
<1> DEFINE n == Cardinality(occupied)
           free == {c \in from..(from + n) : <<r, c>> \notin occupied}
<1>1. n \in Nat  BY FS_CardinalityType
<1>2. free # {}
  <2> SUFFICES ASSUME \A c \in from..(from + n) : <<r, c>> \in occupied  PROVE FALSE  OBVIOUS
  <2> DEFINE f == [c \in from..(from + n) |-> <<r, c>>]
  <2>1. IsFiniteSet(from..(from + n)) /\ Cardinality(from..(from + n)) = n + 1
    BY <1>1, FS_Interval
  <2>2. f \in [from..(from + n) -> occupied]  OBVIOUS
  <2>3. Cardinality(occupied) < Cardinality(from..(from + n))  BY <1>1, <2>1
  <2> HIDE DEF f, n
  <2>4. PICK x, y \in from..(from + n) : x # y /\ f[x] = f[y]
    BY <2>1, <2>2, <2>3, FS_PigeonHole
  <2> QED BY <2>4 DEF f
<1>3. PICK m \in free : \A x \in free : m <= x
  <2>1. free \in SUBSET Nat  BY <1>1
  <2> HIDE DEF free
  <2> QED BY <1>2, <2>1, LeastExists
<1>4. \A k \in from..(m - 1) : <<r, k>> \in occupied  BY <1>1, <1>3
<1>5. \E c \in from..(from + n) :
        <<r, c>> \notin occupied /\ \A k \in from..(c - 1) : <<r, k>> \in occupied
  BY <1>3, <1>4
<1> HIDE DEF n
<1>6. /\ FirstFree(r, from) \in from..(from + n)
      /\ <<r, FirstFree(r, from)>> \notin occupied
      /\ \A k \in from..(FirstFree(r, from) - 1) : <<r, k>> \in occupied
  BY <1>5 DEF FirstFree, n
<1> QED BY <1>1, <1>6

-----------------------------------------------------------------------------
(* Cells. *)

LEMMA SpanTyped ==
  ASSUME NEW k \in 1..MaxSpan
  PROVE  k \in Nat \ {0}
<1>1. MaxSpan \in Nat  BY GridAssumption
<1> QED BY <1>1

LEMMA CellTyped ==
  ASSUME NEW x \in Cell
  PROVE  /\ x.row \in Nat /\ x.col \in Nat
         /\ x.rs \in Nat \ {0} /\ x.cs \in Nat \ {0}
<1>1. x.row \in Nat /\ x.col \in Nat /\ x.rs \in 1..MaxSpan /\ x.cs \in 1..MaxSpan
  BY DEF Cell
<1> QED BY <1>1, SpanTyped

LEMMA SlotsTyped ==
  ASSUME NEW r \in Nat, NEW c \in Nat, NEW rs \in Nat \ {0}, NEW cs \in Nat \ {0}
  PROVE  /\ IsFiniteSet(Slots(r, c, rs, cs))
         /\ Slots(r, c, rs, cs) \subseteq (0..(r + rs)) \X (0..(c + cs))
         /\ <<r, c>> \in Slots(r, c, rs, cs)
         /\ \A k \in c..(c + cs - 1) : <<r, k>> \in Slots(r, c, rs, cs)
<1>1. IsFiniteSet(r..(r + rs - 1)) /\ IsFiniteSet(c..(c + cs - 1))  BY FS_Interval
<1>2. IsFiniteSet(Slots(r, c, rs, cs))  BY <1>1, FS_Product DEF Slots
<1> QED BY <1>2 DEF Slots

\* The map is exact for a list of cells.
Tiled(list, slots) ==
  /\ slots = UNION {SlotsOf(list[i]) : i \in DOMAIN list}
  /\ \A i, j \in DOMAIN list : i # j => SlotsOf(list[i]) \cap SlotsOf(list[j]) = {}

LEMMA TiledAppend ==
  ASSUME NEW list \in Seq(Cell), NEW cell \in Cell, NEW slots,
         Tiled(list, slots), SlotsOf(cell) \cap slots = {}
  PROVE  Tiled(Append(list, cell), slots \cup SlotsOf(cell))
<1> DEFINE longer == Append(list, cell)  n == Len(list)
<1>1. /\ n \in Nat /\ DOMAIN list = 1..n /\ DOMAIN longer = 1..(n + 1)
      /\ \A i \in 1..n : longer[i] = list[i]
      /\ longer[n + 1] = cell
  OBVIOUS
<1>2. \A i \in 1..n : SlotsOf(list[i]) \subseteq slots  BY <1>1 DEF Tiled
<1> HIDE DEF longer, n
<1>3. slots \cup SlotsOf(cell) = UNION {SlotsOf(longer[i]) : i \in 1..(n + 1)}
  <2>1. slots = UNION {SlotsOf(list[i]) : i \in 1..n}  BY <1>1 DEF Tiled
  <2>2. \A i \in 1..n : SlotsOf(longer[i]) = SlotsOf(list[i])  BY <1>1
  <2>3. SlotsOf(longer[n + 1]) = SlotsOf(cell)  BY <1>1
  <2>4. 1..(n + 1) = 1..n \cup {n + 1}  BY <1>1
  <2> QED BY <2>1, <2>2, <2>3, <2>4
<1>4. ASSUME NEW i \in 1..(n + 1), NEW j \in 1..(n + 1), i # j
      PROVE  SlotsOf(longer[i]) \cap SlotsOf(longer[j]) = {}
  <2>1. CASE i \in 1..n /\ j \in 1..n  BY <1>1, <1>4, <2>1 DEF Tiled
  <2>2. CASE i = n + 1  
    <3>1. j \in 1..n  BY <1>1, <1>4, <2>2
    <3> QED BY <1>1, <1>2, <2>2, <3>1
  <2>3. CASE j = n + 1
    <3>1. i \in 1..n  BY <1>1, <1>4, <2>3
    <3> QED BY <1>1, <1>2, <2>3, <3>1
  <2> QED BY <1>1, <2>1, <2>2, <2>3
<1> QED BY <1>1, <1>3, <1>4 DEF Tiled, longer

-----------------------------------------------------------------------------
(* The inductive invariant. *)

\* The map lies in some finite rectangle.
Bounded ==
  /\ IsFiniteSet(occupied)
  /\ \E b \in Nat : occupied \subseteq (0..b) \X (0..b)

\* What the cells before a cell take.
Before(i) == UNION {SlotsOf(Opened[j]) : j \in 1..(i - 1)}

\* Every cell stands behind slots that are taken, in the order of the rows.
Packed == \A i \in DOMAIN Opened :
  /\ \A c \in 0..(Opened[i].col - 1) : <<Opened[i].row, c>> \in Before(i)
  /\ \A j \in 1..(i - 1) : Opened[j].row <= Opened[i].row

\* So is what lies before the parser in the open row, and no cell is below it.
Cursor ==
  /\ rowOpen => \A k \in 0..(col - 1) : <<row, k>> \in occupied
  /\ \A i \in DOMAIN Opened : Opened[i].row <= row

IInv == Inv /\ Bounded /\ Packed /\ Cursor

LEMMA OpenedTyped ==
  ASSUME TypeOK
  PROVE  /\ Opened \in Seq(Cell)
         /\ current = NoCell => Opened = cells
         /\ current # NoCell => Opened = Append(cells, current) /\ current \in Cell
         /\ \A i \in DOMAIN Opened : Opened[i] \in Cell
<1>1. Opened \in Seq(Cell)  BY DEF TypeOK, Opened
<1>2. \A i \in DOMAIN Opened : Opened[i] \in Cell  BY <1>1
<1> QED BY <1>1, <1>2 DEF TypeOK, Opened

LEMMA InitIInv == Init => IInv
<1> SUFFICES ASSUME Init PROVE IInv  OBVIOUS
<1>1. Opened = <<>>  BY DEF Init, Opened
<1>2. TypeOK
  <2>1. cells \in Seq(Cell) /\ current \in Cell \cup {NoCell}  BY DEF Init
  <2>2. row \in Int /\ row >= -1 /\ col \in Nat  BY DEF Init
  <2> QED BY <2>1, <2>2 DEF Init, TypeOK
<1>3. CellsTile /\ Packed /\ Cursor  BY <1>1 DEF CellsTile, Packed, Cursor, Init
<1>4. Bounded  BY FS_EmptySet DEF Bounded, Init
<1> QED BY <1>2, <1>3, <1>4 DEF IInv, Inv

-----------------------------------------------------------------------------
(* Steps. *)

\* Only the list of opened cells, the map and the cursor matter to the invariant.
LEMMA SameOpened ==
  ASSUME CellsTile, Bounded, Packed, Opened' = Opened, occupied' = occupied
  PROVE  CellsTile' /\ Bounded' /\ Packed'
BY DEF CellsTile, Bounded, Packed, Before

LEMMA RaiseStep ==
  ASSUME IInv, Raise
  PROVE  IInv'
<1> USE DEF Raise
<1>1. Opened' = Opened  BY DEF Opened
<1>2. TypeOK'  BY DEF IInv, Inv, TypeOK
<1>3. CellsTile' /\ Bounded' /\ Packed'  BY <1>1, SameOpened DEF IInv, Inv
<1>4. Cursor'  BY <1>1 DEF Cursor, IInv
<1> QED BY <1>2, <1>3, <1>4 DEF IInv, Inv

LEMMA StartRowStep ==
  ASSUME IInv, StartRow
  PROVE  IInv'
<1>1. CASE Raise  BY <1>1, RaiseStep
<1>2. CASE ~Raise
  <2>1. /\ row' = row + 1 /\ col' = 0 /\ rowOpen' = TRUE
        /\ UNCHANGED <<cells, occupied, current, raised>>
        /\ current = NoCell
    BY <1>2 DEF StartRow
  <2>2. Opened' = Opened  BY <2>1 DEF Opened
  <2>3. TypeOK'  BY <2>1 DEF IInv, Inv, TypeOK
  <2>4. CellsTile' /\ Bounded' /\ Packed'  BY <2>1, <2>2, SameOpened DEF IInv, Inv
  <2>5. Cursor'
    <3>1. \A i \in DOMAIN Opened : Opened[i].row \in Nat
      <4>1. \A i \in DOMAIN Opened : Opened[i] \in Cell  BY OpenedTyped DEF IInv, Inv
      <4> QED BY <4>1 DEF Cell
    <3>2. \A i \in DOMAIN Opened : Opened[i].row <= row + 1
      BY <3>1 DEF IInv, Inv, TypeOK, Cursor
    <3> QED BY <2>1, <2>2, <3>2 DEF Cursor
  <2> QED BY <2>3, <2>4, <2>5 DEF IInv, Inv
<1> QED BY <1>1, <1>2

LEMMA EndRowStep ==
  ASSUME IInv, EndRow
  PROVE  IInv'
<1>1. CASE Raise  BY <1>1, RaiseStep
<1>2. CASE ~Raise
  <2>1. /\ rowOpen' = FALSE /\ current = NoCell
        /\ UNCHANGED <<cells, occupied, row, col, current, raised>>
    BY <1>2 DEF EndRow
  <2>2. Opened' = Opened  BY <2>1 DEF Opened
  <2>3. TypeOK'  BY <2>1 DEF IInv, Inv, TypeOK
  <2>4. CellsTile' /\ Bounded' /\ Packed'  BY <2>1, <2>2, SameOpened DEF IInv, Inv
  <2>5. Cursor'  BY <2>1, <2>2 DEF IInv, Cursor
  <2> QED BY <2>3, <2>4, <2>5 DEF IInv, Inv
<1> QED BY <1>1, <1>2

\* Closing a cell gives it its text and leaves it where it is.
LEMMA EndCellStep ==
  ASSUME IInv, NEW tag \in Tag, NEW text \in Text, EndCell(tag, text)
  PROVE  IInv'
<1>1. CASE Raise  BY <1>1, RaiseStep
<1>2. CASE ~Raise
  <2> DEFINE closed == [current EXCEPT !.text = text]
  <2>1. /\ current # NoCell /\ current' = NoCell
        /\ cells' = Append(cells, closed)
        /\ UNCHANGED <<occupied, row, col, rowOpen, raised>>
    BY <1>2 DEF EndCell
  <2>2. TypeOK  BY DEF IInv, Inv
  <2>3. /\ current \in Cell /\ closed \in Cell
        /\ closed.row = current.row /\ closed.col = current.col
        /\ closed.rs = current.rs /\ closed.cs = current.cs
    BY <2>1, <2>2 DEF TypeOK, Cell
  <2> HIDE DEF closed
  <2>4. TypeOK'
    <3>1. cells' \in Seq(Cell)  BY <2>1, <2>2, <2>3 DEF TypeOK
    <3> QED BY <2>1, <2>2, <3>1 DEF TypeOK
  <2>5. /\ Opened = Append(cells, current) /\ Opened' = Append(cells, closed)
        /\ cells \in Seq(Cell)
    BY <2>1, <2>2 DEF Opened, TypeOK
  <2>6. /\ DOMAIN Opened' = DOMAIN Opened
        /\ DOMAIN Opened = 1..(Len(cells) + 1) /\ Len(cells) \in Nat
        /\ \A i \in 1..(Len(cells) + 1) :
             /\ Opened'[i].row = Opened[i].row /\ Opened'[i].col = Opened[i].col
             /\ Opened'[i].rs = Opened[i].rs /\ Opened'[i].cs = Opened[i].cs
    <3>1. \A i \in 1..Len(cells) : Opened'[i] = Opened[i]  BY <2>5
    <3>2. Opened[Len(cells) + 1] = current /\ Opened'[Len(cells) + 1] = closed  BY <2>5
    <3>3. DOMAIN Opened = 1..(Len(cells) + 1) /\ DOMAIN Opened' = 1..(Len(cells) + 1) /\ Len(cells) \in Nat
      BY <2>5
    <3> QED BY <2>3, <3>1, <3>2, <3>3
  <2>7. \A i \in DOMAIN Opened : SlotsOf(Opened'[i]) = SlotsOf(Opened[i])
    BY <2>6 DEF SlotsOf
  <2>8. \A i \in DOMAIN Opened : Before(i)' = Before(i)
    BY <2>6, <2>7 DEF Before
  <2>9. CellsTile'  BY <2>1, <2>6, <2>7 DEF IInv, Inv, CellsTile
  <2>10. Packed'
    <3>1. \A i \in DOMAIN Opened : i \in Nat /\ 1..(i - 1) \subseteq DOMAIN Opened
      BY <2>6
    <3> QED BY <2>6, <2>8, <3>1 DEF IInv, Packed
  <2>11. Bounded' /\ Cursor'  BY <2>1, <2>6 DEF IInv, Bounded, Cursor
  <2> QED BY <2>4, <2>9, <2>10, <2>11 DEF IInv, Inv
<1> QED BY <1>1, <1>2

\* A new cell takes free slots only, and the first free ones of its row.
LEMMA StartCellStep ==
  ASSUME IInv, NEW tag \in Tag, NEW rs \in Span, NEW cs \in Span, StartCell(tag, rs, cs)
  PROVE  IInv'
<1>1. CASE Raise  BY <1>1, RaiseStep
<1>2. CASE ~Raise
  <2> DEFINE c == FirstFree(row, col)
             cell == [row |-> row, col |-> c, rs |-> rs, cs |-> cs, tag |-> tag, text |-> ""]
             n == Len(cells)
  <2>1. /\ rowOpen /\ current = NoCell
        /\ rs \in 1..MaxSpan /\ cs \in 1..MaxSpan
        /\ Slots(row, c, rs, cs) \cap occupied = {}
        /\ occupied' = occupied \cup Slots(row, c, rs, cs)
        /\ current' = cell /\ col' = c + cs
        /\ UNCHANGED <<cells, row, rowOpen, raised>>
    BY <1>2 DEF StartCell, Overlaps
  <2>2. row \in Nat /\ col \in Nat /\ IsFiniteSet(occupied) /\ rs \in Nat \ {0} /\ cs \in Nat \ {0}
    <3>1. row \in Int /\ row >= 0 /\ col \in Nat  BY <2>1 DEF IInv, Inv, TypeOK
    <3>2. IsFiniteSet(occupied)  BY DEF IInv, Bounded
    <3>3. rs \in Nat \ {0} /\ cs \in Nat \ {0}  BY <2>1, SpanTyped
    <3> QED BY <3>1, <3>2, <3>3
  <2>3. c \in Nat /\ c >= col /\ \A k \in col..(c - 1) : <<row, k>> \in occupied
    BY <2>2, FirstFreeIsFree
  <2> HIDE DEF c
  <2>4. /\ IsFiniteSet(Slots(row, c, rs, cs))
        /\ Slots(row, c, rs, cs) \subseteq (0..(row + rs)) \X (0..(c + cs))
        /\ \A k \in c..(c + cs - 1) : <<row, k>> \in Slots(row, c, rs, cs)
    BY <2>2, <2>3, SlotsTyped
  <2>5. cell \in Cell /\ SlotsOf(cell) = Slots(row, c, rs, cs) /\ cell.row = row /\ cell.col = c
    BY <2>1, <2>2, <2>3, GridAssumption DEF Cell, SlotsOf
  <2> HIDE DEF cell
  <2>6. cells \in Seq(Cell) /\ Opened = cells /\ Opened' = Append(cells, cell)
    BY <2>1, <2>5, NoCellAssumption DEF IInv, Inv, TypeOK, Opened
  <2>7. TypeOK'
    <3>1. occupied' \subseteq Nat \X Nat  BY <2>1, <2>2, <2>3, <2>4 DEF IInv, Inv, TypeOK
    <3>2. col' \in Nat  BY <2>1, <2>2, <2>3
    <3> QED BY <2>1, <2>2, <2>5, <3>1, <3>2, NoCellAssumption DEF IInv, Inv, TypeOK
  <2>8. CellsTile'
    <3>1. Tiled(cells, occupied)  BY <2>6 DEF IInv, Inv, CellsTile, Tiled
    <3>2. Tiled(Append(cells, cell), occupied \cup SlotsOf(cell))
      BY <2>1, <2>5, <2>6, <3>1, TiledAppend
    <3> QED BY <2>1, <2>5, <2>6, <3>2 DEF CellsTile, Tiled
  <2>9. Bounded'
    <3>1. IsFiniteSet(occupied')  BY <2>1, <2>2, <2>4, FS_Union
    <3>2. PICK b \in Nat : occupied \subseteq (0..b) \X (0..b)  BY DEF IInv, Bounded
    <3> DEFINE d == b + row + rs + c + cs
    <3>3. d \in Nat /\ 0..b \subseteq 0..d /\ 0..(row + rs) \subseteq 0..d /\ 0..(c + cs) \subseteq 0..d
      BY <2>2, <2>3
    <3> HIDE DEF d
    <3>4. occupied' \subseteq (0..d) \X (0..d)  BY <2>1, <2>4, <3>2, <3>3
    <3> QED BY <3>1, <3>3, <3>4 DEF Bounded
  <2>10. /\ n \in Nat /\ DOMAIN Opened = 1..n /\ DOMAIN Opened' = 1..(n + 1)
         /\ \A i \in 1..n : Opened'[i] = Opened[i]
         /\ Opened'[n + 1] = cell
    BY <2>6
  <2> HIDE DEF n
  <2>11. \A i \in 1..n : Before(i)' = Before(i)
    <3>1. \A i \in 1..n : \A j \in 1..(i - 1) : Opened'[j] = Opened[j]  BY <2>10
    <3> QED BY <3>1 DEF Before
  <2>12. UNION {SlotsOf(Opened'[j]) : j \in 1..n} = occupied
    <3>1. \A j \in 1..n : SlotsOf(Opened'[j]) = SlotsOf(Opened[j])  BY <2>10
    <3>2. occupied = UNION {SlotsOf(Opened[j]) : j \in 1..n}  BY <2>10 DEF IInv, Inv, CellsTile
    <3> QED BY <3>1, <3>2
  <2>13. \A k \in 0..(c - 1) : <<row, k>> \in occupied
    BY <2>1, <2>2, <2>3 DEF IInv, Cursor
  <2>14. \A j \in 1..n : Opened[j].row <= row  BY <2>10 DEF IInv, Cursor
  <2>15. Packed'
    <3> SUFFICES ASSUME NEW i \in 1..(n + 1)
                 PROVE  /\ \A k \in 0..(Opened'[i].col - 1) : <<Opened'[i].row, k>> \in Before(i)'
                        /\ \A j \in 1..(i - 1) : Opened'[j].row <= Opened'[i].row
      BY <2>10 DEF Packed
    <3>1. CASE i = n + 1
      <4>1. Opened'[i] = cell  BY <2>10, <3>1
      <4>2. 1..(i - 1) = 1..n  BY <2>10, <3>1
      <4>3. Before(i)' = occupied  BY <2>12, <4>2 DEF Before
      <4> QED BY <2>5, <2>10, <2>13, <2>14, <4>1, <4>2, <4>3
    <3>2. CASE i \in 1..n
      <4>1. \A j \in 1..(i - 1) : j \in 1..n  BY <2>10, <3>2
      <4> QED BY <2>10, <2>11, <3>2, <4>1 DEF IInv, Packed
    <3> QED BY <2>10, <3>1, <3>2
  <2>16. Cursor'
    <3>1. \A k \in 0..(c + cs - 1) : <<row, k>> \in occupied'
      BY <2>1, <2>2, <2>3, <2>4, <2>13
    <3>2. \A i \in 1..(n + 1) : Opened'[i].row <= row
      BY <2>2, <2>5, <2>10, <2>14
    <3>3. \A k \in 0..(col' - 1) : <<row', k>> \in occupied'
      <4>1. col' = c + cs /\ c + cs \in Nat  BY <2>1, <2>2, <2>3
      <4>2. row' = row  BY <2>1
      <4>3. PICK x \in Nat : x = col' /\ x = c + cs  BY <4>1
      <4>4. \A k \in 0..(x - 1) : <<row, k>> \in occupied'  BY <2>2, <2>3, <3>1, <4>3
      <4> QED BY <4>2, <4>3, <4>4
    <3>4. \A i \in DOMAIN Opened' : Opened'[i].row <= row'  BY <2>1, <2>10, <3>2
    <3> QED BY <3>3, <3>4 DEF Cursor
  <2> QED BY <2>7, <2>8, <2>9, <2>15, <2>16 DEF IInv, Inv
<1> QED BY <1>1, <1>2

LEMMA Invariant == Spec => []IInv
<1>1. IInv /\ UNCHANGED vars => IInv'
  <2> SUFFICES ASSUME IInv, UNCHANGED vars PROVE IInv'  OBVIOUS
  <2>1. Opened' = Opened  BY DEF Opened, vars
  <2>2. TypeOK'  BY DEF IInv, Inv, TypeOK, vars
  <2>3. CellsTile' /\ Bounded' /\ Packed'  BY <2>1, SameOpened DEF IInv, Inv, vars
  <2>4. Cursor'  BY <2>1 DEF Cursor, IInv, vars
  <2> QED BY <2>2, <2>3, <2>4 DEF IInv, Inv
<1>2. IInv /\ [Next]_vars => IInv'
  BY <1>1, StartRowStep, StartCellStep, EndCellStep, EndRowStep DEF Next
<1> QED BY InitIInv, <1>2, PTL DEF Spec

-----------------------------------------------------------------------------
(* Theorems. *)

\* Whatever tags TableParser is fed, its occupancy map is exactly the slots of its
\* cells and no slot belongs to two of them, for any spans and limits.
THEOREM GridIsExact == Spec => []Inv
<1>1. IInv => Inv  BY DEF IInv
<1> QED BY Invariant, <1>1, PTL

\* An accepted grid is at least as high and wide as each of its cells.
LEMMA GridHoldsCells ==
  ASSUME IInv, Accepted, NEW i \in DOMAIN cells
  PROVE  /\ cells[i] \in Cell
         /\ cells[i].row \in 0..(Height - 1) /\ cells[i].col \in 0..(Width - 1)
         /\ cells[i].row + cells[i].rs <= Height /\ cells[i].col + cells[i].cs <= Width
         /\ Height \in Nat /\ Width \in Nat
<1> DEFINE rows == {s[1] : s \in occupied}  cols == {s[2] : s \in occupied}
           cell == cells[i]
<1>1. Opened = cells /\ cell \in Cell
  BY OpenedTyped DEF IInv, Inv, Accepted
<1>2. PICK b \in Nat : occupied \subseteq (0..b) \X (0..b)  BY DEF IInv, Bounded
<1>3. rows \in SUBSET Nat /\ rows # {} /\ \A x \in rows : x <= b
  BY <1>2 DEF Accepted
<1>4. cols \in SUBSET Nat /\ cols # {} /\ \A x \in cols : x <= b
  BY <1>2 DEF Accepted
<1>5. MaxOf(rows) \in rows /\ \A x \in rows : x <= MaxOf(rows)
  <2> HIDE DEF rows
  <2> QED BY <1>3, MaxIsGreatest
<1>6. MaxOf(cols) \in cols /\ \A x \in cols : x <= MaxOf(cols)
  <2> HIDE DEF cols
  <2> QED BY <1>4, MaxIsGreatest
<1>7. MaxOf(rows) \in Nat /\ MaxOf(cols) \in Nat  BY <1>3, <1>4, <1>5, <1>6
<1>8. cell.row \in Nat /\ cell.col \in Nat /\ cell.rs \in Nat \ {0} /\ cell.cs \in Nat \ {0}
  BY <1>1, CellTyped
<1>9. <<cell.row + cell.rs - 1, cell.col + cell.cs - 1>> \in SlotsOf(cell)
  BY <1>8 DEF SlotsOf, Slots
<1>10. SlotsOf(cell) \subseteq occupied  BY <1>1 DEF IInv, Inv, CellsTile
<1>11. cell.row + cell.rs - 1 \in rows /\ cell.col + cell.cs - 1 \in cols
  BY <1>9, <1>10
<1>12. cell.row + cell.rs - 1 <= MaxOf(rows) /\ cell.col + cell.cs - 1 <= MaxOf(cols)
  BY <1>5, <1>6, <1>11
<1>13. Height = 1 + MaxOf(rows) /\ Width = 1 + MaxOf(cols)  BY DEF Height, Width
<1> HIDE DEF rows, cols, cell
<1>14. Height \in Nat /\ Width \in Nat  BY <1>7, <1>13
<1>15. cell.row + cell.rs <= Height /\ cell.row \in 0..(Height - 1)
  BY <1>7, <1>8, <1>12, <1>13
<1>16. cell.col + cell.cs <= Width /\ cell.col \in 0..(Width - 1)
  BY <1>7, <1>8, <1>12, <1>13
<1> QED BY <1>1, <1>14, <1>15, <1>16 DEF cell

\* No two cells of an accepted table have one anchor, and a row shows a cell's text there.
LEMMA AnchorShowsText ==
  ASSUME IInv, Accepted, NEW i \in DOMAIN cells
  PROVE  /\ \A j \in DOMAIN cells : cells[j].row = cells[i].row /\ cells[j].col = cells[i].col => j = i
         /\ RowsOf(cells, Height, Width)[cells[i].row][cells[i].col] = cells[i].text
<1> DEFINE cell == cells[i]
           here == {j \in DOMAIN cells : cells[j].row = cell.row /\ cells[j].col = cell.col}
<1>1. Opened = cells /\ cells \in Seq(Cell)  BY OpenedTyped DEF IInv, Inv, Accepted
<1>2. \A j \in DOMAIN cells : j \in Nat /\ (j # i => SlotsOf(cells[j]) \cap SlotsOf(cell) = {})
  BY <1>1 DEF IInv, Inv, CellsTile
<1>3. \A j \in DOMAIN cells : <<cells[j].row, cells[j].col>> \in SlotsOf(cells[j])
  <2> TAKE j \in DOMAIN cells
  <2>1. cells[j].row \in Nat /\ cells[j].col \in Nat /\ cells[j].rs \in Nat \ {0} /\ cells[j].cs \in Nat \ {0}
    BY <1>1, CellTyped
  <2> QED BY <2>1, SlotsTyped DEF SlotsOf
<1>4. here = {i}  BY <1>2, <1>3
<1>5. MaxOf(here) = i  BY <1>2, <1>4 DEF MaxOf
<1>6. cell.row \in 0..(Height - 1) /\ cell.col \in 0..(Width - 1)  BY GridHoldsCells
<1>7. RowsOf(cells, Height, Width)[cell.row][cell.col] = cell.text
  BY <1>4, <1>5, <1>6 DEF RowsOf
<1> QED BY <1>4, <1>7

\* The table that TableParser.result() accepts is the one HTML lays out from the same
\* tags, for any spans and limits.
THEOREM LayoutIsHtml == Spec => []LaidOutAsHtml
<1>1. ASSUME IInv, Accepted, NEW i \in DOMAIN cells
      PROVE  LET cell == cells[i]
                 before == UNION {SlotsOf(cells[j]) : j \in 1..(i - 1)} IN
             /\ \A c \in 0..(cell.col - 1) : <<cell.row, c>> \in before
             /\ <<cell.row, cell.col>> \notin before
             /\ cell.row + cell.rs - 1 <= row
             /\ \A j \in 1..(i - 1) : cells[j].row <= cell.row
             /\ RowsOf(cells, Height, Width)[cell.row][cell.col] = cell.text
  <2> DEFINE cell == cells[i]
  <2>1. Opened = cells /\ cells \in Seq(Cell)  BY <1>1, OpenedTyped DEF IInv, Inv, Accepted
  <2>2. /\ i \in Nat /\ \A j \in 1..(i - 1) : j \in DOMAIN cells /\ j # i
        /\ \A j \in DOMAIN cells : j \in Nat
    BY <2>1
  <2>3. Before(i) = UNION {SlotsOf(cells[j]) : j \in 1..(i - 1)}  BY <2>1 DEF Before
  <2>4. \A j \in DOMAIN cells : j # i => SlotsOf(cells[j]) \cap SlotsOf(cell) = {}
    BY <1>1, <2>1 DEF IInv, Inv, CellsTile
  <2>5. \A j \in DOMAIN cells : /\ cells[j] \in Cell
                               /\ <<cells[j].row, cells[j].col>> \in SlotsOf(cells[j])
    <3> TAKE j \in DOMAIN cells
    <3>1. cells[j] \in Cell  BY <2>1
    <3>2. cells[j].row \in Nat /\ cells[j].col \in Nat /\ cells[j].rs \in Nat \ {0} /\ cells[j].cs \in Nat \ {0}
      BY <3>1, CellTyped
    <3> QED BY <3>1, <3>2, SlotsTyped DEF SlotsOf
  <2>6. /\ \A c \in 0..(cell.col - 1) : <<cell.row, c>> \in Before(i)
        /\ \A j \in 1..(i - 1) : cells[j].row <= cell.row
    BY <1>1, <2>1 DEF IInv, Packed
  <2>7. <<cell.row, cell.col>> \notin Before(i)
    BY <2>2, <2>3, <2>4, <2>5
  <2>8. cell.row + cell.rs - 1 <= row
    <3>1. cell.row + cell.rs <= Height /\ Height \in Nat /\ cell.row \in Nat /\ cell.rs \in Nat
      BY <1>1, GridHoldsCells, CellTyped
    <3>2. Height <= row + 1 /\ row \in Int  BY <1>1 DEF Accepted, IInv, Inv, TypeOK
    <3> HIDE DEF cell
    <3> QED BY <3>1, <3>2
  <2>9. RowsOf(cells, Height, Width)[cell.row][cell.col] = cell.text
    BY <1>1, AnchorShowsText
  <2> QED BY <2>3, <2>6, <2>7, <2>8, <2>9
<1>2. IInv => LaidOutAsHtml  BY <1>1 DEF LaidOutAsHtml
<1> QED BY Invariant, <1>2, PTL

-----------------------------------------------------------------------------
(* The other readers. *)

\* Where every line of the grid is drawn, the lines inside a cell count its span.
LEMMA LinesCount ==
  ASSUME NEW edges \in SUBSET Int, NEW hi \in Nat, 0..hi \subseteq edges,
         NEW from \in Nat, NEW to \in Nat, from < to, to <= hi
  PROVE  LinesIn(edges, from, to) = to - from
<1>1. {e \in edges : from <= e /\ e < to} = from..(to - 1)
  <2>1. \A e \in from..(to - 1) : e \in 0..hi /\ from <= e /\ e < to  OBVIOUS
  <2>2. \A e \in edges : e \in Int  OBVIOUS
  <2>3. \A e \in Int : from <= e /\ e < to => e \in from..(to - 1)  OBVIOUS
  <2> QED BY <2>1, <2>2, <2>3
<1>2. from \in Int /\ to - 1 \in Int  OBVIOUS
<1>3. Cardinality(from..(to - 1)) = IF from > to - 1 THEN 0 ELSE (to - 1) - from + 1
  BY <1>2, FS_Interval
<1>4. LinesIn(edges, from, to) = Cardinality(from..(to - 1))  BY <1>1, Zenon DEF LinesIn
<1> QED BY <1>3, <1>4

\* The same table read from its tags, from a model's explicit cells or from its ruled lines
\* has the same cells: map_document takes every table TableParser takes, and where every line
\* is drawn native_cells infers its spans, for any spans, texts and limits.
THEOREM ReadersAgreeOnTables == Spec => []ReadersAgree
<1> DEFINE Box(i) == [x0 |-> cells[i].col, x1 |-> cells[i].col + cells[i].cs,
                      y0 |-> cells[i].row, y1 |-> cells[i].row + cells[i].rs]
           Anchor(i) == <<cells[i].row, cells[i].col>>
           bounds == [a \in {Anchor(i) : i \in DOMAIN cells} |-> Box(CHOOSE i \in DOMAIN cells : Anchor(i) = a)]
           rows == RowsOf(cells, Height, Width)
           native == NativeCells(bounds, rows, Height, Width)
           xs == UNION {{Box(i).x0, Box(i).x1} : i \in DOMAIN cells}
           ys == UNION {{Box(i).y0, Box(i).y1} : i \in DOMAIN cells}
<1>1. ASSUME IInv, Accepted
      PROVE  MapsTable(Height, Width, cells)
  <2>1. \A i \in DOMAIN cells : /\ cells[i].row + cells[i].rs <= Height /\ cells[i].col + cells[i].cs <= Width
                               /\ cells[i].row \in Nat /\ cells[i].col \in Nat
                               /\ cells[i].rs \in Nat \ {0} /\ cells[i].cs \in Nat \ {0}
                               /\ Height \in Nat /\ Width \in Nat
    BY <1>1, GridHoldsCells, CellTyped
  <2>2. \A i, j \in DOMAIN cells : i # j => SlotsOf(cells[i]) \cap SlotsOf(cells[j]) = {}
    BY <1>1, OpenedTyped DEF IInv, Inv, Accepted, CellsTile
  <2>3. PICK i \in DOMAIN cells : TRUE
    <3>1. Opened = cells /\ occupied # {}  BY <1>1, OpenedTyped DEF IInv, Inv, Accepted
    <3> QED BY <1>1, <3>1 DEF IInv, Inv, CellsTile
  <2>4. Height > 0 /\ Width > 0  BY <2>1, <2>3
  <2>5. Height * Width <= MaxCells  BY <1>1 DEF Accepted
  <2> QED BY <2>1, <2>2, <2>4, <2>5 DEF MapsTable
<1>2. ASSUME IInv, Accepted, NEW i \in DOMAIN cells
      PROVE  /\ native[Anchor(i)].text = cells[i].text
             /\ 0..Height \subseteq ys /\ 0..Width \subseteq xs
                  => native[Anchor(i)] = [rs |-> cells[i].rs, cs |-> cells[i].cs,
                                          text |-> cells[i].text, valid |-> TRUE]
  <2>1. \A k \in DOMAIN cells : Anchor(k) \in DOMAIN bounds /\ bounds[Anchor(k)] = Box(k)
    <3> TAKE k \in DOMAIN cells
    <3>1. \A j \in DOMAIN cells : Anchor(j) = Anchor(k) => j = k  BY <1>2, AnchorShowsText
    <3>2. (CHOOSE j \in DOMAIN cells : Anchor(j) = Anchor(k)) = k
      <4> HIDE DEF Anchor
      <4> QED BY <3>1
    <3> HIDE DEF Anchor, Box
    <3> QED BY <3>2
  <2>2. DOMAIN bounds = {Anchor(k) : k \in DOMAIN cells}  OBVIOUS
  <2> HIDE DEF bounds
  <2>3. {bounds[c] : c \in DOMAIN bounds} = {Box(k) : k \in DOMAIN cells}
    <3> HIDE DEF Anchor, Box
    <3> QED BY <2>1, <2>2
  <2>4. /\ xs = UNION {{b.x0, b.x1} : b \in {bounds[c] : c \in DOMAIN bounds}}
        /\ ys = UNION {{b.y0, b.y1} : b \in {bounds[c] : c \in DOMAIN bounds}}
    <3> HIDE DEF Anchor, Box
    <3> QED BY <2>3
  <2>5. rows[Anchor(i)[1]][Anchor(i)[2]] = cells[i].text  BY <1>2, AnchorShowsText
  <2>6. /\ bounds[Anchor(i)].y0 = cells[i].row /\ bounds[Anchor(i)].y1 = cells[i].row + cells[i].rs
        /\ bounds[Anchor(i)].x0 = cells[i].col /\ bounds[Anchor(i)].x1 = cells[i].col + cells[i].cs
        /\ Anchor(i)[1] = cells[i].row /\ Anchor(i)[2] = cells[i].col
    <3>1. bounds[Anchor(i)] = Box(i)
      <4> HIDE DEF Anchor, Box
      <4> QED BY <2>1
    <3>2. /\ Box(i).y0 = cells[i].row /\ Box(i).y1 = cells[i].row + cells[i].rs
          /\ Box(i).x0 = cells[i].col /\ Box(i).x1 = cells[i].col + cells[i].cs
          /\ Anchor(i)[1] = cells[i].row /\ Anchor(i)[2] = cells[i].col
      OBVIOUS
    <3> HIDE DEF Anchor, Box
    <3> QED BY <3>1, <3>2
  <2>7. \A k \in DOMAIN cells : /\ cells[k].row \in Nat /\ cells[k].col \in Nat
                               /\ cells[k].rs \in Nat \ {0} /\ cells[k].cs \in Nat \ {0}
    BY <1>2, GridHoldsCells, CellTyped
  <2>8. xs \in SUBSET Int /\ ys \in SUBSET Int  BY <2>7
  <2>9. /\ cells[i].row + cells[i].rs <= Height /\ cells[i].col + cells[i].cs <= Width
        /\ Height \in Nat /\ Width \in Nat
    BY <1>2, GridHoldsCells
  <2> HIDE DEF xs, ys, rows, Anchor, Box
  <2> DEFINE rs == LinesIn(ys, cells[i].row, cells[i].row + cells[i].rs)
             cs == LinesIn(xs, cells[i].col, cells[i].col + cells[i].cs)
  <2>10. /\ native[Anchor(i)].text = cells[i].text
         /\ rs \in 1..(Height - cells[i].row) /\ cs \in 1..(Width - cells[i].col)
              => native[Anchor(i)] = [rs |-> rs, cs |-> cs, text |-> cells[i].text, valid |-> TRUE]
    <3> DEFINE a == Anchor(i)
    <3>1. a \in DOMAIN bounds  BY <2>1
    <3>2. rs = LinesIn(ys, bounds[a].y0, bounds[a].y1) /\ cs = LinesIn(xs, bounds[a].x0, bounds[a].x1)
      BY <2>6
    <3> HIDE DEF a, rs, cs
    <3>3. /\ native[a].text = rows[a[1]][a[2]]
          /\ rs \in 1..(Height - a[1]) /\ cs \in 1..(Width - a[2])
               => native[a] = [rs |-> rs, cs |-> cs, text |-> rows[a[1]][a[2]], valid |-> TRUE]
      BY <2>4, <3>1, <3>2 DEF NativeCells
    <3> HIDE DEF native
    <3> QED BY <2>5, <2>6, <3>3 DEF a
  <2>11. ASSUME 0..Height \subseteq ys, 0..Width \subseteq xs
         PROVE  /\ LinesIn(ys, cells[i].row, cells[i].row + cells[i].rs) = cells[i].rs
                /\ LinesIn(xs, cells[i].col, cells[i].col + cells[i].cs) = cells[i].cs
    <3> DEFINE bottom == cells[i].row + cells[i].rs
               right == cells[i].col + cells[i].cs
    <3>0. /\ cells[i].row \in Nat /\ bottom \in Nat /\ cells[i].row < bottom /\ bottom <= Height
          /\ cells[i].col \in Nat /\ right \in Nat /\ cells[i].col < right /\ right <= Width
      BY <2>7, <2>9
    <3> HIDE DEF bottom, right
    <3>1. LinesIn(ys, cells[i].row, bottom) = bottom - cells[i].row
      BY <2>8, <2>9, <2>11, <3>0, LinesCount
    <3>2. LinesIn(xs, cells[i].col, right) = right - cells[i].col
      BY <2>8, <2>9, <2>11, <3>0, LinesCount
    <3>3. bottom - cells[i].row = cells[i].rs /\ right - cells[i].col = cells[i].cs
      BY <2>7 DEF bottom, right
    <3> QED BY <3>1, <3>2, <3>3 DEF bottom, right
  <2>12. cells[i].rs \in 1..(Height - cells[i].row) /\ cells[i].cs \in 1..(Width - cells[i].col)
    BY <2>7, <2>9
  <2> QED BY <2>10, <2>11, <2>12
<1>3. IInv => ReadersAgree
  <2> SUFFICES ASSUME IInv, Accepted PROVE ReadersAgree  BY DEF ReadersAgree
  <2>1. MapsTable(Height, Width, cells)  BY <1>1
  <2> HIDE DEF native, bounds, rows
  <2>2. \A i \in DOMAIN cells : native[Anchor(i)].text = cells[i].text  BY <1>2
  <2>3. 0..Height \subseteq ys /\ 0..Width \subseteq xs =>
          \A i \in DOMAIN cells : native[Anchor(i)] = [rs |-> cells[i].rs, cs |-> cells[i].cs,
                                                       text |-> cells[i].text, valid |-> TRUE]
    BY <1>2
  <2> QED BY <2>1, <2>2, <2>3 DEF ReadersAgree, native, bounds, rows
<1> QED BY Invariant, <1>3, PTL

=============================================================================
