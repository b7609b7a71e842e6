------------------------------ MODULE TableGrid ------------------------------
(***************************************************************************)
(* The cells of a recognised table.  TableParser (app/services/            *)
(* table_evidence.py) is fed the tags of the structure a model predicts,   *)
(* one at a time, and keeps an occupancy map for the cells that span rows  *)
(* and columns; map_document (table_docling.py) and native_cells           *)
(* (table_evidence.py) build the same cells from explicit positions and    *)
(* from the ruled lines of a digital page.                                 *)
(*                                                                         *)
(* A slot is <<row, column>>, 0-based.  A cell's text is the data between  *)
(* its tags; data outside a cell is ignored.                               *)
(***************************************************************************)
EXTENDS Integers, Sequences, FiniteSets

CONSTANTS
  Span,       \* the row and column spans that tags carry
  Text,       \* the texts of cells
  MaxSpan,    \* MAX_SPAN
  MaxCells,   \* MAX_CELLS
  MaxRows,    \* bound: rows a table opens
  MaxTags,    \* bound: cells a table opens
  NoCell

ASSUME GridAssumption ==
  /\ Span \subseteq Int /\ "" \in Text
  /\ MaxSpan \in Nat \ {0} /\ MaxCells \in Nat /\ MaxRows \in Nat /\ MaxTags \in Nat

Tag == {"td", "th"}
Cell == [row : Nat, col : Nat, rs : 1..MaxSpan, cs : 1..MaxSpan, tag : Tag, text : Text]
ASSUME NoCellAssumption == NoCell \notin Cell

VARIABLES
  cells,     \* the closed cells, in the order of the source
  occupied,  \* the slots that are taken
  row, col,  \* where the parser is
  current,   \* the open cell, or NoCell
  rowOpen,
  raised     \* TableStructureError

vars == <<cells, occupied, row, col, current, rowOpen, raised>>

Slots(r, c, rs, cs) == (r..(r + rs - 1)) \X (c..(c + cs - 1))
SlotsOf(cell) == Slots(cell.row, cell.col, cell.rs, cell.cs)

Init ==
  /\ cells = <<>> /\ occupied = {}
  /\ row = -1 /\ col = 0
  /\ current = NoCell /\ rowOpen = FALSE /\ raised = FALSE

Raise == raised' = TRUE /\ UNCHANGED <<cells, occupied, row, col, current, rowOpen>>

StartRow ==
  /\ ~raised /\ row < MaxRows - 1
  /\ IF current # NoCell \/ rowOpen THEN Raise
     ELSE /\ row' = row + 1 /\ col' = 0 /\ rowOpen' = TRUE
          /\ UNCHANGED <<cells, occupied, current, raised>>

\* Breaks LaidOutAsHtml: a cell goes behind every slot that is taken in its row, also
\* behind those a cell of an earlier row spans further right.
BadFirstFree(r, from) ==
  CHOOSE c \in from..(from + Cardinality(occupied) * MaxSpan) :
    /\ \A s \in occupied : s[1] = r => s[2] < c
    /\ \A k \in from..(c - 1) : \E s \in occupied : s[1] = r /\ s[2] >= k
\* The first column, from `from` on, that no cell of an earlier row spans.
FirstFree(r, from) ==
  CHOOSE c \in from..(from + Cardinality(occupied)) :
    <<r, c>> \notin occupied /\ \A k \in from..(c - 1) : <<r, k>> \in occupied

\* Breaks Inv: the slots are compared only in the column where the parser stands.
BadOverlaps(new) == \E s \in new : s[2] = col /\ s \in occupied
Overlaps(new) == new \cap occupied # {}

StartCell(tag, rs, cs) ==
  LET c == FirstFree(row, col)  new == Slots(row, c, rs, cs) IN
  /\ ~raised /\ Len(cells) < MaxTags
  /\ IF \/ ~rowOpen \/ current # NoCell
        \/ {rs, cs} \ (1..MaxSpan) # {}
        \/ Overlaps(new)
        \/ Cardinality(occupied) + Cardinality(new) > MaxCells
     THEN Raise
     ELSE /\ occupied' = occupied \cup new
          /\ current' = [row |-> row, col |-> c, rs |-> rs, cs |-> cs, tag |-> tag, text |-> ""]
          /\ col' = c + cs
          /\ UNCHANGED <<cells, row, rowOpen, raised>>

EndCell(tag, text) ==
  /\ ~raised
  /\ IF current = NoCell \/ current.tag # tag THEN Raise
     ELSE /\ cells' = Append(cells, [current EXCEPT !.text = text])
          /\ current' = NoCell
          /\ UNCHANGED <<occupied, row, col, rowOpen, raised>>

EndRow ==
  /\ ~raised
  /\ IF ~rowOpen \/ current # NoCell THEN Raise
     ELSE rowOpen' = FALSE /\ UNCHANGED <<cells, occupied, row, col, current, raised>>

Next ==
  \/ StartRow
  \/ \E tag \in Tag, rs, cs \in Span : StartCell(tag, rs, cs)
  \/ \E tag \in Tag, text \in Text : EndCell(tag, text)
  \/ EndRow

Spec == Init /\ [][Next]_vars
-----------------------------------------------------------------------------
(* What the three readers make of a table. *)

MaxOf(S) == CHOOSE m \in S : \A x \in S : x <= m
Height == 1 + MaxOf({s[1] : s \in occupied})
Width == 1 + MaxOf({s[2] : s \in occupied})

\* TableParser.result() returns a grid.
Accepted ==
  /\ ~raised /\ current = NoCell /\ ~rowOpen /\ occupied # {}
  /\ Height <= row + 1
  /\ Height * Width <= MaxCells

\* The rows of a list of cells: a text at each anchor, the rest of a span is empty.
RowsOf(cs, height, width) ==
  [r \in 0..(height - 1) |-> [c \in 0..(width - 1) |->
    LET here == {i \in DOMAIN cs : cs[i].row = r /\ cs[i].col = c} IN
    IF here = {} THEN "" ELSE cs[MaxOf(here)].text]]

\* map_document takes a table whose cells lie in its grid and do not overlap.
MapsTable(height, width, cs) ==
  /\ height > 0 /\ width > 0 /\ height * width <= MaxCells
  /\ \A i \in DOMAIN cs : /\ cs[i].row + cs[i].rs <= height /\ cs[i].col + cs[i].cs <= width
                          /\ cs[i].row >= 0 /\ cs[i].col >= 0 /\ cs[i].rs >= 1 /\ cs[i].cs >= 1
  /\ \A i, j \in DOMAIN cs : i # j => SlotsOf(cs[i]) \cap SlotsOf(cs[j]) = {}

\* Breaks ReadersAgree: the line on which the cell ends is counted too.
BadLinesIn(edges, from, to) == Cardinality({e \in edges : from <= e /\ e <= to})
\* native_cells counts the lines of the page that start a row or column in the cell.
LinesIn(edges, from, to) == Cardinality({e \in edges : from <= e /\ e < to})

\* The cells native_cells infers from the bounds [x0, y0, x1, y1] at each anchor.  A
\* span that leaves the grid is not asserted.
NativeCells(bounds, rows, height, width) ==
  LET boxes == {bounds[a] : a \in DOMAIN bounds}
      xs == UNION {{b.x0, b.x1} : b \in boxes}
      ys == UNION {{b.y0, b.y1} : b \in boxes}
      Inferred(a) ==
        LET b == bounds[a]
            rs == LinesIn(ys, b.y0, b.y1)
            cs == LinesIn(xs, b.x0, b.x1)
            valid == rs \in 1..(height - a[1]) /\ cs \in 1..(width - a[2]) IN
        [rs |-> IF valid THEN rs ELSE 1, cs |-> IF valid THEN cs ELSE 1,
         text |-> rows[a[1]][a[2]], valid |-> valid] IN
  [a \in DOMAIN bounds |-> Inferred(a)]
-----------------------------------------------------------------------------
(* Properties. *)

\* Every variable keeps its type; the cursor stays in the open row.
TypeOK ==
  /\ cells \in Seq(Cell)
  /\ occupied \subseteq Nat \X Nat
  /\ row \in Int /\ row >= -1 /\ col \in Nat
  /\ current \in Cell \cup {NoCell}
  /\ rowOpen \in BOOLEAN /\ raised \in BOOLEAN
  /\ rowOpen => row >= 0
  /\ current # NoCell => rowOpen

Opened == IF current = NoCell THEN cells ELSE Append(cells, current)

\* "Keep physical cells in model order, with an occupancy map for spans"
\* (table_evidence.py:19): whatever tags come, the map is exactly the slots of the
\* cells, and no slot belongs to two cells, so no amount is read twice.
CellsTile ==
  /\ occupied = UNION {SlotsOf(Opened[i]) : i \in DOMAIN Opened}
  /\ \A i, j \in DOMAIN Opened : i # j => SlotsOf(Opened[i]) \cap SlotsOf(Opened[j]) = {}

\* What the parser keeps of a table at any moment is well formed (table_evidence.py:24-88).
Inv == TypeOK /\ CellsTile

\* An accepted table is laid out as HTML lays it out: each cell stands in its row at
\* the first slot that the cells before it leave free, and its spans stay inside the
\* rows the source declares, so the parser's columns are the source's columns.
LaidOutAsHtml == Accepted =>
  \A i \in DOMAIN cells :
    LET cell == cells[i]
        before == UNION {SlotsOf(cells[j]) : j \in 1..(i - 1)} IN
    /\ \A c \in 0..(cell.col - 1) : <<cell.row, c>> \in before
    /\ <<cell.row, cell.col>> \notin before
    /\ cell.row + cell.rs - 1 <= row
    /\ \A j \in 1..(i - 1) : cells[j].row <= cell.row
    /\ RowsOf(cells, Height, Width)[cell.row][cell.col] = cell.text

\* The same table read from its tags, from a model's explicit cells or from its ruled
\* lines has the same cells: the fallback reader takes every table the parser takes,
\* and where every line of the grid is drawn the native reader infers its spans.
ReadersAgree == Accepted =>
  LET Box(i) == [x0 |-> cells[i].col, x1 |-> cells[i].col + cells[i].cs,
                 y0 |-> cells[i].row, y1 |-> cells[i].row + cells[i].rs]
      Anchor(i) == <<cells[i].row, cells[i].col>>
      bounds == [a \in {Anchor(i) : i \in DOMAIN cells} |-> Box(CHOOSE i \in DOMAIN cells : Anchor(i) = a)]
      native == NativeCells(bounds, RowsOf(cells, Height, Width), Height, Width)
      drawn(hi, ends) == 0..hi \subseteq ends IN
  /\ MapsTable(Height, Width, cells)
  /\ \A i \in DOMAIN cells : native[Anchor(i)].text = cells[i].text
  /\ /\ drawn(Height, UNION {{Box(i).y0, Box(i).y1} : i \in DOMAIN cells})
     /\ drawn(Width, UNION {{Box(i).x0, Box(i).x1} : i \in DOMAIN cells})
     => \A i \in DOMAIN cells :
          native[Anchor(i)] = [rs |-> cells[i].rs, cs |-> cells[i].cs, text |-> cells[i].text, valid |-> TRUE]
=============================================================================
