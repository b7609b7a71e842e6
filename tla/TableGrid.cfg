SPECIFICATION Spec
CONSTANTS
  Span <- Spans
  Text = {"", "1,200"}
  MaxSpan = 2
  MaxCells = 8
  MaxRows = 3
  MaxTags = 4
  NoCell = NoCell
CHECK_DEADLOCK FALSE
INVARIANTS
  Inv
  LaidOutAsHtml
  ReadersAgree
