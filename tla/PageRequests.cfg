SPECIFICATION Spec
CONSTANTS
  Worker = {w1, w2}
  Page <- Pages
  Requests <- AllRequests
  Documents <- AllDocuments
  Docling = TRUE
  MaxFallback = 1
  MinLines = 2
  MinFastLines = 3
  MinDecisive = 2
  MaxReadLines = 2
  MinConfidence = 85
  Pad = 1
  MaxPixels = 100
CHECK_DEADLOCK FALSE
INVARIANTS
  Inv
  ReportIsHonest
  CorrectionSettles
  PrintIsAccounted
PROPERTIES
  DeadlineKeepsPages
  EveryCallerAnswered
