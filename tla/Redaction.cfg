SPECIFICATION Spec
CONSTANTS
  Documents <- MCDocuments
  MaxSlip = 3
CHECK_DEADLOCK FALSE
INVARIANTS
  Inv
  SecondReadingCounts
  OrdinaryNumbersStay
