SPECIFICATION Spec
CONSTANTS
  Documents <- MCDocuments
  MaxSlip = 3
INVARIANTS
  NoneReadable
CHECK_DEADLOCK FALSE
