SPECIFICATION Spec
CONSTANTS
  scan = scan  office = office  letter = letter
  r1 = r1  r2 = r2  r3 = r3
  NoKey = NoKey  Nobody = Nobody  Loop = Loop
  Request = {r1, r2, r3}
  Actor = {r1, r2, r3, Loop}
  Key = {scan, letter}
  Json = {scan, letter}
  Inline = {letter}
  Stored = {letter}
  KeyOf <- ScanTwice
  Limit = 1
  MaxFaults = 1
  MaxAsks = 3
  MaxCrashes = 1
CHECK_DEADLOCK FALSE
SYMMETRY ScanSymmetry
INVARIANTS
  Inv
  NoTaskAbandoned
