SPECIFICATION Spec
CONSTANTS
  c1 = c1
  c2 = c2
  c3 = c3
  c4 = c4
  Copy = {c1, c2, c3, c4}
  RequestOf <- Deliveries
  Sources <- MCSources
  Public = {"pub1", "pub2"}
  Drift = 5
  SensitiveDrift = 1
  MaxEntries = 2
  MaxSize = 1
  Undeclared = Undeclared
  NoSource = NoSource
  MaxClock = 3
  MaxRestarts = 1
SYMMETRY Alike
CHECK_DEADLOCK FALSE
INVARIANTS
  Inv
  WholeOrNothing
