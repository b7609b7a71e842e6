SPECIFICATION Spec
CONSTANTS
  p1 = p1  p2 = p2   s1 = s1  s2 = s2  w1 = w1  w2 = w2
  NoJob = NoJob
  Persistent = {p1, p2}
  Sync = {s1, s2}
  Size <- TwoAndTwo
  Fallible = {s1}
  Worker = {w1, w2}
  MaxActive = 2
  MayShutdown = FALSE
CHECK_DEADLOCK FALSE
SYMMETRY WorkerSymmetry
INVARIANTS
  Inv
  SleepOnlyWhenNothingToTake
  TimedOutIsAbandoned
  WaitingHoldsNothing
PROPERTIES
  LanesShare
