SPECIFICATION FairSpec
CONSTANTS
  p1 = p1  p2 = p2   s1 = s1  s2 = s2  w1 = w1  w2 = w2
  NoJob = NoJob
  Persistent = {p1, p2}
  Sync = {s1}
  Size <- ScanAndRecovered
  Fallible = {s1}
  Worker = {w1}
  MaxActive = 1
  MayShutdown = TRUE
CHECK_DEADLOCK FALSE
INVARIANTS
  OcrKeepsItsOrder
PROPERTIES
  EverybodyIsServed
