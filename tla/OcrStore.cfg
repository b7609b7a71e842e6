SPECIFICATION FairSpec
CONSTANTS
  j1 = j1  j2 = j2
  Job = {j1, j2}
  Finished = {j2}
  Ttl = 1
  Stale = 1
  MaxFaults = 1
  MaxCrashes = 1
  Absent = Absent  NoJob = NoJob  NoPath = NoPath
CHECK_DEADLOCK FALSE
INVARIANTS
  Inv
PROPERTIES
  NothingStays
