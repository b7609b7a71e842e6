SPECIFICATION FairSpec
CONSTANTS
  j1 = j1  j2 = j2  j3 = j3  w1 = w1  w2 = w2
  NoJob = NoJob  NoPage = NoPage
  Job = {j1, j2}
  Page <- Pages
  Worker = {w1, w2}
  Targets <- ScanAndLetter
  Invalid = {}
  MaxJobs = 2
  MaxActive = 1
  FaultKinds = {"spill", "save", "commit", "failrow"}
  MaxFaults = 2
  MaxRestarts = 1
CHECK_DEADLOCK FALSE
PROPERTIES
  ClientContract
  EveryRequestSettles
