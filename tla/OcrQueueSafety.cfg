SPECIFICATION Spec
CONSTANTS
  j1 = j1  j2 = j2  j3 = j3  w1 = w1  w2 = w2
  NoJob = NoJob  NoPage = NoPage
  Job = {j1, j2, j3}
  Page <- Pages
  Worker = {w1, w2}
  Targets <- ThreeRequests
  Invalid = {j3}
  MaxJobs = 2
  MaxActive = 1
  FaultKinds = {"insert", "save", "assemble", "commit", "unlink", "failrow", "units"}
  MaxFaults = 2
  MaxRestarts = 1
CHECK_DEADLOCK FALSE
SYMMETRY WorkerSymmetry
INVARIANTS
  TypeOK
  UnfinishedBounded
  InputPresentWhileUnfinished
  CheckpointsOnlyWhileUnfinished
  WorkAccounted
  EveryRowAccounted
  KeepsOrder
PROPERTIES
  OutcomeIsFinal
