SPECIFICATION Spec
CONSTANTS
  Jobs <- MCJobs
  Top = "top"
  Kids <- MCKids
  Procs <- MCProcs
  Main = 0
  MaxChildren = 2
  FaultKinds = {"crash"}
  MaxFaults = 1
INVARIANT SuccessMeansComplete
CHECK_DEADLOCK FALSE
