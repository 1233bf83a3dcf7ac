SPECIFICATION FairSpec
CONSTANTS
  Jobs <- MCJobs
  Top = "top"
  Kids <- MCKids
  Procs <- MCProcs
  Main = 0
  MaxChildren = 2
  FaultKinds = {"fork"}
  MaxFaults = 1
PROPERTY ForkFailureHarmless
CHECK_DEADLOCK FALSE
