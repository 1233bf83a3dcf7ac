SPECIFICATION FairSpec
CONSTANTS
  Jobs <- MCJobs
  Top = "top"
  Kids <- MCKids
  Procs <- MCProcs
  Main = 0
  MaxChildren = 2
  FaultKinds = {"fork", "crash"}
  MaxFaults = 1
INVARIANTS
  ActiveChildrenBounded
  SlotsConserved
  SlotHolderRuns
  EachFolderOnce
  ChildrenOutlived
PROPERTIES
  Terminates
CHECK_DEADLOCK FALSE
