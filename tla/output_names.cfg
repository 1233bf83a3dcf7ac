SPECIFICATION FairSpec
CONSTANTS
  Folders <- MCFolders
  Root = "root"
  Above <- MCAbove
  Names <- MCNames
  Clean <- MCClean
  Modes <- MCModes
INVARIANTS
  KeptUnlessRaced
  OnlyNamesakesHarm
PROPERTIES
  EveryFolderDone
CHECK_DEADLOCK FALSE
