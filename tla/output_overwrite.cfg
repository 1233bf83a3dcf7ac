SPECIFICATION Spec
CONSTANTS
  Folders <- MCFolders
  Root = "root"
  Above <- MCAbove
  Names <- MCSlashNames
  Clean <- MCClean
  Modes <- MCModes
INVARIANT NotOverwritten
CHECK_DEADLOCK FALSE
