SPECIFICATION MCSpec
CONSTANTS
  MaxProcesses = 3
  MaxWriters = 4
  Folders <- MCFolders
  Root = "top"
  Entries <- MCEntries
  MaxMessages = 3
  MaxKills = 1
  MaxDepth = 1
  Positions = {0, 1}
INVARIANTS
  MessagesWhole
  LockAccounted
  ItemsWritten
  ReadsRight
  HandleKept
PROPERTY LogEnds
CHECK_DEADLOCK FALSE
