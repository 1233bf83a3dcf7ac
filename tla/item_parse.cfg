SPECIFICATION Spec
CONSTANTS
  Files <- MCFiles
  MaxDepth = 4
  Embedded = 5
INVARIANTS
  TreesOwned
  NothingLeft
  AttachmentResolved
