SPECIFICATION Spec
CONSTANTS
  MaxDepth = 2
  MaxRead = 4
  MaxRefs = 2
  MaxBlocks = 7
  LineGroups = 2
INVARIANTS
  DataComplete
  Base64WellFormed
  BufferHoldsSize
CHECK_DEADLOCK FALSE
