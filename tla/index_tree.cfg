SPECIFICATION Spec
CONSTANTS
  MaxId = 4
  DescStart = 1
  MaxDepth = 2
  GrowBy = 1
  MaxBlock = 3
  MaxEntries = 6
  MaxDescs = 2
INVARIANTS
  IndexSound
  LookupFinds
  DescPointersValid
CHECK_DEADLOCK FALSE
