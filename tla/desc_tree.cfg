SPECIFICATION FairSpec
CONSTANTS
  MaxNodes = 4
  Ids <- MCIds
  Wants <- MCWants
  TopIds <- MCTopIds
INVARIANTS
  LinksConsistent
  EveryNodeOnce
  NoLostParent
PROPERTIES
  LoopsEnd
  ImplementsForest
CHECK_DEADLOCK FALSE
