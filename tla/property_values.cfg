SPECIFICATION MCSpec
CONSTANTS
  MaxSubs = 2
  MaxElements = 2
  MaxObjects = 3
  MaxCells = 3
  PageSize = 4
  RowSizes = {2, 3}
  RowEnds = {0, 20}
  Half = 2
  MaxRecords = 3
  Targets = {"t1", "t2"}
  NamesSize = 3
  PrefixSize = 2
  Ring = 5
  InitDict <- MCInitDict
  Groups = 2
  MaxCopy = 4
  HeaderSize = 2
  Word = 13
  MaxCompSize = 9
  Bytes = {0, 1}
  Small = 2
  Large = 3
  MaxChars = 4
  Stateful = TRUE
  Charsets = {"latin1", "koi8", "big5"}
  MaxDescriptors = 4
INVARIANTS
  BuffersOwned
  ElementsSound
  RowsInPages
  AttributesFound
  TextDecompressed
  BufferHolds
  DescriptorsRight
PROPERTY ConversionEnds
CHECK_DEADLOCK FALSE
