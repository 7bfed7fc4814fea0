CONSTANTS
  Memory = 18
  node_size = 2
  Requests <- ManyRequests
  Strangers <- NoStrangers
  nil = nil
  Base = 3
  Length = 7
  Sizes = {0, 2, 5}
  Alignments = {1, 2}
  MaxBlocks = 2
  none = none
  cb_size = 4
  MaxBytes = 14
  WordValues = 256
  IntMin = 16
  page_bytes = 8
  default_alignment = 2
  threshold = 4
  ElementSizes = {1, 3}
  Lengths = {0, 1, 7, 255}
  MaxArena = 32
  MaxCap = 6
  MaxSlices = 2
  SumsMayWrap = FALSE
  Space = 14
  wsize = 4
  FirstYear = 1970
  LastYear = 2101
  SecondsOfDay <- AroundMidnight
SPECIFICATION LibrarySpec
CONSTRAINT FewInUse
INVARIANTS
  TimeAgrees
  StampsFit
  ChunksInBuffer
  ChunksLikeBuffer
  BlocksDisjoint
  SlicesInMapping
  UnconsumedUnlessCarried
  SlicesApart
  CopiedAtOnce
  WordsAligned
PROPERTY StackSpec
CHECK_DEADLOCK FALSE
