SPECIFICATION FairSpec
CONSTANTS
  AverageSize = 3
  SizeVariation = 2
  OutSizes <- Sizes
  MaxChunk = 14
  MaxBytes = 17
INVARIANTS
  TypeOK
  Partition
  ReadsStream
PROPERTIES
  EndIsRead
CHECK_DEADLOCK FALSE
