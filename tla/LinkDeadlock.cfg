SPECIFICATION FairSpec
CONSTANTS
  Noop = "noop"
  Kind <- NameIsType
  Toxics = {"latency"}
  Sometimes = {}
  MaxStubs = 3
  MaxBytes = 2
  MaxChunk = 2
  MaxGiven = 2
  InitToxics = 1
  BufferSize = 1
  Attrs = {0}
  DestMayFail = TRUE
  MayStall = FALSE
PROPERTY
  CallsReturn
CHECK_DEADLOCK FALSE
