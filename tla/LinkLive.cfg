SPECIFICATION FairSpec
CONSTANTS
  Noop = "noop"
  Kind <- NameIsType
  Toxics = {"latency", "timeout", "reset_peer"}
  Sometimes = {}
  MaxStubs = 4
  MaxBytes = 1
  MaxChunk = 2
  MaxGiven = 1
  InitToxics = 1
  BufferSize = 1
  Attrs = {0}
  DestMayFail = TRUE
  MayStall = FALSE
PROPERTIES
  CallsReturnUncut
  CloseReachesDest
  
CHECK_DEADLOCK FALSE
