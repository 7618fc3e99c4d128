SPECIFICATION Spec
CONSTANTS
  Noop = "noop"
  Kind <- NameIsType
  Toxics = {"timeout", "latency", "slow_close"}
  Sometimes = {}
  MaxStubs = 5
  MaxBytes = 0
  MaxChunk = 2
  MaxGiven = 0
  InitToxics = 3
  BufferSize = 1
  Attrs = {0}
  DestMayFail = FALSE
  MayStall = FALSE
INVARIANT
  NoPanic
CHECK_DEADLOCK FALSE
