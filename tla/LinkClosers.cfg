SPECIFICATION Spec
CONSTANTS
  Noop = "noop"
  Kind <- NameIsType
  Toxics = {"timeout", "limit_data", "bandwidth", "slow_close"}
  Sometimes = {"limit_data"}
  MaxStubs = 3
  MaxBytes = 2
  MaxChunk = 2
  MaxGiven = 3
  InitToxics = 2
  BufferSize = 2
  Attrs <- AnyAttr
  DestMayFail = FALSE
  MayStall = FALSE
INVARIANTS
  InOrder
  NothingMissing
  Wired
  IndicesInRange
CHECK_DEADLOCK FALSE
