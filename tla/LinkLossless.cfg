SPECIFICATION Spec
CONSTANTS
  Noop = "noop"
  Kind <- NameIsType
  Toxics = {"latency", "bandwidth", "slicer"}
  Sometimes = {}
  MaxStubs = 4
  MaxBytes = 2
  MaxChunk = 2
  MaxGiven = 3
  InitToxics = 1
  BufferSize = 1
  Attrs = {1, 2}
  DestMayFail = FALSE
  MayStall = TRUE
INVARIANTS
  TypeOK
  InOrder
  NothingMissing
  Wired
PROPERTIES
  RewireOnlyWhenStopped
CHECK_DEADLOCK FALSE
