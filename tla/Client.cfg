SPECIFICATION ClientSpec
CONSTANTS
  k1 = k1
  k2 = k2
  c1 = c1
  n1 = n1
  a1 = a1
  host = host
  Nobody = Nobody
  Callers = {k1, k2}
  Clients = {c1}
  Names = {n1}
  Addresses = {a1, host}
  Resolve <- Resolved
  Binds <- Bound
  Bodies <- SomeBodies
  Lists <- SomeLists
  Edits = {host}
  Config <- Configured
  MaxProxies = 2
SYMMETRY Symmetry
INVARIANTS
  ClientTypeOK
  Coherent
  NotItsOwnConflict
PROPERTIES
  SaveKeepsListener
