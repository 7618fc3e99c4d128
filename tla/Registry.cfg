SPECIFICATION FairSpec
CONSTANTS
  k1 = k1
  k2 = k2
  n1 = n1
  n2 = n2
  a1 = a1
  a2 = a2
  host = host
  port0 = port0
  bad = bad
  Nobody = Nobody
  Callers = {k1, k2}
  Names = {n1, n2}
  Addresses = {a1, a2, host, port0, bad}
  Resolve <- Resolved
  Binds <- Bound
  Bodies <- SomeBodies
  Lists <- SomeLists
  MaxProxies = 3
INVARIANTS
  TypeOK
  NoneLeftListening
PROPERTIES
  StartedBeforeListed
  RepeatedPopulateKeeps
  CallsReturn
