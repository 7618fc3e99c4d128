SPECIFICATION Spec
CONSTANTS
  k1 = k1
  k2 = k2
  c1 = c1
  c2 = c2
  s1 = s1
  s2 = s2
  Nobody = Nobody
  Callers = {k1, k2}
  Settings = {s1, s2}
  Conns = {c1, c2}
  AddrOf <- OwnAddress
  MaxStarts = 2
  MaxChanges = 1
  ListenMayFail = TRUE
  AcceptMayFail = FALSE
SYMMETRY Symmetry
INVARIANTS
  TypeOK
  OwnListener
  DownMeansDown
  ConnectedToCurrent
  RunsChain
  EnabledServes
PROPERTIES
  ImplementsService
