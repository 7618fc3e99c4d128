SPECIFICATION FairSpec
CONSTANTS
  k1 = k1
  k2 = k2
  c1 = c1
  c2 = c2
  s1 = s1
  s2 = s2
  Nobody = Nobody
  Callers = {k1, k2}
  Settings = {s1, s2}
  Conns = {c1}
  AddrOf <- OwnAddress
  MaxStarts = 2
  MaxChanges = 0
  ListenMayFail = TRUE
  AcceptMayFail = TRUE
PROPERTIES
  CallsReturn
  ConnectionsEnd
