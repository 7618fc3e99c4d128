SPECIFICATION FairSpec
CONSTANTS
  k1 = k1
  k2 = k2
  l1 = l1
  l2 = l2
  Nobody = Nobody
  Unused = Unused
  Callers = {k1, k2}
  Names = {"a", "b"}
  Values = {"x", "y"}
  Links = {l1, l2}
  DirOf <- BothDown
  MaxToxics = 2
INVARIANTS
  TypeOK
  IndicesMatch
  NamesUnique
  LinksRunChain
PROPERTIES
  MutexFreed
  ImplementsToxicSet
