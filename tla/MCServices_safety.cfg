SPECIFICATION FairSpec
CHECK_DEADLOCK FALSE
CONSTANTS
  t1 = t1
  k1 = k1
  k2 = k2
  v1 = v1
  Absent = Absent
  None = None
  Tx = {t1}
  Keys = {k1, k2}
  Values = {v1}
  Artifact <- TwoParts
  MaxFetches = 2
  MaxStarts = 2
INVARIANTS
  TypeOK
  QuietAfterEnd
  FetchedWhole
PROPERTIES
  Implements
  CloseEndsCalls
