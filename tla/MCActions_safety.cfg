SPECIFICATION Spec
CHECK_DEADLOCK FALSE
CONSTANTS
  q1 = q1
  q2 = q2
  None = None
  Reqs = {q1, q2}
  BadDiagParams = FALSE
  Cap = 1
  MaxEvents = 2
  MaxStarts = 2
INVARIANTS
  TypeOK
  Custody
  NoRemovedUnit
