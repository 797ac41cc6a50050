SPECIFICATION FairSpec
CHECK_DEADLOCK FALSE
CONSTANTS
  q1 = q1
  q2 = q2
  None = None
  Reqs = {q1, q2}
  BadDiagParams = FALSE
  Cap = 1
  MaxEvents = 1
  MaxStarts = 1
PROPERTY
  EveryRequestAnswered
