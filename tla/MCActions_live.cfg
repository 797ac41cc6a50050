SPECIFICATION FairSpec
CONSTANTS
  q1 = q1
  q2 = q2
  None = None
  Reqs = {q1}
  BadDiagParams = TRUE
  Cap = 2
  MaxEvents = 3
  MaxStarts = 2
PROPERTIES
  EveryRequestAnswered
  StopTerminates
