SPECIFICATION FairSpec
CONSTANTS
  r1 = r1
  None = None
  MaxEvents = 2
  MaxStarts = 2
  Reqs = {r1}
  Cap = 1
INVARIANTS
  TypeOK
  Custody
PROPERTIES
  StoppedIsFinal
  ConfigApplied
  StatusReported
  StopTerminates
