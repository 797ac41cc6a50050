SPECIFICATION Spec
CONSTANTS
  u1 = u1
  u2 = u2
  i0 = i0
  i1 = i1
  f1 = f1
  f2 = f2
  apm1 = apm1
  None = None
  Ids <- TestIds
  States = {"Starting", "Healthy"}
  Starting = "Starting"
  NumCPU = 4
  InitialInfo = i0
  Script <- AddScript
  Omit <- OmitGlobals
  MaxUnits = 2
  MaxFaults = 0
  MaxStarts = 1
  MaxUpdates = 0
INVARIANT
  AcknowledgedInForce
