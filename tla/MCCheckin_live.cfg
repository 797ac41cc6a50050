SPECIFICATION FairSpec
CONSTANTS
  u1 = u1
  u2 = u2
  i0 = i0
  i1 = i1
  f1 = f1
  f2 = f2
  apm1 = apm1
  None = None
  Ids <- TestIds
  States = {"Starting", "Healthy"}
  Starting = "Starting"
  NumCPU = 4
  InitialInfo = i0
  Script <- OneScript
  Omit <- OmitConfig
  MaxUnits = 1
  MaxFaults = 1
  MaxStarts = 2
  MaxUpdates = 1
INVARIANTS
  NoLostStateChange
  AnnouncedMatchesRegistry
  VersionInfoFirst
PROPERTIES
  StableStateReported
  Converges
  StopTerminates
