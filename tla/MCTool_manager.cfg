SPECIFICATION Spec
CONSTANTS
  None = None
  NumUnits = 2
  NumStreams = 2
  MaxEvents = 1
  RuleSets <- MCRuleSets
INVARIANTS
  TypeOK
  ServerFirst
  StopIsFinal
PROPERTIES
  UnitsFollowRules
  NobodyWaits
