SPECIFICATION Spec
CONSTANTS
  MaxScripts = 3
  MaxOrphans = 2
INVARIANTS
  OneTimer
  StopStops
  StartStarts
PROPERTIES
  ScriptsEvaluated
CHECK_DEADLOCK FALSE
