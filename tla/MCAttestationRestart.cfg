SPECIFICATION Spec
CONSTANTS
  Size = 2
  NbCalls = 2
  MaxFaults = 0
  MaxCrashes = 1
INVARIANTS
  UsedSurvivesRestart
CHECK_DEADLOCK FALSE
