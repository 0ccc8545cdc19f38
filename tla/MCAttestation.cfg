SPECIFICATION Spec
CONSTANTS
  Size = 2
  NbCalls = 3
  MaxFaults = 2
  MaxCrashes = 2
INVARIANTS
  DurableBeforeUse
  EndHasCause
PROPERTIES
  CallEnds
CHECK_DEADLOCK FALSE
