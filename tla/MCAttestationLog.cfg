SPECIFICATION Spec
CONSTANTS
  Size = 2
  NbCalls = 2
  MaxFaults = 0
  MaxCrashes = 0
INVARIANTS
  AttestationsAreLogged
CHECK_DEADLOCK FALSE
