\* The head may wait in accept() for ever when a peer has ended, so the
\* system really may stop: deadlock is not checked.
CONSTANTS
  Proc <- ChainProc
  Script <- ChainScript
  LaunchAfter <- ChainLaunch
  Root = "head"
  Racing = {"tail"}
  Attempts = 3
  MaxKills = 1
SPECIFICATION Spec
INVARIANTS
  RootStartsLast
  BackConnectionConfirms
  OnlyRacersAreRefused
PROPERTIES
  SetUpCompletes
CHECK_DEADLOCK FALSE
