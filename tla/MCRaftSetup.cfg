\* The leader may wait in accept() for ever when a follower has ended, so the
\* system really may stop: deadlock is not checked.
CONSTANTS
  Proc <- RaftProc
  Script <- RaftScript
  LaunchAfter <- RaftLaunch
  Root = "leader"
  Racing = {}
  Attempts = 3
  MaxKills = 1
SPECIFICATION Spec
INVARIANTS
  RootStartsLast
PROPERTIES
  SetUpCompletes
CHECK_DEADLOCK FALSE
