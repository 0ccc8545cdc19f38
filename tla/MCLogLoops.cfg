\* Two nodes as in config.h; four ids give runs, holes, full entries and
\* entries that come back after they were removed.
CONSTANTS
  kNodesSize = 2
  Node = {1, 2}
  MaxId = 3
SPECIFICATION Spec
INVARIANTS
  LoopsAgree
  CommitsAreAcked
  NothingLost
