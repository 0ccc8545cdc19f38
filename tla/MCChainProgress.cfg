\* Links of one message and more requests than the ring can hold (three links
\* and two nodes hold five), so that every thread blocks on a full link.
CONSTANTS
  NbRequests = 7
  Cap = 1
  MaxKills = 1
SPECIFICATION FairSpec
PROPERTIES
  Completes
  NobodyHangs
  LateMiddleKillIsHarmless
