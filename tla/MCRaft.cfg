CONSTANTS
  kNodesSize = 2
  NbRequests = 5
  Follower = {1, 2}
  Cap = 1
  MaxKills = 2
SPECIFICATION FairSpec
INVARIANTS
  TypeOK
  Pipeline
  LogsStayEmpty
  SlowFollowerThrottles
  NoCollateralDeath
  DoneMeansReplicated
PROPERTIES
  CommitsInOrder
  ImplementsReplication
  Completes
  NobodyHangs
  FinishedFollowerMayDie
