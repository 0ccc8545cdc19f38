CONSTANTS
  kNodesSize = 2
  NbRequests = 2
  Follower = {1, 2}
  Cap = 1
  MaxKills = 1
SPECIFICATION Spec
INVARIANTS
  ReceiveErrorIsHandled
