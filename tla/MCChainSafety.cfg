CONSTANTS
  NbRequests = 5
  Cap = 2
  MaxKills = 2
SPECIFICATION Spec
INVARIANTS
  TypeOK
  Pipeline
  CommittedIsReplicated
  NoCollateralDeath
  ShortfallHasCause
PROPERTIES
  CommitsInOrder
  ImplementsReplication
