---------------------------- MODULE MCChainSetup ----------------------------
\* The set-up of chain replication: head, middle and tail.
EXTENDS SetupScripts

ASSUME ChainAssumption == IsChain /\ ChainIsLaunchedInOrder
=============================================================================
