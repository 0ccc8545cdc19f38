---------------------------- MODULE MCRaftSetup ----------------------------
(***************************************************************************)
(* The set-up of Raft: the leader connects to one follower after the       *)
(* other.                                                                  *)
(***************************************************************************)
EXTENDS SetupScripts

ASSUME RaftAssumption == IsRaft /\ RaftIsLaunchedInOrder
=============================================================================
