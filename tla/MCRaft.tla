------------------------------- MODULE MCRaft -------------------------------
(***************************************************************************)
(* Instances of Raft for TLC.  The followers have the ids of config.h.     *)
(***************************************************************************)
EXTENDS Raft
=============================================================================
