------------------------- MODULE MCChainReplication -------------------------
(***************************************************************************)
(* Instances of ChainReplication for TLC: MCChainSafety.cfg and            *)
(* MCChainProgress.cfg give the constants their values.                    *)
(***************************************************************************)
EXTENDS ChainReplication
=============================================================================
