-------------------------- MODULE MCMiningBalances --------------------------
(* Instances of MiningBalances for TLC: u2 was referred by u1.              *)
EXTENDS MiningBalances

CONSTANTS u1, u2

MCReferrer == [u \in Users |-> IF u = u2 /\ u1 \in Users THEN u1 ELSE NoUser]
=============================================================================
