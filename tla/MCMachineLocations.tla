------------------------- MODULE MCMachineLocations -------------------------
(* Instances of MachineLocations for TLC: machine c takes two slots, b is   *)
(* moved once.                                                              *)
EXTENDS MachineLocations, TLC

CONSTANTS a, b, c

MCSize == [m \in Machines |-> IF m = c THEN 2 ELSE 1]
MCMaxMoves == [m \in Machines |-> IF m = b THEN 1 ELSE 2]
ClientSymmetry == Permutations(Clients)
=============================================================================
