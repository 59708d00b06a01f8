---------------------------- MODULE MCAutoMining ----------------------------
(* Instance of AutoMining for TLC: the time unit is the skew, the delay of a *)
(* click rounds to nothing, and a day holds two claims.                      *)
EXTENDS AutoMining, TLC

MCHashRate == [m \in {"normal", "turbo"} |-> IF m = "turbo" THEN 2 ELSE 1]

CONSTANTS c1, c2
Symmetry == Permutations(Callers) \cup Permutations(Sessions) \cup Permutations(Impressions)
=============================================================================
