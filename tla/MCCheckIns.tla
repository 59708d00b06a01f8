----------------------------- MODULE MCCheckIns -----------------------------
(* Instances of CheckIns for TLC.  The first day of u1 may be paid on the    *)
(* chain, all others from the balance; u2 buys levels.                       *)
EXTENDS CheckIns, TLC

CONSTANTS u1, u2, login, mission, streak, p1, g1, g2, c1, c2, b1, b2

MCType == [o \in Definitions |-> IF o = mission THEN "GAME" ELSE "LOGIN"]
MCCadence == [o \in Definitions |-> IF o = mission THEN "EVENT" ELSE "DAILY"]
MCTarget == [o \in Definitions |-> 1]
MCXp == [o \in Missions |-> 1]
MCPol == [r \in Tasks \cup Levels \cup Milestones |-> 1]
MCPlayer == [g \in Games |-> IF g = g2 THEN u2 ELSE u1]
MCShopper == [b \in Buyers |-> u2]
MCPayer == [p \in Payments |-> u1]
MCThreshold == [m \in Milestones |-> 2]
MCSubmits == {<<u1, 1, p>> : p \in Payments}
MCDebits == {<<u1, 1>>, <<u1, 2>>, <<u2, 1>>}
Symmetry == Permutations(Callers) \cup Permutations(Buyers)
=============================================================================
