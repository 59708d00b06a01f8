--------------------------- MODULE MachinePlaces ---------------------------
(***************************************************************************)
(* What the inventory, the racks and the warehouse promise to a player: a  *)
(* machine is at one place at a time and leaves the game only when the     *)
(* player removes it from the inventory.                                   *)
(***************************************************************************)
CONSTANT Machines

VARIABLE place      \* [Machines -> Places]

Places == {"inventory", "rack", "warehouse", "gone"}

TypeOK == place \in [Machines -> Places]

Init == place \in [Machines -> Places]

\* The machines of S go from one place to another together.
Carry(S, from, to) ==
    /\ S # {}
    /\ \A m \in S : place[m] = from
    /\ place' = [m \in Machines |-> IF m \in S THEN to ELSE place[m]]

Store(S)     == Carry(S, "inventory", "warehouse")
StoreRack(m) == Carry({m}, "rack", "warehouse")
Retrieve(S)  == Carry(S, "warehouse", "inventory")
Uninstall(S) == Carry(S, "rack", "inventory")
Remove(m)    == Carry({m}, "inventory", "gone")

\* Machine m takes the slots of the machines in D, two at the most.
Install(m, D) ==
    /\ place[m] \in {"inventory", "warehouse"}
    /\ \E d1, d2 \in Machines : D \subseteq {d1, d2}
    /\ \A d \in D : place[d] = "rack"
    /\ place' = [n \in Machines |-> CASE n = m   -> "rack"
                                      [] n \in D -> "inventory"
                                      [] OTHER   -> place[n]]

Next ==
    \/ \E S \in SUBSET Machines : Store(S) \/ Retrieve(S) \/ Uninstall(S)
    \/ \E m \in Machines : StoreRack(m) \/ Remove(m)
    \/ \E m \in Machines, D \in SUBSET Machines : Install(m, D)

Spec == Init /\ [][Next]_place
=============================================================================
