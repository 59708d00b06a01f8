----------------------- MODULE MachineLocationsProofs -----------------------
(***************************************************************************)
(* Theorems about MachineLocations, for any machines, slots, racks and     *)
(* number of overlapping requests.                                         *)
(***************************************************************************)
EXTENDS MachineLocations, TLAPS

LEMMA Constants ==
    /\ \A m \in Machines : Size[m] \in {1, 2}
    /\ \A s \in Slots : s \in Nat /\ s < 80 /\ s \in AllSlots /\ s # NoSlot
    /\ \A r \in Racks : r \in Nat /\ RackSlot(r) \in AllSlots /\ RackSlot(r) # NoSlot
    /\ NoSlot \in AllSlots
    /\ Columns \in Nat /\ \A m \in Machines : MaxMoves[m] \in Nat
BY MachinesAssumption DEF AllSlots, RackSlot, NoSlot

LEMMA RowType ==
    ASSUME NEW x \in Rows
    PROVE  /\ x.m \in Machines /\ x.id \in Nat /\ x.om \in Nat /\ x.slot \in AllSlots
           /\ x = [m |-> x.m, id |-> x.id, om |-> x.om, slot |-> x.slot]
BY DEF Rows

\* Two rows with the same reference are of the same machine.
LEMMA RefIs ==
    ASSUME NEW x, NEW y
    PROVE  Ref(x) = Ref(y) <=> (x.m = y.m /\ x.id = y.id)
BY DEF Ref

\* The owned rows of one machine after it moved.
LEMMA SeqFacts ==
    ASSUME NEW s \in Seq(Locations), NEW l \in Locations
    PROVE  /\ Append(s, l) \in Seq(Locations) /\ Len(Append(s, l)) = Len(s) + 1
           /\ Append(s, l)[Len(s) + 1] = l
           /\ \A k \in 1 .. Len(s) :
                 /\ [s EXCEPT ![k] = l] \in Seq(Locations)
                 /\ Len([s EXCEPT ![k] = l]) = Len(s)
                 /\ [s EXCEPT ![k] = l][k] = l
<1>1. /\ Append(s, l) \in Seq(Locations) /\ Len(Append(s, l)) = Len(s) + 1
      /\ Append(s, l)[Len(s) + 1] = l
  OBVIOUS
<1>2. ASSUME NEW k \in 1 .. Len(s)
      PROVE  /\ [s EXCEPT ![k] = l] \in Seq(Locations)
             /\ Len([s EXCEPT ![k] = l]) = Len(s)
             /\ [s EXCEPT ![k] = l][k] = l
  <2>1. s \in [1 .. Len(s) -> Locations]
    OBVIOUS
  <2>2. [s EXCEPT ![k] = l] \in [1 .. Len(s) -> Locations]
    BY <2>1
  <2>3. [s EXCEPT ![k] = l] \in Seq(Locations)
    BY <2>2
  <2> QED BY <2>1, <2>2, <2>3
<1> QED BY <1>1, <1>2

-----------------------------------------------------------------------------
(* The invariant of the tables.                                            *)

RowsTyped ==
    /\ inv \subseteq Rows /\ miners \subseteq Rows /\ vault \subseteq Rows
    /\ \A x \in inv \cup vault : x.slot = NoSlot
    /\ \A x, y \in miners : x.slot # NoSlot /\ (x.slot = y.slot => x = y)
    /\ owned \in [Machines -> Seq(Locations)]
    /\ ids \in [Machines -> Nat]

\* A row has the last id of its machine, and its owned row exists.
RowsCurrent ==
    \A x \in AllRows : x.id = ids[x.m] /\ x.om \in 0 .. Len(owned[x.m])

TablesInv == RowsTyped /\ RowsCurrent /\ OneRowPerMachine /\ OwnedLocationAgrees

\* A transaction moves rows S, and displaces rows D, of different machines.
MovesRows(S, D, l) ==
    /\ S \subseteq Rows /\ D \subseteq Rows /\ l \in Locations
    /\ Moved(S, D, l)
    /\ \A x \in S : x.om \in 0 .. Len(owned[x.m])
    /\ \A x, y \in S : x.m = y.m => x = y
    /\ \A x \in S, y \in D : x.m # y.m

\* What becomes of ids and owned rows.
OthersStay(S, D) ==
    \A m \in Machines :
        /\ ids'[m] >= ids[m]
        /\ (\A x \in S \cup D : x.m # m) => ids'[m] = ids[m] /\ owned'[m] = owned[m]
        /\ (\E x \in S \cup D : x.m = m) => ids'[m] = ids[m] + 1

\* What the new rows of S and of D are.
KeptArrive(S, l) ==
    \A x \in S, s \in AllSlots :
        /\ Kept(x, s) \in Rows /\ Kept(x, s).m = x.m /\ Kept(x, s).slot = s
        /\ Kept(x, s).id = ids'[x.m]
        /\ Kept(x, s).om \in 1 .. Len(owned'[x.m])
        /\ owned'[x.m][Kept(x, s).om] = l

DisplacedArrive(S, D) ==
    \A y \in Displaced(D) :
        /\ y \in Rows /\ y.slot = NoSlot /\ y.id = ids'[y.m]
        /\ y.om \in 1 .. Len(owned'[y.m]) /\ owned'[y.m][y.om] = "INVENTORY"
        /\ \E x \in D : x.m = y.m
        /\ \A x \in S : x.m # y.m
        /\ \A z \in Displaced(D) : y.m = z.m => y = z

LEMMA MovedEffect ==
    ASSUME RowsTyped, NEW S, NEW D, NEW l, MovesRows(S, D, l)
    PROVE  /\ ids' \in [Machines -> Nat] /\ owned' \in [Machines -> Seq(Locations)]
           /\ OthersStay(S, D) /\ KeptArrive(S, l) /\ DisplacedArrive(S, D)
<1> USE Constants
<1>0. /\ S \subseteq Rows /\ D \subseteq Rows /\ l \in Locations
      /\ Moved(S, D, l)
      /\ \A x \in S : x.om \in 0 .. Len(owned[x.m])
      /\ \A x, y \in S : x.m = y.m => x = y
      /\ \A x \in S, y \in D : x.m # y.m
  BY DEF MovesRows
<1>1. /\ ids \in [Machines -> Nat] /\ owned \in [Machines -> Seq(Locations)]
      /\ \A x \in S \cup D : x.m \in Machines /\ x.om \in Nat
  BY <1>0, RowType DEF RowsTyped
<1>2. ids' \in [Machines -> Nat] /\ OthersStay(S, D)
  BY <1>0, <1>1 DEF Moved, OthersStay
<1>3. ASSUME NEW x \in S
      PROVE  /\ owned'[x.m] \in Seq(Locations)
             /\ Ensured(x) \in 1 .. Len(owned'[x.m]) /\ owned'[x.m][Ensured(x)] = l
  <2>1. x = CHOOSE y \in S : y.m = x.m
    BY <1>0
  <2>2. owned'[x.m] = Synced(x, l)
    BY <1>0, <1>1, <2>1 DEF Moved
  <2>3. owned[x.m] \in Seq(Locations) /\ x.om \in 0 .. Len(owned[x.m])
    BY <1>0, <1>1
  <2>4. CASE x.om = 0
    BY <1>0, <2>2, <2>3, <2>4, SeqFacts DEF Synced, Ensured
  <2>5. CASE x.om # 0
    BY <1>0, <2>2, <2>3, <2>5, SeqFacts DEF Synced, Ensured
  <2> QED BY <2>4, <2>5
<1>4. ASSUME NEW d \in D
      PROVE  /\ owned'[d.m] \in Seq(Locations)
             /\ Len(owned[d.m]) + 1 \in 1 .. Len(owned'[d.m])
             /\ owned'[d.m][Len(owned[d.m]) + 1] = "INVENTORY"
  <2>1. owned'[d.m] = Append(owned[d.m], "INVENTORY")
    BY <1>0, <1>1 DEF Moved
  <2> QED BY <1>1, <2>1, SeqFacts DEF Locations
<1>5. owned' \in [Machines -> Seq(Locations)]
  <2>1. DOMAIN owned' = Machines /\ owned' = [m \in Machines |-> owned'[m]]
    BY <1>0 DEF Moved
  <2>2. \A m \in Machines : owned'[m] \in Seq(Locations)
    BY <1>1, <1>2, <1>3, <1>4 DEF OthersStay
  <2> QED BY <2>1, <2>2
<1>6. KeptArrive(S, l)
  <2> SUFFICES ASSUME NEW x \in S, NEW s \in AllSlots
               PROVE  /\ Kept(x, s) \in Rows /\ Kept(x, s).m = x.m /\ Kept(x, s).slot = s
                      /\ Kept(x, s).id = ids'[x.m]
                      /\ Kept(x, s).om \in 1 .. Len(owned'[x.m])
                      /\ owned'[x.m][Kept(x, s).om] = l
    BY DEF KeptArrive
  <2>1. ids'[x.m] = ids[x.m] + 1 /\ ids'[x.m] \in Nat
    BY <1>1, <1>2 DEF OthersStay
  <2>2. Ensured(x) \in Nat /\ Ensured(x) \in 1 .. Len(owned'[x.m])
    BY <1>3
  <2>3. Kept(x, s) = [m |-> x.m, id |-> ids'[x.m], om |-> Ensured(x), slot |-> s]
    BY <2>1 DEF Kept, Row
  <2> QED BY <1>1, <1>3, <2>1, <2>2, <2>3 DEF Rows
<1>7. DisplacedArrive(S, D)
  <2> SUFFICES ASSUME NEW y \in Displaced(D)
               PROVE  /\ y \in Rows /\ y.slot = NoSlot /\ y.id = ids'[y.m]
                      /\ y.om \in 1 .. Len(owned'[y.m]) /\ owned'[y.m][y.om] = "INVENTORY"
                      /\ \E x \in D : x.m = y.m
                      /\ \A x \in S : x.m # y.m
                      /\ \A z \in Displaced(D) : y.m = z.m => y = z
    BY DEF DisplacedArrive
  <2>1. PICK d \in D : y = Row(d, Len(owned[d.m]) + 1, NoSlot)
    BY DEF Displaced
  <2>2. ids'[d.m] = ids[d.m] + 1 /\ ids'[d.m] \in Nat
    BY <1>1, <1>2 DEF OthersStay
  <2>3. y = [m |-> d.m, id |-> ids'[d.m], om |-> Len(owned[d.m]) + 1, slot |-> NoSlot]
    BY <2>1, <2>2 DEF Row
  <2>4. d.m \in Machines /\ Len(owned[d.m]) + 1 \in Nat
    BY <1>1
  <2>5. \A z \in Displaced(D) : y.m = z.m => y = z
    BY <2>1 DEF Displaced, Row
  <2> QED BY <1>0, <1>4, <2>2, <2>3, <2>4, <2>5 DEF Rows
<1> QED BY <1>2, <1>5, <1>6, <1>7

\* How the transaction changes the tables: rows of S and D go, and the new ones come; a
\* row of miners may also get another slot.
ChangesTables(S, D, l) ==
    /\ \A y \in inv' : \/ y \in inv /\ \A x \in S \cup D : x.m # y.m
                       \/ l = "INVENTORY" /\ \E x \in S : y = Kept(x, NoSlot)
                       \/ y \in Displaced(D)
    /\ \A y \in vault' : \/ y \in vault /\ \A x \in S \cup D : x.m # y.m
                         \/ l = "WAREHOUSE" /\ \E x \in S : y = Kept(x, NoSlot)
    /\ miners' \subseteq Rows
    /\ \A y \in miners' :
          \/ /\ \A x \in S \cup D : x.m # y.m
             /\ \E z \in miners : z.m = y.m /\ z.id = y.id /\ z.om = y.om
          \/ l = "RACK" /\ \E x \in S, s \in AllSlots : y = Kept(x, s)
    /\ \A x, y \in miners' : /\ x.slot # NoSlot /\ (x.slot = y.slot => x = y)
                             /\ x.m = y.m => x = y

\* Then the tables are in order after it.
LEMMA TablesAfterMove ==
    ASSUME TablesInv, NEW S, NEW D, NEW l, MovesRows(S, D, l), ChangesTables(S, D, l)
    PROVE  TablesInv'
<1> DEFINE At(y, where) == y.om # 0 => owned'[y.m][y.om] = where
<1> USE Constants
<1>0. RowsTyped
  BY DEF TablesInv
<1>1. /\ ids' \in [Machines -> Nat] /\ owned' \in [Machines -> Seq(Locations)]
      /\ OthersStay(S, D) /\ KeptArrive(S, l) /\ DisplacedArrive(S, D)
  BY <1>0, MovedEffect
\* What is in each table after the step.
<1>2. ASSUME NEW y \in inv'
      PROVE  /\ y \in Rows /\ y.slot = NoSlot /\ y.id = ids'[y.m]
             /\ y.om \in 0 .. Len(owned'[y.m]) /\ At(y, "INVENTORY")
  <2>1. CASE y \in inv /\ \A x \in S \cup D : x.m # y.m
    <3>1. y.m \in Machines /\ y \in Rows
      BY <1>0, <2>1, RowType DEF RowsTyped
    <3>2. ids'[y.m] = ids[y.m] /\ owned'[y.m] = owned[y.m]
      BY <1>1, <2>1, <3>1 DEF OthersStay
    <3> QED BY <2>1, <3>1, <3>2 DEF TablesInv, RowsTyped, RowsCurrent, AllRows, OwnedLocationAgrees
  <2>2. CASE l = "INVENTORY" /\ \E x \in S : y = Kept(x, NoSlot)
    BY <1>1, <2>2 DEF KeptArrive
  <2>3. CASE y \in Displaced(D)
    BY <1>1, <2>3 DEF DisplacedArrive
  <2> QED BY <1>2, <2>1, <2>2, <2>3 DEF ChangesTables
<1>3. ASSUME NEW y \in vault'
      PROVE  /\ y \in Rows /\ y.slot = NoSlot /\ y.id = ids'[y.m]
             /\ y.om \in 0 .. Len(owned'[y.m]) /\ At(y, "WAREHOUSE")
  <2>1. CASE y \in vault /\ \A x \in S \cup D : x.m # y.m
    <3>1. y.m \in Machines /\ y \in Rows
      BY <1>0, <2>1, RowType DEF RowsTyped
    <3>2. ids'[y.m] = ids[y.m] /\ owned'[y.m] = owned[y.m]
      BY <1>1, <2>1, <3>1 DEF OthersStay
    <3> QED BY <2>1, <3>1, <3>2 DEF TablesInv, RowsTyped, RowsCurrent, AllRows, OwnedLocationAgrees
  <2>2. CASE l = "WAREHOUSE" /\ \E x \in S : y = Kept(x, NoSlot)
    BY <1>1, <2>2 DEF KeptArrive
  <2> QED BY <1>3, <2>1, <2>2 DEF ChangesTables
<1>4. ASSUME NEW y \in miners'
      PROVE  /\ y \in Rows /\ y.id = ids'[y.m]
             /\ y.om \in 0 .. Len(owned'[y.m]) /\ At(y, "RACK")
  <2>1. CASE /\ \A x \in S \cup D : x.m # y.m
             /\ \E z \in miners : z.m = y.m /\ z.id = y.id /\ z.om = y.om
    <3>1. PICK z \in miners : z.m = y.m /\ z.id = y.id /\ z.om = y.om
      BY <2>1
    <3>2. y.m \in Machines /\ y \in Rows
      BY <1>4, RowType DEF ChangesTables
    <3>3. ids'[y.m] = ids[y.m] /\ owned'[y.m] = owned[y.m]
      BY <1>1, <2>1, <3>2 DEF OthersStay
    <3> QED BY <3>1, <3>2, <3>3 DEF TablesInv, RowsTyped, RowsCurrent, AllRows, OwnedLocationAgrees
  <2>2. CASE l = "RACK" /\ \E x \in S, s \in AllSlots : y = Kept(x, s)
    BY <1>1, <2>2 DEF KeptArrive
  <2> QED BY <1>4, <2>1, <2>2 DEF ChangesTables
<1>5. RowsTyped'
  BY <1>1, <1>2, <1>3, <1>4 DEF RowsTyped, ChangesTables
<1>6. RowsCurrent' /\ OwnedLocationAgrees'
  BY <1>2, <1>3, <1>4 DEF RowsCurrent, OwnedLocationAgrees, AllRows
\* No machine is in two of them, nor twice in one.
<1>7. /\ \A x \in S : \A y \in D : x.m # y.m
      /\ \A x, y \in S : x.m = y.m => x = y
      /\ \A x \in S : Kept(x, NoSlot).m = x.m /\ \A s \in AllSlots : Kept(x, s).m = x.m
  BY <1>1 DEF MovesRows, KeptArrive
<1>8. /\ \A x, y \in AllRows : x.m = y.m => x = y
      /\ inv \cap vault = {} /\ (inv \cup vault) \cap miners = {}
  BY DEF TablesInv, OneRowPerMachine
<1>9. \A y \in Displaced(D) :
          /\ \E x \in D : x.m = y.m
          /\ \A x \in S : x.m # y.m
          /\ \A z \in Displaced(D) : y.m = z.m => y = z
  BY <1>1 DEF DisplacedArrive
<1>10. \A x \in inv', y \in vault' : x.m # y.m
  BY <1>7, <1>8, <1>9 DEF ChangesTables, AllRows
<1>11. \A x \in inv', y \in miners' : x.m # y.m
  BY <1>7, <1>8, <1>9 DEF ChangesTables, AllRows
<1>12. \A x \in vault', y \in miners' : x.m # y.m
  BY <1>7, <1>8, <1>9 DEF ChangesTables, AllRows
<1>13. \A x, y \in inv' : x.m = y.m => x = y
  BY <1>7, <1>8, <1>9 DEF ChangesTables, AllRows
<1>14. \A x, y \in vault' : x.m = y.m => x = y
  BY <1>7, <1>8, <1>9 DEF ChangesTables, AllRows
<1>15. \A x, y \in miners' : x.m = y.m => x = y
  BY DEF ChangesTables
<1>16. OneRowPerMachine'
  BY <1>10, <1>11, <1>12, <1>13, <1>14, <1>15 DEF OneRowPerMachine, AllRows
<1> QED BY <1>5, <1>6, <1>16 DEF TablesInv

-----------------------------------------------------------------------------
(* The invariant of the racks and of the requests in flight.               *)

PointsInto(ref, T) == ref = NoRef \/ \E x \in T : ref = Ref(x)

RackRow == [miner : Refs, blocked : Refs]

RacksInv ==
    /\ rack \in [Racks -> RackRow]
    /\ \A r \in Racks : PointsInto(rack[r].miner, miners) /\ PointsInto(rack[r].blocked, miners)

CallRow == [op : {"none", "remove", "move", "install", "uninstall"}, row : Rows,
            rack : Racks \cup {0}, slot : AllSlots, seen : SUBSET Rows]

\* What a request read of its machine's owned row is true as long as the row is there: a
\* row that comes back has a new id.
CallsInv ==
    /\ call \in [Clients -> CallRow]
    /\ \A c \in Clients : call[c].op # "none" =>
          /\ call[c].row.id <= ids[call[c].row.m]
          /\ \A y \in AllRows : Ref(y) = Ref(call[c].row) => y.om = call[c].row.om
    /\ \A c \in Clients : call[c].op = "move" =>
          call[c].slot \in Slots /\ \A y \in call[c].seen : y.m # call[c].row.m
    /\ \A c \in Clients : call[c].op \in {"install", "uninstall"} => call[c].rack \in Racks

MachinesInv == TablesInv /\ RacksInv /\ CallsInv

LEMMA IdleType == Idle \in CallRow /\ Idle.op = "none"
<1>1. (CHOOSE m \in Machines : TRUE) \in Machines
  BY MachinesAssumption
<1> QED BY <1>1, Constants DEF Idle, NoRow, CallRow, Rows

LEMMA PresentRows ==
    ASSUME TablesInv
    PROVE  /\ \A x \in AllRows : x \in Rows /\ x.m \in Machines /\ x.om \in 0 .. Len(owned[x.m])
           /\ \A x, y \in AllRows : x.m = y.m => x = y
           /\ inv \subseteq AllRows /\ miners \subseteq AllRows /\ vault \subseteq AllRows
           /\ \A x \in inv, y \in vault : x.m # y.m
           /\ \A x \in inv, y \in miners : x.m # y.m
           /\ \A x \in vault, y \in miners : x.m # y.m
BY RowType DEF TablesInv, RowsTyped, RowsCurrent, OneRowPerMachine, AllRows

LEMMA CallsAfterMove ==
    ASSUME MachinesInv, NEW S, NEW D, NEW l, MovesRows(S, D, l), ChangesTables(S, D, l),
           call' = call \/ \E c \in Clients : End(c)
    PROVE  CallsInv'
<1>1. OthersStay(S, D) /\ KeptArrive(S, l) /\ DisplacedArrive(S, D)
  BY MovedEffect DEF MachinesInv, TablesInv
<1>2. call' \in [Clients -> CallRow] /\ \A c \in Clients : call'[c] = call[c] \/ call'[c] = Idle
  BY IdleType DEF MachinesInv, CallsInv, End
<1>3. ASSUME NEW y \in AllRows'
      PROVE  \/ \E z \in AllRows : z.m = y.m /\ z.id = y.id /\ z.om = y.om
             \/ \E x \in S \cup D : x.m = y.m /\ y.id = ids'[y.m]
  <2>1. CASE y \in inv'
    BY <1>1, <2>1, Constants DEF ChangesTables, KeptArrive, DisplacedArrive, AllRows
  <2>2. CASE y \in vault'
    BY <1>1, <2>2, Constants DEF ChangesTables, KeptArrive, DisplacedArrive, AllRows
  <2>3. CASE y \in miners'
    BY <1>1, <2>3 DEF ChangesTables, KeptArrive, AllRows
  <2> QED BY <1>3, <2>1, <2>2, <2>3 DEF AllRows
<1>4. ASSUME NEW c \in Clients, call'[c].op # "none"
      PROVE  /\ call'[c].row.id <= ids'[call'[c].row.m]
             /\ \A y \in AllRows' : Ref(y) = Ref(call'[c].row) => y.om = call'[c].row.om
  <2> DEFINE w == call[c].row
  <2>1. call'[c] = call[c] /\ call[c].op # "none"
    BY <1>2, <1>4, IdleType
  <2>2. w \in Rows /\ w.m \in Machines /\ w.id \in Nat
    BY RowType DEF MachinesInv, CallsInv, CallRow
  <2>3. w.id <= ids[w.m] /\ \A y \in AllRows : Ref(y) = Ref(w) => y.om = w.om
    BY <2>1 DEF MachinesInv, CallsInv
  <2>4. ids[w.m] \in Nat /\ ids'[w.m] \in Nat
    BY <2>2, MovedEffect DEF MachinesInv, TablesInv, RowsTyped
  <2>5. ids'[w.m] >= ids[w.m]
    BY <1>1, <2>2 DEF OthersStay
  <2>6. ASSUME NEW y \in AllRows', Ref(y) = Ref(w)
        PROVE  y.om = w.om
    <3>1. y.m = w.m /\ y.id = w.id
      BY <2>6, RefIs
    <3>2. CASE \E z \in AllRows : z.m = y.m /\ z.id = y.id /\ z.om = y.om
      BY <2>3, <3>1, <3>2, RefIs
    <3>3. CASE \E x \in S \cup D : x.m = y.m /\ y.id = ids'[y.m]
      <4>1. ids'[w.m] = ids[w.m] + 1
        BY <1>1, <2>2, <3>1, <3>3 DEF OthersStay
      <4> QED BY <2>2, <2>3, <2>4, <3>1, <3>3, <4>1
    <3> QED BY <1>3, <3>2, <3>3
  <2> QED BY <2>1, <2>2, <2>3, <2>4, <2>5, <2>6
<1>5. \A c \in Clients : call'[c].op = "move" =>
         call'[c].slot \in Slots /\ \A y \in call'[c].seen : y.m # call'[c].row.m
  BY <1>2, IdleType DEF MachinesInv, CallsInv
<1>6. \A c \in Clients : call'[c].op \in {"install", "uninstall"} => call'[c].rack \in Racks
  BY <1>2, IdleType DEF MachinesInv, CallsInv
<1> QED BY <1>2, <1>4, <1>5, <1>6 DEF CallsInv

\* A rack keeps its references when no machine but those of D left.
LEMMA ReleasedPoints ==
    ASSUME RacksInv, NEW D,
           \A z \in miners : (\A d \in D : Ref(d) # Ref(z)) => \E y \in miners' : Ref(y) = Ref(z)
    PROVE  /\ Released(D) \in [Racks -> RackRow]
           /\ \A r \in Racks : /\ PointsInto(Released(D)[r].miner, miners')
                               /\ PointsInto(Released(D)[r].blocked, miners')
<1> DEFINE gone == {Ref(x) : x \in D}
<1>1. \A r \in Racks : /\ rack[r].miner \in Refs /\ rack[r].blocked \in Refs
                       /\ PointsInto(rack[r].miner, miners) /\ PointsInto(rack[r].blocked, miners)
  BY DEF RacksInv, RackRow
<1>2. ASSUME NEW r \in Racks
      PROVE  /\ Released(D)[r].miner = IF rack[r].miner \in gone THEN NoRef ELSE rack[r].miner
             /\ Released(D)[r].blocked = IF rack[r].blocked \in gone THEN NoRef
                                           ELSE rack[r].blocked
             /\ Released(D)[r] = [miner   |-> Released(D)[r].miner,
                                  blocked |-> Released(D)[r].blocked]
  BY DEF Released
<1>3. NoRef \in Refs
  BY DEF Refs
<1>4. Released(D) = [r \in Racks |-> Released(D)[r]]
  BY DEF Released
<1>5. ASSUME NEW r \in Racks PROVE Released(D)[r] \in RackRow
  <2>1. Released(D)[r].miner \in Refs /\ Released(D)[r].blocked \in Refs
    BY <1>1, <1>2, <1>3
  <2> HIDE DEF gone
  <2>2. \A a, b \in Refs : [miner |-> a, blocked |-> b] \in RackRow
    BY DEF RackRow
  <2> QED BY <1>2, <2>1, <2>2
<1>6. \A ref : (PointsInto(ref, miners) /\ ref \notin gone) => PointsInto(ref, miners')
  BY DEF PointsInto
<1>7. PointsInto(NoRef, miners')
  BY DEF PointsInto
<1> QED BY <1>1, <1>2, <1>4, <1>5, <1>6, <1>7

\* One step of one transaction.
LEMMA MoveInv ==
    ASSUME MachinesInv, NEW S, NEW D, NEW l, MovesRows(S, D, l), ChangesTables(S, D, l),
           call' = call \/ \E c \in Clients : End(c), RacksInv'
    PROVE  MachinesInv'
BY TablesAfterMove, CallsAfterMove DEF MachinesInv

-----------------------------------------------------------------------------
(* The operations.                                                         *)

LEMMA MoveToVaultInv ==
    ASSUME MachinesInv, NEW S \in SUBSET inv, MoveToVault(S)
    PROVE  MachinesInv'
<1>1. TablesInv /\ S \subseteq inv
  BY DEF MachinesInv
<1>2. MovesRows(S, {}, "WAREHOUSE")
  BY <1>1, PresentRows DEF MoveToVault, MovesRows, Locations
<1>3. ChangesTables(S, {}, "WAREHOUSE")
  BY <1>1, PresentRows DEF MoveToVault, ChangesTables, TablesInv, RowsTyped
<1>4. RacksInv'
  BY DEF MoveToVault, MachinesInv, RacksInv
<1> QED BY <1>2, <1>3, <1>4, MoveInv DEF MoveToVault

LEMMA RetrieveToInventoryInv ==
    ASSUME MachinesInv, NEW S \in SUBSET vault, RetrieveToInventory(S)
    PROVE  MachinesInv'
<1>1. TablesInv /\ S \subseteq vault
  BY DEF MachinesInv
<1>2. MovesRows(S, {}, "INVENTORY")
  BY <1>1, PresentRows DEF RetrieveToInventory, MovesRows, Locations
<1>3. ChangesTables(S, {}, "INVENTORY")
  BY <1>1, PresentRows DEF RetrieveToInventory, ChangesTables, TablesInv, RowsTyped
<1>4. RacksInv'
  BY DEF RetrieveToInventory, MachinesInv, RacksInv
<1> QED BY <1>2, <1>3, <1>4, MoveInv DEF RetrieveToInventory

LEMMA MoveRackToVaultInv ==
    ASSUME MachinesInv, NEW x \in miners, MoveRackToVault(x)
    PROVE  MachinesInv'
<1>1. TablesInv
  BY DEF MachinesInv
<1>2. MovesRows({x}, {}, "WAREHOUSE")
  BY <1>1, PresentRows DEF MoveRackToVault, MovesRows, Locations
<1>3. ChangesTables({x}, {}, "WAREHOUSE")
  BY <1>1, PresentRows DEF MoveRackToVault, ChangesTables, TablesInv, RowsTyped
<1>4. RacksInv'
  <2>1. \A z \in miners : (\A d \in {x} : Ref(d) # Ref(z)) => \E y \in miners' : Ref(y) = Ref(z)
    BY DEF MoveRackToVault
  <2> QED BY <2>1, ReleasedPoints DEF MoveRackToVault, MachinesInv, RacksInv
<1> QED BY <1>2, <1>3, <1>4, MoveInv DEF MoveRackToVault

\* Machine x comes from another table to slot s, which the machines of D leave.
SlotTaken(x, D, s) ==
    /\ x \in AllRows \ miners /\ x.m \in Machines
    /\ D \subseteq miners /\ \A y \in miners \ D : y.slot # s
    /\ s \in AllSlots /\ s # NoSlot
    /\ Moved({x}, D, "RACK")
    /\ miners' = (miners \ D) \cup {Kept(x, s)}
    /\ inv' = (inv \ {x}) \cup Displaced(D) /\ vault' = vault \ {x}

LEMMA IntoSlot ==
    ASSUME MachinesInv, NEW x, NEW D, NEW s, SlotTaken(x, D, s)
    PROVE  MovesRows({x}, D, "RACK") /\ ChangesTables({x}, D, "RACK")
<1>0. /\ x \in AllRows \ miners /\ x.m \in Machines
      /\ D \subseteq miners /\ \A y \in miners \ D : y.slot # s
      /\ s \in AllSlots /\ s # NoSlot
      /\ Moved({x}, D, "RACK")
      /\ miners' = (miners \ D) \cup {Kept(x, s)}
      /\ inv' = (inv \ {x}) \cup Displaced(D) /\ vault' = vault \ {x}
  BY DEF SlotTaken
<1>1. TablesInv /\ RowsTyped
  BY DEF MachinesInv, TablesInv
<1>2. \A y \in miners : y.m # x.m
  BY <1>0, <1>1, PresentRows
<1>3. MovesRows({x}, D, "RACK")
  BY <1>0, <1>1, <1>2, PresentRows DEF MovesRows, Locations
<1>4. KeptArrive({x}, "RACK")
  BY <1>1, <1>3, MovedEffect
<1>5. Kept(x, s) \in Rows /\ Kept(x, s).m = x.m /\ Kept(x, s).slot = s
  BY <1>0, <1>4 DEF KeptArrive
<1>6. \A y \in miners' : y \in miners \ D \/ y = Kept(x, s)
  BY <1>0
<1>7. \A y \in inv' : \/ y \in inv /\ \A z \in {x} \cup D : z.m # y.m
                      \/ y \in Displaced(D)
  BY <1>0, <1>1, PresentRows
<1>8. \A y \in vault' : y \in vault /\ \A z \in {x} \cup D : z.m # y.m
  BY <1>0, <1>1, PresentRows
<1>9. \A y \in miners \ D : \A z \in {x} \cup D : z.m # y.m
  BY <1>0, <1>1, <1>2, PresentRows
<1>10. \A y, z \in miners' : /\ y.slot # NoSlot /\ (y.slot = z.slot => y = z)
                             /\ y.m = z.m => y = z
  BY <1>0, <1>1, <1>2, <1>5, <1>6, PresentRows DEF RowsTyped
<1>11. miners' \subseteq Rows
  BY <1>1, <1>5, <1>6 DEF RowsTyped
<1>12. \A y \in miners' :
          \/ /\ \A z \in {x} \cup D : z.m # y.m
             /\ \E z \in miners : z.m = y.m /\ z.id = y.id /\ z.om = y.om
          \/ \E z \in {x}, t \in AllSlots : y = Kept(z, t)
  BY <1>0, <1>6, <1>9
<1>13. ChangesTables({x}, D, "RACK")
  BY <1>7, <1>8, <1>10, <1>11, <1>12 DEF ChangesTables
<1> QED BY <1>3, <1>13

LEMMA RetrieveToRackSlot ==
    ASSUME MachinesInv, NEW x \in vault, NEW s \in Slots, RetrieveToRack(x, s)
    PROVE  SlotTaken(x, Starting(x.m, s), s)
<1>1. x \in AllRows /\ x.m \in Machines /\ x \notin miners /\ x \notin inv
  BY PresentRows DEF MachinesInv
<1>2. s \in Span(x.m, s) /\ s \in AllSlots /\ s # NoSlot
  BY <1>1, Constants DEF Span
<1>3. \A y \in miners \ Starting(x.m, s) : y.slot # s
  BY <1>2 DEF Starting
<1>4. inv' = (inv \ {x}) \cup Displaced(Starting(x.m, s))
  BY <1>1 DEF RetrieveToRack
<1> QED BY <1>1, <1>2, <1>3, <1>4 DEF RetrieveToRack, SlotTaken, Starting

LEMMA InstallItemSlot ==
    ASSUME MachinesInv, NEW x \in inv, NEW s \in Slots, InstallInventoryItem(x, s)
    PROVE  SlotTaken(x, Starting(x.m, s) \cup Before(s), s)
<1> DEFINE D == Starting(x.m, s) \cup Before(s)
<1>1. x \in AllRows /\ x.m \in Machines /\ x \notin miners /\ x \notin vault
  BY PresentRows DEF MachinesInv
<1>2. s \in Span(x.m, s) /\ s \in AllSlots /\ s # NoSlot
  BY <1>1, Constants DEF Span
<1>3. D \subseteq miners /\ \A y \in miners \ D : y.slot # s
  BY <1>2 DEF Starting, Before
<1>4. vault' = vault \ {x}
  BY <1>1 DEF InstallInventoryItem
<1> QED BY <1>1, <1>2, <1>3, <1>4 DEF InstallInventoryItem, SlotTaken

LEMMA SlotInv ==
    ASSUME MachinesInv, NEW x, NEW D, NEW s, SlotTaken(x, D, s),
           rack' = Released(D), call' = call
    PROVE  MachinesInv'
<1>1. \A z \in miners : (\A d \in D : Ref(d) # Ref(z)) => \E y \in miners' : Ref(y) = Ref(z)
  BY DEF SlotTaken
<1>2. RacksInv'
  BY <1>1, ReleasedPoints DEF MachinesInv, RacksInv
<1> QED BY <1>2, IntoSlot, MoveInv

LEMMA IntoSlotInv ==
    ASSUME MachinesInv, NEW s \in Slots,
           \/ \E x \in vault : RetrieveToRack(x, s)
           \/ \E x \in inv : InstallInventoryItem(x, s)
    PROVE  MachinesInv'
<1>1. ASSUME NEW x \in vault, RetrieveToRack(x, s) PROVE MachinesInv'
  BY <1>1, RetrieveToRackSlot, SlotInv DEF RetrieveToRack
<1>2. ASSUME NEW x \in inv, InstallInventoryItem(x, s) PROVE MachinesInv'
  BY <1>2, InstallItemSlot, SlotInv DEF InstallInventoryItem
<1> QED BY <1>1, <1>2

LEMMA RemoveInventoryItemInv ==
    ASSUME MachinesInv, NEW x \in inv, RemoveInventoryItem(x)
    PROVE  MachinesInv'
<1>1. /\ TablesInv /\ RowsTyped /\ x \in AllRows /\ x \in Rows /\ x.m \in Machines
      /\ x.om \in 0 .. Len(owned[x.m]) /\ owned[x.m] \in Seq(Locations)
  BY PresentRows DEF MachinesInv, TablesInv, RowsTyped
<1>2. inv' = inv \ {x} /\ miners' = miners /\ vault' = vault /\ ids' = ids /\ UNCHANGED <<rack, call>>
  BY DEF RemoveInventoryItem
<1>3. /\ owned' \in [Machines -> Seq(Locations)]
      /\ \A m \in Machines : m # x.m => owned'[m] = owned[m]
  <2>1. CASE x.om = 0
    BY <1>1, <2>1 DEF RemoveInventoryItem, RowsTyped
  <2>2. CASE x.om # 0
    <3> DEFINE s == [owned[x.m] EXCEPT ![x.om] = "deleted"]
    <3>1. s \in Seq(Locations)
      BY <1>1, <2>2, SeqFacts DEF Locations
    <3>2. owned' = [owned EXCEPT ![x.m] = s]
      BY <2>2 DEF RemoveInventoryItem
    <3> HIDE DEF s
    <3> QED BY <1>1, <3>1, <3>2 DEF RowsTyped
  <2> QED BY <2>1, <2>2
<1>4. \A y \in AllRows' : y \in AllRows /\ y.m # x.m /\ y.m \in Machines
  BY <1>1, <1>2, PresentRows DEF AllRows
<1>5. RowsTyped'
  BY <1>1, <1>2, <1>3 DEF RowsTyped
<1>6. RowsCurrent' /\ OwnedLocationAgrees'
  BY <1>1, <1>2, <1>3, <1>4 DEF TablesInv, RowsCurrent, OwnedLocationAgrees, AllRows
<1>7. OneRowPerMachine'
  BY <1>1, <1>2 DEF TablesInv, OneRowPerMachine, AllRows
<1>8. RacksInv' /\ CallsInv'
  BY <1>2, <1>4 DEF MachinesInv, RacksInv, CallsInv
<1> QED BY <1>5, <1>6, <1>7, <1>8 DEF MachinesInv, TablesInv

\* A request begins, having read a row that is there.
LEMMA BeginInv ==
    ASSUME MachinesInv, NEW c \in Clients, NEW h \in CallRow, Begin(c, h),
           h.row \in AllRows,
           h.op = "move" => h.slot \in Slots /\ \A y \in h.seen : y.m # h.row.m,
           h.op \in {"install", "uninstall"} => h.rack \in Racks
    PROVE  MachinesInv'
<1>1. UNCHANGED <<inv, miners, vault, owned, ids, rack>>
  BY DEF Begin, tables
<1>2. TablesInv' /\ RacksInv'
  BY <1>1 DEF MachinesInv, TablesInv, RowsTyped, RowsCurrent, OneRowPerMachine, AllRows,
     OwnedLocationAgrees, RacksInv
<1>3. call' \in [Clients -> CallRow] /\ \A d \in Clients : call'[d] = IF d = c THEN h ELSE call[d]
  BY DEF Begin, MachinesInv, CallsInv
<1>4. h.row.id <= ids[h.row.m] /\ \A y \in AllRows : Ref(y) = Ref(h.row) => y.om = h.row.om
  <2>1. h.row.id = ids[h.row.m] /\ h.row.id \in Nat /\ TablesInv
    BY RowType DEF MachinesInv, TablesInv, RowsCurrent, CallRow
  <2> QED BY <2>1, PresentRows, RefIs
<1>5. AllRows' = AllRows /\ ids' = ids
  BY <1>1 DEF AllRows
<1>6. CallsInv'
  BY <1>3, <1>4, <1>5 DEF MachinesInv, CallsInv
<1> QED BY <1>2, <1>6 DEF MachinesInv

LEMMA ReadsInv ==
    ASSUME MachinesInv, NEW c \in Clients,
           \/ \E x \in miners : RemoveRead(c, x) \/ \E s \in Slots : MoveRead(c, x, s)
           \/ \E x \in inv, r \in Racks : InstallRead(c, x, r)
           \/ \E r \in Racks : UninstallRead(c, r)
    PROVE  MachinesInv'
<1>0. TablesInv /\ RowsTyped
  BY DEF MachinesInv, TablesInv
<1> USE IdleType
<1>1. ASSUME NEW x \in miners, RemoveRead(c, x) PROVE MachinesInv'
  <2> DEFINE h == [Idle EXCEPT !.op = "remove", !.row = x]
  <2>1. h \in CallRow /\ h.op = "remove" /\ h.row = x
    BY <1>0 DEF CallRow, RowsTyped
  <2>2. Begin(c, h)
    BY <1>1 DEF RemoveRead
  <2> HIDE DEF h
  <2> QED BY <2>1, <2>2, BeginInv DEF AllRows
<1>2. ASSUME NEW x \in miners, NEW s \in Slots, MoveRead(c, x, s) PROVE MachinesInv'
  <2> DEFINE seen == Starting(x.m, s) \ {x}
             h == [Idle EXCEPT !.op = "move", !.row = x, !.slot = s, !.seen = seen]
  <2>1. seen \in SUBSET Rows /\ \A y \in seen : y.m # x.m
    BY <1>0, PresentRows DEF Starting, RowsTyped
  <2>2. Begin(c, h)
    BY <1>2 DEF MoveRead
  <2> HIDE DEF seen
  <2>3. h \in CallRow /\ h.op = "move" /\ h.row = x /\ h.slot = s /\ h.seen = seen
    BY <1>0, <2>1, Constants DEF CallRow, RowsTyped
  <2> HIDE DEF h
  <2> QED BY <2>1, <2>2, <2>3, BeginInv DEF AllRows
<1>3. ASSUME NEW x \in inv, NEW r \in Racks, InstallRead(c, x, r) PROVE MachinesInv'
  <2> DEFINE h == [Idle EXCEPT !.op = "install", !.row = x, !.rack = r]
  <2>1. h \in CallRow /\ h.op = "install" /\ h.row = x /\ h.rack = r
    BY <1>0 DEF CallRow, RowsTyped
  <2>2. Begin(c, h)
    BY <1>3 DEF InstallRead
  <2> HIDE DEF h
  <2> QED BY <2>1, <2>2, BeginInv DEF AllRows
<1>4. ASSUME NEW r \in Racks, UninstallRead(c, r) PROVE MachinesInv'
  <2>1. PICK x \in miners : Begin(c, [Idle EXCEPT !.op = "uninstall", !.row = x, !.rack = r])
    BY <1>4 DEF UninstallRead
  <2> DEFINE h == [Idle EXCEPT !.op = "uninstall", !.row = x, !.rack = r]
  <2>2. h \in CallRow /\ h.op = "uninstall" /\ h.row = x /\ h.rack = r
    BY <1>0 DEF CallRow, RowsTyped
  <2>3. Begin(c, h)
    BY <2>1
  <2> HIDE DEF h
  <2> QED BY <2>2, <2>3, BeginInv DEF AllRows
<1> QED BY <1>1, <1>2, <1>3, <1>4

\* The row a request read, if it is still there.
LEMMA ReadRow ==
    ASSUME MachinesInv, NEW c \in Clients, call[c].op # "none", There(call[c].row)
    PROVE  \E z \in miners : /\ Ref(z) = Ref(call[c].row)
                             /\ z.m = call[c].row.m /\ z.id = call[c].row.id
                             /\ z.om = call[c].row.om
                             /\ call[c].row \in Rows
                             /\ call[c].row.om \in 0 .. Len(owned[call[c].row.m])
<1>1. call[c].row \in Rows /\ TablesInv
  BY DEF MachinesInv, CallsInv, CallRow
<1>2. PICK z \in miners : Ref(z) = Ref(call[c].row)
  BY DEF There
<1>3. z.om = call[c].row.om /\ z.m = call[c].row.m /\ z.id = call[c].row.id
  BY <1>2, RefIs DEF MachinesInv, CallsInv, AllRows
<1> QED BY <1>1, <1>2, <1>3, PresentRows DEF AllRows

\* Installed machines S are put back into the inventory.
PutBack(S) ==
    /\ S \subseteq Rows /\ Moved(S, {}, "INVENTORY")
    /\ \A x \in S : \E z \in miners : Ref(z) = Ref(x) /\ z.m = x.m /\ z.om = x.om
    /\ \A x, y \in S : x.m = y.m => x = y
    /\ inv' = inv \cup {Kept(x, NoSlot) : x \in S}
    /\ miners' = miners \ Now(S) /\ vault' = vault

LEMMA Back ==
    ASSUME MachinesInv, NEW S, PutBack(S)
    PROVE  /\ MovesRows(S, {}, "INVENTORY") /\ ChangesTables(S, {}, "INVENTORY")
           /\ \A z \in miners : (\A d \in S : Ref(d) # Ref(z)) => \E y \in miners' : Ref(y) = Ref(z)
<1> USE DEF PutBack
<1>1. TablesInv /\ RowsTyped
  BY DEF MachinesInv, TablesInv
<1>2. \A x \in S : x.om \in 0 .. Len(owned[x.m])
  BY <1>1, PresentRows
<1>3. MovesRows(S, {}, "INVENTORY")
  BY <1>2 DEF MovesRows, Locations
<1>4. \A y \in miners' : y \in miners /\ \A x \in S : x.m # y.m
  BY <1>1, PresentRows DEF Now
<1>5. \A y \in inv \cup vault : \A x \in S : x.m # y.m
  BY <1>1, PresentRows
<1>6. \A z \in miners : (\A d \in S : Ref(d) # Ref(z)) => z \in miners'
  BY DEF Now
<1>7. ChangesTables(S, {}, "INVENTORY")
  BY <1>1, <1>4, <1>5, PresentRows DEF ChangesTables, RowsTyped
<1> QED BY <1>3, <1>6, <1>7

LEMMA RemoveWriteBack ==
    ASSUME MachinesInv, NEW c \in Clients, RemoveWrite(c)
    PROVE  PutBack({call[c].row})
<1> DEFINE x == call[c].row
<1>1. /\ There(x) /\ Moved({x}, {}, "INVENTORY") /\ call[c].op = "remove"
      /\ inv' = inv \cup {Kept(y, NoSlot) : y \in {x}}
      /\ miners' = miners \ Now({x}) /\ vault' = vault
  BY DEF RemoveWrite
<1>2. /\ {x} \subseteq Rows
      /\ \A y \in {x} : \E z \in miners : Ref(z) = Ref(y) /\ z.m = y.m /\ z.om = y.om
  BY <1>1, ReadRow
<1> HIDE DEF x
<1>3. PutBack({x})
  BY <1>1, <1>2 DEF PutBack
<1> QED BY <1>3 DEF x

LEMMA RemoveWriteInv ==
    ASSUME MachinesInv, NEW c \in Clients, RemoveWrite(c)
    PROVE  MachinesInv'
<1> DEFINE S == {call[c].row}
<1>1. PutBack(S) /\ rack' = Released(S) /\ End(c)
  BY RemoveWriteBack DEF RemoveWrite
<1> HIDE DEF S
<1>2. RacksInv'
  BY <1>1, Back, ReleasedPoints DEF MachinesInv, RacksInv
<1> QED BY <1>1, <1>2, Back, MoveInv

RacksTaken(R, S) ==
    rack' = [r \in Racks |-> [Released(S)[r] EXCEPT !.miner = IF r \in R THEN NoRef ELSE @]]

LEMMA TakenBackRacks ==
    ASSUME RacksInv, NEW R, NEW S,
           RacksTaken(R, S),
           \A z \in miners : (\A d \in S : Ref(d) # Ref(z)) => \E y \in miners' : Ref(y) = Ref(z)
    PROVE  RacksInv'
<1>1. /\ Released(S) \in [Racks -> RackRow]
      /\ \A r \in Racks : /\ PointsInto(Released(S)[r].miner, miners')
                          /\ PointsInto(Released(S)[r].blocked, miners')
  BY ReleasedPoints
<1>2. NoRef \in Refs /\ PointsInto(NoRef, miners')
  BY DEF Refs, PointsInto
<1>3. ASSUME NEW r \in Racks
      PROVE  /\ rack'[r] \in RackRow
             /\ rack'[r].miner \in {NoRef, Released(S)[r].miner}
             /\ rack'[r].blocked = Released(S)[r].blocked
  <2>1. Released(S)[r] \in RackRow
    BY <1>1
  <2>2. rack'[r] = [Released(S)[r] EXCEPT !.miner = IF r \in R THEN NoRef ELSE Released(S)[r].miner]
    BY DEF RacksTaken
  <2> QED BY <1>2, <2>1, <2>2 DEF RackRow
<1>4. rack' \in [Racks -> RackRow]
  BY <1>3 DEF RacksTaken
<1> QED BY <1>1, <1>2, <1>3, <1>4 DEF RacksInv

\* The racks emptied by an uninstall, and the rows that leave them.
LEMMA UninstallBack ==
    ASSUME MachinesInv,
           \/ \E c \in Clients : UninstallWrite(c)
           \/ \E R \in SUBSET Racks : UninstallBatch(R)
    PROVE  \E R, S : /\ PutBack(S) /\ RacksTaken(R, S)
                     /\ call' = call \/ \E c \in Clients : End(c)
<1>1. ASSUME NEW c \in Clients, UninstallWrite(c)
      PROVE  PutBack({call[c].row}) /\ RacksTaken({call[c].rack}, {call[c].row}) /\ End(c)
  <2> DEFINE x == call[c].row
  <2>1. /\ {x} \subseteq Rows
        /\ \A y \in {x} : \E z \in miners : Ref(z) = Ref(y) /\ z.m = y.m /\ z.om = y.om
    BY <1>1, ReadRow DEF UninstallWrite
  <2>2. TakenBack({call[c].rack}, {x}) /\ End(c)
    BY <1>1 DEF UninstallWrite
  <2> HIDE DEF x
  <2>3. PutBack({x}) /\ RacksTaken({call[c].rack}, {x})
    BY <2>1, <2>2 DEF TakenBack, PutBack, RacksTaken
  <2> QED BY <2>2, <2>3 DEF x
<1>2. ASSUME NEW R \in SUBSET Racks, UninstallBatch(R)
      PROVE  \E S : PutBack(S) /\ RacksTaken(R, S) /\ call' = call
  <2> DEFINE S == {x \in miners : \E r \in R : rack[r].miner = Ref(x)}
  <2>1. TablesInv /\ RowsTyped
    BY DEF MachinesInv, TablesInv
  <2>2. /\ S \subseteq Rows /\ \A x, y \in S : x.m = y.m => x = y
        /\ \A x \in S : x \in miners
    BY <2>1, PresentRows DEF RowsTyped
  <2>3. TakenBack(R, S) /\ call' = call
    BY <1>2 DEF UninstallBatch
  <2> HIDE DEF S
  <2>4. PutBack(S) /\ RacksTaken(R, S)
    BY <2>2, <2>3 DEF TakenBack, PutBack, RacksTaken
  <2> QED BY <2>3, <2>4
<1> QED BY <1>1, <1>2

LEMMA UninstallInv ==
    ASSUME MachinesInv,
           \/ \E c \in Clients : UninstallWrite(c)
           \/ \E R \in SUBSET Racks : UninstallBatch(R)
    PROVE  MachinesInv'
<1>1. PICK R, S : /\ PutBack(S) /\ RacksTaken(R, S)
                  /\ call' = call \/ \E c \in Clients : End(c)
  BY UninstallBack
<1>2. RacksInv'
  BY <1>1, Back, TakenBackRacks DEF MachinesInv
<1> QED BY <1>1, <1>2, Back, MoveInv

\* The machines a move displaces.
InTheWay(c) == call[c].seen \cup {y \in Before(call[c].slot) : Ref(y) # Ref(call[c].row)}

LEMMA MoveWriteChange ==
    ASSUME MachinesInv, NEW c \in Clients, MoveWrite(c)
    PROVE  /\ MovesRows({}, InTheWay(c), "INVENTORY") /\ ChangesTables({}, InTheWay(c), "INVENTORY")
           /\ \A y \in InTheWay(c) : \E z \in miners : Ref(z) = Ref(y) /\ z.m = y.m
           /\ \A z \in miners : (\A d \in InTheWay(c) : Ref(d) # Ref(z)) =>
                                    \E y \in miners' : Ref(y) = Ref(z)
<1> DEFINE x == call[c].row
           s == call[c].slot
           seen == call[c].seen
           D == InTheWay(c)
           new == [x EXCEPT !.slot = s]
<1>1. /\ There(x) /\ (\A y \in seen : There(y)) /\ SlotFree(s, Now(D \cup {x}))
      /\ Moved({}, D, "INVENTORY") /\ call[c].op = "move"
      /\ inv' = inv \cup Displaced(D) /\ miners' = (miners \ Now(D \cup {x})) \cup {new}
      /\ rack' = Released(D) /\ vault' = vault /\ End(c)
  BY DEF MoveWrite, InTheWay
<1>2. /\ TablesInv /\ RowsTyped /\ x \in Rows /\ seen \subseteq Rows
      /\ s \in Slots /\ s \in AllSlots /\ s # NoSlot
      /\ \A y \in seen : y.m # x.m
  BY <1>1, Constants DEF MachinesInv, TablesInv, CallsInv, CallRow
<1>3. PICK here \in miners : Ref(here) = Ref(x) /\ here.m = x.m /\ here.id = x.id /\ here.om = x.om
  BY <1>1, ReadRow
<1>4. new \in Rows /\ new.m = x.m /\ new.id = x.id /\ new.om = x.om /\ new.slot = s
  BY <1>2 DEF Rows
<1>5. \A y \in D : \E z \in miners : Ref(z) = Ref(y) /\ z.m = y.m
  BY <1>1, RefIs DEF There, Before, InTheWay
<1>6. \A y \in D : y.m # x.m
  BY <1>2, <1>3, PresentRows DEF Before, InTheWay
<1>7. D \in SUBSET Rows
  BY <1>2 DEF Before, RowsTyped, InTheWay
<1>8. \A y \in miners \ Now(D \cup {x}) : y.slot # s
  BY <1>1 DEF SlotFree
<1>9. \A y \in miners \ Now(D \cup {x}) : \A z \in D \cup {x} : z.m # y.m
  BY <1>2, <1>3, <1>5, PresentRows DEF Now
<1>10. \A z \in miners : (\A d \in D : Ref(d) # Ref(z)) => \E y \in miners' : Ref(y) = Ref(z)
  <2>1. Ref(new) = Ref(x)
    BY <1>4, RefIs
  <2> QED BY <1>1, <2>1 DEF Now
<1> HIDE DEF new, D
<1>11. MovesRows({}, D, "INVENTORY")
  BY <1>1, <1>7 DEF MovesRows, Locations
<1>12. \A y \in inv' : \/ y \in inv /\ \A z \in {} \cup D : z.m # y.m
                       \/ y \in Displaced(D)
  BY <1>1, <1>2, <1>5, PresentRows
<1>13. \A y \in vault' : y \in vault /\ \A z \in {} \cup D : z.m # y.m
  BY <1>1, <1>2, <1>5, PresentRows
<1>14. \A y \in miners' : y = new \/ y \in miners \ Now(D \cup {x})
  BY <1>1
<1>15. miners' \subseteq Rows
  BY <1>2, <1>4, <1>14 DEF RowsTyped
<1>16. \A y \in miners' :
          /\ \A z \in {} \cup D : z.m # y.m
          /\ \E z \in miners : z.m = y.m /\ z.id = y.id /\ z.om = y.om
  BY <1>3, <1>4, <1>6, <1>9, <1>14
<1>17. \A y, z \in miners' : /\ y.slot # NoSlot /\ (y.slot = z.slot => y = z)
                             /\ y.m = z.m => y = z
  <2>1. /\ \A y \in miners : y.slot # NoSlot
        /\ \A y, z \in miners : (y.slot = z.slot => y = z) /\ (y.m = z.m => y = z)
    BY <1>2, PresentRows DEF RowsTyped
  <2>2. \A y \in miners' : y = new \/ (y \in miners /\ y.slot # s /\ y.m # x.m)
    BY <1>8, <1>9, <1>14
  <2>3. s # NoSlot /\ new.slot = s /\ new.m = x.m
    BY <1>2, <1>4
  <2> HIDE DEF s, x
  <2> QED BY <2>1, <2>2, <2>3
<1>18. ChangesTables({}, D, "INVENTORY")
  BY <1>12, <1>13, <1>15, <1>16, <1>17 DEF ChangesTables
<1> QED BY <1>5, <1>10, <1>11, <1>18 DEF D

LEMMA MoveWriteInv ==
    ASSUME MachinesInv, NEW c \in Clients, MoveWrite(c)
    PROVE  MachinesInv'
<1>1. rack' = Released(InTheWay(c)) /\ End(c)
  BY DEF MoveWrite, InTheWay
<1>2. RacksInv'
  BY <1>1, MoveWriteChange, ReleasedPoints DEF MachinesInv, RacksInv
<1> QED BY <1>1, <1>2, MoveWriteChange, MoveInv

LEMMA InstallWriteSlot ==
    ASSUME MachinesInv, NEW c \in Clients, InstallWrite(c)
    PROVE  call[c].rack \in Racks /\ SlotTaken(call[c].row, {}, RackSlot(call[c].rack))
<1> DEFINE x == call[c].row
           r == call[c].rack
<1>1. /\ x \in inv /\ SlotFree(RackSlot(r), {}) /\ Moved({x}, {}, "RACK")
      /\ call[c].op = "install"
      /\ miners' = miners \cup {Kept(x, RackSlot(r))} /\ inv' = inv \ {x} /\ vault' = vault
  BY DEF InstallWrite
<1>2. /\ x \in AllRows /\ x.m \in Machines /\ x \notin miners /\ x \notin vault
      /\ r \in Racks /\ RackSlot(r) \in AllSlots /\ RackSlot(r) # NoSlot
  BY <1>1, Constants, PresentRows DEF MachinesInv, CallsInv
<1>3. \A y \in miners : y.slot # RackSlot(r)
  BY <1>1 DEF SlotFree
<1>4. Displaced({}) = {}
  BY DEF Displaced
<1> HIDE DEF x, r
<1>5. SlotTaken(x, {}, RackSlot(r))
  BY <1>1, <1>2, <1>3, <1>4 DEF SlotTaken
<1> QED BY <1>2, <1>5 DEF x, r

LEMMA InstallWriteInv ==
    ASSUME MachinesInv, NEW c \in Clients, InstallWrite(c)
    PROVE  MachinesInv'
<1> DEFINE x == call[c].row
           r == call[c].rack
           new == <<x.m, ids[x.m] + 1>>
           row == Kept(x, RackSlot(r))
<1>1. /\ End(c) /\ miners' = miners \cup {row}
      /\ rack' = [q \in Racks |->
                    CASE q = r -> [rack[q] EXCEPT !.miner = new]
                      [] q = r + 1 /\ Size[x.m] = 2 -> [rack[q] EXCEPT !.blocked = new]
                      [] OTHER -> rack[q]]
  BY DEF InstallWrite
<1>2. SlotTaken(x, {}, RackSlot(r)) /\ RowsTyped /\ RacksInv /\ x.m \in Machines
  BY InstallWriteSlot DEF MachinesInv, TablesInv, SlotTaken
<1>3. MovesRows({x}, {}, "RACK") /\ ChangesTables({x}, {}, "RACK")
  BY <1>2, IntoSlot
<1>4. Ref(row) = new /\ new \in Refs
  <2>1. ids[x.m] + 1 \in Nat
    BY <1>2 DEF RowsTyped
  <2> QED BY <1>2, <2>1 DEF Ref, Kept, Row, Refs
<1>5. PointsInto(new, miners') /\ \A ref : PointsInto(ref, miners) => PointsInto(ref, miners')
  BY <1>1, <1>4 DEF PointsInto
<1>6. ASSUME NEW q \in Racks
      PROVE  /\ rack'[q] \in RackRow
             /\ rack'[q].miner \in {new, rack[q].miner}
             /\ rack'[q].blocked \in {new, rack[q].blocked}
  <2>1. rack[q] \in RackRow
    BY <1>2 DEF RacksInv
  <2> HIDE DEF new, x, r
  <2>2. rack'[q] \in {[rack[q] EXCEPT !.miner = new], [rack[q] EXCEPT !.blocked = new], rack[q]}
    BY <1>1
  <2> QED BY <1>4, <2>1, <2>2 DEF RackRow
<1>7. rack' \in [Racks -> RackRow]
  <2>1. rack' = [q \in Racks |-> rack'[q]]
    BY <1>1
  <2> QED BY <1>6, <2>1
<1>8. RacksInv'
  BY <1>2, <1>5, <1>6, <1>7 DEF RacksInv
<1> QED BY <1>1, <1>3, <1>8, MoveInv

LEMMA GiveUpInv ==
    ASSUME MachinesInv, NEW c \in Clients, GiveUp(c)
    PROVE  MachinesInv'
<1>1. UNCHANGED <<inv, miners, vault, owned, ids, rack>> /\ call' = [call EXCEPT ![c] = Idle]
  BY DEF GiveUp, End, tables
<1>2. TablesInv' /\ RacksInv' /\ AllRows' = AllRows
  BY <1>1 DEF MachinesInv, TablesInv, RowsTyped, RowsCurrent, OneRowPerMachine, AllRows,
     OwnedLocationAgrees, RacksInv
<1>3. CallsInv'
  BY <1>1, <1>2, IdleType DEF MachinesInv, CallsInv
<1> QED BY <1>2, <1>3 DEF MachinesInv

LEMMA NextMachines == MachinesInv /\ [Next]_vars => MachinesInv'
<1> SUFFICES ASSUME MachinesInv, [Next]_vars PROVE MachinesInv'
  OBVIOUS
<1>1. CASE UNCHANGED vars
  BY <1>1 DEF vars, MachinesInv, TablesInv, RowsTyped, RowsCurrent, OneRowPerMachine, AllRows,
     OwnedLocationAgrees, RacksInv, CallsInv
<1>2. ASSUME NEW c \in Clients,
             \/ \E x \in miners : RemoveRead(c, x) \/ \E s \in Slots : MoveRead(c, x, s)
             \/ \E x \in inv, r \in Racks : InstallRead(c, x, r)
             \/ \E r \in Racks : UninstallRead(c, r)
             \/ RemoveWrite(c) \/ MoveWrite(c) \/ InstallWrite(c) \/ UninstallWrite(c)
             \/ GiveUp(c)
      PROVE  MachinesInv'
  BY <1>2, ReadsInv, RemoveWriteInv, MoveWriteInv, InstallWriteInv, UninstallInv, GiveUpInv
<1> QED
  BY <1>1, <1>2, MoveToVaultInv, RetrieveToInventoryInv, MoveRackToVaultInv, IntoSlotInv,
     RemoveInventoryItemInv, UninstallInv
  DEF Next

LEMMA InitMachines == Init => MachinesInv
<1> SUFFICES ASSUME Init PROVE MachinesInv
  OBVIOUS
<1>1. \A x \in inv : /\ x \in Rows /\ x.id = 0 /\ x.slot = NoSlot /\ x.om \in {0, 1}
                     /\ x.om = IF x.m \in Legacy THEN 0 ELSE 1
  BY Constants DEF Init, Rows
<1>2. \A m \in Machines : owned[m] = IF m \in Legacy THEN <<>> ELSE <<"INVENTORY">>
  BY DEF Init
<1>3. owned \in [Machines -> Seq(Locations)]
  <2>1. <<>> \in Seq(Locations) /\ <<"INVENTORY">> \in Seq(Locations)
    BY DEF Locations
  <2>2. \A m \in Machines : owned[m] \in Seq(Locations)
    BY <1>2, <2>1
  <2>3. owned = [m \in Machines |-> owned[m]]
    BY DEF Init
  <2> QED BY <2>2, <2>3
<1>4. \A x, y \in inv : x.m = y.m => x = y
  BY DEF Init
<1>5. miners = {} /\ vault = {} /\ AllRows = inv /\ ids = [m \in Machines |-> 0]
  BY DEF Init, AllRows
<1>6. \A x \in inv : /\ x.m \in Machines /\ x.om \in 0 .. Len(owned[x.m])
                     /\ x.om # 0 => owned[x.m][x.om] = "INVENTORY"
  BY <1>1, <1>2, RowType
<1>7. TablesInv
  BY <1>1, <1>3, <1>4, <1>5, <1>6
  DEF TablesInv, RowsTyped, RowsCurrent, OneRowPerMachine, OwnedLocationAgrees
<1>8. RacksInv
  BY DEF Init, RacksInv, RackRow, Refs, PointsInto
<1>9. CallsInv
  BY IdleType DEF Init, CallsInv
<1> QED BY <1>7, <1>8, <1>9 DEF MachinesInv

LEMMA AlwaysMachines == Spec => []MachinesInv
BY InitMachines, NextMachines, PTL DEF Spec

\* Every variable keeps its type: among others, the rows of the inventory and the
\* warehouse have no slot, and no two installed machines the same one.
THEOREM Typing == Spec => []TypeOK
<1>1. MachinesInv => TypeOK
  BY DEF MachinesInv, TablesInv, RowsTyped, RacksInv, RackRow, CallsInv, CallRow, TypeOK
<1> QED BY <1>1, AlwaysMachines, PTL

\* A machine has one row in one table, however many requests overlap and whatever they
\* read before their transactions.
THEOREM OneRow == Spec => []OneRowPerMachine
<1>1. MachinesInv => OneRowPerMachine
  BY DEF MachinesInv, TablesInv
<1> QED BY <1>1, AlwaysMachines, PTL

\* The owned row of a machine says the table the machine is in.
THEOREM LocationAgrees == Spec => []OwnedLocationAgrees
<1>1. MachinesInv => OwnedLocationAgrees
  BY DEF MachinesInv, TablesInv
<1> QED BY <1>1, AlwaysMachines, PTL

\* No rack is held or blocked by a machine that is not installed.
THEOREM RacksFreed == Spec => []NoDanglingRack
<1>1. MachinesInv => NoDanglingRack
  BY DEF MachinesInv, RacksInv, PointsInto, NoDanglingRack
<1> QED BY <1>1, AlwaysMachines, PTL

-----------------------------------------------------------------------------
(* The places of machines, and the refinement.                             *)

In(T, m) == \E x \in T : x.m = m

LEMMA PlaceIs ==
    ASSUME TablesInv, NEW m \in Machines
    PROVE  /\ In(inv, m) => Place[m] = "inventory"
           /\ In(miners, m) => Place[m] = "rack"
           /\ In(vault, m) => Place[m] = "warehouse"
           /\ ~(In(inv, m) \/ In(miners, m) \/ In(vault, m)) => Place[m] = "gone"
BY PresentRows DEF Place, In

Named(l) == CASE l = "INVENTORY" -> "inventory" [] l = "RACK" -> "rack"
              [] OTHER -> "warehouse"

\* The rows of S and D are again somewhere, and so are all the others.
Arrive(S, D, l) ==
    /\ \A m \in Machines : ~In(S \cup D, m) =>
          /\ In(inv, m) => In(inv', m)
          /\ In(miners, m) => In(miners', m)
          /\ In(vault, m) => In(vault', m)
    /\ l \in {"INVENTORY", "RACK", "WAREHOUSE"}
    /\ \A x \in S : CASE l = "INVENTORY" -> In(inv', x.m)
                      [] l = "RACK"      -> In(miners', x.m)
                      [] OTHER           -> In(vault', x.m)
    /\ \A x \in D : In(inv', x.m)

LEMMA PlaceAfter ==
    ASSUME MachinesInv, MachinesInv', NEW S, NEW D, NEW l,
           MovesRows(S, D, l), ChangesTables(S, D, l), Arrive(S, D, l)
    PROVE  Place' = [m \in Machines |-> IF In(S, m) THEN Named(l)
                                        ELSE IF In(D, m) THEN "inventory" ELSE Place[m]]
<1>1. TablesInv /\ TablesInv' /\ l \in {"INVENTORY", "RACK", "WAREHOUSE"}
  BY DEF MachinesInv, Arrive
<1>2. \A m \in Machines : /\ In(inv', m) => Place'[m] = "inventory"
                          /\ In(miners', m) => Place'[m] = "rack"
                          /\ In(vault', m) => Place'[m] = "warehouse"
                          /\ ~(In(inv', m) \/ In(miners', m) \/ In(vault', m))
                                => Place'[m] = "gone"
  <2>1. TablesInv' => \A m \in Machines :
                          /\ In(inv', m) => Place'[m] = "inventory"
                          /\ In(miners', m) => Place'[m] = "rack"
                          /\ In(vault', m) => Place'[m] = "warehouse"
                          /\ ~(In(inv', m) \/ In(miners', m) \/ In(vault', m))
                                => Place'[m] = "gone"
    <3> SUFFICES ASSUME TablesInv', NEW m \in Machines
                 PROVE  /\ In(inv', m) => Place'[m] = "inventory"
                        /\ In(miners', m) => Place'[m] = "rack"
                        /\ In(vault', m) => Place'[m] = "warehouse"
                        /\ ~(In(inv', m) \/ In(miners', m) \/ In(vault', m))
                              => Place'[m] = "gone"
      OBVIOUS
    <3>1. /\ \A x \in inv', y \in vault' : x.m # y.m
          /\ \A x \in inv', y \in miners' : x.m # y.m
          /\ \A x \in vault', y \in miners' : x.m # y.m
      BY DEF TablesInv, OneRowPerMachine, AllRows
    <3> QED BY <3>1 DEF Place, In
  <2> QED BY <1>1, <2>1
<1>3. ASSUME NEW m \in Machines, In(S, m) PROVE Place'[m] = Named(l)
  BY <1>1, <1>2, <1>3 DEF In, Arrive, Named
<1>4. ASSUME NEW m \in Machines, In(D, m) PROVE Place'[m] = "inventory"
  BY <1>2, <1>4 DEF In, Arrive
<1>5. ASSUME NEW m \in Machines, ~In(S, m), ~In(D, m) PROVE Place'[m] = Place[m]
  <2>0. ~In(S \cup D, m)
    BY <1>5 DEF In
  <2>1. In(inv', m) <=> In(inv, m)
    BY <1>5, <2>0 DEF Arrive, In, ChangesTables, Kept, Row, Displaced
  <2>2. In(vault', m) <=> In(vault, m)
    BY <1>5, <2>0 DEF Arrive, In, ChangesTables, Kept, Row
  <2>3. In(miners', m) <=> In(miners, m)
    BY <1>5, <2>0 DEF Arrive, In, ChangesTables, Kept, Row
  <2> QED BY <1>1, <1>2, <2>1, <2>2, <2>3, PlaceIs
<1>6. Place' = [m \in Machines |-> Place'[m]]
  BY DEF Place
<1> QED BY <1>3, <1>4, <1>5, <1>6

\* The machines of rows that are all in one table change place together.
LEMMA CarryStep ==
    ASSUME MachinesInv, NEW S, NEW from, NEW to, S \subseteq Rows, S # {},
           \A x \in S : Place[x.m] = from,
           Place' = [m \in Machines |-> IF In(S, m) THEN to ELSE Place[m]]
    PROVE  \E M \in SUBSET Machines :
              /\ Promise!Carry(M, from, to)
              /\ \A x : S = {x} => M = {x.m}
<1> DEFINE M == {x.m : x \in S}
<1>1. M \in SUBSET Machines /\ M # {} /\ \A m : m \in M <=> In(S, m)
  BY RowType DEF In
<1>2. \A m \in M : Place[m] = from
  OBVIOUS
<1>3. \A x : S = {x} => M = {x.m}
  OBVIOUS
<1> HIDE DEF M
<1>4. Promise!Carry(M, from, to)
  BY <1>1, <1>2 DEF Promise!Carry
<1> QED BY <1>1, <1>3, <1>4

LEMMA MoveToVaultPlaces ==
    ASSUME MachinesInv, MachinesInv', NEW S \in SUBSET inv, MoveToVault(S)
    PROVE  Promise!Next
<1>1. TablesInv /\ S \subseteq inv /\ S # {} /\ S \subseteq Rows
  BY DEF MachinesInv, TablesInv, RowsTyped, MoveToVault
<1>2. MovesRows(S, {}, "WAREHOUSE") /\ ChangesTables(S, {}, "WAREHOUSE")
  BY <1>1, PresentRows DEF MoveToVault, MovesRows, ChangesTables, TablesInv, RowsTyped, Locations
<1>3. \A x \in S : Kept(x, NoSlot) \in vault' /\ Kept(x, NoSlot).m = x.m
  BY DEF MoveToVault, Kept, Row
<1>4. Arrive(S, {}, "WAREHOUSE")
  BY <1>1, <1>3 DEF MoveToVault, Arrive, In
<1>5. Place' = [m \in Machines |-> IF In(S, m) THEN "warehouse" ELSE Place[m]]
  BY <1>2, <1>4, PlaceAfter DEF Named, In
<1>6. \A x \in S : Place[x.m] = "inventory"
  BY <1>1, PlaceIs, RowType DEF In
<1>7. \E M \in SUBSET Machines : Promise!Carry(M, "inventory", "warehouse")
  BY <1>1, <1>5, <1>6, CarryStep
<1> QED BY <1>7 DEF Promise!Next, Promise!Store

LEMMA RetrieveToInventoryPlaces ==
    ASSUME MachinesInv, MachinesInv', NEW S \in SUBSET vault, RetrieveToInventory(S)
    PROVE  Promise!Next
<1>1. TablesInv /\ S \subseteq vault /\ S # {} /\ S \subseteq Rows
  BY DEF MachinesInv, TablesInv, RowsTyped, RetrieveToInventory
<1>2. MovesRows(S, {}, "INVENTORY") /\ ChangesTables(S, {}, "INVENTORY")
  BY <1>1, PresentRows
  DEF RetrieveToInventory, MovesRows, ChangesTables, TablesInv, RowsTyped, Locations
<1>3. \A x \in S : Kept(x, NoSlot) \in inv' /\ Kept(x, NoSlot).m = x.m
  BY DEF RetrieveToInventory, Kept, Row
<1>4. Arrive(S, {}, "INVENTORY")
  BY <1>1, <1>3 DEF RetrieveToInventory, Arrive, In
<1>5. Place' = [m \in Machines |-> IF In(S, m) THEN "inventory" ELSE Place[m]]
  BY <1>2, <1>4, PlaceAfter DEF Named, In
<1>6. \A x \in S : Place[x.m] = "warehouse"
  BY <1>1, PlaceIs, RowType DEF In
<1>7. \E M \in SUBSET Machines : Promise!Carry(M, "warehouse", "inventory")
  BY <1>1, <1>5, <1>6, CarryStep
<1> QED BY <1>7 DEF Promise!Next, Promise!Retrieve

LEMMA MoveRackToVaultPlaces ==
    ASSUME MachinesInv, MachinesInv', NEW x \in miners, MoveRackToVault(x)
    PROVE  Promise!Next
<1>1. TablesInv /\ x \in Rows /\ x.m \in Machines
  BY RowType DEF MachinesInv, TablesInv, RowsTyped
<1>2. MovesRows({x}, {}, "WAREHOUSE") /\ ChangesTables({x}, {}, "WAREHOUSE")
  BY <1>1, PresentRows
  DEF MoveRackToVault, MovesRows, ChangesTables, TablesInv, RowsTyped, Locations
<1>3. Kept(x, NoSlot) \in vault' /\ Kept(x, NoSlot).m = x.m
  BY DEF MoveRackToVault, Kept, Row
<1>4. Arrive({x}, {}, "WAREHOUSE")
  BY <1>1, <1>3 DEF MoveRackToVault, Arrive, In
<1>5. Place' = [m \in Machines |-> IF In({x}, m) THEN "warehouse" ELSE Place[m]]
  BY <1>2, <1>4, PlaceAfter DEF Named, In
<1>6. \A y \in {x} : Place[y.m] = "rack"
  BY <1>1, PlaceIs DEF In
<1>7. {x} # {} /\ {x} \subseteq Rows
  BY <1>1
<1>8. PICK M \in SUBSET Machines :
         Promise!Carry(M, "rack", "warehouse") /\ \A y : {x} = {y} => M = {y.m}
  BY <1>5, <1>6, <1>7, CarryStep
<1>9. Promise!Carry({x.m}, "rack", "warehouse")
  BY <1>8
<1> QED BY <1>1, <1>9 DEF Promise!Next, Promise!StoreRack

LEMMA RemoveInventoryItemPlaces ==
    ASSUME MachinesInv, MachinesInv', NEW x \in inv, RemoveInventoryItem(x)
    PROVE  Promise!Next
<1>1. TablesInv /\ x \in Rows /\ x.m \in Machines
  BY RowType DEF MachinesInv, TablesInv, RowsTyped
<1>2. inv' = inv \ {x} /\ miners' = miners /\ vault' = vault
  BY DEF RemoveInventoryItem
<1>3. /\ \A y \in inv \cup miners \cup vault : y.m = x.m => y = x
      /\ x \notin miners /\ x \notin vault
  BY <1>1, PresentRows DEF AllRows
<1>4. Place' = [m \in Machines |-> IF m \in {x.m} THEN "gone" ELSE Place[m]]
  <2>1. \A m \in Machines : Place'[m] = IF m = x.m THEN "gone" ELSE Place[m]
    <3>1. ASSUME NEW m \in Machines, m = x.m PROVE Place'[m] = "gone"
      BY <1>2, <1>3, <3>1 DEF Place
    <3>2. ASSUME NEW m \in Machines, m # x.m PROVE Place'[m] = Place[m]
      BY <1>2, <3>2 DEF Place
    <3> QED BY <3>1, <3>2
  <2>2. Place' = [m \in Machines |-> Place'[m]]
    BY DEF Place
  <2> QED BY <2>1, <2>2
<1>5. Place[x.m] = "inventory"
  BY <1>1, PlaceIs DEF In
<1> QED BY <1>1, <1>4, <1>5 DEF Promise!Next, Promise!Remove, Promise!Carry

LEMMA DisplacedIn ==
    ASSUME NEW D, NEW d \in D
    PROVE  \E y \in Displaced(D) : y.m = d.m
<1> DEFINE y == Row(d, Len(owned[d.m]) + 1, NoSlot)
<1>1. y \in Displaced(D)
  BY DEF Displaced
<1>2. y.m = d.m
  BY DEF Row
<1> QED BY <1>1, <1>2

\* Into a slot, over two machines at the most.
LEMMA SlotPlaces ==
    ASSUME MachinesInv, MachinesInv', NEW x, NEW D, NEW s, SlotTaken(x, D, s),
           \E d1, d2 \in Machines : \A d \in D : d.m \in {d1, d2}
    PROVE  Promise!Next
<1> DEFINE M == {d.m : d \in D}
<1>1. /\ TablesInv /\ x \in AllRows \ miners /\ x.m \in Machines /\ D \subseteq miners
      /\ s \in AllSlots
      /\ miners' = (miners \ D) \cup {Kept(x, s)}
      /\ inv' = (inv \ {x}) \cup Displaced(D) /\ vault' = vault \ {x}
  BY DEF SlotTaken, MachinesInv
<1>2. MovesRows({x}, D, "RACK") /\ ChangesTables({x}, D, "RACK")
  BY IntoSlot
<1>3. Kept(x, s) \in miners' /\ Kept(x, s).m = x.m
  BY <1>1 DEF Kept, Row
<1>4. \A d \in D : In(inv', d.m)
  BY <1>1, DisplacedIn DEF In
<1>5. Arrive({x}, D, "RACK")
  BY <1>1, <1>3, <1>4 DEF Arrive, In
<1>6. Place' = [m \in Machines |-> IF In({x}, m) THEN "rack"
                                   ELSE IF In(D, m) THEN "inventory" ELSE Place[m]]
  BY <1>2, <1>5, PlaceAfter DEF Named
<1>7. M \in SUBSET Machines /\ \A m : m \in M <=> In(D, m)
  BY <1>1, PresentRows DEF In
<1>8. \A m \in M : Place[m] = "rack"
  BY <1>1, <1>7, PlaceIs DEF In
<1>9. Place[x.m] \in {"inventory", "warehouse"}
  BY <1>1, PlaceIs DEF In, AllRows
<1>10. \E d1, d2 \in Machines : M \subseteq {d1, d2}
  OBVIOUS
<1> HIDE DEF M
<1>11. Place' = [m \in Machines |-> CASE m = x.m -> "rack"
                                      [] m \in M -> "inventory"
                                      [] OTHER   -> Place[m]]
  <2>1. \A m : In({x}, m) <=> m = x.m
    BY DEF In
  <2>2. \A m \in Machines : Place'[m] = CASE m = x.m -> "rack"
                                           [] m \in M -> "inventory"
                                           [] OTHER   -> Place[m]
    <3> TAKE m \in Machines
    <3>1. m \in M => m # x.m
      BY <1>1, <1>7, PresentRows DEF In
    <3> HIDE DEF In
    <3> QED BY <1>6, <1>7, <2>1, <3>1
  <2>3. Place' = [m \in Machines |-> Place'[m]]
    BY DEF Place
  <2> QED BY <2>2, <2>3
<1>12. Promise!Install(x.m, M)
  BY <1>8, <1>9, <1>10, <1>11 DEF Promise!Install
<1> QED BY <1>1, <1>7, <1>12 DEF Promise!Next

\* Slots are unique, so a machine displaces those of two slots at the most.
LEMMA TwoInTheWay ==
    ASSUME MachinesInv, NEW m \in Machines, NEW s \in Slots, Fits(m, s)
    PROVE  \E d1, d2 \in Machines : \A d \in Starting(m, s) \cup Before(s) : d.m \in {d1, d2}
<1> DEFINE InSlot(t) == IF \E y \in miners : y.slot = t
                          THEN (CHOOSE y \in miners : y.slot = t).m ELSE m
<1>1. RowsTyped
  BY DEF MachinesInv, TablesInv
<1>2. \A t : InSlot(t) \in Machines /\ \A y \in miners : y.slot = t => y.m = InSlot(t)
  <2> TAKE t
  <2>1. CASE \E y \in miners : y.slot = t
    <3> DEFINE z == CHOOSE y \in miners : y.slot = t
    <3>1. z \in miners /\ z.slot = t
      BY <2>1
    <3>2. InSlot(t) = z.m
      BY <2>1
    <3> HIDE DEF z, InSlot
    <3> QED BY <1>1, <3>1, <3>2, RowType DEF RowsTyped
  <2>2. CASE ~\E y \in miners : y.slot = t
    BY <2>2
  <2> QED BY <2>1, <2>2
<1> HIDE DEF InSlot
<1>3. s \in Nat
  BY Constants
<1>4. CASE Size[m] = 1
  <2>1. \A d \in Starting(m, s) \cup Before(s) : d \in miners /\ d.slot \in {s, s - 1}
    BY <1>3, <1>4 DEF Starting, Span, Before
  <2> QED BY <1>2, <2>1
<1>5. CASE Size[m] = 2
  <2>1. s % 2 = 0
    BY <1>5 DEF Fits
  <2>2. \A d \in Starting(m, s) \cup Before(s) : d \in miners /\ d.slot \in {s, s + 1}
    BY <1>3, <1>5, <2>1 DEF Starting, Span, Before
  <2> QED BY <1>2, <2>2
<1> QED BY <1>4, <1>5, Constants

LEMMA IntoSlotPlaces ==
    ASSUME MachinesInv, MachinesInv',
           \/ \E x \in vault, s \in Slots : RetrieveToRack(x, s)
           \/ \E x \in inv, s \in Slots : InstallInventoryItem(x, s)
           \/ \E c \in Clients : InstallWrite(c)
    PROVE  Promise!Next
<1>1. ASSUME NEW x \in vault, NEW s \in Slots, RetrieveToRack(x, s) PROVE Promise!Next
  <2>1. SlotTaken(x, Starting(x.m, s), s)
    BY <1>1, RetrieveToRackSlot
  <2>2. Fits(x.m, s) /\ x.m \in Machines
    BY <1>1, <2>1 DEF RetrieveToRack, SlotTaken
  <2>3. \E d1, d2 \in Machines : \A d \in Starting(x.m, s) : d.m \in {d1, d2}
    BY <2>2, TwoInTheWay
  <2> QED BY <2>1, <2>3, SlotPlaces
<1>2. ASSUME NEW x \in inv, NEW s \in Slots, InstallInventoryItem(x, s) PROVE Promise!Next
  <2>1. SlotTaken(x, Starting(x.m, s) \cup Before(s), s)
    BY <1>2, InstallItemSlot
  <2>2. Fits(x.m, s) /\ x.m \in Machines
    BY <1>2, <2>1 DEF InstallInventoryItem, SlotTaken
  <2> QED BY <2>1, <2>2, TwoInTheWay, SlotPlaces
<1>3. ASSUME NEW c \in Clients, InstallWrite(c) PROVE Promise!Next
  <2>1. SlotTaken(call[c].row, {}, RackSlot(call[c].rack))
    BY <1>3, InstallWriteSlot
  <2>2. \E d1, d2 \in Machines : \A d \in {} : d.m \in {d1, d2}
    BY <2>1 DEF SlotTaken
  <2> QED BY <2>1, <2>2, SlotPlaces
<1> QED BY <1>1, <1>2, <1>3

\* Machines put back come from racks.
LEMMA PutBackPlaces ==
    ASSUME MachinesInv, MachinesInv', NEW S, PutBack(S)
    PROVE  [Promise!Next]_Place
<1>1. TablesInv /\ S \subseteq Rows
  BY DEF MachinesInv, PutBack
<1>2. MovesRows(S, {}, "INVENTORY") /\ ChangesTables(S, {}, "INVENTORY")
  BY Back
<1>3. \A x \in S : Kept(x, NoSlot) \in inv' /\ Kept(x, NoSlot).m = x.m
  BY DEF PutBack, Kept, Row
<1>4. \A y \in miners : ~In(S, y.m) => y \in miners'
  BY RefIs DEF PutBack, Now, In
<1>5. Arrive(S, {}, "INVENTORY")
  BY <1>1, <1>3, <1>4 DEF PutBack, Arrive, In
<1>6. Place' = [m \in Machines |-> IF In(S, m) THEN "inventory" ELSE Place[m]]
  BY <1>2, <1>5, PlaceAfter DEF Named, In
<1>7. \A x \in S : Place[x.m] = "rack"
  BY <1>1, PlaceIs, RowType DEF In, PutBack
<1>8. CASE S = {}
  BY <1>6, <1>8 DEF In, Place
<1>9. CASE S # {}
  <2>1. \E M \in SUBSET Machines : Promise!Carry(M, "rack", "inventory")
    BY <1>1, <1>6, <1>7, <1>9, CarryStep
  <2> QED BY <2>1 DEF Promise!Next, Promise!Uninstall
<1> QED BY <1>8, <1>9

\* A moved machine stays on the racks; those in its way go to the inventory.
LEMMA MoveWritePlaces ==
    ASSUME MachinesInv, MachinesInv', NEW c \in Clients, MoveWrite(c)
    PROVE  [Promise!Next]_Place
<1> DEFINE D == InTheWay(c)
           x == call[c].row
           new == [x EXCEPT !.slot = call[c].slot]
<1>1. /\ MovesRows({}, D, "INVENTORY") /\ ChangesTables({}, D, "INVENTORY")
      /\ \A y \in D : \E z \in miners : Ref(z) = Ref(y) /\ z.m = y.m
  BY MoveWriteChange
<1>2. TablesInv /\ x \in Rows /\ new.m = x.m /\ D \subseteq Rows
  BY <1>1 DEF MachinesInv, CallsInv, CallRow, Rows, MovesRows
<1>3. /\ miners' = (miners \ Now(D \cup {x})) \cup {new} /\ inv' = inv \cup Displaced(D)
      /\ vault' = vault
  BY DEF MoveWrite, InTheWay
<1> HIDE DEF D, new, x
<1>4. \A y \in miners : ~In(D, y.m) => In(miners', y.m)
  BY <1>2, <1>3, RefIs DEF Now, In
<1>5. \A d \in D : In(inv', d.m)
  BY <1>3, DisplacedIn DEF In
<1>6. Arrive({}, D, "INVENTORY")
  BY <1>3, <1>4, <1>5 DEF Arrive, In
<1>7. Place' = [m \in Machines |-> IF In(D, m) THEN "inventory" ELSE Place[m]]
  BY <1>1, <1>6, PlaceAfter DEF In
<1>8. \A d \in D : Place[d.m] = "rack"
  BY <1>1, <1>2, PlaceIs, RowType DEF In
<1>9. CASE D = {}
  BY <1>7, <1>9 DEF In, Place
<1>10. CASE D # {}
  <2>1. \E M \in SUBSET Machines : Promise!Carry(M, "rack", "inventory")
    BY <1>2, <1>7, <1>8, <1>10, CarryStep
  <2> QED BY <2>1 DEF Promise!Next, Promise!Uninstall
<1> QED BY <1>9, <1>10

LEMMA StepPlaces ==
    ASSUME MachinesInv, MachinesInv', [Next]_vars
    PROVE  [Promise!Next]_Place
<1>1. ASSUME UNCHANGED <<inv, miners, vault>> PROVE [Promise!Next]_Place
  BY <1>1 DEF Place
<1>2. ASSUME NEW c \in Clients,
             \/ \E x \in miners : RemoveRead(c, x) \/ \E s \in Slots : MoveRead(c, x, s)
             \/ \E x \in inv, r \in Racks : InstallRead(c, x, r)
             \/ \E r \in Racks : UninstallRead(c, r)
             \/ GiveUp(c)
      PROVE  [Promise!Next]_Place
  <2>1. UNCHANGED <<inv, miners, vault>>
    BY <1>2 DEF RemoveRead, MoveRead, InstallRead, UninstallRead, GiveUp, Begin, tables
  <2> QED BY <1>1, <2>1
<1>3. ASSUME \/ \E c \in Clients : UninstallWrite(c)
             \/ \E R \in SUBSET Racks : UninstallBatch(R)
      PROVE  [Promise!Next]_Place
  BY <1>3, UninstallBack, PutBackPlaces
<1>4. ASSUME NEW c \in Clients, RemoveWrite(c) PROVE [Promise!Next]_Place
  BY <1>4, RemoveWriteBack, PutBackPlaces
<1>5. CASE UNCHANGED vars
  BY <1>1, <1>5 DEF vars
<1> QED
  BY <1>2, <1>3, <1>4, <1>5, MoveToVaultPlaces, RetrieveToInventoryPlaces,
     MoveRackToVaultPlaces, RemoveInventoryItemPlaces, IntoSlotPlaces, MoveWritePlaces
  DEF Next

\* The tables keep the promise to the player: each machine is at one place, moves as the
\* player asked, displaces two others at the most, and leaves only when removed.
THEOREM PlacesRefinement == Spec => ImplementsPlaces
<1>1. Init => Promise!Init
  BY DEF Promise!Init, Promise!Places, Place
<1>2. MachinesInv /\ MachinesInv' /\ [Next]_vars => [Promise!Next]_Place
  BY StepPlaces
<1> QED BY <1>1, <1>2, AlwaysMachines, PTL DEF ImplementsPlaces, Promise!Spec, Spec
=============================================================================
