-------------------------- MODULE MachineLocations --------------------------
(***************************************************************************)
(* Where the machines of a player are.                                     *)
(*   server/controllers/vaultController.ts      the warehouse              *)
(*   server/controllers/inventoryController.ts  install into a slot, remove*)
(*   server/controllers/machinesController.ts   remove and move a machine  *)
(*   server/controllers/roomsController.ts      racks of rooms             *)
(*   server/services/userOwnedMachineService.ts, utils/rackMinerRelease.ts *)
(*   server/prisma/schema.prisma   UserInventory, UserMiner, UserVault,    *)
(*                                 UserOwnedMachine, UserRack              *)
(* A machine is a row of one of three tables, and changes table by an      *)
(* insert and a delete.  A transaction of these handlers is one step: the  *)
(* advisory locks, and the lock of the user's row against the foreign keys *)
(* of the inserts, let one at a time write the rows of a player, and an    *)
(* error undoes it.  What some handlers read before their transaction may  *)
(* be out of date in it; delete and update throw if the row is gone.       *)
(***************************************************************************)
EXTENDS Integers, Sequences

CONSTANTS
    Machines,       \* the machines of one player
    Size,           \* [Machines -> 1 .. 2]  slot_size
    Legacy,         \* machines whose first row has no owned_machine_id
    Slots,          \* slot_index below 80: a prefix of the naturals
    Racks,          \* positions of the racks of one room
    Columns,        \* RACK_VISUAL_COLUMNS (4)
    Clients,        \* requests that may overlap
    MaxMoves        \* [Machines -> Nat]  changes of table of a machine (a bound)

ASSUME MachinesAssumption ==
    /\ Machines # {} /\ Size \in [Machines -> 1 .. 2] /\ Legacy \subseteq Machines
    /\ Slots \subseteq 0 .. 79 /\ Racks \subseteq Nat
    /\ Columns \in Nat \ {0} /\ MaxMoves \in [Machines -> Nat]

VARIABLES
    inv,        \* user_inventory
    miners,     \* user_miners
    vault,      \* user_vault
    owned,      \* [Machines -> Seq of locations]  user_owned_machines, by machine
    ids,        \* [Machines -> Nat]  the last row id given to the machine
    rack,       \* [Racks -> user_racks row]
    call        \* [Clients -> handler in flight, with what it read]

vars == <<inv, miners, vault, owned, ids, rack, call>>
tables == <<inv, miners, vault, owned, ids>>

NoSlot == -1
NoRef  == <<>>
RackSlot(r) == 1000 + r

Locations == {"INVENTORY", "RACK", "WAREHOUSE", "deleted"}
AllSlots  == Slots \cup {RackSlot(r) : r \in Racks} \cup {NoSlot}
\* om is the machine's owned row: a position in its sequence, 0 for none.
Rows == [m : Machines, id : Nat, om : Nat, slot : AllSlots]
Refs == (Machines \X Nat) \cup {NoRef}
Ref(x) == <<x.m, x.id>>

NoRow == [m |-> CHOOSE m \in Machines : TRUE, id |-> 0, om |-> 0, slot |-> NoSlot]
Idle  == [op |-> "none", row |-> NoRow, rack |-> 0, slot |-> NoSlot, seen |-> {}]

TypeOK ==
    /\ inv \subseteq Rows /\ miners \subseteq Rows /\ vault \subseteq Rows
    /\ \A x \in inv \cup vault : x.slot = NoSlot
    /\ \A x, y \in miners : x.slot # NoSlot /\ (x.slot = y.slot => x = y)
    /\ owned \in [Machines -> Seq(Locations)]
    /\ ids \in [Machines -> Nat]
    /\ rack \in [Racks -> [miner : Refs, blocked : Refs]]
    /\ \A c \in Clients :
          /\ call[c].op \in {"none", "remove", "move", "install", "uninstall"}
          /\ call[c].row \in Rows /\ call[c].seen \subseteq Rows
          /\ call[c].slot \in AllSlots /\ call[c].rack \in Racks \cup {0}

Init ==
    /\ inv = {[m |-> m, id |-> 0, om |-> IF m \in Legacy THEN 0 ELSE 1, slot |-> NoSlot] :
                 m \in Machines}
    /\ miners = {} /\ vault = {}
    /\ owned = [m \in Machines |-> IF m \in Legacy THEN <<>> ELSE <<"INVENTORY">>]
    /\ ids = [m \in Machines |-> 0]
    /\ rack = [r \in Racks |-> [miner |-> NoRef, blocked |-> NoRef]]
    /\ call = [c \in Clients |-> Idle]

-----------------------------------------------------------------------------
(* Rows and owned rows.                                                    *)

\* ensureOwnedMachineFor...Tx: the owned row of x, a new one if it has none.
Ensured(x) == IF x.om = 0 THEN Len(owned[x.m]) + 1 ELSE x.om

\* syncOwnedMachineSnapshotTx left out.
Unsynced(x, location) ==
    IF x.om = 0 THEN Append(owned[x.m], location) ELSE owned[x.m]
\* The ensured owned row of x is put at the location.
Synced(x, location) ==
    IF x.om = 0 THEN Append(owned[x.m], location) ELSE [owned[x.m] EXCEPT ![x.om] = location]

Row(x, om, slot) == [m |-> x.m, id |-> ids[x.m] + 1, om |-> om, slot |-> slot]
Kept(x, slot)    == Row(x, Ensured(x), slot)

\* The rows of S move to a location with their owned rows; the displaced ones of D go to
\* the inventory with new ones (createInventoryWithOwnedMachineTx).
Moved(S, D, location) ==
    /\ \A x \in S \cup D : ids[x.m] < MaxMoves[x.m]
    /\ ids' = [m \in Machines |-> IF \E x \in S \cup D : x.m = m THEN ids[m] + 1 ELSE ids[m]]
    /\ owned' = [m \in Machines |->
          IF \E x \in S : x.m = m THEN Synced(CHOOSE x \in S : x.m = m, location)
          ELSE IF \E x \in D : x.m = m THEN Append(owned[m], "INVENTORY")
          ELSE owned[m]]

DisplacedLost(D) == {}
Displaced(D) == {Row(x, Len(owned[x.m]) + 1, NoSlot) : x \in D}

\* The racks keep blocking for the machine that left.
ReleasedHalf(D) ==
    LET gone == {Ref(x) : x \in D}
    IN  [r \in Racks |-> [rack[r] EXCEPT !.miner = IF @ \in gone THEN NoRef ELSE @]]
\* releaseUserMinerFromRacksTx, for each machine of D.
Released(D) ==
    LET gone == {Ref(x) : x \in D}
    IN  [r \in Racks |-> [miner   |-> IF rack[r].miner \in gone THEN NoRef ELSE rack[r].miner,
                          blocked |-> IF rack[r].blocked \in gone THEN NoRef
                                        ELSE rack[r].blocked]]

\* The slots machine m takes from s on, and the machines that start in them.
Span(m, s)     == s .. s + Size[m] - 1
Starting(m, s) == {x \in miners : x.slot \in Span(m, s)}
\* A machine of two slots that starts before an odd slot s.
Before(s)      == {x \in miners : s % 2 = 1 /\ x.slot = s - 1 /\ Size[x.m] = 2}
Fits(m, s)     == Size[m] = 2 => s % 2 = 0

\* assertOwnedMachineNotInWarehouseTx
NotStored(x) == x.om # 0 => owned[x.m][x.om] # "WAREHOUSE"

\* No index on slot_index.
SlotShared(s, others) == TRUE
\* slot_index is unique for a user: an insert or an update throws.
SlotFree(s, others) == \A y \in miners : y.slot = s => y \in others

-----------------------------------------------------------------------------
(* The warehouse.                                                          *)

MoveToVault(S) ==
    /\ S # {} /\ S \subseteq inv
    /\ \A x \in S : NotStored(x)
    /\ Moved(S, {}, "WAREHOUSE")
    /\ inv' = inv \ S
    /\ vault' = vault \cup {Kept(x, NoSlot) : x \in S}
    /\ UNCHANGED <<miners, rack, call>>

MoveRackToVault(x) ==
    /\ x \in miners
    /\ NotStored(x)
    /\ Moved({x}, {}, "WAREHOUSE")
    /\ miners' = miners \ {x}
    /\ vault' = vault \cup {Kept(x, NoSlot)}
    /\ rack' = Released({x})
    /\ UNCHANGED <<inv, call>>

RetrieveToInventory(S) ==
    /\ S # {} /\ S \subseteq vault
    /\ Moved(S, {}, "INVENTORY")
    /\ vault' = vault \ S
    /\ inv' = inv \cup {Kept(x, NoSlot) : x \in S}
    /\ UNCHANGED <<miners, rack, call>>

\* Into a slot; a machine of two slots that reaches into it from before stays.
RetrieveToRack(x, s) ==
    /\ x \in vault
    /\ Fits(x.m, s)
    /\ LET D == Starting(x.m, s) IN
          /\ Moved({x}, D, "RACK")
          /\ miners' = (miners \ D) \cup {Kept(x, s)}
          /\ inv' = inv \cup Displaced(D)
          /\ rack' = Released(D)
    /\ vault' = vault \ {x}
    /\ UNCHANGED call

-----------------------------------------------------------------------------
(* The inventory.                                                          *)

InstallInventoryItem(x, s) ==
    /\ x \in inv
    /\ Fits(x.m, s)
    /\ LET D == Starting(x.m, s) \cup Before(s) IN
          /\ Moved({x}, D, "RACK")
          /\ miners' = (miners \ D) \cup {Kept(x, s)}
          /\ inv' = (inv \ {x}) \cup Displaced(D)
          /\ rack' = Released(D)
    /\ UNCHANGED <<vault, call>>

RemoveInventoryItem(x) ==
    /\ x \in inv
    /\ inv' = inv \ {x}
    /\ owned' = IF x.om = 0 THEN owned ELSE [owned EXCEPT ![x.m][x.om] = "deleted"]
    /\ UNCHANGED <<miners, vault, ids, rack, call>>

-----------------------------------------------------------------------------
(* Handlers that read first and write in a transaction some time after.    *)

Begin(c, handler) ==
    /\ call[c] = Idle
    /\ call' = [call EXCEPT ![c] = handler]
    /\ UNCHANGED <<tables, rack>>

End(c) == call' = [call EXCEPT ![c] = Idle]

\* A busy lock, an idempotency key in use, or an error: nothing was written.
GiveUp(c) ==
    /\ call[c] # Idle
    /\ End(c)
    /\ UNCHANGED <<tables, rack>>

\* removeMachine
RemoveRead(c, x) ==
    /\ x \in miners
    /\ Begin(c, [Idle EXCEPT !.op = "remove", !.row = x])

\* deleteMany in place of delete.
ThereAtAll(x) == TRUE
\* The delete of x, in a transaction that read it before, does not throw.
There(x) == \E y \in miners : Ref(y) = Ref(x)
\* The rows of S as they are now.
Now(S) == {y \in miners : \E x \in S : Ref(y) = Ref(x)}

RemoveWrite(c) ==
    LET x == call[c].row IN
    /\ call[c].op = "remove"
    /\ There(x)
    /\ Moved({x}, {}, "INVENTORY")
    /\ inv' = inv \cup {Kept(x, NoSlot)}
    /\ miners' = miners \ Now({x})
    /\ rack' = Released({x})
    /\ End(c)
    /\ UNCHANGED vault

\* moveMachine reads the machine and those in its way, but the one before in time.
MoveRead(c, x, s) ==
    /\ x \in miners
    /\ Fits(x.m, s)
    /\ Begin(c, [Idle EXCEPT !.op = "move", !.row = x, !.slot = s,
                             !.seen = Starting(x.m, s) \ {x}])

MoveWrite(c) ==
    LET x == call[c].row
        s == call[c].slot
        D == call[c].seen \cup {y \in Before(s) : Ref(y) # Ref(x)}
    IN  /\ call[c].op = "move"
        /\ There(x) /\ \A y \in call[c].seen : There(y)
        /\ SlotFree(s, Now(D \cup {x}))
        /\ Moved({}, D, "INVENTORY")
        /\ inv' = inv \cup Displaced(D)
        /\ miners' = (miners \ Now(D \cup {x})) \cup {[x EXCEPT !.slot = s]}
        /\ rack' = Released(D)
        /\ End(c)
        /\ UNCHANGED vault

Free(r) == rack[r] = [miner |-> NoRef, blocked |-> NoRef]

\* installMiner of a room: rack and neighbour are looked at before the transaction.
InstallRead(c, x, r) ==
    /\ x \in inv
    /\ Free(r)
    /\ Size[x.m] = 2 => /\ r % Columns <= Columns - 2
                        /\ r + 1 \in Racks /\ Free(r + 1)
    /\ Begin(c, [Idle EXCEPT !.op = "install", !.row = x, !.rack = r])

InstallWrite(c) ==
    LET x == call[c].row
        r == call[c].rack
        new == <<x.m, ids[x.m] + 1>>
    IN  /\ call[c].op = "install"
        /\ x \in inv
        /\ SlotFree(RackSlot(r), {})
        /\ Moved({x}, {}, "RACK")
        /\ miners' = miners \cup {Kept(x, RackSlot(r))}
        /\ inv' = inv \ {x}
        /\ rack' = [q \in Racks |->
                       CASE q = r -> [rack[q] EXCEPT !.miner = new]
                         [] q = r + 1 /\ Size[x.m] = 2 -> [rack[q] EXCEPT !.blocked = new]
                         [] OTHER -> rack[q]]
        /\ End(c)
        /\ UNCHANGED vault

\* uninstallMiner
UninstallRead(c, r) ==
    /\ \E x \in miners :
          /\ Ref(x) = rack[r].miner
          /\ Begin(c, [Idle EXCEPT !.op = "uninstall", !.row = x, !.rack = r])

\* moveRackMinerBackToInventoryTx for the machines of racks R.
TakenBack(R, S) ==
    /\ Moved(S, {}, "INVENTORY")
    /\ inv' = inv \cup {Kept(x, NoSlot) : x \in S}
    /\ miners' = miners \ Now(S)
    /\ rack' = [r \in Racks |-> [Released(S)[r] EXCEPT !.miner = IF r \in R THEN NoRef ELSE @]]
    /\ UNCHANGED vault

UninstallWrite(c) ==
    /\ call[c].op = "uninstall"
    /\ There(call[c].row)
    /\ TakenBack({call[c].rack}, {call[c].row})
    /\ End(c)

\* uninstallMinerBatch reads in its transaction.
UninstallBatch(R) ==
    LET S == {x \in miners : \E r \in R : rack[r].miner = Ref(x)} IN
    /\ R # {}
    /\ \A r \in R : rack[r].miner # NoRef
    /\ TakenBack(R, S)
    /\ UNCHANGED call

-----------------------------------------------------------------------------
Next ==
    \/ \E S \in SUBSET inv : MoveToVault(S)
    \/ \E S \in SUBSET vault : RetrieveToInventory(S)
    \/ \E x \in miners : MoveRackToVault(x)
    \/ \E x \in vault, s \in Slots : RetrieveToRack(x, s)
    \/ \E x \in inv, s \in Slots : InstallInventoryItem(x, s)
    \/ \E x \in inv : RemoveInventoryItem(x)
    \/ \E R \in SUBSET Racks : UninstallBatch(R)
    \/ \E c \in Clients :
          \/ \E x \in miners : RemoveRead(c, x) \/ \E s \in Slots : MoveRead(c, x, s)
          \/ \E x \in inv, r \in Racks : InstallRead(c, x, r)
          \/ \E r \in Racks : UninstallRead(c, r)
          \/ RemoveWrite(c) \/ MoveWrite(c) \/ InstallWrite(c) \/ UninstallWrite(c)
          \/ GiveUp(c)

Spec == Init /\ [][Next]_vars

-----------------------------------------------------------------------------
(* Properties.                                                             *)

AllRows == inv \cup miners \cup vault

\* A machine has one row in one table, however its moves overlap: none is doubled by two
\* requests that both read it before either wrote.
OneRowPerMachine ==
    /\ inv \cap vault = {} /\ (inv \cup vault) \cap miners = {}
    /\ \A x, y \in AllRows : x.m = y.m => x = y

\* The owned row of a machine says the table it is in, and no other row has it
\* ("Vault row present but canonical owned-machine location is not WAREHOUSE",
\* vaultController.ts:357).
OwnedLocationAgrees ==
    /\ \A x \in inv    : x.om # 0 => owned[x.m][x.om] = "INVENTORY"
    /\ \A x \in miners : x.om # 0 => owned[x.m][x.om] = "RACK"
    /\ \A x \in vault  : x.om # 0 => owned[x.m][x.om] = "WAREHOUSE"

\* No rack is held or blocked by a machine that is not installed: blocked_by_miner_id is
\* not a foreign key (rackMinerRelease.ts:3), and a rack so blocked stays unusable.
NoDanglingRack ==
    \A r \in Racks : {rack[r].miner, rack[r].blocked} \subseteq {Ref(x) : x \in miners} \cup {NoRef}

\* The player sees each machine at one place, and it leaves only when removed.
Place == [m \in Machines |-> CASE \E x \in inv : x.m = m    -> "inventory"
                               [] \E x \in miners : x.m = m -> "rack"
                               [] \E x \in vault : x.m = m  -> "warehouse"
                               [] OTHER                     -> "gone"]
Promise == INSTANCE MachinePlaces WITH place <- Place
ImplementsPlaces == Promise!Spec

-----------------------------------------------------------------------------
(* Stated by the code or its comments, and not kept by it: see README.md,  *)
(* section 5.                                                              *)

\* "exactly one of inventory / rack miner / vault row points here" (schema.prisma:513).
OwnedRowsPointedTo ==
    \A m \in Machines : \A k \in DOMAIN owned[m] :
        owned[m][k] # "deleted" => \E x \in AllRows : x.m = m /\ x.om = k

\* "Este rack ja esta ocupado." (roomsController.ts:348): a rack is not both held and
\* blocked by another machine.
RackHeldOnce == \A r \in Racks : rack[r].miner = NoRef \/ rack[r].blocked = NoRef

\* A 2-slot machine and another one do not share a slot ("Check for 2-slot overlaps from
\* previous slot", machinesController.ts:210).
SlotsDisjoint ==
    \A x, y \in miners : (x # y /\ {x.slot, y.slot} \subseteq Slots) =>
        Span(x.m, x.slot) \cap Span(y.m, y.slot) = {}
=============================================================================
