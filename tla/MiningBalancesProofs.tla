------------------------ MODULE MiningBalancesProofs ------------------------
(***************************************************************************)
(* Theorems about MiningBalances, for any number of players, saves,        *)
(* reloads, blocks and attempts: what the engine keeps in memory never     *)
(* costs a player more than was bought, and a block is paid once.          *)
(***************************************************************************)
EXTENDS MiningBalances, FiniteSetTheorems, TLAPS

\* A save at work holds the row of a player; a settlement is of a block within the bound.
SavesHaveUsers   == \A s \in Savers : save[s].user \in Users <=> save[s].pc # "idle"
BlocksWithin     == /\ Settling => block <= MaxBlocks
                    /\ payouts[MaxBlocks + 1] = 0

TypeInv == TypeOK /\ SavesHaveUsers /\ BlocksWithin

LEMMA ConstantTypes ==
    /\ NoUser \notin Users /\ IsFiniteSet(Users) /\ Movers \subseteq Users
    /\ Funds \in Nat /\ BlockReward \in Nat /\ Commission \in Nat /\ Cost \in Nat
    /\ MaxBlocks \in Nat /\ MaxAttempts \in Nat /\ MaxAttempts >= 1
    /\ Blocks \subseteq Nat /\ 1 \in Blocks /\ MaxBlocks + 1 \in Blocks
BY MiningAssumption DEF Blocks

-----------------------------------------------------------------------------
(* Rewards.                                                                *)

LEMMA RewardType ==
    ASSUME NEW S \in SUBSET Users, S # {}
    PROVE  Reward(S) \in Nat
<1>1. Cardinality(S) \in Nat /\ Cardinality(S) # 0
  BY ConstantTypes, FS_Subset, FS_CardinalityType, FS_EmptySet
<1> DEFINE n == Cardinality(S)
<1>2. n \in Nat /\ n > 0
  BY <1>1
<1>3. BlockReward \div n \in Nat
  <2> HIDE DEF n
  <2> QED BY <1>2, ConstantTypes
<1> QED BY <1>3 DEF Reward

LEMMA ReferredType ==
    ASSUME NEW S \in SUBSET Users, NEW u
    PROVE  Referred(u, S) \in Nat
<1> DEFINE T == {v \in S : Referrer[v] = u}
<1>1. IsFiniteSet(T)
  BY ConstantTypes, FS_Subset
<1>2. Cardinality(T) \in Nat
  BY <1>1, FS_CardinalityType
<1> DEFINE n == Cardinality(T)
<1>3. n * Commission \in Nat
  <2>1. n \in Nat /\ Commission \in Nat
    BY <1>2, ConstantTypes
  <2> HIDE DEF n
  <2> QED BY <2>1
<1> QED BY <1>3 DEF Referred

LEMMA EarnedType ==
    ASSUME NEW S \in SUBSET Users, NEW u
    PROVE  Earned(u, S) \in Nat
BY RewardType, ReferredType DEF Earned

-----------------------------------------------------------------------------
(* Types.                                                                  *)

LEMMA MinerType ==
    ASSUME NEW m \in Miner, NEW n \in Int
    PROVE  /\ Shift(m, n) \in Miner
           /\ Shift(m, n).balance - Shift(m, n).last = m.balance - m.last
BY DEF Shift, Miner

LEMMA JoinedType ==
    ASSUME NEW f \in [Users -> Int]
    PROVE  /\ Joined(f) \in [Users -> Miner]
           /\ \A u \in Users : Joined(f)[u].balance = Joined(f)[u].last
BY DEF Joined, Miner

SaveState == [pc : {"idle", "write", "commit"}, user : Users \cup {NoUser}, delta : Int]
ViewState == [user : Users \cup {NoUser}, balance : Int]
Settlement == [attempt : 0 .. MaxAttempts, paid : SUBSET Users, snap : [Users -> Miner]]

LEMMA IdleTypes ==
    /\ IdleSave \in SaveState /\ IdleSave.user = NoUser /\ IdleSave.pc = "idle"
    /\ IdleView \in ViewState
BY DEF IdleSave, IdleView, SaveState, ViewState

LEMMA InitTypeInv == Init => TypeInv
<1> SUFFICES ASSUME Init PROVE TypeInv
  OBVIOUS
<1>1. db \in [Users -> Int] /\ due \in [Users -> Int] /\ owed \in [Users -> Int]
  BY ConstantTypes DEF Init
<1>2. mem \in [Users -> Miner]
  BY <1>1, JoinedType DEF Init
<1>3. settle \in Settlement
  BY <1>2, ConstantTypes DEF Init, Settlement
<1>4. save \in [Savers -> SaveState] /\ view \in [Readers -> ViewState]
  BY IdleTypes DEF Init
<1>5. payouts \in [Blocks -> Nat] /\ payouts[MaxBlocks + 1] = 0
  BY ConstantTypes DEF Init
<1>6. SavesHaveUsers /\ BlocksWithin
  BY <1>5, IdleTypes, ConstantTypes DEF Init, SavesHaveUsers, BlocksWithin, Settling
<1> QED
  BY <1>1, <1>2, <1>3, <1>4, <1>5, <1>6, ConstantTypes
     DEF Init, TypeInv, TypeOK, Settlement, SaveState, ViewState

\* A settlement begins, is paid, or fails.
LEMMA StartType ==
    ASSUME TypeInv, SettleStart
    PROVE  /\ TypeInv'
           /\ \A u \in Users : mem'[u].balance - mem'[u].last = Unsaved(u)
           /\ settle'.snap = mem /\ UNCHANGED save
<1>1. Reward(work) \in Nat
  BY RewardType DEF SettleStart, TypeInv, TypeOK
<1>2. \A u \in Users : Shift(mem[u], Reward(work)) \in Miner
                       /\ Shift(mem[u], Reward(work)).balance - Shift(mem[u], Reward(work)).last
                            = Unsaved(u)
  <2>1. Reward(work) \in Int /\ \A u \in Users : mem[u] \in Miner
    BY <1>1 DEF TypeInv, TypeOK
  <2> QED BY <2>1, MinerType DEF Unsaved
<1>3. mem' \in [Users -> Miner]
      /\ \A u \in Users : mem'[u].balance - mem'[u].last = Unsaved(u)
  BY <1>2 DEF SettleStart, TypeInv, TypeOK, Unsaved
<1>4. settle' \in Settlement /\ settle'.snap = mem
  BY ConstantTypes DEF SettleStart, Settlement, TypeInv, TypeOK
<1> QED
  BY <1>3, <1>4 DEF SettleStart, TypeInv, TypeOK, disk, Settlement, SavesHaveUsers,
                    BlocksWithin, Settling

LEMMA PayType ==
    ASSUME TypeInv, Settling, Pay
    PROVE  /\ db' \in [Users -> Int] /\ due' \in [Users -> Int] /\ payouts' \in [Blocks -> Nat]
           /\ payouts[block] = 0 /\ payouts'[block] = 1
           /\ \A b \in Blocks : b # block => payouts'[b] = payouts[b]
           /\ payouts'[MaxBlocks + 1] = 0
           /\ \A u \in Users : db'[u] - due'[u] = db[u] - due[u]
           /\ \A u \in Users : ~RowFree(u) => db'[u] = db[u] /\ due'[u] = due[u]
<1>1. settle.paid \in SUBSET Users
  BY DEF TypeInv, TypeOK
<1>2. \A u \in Users : Earned(u, settle.paid) \in Nat
  BY <1>1, EarnedType
<1>3. \A u \in Users : Earned(u, settle.paid) > 0 => RowFree(u)
  BY DEF Pay, CanPay
<1>4. /\ db' \in [Users -> Int] /\ due' \in [Users -> Int]
      /\ \A u \in Users : db'[u] - due'[u] = db[u] - due[u]
      /\ \A u \in Users : ~RowFree(u) => db'[u] = db[u] /\ due'[u] = due[u]
  <2> DEFINE E(u) == Earned(u, settle.paid)
  <2>1. /\ db' = [u \in Users |-> db[u] + E(u)] /\ due' = [u \in Users |-> due[u] + E(u)]
        /\ \A u \in Users : E(u) \in Nat /\ (E(u) > 0 => RowFree(u))
    BY <1>2, <1>3 DEF Pay
  <2>2. db \in [Users -> Int] /\ due \in [Users -> Int]
    BY DEF TypeInv, TypeOK
  <2> HIDE DEF E
  <2> QED BY <2>1, <2>2
<1>5. block \in Blocks /\ payouts[block] = 0 /\ payouts \in [Blocks -> Nat]
      /\ block # MaxBlocks + 1 /\ payouts[MaxBlocks + 1] = 0
  BY ConstantTypes DEF Pay, CanPay, TypeInv, TypeOK, BlocksWithin
<1>6. payouts' = [payouts EXCEPT ![block] = payouts[block] + 1]
  BY DEF Pay
<1>7. /\ payouts' \in [Blocks -> Nat] /\ payouts'[block] = 1
      /\ \A b \in Blocks : b # block => payouts'[b] = payouts[b]
  BY <1>5, <1>6
<1> QED BY <1>4, <1>5, <1>7, ConstantTypes

LEMMA EndType ==
    ASSUME TypeInv, Settling, mem' \in [Users -> Miner], EndSettle
    PROVE  /\ settle' \in Settlement /\ settle'.snap = mem' /\ ~Settling'
           /\ work' \subseteq Users /\ block' \in Blocks
<1>1. block \in 1 .. MaxBlocks
  BY ConstantTypes DEF TypeInv, TypeOK, BlocksWithin, Blocks
<1> QED
  BY <1>1, ConstantTypes DEF EndSettle, Settlement, Settling, TypeInv, TypeOK, Blocks

LEMMA PaidType ==
    ASSUME TypeInv, SettlePaid
    PROVE  /\ TypeInv'
           /\ \A u \in Users : mem'[u].balance - mem'[u].last = Unsaved(u)
           /\ settle'.snap = mem' /\ UNCHANGED save
<1>1. \A u \in Users : Shift(mem[u], Referred(u, settle.paid)) \in Miner
        /\ Shift(mem[u], Referred(u, settle.paid)).balance
             - Shift(mem[u], Referred(u, settle.paid)).last = Unsaved(u)
  <2>1. \A u \in Users : Referred(u, settle.paid) \in Int /\ mem[u] \in Miner
    BY ReferredType DEF TypeInv, TypeOK
  <2> QED BY <2>1, MinerType DEF Unsaved
<1>2. mem' \in [Users -> Miner]
      /\ \A u \in Users : mem'[u].balance - mem'[u].last = Unsaved(u)
  BY <1>1 DEF SettlePaid
<1>3. /\ settle' \in Settlement /\ settle'.snap = mem' /\ ~Settling'
      /\ work' \subseteq Users /\ block' \in Blocks
  BY <1>2, EndType DEF SettlePaid
<1>4. db' \in [Users -> Int] /\ due' \in [Users -> Int] /\ payouts' \in [Blocks -> Nat]
      /\ payouts'[MaxBlocks + 1] = 0
  BY PayType DEF SettlePaid
<1> QED
  BY <1>2, <1>3, <1>4 DEF SettlePaid, TypeInv, TypeOK, Settlement, SavesHaveUsers, BlocksWithin

\* The rows and the count of payouts after an attempt that failed.
LEMMA AttemptType ==
    ASSUME TypeInv, SettleError
    PROVE  /\ db' \in [Users -> Int] /\ due' \in [Users -> Int] /\ payouts' \in [Blocks -> Nat]
           /\ payouts'[MaxBlocks + 1] = 0
<1>1. Settling /\ (UNCHANGED disk \/ Pay)
  BY DEF SettleError
<1>2. CASE UNCHANGED disk
  BY <1>2 DEF disk, TypeInv, TypeOK, BlocksWithin
<1>3. CASE Pay
  BY <1>1, <1>3, PayType
<1> QED BY <1>1, <1>2, <1>3

\* Another attempt, or the rollback.
TriesAgain == /\ settle.attempt < MaxAttempts
              /\ settle' = [settle EXCEPT !.attempt = settle.attempt + 1]
              /\ UNCHANGED <<mem, work, block, failed, clobbered>>
RollsBack ==
    /\ mem' = [u \in Users |-> IF u \in settle.paid THEN TakenBack(u) ELSE mem[u]]
    /\ failed' = failed \cup {block}
    /\ clobbered' = clobbered \cup
          {u \in settle.paid : mem[u] # Shift(settle.snap[u], Reward(settle.paid))}
    /\ EndSettle

LEMMA RetryForms == RetrySettle => TriesAgain \/ RollsBack
BY DEF RetrySettle, TriesAgain, RollsBack

LEMMA RollbackType ==
    ASSUME TypeInv, Settling, RollsBack
    PROVE  /\ mem' \in [Users -> Miner]
           /\ \A u \in Users : mem'[u] = IF u \in settle.paid THEN settle.snap[u] ELSE mem[u]
           /\ clobbered \subseteq clobbered' /\ clobbered' \subseteq Users
           /\ \A u \in settle.paid : u \notin clobbered' =>
                 mem[u] = Shift(settle.snap[u], Reward(settle.paid))
           /\ failed' \subseteq Blocks
           /\ settle' \in Settlement /\ settle'.snap = mem' /\ ~Settling'
           /\ work' \subseteq Users /\ block' \in Blocks
<1>1. /\ mem' \in [Users -> Miner]
      /\ \A u \in Users : mem'[u] = IF u \in settle.paid THEN settle.snap[u] ELSE mem[u]
  BY DEF RollsBack, TakenBack, TypeInv, TypeOK
<1>2. /\ settle' \in Settlement /\ settle'.snap = mem' /\ ~Settling'
      /\ work' \subseteq Users /\ block' \in Blocks
  BY <1>1, EndType DEF RollsBack
<1> QED BY <1>1, <1>2 DEF RollsBack, TypeInv, TypeOK

LEMMA ErrorType == ASSUME TypeInv, SettleError PROVE TypeInv'
<1>1. /\ db' \in [Users -> Int] /\ due' \in [Users -> Int] /\ payouts' \in [Blocks -> Nat]
      /\ payouts'[MaxBlocks + 1] = 0
  BY AttemptType
<1>2. Settling /\ UNCHANGED <<save, view, owed, buys, moves>> /\ (TriesAgain \/ RollsBack)
  BY RetryForms DEF SettleError
<1>3. CASE TriesAgain
  <2>1. settle' \in Settlement
    <3>1. settle.attempt + 1 \in 0 .. MaxAttempts /\ settle \in Settlement
      BY <1>3, ConstantTypes DEF TriesAgain, Settlement, TypeInv, TypeOK
    <3> QED BY <1>3, <3>1 DEF TriesAgain, Settlement
  <2>2. Settling' => block' <= MaxBlocks
    BY <1>2, <1>3 DEF TriesAgain, TypeInv, BlocksWithin
  <2> QED
    BY <1>1, <1>2, <1>3, <2>1, <2>2
       DEF TriesAgain, TypeInv, TypeOK, Settlement, SavesHaveUsers, BlocksWithin
<1>4. CASE RollsBack
  <2>1. /\ mem' \in [Users -> Miner] /\ clobbered' \subseteq Users /\ failed' \subseteq Blocks
        /\ settle' \in Settlement /\ ~Settling' /\ work' \subseteq Users /\ block' \in Blocks
    BY <1>2, <1>4, RollbackType
  <2> QED
    BY <1>1, <1>2, <2>1 DEF TypeInv, TypeOK, Settlement, SavesHaveUsers, BlocksWithin
<1> QED BY <1>2, <1>3, <1>4

LEMMA CrashType ==
    ASSUME TypeInv, Crash
    PROVE  /\ TypeInv'
           /\ \A u \in Users : mem'[u].balance = mem'[u].last
           /\ settle'.snap = mem' /\ \A s \in Savers : save'[s] = IdleSave
<1>1. mem' \in [Users -> Miner] /\ \A u \in Users : mem'[u].balance = mem'[u].last
  BY JoinedType DEF Crash, TypeInv, TypeOK
<1>2. settle' \in Settlement /\ settle'.snap = mem' /\ ~Settling'
  BY <1>1, ConstantTypes DEF Crash, Settlement, Settling
<1>3. save' \in [Savers -> SaveState] /\ view' \in [Readers -> ViewState]
      /\ \A s \in Savers : save'[s] = IdleSave
  BY IdleTypes DEF Crash
<1>4. block' \in Blocks
  <2>1. CASE block' = 1
    BY <2>1, ConstantTypes
  <2>2. ASSUME NEW b \in Stored, block' = b + 1
        PROVE  block' \in Blocks
    <3>1. b \in 0 .. MaxBlocks
      BY ConstantTypes DEF Stored, Blocks, TypeInv, TypeOK, BlocksWithin
    <3> QED BY <2>2, <3>1, ConstantTypes DEF Blocks
  <2> QED BY <2>1, <2>2 DEF Crash
<1>5. owed' \in [Users -> Int] /\ work' = {} /\ failed' = {}
      /\ UNCHANGED <<db, payouts, due, clobbered, buys, moves>>
  BY DEF Crash, disk
<1>6. SavesHaveUsers'
  BY <1>3, IdleTypes, ConstantTypes DEF SavesHaveUsers
<1> QED
  BY <1>1, <1>2, <1>3, <1>4, <1>5, <1>6
     DEF TypeInv, TypeOK, Settlement, SaveState, ViewState, BlocksWithin

\* A save takes the row of a player, whose unsaved part it will write.
LEMMA LockType ==
    ASSUME TypeInv, NEW s \in Savers, NEW u \in Users, SaveLock(s, u)
    PROVE  /\ TypeInv' /\ RowFree(u) /\ save[s].pc = "idle"
           /\ save'[s].pc = "write" /\ save'[s].user = u /\ save'[s].delta = Unsaved(u)
           /\ \A t \in Savers : t # s => save'[t] = save[t]
           /\ UNCHANGED <<db, due, mem, clobbered, settle, buys, payouts>>
<1>1. Unsaved(u) \in Int
  BY DEF Unsaved, TypeInv, TypeOK, Miner
<1>2. [pc |-> "write", user |-> u, delta |-> Unsaved(u)] \in SaveState
  BY <1>1 DEF SaveState
<1>3. /\ save' \in [Savers -> SaveState]
      /\ save'[s] = [pc |-> "write", user |-> u, delta |-> Unsaved(u)]
      /\ \A t \in Savers : t # s => save'[t] = save[t]
  BY <1>2 DEF SaveLock, TypeInv, TypeOK, SaveState
<1>4. SavesHaveUsers'
  BY <1>3 DEF SavesHaveUsers, TypeInv
<1> QED
  BY <1>3, <1>4 DEF SaveLock, TypeInv, TypeOK, SaveState, disk, BlocksWithin, Settling

\* What the two later steps of a save do.
Aborts(s) == /\ save' = [save EXCEPT ![s] = IdleSave]
             /\ UNCHANGED <<db, mem>>
Writes(s) == /\ mem' = [mem EXCEPT ![save[s].user].last = mem[save[s].user].balance]
             /\ save' = [save EXCEPT ![s].pc = "commit"]
             /\ UNCHANGED db
Lands(s)  == /\ db' = [db EXCEPT ![save[s].user] = db[save[s].user] + save[s].delta]
             /\ save' = [save EXCEPT ![s] = IdleSave]
             /\ UNCHANGED mem

LEMMA SaveForms ==
    ASSUME NEW s \in Savers, SaveWrite(s) \/ SaveCommit(s)
    PROVE  /\ UNCHANGED <<payouts, due, work, block, settle, failed, clobbered, view, owed,
                          buys, moves>>
           /\ save[s].pc \in {"write", "commit"}
           /\ \/ Aborts(s)
              \/ save[s].pc = "write" /\ Writes(s)
              \/ save[s].pc = "commit" /\ Lands(s)
BY DEF SaveWrite, SaveCommit, SaveAborts, Aborts, Writes, Lands

LEMMA AbortEffect ==
    ASSUME TypeInv, NEW s \in Savers, Aborts(s)
    PROVE  /\ save' \in [Savers -> SaveState] /\ SavesHaveUsers'
           /\ save'[s] = IdleSave /\ \A t \in Savers : t # s => save'[t] = save[t]
<1>1. /\ save' \in [Savers -> SaveState]
      /\ save'[s] = IdleSave /\ \A t \in Savers : t # s => save'[t] = save[t]
  BY IdleTypes DEF Aborts, TypeInv, TypeOK, SaveState
<1> QED BY <1>1, IdleTypes, ConstantTypes DEF SavesHaveUsers, TypeInv

LEMMA WriteEffect ==
    ASSUME TypeInv, NEW s \in Savers, save[s].pc = "write", Writes(s)
    PROVE  /\ save' \in [Savers -> SaveState] /\ SavesHaveUsers' /\ save[s].user \in Users
           /\ save'[s].pc = "commit" /\ save'[s].user = save[s].user
           /\ save'[s].delta = save[s].delta
           /\ \A t \in Savers : t # s => save'[t] = save[t]
           /\ mem' \in [Users -> Miner]
           /\ mem'[save[s].user].last = mem[save[s].user].balance
           /\ mem'[save[s].user].balance = mem[save[s].user].balance
           /\ \A u \in Users : u # save[s].user => mem'[u] = mem[u]
<1> DEFINE u == save[s].user
<1>1. u \in Users
  BY DEF TypeInv, SavesHaveUsers
<1>2. /\ save' \in [Savers -> SaveState]
      /\ save'[s].pc = "commit" /\ save'[s].user = save[s].user
      /\ save'[s].delta = save[s].delta
      /\ \A t \in Savers : t # s => save'[t] = save[t]
  BY DEF Writes, TypeInv, TypeOK, SaveState
<1>3. /\ mem' \in [Users -> Miner] /\ mem'[u].last = mem[u].balance
      /\ mem'[u].balance = mem[u].balance
      /\ \A v \in Users : v # u => mem'[v] = mem[v]
  BY <1>1 DEF Writes, TypeInv, TypeOK, Miner
<1>4. SavesHaveUsers'
  BY <1>1, <1>2 DEF SavesHaveUsers, TypeInv
<1> QED BY <1>1, <1>2, <1>3, <1>4

LEMMA LandEffect ==
    ASSUME TypeInv, NEW s \in Savers, save[s].pc = "commit", Lands(s)
    PROVE  /\ save' \in [Savers -> SaveState] /\ SavesHaveUsers' /\ save[s].user \in Users
           /\ save'[s] = IdleSave /\ \A t \in Savers : t # s => save'[t] = save[t]
           /\ db' \in [Users -> Int]
           /\ db'[save[s].user] = db[save[s].user] + save[s].delta
           /\ \A u \in Users : u # save[s].user => db'[u] = db[u]
<1>1. save[s].user \in Users /\ save[s].delta \in Int
  BY DEF TypeInv, SavesHaveUsers, TypeOK
<1>2. /\ save' \in [Savers -> SaveState]
      /\ save'[s] = IdleSave /\ \A t \in Savers : t # s => save'[t] = save[t]
  BY IdleTypes DEF Lands, TypeInv, TypeOK, SaveState
<1>3. /\ db' \in [Users -> Int]
      /\ db'[save[s].user] = db[save[s].user] + save[s].delta
      /\ \A u \in Users : u # save[s].user => db'[u] = db[u]
  BY <1>1 DEF Lands, TypeInv, TypeOK
<1>4. SavesHaveUsers'
  BY <1>2, IdleTypes, ConstantTypes DEF SavesHaveUsers, TypeInv
<1> QED BY <1>1, <1>2, <1>3, <1>4

LEMMA SaveType ==
    ASSUME TypeInv, NEW s \in Savers, SaveWrite(s) \/ SaveCommit(s)
    PROVE  TypeInv'
<1>1. UNCHANGED <<payouts, due, work, block, settle, failed, clobbered, view, owed, buys, moves>>
  BY SaveForms
<1>2. /\ save' \in [Savers -> SaveState] /\ SavesHaveUsers'
      /\ db' \in [Users -> Int] /\ mem' \in [Users -> Miner]
  <2>1. CASE Aborts(s)
    BY <2>1, AbortEffect DEF Aborts, TypeInv, TypeOK
  <2>2. CASE save[s].pc = "write" /\ Writes(s)
    BY <2>2, WriteEffect DEF Writes, TypeInv, TypeOK
  <2>3. CASE save[s].pc = "commit" /\ Lands(s)
    BY <2>3, LandEffect DEF Lands, TypeInv, TypeOK
  <2> QED BY <2>1, <2>2, <2>3, SaveForms
<1> QED BY <1>1, <1>2 DEF TypeInv, TypeOK, SaveState, BlocksWithin, Settling

\* A purchase of the engine, a change of the row, a delta, and a reload.
LEMMA BuyType ==
    ASSUME TypeInv, NEW u \in Users, Buy(u)
    PROVE  /\ TypeInv' /\ buys' > 0
           /\ mem'[u].balance = mem[u].balance - Cost /\ mem'[u].last = mem[u].last
           /\ due'[u] = due[u] - Cost
           /\ \A v \in Users : v # u => mem'[v] = mem[v] /\ due'[v] = due[v]
           /\ UNCHANGED <<db, save, settle, clobbered, payouts>>
<1>1. /\ mem' \in [Users -> Miner]
      /\ mem'[u].balance = mem[u].balance - Cost /\ mem'[u].last = mem[u].last
      /\ \A v \in Users : v # u => mem'[v] = mem[v]
  BY ConstantTypes DEF Buy, TypeInv, TypeOK, Miner
<1>2. /\ due' \in [Users -> Int] /\ due'[u] = due[u] - Cost
      /\ \A v \in Users : v # u => due'[v] = due[v]
  BY ConstantTypes DEF Buy, TypeInv, TypeOK
<1>3. buys' \in Nat /\ buys' > 0
  BY DEF Buy, TypeInv, TypeOK
<1> QED
  BY <1>1, <1>2, <1>3 DEF Buy, TypeInv, TypeOK, SavesHaveUsers, BlocksWithin, Settling

LEMMA MoveType ==
    ASSUME TypeInv, NEW u \in Users, NEW n \in {-1, 1}, Move(u, n)
    PROVE  /\ TypeInv' /\ RowFree(u)
           /\ \A v \in Users : db'[v] - due'[v] = db[v] - due[v]
           /\ \A v \in Users : v # u => db'[v] = db[v] /\ due'[v] = due[v]
           /\ UNCHANGED <<mem, save, settle, clobbered, payouts, buys>>
<1>1. /\ db' \in [Users -> Int] /\ due' \in [Users -> Int] /\ owed' \in [Users -> Int]
      /\ db'[u] = db[u] + n /\ due'[u] = due[u] + n
      /\ \A v \in Users : v # u => db'[v] = db[v] /\ due'[v] = due[v]
  BY DEF Move, TypeInv, TypeOK
<1>2. \A v \in Users : db'[v] - due'[v] = db[v] - due[v]
  <2>1. n \in Int /\ \A v \in Users : db[v] \in Int /\ due[v] \in Int
    BY DEF TypeInv, TypeOK
  <2> TAKE v \in Users
  <2>2. CASE v = u
    BY <1>1, <2>1, <2>2
  <2>3. CASE v # u
    BY <1>1, <2>3
  <2> QED BY <2>2, <2>3
<1>3. moves' \in Nat
  BY DEF Move, TypeInv, TypeOK
<1> QED
  BY <1>1, <1>2, <1>3 DEF Move, TypeInv, TypeOK, SavesHaveUsers, BlocksWithin, Settling

LEMMA TellType ==
    ASSUME TypeInv, NEW u \in Users, Tell(u)
    PROVE  /\ TypeInv'
           /\ \A v \in Users : mem'[v].balance - mem'[v].last = Unsaved(v)
           /\ UNCHANGED <<db, due, save, settle, clobbered, payouts, buys>>
<1>1. owed[u] \in Int /\ mem[u] \in Miner /\ mem \in [Users -> Miner]
  BY DEF TypeInv, TypeOK
<1>2. Shift(mem[u], owed[u]) \in Miner
      /\ Shift(mem[u], owed[u]).balance - Shift(mem[u], owed[u]).last = Unsaved(u)
  BY <1>1, MinerType DEF Unsaved
<1>3. mem' = [mem EXCEPT ![u] = Shift(mem[u], owed[u])]
  BY DEF Tell
<1>4. /\ mem' \in [Users -> Miner]
      /\ \A v \in Users : mem'[v].balance - mem'[v].last = Unsaved(v)
  BY <1>1, <1>2, <1>3 DEF Unsaved
<1>5. owed' \in [Users -> Int]
  BY DEF Tell, TypeInv, TypeOK
<1> QED
  BY <1>4, <1>5 DEF Tell, disk, TypeInv, TypeOK, SavesHaveUsers, BlocksWithin, Settling

LEMMA ReloadType ==
    ASSUME TypeInv, NEW r \in Readers, ReloadApply(r)
    PROVE  /\ TypeInv'
           /\ \A u \in Users : \/ mem'[u] = mem[u]
                               \/ mem'[u].balance = mem'[u].last
           /\ UNCHANGED <<db, due, save, settle, clobbered, payouts, buys>>
<1> DEFINE b == view[r].balance
           u == view[r].user
<1>1. b \in Int /\ u \in Users /\ mem \in [Users -> Miner]
  BY DEF ReloadApply, TypeInv, TypeOK
<1>2. \/ mem' = mem
      \/ mem' = [mem EXCEPT ![u] = [balance |-> b, last |-> b]]
  BY DEF ReloadApply
<1>3. [balance |-> b, last |-> b] \in Miner
  BY <1>1 DEF Miner
<1>4. /\ mem' \in [Users -> Miner]
      /\ \A v \in Users : mem'[v] = mem[v] \/ mem'[v].balance = mem'[v].last
  BY <1>1, <1>2, <1>3
<1>5. view' \in [Readers -> ViewState]
  BY IdleTypes DEF ReloadApply, TypeInv, TypeOK, ViewState
<1> QED
  BY <1>4, <1>5 DEF ReloadApply, disk, TypeInv, TypeOK, ViewState, SavesHaveUsers,
                    BlocksWithin, Settling

LEMMA ReadType ==
    ASSUME TypeInv, NEW r \in Readers, NEW u \in Users, ReloadRead(r, u)
    PROVE  TypeInv' /\ UNCHANGED <<db, due, mem, save, settle, clobbered, payouts, buys>>
<1>1. [user |-> u, balance |-> db[u]] \in ViewState
  BY DEF TypeInv, TypeOK, ViewState
<1>2. view' \in [Readers -> ViewState]
  BY <1>1 DEF ReloadRead, TypeInv, TypeOK, ViewState
<1> QED
  BY <1>2 DEF ReloadRead, disk, TypeInv, TypeOK, ViewState, SavesHaveUsers, BlocksWithin,
              Settling

\* The engine counts work, or passes over a block without any.
Quiet == (\E S \in SUBSET Users : Tick(S)) \/ SettleEmpty

LEMMA QuietType ==
    ASSUME TypeInv, Quiet
    PROVE  TypeInv' /\ UNCHANGED <<db, due, mem, save, settle, clobbered, payouts, buys>>
<1>1. CASE \E S \in SUBSET Users : Tick(S)
  BY <1>1 DEF Tick, disk, TypeInv, TypeOK, SavesHaveUsers, BlocksWithin, Settling
<1>2. CASE SettleEmpty
  <2>1. block' \in Blocks
    BY <1>2, ConstantTypes DEF SettleEmpty, TypeInv, TypeOK, Blocks
  <2> QED
    BY <1>2, <2>1 DEF SettleEmpty, disk, TypeInv, TypeOK, SavesHaveUsers, BlocksWithin, Settling
<1> QED BY <1>1, <1>2 DEF Quiet

LEMMA NextTypeInv == TypeInv /\ [Next]_vars => TypeInv'
<1> SUFFICES ASSUME TypeInv, [Next]_vars PROVE TypeInv'
  OBVIOUS
<1>1. CASE UNCHANGED vars
  BY <1>1 DEF vars, TypeInv, TypeOK, SavesHaveUsers, BlocksWithin, Settling
<1>2. CASE (\E S \in SUBSET Users : Tick(S)) \/ SettleEmpty
  BY <1>2, QuietType DEF Quiet
<1>3. CASE \E u \in Users : Buy(u) \/ Tell(u)
  BY <1>3, BuyType, TellType
<1>4. CASE \E u \in Movers, n \in {-1, 1} : Move(u, n)
  BY <1>4, MoveType, ConstantTypes
<1>5. CASE \E r \in Readers, u \in Movers : ReloadRead(r, u)
  BY <1>5, ReadType, ConstantTypes
<1>6. CASE \E r \in Readers : ReloadApply(r)
  BY <1>6, ReloadType
<1>7. CASE \E s \in Savers, u \in Users : SaveLock(s, u)
  BY <1>7, LockType
<1>8. CASE \E s \in Savers : SaveWrite(s) \/ SaveCommit(s)
  BY <1>8, SaveType
<1>9. CASE SettleStart
  BY <1>9, StartType
<1>10. CASE SettlePaid
  BY <1>10, PaidType
<1>11. CASE SettleError
  BY <1>11, ErrorType
<1>12. CASE Crash
  BY <1>12, CrashType
<1> QED
  BY <1>1, <1>2, <1>3, <1>4, <1>5, <1>6, <1>7, <1>8, <1>9, <1>10, <1>11, <1>12 DEF Next

\* The engine's balances, the rows, the settlement and the saves keep their types.
THEOREM TypingInv == Spec => []TypeInv
BY InitTypeInv, NextTypeInv, PTL DEF Spec

THEOREM Typing == Spec => []TypeOK
<1>1. TypeInv => TypeOK
  BY DEF TypeInv
<1> QED BY <1>1, TypingInv, PTL

-----------------------------------------------------------------------------
(* A block is paid once.                                                   *)

LEMMA NextPaidOnce == TypeInv /\ BlockPaidOnce /\ [Next]_vars => BlockPaidOnce'
<1> SUFFICES ASSUME TypeInv, BlockPaidOnce, [Next]_vars PROVE BlockPaidOnce'
  OBVIOUS
<1>1. payouts' = payouts \/ (Settling /\ Pay)
  BY DEF Next, vars, disk, Tick, Buy, Tell, Move, ReloadRead, ReloadApply, SaveLock, SaveWrite,
         SaveCommit, SettleEmpty, SettleStart, SettlePaid, SettleError, Crash
<1>2. CASE payouts' = payouts
  BY <1>2 DEF BlockPaidOnce
<1>3. CASE Settling /\ Pay
  BY <1>3, PayType DEF BlockPaidOnce
<1> QED BY <1>1, <1>2, <1>3

\* The rewards of a block are committed once, whatever fails, is retried or restarted: a
\* second settlement of a block fails on the unique block number.
THEOREM OnePayout == Spec => []BlockPaidOnce
<1>1. Init => BlockPaidOnce
  BY DEF Init, BlockPaidOnce
<1> QED BY <1>1, TypingInv, NextPaidOnce, PTL DEF Spec

-----------------------------------------------------------------------------
(* What is in memory and not in the row.                                   *)

\* At most one save has the row of a player.
SavesApart ==
    \A s, t \in Savers : save[s].pc # "idle" /\ save[s].user = save[t].user => s = t

\* What a rollback would leave to save.
SnapUnsaved(u) == settle.snap[u].balance - settle.snap[u].last

\* There is never a gain to save, not in the snapshot either.
NoGains ==
    /\ \A u \in Users : Unsaved(u) <= 0 /\ SnapUnsaved(u) <= 0
    /\ \A s \in Savers : save[s].delta <= 0

\* Nor, before the first purchase, anything.
NothingYet ==
    buys = 0 => /\ \A u \in Users : Unsaved(u) = 0 /\ SnapUnsaved(u) = 0 /\ db[u] = due[u]
                /\ \A s \in Savers : save[s].pc = "idle"

\* The row, with what is still to be saved, covers what the player should have, at each
\* point of a save: before it, between its read and its write, and before its commit.
Covered ==
    \A u \in Users \ clobbered :
        /\ db[u] + Unsaved(u) >= due[u]
        /\ \A s \in Savers : save[s].user = u =>
              /\ save[s].pc = "write" => db[u] + save[s].delta >= due[u]
              /\ save[s].pc = "commit" => db[u] + Unsaved(u) + save[s].delta >= due[u]

BooksInv == TypeInv /\ SavesApart /\ NoGains /\ NothingYet /\ Covered

LEMMA BookTypes ==
    ASSUME TypeInv
    PROVE  /\ \A u \in Users : /\ db[u] \in Int /\ due[u] \in Int
                               /\ Unsaved(u) \in Int /\ SnapUnsaved(u) \in Int
           /\ \A s \in Savers : save[s].delta \in Int
BY DEF TypeInv, TypeOK, Unsaved, SnapUnsaved, Miner

\* A step that saves and buys nothing: what is unsaved stays, is dropped in the player's
\* favour, or is what a rollback restores over a change.
Level ==
    /\ UNCHANGED <<save, buys>> /\ clobbered \subseteq clobbered'
    /\ \A u \in Users : db'[u] - due'[u] = db[u] - due[u]
    /\ \A u \in Users : \/ Unsaved(u)' = Unsaved(u)
                        \/ Unsaved(u)' = 0
                        \/ u \in clobbered' /\ Unsaved(u)' = SnapUnsaved(u)
    /\ \A u \in Users : SnapUnsaved(u)' \in {SnapUnsaved(u), Unsaved(u), Unsaved(u)'}

LEMMA LevelKeeps == ASSUME BooksInv, TypeInv', Level PROVE BooksInv'
<1>1. /\ \A u \in Users : /\ db[u] \in Int /\ due[u] \in Int
                          /\ Unsaved(u) \in Int /\ SnapUnsaved(u) \in Int
      /\ \A u \in Users : /\ db'[u] \in Int /\ due'[u] \in Int
                          /\ Unsaved(u)' \in Int /\ SnapUnsaved(u)' \in Int
      /\ \A s \in Savers : save[s].delta \in Int
  BY BookTypes DEF BooksInv, TypeInv, TypeOK, Unsaved, SnapUnsaved, Miner
<1>2. SavesApart'
  BY DEF BooksInv, SavesApart, Level
<1>3. \A u \in Users : Unsaved(u) <= 0 /\ SnapUnsaved(u) <= 0
                       /\ Unsaved(u)' <= 0 /\ SnapUnsaved(u)' <= 0
  BY <1>1 DEF BooksInv, NoGains, Level
<1>4. NoGains'
  BY <1>3 DEF BooksInv, NoGains, Level
<1>5. NothingYet'
  <2> SUFFICES ASSUME buys' = 0
               PROVE  /\ \A u \in Users : Unsaved(u)' = 0 /\ SnapUnsaved(u)' = 0
                                          /\ db'[u] = due'[u]
                      /\ \A s \in Savers : save'[s].pc = "idle"
    BY DEF NothingYet
  <2>1. buys = 0
    BY DEF Level
  <2>2. \A u \in Users : Unsaved(u) = 0 /\ SnapUnsaved(u) = 0 /\ db[u] = due[u]
    BY <2>1 DEF BooksInv, NothingYet
  <2>3. \A u \in Users : Unsaved(u)' = 0 /\ SnapUnsaved(u)' = 0 /\ db'[u] = due'[u]
    BY <1>1, <2>2 DEF Level
  <2> QED BY <2>1, <2>3 DEF BooksInv, NothingYet, Level
<1>6. ASSUME NEW u \in Users \ clobbered'
      PROVE  /\ db'[u] + Unsaved(u)' >= due'[u]
             /\ \A s \in Savers : save'[s].user = u =>
                   /\ save'[s].pc = "write" => db'[u] + save'[s].delta >= due'[u]
                   /\ save'[s].pc = "commit" => db'[u] + Unsaved(u)' + save'[s].delta >= due'[u]
  <2>1. u \in Users \ clobbered /\ Unsaved(u)' >= Unsaved(u)
    BY <1>1, <1>3 DEF Level
  <2>2. db'[u] - due'[u] = db[u] - due[u]
    BY DEF Level
  <2>3. db'[u] + Unsaved(u)' >= due'[u]
    BY <1>1, <2>1, <2>2 DEF BooksInv, Covered
  <2>4. ASSUME NEW s \in Savers, save'[s].user = u
        PROVE  /\ save'[s].pc = "write" => db'[u] + save'[s].delta >= due'[u]
               /\ save'[s].pc = "commit" => db'[u] + Unsaved(u)' + save'[s].delta >= due'[u]
    <3>1. save' = save
      BY DEF Level
    <3>2. /\ save[s].pc = "write" => db[u] + save[s].delta >= due[u]
          /\ save[s].pc = "commit" => db[u] + Unsaved(u) + save[s].delta >= due[u]
      BY <2>1, <2>4, <3>1 DEF BooksInv, Covered
    <3> QED BY <1>1, <2>1, <2>2, <3>1, <3>2
  <2> QED BY <2>3, <2>4
<1>7. Covered'
  BY <1>6 DEF Covered
<1> QED BY <1>2, <1>4, <1>5, <1>7 DEF BooksInv

LEMMA SettleLevel ==
    ASSUME BooksInv, SettleStart \/ SettlePaid
    PROVE  Level
<1>1. CASE SettleStart
  <2>1. UNCHANGED <<db, due, buys, clobbered>>
    BY <1>1 DEF SettleStart, disk
  <2>2. /\ \A u \in Users : mem'[u].balance - mem'[u].last = Unsaved(u)
        /\ settle'.snap = mem /\ UNCHANGED save
    BY <1>1, StartType DEF BooksInv
  <2> QED BY <2>1, <2>2 DEF Level, Unsaved, SnapUnsaved
<1>2. CASE SettlePaid
  <2>1. Settling /\ Pay /\ UNCHANGED <<buys, clobbered>>
    BY <1>2 DEF SettlePaid
  <2>2. \A u \in Users : db'[u] - due'[u] = db[u] - due[u]
    BY <2>1, PayType DEF BooksInv
  <2>3. /\ \A u \in Users : mem'[u].balance - mem'[u].last = Unsaved(u)
        /\ settle'.snap = mem' /\ UNCHANGED save
    BY <1>2, PaidType DEF BooksInv
  <2> QED BY <2>1, <2>2, <2>3 DEF Level, Unsaved, SnapUnsaved
<1> QED BY <1>1, <1>2

LEMMA ErrorLevel ==
    ASSUME BooksInv, SettleError
    PROVE  Level
<1>1. Settling /\ UNCHANGED <<save, buys>> /\ (TriesAgain \/ RollsBack)
  BY RetryForms DEF SettleError
<1>2. \A u \in Users : db'[u] - due'[u] = db[u] - due[u]
  <2>1. UNCHANGED disk \/ Pay
    BY DEF SettleError
  <2>2. CASE UNCHANGED disk
    BY <2>2 DEF disk
  <2>3. CASE Pay
    BY <1>1, <2>3, PayType DEF BooksInv
  <2> QED BY <2>1, <2>2, <2>3
<1>3. CASE TriesAgain
  <2>1. settle'.snap = settle.snap /\ UNCHANGED <<mem, clobbered>>
    BY <1>3 DEF TriesAgain, BooksInv, TypeInv, TypeOK
  <2> QED BY <1>1, <1>2, <2>1 DEF Level, Unsaved, SnapUnsaved
<1>4. CASE RollsBack
  <2>1. /\ \A u \in Users : mem'[u] = IF u \in settle.paid THEN settle.snap[u] ELSE mem[u]
        /\ clobbered \subseteq clobbered'
        /\ \A u \in settle.paid : u \notin clobbered' =>
              mem[u] = Shift(settle.snap[u], Reward(settle.paid))
        /\ settle'.snap = mem'
    BY <1>1, <1>4, RollbackType DEF BooksInv
  <2>2. \A u \in Users : \/ Unsaved(u)' = Unsaved(u)
                         \/ u \in clobbered' /\ Unsaved(u)' = SnapUnsaved(u)
    <3> TAKE u \in Users
    <3>1. CASE u \notin settle.paid
      BY <2>1, <3>1 DEF Unsaved
    <3>2. CASE u \in settle.paid /\ u \in clobbered'
      BY <2>1, <3>2 DEF Unsaved, SnapUnsaved
    <3>3. CASE u \in settle.paid /\ u \notin clobbered'
      <4>1. settle.snap[u] \in Miner /\ settle.paid \in SUBSET Users /\ settle.paid # {}
        BY <3>3 DEF BooksInv, TypeInv, TypeOK
      <4>2. Reward(settle.paid) \in Int
        BY <4>1, RewardType
      <4>3. Unsaved(u) = SnapUnsaved(u)
        BY <2>1, <3>3, <4>1, <4>2, MinerType DEF Unsaved, SnapUnsaved
      <4> QED BY <2>1, <3>3, <4>3 DEF Unsaved, SnapUnsaved
    <3> QED BY <3>1, <3>2, <3>3
  <2>3. \A u \in Users : SnapUnsaved(u)' = Unsaved(u)'
    BY <2>1 DEF Unsaved, SnapUnsaved
  <2> QED BY <1>1, <1>2, <2>1, <2>2, <2>3 DEF Level
<1> QED BY <1>1, <1>3, <1>4

\* The steps of others that are level.
LEMMA QuietLevel ==
    ASSUME BooksInv,
           \/ Quiet
           \/ \E u \in Users : Tell(u) \/ \E n \in {-1, 1} : Move(u, n)
           \/ \E r \in Readers : ReloadApply(r) \/ \E u \in Users : ReloadRead(r, u)
    PROVE  Level
<1> USE DEF Level
<1>1. CASE Quiet
  BY <1>1, QuietType DEF BooksInv, Unsaved, SnapUnsaved
<1>2. CASE \E u \in Users : Tell(u)
  BY <1>2, TellType DEF BooksInv, Unsaved, SnapUnsaved
<1>3. CASE \E u \in Users, n \in {-1, 1} : Move(u, n)
  BY <1>3, MoveType DEF BooksInv, Unsaved, SnapUnsaved
<1>4. CASE \E r \in Readers, u \in Users : ReloadRead(r, u)
  BY <1>4, ReadType DEF BooksInv, Unsaved, SnapUnsaved
<1>5. CASE \E r \in Readers : ReloadApply(r)
  <2>1. PICK r \in Readers : ReloadApply(r)
    BY <1>5
  <2>2. /\ \A u \in Users : mem'[u] = mem[u] \/ mem'[u].balance = mem'[u].last
        /\ UNCHANGED <<db, due, save, settle, clobbered, payouts, buys>>
        /\ mem' \in [Users -> Miner]
    BY <2>1, ReloadType DEF BooksInv, TypeInv, TypeOK
  <2>3. \A u \in Users : Unsaved(u)' = Unsaved(u) \/ Unsaved(u)' = 0
    BY <2>2 DEF Unsaved, Miner
  <2> QED BY <2>2, <2>3 DEF SnapUnsaved
<1> QED BY <1>1, <1>2, <1>3, <1>4, <1>5

LEMMA BuyKeeps ==
    ASSUME BooksInv, NEW u \in Users, Buy(u)
    PROVE  BooksInv'
<1>1. /\ TypeInv' /\ buys' > 0
      /\ mem'[u].balance = mem[u].balance - Cost /\ mem'[u].last = mem[u].last
      /\ due'[u] = due[u] - Cost
      /\ \A v \in Users : v # u => mem'[v] = mem[v] /\ due'[v] = due[v]
      /\ UNCHANGED <<db, save, settle, clobbered, payouts>>
  BY BuyType DEF BooksInv
<1>2. /\ \A v \in Users : /\ db[v] \in Int /\ due[v] \in Int
                          /\ Unsaved(v) \in Int /\ SnapUnsaved(v) \in Int
      /\ \A s \in Savers : save[s].delta \in Int
      /\ Cost \in Nat
  BY BookTypes, ConstantTypes DEF BooksInv
<1>3. /\ Unsaved(u)' = Unsaved(u) - Cost
      /\ \A v \in Users : v # u => Unsaved(v)' = Unsaved(v)
      /\ \A v \in Users : SnapUnsaved(v)' = SnapUnsaved(v)
  <2>1. mem[u].balance \in Int /\ mem[u].last \in Int
    BY DEF BooksInv, TypeInv, TypeOK, Miner
  <2> QED BY <1>1, <1>2, <2>1 DEF Unsaved, SnapUnsaved
<1>4. SavesApart' /\ NothingYet'
  BY <1>1 DEF BooksInv, SavesApart, NothingYet
<1>5. NoGains'
  BY <1>1, <1>2, <1>3 DEF BooksInv, NoGains
<1>6. Covered'
  <2> SUFFICES ASSUME NEW v \in Users \ clobbered
               PROVE  /\ db[v] + Unsaved(v)' >= due'[v]
                      /\ \A s \in Savers : save[s].user = v =>
                            /\ save[s].pc = "write" => db[v] + save[s].delta >= due'[v]
                            /\ save[s].pc = "commit" =>
                                  db[v] + Unsaved(v)' + save[s].delta >= due'[v]
    BY <1>1 DEF Covered
  <2>1. CASE v = u
    BY <1>1, <1>2, <1>3, <2>1 DEF BooksInv, Covered
  <2>2. CASE v # u
    BY <1>1, <1>2, <1>3, <2>2 DEF BooksInv, Covered
  <2> QED BY <2>1, <2>2
<1> QED BY <1>1, <1>4, <1>5, <1>6 DEF BooksInv

LEMMA LockKeeps ==
    ASSUME BooksInv, NEW s \in Savers, NEW u \in Users, SaveLock(s, u)
    PROVE  BooksInv'
<1>1. /\ TypeInv' /\ RowFree(u) /\ save[s].pc = "idle"
      /\ save'[s].pc = "write" /\ save'[s].user = u /\ save'[s].delta = Unsaved(u)
      /\ \A t \in Savers : t # s => save'[t] = save[t]
      /\ UNCHANGED <<db, due, mem, clobbered, settle, buys, payouts>>
  BY LockType DEF BooksInv
<1>2. Unsaved(u) # 0
  BY DEF SaveLock
<1>3. \A v \in Users : Unsaved(v)' = Unsaved(v) /\ SnapUnsaved(v)' = SnapUnsaved(v)
  BY <1>1 DEF Unsaved, SnapUnsaved
<1>4. SavesApart'
  BY <1>1 DEF BooksInv, SavesApart, RowFree
<1>5. NoGains'
  BY <1>1, <1>3 DEF BooksInv, NoGains
<1>6. NothingYet'
  BY <1>1, <1>2 DEF BooksInv, NothingYet
<1>7. Covered'
  <2> SUFFICES ASSUME NEW v \in Users \ clobbered
               PROVE  /\ db[v] + Unsaved(v) >= due[v]
                      /\ \A t \in Savers : save'[t].user = v =>
                            /\ save'[t].pc = "write" => db[v] + save'[t].delta >= due[v]
                            /\ save'[t].pc = "commit" =>
                                  db[v] + Unsaved(v) + save'[t].delta >= due[v]
    BY <1>1, <1>3 DEF Covered
  <2> QED BY <1>1 DEF BooksInv, Covered
<1> QED BY <1>1, <1>4, <1>5, <1>6, <1>7 DEF BooksInv

LEMMA AbortKeeps ==
    ASSUME BooksInv, TypeInv', NEW s \in Savers, Aborts(s),
           UNCHANGED <<due, settle, clobbered, buys>>
    PROVE  BooksInv'
<1>1. /\ save'[s] = IdleSave /\ \A t \in Savers : t # s => save'[t] = save[t]
      /\ UNCHANGED <<db, mem>>
  BY AbortEffect DEF BooksInv, Aborts
<1>2. \A v \in Users : Unsaved(v)' = Unsaved(v) /\ SnapUnsaved(v)' = SnapUnsaved(v)
  BY <1>1 DEF Unsaved, SnapUnsaved
<1>3. SavesApart' /\ NoGains' /\ NothingYet'
  BY <1>1, <1>2, ConstantTypes
     DEF BooksInv, SavesApart, NoGains, NothingYet, IdleSave, TypeInv, SavesHaveUsers
<1>4. Covered'
  BY <1>1, <1>2, ConstantTypes DEF BooksInv, Covered, IdleSave
<1> QED BY <1>3, <1>4 DEF BooksInv

LEMMA WriteKeeps ==
    ASSUME BooksInv, TypeInv', NEW s \in Savers, save[s].pc = "write", Writes(s),
           UNCHANGED <<due, settle, clobbered, buys>>
    PROVE  BooksInv'
<1>0. PICK u \in Users : u = save[s].user
  BY DEF BooksInv, TypeInv, SavesHaveUsers
<1>1. /\ u \in Users
      /\ save'[s].pc = "commit" /\ save'[s].user = u /\ save'[s].delta = save[s].delta
      /\ \A t \in Savers : t # s => save'[t] = save[t]
      /\ mem'[u].last = mem[u].balance /\ mem'[u].balance = mem[u].balance
      /\ \A v \in Users : v # u => mem'[v] = mem[v]
      /\ UNCHANGED db
  BY <1>0, WriteEffect DEF BooksInv, Writes
<1>2. /\ Unsaved(u)' = 0
      /\ \A v \in Users : v # u => Unsaved(v)' = Unsaved(v)
      /\ \A v \in Users : SnapUnsaved(v)' = SnapUnsaved(v)
  <2>1. mem[u].balance \in Int
    BY <1>1 DEF BooksInv, TypeInv, TypeOK, Miner
  <2> QED BY <1>1, <2>1 DEF Unsaved, SnapUnsaved
<1>3. SavesApart'
  BY <1>0, <1>1 DEF BooksInv, SavesApart
<1>4. NoGains'
  <2>1. \A v \in Users : Unsaved(v)' <= 0 /\ SnapUnsaved(v)' <= 0
    BY <1>2 DEF BooksInv, NoGains
  <2>2. \A t \in Savers : save'[t].delta <= 0
    BY <1>1 DEF BooksInv, NoGains
  <2> QED BY <2>1, <2>2 DEF NoGains
<1>5. NothingYet'
  <2>1. buys # 0
    BY DEF BooksInv, NothingYet
  <2> QED BY <2>1 DEF NothingYet
<1>6. Covered'
  <2> SUFFICES ASSUME NEW v \in Users \ clobbered
               PROVE  /\ db[v] + Unsaved(v)' >= due[v]
                      /\ \A t \in Savers : save'[t].user = v =>
                            /\ save'[t].pc = "write" => db[v] + save'[t].delta >= due[v]
                            /\ save'[t].pc = "commit" =>
                                  db[v] + Unsaved(v)' + save'[t].delta >= due[v]
    BY <1>1 DEF Covered
  <2>0. /\ db[v] \in Int /\ due[v] \in Int /\ Unsaved(v) \in Int
        /\ \A t \in Savers : save[t].delta \in Int
    BY BookTypes DEF BooksInv
  <2>1. CASE v = u
    <3>1. db[v] + save[s].delta >= due[v] /\ save[s].delta <= 0
      BY <1>0, <2>1 DEF BooksInv, Covered, NoGains
    <3>2. \A t \in Savers : save'[t].user = v => save'[t].pc = "idle" \/ t = s
      BY <1>1, <1>3, <2>1 DEF SavesApart
    <3>3. Unsaved(v)' = 0 /\ db[v] + 0 >= due[v] /\ db[v] + 0 + save[s].delta >= due[v]
      BY <1>2, <2>0, <2>1, <3>1
    <3>4. save'[s].pc = "commit" /\ save'[s].delta = save[s].delta
      BY <1>1
    <3> QED BY <3>2, <3>3, <3>4
  <2>2. CASE v # u
    BY <1>1, <1>2, <2>2 DEF BooksInv, Covered
  <2> QED BY <2>1, <2>2
<1> QED BY <1>3, <1>4, <1>5, <1>6 DEF BooksInv

LEMMA LandKeeps ==
    ASSUME BooksInv, TypeInv', NEW s \in Savers, save[s].pc = "commit", Lands(s),
           UNCHANGED <<due, settle, clobbered, buys>>
    PROVE  BooksInv'
<1>0. PICK u \in Users : u = save[s].user
  BY DEF BooksInv, TypeInv, SavesHaveUsers
<1>1. /\ u \in Users
      /\ save'[s] = IdleSave /\ \A t \in Savers : t # s => save'[t] = save[t]
      /\ db'[u] = db[u] + save[s].delta
      /\ \A v \in Users : v # u => db'[v] = db[v]
      /\ UNCHANGED mem
  BY <1>0, LandEffect DEF BooksInv, Lands
<1>2. \A v \in Users : Unsaved(v)' = Unsaved(v) /\ SnapUnsaved(v)' = SnapUnsaved(v)
  BY <1>1 DEF Unsaved, SnapUnsaved
<1>3. SavesApart' /\ NoGains'
  <2>1. \A t \in Savers : save'[t] = IdleSave \/ save'[t] = save[t]
    BY <1>1
  <2>2. SavesApart'
    BY <1>0, <1>1, ConstantTypes DEF BooksInv, SavesApart, IdleSave, TypeInv, SavesHaveUsers
  <2>3. \A t \in Savers : save'[t].delta <= 0
    BY <2>1 DEF BooksInv, NoGains, IdleSave
  <2> QED BY <1>2, <2>2, <2>3 DEF BooksInv, NoGains
<1>4. NothingYet'
  <2>1. buys # 0
    BY DEF BooksInv, NothingYet
  <2> QED BY <2>1 DEF NothingYet
<1>5. Covered'
  <2> SUFFICES ASSUME NEW v \in Users \ clobbered
               PROVE  /\ db'[v] + Unsaved(v) >= due[v]
                      /\ \A t \in Savers : save'[t].user = v =>
                            /\ save'[t].pc = "write" => db'[v] + save'[t].delta >= due[v]
                            /\ save'[t].pc = "commit" =>
                                  db'[v] + Unsaved(v) + save'[t].delta >= due[v]
    BY <1>1, <1>2 DEF Covered
  <2>0. /\ db[v] \in Int /\ due[v] \in Int /\ Unsaved(v) \in Int
        /\ save[s].delta \in Int
    BY BookTypes DEF BooksInv
  <2>1. CASE v = u
    <3>1. db[v] + Unsaved(v) + save[s].delta >= due[v]
      BY <1>0, <2>1 DEF BooksInv, Covered
    <3>2. \A t \in Savers : save'[t].user = v => save'[t].pc = "idle"
      BY <1>0, <1>1, <2>1 DEF BooksInv, SavesApart, IdleSave
    <3> QED BY <1>1, <2>0, <2>1, <3>1, <3>2
  <2>2. CASE v # u
    BY <1>1, <2>2, ConstantTypes DEF BooksInv, Covered, IdleSave
  <2> QED BY <2>1, <2>2
<1> QED BY <1>3, <1>4, <1>5 DEF BooksInv

LEMMA CrashKeeps ==
    ASSUME BooksInv, Crash
    PROVE  BooksInv'
<1>1. /\ TypeInv' /\ \A u \in Users : mem'[u].balance = mem'[u].last
      /\ settle'.snap = mem' /\ \A s \in Savers : save'[s] = IdleSave
      /\ UNCHANGED <<db, due, clobbered, buys>>
  BY CrashType DEF BooksInv, Crash, disk
<1>2. \A u \in Users : Unsaved(u)' = 0 /\ SnapUnsaved(u)' = 0
  <2>1. \A u \in Users : mem'[u].balance \in Int
    BY <1>1 DEF TypeInv, TypeOK, Miner
  <2> QED BY <1>1, <2>1 DEF Unsaved, SnapUnsaved
<1>3. SavesApart' /\ NoGains'
  BY <1>1, <1>2 DEF SavesApart, NoGains, IdleSave
<1>4. NothingYet'
  BY <1>1, <1>2 DEF BooksInv, NothingYet, IdleSave
<1>5. Covered'
  <2>1. \A u \in Users : db[u] \in Int /\ due[u] \in Int /\ Unsaved(u) \in Int /\ Unsaved(u) <= 0
    BY BookTypes DEF BooksInv, NoGains
  <2>2. \A u \in Users \ clobbered : db[u] + 0 >= due[u]
    BY <2>1 DEF BooksInv, Covered
  <2> QED BY <1>1, <1>2, <2>2 DEF Covered, IdleSave
<1> QED BY <1>1, <1>3, <1>4, <1>5 DEF BooksInv

LEMMA InitBooks == Init => BooksInv
<1> SUFFICES ASSUME Init PROVE BooksInv
  OBVIOUS
<1>1. TypeInv
  BY InitTypeInv
<1>2. /\ \A u \in Users : mem[u].balance = mem[u].last /\ settle.snap[u] = mem[u]
      /\ \A s \in Savers : save[s] = IdleSave
      /\ due = db
  BY JoinedType, <1>1 DEF Init, TypeInv, TypeOK
<1>3. \A u \in Users : Unsaved(u) = 0 /\ SnapUnsaved(u) = 0 /\ db[u] \in Int
  <2>1. \A u \in Users : mem[u].balance \in Int /\ db[u] \in Int
    BY <1>1 DEF TypeInv, TypeOK, Miner
  <2> QED BY <1>2, <2>1 DEF Unsaved, SnapUnsaved
<1>4. SavesApart /\ NoGains /\ NothingYet
  BY <1>1, <1>2, <1>3 DEF SavesApart, NoGains, NothingYet, IdleSave
<1>5. Covered
  BY <1>2, <1>3 DEF Covered, IdleSave
<1> QED BY <1>1, <1>4, <1>5 DEF BooksInv

LEMMA NextBooks == BooksInv /\ [Next]_vars => BooksInv'
<1> SUFFICES ASSUME BooksInv, [Next]_vars PROVE BooksInv'
  OBVIOUS
<1>0. TypeInv'
  BY NextTypeInv DEF BooksInv
<1>1. CASE UNCHANGED vars
  <2>1. Level
    BY <1>1 DEF vars, Level, Unsaved, SnapUnsaved
  <2> QED BY <1>0, <2>1, LevelKeeps
<1>2. CASE \/ Quiet
           \/ \E u \in Users : Tell(u) \/ \E n \in {-1, 1} : Move(u, n)
           \/ \E r \in Readers : ReloadApply(r) \/ \E u \in Users : ReloadRead(r, u)
  BY <1>0, <1>2, QuietLevel, LevelKeeps
<1>3. CASE SettleStart \/ SettlePaid
  BY <1>0, <1>3, SettleLevel, LevelKeeps
<1>4. CASE SettleError
  BY <1>0, <1>4, ErrorLevel, LevelKeeps
<1>5. CASE \E u \in Users : Buy(u)
  BY <1>5, BuyKeeps
<1>6. CASE \E s \in Savers, u \in Users : SaveLock(s, u)
  BY <1>6, LockKeeps
<1>7. CASE \E s \in Savers : SaveWrite(s) \/ SaveCommit(s)
  <2>1. PICK s \in Savers : SaveWrite(s) \/ SaveCommit(s)
    BY <1>7
  <2> QED BY <1>0, <2>1, SaveForms, AbortKeeps, WriteKeeps, LandKeeps
<1>8. CASE Crash
  BY <1>8, CrashKeeps
<1> QED
  BY <1>1, <1>2, <1>3, <1>4, <1>5, <1>6, <1>7, <1>8, ConstantTypes DEF Next, Quiet

THEOREM Books == Spec => []BooksInv
BY InitBooks, NextBooks, PTL DEF Spec

\* The engine never has a gain to save, and before the first purchase nothing at all.
THEOREM NothingInvented == Spec => []EngineInventsNothing
<1>1. BooksInv => EngineInventsNothing
  BY DEF BooksInv, NoGains, NothingYet, EngineInventsNothing
<1> QED BY <1>1, Books, PTL

LEMMA BooksCover ==
    ASSUME BooksInv, NEW u \in Users \ clobbered
    PROVE  ~Overcharged(u)
<1>1. db[u] \in Int /\ due[u] \in Int /\ Unsaved(u) \in Int
      /\ \A s \in Savers : save[s].delta \in Int
  BY BookTypes DEF BooksInv
<1>2. Saving(u) \in Int /\ db[u] + Unsaved(u) + Saving(u) >= due[u]
  <2>1. CASE Writers(u) = {}
    BY <1>1, <2>1 DEF Saving, BooksInv, Covered
  <2>2. CASE Writers(u) # {}
    <3>1. PICK s \in Writers(u) : Saving(u) = save[s].delta
      BY <2>2 DEF Saving
    <3> QED BY <1>1, <3>1 DEF BooksInv, Covered, Writers
  <2> QED BY <2>1, <2>2
<1> QED BY <1>1, <1>2 DEF Overcharged

\* A player whose changes no rollback undid is never charged more than was bought: not by
\* saves that overlap with purchases, reloads, settlements, failures and restarts.
THEOREM NoDoubleCharge == Spec => []NeverOvercharged
<1>1. BooksInv => NeverOvercharged
  BY BooksCover DEF NeverOvercharged
<1> QED BY <1>1, Books, PTL
=============================================================================
