--------------------------- MODULE MiningBalances ---------------------------
(***************************************************************************)
(* The mining engine's copy of the balances, and the blocks it settles.    *)
(*   server/src/miningEngine.ts           miners, roundWork, settlement    *)
(*   server/models/minerProfileModel.ts   persistMinerProfile              *)
(*   server/models/database/serverDatabaseModel.ts   persistBlockRewards   *)
(*   server/src/runtime/miningRuntime.ts  applyUserBalanceDelta            *)
(*   server/cron/miningCron.ts            ticks, one at a time, and saves  *)
(* The database holds users.pol_balance.  The engine holds a balance per   *)
(* miner, and the part of it the database knows (lastPersistedBalance);    *)
(* what players spend on boosts and rigs is the difference, saved later.   *)
(* Every await is a point where the other handlers run.                    *)
(***************************************************************************)
EXTENDS Integers, FiniteSets

CONSTANTS
    Users, NoUser,
    Referrer,       \* [Users -> Users or NoUser]
    Funds,          \* pol_balance at the start
    BlockReward, Commission,
    Cost,           \* of a boost, or of a rig
    MaxAttempts,    \* MINING_BLOCK_PERSIST_MAX_ATTEMPTS (5)
    Savers,         \* persistMinerProfile calls that may overlap
    Readers,        \* reloadMinerProfile calls that may overlap
    SaveErrors,     \* a save's transaction may fail
    SettleErrors,   \* a settlement's transaction may fail
    LostReplies,    \* a settlement's transaction may commit and be reported failed
    MayCrash,       \* the server process may stop and start again
    BootErrors,     \* the look-up of the last block may fail at a start
    Movers,         \* the users with deposits, purchases and reloads (a bound)
    MaxBlocks, MaxBuys, MaxMoves    \* bounds of the model

ASSUME MiningAssumption ==
    /\ IsFiniteSet(Users) /\ NoUser \notin Users /\ Movers \subseteq Users
    /\ Referrer \in [Users -> Users \cup {NoUser}]
    /\ {Funds, BlockReward, Commission, Cost, MaxBlocks, MaxBuys, MaxMoves} \subseteq Nat
    /\ MaxAttempts \in Nat \ {0}
    /\ {SaveErrors, SettleErrors, LostReplies, MayCrash, BootErrors} \subseteq BOOLEAN

VARIABLES
    db,         \* [Users -> Int]  users.pol_balance
    mem,        \* [Users -> the engine's miner]
    work,       \* the users with work in roundWork
    block,      \* blockNumber
    settle,     \* distributeRewardsAsync in flight
    payouts,    \* [blocks -> Nat]  committed settlements; block_distributions has the block
    failed,     \* the blocks of blockHistory with persistFailed
    clobbered,  \* history: users with changes that a rollback of a settlement undid
    save,       \* [Savers -> persistMinerProfile in flight]
    view,       \* [Readers -> reloadMinerProfile in flight]
    owed,       \* [Users -> Int]  moved in the database, not yet given to the engine
    due,        \* [Users -> Int]  what pol_balance should be when all is saved (history)
    buys, moves \* counted for the bounds

vars == <<db, mem, work, block, settle, payouts, failed, clobbered, save, view, owed, due, buys, moves>>
disk == <<db, payouts, due>>

Miner  == [balance : Int, last : Int]
Blocks == 1 .. MaxBlocks + 1

Settling   == settle.attempt > 0
IdleSave   == [pc |-> "idle", user |-> NoUser, delta |-> 0]
IdleView   == [user |-> NoUser, balance |-> 0]

TypeOK ==
    /\ db \in [Users -> Int] /\ due \in [Users -> Int] /\ owed \in [Users -> Int]
    /\ mem \in [Users -> Miner]
    /\ work \subseteq Users /\ block \in Blocks
    /\ settle \in [attempt : 0 .. MaxAttempts, paid : SUBSET Users, snap : [Users -> Miner]]
    /\ payouts \in [Blocks -> Nat] /\ failed \subseteq Blocks /\ clobbered \subseteq Users
    /\ save \in [Savers -> [pc : {"idle", "write", "commit"}, user : Users \cup {NoUser},
                            delta : Int]]
    /\ view \in [Readers -> [user : Users \cup {NoUser}, balance : Int]]
    /\ buys \in Nat /\ moves \in Nat

Joined(balances) == [u \in Users |-> [balance |-> balances[u], last |-> balances[u]]]

Init ==
    /\ db = [u \in Users |-> Funds] /\ due = db
    /\ mem = Joined(db)
    /\ work = {} /\ block = 1
    /\ settle = [attempt |-> 0, paid |-> {}, snap |-> mem]
    /\ payouts = [b \in Blocks |-> 0] /\ failed = {} /\ clobbered = {}
    /\ save = [s \in Savers |-> IdleSave]
    /\ view = [r \in Readers |-> IdleView]
    /\ owed = [u \in Users |-> 0]
    /\ buys = 0 /\ moves = 0

\* SELECT ... FOR UPDATE of a save keeps other transactions off the user's row.
RowFree(u) == \A s \in Savers : save[s].user # u

\* applyUserBalanceDelta keeps what is not saved yet.
Shift(m, n) == [balance |-> m.balance + n, last |-> m.last + n]
Unsaved(u)  == mem[u].balance - mem[u].last

-----------------------------------------------------------------------------
(* Play and other services.                                                *)

\* tickAsync adds the hash rate of each miner; a tick that settles is not overlapped.
Tick(S) ==
    /\ ~Settling
    /\ work' = work \cup S
    /\ UNCHANGED <<disk, mem, block, settle, failed, clobbered, save, view, owed, buys, moves>>

\* applyBoost and upgradeRig spend from the engine's balance.
Buy(u) ==
    /\ buys < MaxBuys
    /\ mem[u].balance >= Cost
    /\ mem' = [mem EXCEPT ![u].balance = @ - Cost]
    /\ due' = [due EXCEPT ![u] = @ - Cost]
    /\ buys' = buys + 1
    /\ UNCHANGED <<db, payouts, work, block, settle, failed, clobbered, save, view, owed, moves>>

\* A deposit or a purchase changes the database, and tells the engine after its commit.
Move(u, n) ==
    /\ moves < MaxMoves
    /\ RowFree(u)
    /\ db[u] + n >= 0
    /\ db' = [db EXCEPT ![u] = @ + n]
    /\ due' = [due EXCEPT ![u] = @ + n]
    /\ owed' = [owed EXCEPT ![u] = @ + n]
    /\ moves' = moves + 1
    /\ UNCHANGED <<mem, work, block, settle, payouts, failed, clobbered, save, view, buys>>

Tell(u) ==
    /\ owed[u] # 0
    /\ mem' = [mem EXCEPT ![u] = Shift(@, owed[u])]
    /\ owed' = [owed EXCEPT ![u] = 0]
    /\ UNCHANGED <<disk, work, block, settle, failed, clobbered, save, view, buys, moves>>

-----------------------------------------------------------------------------
(* reloadMinerProfile reads the balance, and takes it some time after if   *)
(* it is higher, or if a sync was forced.                                  *)

ReloadRead(r, u) ==
    /\ view[r] = IdleView
    /\ view' = [view EXCEPT ![r] = [user |-> u, balance |-> db[u]]]
    /\ UNCHANGED <<disk, mem, work, block, settle, failed, clobbered, save, owed, buys, moves>>

ReloadApply(r) ==
    LET u == view[r].user
        b == view[r].balance
    IN  /\ u # NoUser
        /\ \E force \in BOOLEAN :
              mem' = IF force \/ b > mem[u].balance
                       THEN [mem EXCEPT ![u] = [balance |-> b, last |-> b]] ELSE mem
        /\ view' = [view EXCEPT ![r] = IdleView]
        /\ UNCHANGED <<disk, work, block, settle, failed, clobbered, save, owed, buys, moves>>

-----------------------------------------------------------------------------
(* persistMinerProfile.                                                    *)

\* The delta computed before the row is locked.
SaveLockLate(s, u) ==
    /\ save[s].pc = "idle"
    /\ Unsaved(u) # 0
    /\ save' = [save EXCEPT ![s] = [pc |-> "write", user |-> u, delta |-> Unsaved(u)]]
    /\ UNCHANGED <<disk, mem, work, block, settle, failed, clobbered, view, owed, buys, moves>>

SaveLock(s, u) ==
    /\ save[s].pc = "idle"
    /\ RowFree(u)
    /\ Unsaved(u) # 0
    /\ save' = [save EXCEPT ![s] = [pc |-> "write", user |-> u, delta |-> Unsaved(u)]]
    /\ UNCHANGED <<disk, mem, work, block, settle, failed, clobbered, view, owed, buys, moves>>

SaveAborts(s) ==
    /\ SaveErrors
    /\ save' = [save EXCEPT ![s] = IdleSave]
    /\ UNCHANGED <<db, mem>>

\* After the update: lastPersistedBalance takes the balance of now.
SaveWrite(s) ==
    /\ save[s].pc = "write"
    /\ \/ /\ mem' = [mem EXCEPT ![save[s].user].last = mem[save[s].user].balance]
          /\ save' = [save EXCEPT ![s].pc = "commit"]
          /\ UNCHANGED db
       \/ SaveAborts(s)
    /\ UNCHANGED <<payouts, due, work, block, settle, failed, clobbered, view, owed, buys, moves>>

SaveCommit(s) ==
    /\ save[s].pc = "commit"
    /\ \/ /\ db' = [db EXCEPT ![save[s].user] = @ + save[s].delta]
          /\ save' = [save EXCEPT ![s] = IdleSave]
          /\ UNCHANGED mem
       \/ SaveAborts(s)
    /\ UNCHANGED <<payouts, due, work, block, settle, failed, clobbered, view, owed, buys, moves>>

-----------------------------------------------------------------------------
(* distributeRewardsAsync.                                                 *)

\* Shares are equal here: the hash rates are not told apart.
Reward(S) == BlockReward \div Cardinality(S)

\* 1% of the reward of each miner goes to the user who referred it.
Referred(u, S)  == Cardinality({v \in S : Referrer[v] = u}) * Commission
Earned(u, S)    == (IF u \in S THEN Reward(S) ELSE 0) + Referred(u, S)

\* The block number moved on twice.
SettleEmptySkips ==
    /\ ~Settling /\ work = {} /\ block <= MaxBlocks
    /\ block' = block + 2
    /\ UNCHANGED <<disk, mem, work, settle, failed, clobbered, save, view, owed, buys, moves>>

\* A block without work only moves the block number on.
SettleEmpty ==
    /\ ~Settling /\ work = {} /\ block <= MaxBlocks
    /\ block' = block + 1
    /\ UNCHANGED <<disk, mem, work, settle, failed, clobbered, save, view, owed, buys, moves>>

\* The engine pays at once, and remembers what the miners had.
SettleStart ==
    /\ ~Settling /\ work # {} /\ block <= MaxBlocks
    /\ mem' = [u \in Users |-> IF u \in work THEN Shift(mem[u], Reward(work)) ELSE mem[u]]
    /\ settle' = [attempt |-> 1, paid |-> work, snap |-> mem]
    /\ UNCHANGED <<disk, work, block, failed, clobbered, save, view, owed, buys, moves>>

EndSettle ==
    /\ settle' = [attempt |-> 0, paid |-> {}, snap |-> mem']
    /\ work' = work \ settle.paid
    /\ block' = block + 1

CanPayAgain == \A u \in Users : Earned(u, settle.paid) > 0 => RowFree(u)
\* block_number is unique in block_distributions: a second commit of a block fails.
CanPay == /\ payouts[block] = 0
          /\ \A u \in Users : Earned(u, settle.paid) > 0 => RowFree(u)

Pay ==
    /\ CanPay
    /\ db' = [u \in Users |-> db[u] + Earned(u, settle.paid)]
    /\ due' = [u \in Users |-> due[u] + Earned(u, settle.paid)]
    /\ payouts' = [payouts EXCEPT ![block] = @ + 1]

\* After the commit the engine learns of the referrers' commissions.
SettlePaid ==
    /\ Settling
    /\ Pay
    /\ mem' = [u \in Users |-> Shift(mem[u], Referred(u, settle.paid))]
    /\ EndSettle
    /\ UNCHANGED <<failed, clobbered, save, view, owed, buys, moves>>

\* lastPersistedBalance left as it is.
TakenBackHalf(u) == [mem[u] EXCEPT !.balance = settle.snap[u].balance]
TakenBack(u) == settle.snap[u]

\* Another attempt; after the last one the engine takes the rewards back.
RetrySettleForEver ==
    /\ UNCHANGED <<settle, mem, work, block, failed, clobbered>>

RetrySettle ==
    \/ /\ settle.attempt < MaxAttempts
       /\ settle' = [settle EXCEPT !.attempt = @ + 1]
       /\ UNCHANGED <<mem, work, block, failed, clobbered>>
    \/ /\ settle.attempt = MaxAttempts
       /\ mem' = [u \in Users |-> IF u \in settle.paid THEN TakenBack(u) ELSE mem[u]]
       /\ failed' = failed \cup {block}
       /\ clobbered' = clobbered \cup
             {u \in settle.paid : mem[u] # Shift(settle.snap[u], Reward(settle.paid))}
       /\ EndSettle

SettleError ==
    /\ Settling
    /\ \/ SettleErrors /\ UNCHANGED disk
       \/ payouts[block] > 0 /\ UNCHANGED disk
       \/ LostReplies /\ Pay
    /\ RetrySettle
    /\ UNCHANGED <<save, view, owed, buys, moves>>

-----------------------------------------------------------------------------
\* bootstrapEngine: the next block is the one after the last stored, or the engine's
\* first if the look-up fails.
Stored    == {0} \cup {b \in Blocks : payouts[b] > 0}
IsLast(b) == b \in Stored /\ \A c \in Stored : c <= b

Crash ==
    /\ MayCrash
    /\ mem' = Joined(db)
    /\ \/ \E b \in Stored : IsLast(b) /\ block' = b + 1
       \/ BootErrors /\ block' = 1
    /\ work' = {} /\ failed' = {} /\ UNCHANGED clobbered
    /\ settle' = [attempt |-> 0, paid |-> {}, snap |-> mem']
    /\ save' = [s \in Savers |-> IdleSave]
    /\ view' = [r \in Readers |-> IdleView]
    /\ owed' = [u \in Users |-> 0]
    /\ UNCHANGED <<disk, buys, moves>>

Next ==
    \/ \E S \in SUBSET Users : Tick(S)
    \/ \E u \in Users : Buy(u) \/ Tell(u)
    \/ \E u \in Movers, n \in {-1, 1} : Move(u, n)
    \/ \E r \in Readers, u \in Movers : ReloadRead(r, u)
    \/ \E r \in Readers : ReloadApply(r)
    \/ \E s \in Savers, u \in Users : SaveLock(s, u)
    \/ \E s \in Savers : SaveWrite(s) \/ SaveCommit(s)
    \/ SettleEmpty \/ SettleStart \/ SettlePaid \/ SettleError
    \/ Crash

Spec == Init /\ [][Next]_vars

\* Every await returns, with a result or an error, and locks are not held for ever.
FairSpec ==
    /\ Spec
    /\ WF_vars(SettlePaid \/ SettleError)
    /\ \A s \in Savers : WF_vars(SaveWrite(s) \/ SaveCommit(s))

-----------------------------------------------------------------------------
(* Properties.                                                             *)

\* Written by the save that holds the row, whose transaction has not committed yet.
Writers(u) == {s \in Savers : save[s].user = u /\ save[s].pc = "commit"}
Saving(u)  == IF Writers(u) = {} THEN 0 ELSE save[CHOOSE s \in Writers(u) : TRUE].delta

Overcharged(u) == db[u] + Unsaved(u) + Saving(u) < due[u]

\* A player is never charged twice for what was bought: "concurrent persist calls
\* cannot double-apply the same in-memory delta" (minerProfileModel.ts:118).  The players
\* whose changes a rollback undid are in NoneOvercharged, below.
NeverOvercharged == \A u \in Users \ clobbered : ~Overcharged(u)

\* The engine never has a gain to save, and while nothing is bought in it nothing at all:
\* deposits, purchases, reloads, settlements that fail and restarts leave no difference
\* that a save would take for a player's spending, and the database is exact.
EngineInventsNothing ==
    \A u \in Users : /\ Unsaved(u) <= 0
                     /\ buys = 0 => Unsaved(u) = 0 /\ db[u] = due[u]

\* The rewards of a block are committed once, however often it is retried and wherever
\* the engine restarts.
BlockPaidOnce == \A b \in Blocks : payouts[b] <= 1

\* A settlement ends although every attempt fails, so that mining goes on.
SettlementEnds == Settling ~> ~Settling

-----------------------------------------------------------------------------
(* Stated by the code or its comments, and not kept by it: see README.md,  *)
(* section 5.                                                              *)

\* "lastPersistedBalance must revert with balance or POL would be decremented wrongly"
\* (src/tests/miningEngineRewards.test.js:57): a rollback charges nobody twice either.
NoneOvercharged == \A u \in Users : ~Overcharged(u)

\* "rewards for this block were not committed to Postgres" (miningEngine.ts:461).
FailedBlockUnpaid == \A b \in failed : payouts[b] = 0

\* "Freezes roundWork ... so work is not lost on persist failure" (miningEngine.ts:330):
\* a running engine drops work only when its block is paid.
WorkNotLost == [][~(work \subseteq work') => payouts' # payouts]_vars
=============================================================================
