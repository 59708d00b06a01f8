# Block Miner: TLA+ models and proofs

Block Miner is a browser game with a real-money economy: players mine POL in
blocks, spend it on boosts and machines, deposit POL on Polygon and withdraw it.
The server (`src/server`) is an Express and socket.io process over PostgreSQL
(Prisma, READ COMMITTED), with timers (`cron/`) in the same process, and a
separate worker (`src/services/telegram-proof-worker`) that posts withdrawal
notices. The models here cover the parts that move money and property: what a player
owns in `users.pol_balance`, in the engine's memory, in pending withdrawals, in
deposits and as machines, what daily play and auto mining grant, and what concurrent
handlers, restarts and failing calls may do to it.

Throughout, a *handler* that awaits between a read and the write that relies on
it is two actions; the writes of one database transaction are one action, since
they become visible together.

## 1. Inventory

| Component | State | Operations | Hard behaviour | Correct when |
|---|---|---|---|---|
| Withdrawals (`walletModel`, `adminController`, `withdrawalsCron`) | `transactions` rows of type withdrawal, `pol_balance`, outbox rows | request, approve, reject, complete, auto-send run | unlocked reads; two admins; overlapping runs; RPC answer lost after the broadcast | no POL is created or lost; a refund is made once; nothing unapproved is sent |
| Deposits (`wallet.controller`, `depositVerifier`, `depositsCron`, `contractDepositSync`, `polygonHdDepositScanner`, `depositTicketController`) | `transactions` rows of type deposit (unique per hash), `pol_balance`, `deposit_tickets` | submit, three scanners, verifier pass, ticket open/view/approve/reject | several sources for one hash, overlapping passes, chain progress, RPC errors, slow admin handlers | each transfer is credited once, with the amount on chain; nothing waits for ever |
| Telegram outbox (`withdrawalTelegramService`, `telegramProofWorker.js`) | `telegram_outbox_events` | enqueue, claim, post, mark, manual retry | racing ticks, lost answers, process exit between claim and mark | one owner per row, every notice ends, none is reported sent that was not |
| Idempotency lease (`idempotencyService`, `pgAdvisoryLocks`) | `callback_queue` rows SEC_IDEM, advisory locks | begin, commit, abort, expiry, purge | repeated sends, lost answers, leases that expire under their request | one request works under a key; a replay is of something that happened |
| Shop purchases (`shopController`) | lease, `pol_balance`, `user_owned_machines`, `stock_sold` | purchase | the lease spans three transactions; stock is shared between users | a key is charged once; limits hold |
| Mining engine (`miningEngine`, `minerProfileModel`, `serverDatabaseModel`, `miningRuntime`, `miningCron`) | per-miner memory balance and its saved part, round work, block number; `pol_balance`, `block_distributions` | tick, boost/rig, save, reload, settle with retries, rollback, restart | memory and database diverge at every await; failing or lost settlements | a block is paid once; a purchase is charged once |
| BTCPay deposits (`btcpayDepositController`, `btcpayWebhookController`) | `transactions` rows keyed by invoice, `pol_balance` | create an invoice, webhook delivery | a webhook is delivered again, or twice at once; the row it calls locked is not | an invoice is credited once |
| Machines, racks, rooms, warehouse (`inventoryController`, `machinesController`, `roomsController`, `vaultController`, `userOwnedMachineService`, `rackMinerRelease`) | `user_inventory`, `user_miners`, `user_vault`, `user_owned_machines`, `user_racks` | install into a slot or a rack, move, remove, uninstall one or many, store, retrieve | a machine changes table by insert and delete; reads before the transaction; references that are no foreign keys; machines of two slots | a machine is at one place and is never lost; owned rows and racks agree with it |
| Daily rewards (`checkinController`, `checkinMilestoneService`, `dailyTasks/*`, `miniPass/*`) | `daily_checkins`, ticks, progress, XP ledger, enrolments, claims, purchases, `pol_balance` | check in from the chain or the balance, finalize, count an event, claim, buy levels | hooks nobody waits for; keys shared by players; finalization of stale rows; unlocked purchases; midnight | an event counts once; XP and balance are explained by what happened |
| Auto mining (`autoMiningV2Service`, `gamePowerCleanup`) | sessions, banner impressions, power grants | start, stop, claim, banner, click, cleanup | concurrent claims and starts; deletions that clear references and counts | grants are paced and limited; an impression pays once |
| Swap, cron runner, BLK economy, offers, sessions, jobs, streaming, contract, client | see `PROJECT.json` | | | not modelled; section 7 |

The parts meet in four places. `users.pol_balance` is changed by all of them, by
increments. The engine keeps a copy of it and is told of changes made elsewhere
through `applyUserBalanceDelta`. Withdrawals insert outbox rows in their own
transaction and the worker, another process, consumes them. Check-ins and games tell
tasks and missions through notify functions that nobody awaits.

`PROJECT.json` lists the hazards found in this code, line by line, with the
properties aimed at each.

## 2. Modules

| Module | Models | Instance for TLC |
|---|---|---|
| `Totals` | the sum of a table, as a cardinality | extended by the modules that add up money, XP or hash rate |
| `WithdrawalLedger` | abstract: request, pay, refund, spend as atomic steps | through `Withdrawals!Ledger` |
| `Withdrawals` | request handlers, admin handlers, cron runs | `MCWithdrawals` |
| `WithdrawalsProofs` | theorems about `Withdrawals` | |
| `Deposits` | submissions, scanners, verifier passes, tickets, BTCPay invoices, chain | `MCDeposits` |
| `TelegramOutbox` | worker ticks and rounds, manual retry | `MCTelegramOutbox` |
| `IdempotencyLease` | the lease operations, without requests of its own | extended by `ShopPurchases` |
| `ShopPurchases` | `purchaseMiner` over the lease | `MCShopPurchases` |
| `MiningBalances` | the engine's balances and block settlement | `MCMiningBalances` |
| `MachinePlaces` | abstract: each machine at one place | through `MachineLocations!Promise` |
| `MachineLocations` | inventory, slots, racks and warehouse of a player | `MCMachineLocations` |
| `DailyMissions` | tasks, pass missions, XP, purchases, claims, without login days of its own | extended by `CheckIns` |
| `CheckIns` | daily check-ins and streaks, telling `DailyMissions` the login days | `MCCheckIns` |
| `AutoMining` | sessions, claims, impressions, cleanup of one player | `MCAutoMining` |
| `DepositsProofs`, `TelegramOutboxProofs`, `ShopPurchasesProofs`, `MiningBalancesProofs`, `MachineLocationsProofs`, `CheckInsProofs`, `AutoMiningProofs` | theorems about the module each is named after | |

### Withdrawals
`row[i]` is the transaction with id `i`; ids are handed out in order. `req` holds
the handlers of `POST /withdraw`: `CheckPending`, `CheckBalance` and
`CommitWithdrawal` are the two reads of `createWithdrawal` and its writes. `job`
holds the handlers that change a status: `AdminCheck` is the controller's read and
guard, `ApproveWrite` the update by id, `StatusRead` and `StatusWrite` the two
halves of `updateTransactionStatus`, which refunds a failed withdrawal if its
*earlier read* was not final. A cron run (`todo`) loads the approved rows once
(`SweepStart`) and sends them in order; `SweepSendError` and `SweepLostReply` are
the two ways `sendTransaction` throws. `paid`, `lost`, `refunds` and `spent` are
history.
`Crash` forgets handlers and runs; at the next start `failAllPendingWithdrawals`
does nothing, as in the code.

### Deposits
`dep[k]` is the deposit row under text `k` of a hash: the partial unique index is
on the text, so a hash typed in capitals is another key (`Typed`, `Canon`).
`chain[h]` moves by itself. A verifier pass loads pending rows (`RunStart`), judges
each on the chain (`VerifyRead`) and writes the result by id (`VerifyWait`,
`VerifyFail`, `VerifyCredit`). `scan` is the treasury scanner between its look-up
and its credit. `desk` is the admin handlers of tickets between what they read and
what they write. The scanners' block cursors are dropped: a transfer may be found
at any time, or never. The credits of the verifier and the ticket handler insert no
row, so only `SubmitDeposit`, `SyncDeposit`, `ScanCredit` and `CreateWrite` do.
A BTCPay invoice is created at the service before its row exists (`CreateInvoice`,
`TrackInvoice`); a crash between the two forgets it. `PayInvoice` is external. A
delivery is `Webhook`, the two looks at the row, and `WebhookCredit`, the update by id.

### TelegramOutbox
A tick is `Find`, `Claim`, `Send`, then `MarkSent` or `MarkFailed`; a round starts
as many as there are `Ticks` and ends when all are over. `Claim` is the conditional
`updateMany`. `due` stands for `nextRunAt`; `BecomeDue` is the end of a back-off.
An error outside the `try` ends the process (`Exit`), which the supervisor restarts.

### IdempotencyLease and ShopPurchases
Each lease call is a transaction: `StartLeaseTx` takes the advisory lock or
throws, then `Begin`, `Commit` or `Abort` do the work and free it. A throw is not
caught by `purchaseMiner`, so the answer is an error and a lease stays until it
expires. `TxRead` and `TxWrite` are the locked purchase between them. A client's
repeated sends are several `Requests` with one key.

### MiningBalances
`mem[u]` has the engine's balance and `last`, the part of it the database knows.
Boosts and rigs (`Buy`) change only memory; `SaveLock`, `SaveWrite`, `SaveCommit`
are `persistMinerProfile` around its row lock. `Move` is a change another service
commits and `Tell` the `applyUserBalanceDelta` that follows. `SettleStart` pays in memory and snapshots, `SettlePaid`, `RetrySettle`
and `SettleError` are the attempts of `persistBlockRewards`, and the rollback after
the last of them is `TakenBack`. `due` is history: the balance the row should have
when everything is saved; `clobbered` has the players whose memory changed between a
settlement and its rollback. The split of a reward is abstracted to one equal paid share
per player with work, and the referral commission to one unit.

### MachineLocations
A machine `m` is a row of `inv`, `miners` or `vault`, with its count of moves as row
id, the position `om` of its owned row in `owned[m]`, and a slot. One number space
holds the 80 slots of the old rooms and, above, one slot per rack of a room. A handler
that does all its reads in its transaction is one action (`MoveToVault`,
`MoveRackToVault`, `RetrieveToInventory`, `RetrieveToRack`, `InstallInventoryItem`,
`RemoveInventoryItem`, `UninstallBatch`); the others are a `...Read` that keeps what
it saw in `call` and a `...Write` that fails where the code's delete or update would
(`There`, `SlotFree`). `Synced` is `syncOwnedMachineSnapshotTx`, `Displaced` the
machines pushed out of a slot, `Released` `releaseUserMinerFromRacksTx`. The abstract
`MachinePlaces` knows only where each machine is.

### DailyMissions and CheckIns
A hook is what is left of one notify call: the definitions it has still to count, in
any order. `Count` is the transaction of `bumpOneTask` or `bumpMissionProgress`: it
consumes the dedupe tick, adds one and, when a mission is completed, inserts the XP
under a key; a key that is taken undoes all of it (`RolledBack`). A hook that is lost
is one that takes no further step. `BuyRead` and `BuyWrite` are the two halves of a
purchase. `CheckIns` adds `daily_checkins`: `ConfirmRead` asks the chain and
`ConfirmWrite` writes under the lock of the player, `FinalizeRead` and `FinalizeWrite`
are a status poll or the cron job, without lock, and `CheckinBalance` is one
transaction under the lock. `GrantStreak` is one milestone of
`applyStreakMilestoneRewards`. `given` and `charged` are history.

### AutoMining
`grants` has every grant ever made, `row = FALSE` once the cleanup has deleted it.
`ClaimNormal` and `ClaimTurbo` are the checks of a claim, `ClaimWrite` its conditional
update with the inserts; `StartBegin` and `StartCommit` the statement that deactivates
sessions and the commit of the new one; `GetBanner`/`CreateImpression` and
`Click`/`StoreClick` likewise. `Cleanup` deletes expired grants, which clears the
reference in their impressions (`onDelete: SetNull`), and stale impressions.

## 3. Runs

Passing runs check what the code guarantees, under the concurrency and faults it
guarantees it for. A violation run has a small instance in which the code
contradicts something its own comments, messages, tests or docs say; `findings`
in `PROJECT.json` quotes the line.

| Run | Instance | Shows |
|---|---|---|
| `withdraw_manual` | 2 users, 1 tab each, 1 admin, spending, crashes, failing transactions | `Conservation`, `RefundedIffFailed`, `OnePending`, `FinalIsFinal`, and that `Withdrawals` implements `WithdrawalLedger` |
| `withdraw_auto` | 1 user, 1 admin, 1 cron run at a time, Telegram on, all faults, fair | `PaidAsRecorded`, `ApprovedSettles` |
| `deposits` | 2 users, 2 hashes (treasury, contract), 1 ticket, 1 pass at a time, RPC errors, crashes | `BalanceMatchesRows`, `AutomaticCreditIsReal` |
| `deposits_live` | a treasury and an HD transfer, a BTCPay invoice with 1 delivery at a time, RPC errors, crashes, fair | `PendingDecided`, `BalanceMatchesRows` |
| `deposits_overlap` | 1 hash, 2 passes | violation of `BalanceMatchesRows` |
| `outbox` | 2 ticks, 2 events, 2 attempts, a manual retry, a restart, all faults, fair | `PostsMatchRows`, `ProcessingIsOwned`, `EventSettles` |
| `shop` | 3 sends of a key with two bodies, another key of the same user, leases that expire, purged keys, failing transactions, crashes | `UserLimitsHold`, `ReplayIsTrue`, `NoChargeAfterOk` |
| `shop_retry` | 3 sends of one key, no fault | violation of `ChargedOncePerKey` |
| `mining` | 2 players (one referred), 1 block, 2 saves, a boost, another flow, reloads, every fault, restarts, failed starts, fair | `NeverOvercharged`, `EngineInventsNothing`, `BlockPaidOnce`, `SettlementEnds` |
| `machines` | 3 machines (one of 2 slots, one without owned row), 2 slots, 2 racks, 2 requests at a time | `OneRowPerMachine`, `OwnedLocationAgrees`, `NoDanglingRack`, and that `MachineLocations` implements `MachinePlaces` |
| `daily` | 2 players, 2 days, a daily login task, an event mission, a streak, a round each, a payment, 2 confirmations or finalizations and 2 purchases at a time | `ValuesAreTicks`, `XpInSync`, `CompletedMissionsPaid`, `BalanceExplained` |
| `auto_mining` | 2 claims at a time, 2 sessions, an impression, days of 2 time units and 2 units of hash rate | `DailyLimitHolds`, `GrantsPaced`, `ImpressionPaysOnce` |

Where a fault excuses the code, a history variable records that it happened and the
property names it, so that the fault is part of the run: `lost` counts broadcasts and
posts the code took for failures, `retries` manual retries, `restarts` stops of the
worker, and `lapsed` holds the keys forgotten under their request or after 72 hours.

Each property of a passing run is also checked to fail when a mapped definition is
replaced by a plausible bug (`mutants` in `PROJECT.json`; the replaced forms stand
next to the originals in the modules).

### Bounds
Every bound is a CONSTANT. `Ids`, `MaxPaid`, `MaxDelivered`, `MaxRetries`,
`MaxRestarts`, `MaxBlocks`, `MaxBuys`, `MaxMoves`, `LastDay` and `LastTime` cap counters
that grow without limit (a count of broadcasts, posts or lost records stays at its cap and
blocks no step; a retry, restart, purchase or move beyond its cap does not happen); the
attempt limits are the code's own, smaller (1 or 2 for 5, 5 and 96: the code compares an
attempt with the limit and nothing else depends on the number). Two ids, hashes, users or
events are enough because no guard relates three rows; two ticks are enough to race for a
claim, which is one conditional update; three sends of a key let one be at work, one be
answered busy and one retry. `Submits`, `Debits` and `Movers` choose the days and players
that take part in a conflict: only the first day of one player may be paid on the chain,
because that is the row two handlers can fight over. A machine changes its table twice
(`MaxMoves`), which takes it anywhere and back; three machines let one of two slots
displace two others. Amounts only need to be distinguishable: a declared amount differs
from the amount on chain, and both from the one an admin enters. Balances are integers:
the model does not round.
`SYMMETRY` is used for users in `withdraw_manual`, requests in `machines`, handlers and
purchases in `daily`, and handlers, sessions and impressions in `auto_mining`, none of
which checks liveness. `CHECK_DEADLOCK FALSE` stands where a finite instance ends: all
ids used, all requests answered, all blocks mined, the last day over.

### Fairness
* `withdraw_auto`: node-cron starts a run every two minutes (weak fairness). Strong
  fairness of the send and of the two halves of the status change says that the RPC
  endpoint and the database are not down for ever, and that the process does not stop
  each time before it is done.
* `deposits_live`: `setInterval` starts a pass every 15 s and a pass that is tried again
  and again gets to its end some time (strong fairness). The RPC endpoint may fail every
  time: the attempt limit decides.
* `outbox`: `runWorker` is an endless loop, each tick ends, and a back-off ends. Posts
  may be refused every time, and `MaxRestarts` bounds the stops.
* `mining`: every await of a started settlement or save returns; each may fail.

## 4. Theorems

Each module of theorems holds for every value of the constants that satisfies the
assumption of the module it is about. `Typing` is `Spec => []TypeOK` in each; the
invariant it is proved by (`TypeInv`) adds what a handler in flight may rely on, for
instance that one past its first step has a row to write.

Five properties compare a number with a sum over rows. A sum by recursion could not be
reasoned about without induction over data, so `Totals` counts: the units of a table
`f` are the pairs `<<x, n>>` with `n \in 1 .. f[x]`, and `Total(f)` is their number. (An
assumption of `MCWithdrawals` compares it with a fold.) What the proofs need is then one
lemma about cardinalities, `TotalChange`: tables that differ in one entry have totals that
differ by that entry. Each module of proofs that adds states and proves it, and its
invariant carries that the units are finite, which holds since the tables start empty or
at zero and change by one entry a step.

**`WithdrawalsProofs`.**

* `RefundExactlyOnce`, `FinalStays`, `LedgerRefinement` assume `OneAdmin` (admin
  handlers do not overlap) and `ManualMode` (`WITHDRAWAL_AUTO_SEND=false`, the
  default). The refund count of a row is not inductive alone, since
  `StatusWrite` decides by a status read earlier. `ManualInv` says what that read
  is worth: while a handler works, its row is still open and as it was read
  (`HandlerCurrent`), because no cron run is active (`SweepsIdle`) and no other
  admin is. `OnlyPendingApproved` (section 5) shows that the assumption is
  needed. The refinement maps row statuses to claims; every step is a ledger step
  or a stutter.
* `MoneyConserved` (`[]Conservation`) rests on the same two assumptions, and on `ManualInv`:
  a refund is of a row that is still reserved. `Books` adds the finiteness of what is
  reserved; `ReservedChange` gives, for a write to one row, the change of its owner's sum,
  and each step is compared with it. Both assumptions are needed: an approval, or a run of
  the cron, over a rejection made since its read reserves again what was refunded
  (`withdraw_manual` with two admins, or with `Sweeps = {s1}` and `AutoSend = TRUE`).
* `PaysAsRecorded` (`[]PaidAsRecorded`) is about automatic sending. It assumes `OneAdmin`
  and `OneSweep` (runs of the cron do not overlap). The code does not see to the second:
  node-cron starts a run every two minutes and no flag is kept, so it holds only while a
  run takes less; `withdraw_auto` with `Sweeps = {s1, s2}` pays a row twice. In `AutoInv`,
  `SweepKnows` says that the rows a run has yet to send are decided and were paid only as
  often as a record was lost, `ApprovesPending` that an approval in flight is of a pending
  row, and `ApprovedRecorded` that an approved row no run is at has only lost payments.
* `AtMostOnePending` assumes `OneTab`: one request of a user in flight. Admins and
  cron runs are unrestricted. `RequestsFresh` strengthens it: a request past its
  first check still has no pending row beside it. With two requests
  in flight it fails (section 5).

**`DepositsProofs`.** `AutomaticCredits`: `[]AutomaticCreditIsReal`, for any number of
passes and admins. `CreditsReal` says what a scanner or a job knows of a transfer when it
writes, and that neither the chain nor the row takes it back in between: a mined transfer
keeps its outcome, and only a ticket under its hash changes the player of a row.
`BalancesMatchRows`: `[]BalanceMatchesRows`, if verifier passes, admin handlers and the
deliveries of an invoice do not overlap (`OneRun`, `OneAdmin`, `OneDelivery`); without the
first it fails in `deposits_overlap`, without the third as section 5 says. `BalanceInv` says
that what a writer read still holds when it writes by id: `JobsCurrent` of a pass (a row it
is at stays pending until the pass itself decides it), `DesksCurrent` of a ticket handler,
`HooksCurrent` of a webhook; and `Accounts`, that the two tables of a player add up to the
balance.

**`TelegramOutboxProofs`.** `OneOwner`: `[]ProcessingIsOwned`, from `RowsOwned` (until a
manual retry at most one tick is past its claim of a row, and the row is then
processing). `PostsExplained`: `[]PostsMatchRows`, from `PostsKnown`: a post that
was not taken for a failure leads to a row marked sent, or is known to the tick that still
owns the row.

**`ShopPurchasesProofs`.** `UserLimits`: `[]UserLimitsHold`, since `WritersHold`: what a
purchase read is true until it writes, as it has the player's lock. `TrueReplays`:
`[]ReplayIsTrue`, from `AnswersPaid`. `ChargedKeyRests`: `[][NoChargeAfterOk]`, from
`LeaseHeld`: of a key that has not lapsed, the lease belongs to the only request at work.

**`MiningBalancesProofs`.** `NoDoubleCharge`: `[]NeverOvercharged` for any number of saves,
reloads and blocks. That the row and what is unsaved cover what the player should have is
not inductive: a save has read the difference before it writes, and purchases, reloads and
settlements go on meanwhile. `Covered` states it at each point of a save, `SavesApart` gives
the row to one save (the row lock), and `NoGains` says that neither the engine nor the
snapshot of a rollback has a gain to save, so that a reload or a rollback only drops what
the player would be charged. One lemma (`LevelKeeps`) serves all steps that save and buy
nothing. `NothingInvented`: `[]EngineInventsNothing`. `OnePayout`: `[]BlockPaidOnce`.

**`MachineLocationsProofs`.** `OneRow`, `LocationAgrees` and `RacksFreed` follow from
`MachinesInv`: a row has its machine's last id and an owned row that exists; what a request
read of an owned row is true for as long as that row is there, because a machine that comes
back has a new row id. `PlacesRefinement` maps the three tables to places: every handler's
write is one move of `MachinePlaces`, with at most two machines pushed out of a slot, or a
stutter.

**`CheckInsProofs`.** `ValuesCounted`: `[]ValuesAreTicks`: a tick that commits is new and so
adds one to the cardinality. `CompletedPaid`: `[]CompletedMissionsPaid`, the harder
direction being that the key of a mission's XP, which does not name the player, is free
whenever a completion commits. `Typing` includes the unique keys (ticks, ledger, hashes of
check-ins), for which purchases must be numbered and synthetic hashes stay with their row.
`XpIsLedger`: `[]XpInSync`, without assumptions: XP and ledger change in one transaction and
the key of a new row is free, so that a row is added and not met again. `BalanceIsExplained`:
`[]BalanceExplained`, likewise without assumptions. `Explained` states the equation with the
three tables (prices, charges, prizes), and `ClaimsMarked` that a task whose reward was
delivered is marked claimed, which is what keeps a reward from entering the table twice;
the claims of levels and streaks are unique rows. That a purchase overdraws the balance, or
that a day is charged twice (section 5), does not break the equation: the theorem says that
nothing appears or disappears, not that it was right to take it.

**`AutoMiningProofs`.** The theorems assume `ShortSkew`: the slack of a claim is shorter
than the cycle (5 s against 60 s in the code). `Pacing`: `[]GrantsPaced`, because the next
claim of a session is a cycle after each of its grants and only moves on, and a claim is
granted only if the next claim is still what it read. `OneGrantPerImpression`:
`[]ImpressionPaysOnce`: if another claim has used the impression a turbo claim read, the
session's next claim has moved on and the conditional update fails; and where the cleanup
has cleared the reference, the impression has expired. `DailyCap`: `[]DailyLimitHolds`, if
besides a player starts one session at a time (`OneStarter`; section 5 has the two that
break it). With one session active (`OneRuns`), the conditional update lets one of two
racing claims write; `Room` says that for this one the sum it read is still the sum of the
day, and `Dated` that the cleanup only deletes grants of a day that is over (the time to
live of a grant is a day), so that no room is made for another one.

Every invariant and action property of the passing runs is thus a theorem. Model-checked
only: the liveness properties `ApprovedSettles`, `PendingDecided`, `EventSettles` and
`SettlementEnds` (fairness is outside the prover's reach). That the assumptions on the number
of handlers are needed is shown by a counterexample each, named above or in section 5.

## 5. What the models say about the code

Two disagreements have a run that exhibits them, and `findings` in `PROJECT.json`
quotes the lines:

* `deposits_overlap`: two verifier passes that loaded the same pending row credit it twice.
* `shop_retry`: the result of a purchase cannot be recorded while another send of the key
  holds the advisory lock; the retry is charged.

More were found on the way. Each is a definition of its module, nearly all in its last
section, and is violated with the constants below (others as in the run named first; the
property replaces the run's own, without `SYMMETRY` where the sets it permutes change).

| Property | Code says | Code does | Instance |
|---|---|---|---|
| `OnlyPendingApproved` | "Only pending withdrawals can be approved" (`adminController.ts:368`) | an approval writes by id over a rejection made since its check | `withdraw_manual` with `Admins = {a1, a2}` |
| `OnePending` | "já existe saque pendente" (`MONOLITH_WALLET_MODULE_STEP_01.md:146`), "Pending withdrawal exists" (`walletModel.ts:190`) | `createWithdrawal` looks and inserts without a lock or a unique index | `withdraw_manual` with `Users = {u1}`, `Tabs = {t1, t2}`, `Admins = {}` |
| `NoOverdraft` | "Insufficient balance" (`walletModel.ts:197`) | the check is unlocked and the decrement unconditional | `withdraw_manual` with `Users = {u1}`, `Admins = {}` |
| `SendsOnlyApproved` | "apenas para saques já **approved**" (`withdrawalsCron.ts:42`) | the cron sends from a list it loaded before, without looking again | `withdraw_manual` with `Users = {u1}`, `Sweeps = {s1}`, `AutoSend = TRUE` |
| `OneRowPerTransfer` | "Same on-chain hash cannot back two deposit rows" (`depositTicketController.ts:252`) | tickets keep the hash as typed, deposits in lower case | `deposits` with `Hashes = {h1}`, `Typed = {H1}` |
| `CreditedTicketStays` | "Ticket já resolvido." (`depositTicketController.ts:246`, `425`) | looking at a ticket writes its status by id after a chain look-up | `deposits` with `Hashes = {h1}`, `Admins = {a1, a2}` |
| `BalanceMatchesRows` | "credits POL once (atomic + idempotent)" (`btcpayWebhookController.ts:3`) | the second look at the row takes no lock and the update is by id | `deposits_live` with `Deliveries = {d1, d2}` |
| `OnlyFailedRetried` | "Apenas eventos failed/dead podem ser reenviados manualmente." (`withdrawalTelegramService.ts:334`) | the manual retry resets by id after its check | `outbox` with `Ticks = {k1}` |
| `StockNotOversold` | "Miner out of stock." (`shopController.ts:197`) | the stock is checked under the lock of the user only | `shop` with `Requests = {p1, p5}`, `Keys = {k1, k3}`, `Users = {u1, u2}`, `StockTotal = 1` |
| `NoneOvercharged` | "lastPersistedBalance must revert with balance or POL would be decremented wrongly" (`src/tests/miningEngineRewards.test.js:57`) | the rollback of a settlement restores values from before it, over a save made while it was retried | `mining` as it is |
| `FailedBlockUnpaid` | "rewards for this block were not committed to Postgres." (`miningEngine.ts:461`) | a settlement that committed and lost its answer fails on every retry | `mining` as it is |
| `WorkNotLost` | "so work is not lost on persist failure" (`miningEngine.ts:330`) | after the last attempt the round is set to 0 | `mining` with `MayCrash = FALSE` |
| `OwnedRowsPointedTo` | "exactly one of inventory / rack miner / vault row points here" (`schema.prisma:513`) | a machine displaced from its slot gets a new owned row, the old one stays | `machines` as it is |
| `RackHeldOnce` | "Este rack ja esta ocupado." (`roomsController.ts:348`) | the rack and its neighbour are looked at before the transaction | `machines` as it is |
| `SlotsDisjoint` | "Check for 2-slot overlaps from previous slot" (`machinesController.ts:210`) | the warehouse's own way into a slot has no such check | `machines` as it is |
| `LoginCounted` | "After daily check-in is confirmed - counts toward LOGIN_DAY missions." (`miniPassMissionHookService.ts:163`) | the dedupe key of a login has the day and not the player: the second player of a day is taken for a repetition | `daily` as it is |
| `RoundCounted` | "counts toward PLAY_GAMES missions." (`miniPassMissionHookService.ts:107`) | the key of a mission's XP has no player either: its insert fails and takes the count with it | `daily` as it is |
| `LoginInItsDay` | 'so "today" matches the check-in calendar' (`miniPassPeriod.ts:28`) | a check-in finalized after midnight counts in the period of the new day | `daily` as it is |
| `NeverOverdrawn` | "insufficient_balance" (`miniPassPurchaseService.ts:136`) | the balance is read without a lock, the decrement is unconditional | `daily` as it is |
| `XpWithinCap` | "bounded by season cap" (`miniPassPurchaseService.ts:13`) | the XP left is read without a lock | `daily` with `Funds = 2` |
| `ChargedOncePerDay` | "Check-in was already recorded." (`checkinController.ts:704`) | a stale finalization writes failed over a check-in paid from the balance, which can then be paid again | `daily` as it is |
| `PaymentCountsOnce` | `tx_hash` is unique (`schema.prisma:849`) | a stale finalization confirms a row that holds another payment by now | `daily` with `Payments = {p1, p2}`, `Submits` for both days of `u1`, no `Debits`, `Buyers` or `Games` |
| `OneActiveSession` | "Ends any prior active session" (`AUTO_MINING_V2.md:16`) | two starts at once do not see each other's session | `auto_mining` with `Starters = {t1, t2}` |
| `DailyLimitHolds` | "1000 H/s daily cap" (`AUTO_MINING_V2.md:5`) | two active sessions each pass the check before either has written | `auto_mining` with `Starters = {t1, t2}` |

Most share one form: a guard is evaluated on an unlocked read and the write is by id. The
code elsewhere has the form that works: the outbox claim repeats its guard in the update,
and the shop locks the user first. `shop_retry` and `FailedBlockUnpaid` are about a call that
succeeded and was reported failed, `NoneOvercharged` about a snapshot restored over later
changes, and `LoginCounted` and `RoundCounted` about keys that leave out the player.

## 6. Abstractions to keep in mind

* A transaction's reads are taken at one point and its writes at its commit. Row
  locks appear where the code takes them (`FOR UPDATE`, advisory locks) and as the
  atomicity of one `UPDATE`.
* History variables (`paid`, `lost`, `refunds`, `spent`, `delivered`, `retries`,
  `restarts`, `due`, `clobbered`, `payouts`, `given`, `charged`, `paid` and `lapsed` of the
  shop) record what happened
  outside the database or is not kept in it; no guard
  but a bound reads them, save `payouts`, which also stands for the unique index on the
  block number.
* Validation of bodies, sessions, rate limits, texts and notifications are left
  out: the models start with a valid request.
* A BTCPay invoice is paid once and in full; expiry of unpaid invoices is left out.
* Machines: one player, one room; machines that expire (temporary inventory rows) and the
  on/off switch of a machine are left out. A transaction is one step because the locks of
  these handlers let one at a time write a player's rows.
* Days: one calendar, though the code has two (Brazil for check-ins and logins, UTC for
  the rest); weekly and monthly cadences behave like a longer period. Definitions and the
  season stay live. The hooks of tasks and missions for one event are merged, their order
  free. Rewards that are not POL are counted (`given`), not delivered. A transaction that
  is known but not mined counts as pending.
* AutoMining: the clock is read with the rows, and the two deletions of the cleanup are
  one step. Nothing is shared by players, so one is enough.

## 7. Plan and what is not modelled

Done in the order of importance: withdrawals, deposits, outbox, shop, engine, then
BTCPay invoices, machines, check-ins with missions, and auto mining. What would come next:

1. Composition of `Withdrawals` with `TelegramOutbox`: a completed withdrawal's
   proof is posted or dead, with the insert inside the transaction.
2. Composition of `MiningBalances` with deposits and spending: deltas told before
   the commit, boosts against a balance that is being spent.
3. An abstract lease specification that the shop implements.
4. The expiry of temporary machines, periodic check-ins, the first version of auto mining.

Not modelled: `Swap` is one transaction of a form that appears three times above (an
unlocked check before an unconditional decrement). The cron action runner is a flag per
process; neither the withdrawal cron nor the verifier passes, whose overlap matters, go
through it. The BLK conversion has no
caller, and the BLK cycle is one transaction behind a unique window. Offers, faucets,
shortlinks and similar are one transaction each behind a cooldown or a unique row.
Sessions, rate limits, BullMQ jobs, support and streaming hold no property of the economy;
the sweep and the contract act on the chain.

Most of the repository's lines are the React client, in two versions, with admin pages,
listings, validation, formatting and reports on the server: they keep no state between
requests that a model could relate, so the share of all lines that the models translate
stays small whatever is added. What was modelled is where state is shared, kept and
changed by more than one actor.
