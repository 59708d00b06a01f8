---------------------------- MODULE Withdrawals ----------------------------
(***************************************************************************)
(* POL withdrawals: the user's request, the admin's decision and the       *)
(* optional on-chain auto-send cron.                                       *)
(*   server/models/walletModel.ts        createWithdrawal,                 *)
(*                                       updateTransactionStatus           *)
(*   server/controllers/adminController.ts   approve / reject / complete   *)
(*   server/cron/withdrawalsCron.ts      processPendingWithdrawals         *)
(*   server/services/withdrawalTelegramService.ts  the outbox rows         *)
(* PostgreSQL runs at READ COMMITTED and none of these paths takes a row   *)
(* lock before it reads, so a read and the write that relies on it are     *)
(* separate actions.  The writes of one transaction are one action: they   *)
(* become visible together, at the commit.                                 *)
(***************************************************************************)
EXTENDS Integers, Totals

CONSTANTS
    Users,          \* accounts
    NoUser,
    Tabs,           \* concurrent POST /withdraw handlers one user may have
    Admins,         \* concurrent admin handlers
    Sweeps,         \* overlapping invocations of the 2-minute cron
    Ids,            \* transactions.id values (autoincrement); bounds the rows
    Amounts,        \* amounts a user may ask for
    InitBalance,    \* users.pol_balance of every user at the start
    MaxPaid,        \* bound on the broadcasts counted for a row
    AutoSend,       \* WITHDRAWAL_AUTO_SEND
    Telegram,       \* telegram alerts and proofs are configured
    Spending,       \* other flows (the shop) spend from the same balance
    Faults          \* which of "crash", "sendError", "lostReply", "dbError" happen

ASSUME WithdrawalsAssumption ==
    /\ Ids \subseteq Nat \ {0}
    /\ Amounts \subseteq Nat \ {0}
    /\ InitBalance \in Nat
    /\ MaxPaid \in Nat
    /\ NoUser \notin Users
    /\ Admins \cap Sweeps = {}

VARIABLES
    balance,    \* [Users -> Int]   users.pol_balance
    row,        \* [Ids -> Row]     transactions of type 'withdrawal', fundsReserved
    outbox,     \* set of <<id, type>>: telegram_outbox_events, unique on that pair
    req,        \* [Users \X Tabs -> Req]   the request handlers
    job,        \* [Workers -> Job]         the handlers that change a status
    todo,       \* [Sweeps -> SUBSET Ids]   rest of the list a cron run loaded
    paid,       \* [Ids -> Nat]   transfers the hot wallet broadcast for the row
    lost,       \* [Ids -> Nat]   history: broadcasts whose record was lost
    refunds,    \* [Ids -> Nat]   history: refunds booked for the row
    spent       \* [Users -> Nat] history: what the other flows took

vars == <<balance, row, outbox, req, job, todo, paid, lost, refunds, spent>>

Workers == Admins \cup Sweeps
Status  == {"none", "pending", "approved", "completed", "failed"}
Open    == {"pending", "approved"}
Final   == {"completed", "failed"}
Ops     == {"approve", "reject", "complete"}

Row == [status : Status, user : Users \cup {NoUser}, amount : Amounts \cup {0}]
Req == [pc : {"idle", "noPending", "funded"}, amount : Amounts \cup {0}]
Job == [pc : {"idle", "checked", "loaded"}, op : Ops, id : Ids \cup {0}, prev : Status]

NoRow   == [status |-> "none", user |-> NoUser, amount |-> 0]
IdleReq == [pc |-> "idle", amount |-> 0]
IdleJob == [pc |-> "idle", op |-> "approve", id |-> 0, prev |-> "none"]

TypeOK ==
    /\ balance \in [Users -> Int]
    /\ row \in [Ids -> Row]
    /\ outbox \subseteq Ids \X {"alert", "proof"}
    /\ req \in [Users \X Tabs -> Req]
    /\ job \in [Workers -> Job]
    /\ todo \in [Sweeps -> SUBSET Ids]
    /\ paid \in [Ids -> Nat] /\ lost \in [Ids -> Nat]
    /\ refunds \in [Ids -> Nat]
    /\ spent \in [Users -> Nat]

Init ==
    /\ balance = [u \in Users |-> InitBalance]
    /\ row = [i \in Ids |-> NoRow]
    /\ outbox = {}
    /\ req = [c \in Users \X Tabs |-> IdleReq]
    /\ job = [w \in Workers |-> IdleJob]
    /\ todo = [s \in Sweeps |-> {}]
    /\ paid = [i \in Ids |-> 0] /\ lost = paid
    /\ refunds = [i \in Ids |-> 0]
    /\ spent = [u \in Users |-> 0]

-----------------------------------------------------------------------------
(* createWithdrawal: two reads, then the writes.                           *)

RowsOf(u)     == {i \in Ids : row[i].user = u}
HasPendingWrongStatus(u) == \E i \in RowsOf(u) : row[i].status = "approved"
HasPending(u) == \E i \in RowsOf(u) : row[i].status = "pending"
\* The sequence hands out the next id.
NextId(i)     == row[i].status = "none" /\ \A j \in Ids : row[j].status = "none" => i <= j
Events(i, types) == IF Telegram THEN {i} \X types ELSE {}

CheckPending(u, t) ==
    /\ req[<<u, t>>] = IdleReq
    /\ ~HasPending(u)
    /\ \E a \in Amounts :
          req' = [req EXCEPT ![<<u, t>>] = [pc |-> "noPending", amount |-> a]]
    /\ UNCHANGED <<balance, row, outbox, job, todo, paid, lost, refunds, spent>>

CheckBalance(u, t) ==
    /\ req[<<u, t>>].pc = "noPending"
    /\ req' = [req EXCEPT ![<<u, t>>] =
                  IF balance[u] >= @.amount THEN [@ EXCEPT !.pc = "funded"] ELSE IdleReq]
    /\ UNCHANGED <<balance, row, outbox, job, todo, paid, lost, refunds, spent>>

CommitWithdrawalNoDebit(u, t) ==
    /\ req[<<u, t>>].pc = "funded"
    /\ \E i \in Ids :
          /\ NextId(i)
          /\ row' = [row EXCEPT ![i] =
                        [status |-> "pending", user |-> u, amount |-> req[<<u, t>>].amount]]
    /\ req' = [req EXCEPT ![<<u, t>>] = IdleReq]
    /\ UNCHANGED <<balance, outbox, job, todo, paid, lost, refunds, spent>>

CommitWithdrawal(u, t) ==
    /\ req[<<u, t>>].pc = "funded"
    /\ \E i \in Ids :
          /\ NextId(i)
          /\ row' = [row EXCEPT ![i] =
                        [status |-> "pending", user |-> u, amount |-> req[<<u, t>>].amount]]
          /\ outbox' = outbox \cup Events(i, {"alert"})
    /\ balance' = [balance EXCEPT ![u] = @ - req[<<u, t>>].amount]
    /\ req' = [req EXCEPT ![<<u, t>>] = IdleReq]
    /\ UNCHANGED <<job, todo, paid, lost, refunds, spent>>

-----------------------------------------------------------------------------
(* The admin's handlers read the row and answer 400 on a wrong status.     *)

AllowsAny(op) == Open \cup Final
Allows(op) == IF op = "approve" THEN {"pending"} ELSE Open

AdminCheck(a, op, i) ==
    /\ job[a] = IdleJob
    /\ row[i].status \in Allows(op)
    /\ job' = [job EXCEPT ![a] = [pc |-> "checked", op |-> op, id |-> i, prev |-> "none"]]
    /\ UNCHANGED <<balance, row, outbox, req, todo, paid, lost, refunds, spent>>

\* approveWithdrawal: an update of its own, with no condition on the status.
ApproveWrite(a) ==
    /\ job[a].pc = "checked"
    /\ job[a].op = "approve"
    /\ row' = [row EXCEPT ![job[a].id].status = "approved"]
    /\ job' = [job EXCEPT ![a] = IdleJob]
    /\ UNCHANGED <<balance, outbox, req, todo, paid, lost, refunds, spent>>

-----------------------------------------------------------------------------
(* updateTransactionStatus, called by reject, complete and the cron.       *)

StatusRead(w) ==
    /\ job[w].pc = "checked"
    /\ job[w].op # "approve"
    /\ job' = [job EXCEPT ![w].pc = "loaded", ![w].prev = row[job[w].id].status]
    /\ UNCHANGED <<balance, row, outbox, req, todo, paid, lost, refunds, spent>>

WriteCompleted(w, i) ==
    /\ job[w].op = "complete"
    /\ row' = [row EXCEPT ![i].status = "completed"]
    /\ outbox' = outbox \cup Events(i, {"proof"})
    /\ UNCHANGED <<balance, refunds>>

WriteFailedNoRefund(w, i) ==
    /\ job[w].op = "reject"
    /\ row' = [row EXCEPT ![i].status = "failed"]
    /\ UNCHANGED <<balance, outbox, refunds>>

WriteFailedUnknown(w, i) ==
    /\ job[w].op = "reject"
    /\ row' = [row EXCEPT ![i].status = "rejected"]
    /\ UNCHANGED <<balance, outbox, refunds>>

WriteFailed(w, i) ==
    /\ job[w].op = "reject"
    /\ row' = [row EXCEPT ![i].status = "failed"]
    /\ IF job[w].prev \notin Final
         THEN /\ balance' = [balance EXCEPT ![row[i].user] = @ + row[i].amount]
              /\ refunds' = [refunds EXCEPT ![i] = @ + 1]
         ELSE UNCHANGED <<balance, refunds>>
    /\ UNCHANGED outbox

StatusWrite(w) ==
    /\ job[w].pc = "loaded"
    /\ WriteCompleted(w, job[w].id) \/ WriteFailed(w, job[w].id)
    /\ job' = [job EXCEPT ![w] = IdleJob]
    /\ UNCHANGED <<req, todo, paid, lost, spent>>

\* Counts one more for row i, up to the bound.
Bump(f, i) == [f EXCEPT ![i] = IF @ < MaxPaid THEN @ + 1 ELSE @]

\* The transaction rolls back: the admin gets a 500, the cron logs and goes on.
StatusError(w) ==
    /\ "dbError" \in Faults
    /\ job[w].pc = "loaded"
    /\ job' = [job EXCEPT ![w] = IdleJob]
    /\ lost' = IF w \in Sweeps THEN Bump(lost, job[w].id) ELSE lost
    /\ UNCHANGED <<balance, row, outbox, req, todo, paid, refunds, spent>>

-----------------------------------------------------------------------------
(* processPendingWithdrawals: the list is loaded once, then sent in order. *)

ApprovedOrPending == {i \in Ids : row[i].status \in Open}
PendingOnly == {i \in Ids : row[i].status = "pending"}
Approved == {i \in Ids : row[i].status = "approved"}

SweepStart(s) ==
    /\ AutoSend
    /\ job[s] = IdleJob
    /\ todo[s] = {}
    /\ Approved # {}
    /\ todo' = [todo EXCEPT ![s] = Approved]
    /\ UNCHANGED <<balance, row, outbox, req, job, paid, lost, refunds, spent>>

\* Withdrawal i is the one the loop of s has reached.
At(s, i) == job[s] = IdleJob /\ i \in todo[s] /\ \A j \in todo[s] : i <= j

SweepSend(s) ==
    /\ \E i \in Ids :
          /\ At(s, i)
          /\ paid' = Bump(paid, i)
          /\ todo' = [todo EXCEPT ![s] = @ \ {i}]
          /\ job' = [job EXCEPT ![s] =
                        [pc |-> "checked", op |-> "complete", id |-> i, prev |-> "none"]]
    /\ UNCHANGED <<balance, row, outbox, req, lost, refunds, spent>>

\* sendTransaction throws before the broadcast; the error is only logged.
SweepSendError(s) ==
    /\ "sendError" \in Faults
    /\ \E i \in Ids : At(s, i) /\ todo' = [todo EXCEPT ![s] = @ \ {i}]
    /\ UNCHANGED <<balance, row, outbox, req, job, paid, lost, refunds, spent>>

\* sendTransaction throws after the broadcast (the RPC answer was lost).
SweepLostReply(s) ==
    /\ "lostReply" \in Faults
    /\ \E i \in Ids :
          /\ At(s, i)
          /\ paid' = Bump(paid, i)
          /\ lost' = Bump(lost, i)
          /\ todo' = [todo EXCEPT ![s] = @ \ {i}]
    /\ UNCHANGED <<balance, row, outbox, req, job, refunds, spent>>

-----------------------------------------------------------------------------
\* purchaseMiner and its like: locked read, check and decrement, one transaction.
OtherSpend(u, a) ==
    /\ Spending
    /\ balance[u] >= a
    /\ balance' = [balance EXCEPT ![u] = @ - a]
    /\ spent' = [spent EXCEPT ![u] = @ + a]
    /\ UNCHANGED <<row, outbox, req, job, todo, paid, lost, refunds>>

\* The process restarts: handlers are gone, failAllPendingWithdrawals does nothing.
Crash ==
    /\ "crash" \in Faults
    /\ req' = [c \in Users \X Tabs |-> IdleReq]
    /\ job' = [w \in Workers |-> IdleJob]
    /\ todo' = [s \in Sweeps |-> {}]
    /\ lost' = [i \in Ids |-> IF \E s \in Sweeps : job[s] # IdleJob /\ job[s].id = i
                              THEN Bump(lost, i)[i] ELSE lost[i]]
    /\ UNCHANGED <<balance, row, outbox, paid, refunds, spent>>

Next ==
    \/ \E u \in Users, t \in Tabs :
          CheckPending(u, t) \/ CheckBalance(u, t) \/ CommitWithdrawal(u, t)
    \/ \E a \in Admins, op \in Ops, i \in Ids : AdminCheck(a, op, i)
    \/ \E a \in Admins : ApproveWrite(a)
    \/ \E w \in Workers : StatusRead(w) \/ StatusWrite(w) \/ StatusError(w)
    \/ \E s \in Sweeps :
          SweepStart(s) \/ SweepSend(s) \/ SweepSendError(s) \/ SweepLostReply(s)
    \/ \E u \in Users, a \in Amounts : OtherSpend(u, a)
    \/ Crash

Spec == Init /\ [][Next]_vars

\* node-cron fires every two minutes.  The RPC endpoint and the database are not down for
\* ever, nor does the process stop each time before it is done: a step that can be tried
\* again and again succeeds some time.
Fairness ==
    \A s \in Sweeps :
        /\ WF_vars(SweepStart(s))
        /\ SF_vars(SweepSend(s))
        /\ SF_vars(StatusRead(s))
        /\ SF_vars(StatusWrite(s))

FairSpec == Spec /\ Fairness

-----------------------------------------------------------------------------
(* Properties.                                                             *)

Owed(u)     == {i \in RowsOf(u) : row[i].status \notin {"none", "failed"}}
Reserved(u) == [i \in Owed(u) |-> row[i].amount]

\* Every POL of a user is in the balance, reserved or paid out by a withdrawal, or
\* spent elsewhere: no interleaving of requests, decisions and restarts creates or
\* loses money.
Conservation ==
    \A u \in Users : balance[u] + Total(Reserved(u)) + spent[u] = InitBalance

\* A withdrawal's amount goes back to the user once if it ends failed, and not at
\* all otherwise (walletModel.ts:269).
RefundedIffFailed ==
    \A i \in Ids : refunds[i] = IF row[i].status = "failed" THEN 1 ELSE 0

\* A completed or failed withdrawal is never changed again.
FinalIsFinal ==
    [][\A i \in Ids : row[i].status \in Final => row'[i].status = row[i].status]_vars

\* A user has at most one pending withdrawal ("Pending withdrawal exists").
OnePending ==
    \A i, j \in Ids :
        (/\ row[i].status = "pending" /\ row[j].status = "pending"
         /\ row[i].user = row[j].user) => i = j

\* What leaves the hot wallet is what the rows say: nothing for a withdrawal no admin has
\* approved, and one transfer for any other, unless the record of an earlier broadcast was
\* lost: in the RPC answer, in the database or in a restart.
PaidAsRecorded ==
    \A i \in Ids : paid[i] <= IF row[i].status \in {"none", "pending"} THEN 0 ELSE 1 + lost[i]

\* With auto-send on, an approved withdrawal does not stay approved for ever, and once
\* completed its public proof is queued.
ApprovedSettles ==
    \A i \in Ids : row[i].status = "approved" ~>
        \/ row[i].status = "failed"
        \/ row[i].status = "completed" /\ (Telegram => <<i, "proof">> \in outbox)

\* One admin, manual sending: withdrawals behave like the atomic ledger.
ClaimOf(r) ==
    [state  |-> CASE r.status = "none" -> "none"
                  [] r.status \in Open -> "reserved"
                  [] r.status = "completed" -> "paid"
                  [] r.status = "failed" -> "returned",
     user   |-> r.user,
     amount |-> r.amount]

Ledger == INSTANCE WithdrawalLedger WITH claim <- [i \in Ids |-> ClaimOf(row[i])]
ImplementsLedger == Ledger!Spec

-----------------------------------------------------------------------------
(* Stated by the code or its comments, and not kept by it: see README.md,  *)
(* section 5.                                                              *)

\* "Only pending withdrawals can be approved" (adminController.ts:368).
OnlyPendingApproved ==
    [][\A i \in Ids : (row'[i].status = "approved" /\ row[i].status # "approved")
                          => row[i].status = "pending"]_vars

\* The balance check of createWithdrawal keeps balances from going negative.
NoOverdraft == \A u \in Users : balance[u] >= 0

\* The cron broadcasts a transfer only for a withdrawal that is approved
\* (withdrawalsCron.ts:42).
SendsOnlyApproved ==
    [][\A i \in Ids : paid'[i] > paid[i] => row[i].status = "approved"]_vars
=============================================================================
