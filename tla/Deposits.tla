------------------------------ MODULE Deposits ------------------------------
(***************************************************************************)
(* POL deposits claimed by transaction hash, and BTCPay invoices.          *)
(*   server/modules/wallet/wallet.controller.ts    submitDeposit           *)
(*   server/services/depositVerifier.ts            the verifier's passes   *)
(*   server/cron/depositsCron.ts, models/walletModel.ts  treasury scanner  *)
(*   server/services/contractDepositSync.ts, polygonHdDepositScanner.ts    *)
(*   server/controllers/depositTicketController.ts  support tickets        *)
(*   server/controllers/btcpayDepositController.ts, btcpayWebhookController.ts *)
(* The partial unique index on transactions(tx_hash) of type 'deposit'     *)
(* gives one row per text of a hash.  Every update of a row is by id, with *)
(* no condition on its status.                                             *)
(***************************************************************************)
EXTENDS Integers, Totals

CONSTANTS
    Users, NoUser,
    Hashes,         \* transaction hashes, in lower case
    Typed,          \* the same hashes as users may type them into a ticket
    NoKey,          \* a ticket without a hash
    Canon,          \* [Keys -> Hashes] the transfer a text of a hash stands for
    Sender,         \* [Hashes -> Users]  owner of the sending or HD address
    Kind,           \* [Hashes -> {"treasury", "contract", "hd", "other"}]
    ChainAmount,    \* [Hashes -> Nat]
    MinDeposit,
    Claims,         \* amounts users declare at submit
    AdminAmount,    \* what an admin credits on a ticket
    MaxAttempts,    \* DEPOSIT_VERIFY_MAX_ATTEMPTS (96)
    Runs,           \* verifier passes that may overlap
    Tickets,
    Admins,         \* concurrent admin handlers on tickets
    MaxTicketsOpen, \* MAX_TICKETS_OPEN (3)
    Invoices,       \* BTCPay invoices, as the text "btcpay:<id>" of their rows' hash
    InvoiceAmount,
    Deliveries,     \* concurrent deliveries of BTCPay webhooks
    RpcErrors,      \* the RPC endpoint may fail
    MayCrash        \* the server process may stop and start again

Keys == Hashes \cup Typed
Rows == Keys \cup Invoices

ASSUME DepositsAssumption ==
    /\ NoUser \notin Users /\ NoKey \notin Rows /\ Invoices \cap Keys = {}
    /\ InvoiceAmount \in Nat \ {0}
    /\ Canon \in [Keys -> Hashes] /\ \A h \in Hashes : Canon[h] = h
    /\ Sender \in [Hashes -> Users]
    /\ Kind \in [Hashes -> {"treasury", "contract", "hd", "other"}]
    /\ ChainAmount \in [Hashes -> Nat \ {0}]
    /\ MinDeposit \in Nat /\ MaxAttempts \in Nat /\ AdminAmount \in Nat \ {0}
    /\ Claims \subseteq Nat
    /\ MaxTicketsOpen \in Nat
    /\ RpcErrors \in BOOLEAN /\ MayCrash \in BOOLEAN

VARIABLES
    chain,      \* [Hashes -> unmined, mined, confirmed or reverted]
    balance,    \* [Users -> Int]  users.pol_balance, from deposits
    dep,        \* [Rows -> deposit row]
    job,        \* [Runs -> [Hashes -> job]]  verifyOnePendingDeposit in flight
    scan,       \* hash createDepositRequest is crediting, or NoKey
    ticket,     \* [Tickets -> deposit_tickets row, or the request that will insert it]
    desk,       \* [Admins -> ticket handler]
    invoice,    \* [Invoices -> the state of the invoice at BTCPay, and its owner]
    hook        \* [Deliveries -> invoice whose pending row a webhook has read, or NoKey]

btcpay == <<invoice, hook>>
vars == <<chain, balance, dep, job, scan, ticket, desk, btcpay>>

DepStatus == {"none", "pending_verification", "btcpay_pending", "completed", "failed"}
Verdicts  == {"wait", "fail", "ok"}
Dep    == [status : DepStatus, user : Users \cup {NoUser}, amount : Nat, attempts : Nat]
Job    == [pc : {"idle", "loaded"} \cup Verdicts, attempts : Nat]
Ticket == [status : {"none", "asked", "open", "analyzing", "credited", "rejected"},
           user : Users \cup {NoUser}, key : Keys \cup {NoKey}]
Desk   == [pc : {"idle", "view", "reject", "create", "revive", "close"},
           t : Tickets \cup {NoKey}]

Invoice == [status : {"none", "created", "open", "settled"}, user : Users \cup {NoUser}]

NoInvoice == [status |-> "none", user |-> NoUser]
NoDep    == [status |-> "none", user |-> NoUser, amount |-> 0, attempts |-> 0]
IdleJob  == [pc |-> "idle", attempts |-> 0]
NoTicket == [status |-> "none", user |-> NoUser, key |-> NoKey]
IdleDesk == [pc |-> "idle", t |-> NoKey]

TypeOK ==
    /\ chain \in [Hashes -> {"unmined", "mined", "confirmed", "reverted"}]
    /\ balance \in [Users -> Int]
    /\ dep \in [Rows -> Dep]
    /\ job \in [Runs -> [Hashes -> Job]]
    /\ scan \in Hashes \cup {NoKey}
    /\ ticket \in [Tickets -> Ticket]
    /\ desk \in [Admins -> Desk]
    /\ invoice \in [Invoices -> Invoice]
    /\ hook \in [Deliveries -> Invoices \cup {NoKey}]

Init ==
    /\ chain = [h \in Hashes |-> "unmined"]
    /\ balance = [u \in Users |-> 0]
    /\ dep = [k \in Rows |-> NoDep]
    /\ job = [r \in Runs |-> [h \in Hashes |-> IdleJob]]
    /\ scan = NoKey
    /\ ticket = [t \in Tickets |-> NoTicket]
    /\ desk = [a \in Admins |-> IdleDesk]
    /\ invoice = [i \in Invoices |-> NoInvoice]
    /\ hook = [d \in Deliveries |-> NoKey]

-----------------------------------------------------------------------------
(* The chain (external).                                                   *)

ChainStep(h) ==
    /\ \/ chain[h] = "unmined" /\ \E s \in {"mined", "reverted"} : chain' = [chain EXCEPT ![h] = s]
       \/ chain[h] = "mined" /\ chain' = [chain EXCEPT ![h] = "confirmed"]
    /\ UNCHANGED <<balance, dep, job, scan, ticket, desk, btcpay>>

-----------------------------------------------------------------------------
(* Rows enter the table.                                                   *)

Pending(u, n) ==
    [status |-> "pending_verification", user |-> u, amount |-> n, attempts |-> 0]
Credited(k, u, n) ==
    /\ dep' = [dep EXCEPT ![k].status = "completed", ![k].user = u, ![k].amount = n]
    /\ balance' = [balance EXCEPT ![u] = @ + n]

\* The look-ups before the insert only choose the answer; the unique index decides.
Insert(h, u, n) ==
    /\ dep[h].status = "none"
    /\ dep' = [dep EXCEPT ![h] = Pending(u, n)]
    /\ UNCHANGED <<chain, balance, job, scan, ticket, desk, btcpay>>

SubmitDeposit(u, h) == \E n \in Claims : Insert(h, u, n)

\* runContractDepositSyncOnce finds mined transfers, runPolygonHdDepositScanOnce only
\* confirmed ones.
SyncDeposit(h) ==
    /\ \/ Kind[h] = "contract" /\ chain[h] \in {"mined", "confirmed"}
       \/ Kind[h] = "hd" /\ chain[h] = "confirmed"
    /\ Insert(h, Sender[h], IF Kind[h] = "hd" THEN ChainAmount[h] ELSE 0)

\* scanForNewDeposits runs one at a time; createDepositRequest asks the chain between
\* its look-up and its insert, and one confirmation is enough for it.
ScanCheck(h) ==
    /\ scan = NoKey
    /\ Kind[h] = "treasury"
    /\ chain[h] \in {"mined", "confirmed"}
    /\ dep[h].status = "none"
    /\ scan' = h
    /\ UNCHANGED <<chain, balance, dep, job, ticket, desk, btcpay>>

ScanCredit ==
    /\ scan # NoKey
    /\ IF dep[scan].status = "none"
         THEN Credited(scan, Sender[scan], ChainAmount[scan])
         ELSE UNCHANGED <<dep, balance>>
    /\ scan' = NoKey
    /\ UNCHANGED <<chain, job, ticket, desk, btcpay>>

-----------------------------------------------------------------------------
(* The verifier.  A pass loads the pending rows once and verifies them in  *)
(* parallel; the interval, a submit and both scanners start passes.        *)

PendingRows == {h \in Hashes : dep[h].status = "pending_verification"}

RunStart(r) ==
    /\ \A h \in Hashes : job[r][h] = IdleJob
    /\ PendingRows # {}
    /\ job' = [job EXCEPT ![r] =
                  [h \in Hashes |-> IF h \in PendingRows
                      THEN [pc |-> "loaded", attempts |-> dep[h].attempts + 1]
                      ELSE IdleJob]]
    /\ UNCHANGED <<chain, balance, dep, scan, ticket, desk, btcpay>>

\* Contract events and HD addresses name their user; the treasury accepts anyone's claim.
Accepts(h, u) == \/ Kind[h] = "treasury"
                 \/ Kind[h] \in {"contract", "hd"} /\ u = Sender[h]

Verdict(h) ==
    IF chain[h] = "unmined" THEN "wait"
    ELSE IF chain[h] = "reverted" \/ ~Accepts(h, dep[h].user) THEN "fail"
    ELSE IF chain[h] = "mined" THEN "wait"
    ELSE IF ChainAmount[h] < MinDeposit THEN "fail" ELSE "ok"

VerifyRead(r, h) ==
    /\ job[r][h].pc = "loaded"
    /\ \/ job' = [job EXCEPT ![r][h].pc =
                     IF job[r][h].attempts > MaxAttempts THEN "fail" ELSE Verdict(h)]
       \/ /\ RpcErrors
          /\ job[r][h].attempts <= MaxAttempts
          /\ job' = [job EXCEPT ![r][h].pc = "wait"]
    /\ UNCHANGED <<chain, balance, dep, scan, ticket, desk, btcpay>>

JobDone(r, h) ==
    /\ job' = [job EXCEPT ![r][h] = IdleJob]
    /\ UNCHANGED <<chain, scan, ticket, desk, btcpay>>

VerifyWaitUncounted(r, h) ==
    /\ job[r][h].pc = "wait"
    /\ UNCHANGED <<dep, balance>>
    /\ JobDone(r, h)

VerifyWait(r, h) ==
    /\ job[r][h].pc = "wait"
    /\ dep' = [dep EXCEPT ![h].attempts = job[r][h].attempts]
    /\ UNCHANGED balance
    /\ JobDone(r, h)

VerifyFail(r, h) ==
    /\ job[r][h].pc = "fail"
    /\ dep' = [dep EXCEPT ![h].status = "failed", ![h].attempts = job[r][h].attempts]
    /\ UNCHANGED balance
    /\ JobDone(r, h)

VerifyCreditDeclared(r, h) ==
    /\ job[r][h].pc = "ok"
    /\ dep' = [dep EXCEPT ![h].status = "completed", ![h].attempts = job[r][h].attempts]
    /\ balance' = [balance EXCEPT ![dep[h].user] = @ + dep[h].amount]
    /\ JobDone(r, h)

\* The duplicate look-up finds nothing: no other row has this text of the hash.
VerifyCredit(r, h) ==
    /\ job[r][h].pc = "ok"
    /\ dep' = [dep EXCEPT ![h].status = "completed", ![h].amount = ChainAmount[h],
                          ![h].attempts = job[r][h].attempts]
    /\ balance' = [balance EXCEPT ![dep[h].user] = @ + ChainAmount[h]]
    /\ JobDone(r, h)

-----------------------------------------------------------------------------
(* Support tickets.                                                        *)

TicketsOf(u) == {t \in Tickets : /\ ticket[t].status \notin {"none", "asked"}
                                 /\ ticket[t].user = u}
Unresolved   == {t \in Tickets : ticket[t].status \in {"open", "analyzing"}}

\* createTicket counts and looks for a duplicate, and inserts some time after.
AskTicket(t, u, k) ==
    /\ ticket[t].status = "none"
    /\ Cardinality(TicketsOf(u) \cap Unresolved) < MaxTicketsOpen
    /\ k # NoKey => \A s \in TicketsOf(u) : ticket[s].key # k
    /\ ticket' = [ticket EXCEPT ![t] = [status |-> "asked", user |-> u, key |-> k]]
    /\ UNCHANGED <<chain, balance, dep, job, scan, desk, btcpay>>

OpenTicket(t) ==
    /\ ticket[t].status = "asked"
    /\ ticket' = [ticket EXCEPT ![t].status = "open"]
    /\ UNCHANGED <<chain, balance, dep, job, scan, desk, btcpay>>

\* adminGetTicket re-analyses an unresolved ticket on chain and then stores the result.
ViewTicket(a, t) ==
    /\ desk[a] = IdleDesk
    /\ t \in Unresolved
    /\ desk' = [desk EXCEPT ![a] = [pc |-> "view", t |-> t]]
    /\ UNCHANGED <<chain, balance, dep, job, scan, ticket, btcpay>>

RejectTicket(a, t) ==
    /\ desk[a] = IdleDesk
    /\ t \in Unresolved
    /\ desk' = [desk EXCEPT ![a] = [pc |-> "reject", t |-> t]]
    /\ UNCHANGED <<chain, balance, dep, job, scan, ticket, btcpay>>

PlanReopens(t) ==
    LET k == ticket[t].key
    IN  IF k = NoKey \/ dep[k].status = "none" THEN "create"
        ELSE IF dep[k].user # ticket[t].user THEN "refuse" ELSE "revive"

\* What adminApproveTicket will do, from the row it finds under the ticket's hash.
Plan(t) ==
    LET k == ticket[t].key
    IN  IF k = NoKey \/ dep[k].status = "none" THEN "create"
        ELSE IF dep[k].user # ticket[t].user THEN "refuse"
        ELSE IF dep[k].status = "failed" THEN "revive"
        ELSE IF dep[k].status = "completed" THEN "close" ELSE "refuse"

ApproveTicket(a, t) ==
    /\ desk[a] = IdleDesk
    /\ ticket[t].status \in {"open", "analyzing", "rejected"}
    /\ Plan(t) # "refuse"
    /\ desk' = [desk EXCEPT ![a] = [pc |-> Plan(t), t |-> t]]
    /\ UNCHANGED <<chain, balance, dep, job, scan, ticket, btcpay>>

\* The write at the end of a ticket handler, to ticket t.
DeskWrite(a, t, status) ==
    /\ ticket' = [ticket EXCEPT ![t].status = status]
    /\ desk' = [desk EXCEPT ![a] = IdleDesk]
    /\ UNCHANGED <<chain, job, scan, btcpay>>

ViewWrite(a) ==
    /\ desk[a].pc = "view"
    /\ DeskWrite(a, desk[a].t, "analyzing")
    /\ UNCHANGED <<balance, dep>>

RejectWriteClosed(a) ==
    /\ desk[a].pc = "reject"
    /\ DeskWrite(a, desk[a].t, "closed")
    /\ UNCHANGED <<balance, dep>>

RejectWrite(a) ==
    /\ desk[a].pc = "reject"
    /\ DeskWrite(a, desk[a].t, "rejected")
    /\ UNCHANGED <<balance, dep>>

\* A row inserted since the look-up makes the whole transaction fail (P2002).
CreateWrite(a) ==
    /\ desk[a].pc = "create"
    /\ LET t == desk[a].t
           k == ticket[t].key
       IN  CASE k = NoKey ->
                  /\ balance' = [balance EXCEPT ![ticket[t].user] = @ + AdminAmount]
                  /\ UNCHANGED dep
                  /\ DeskWrite(a, t, "credited")
             [] k # NoKey /\ dep[k].status = "none" ->
                  /\ Credited(k, ticket[t].user, AdminAmount)
                  /\ DeskWrite(a, t, "credited")
             [] OTHER ->
                  /\ desk' = [desk EXCEPT ![a] = IdleDesk]
                  /\ UNCHANGED <<chain, balance, dep, job, scan, ticket, btcpay>>

ReviveWrite(a) ==
    /\ desk[a].pc = "revive"
    /\ LET t == desk[a].t IN
          /\ Credited(ticket[t].key, ticket[t].user, AdminAmount)
          /\ DeskWrite(a, t, "credited")

CloseWrite(a) ==
    /\ desk[a].pc = "close"
    /\ DeskWrite(a, desk[a].t, "credited")
    /\ UNCHANGED <<balance, dep>>

-----------------------------------------------------------------------------
(* BTCPay: an invoice is created there and then gets its row; the player   *)
(* pays it (external), and a webhook is delivered, perhaps more than once. *)

InvoiceStep(i, state) ==
    /\ invoice' = [invoice EXCEPT ![i] = state]
    /\ UNCHANGED <<chain, balance, job, scan, ticket, desk, hook>>

CreateInvoice(u, i) ==
    /\ invoice[i] = NoInvoice
    /\ UNCHANGED dep
    /\ InvoiceStep(i, [status |-> "created", user |-> u])

TrackInvoice(i) ==
    /\ invoice[i].status = "created"
    /\ dep' = [dep EXCEPT ![i] = [status |-> "btcpay_pending", user |-> invoice[i].user,
                                  amount |-> InvoiceAmount, attempts |-> 0]]
    /\ InvoiceStep(i, [invoice[i] EXCEPT !.status = "open"])

PayInvoice(i) ==
    /\ invoice[i].status = "open"
    /\ UNCHANGED dep
    /\ InvoiceStep(i, [invoice[i] EXCEPT !.status = "settled"])

UnpaidOrDone(i) == dep[i].status # "none"
Unpaid(i) == dep[i].status = "btcpay_pending"

\* creditIfSettled: the second look, inside the transaction, takes no lock.
Webhook(d, i) ==
    /\ hook[d] = NoKey
    /\ invoice[i].status = "settled"
    /\ Unpaid(i)
    /\ hook' = [hook EXCEPT ![d] = i]
    /\ UNCHANGED <<chain, balance, dep, job, scan, ticket, desk, invoice>>

WebhookCredit(d) ==
    /\ hook[d] # NoKey
    /\ Credited(hook[d], dep[hook[d]].user, dep[hook[d]].amount)
    /\ hook' = [hook EXCEPT ![d] = NoKey]
    /\ UNCHANGED <<chain, job, scan, ticket, desk, invoice>>

-----------------------------------------------------------------------------
\* What the process held in memory is lost; the rows stay.
Crash ==
    /\ MayCrash
    /\ job' = [r \in Runs |-> [h \in Hashes |-> IdleJob]]
    /\ scan' = NoKey
    /\ desk' = [a \in Admins |-> IdleDesk]
    /\ ticket' = [t \in Tickets |->
                     IF ticket[t].status = "asked" THEN NoTicket ELSE ticket[t]]
    /\ invoice' = [i \in Invoices |->
                      IF invoice[i].status = "created" THEN NoInvoice ELSE invoice[i]]
    /\ hook' = [d \in Deliveries |-> NoKey]
    /\ UNCHANGED <<chain, balance, dep>>

Next ==
    \/ \E h \in Hashes : ChainStep(h) \/ SyncDeposit(h) \/ ScanCheck(h)
    \/ \E u \in Users, h \in Hashes : SubmitDeposit(u, h)
    \/ ScanCredit
    \/ \E r \in Runs : RunStart(r)
    \/ \E r \in Runs, h \in Hashes :
          VerifyRead(r, h) \/ VerifyWait(r, h) \/ VerifyFail(r, h) \/ VerifyCredit(r, h)
    \/ \E t \in Tickets, u \in Users, k \in Keys \cup {NoKey} : AskTicket(t, u, k)
    \/ \E t \in Tickets : OpenTicket(t)
    \/ \E a \in Admins, t \in Tickets :
          ViewTicket(a, t) \/ RejectTicket(a, t) \/ ApproveTicket(a, t)
    \/ \E a \in Admins : \/ ViewWrite(a) \/ RejectWrite(a)
                         \/ CreateWrite(a) \/ ReviveWrite(a) \/ CloseWrite(a)
    \/ \E u \in Users, i \in Invoices : CreateInvoice(u, i)
    \/ \E i \in Invoices : TrackInvoice(i) \/ PayInvoice(i)
    \/ \E d \in Deliveries, i \in Invoices : Webhook(d, i)
    \/ \E d \in Deliveries : WebhookCredit(d)
    \/ Crash

Spec == Init /\ [][Next]_vars

\* setInterval starts a pass every 15 s and every await of a pass returns; the process
\* does not stop each time before a pass has looked at a deposit, or has stored the result.
FairSpec ==
    /\ Spec
    /\ \A r \in Runs : WF_vars(RunStart(r))
    /\ \A r \in Runs, h \in Hashes :
          /\ SF_vars(VerifyRead(r, h))
          /\ SF_vars(VerifyWait(r, h) \/ VerifyFail(r, h) \/ VerifyCredit(r, h))

-----------------------------------------------------------------------------
(* Properties.                                                             *)

RowsOf(u)     == {k \in Rows : dep[k].user = u /\ dep[k].status = "completed"}
HashlessOf(u) == {t \in Tickets : /\ ticket[t].user = u /\ ticket[t].key = NoKey
                                  /\ ticket[t].status = "credited"}

Deposited(u)  == [k \in RowsOf(u) |-> dep[k].amount]
ByTicket(u)   == [t \in HashlessOf(u) |-> AdminAmount]

\* The balance holds exactly the completed deposit rows and the credited tickets
\* that carry no hash: each is credited once, and nothing else is.
BalanceMatchesRows ==
    \A u \in Users : balance[u] = Total(Deposited(u)) + Total(ByTicket(u))

\* A credit no admin made is for a mined transfer to us, of the amount on chain
\* and never the amount the user declared (depositVerifier.ts:20).
AutomaticCreditIsReal ==
    \A h \in Hashes :
        (/\ dep[h].status = "completed"
         /\ \A t \in Tickets : ticket[t].key = h => ticket[t].status \in {"none", "asked"})
            => /\ chain[h] \in {"mined", "confirmed"}
               /\ Accepts(h, dep[h].user)
               /\ dep[h].amount = ChainAmount[h]

\* No deposit waits for verification for ever: a transfer that never shows up, and
\* an RPC endpoint that always fails, end at the limit of attempts.
PendingDecided ==
    \A h \in Hashes :
        dep[h].status = "pending_verification" ~> dep[h].status \in {"completed", "failed"}

-----------------------------------------------------------------------------
(* Stated by the code or its comments, and not kept by it: see README.md,  *)
(* section 5.                                                              *)

\* A transfer is behind at most one completed deposit ("Same on-chain hash cannot
\* back two deposit rows", depositTicketController.ts:252).
OneRowPerTransfer ==
    \A j, k \in Keys :
        (/\ Canon[j] = Canon[k]
         /\ dep[j].status = "completed" /\ dep[k].status = "completed") => j = k

\* A resolved ticket is not resolved again ("Ticket ja resolvido.").
CreditedTicketStays ==
    [][\A t \in Tickets : ticket[t].status = "credited" => ticket'[t].status = "credited"]_vars
=============================================================================
