--------------------------- MODULE DepositsProofs ---------------------------
(***************************************************************************)
(* Theorems about Deposits, for any number of users, hashes, tickets,      *)
(* invoices, verifier passes and admin handlers: what is credited without  *)
(* an admin is a transfer to us; and, where no two of the passes, the      *)
(* ticket handlers and the webhooks overlap, the balance is the sum of     *)
(* what was credited.                                                      *)
(***************************************************************************)
EXTENDS Deposits, FiniteSetTheorems, TLAPS

\* A handler works on a ticket that is out, and revives a row only under a hash.
DesksHaveTickets ==
    \A a \in Admins : desk[a].pc # "idle" =>
        /\ desk[a].t \in Tickets /\ ticket[desk[a].t].status \notin {"none", "asked"}
        /\ desk[a].pc = "revive" => ticket[desk[a].t].key # NoKey

TypeInv == TypeOK /\ DesksHaveTickets

-----------------------------------------------------------------------------
(* Types.                                                                  *)

LEMMA ConstantTypes ==
    /\ \A h \in Hashes : Sender[h] \in Users /\ ChainAmount[h] \in Nat
    /\ \A n \in Claims : n \in Nat
    /\ InvoiceAmount \in Nat /\ AdminAmount \in Nat
    /\ NoKey \notin Rows /\ NoKey \notin Keys /\ NoKey \notin Hashes /\ NoKey \notin Invoices
    /\ Hashes \subseteq Keys /\ Keys \subseteq Rows /\ Invoices \subseteq Rows
    /\ \A i \in Invoices : i \notin Keys
BY DepositsAssumption DEF Keys, Rows

LEMMA IdleTypes ==
    /\ NoDep \in Dep /\ IdleJob \in Job /\ NoTicket \in Ticket /\ IdleDesk \in Desk
    /\ NoInvoice \in Invoice
BY DEF NoDep, IdleJob, NoTicket, IdleDesk, NoInvoice, Dep, DepStatus, Job, Ticket, Desk, Invoice

LEMMA InitType == Init => TypeOK
BY IdleTypes, ConstantTypes DEF Init, TypeOK

LEMMA AddType ==
    ASSUME NEW f \in [Users -> Int], NEW u, NEW n \in Nat
    PROVE  [f EXCEPT ![u] = @ + n] \in [Users -> Int]
<1>1. CASE u \in Users
  BY <1>1
<1>2. CASE u \notin Users
  <2>1. [f EXCEPT ![u] = @ + n] = f
    BY <1>2
  <2> QED BY <2>1
<1> QED BY <1>1, <1>2

\* A row that is credited, and the player's balance.
LEMMA CreditedType ==
    ASSUME TypeOK, NEW k \in Rows, NEW u \in Users \cup {NoUser}, NEW n \in Nat, Credited(k, u, n)
    PROVE  /\ dep' \in [Rows -> Dep] /\ balance' \in [Users -> Int]
           /\ dep'[k] = [dep[k] EXCEPT !.status = "completed", !.user = u, !.amount = n]
           /\ \A j \in Rows : j # k => dep'[j] = dep[j]
<1>1. [dep[k] EXCEPT !.status = "completed", !.user = u, !.amount = n] \in Dep
  <2>1. dep[k] \in Dep
    BY DEF TypeOK
  <2> QED BY <2>1 DEF Dep, DepStatus
<1>2. dep' = [dep EXCEPT ![k] = [dep[k] EXCEPT !.status = "completed", !.user = u, !.amount = n]]
  BY DEF Credited, TypeOK
<1>3. balance' \in [Users -> Int]
  BY AddType DEF Credited, TypeOK
<1> QED BY <1>1, <1>2, <1>3 DEF TypeOK

LEMMA InsertType ==
    ASSUME TypeOK, NEW h \in Hashes, NEW u \in Users, NEW n \in Nat, Insert(h, u, n)
    PROVE  /\ TypeOK' /\ UNCHANGED <<chain, balance, job, scan, ticket, desk, btcpay>>
           /\ dep[h].status = "none" /\ dep'[h].status = "pending_verification"
           /\ \A j \in Rows : j # h => dep'[j] = dep[j]
<1>1. Pending(u, n) \in Dep /\ Pending(u, n).status = "pending_verification"
  BY DEF Pending, Dep, DepStatus
<1>2. h \in Rows
  BY ConstantTypes
<1>3. dep' = [dep EXCEPT ![h] = Pending(u, n)]
      /\ UNCHANGED <<chain, balance, job, scan, ticket, desk, btcpay>>
  BY DEF Insert
<1> QED BY <1>1, <1>2, <1>3 DEF Insert, TypeOK, btcpay

LEMMA EnterType ==
    ASSUME TypeOK, NEW h \in Hashes, SyncDeposit(h) \/ \E u \in Users : SubmitDeposit(u, h)
    PROVE  \E u \in Users, n \in Nat : Insert(h, u, n)
BY ConstantTypes DEF SyncDeposit, SubmitDeposit

\* One job of a pass goes on to state j.
SetsJob(r, h, j) == job' = [job EXCEPT ![r][h] = j]
OnlyJob(r, h, j) ==
    /\ job' \in [Runs -> [Hashes -> Job]] /\ job'[r][h] = j
    /\ \A s \in Runs, i \in Hashes : s # r \/ i # h => job'[s][i] = job[s][i]

LEMMA JobType ==
    ASSUME TypeOK, NEW r \in Runs, NEW h \in Hashes, NEW j \in Job, SetsJob(r, h, j)
    PROVE  OnlyJob(r, h, j)
<1>1. job \in [Runs -> [Hashes -> Job]]
  BY DEF TypeOK
<1>2. [job[r] EXCEPT ![h] = j] \in [Hashes -> Job]
  BY <1>1
<1>3. job' = [job EXCEPT ![r] = [job[r] EXCEPT ![h] = j]]
  BY <1>1 DEF SetsJob
<1> QED BY <1>1, <1>2, <1>3 DEF OnlyJob

\* The verdict of a pass is one of three; "ok" is about a confirmed transfer to us.
LEMMA VerdictType ==
    ASSUME NEW h \in Hashes
    PROVE  /\ Verdict(h) \in Verdicts
           /\ Verdict(h) = "ok" => chain[h] = "confirmed" \/ chain[h] \notin {"unmined", "mined", "reverted"}
           /\ Verdict(h) = "ok" => Accepts(h, dep[h].user)
<1> DEFINE A == Accepts(h, dep[h].user)
<1> HIDE DEF A
<1> QED BY DEF Verdict, Verdicts, A

LEMMA VerifyReadType ==
    ASSUME TypeOK, NEW r \in Runs, NEW h \in Hashes, VerifyRead(r, h)
    PROVE  /\ TypeOK' /\ UNCHANGED <<chain, balance, dep, scan, ticket, desk, btcpay>>
           /\ job[r][h].pc = "loaded"
           /\ job'[r][h].pc = "ok" => Verdict(h) = "ok"
           /\ \A s \in Runs, i \in Hashes : s # r \/ i # h => job'[s][i] = job[s][i]
<1>1. PICK pc \in Verdicts : job' = [job EXCEPT ![r][h].pc = pc] /\ (pc = "ok" => Verdict(h) = "ok")
  BY VerdictType DEF VerifyRead, Verdicts
<1>2. job \in [Runs -> [Hashes -> Job]]
  BY DEF TypeOK
<1>3. [job[r][h] EXCEPT !.pc = pc] \in Job /\ [job[r][h] EXCEPT !.pc = pc].pc = pc
  BY <1>2 DEF Job
<1>4. job' = [job EXCEPT ![r][h] = [job[r][h] EXCEPT !.pc = pc]]
  BY <1>1, <1>2
<1>5. /\ job' \in [Runs -> [Hashes -> Job]] /\ job'[r][h].pc = pc
      /\ \A s \in Runs, i \in Hashes : s # r \/ i # h => job'[s][i] = job[s][i]
  <2>1. SetsJob(r, h, [job[r][h] EXCEPT !.pc = pc])
    BY <1>4 DEF SetsJob
  <2>2. OnlyJob(r, h, [job[r][h] EXCEPT !.pc = pc])
    BY <1>3, <2>1, JobType
  <2> QED BY <1>3, <2>2 DEF OnlyJob
<1>6. job[r][h].pc = "loaded" /\ UNCHANGED <<chain, balance, dep, scan, ticket, desk, btcpay>>
  BY DEF VerifyRead
<1> QED BY <1>1, <1>5, <1>6 DEF TypeOK, btcpay

\* What a verifier writes: the row after, and the job done.
Judged(r, h) ==
    /\ UNCHANGED <<chain, scan, ticket, desk, btcpay>>
    /\ job'[r][h] = IdleJob
    /\ \A s \in Runs, i \in Hashes : s # r \/ i # h => job'[s][i] = job[s][i]
    /\ \A j \in Rows : j # h => dep'[j] = dep[j]
    /\ dep'[h].user = dep[h].user
    /\ \/ job[r][h].pc = "wait" /\ dep'[h].status = dep[h].status
                                /\ dep'[h].amount = dep[h].amount
       \/ job[r][h].pc = "fail" /\ dep'[h].status = "failed"
       \/ job[r][h].pc = "ok" /\ dep'[h].status = "completed"
                              /\ dep'[h].amount = ChainAmount[h]

LEMMA VerifyWriteType ==
    ASSUME TypeOK, NEW r \in Runs, NEW h \in Hashes,
           VerifyWait(r, h) \/ VerifyFail(r, h) \/ VerifyCredit(r, h)
    PROVE  TypeOK' /\ Judged(r, h)
<1>1. /\ job' \in [Runs -> [Hashes -> Job]] /\ job'[r][h] = IdleJob
      /\ \A s \in Runs, i \in Hashes : s # r \/ i # h => job'[s][i] = job[s][i]
  <2>1. SetsJob(r, h, IdleJob)
    BY DEF VerifyWait, VerifyFail, VerifyCredit, JobDone, SetsJob
  <2> QED BY <2>1, JobType, IdleTypes DEF OnlyJob
<1>2. UNCHANGED <<chain, scan, ticket, desk, btcpay>>
  BY DEF VerifyWait, VerifyFail, VerifyCredit, JobDone
<1>3. /\ h \in Rows /\ dep[h] \in Dep /\ dep \in [Rows -> Dep]
      /\ job[r][h].attempts \in Nat /\ ChainAmount[h] \in Nat
  BY ConstantTypes DEF TypeOK, Job
<1>4. PICK d \in Dep :
        /\ dep' = [dep EXCEPT ![h] = d] /\ d.user = dep[h].user
        /\ \/ job[r][h].pc = "wait" /\ d.status = dep[h].status /\ d.amount = dep[h].amount
           \/ job[r][h].pc = "fail" /\ d.status = "failed"
           \/ job[r][h].pc = "ok" /\ d.status = "completed" /\ d.amount = ChainAmount[h]
  <2>1. CASE VerifyWait(r, h)
    <3>1. [dep[h] EXCEPT !.attempts = job[r][h].attempts] \in Dep
      BY <1>3 DEF Dep
    <3>2. dep' = [dep EXCEPT ![h] = [dep[h] EXCEPT !.attempts = job[r][h].attempts]]
      BY <1>3, <2>1 DEF VerifyWait
    <3> QED BY <1>3, <2>1, <3>1, <3>2 DEF VerifyWait, Dep
  <2>2. CASE VerifyFail(r, h)
    <3>1. [dep[h] EXCEPT !.status = "failed", !.attempts = job[r][h].attempts] \in Dep
      BY <1>3 DEF Dep, DepStatus
    <3>2. dep' = [dep EXCEPT ![h] = [dep[h] EXCEPT !.status = "failed",
                                                   !.attempts = job[r][h].attempts]]
      BY <1>3, <2>2 DEF VerifyFail
    <3> QED BY <1>3, <2>2, <3>1, <3>2 DEF VerifyFail, Dep
  <2>3. CASE VerifyCredit(r, h)
    <3>1. [dep[h] EXCEPT !.status = "completed", !.amount = ChainAmount[h],
                         !.attempts = job[r][h].attempts] \in Dep
      BY <1>3 DEF Dep, DepStatus
    <3>2. dep' = [dep EXCEPT ![h] = [dep[h] EXCEPT !.status = "completed",
                                 !.amount = ChainAmount[h], !.attempts = job[r][h].attempts]]
      BY <1>3, <2>3 DEF VerifyCredit
    <3> QED BY <1>3, <2>3, <3>1, <3>2 DEF VerifyCredit, Dep
  <2> QED BY <2>1, <2>2, <2>3
<1>5. balance' \in [Users -> Int]
  BY <1>3 DEF VerifyWait, VerifyFail, VerifyCredit, TypeOK
<1>6. /\ dep' \in [Rows -> Dep] /\ dep'[h] = d /\ \A j \in Rows : j # h => dep'[j] = dep[j]
  BY <1>3, <1>4
<1>7. Judged(r, h)
  BY <1>1, <1>2, <1>4, <1>6 DEF Judged
<1> QED BY <1>1, <1>2, <1>5, <1>6, <1>7 DEF TypeOK, btcpay

\* A ticket handler starts, on a ticket that is out.
LEMMA DeskStartType ==
    ASSUME TypeOK, NEW a \in Admins, NEW t \in Tickets,
           ViewTicket(a, t) \/ RejectTicket(a, t) \/ ApproveTicket(a, t)
    PROVE  /\ TypeOK' /\ UNCHANGED <<chain, balance, dep, job, scan, ticket, btcpay>>
           /\ \E pc : desk' = [desk EXCEPT ![a] = [pc |-> pc, t |-> t]]
                       /\ (pc = "revive" => ticket[t].key # NoKey)
           /\ ticket[t].status \notin {"none", "asked"}
<1>1. /\ Plan(t) \in {"create", "revive", "close", "refuse"}
      /\ Plan(t) = "revive" => ticket[t].key # NoKey
  BY DEF Plan
<1>2. PICK pc \in {"view", "reject", "create", "revive", "close"} :
        /\ desk' = [desk EXCEPT ![a] = [pc |-> pc, t |-> t]]
        /\ pc = "revive" => ticket[t].key # NoKey
  BY <1>1 DEF ViewTicket, RejectTicket, ApproveTicket
<1>3. [pc |-> pc, t |-> t] \in Desk
  BY DEF Desk
<1>4. UNCHANGED <<chain, balance, dep, job, scan, ticket, btcpay>>
  BY DEF ViewTicket, RejectTicket, ApproveTicket
<1>5. ticket[t].status \notin {"none", "asked"}
  BY DEF ViewTicket, RejectTicket, ApproveTicket, Unresolved
<1> QED BY <1>2, <1>3, <1>4, <1>5 DEF TypeOK, btcpay

\* The write at its end.
LEMMA DeskWriteType ==
    ASSUME TypeOK, NEW a \in Admins, NEW t,
           NEW s \in {"open", "analyzing", "credited", "rejected"}, DeskWrite(a, t, s)
    PROVE  /\ ticket' \in [Tickets -> Ticket] /\ desk' \in [Admins -> Desk]
           /\ UNCHANGED <<chain, job, scan, invoice, hook>>
           /\ \A q \in Tickets : ticket'[q].key = ticket[q].key
           /\ \A q \in Tickets : q # t => ticket'[q] = ticket[q]
           /\ t \in Tickets => ticket'[t].status = s
<1>1. ticket \in [Tickets -> Ticket] /\ desk \in [Admins -> Desk]
  BY DEF TypeOK
<1>2. /\ ticket' = [ticket EXCEPT ![t].status = s]
      /\ desk' = [desk EXCEPT ![a] = IdleDesk]
      /\ UNCHANGED <<chain, job, scan, btcpay>>
  BY DEF DeskWrite
<1>3. CASE t \in Tickets
  <2>1. [ticket[t] EXCEPT !.status = s] \in Ticket
    BY <1>1, <1>3 DEF Ticket
  <2>2. ticket' = [ticket EXCEPT ![t] = [ticket[t] EXCEPT !.status = s]]
    BY <1>1, <1>2, <1>3
  <2>3. [ticket[t] EXCEPT !.status = s].key = ticket[t].key
        /\ [ticket[t] EXCEPT !.status = s].status = s
    BY <1>1, <1>3 DEF Ticket
  <2> QED BY <1>1, <1>2, <1>3, <2>1, <2>2, <2>3, IdleTypes DEF btcpay
<1>4. CASE t \notin Tickets
  <2>1. ticket' = ticket
    BY <1>1, <1>2, <1>4
  <2> QED BY <1>1, <1>2, <1>4, <2>1, IdleTypes DEF btcpay
<1> QED BY <1>3, <1>4

\* What the end of a ticket handler may do: nothing is credited under a hash but for a
\* ticket that has the hash and is credited from then on.
Settled(a) ==
    /\ UNCHANGED <<chain, job, scan, invoice, hook>>
    /\ \A q \in Tickets :
          /\ ticket'[q].key = ticket[q].key
          /\ ticket'[q] = ticket[q] \/ ticket'[q].status \notin {"none", "asked"}
    /\ \A k \in Rows : \/ dep'[k] = dep[k]
                        \/ /\ dep'[k].status = "completed"
                           /\ \E q \in Tickets : /\ ticket'[q].key = k
                                                 /\ ticket'[q].status = "credited"

LEMMA SettledType ==
    ASSUME TypeOK, DesksHaveTickets, NEW a \in Admins,
           \/ ViewWrite(a) \/ RejectWrite(a) \/ CreateWrite(a) \/ ReviveWrite(a)
           \/ CloseWrite(a)
    PROVE  TypeOK' /\ Settled(a)
<1> DEFINE t == desk[a].t
           k == ticket[t].key
<1>1. CASE ViewWrite(a) \/ RejectWrite(a) \/ CloseWrite(a)
  <2>1. PICK s \in {"analyzing", "rejected", "credited"} : DeskWrite(a, t, s)
    BY <1>1 DEF ViewWrite, RejectWrite, CloseWrite
  <2>2. UNCHANGED <<balance, dep>>
    BY <1>1 DEF ViewWrite, RejectWrite, CloseWrite
  <2> QED BY <2>1, <2>2, DeskWriteType DEF Settled, TypeOK
<1>2. ASSUME NEW n, n = k, n \in Rows, t \in Tickets,
             Credited(n, ticket[t].user, AdminAmount), DeskWrite(a, t, "credited")
      PROVE  TypeOK' /\ Settled(a)
  <2>1. ticket[t].user \in Users \cup {NoUser}
    BY <1>2 DEF TypeOK, Ticket
  <2>2. /\ dep' \in [Rows -> Dep] /\ balance' \in [Users -> Int]
        /\ dep'[n].status = "completed" /\ \A j \in Rows : j # n => dep'[j] = dep[j]
    <3>1. /\ dep' \in [Rows -> Dep] /\ balance' \in [Users -> Int]
          /\ dep'[n] = [dep[n] EXCEPT !.status = "completed", !.user = ticket[t].user,
                                      !.amount = AdminAmount]
          /\ \A j \in Rows : j # n => dep'[j] = dep[j]
      BY <1>2, <2>1, CreditedType, ConstantTypes
    <3>2. dep[n] \in Dep
      BY <1>2 DEF TypeOK
    <3> HIDE DEF t
    <3> QED BY <3>1, <3>2 DEF Dep
  <2>3. ticket'[t].key = n /\ ticket'[t].status = "credited"
    BY <1>2, DeskWriteType
  <2>4. Settled(a)
    BY <1>2, <2>2, <2>3, DeskWriteType DEF Settled
  <2> QED BY <1>2, <2>2, <2>4, DeskWriteType DEF TypeOK
<1>0. /\ desk[a].pc # "idle" => t \in Tickets /\ k \in Keys \cup {NoKey}
      /\ desk[a].pc = "revive" => k \in Rows
      /\ desk[a].pc # "idle" /\ k # NoKey => k \in Rows
  BY ConstantTypes DEF DesksHaveTickets, TypeOK, Ticket
<1>3. CASE ReviveWrite(a)
  BY <1>0, <1>2, <1>3 DEF ReviveWrite
<1>4. CASE CreateWrite(a)
  <2>1. t \in Tickets /\ desk[a].pc # "idle"
    BY <1>0, <1>4 DEF CreateWrite
  <2>2. CASE k = NoKey
    <3>1. DeskWrite(a, t, "credited") /\ UNCHANGED dep
          /\ balance' = [balance EXCEPT ![ticket[t].user] = @ + AdminAmount]
      BY <1>4, <2>2 DEF CreateWrite
    <3>2. balance' \in [Users -> Int]
      BY <3>1, AddType, ConstantTypes DEF TypeOK
    <3> QED BY <3>1, <3>2, DeskWriteType DEF Settled, TypeOK
  <2>3. CASE k # NoKey /\ dep[k].status = "none"
    BY <1>0, <1>2, <1>4, <2>1, <2>3 DEF CreateWrite
  <2>4. CASE k # NoKey /\ dep[k].status # "none"
    <3>1. /\ desk' = [desk EXCEPT ![a] = IdleDesk]
          /\ UNCHANGED <<chain, balance, dep, job, scan, ticket, btcpay>>
      BY <1>4, <2>4 DEF CreateWrite
    <3> QED BY <3>1, IdleTypes DEF Settled, TypeOK, btcpay
  <2> QED BY <2>2, <2>3, <2>4
<1> QED BY <1>1, <1>3, <1>4

-----------------------------------------------------------------------------
(* What each kind of step changes.                                         *)

\* A ticket that is out keeps its hash and stays out.
TicketsKept ==
    \A t \in Tickets : ticket[t].status \notin {"none", "asked"} =>
        ticket'[t].key = ticket[t].key /\ ticket'[t].status \notin {"none", "asked"}

\* A transfer that is mined stays mined, one that is confirmed stays confirmed.
ChainKept ==
    \A h \in Hashes :
        /\ chain[h] \in {"mined", "confirmed"} => chain'[h] \in {"mined", "confirmed"}
        /\ chain[h] = "confirmed" => chain'[h] = "confirmed"

LEMMA DesksKept ==
    ASSUME TypeInv, TicketsKept,
           \A a \in Admins : desk'[a] = desk[a] \/ desk'[a].pc = "idle"
    PROVE  DesksHaveTickets'
BY DEF TypeInv, DesksHaveTickets, TicketsKept

LEMMA ChainType ==
    ASSUME TypeInv, NEW h \in Hashes, ChainStep(h)
    PROVE  /\ TypeInv' /\ ChainKept
           /\ UNCHANGED <<balance, dep, job, scan, ticket, desk, btcpay>>
<1>1. UNCHANGED <<balance, dep, job, scan, ticket, desk, btcpay>>
  BY DEF ChainStep
<1>2. chain' \in [Hashes -> {"unmined", "mined", "confirmed", "reverted"}] /\ ChainKept
  BY DEF ChainStep, ChainKept, TypeInv, TypeOK
<1> QED BY <1>1, <1>2 DEF TypeInv, TypeOK, DesksHaveTickets, btcpay

LEMMA ScanType ==
    ASSUME TypeInv, (\E h \in Hashes : ScanCheck(h)) \/ ScanCredit
    PROVE  /\ TypeInv' /\ UNCHANGED <<chain, job, ticket, desk, btcpay>>
           /\ \A h \in Hashes : dep'[h] # dep[h] =>
                 /\ h = scan /\ dep[h].status = "none"
                 /\ dep'[h].user = Sender[h] /\ dep'[h].amount = ChainAmount[h]
           /\ scan' # NoKey => Kind[scan'] = "treasury" /\ chain[scan'] \in {"mined", "confirmed"}
<1>1. UNCHANGED <<chain, job, ticket, desk, btcpay>>
  BY DEF ScanCheck, ScanCredit
<1>2. CASE \E h \in Hashes : ScanCheck(h)
  BY <1>1, <1>2 DEF ScanCheck, TypeInv, TypeOK, DesksHaveTickets, btcpay
<1>3. CASE ScanCredit /\ dep[scan].status = "none"
  <2>1. scan \in Hashes /\ scan \in Rows /\ Sender[scan] \in Users /\ ChainAmount[scan] \in Nat
    BY <1>3, ConstantTypes DEF ScanCredit, TypeInv, TypeOK
  <2>2. Credited(scan, Sender[scan], ChainAmount[scan]) /\ scan' = NoKey
    BY <1>3 DEF ScanCredit
  <2>3. /\ dep' \in [Rows -> Dep] /\ balance' \in [Users -> Int]
        /\ dep'[scan] = [dep[scan] EXCEPT !.status = "completed", !.user = Sender[scan],
                                          !.amount = ChainAmount[scan]]
        /\ \A j \in Rows : j # scan => dep'[j] = dep[j]
    BY <2>1, <2>2, CreditedType DEF TypeInv
  <2>4. dep'[scan].user = Sender[scan] /\ dep'[scan].amount = ChainAmount[scan]
    BY <2>1, <2>3 DEF TypeInv, TypeOK, Dep
  <2>5. TypeOK'
    BY <1>1, <2>2, <2>3 DEF TypeInv, TypeOK, btcpay
  <2> QED BY <1>1, <1>3, <2>2, <2>3, <2>4, <2>5, ConstantTypes DEF TypeInv, DesksHaveTickets
<1>4. CASE ScanCredit /\ dep[scan].status # "none"
  BY <1>1, <1>4 DEF ScanCredit, TypeInv, TypeOK, DesksHaveTickets, btcpay
<1> QED BY <1>2, <1>3, <1>4

LEMMA RunStartType ==
    ASSUME TypeInv, NEW r \in Runs, RunStart(r)
    PROVE  /\ TypeInv' /\ UNCHANGED <<chain, balance, dep, scan, ticket, desk, btcpay>>
           /\ \A s \in Runs, h \in Hashes :
                 \/ job'[s][h] = job[s][h]
                 \/ job'[s][h].pc # "ok" /\ (job'[s][h].pc # "idle" => dep[h].status # "none")
<1>1. UNCHANGED <<chain, balance, dep, scan, ticket, desk, btcpay>>
  BY DEF RunStart
<1> DEFINE J(h) == IF h \in PendingRows
                     THEN [pc |-> "loaded", attempts |-> dep[h].attempts + 1] ELSE IdleJob
           jobs == [h \in Hashes |-> J(h)]
<1>2. \A h \in Hashes : /\ J(h) \in Job /\ J(h).pc # "ok"
                        /\ J(h).pc # "idle" => dep[h].status # "none"
  BY ConstantTypes, IdleTypes DEF Job, IdleJob, PendingRows, TypeInv, TypeOK, Dep
<1>3. job' = [job EXCEPT ![r] = jobs]
  BY DEF RunStart
<1> HIDE DEF J
<1>4. jobs \in [Hashes -> Job] /\ \A h \in Hashes : jobs[h] = J(h)
  BY <1>2
<1> HIDE DEF jobs
<1>5. /\ job' \in [Runs -> [Hashes -> Job]] /\ job'[r] = jobs
      /\ \A s \in Runs : s # r => job'[s] = job[s]
  BY <1>3, <1>4 DEF TypeInv, TypeOK
<1> QED BY <1>1, <1>2, <1>4, <1>5 DEF TypeInv, TypeOK, DesksHaveTickets, btcpay

LEMMA TicketType ==
    ASSUME TypeInv, NEW t \in Tickets,
           OpenTicket(t) \/ \E u \in Users, k \in Keys \cup {NoKey} : AskTicket(t, u, k)
    PROVE  /\ TypeInv' /\ UNCHANGED <<chain, balance, dep, job, scan, desk, btcpay>>
           /\ TicketsKept
<1>1. UNCHANGED <<chain, balance, dep, job, scan, desk, btcpay>>
  BY DEF OpenTicket, AskTicket
<1>2. ticket' \in [Tickets -> Ticket] /\ TicketsKept
  <2>1. CASE OpenTicket(t)
    <3>1. [ticket[t] EXCEPT !.status = "open"] \in Ticket
      BY DEF TypeInv, TypeOK, Ticket
    <3>2. ticket' = [ticket EXCEPT ![t] = [ticket[t] EXCEPT !.status = "open"]]
      BY <2>1 DEF OpenTicket, TypeInv, TypeOK
    <3> QED BY <2>1, <3>1, <3>2 DEF OpenTicket, TypeInv, TypeOK, TicketsKept
  <2>2. ASSUME NEW u \in Users, NEW k \in Keys \cup {NoKey}, AskTicket(t, u, k)
        PROVE  ticket' \in [Tickets -> Ticket] /\ TicketsKept
    <3>1. [status |-> "asked", user |-> u, key |-> k] \in Ticket
      BY DEF Ticket
    <3> QED BY <2>2, <3>1 DEF AskTicket, TypeInv, TypeOK, TicketsKept
  <2> QED BY <2>1, <2>2
<1> QED BY <1>1, <1>2, DesksKept DEF TypeInv, TypeOK, btcpay

\* The steps of BTCPay leave the rows of transfers alone.
LEMMA BtcpayType ==
    ASSUME TypeInv,
           \/ \E u \in Users, i \in Invoices : CreateInvoice(u, i)
           \/ \E i \in Invoices : TrackInvoice(i) \/ PayInvoice(i)
           \/ \E d \in Deliveries, i \in Invoices : Webhook(d, i)
           \/ \E d \in Deliveries : WebhookCredit(d)
    PROVE  /\ TypeInv' /\ UNCHANGED <<chain, job, scan, ticket, desk>>
           /\ \A h \in Hashes : dep'[h] = dep[h]
<1>1. UNCHANGED <<chain, job, scan, ticket, desk>>
  BY DEF CreateInvoice, TrackInvoice, PayInvoice, InvoiceStep, Webhook, WebhookCredit
<1>2. ASSUME NEW i \in Invoices, NEW state \in Invoice, InvoiceStep(i, state)
      PROVE  invoice' \in [Invoices -> Invoice] /\ UNCHANGED <<balance, hook>>
  BY <1>2 DEF InvoiceStep, TypeInv, TypeOK
<1>3. ASSUME NEW u \in Users, NEW i \in Invoices, CreateInvoice(u, i)
      PROVE  TypeOK' /\ \A h \in Hashes : dep'[h] = dep[h]
  <2>1. [status |-> "created", user |-> u] \in Invoice
    BY DEF Invoice
  <2> QED BY <1>1, <1>2, <1>3, <2>1 DEF CreateInvoice, TypeInv, TypeOK
<1>4. ASSUME NEW i \in Invoices, TrackInvoice(i)
      PROVE  TypeOK' /\ \A h \in Hashes : dep'[h] = dep[h]
  <2>1. invoice[i] \in Invoice
    BY DEF TypeInv, TypeOK
  <2>2. [status |-> "btcpay_pending", user |-> invoice[i].user,
         amount |-> InvoiceAmount, attempts |-> 0] \in Dep
        /\ [invoice[i] EXCEPT !.status = "open"] \in Invoice
    BY <2>1, ConstantTypes DEF Invoice, Dep, DepStatus
  <2>3. dep' \in [Rows -> Dep] /\ \A h \in Hashes : dep'[h] = dep[h]
    BY <1>4, <2>2, ConstantTypes DEF TrackInvoice, TypeInv, TypeOK
  <2> QED BY <1>1, <1>2, <1>4, <2>2, <2>3 DEF TrackInvoice, TypeInv, TypeOK
<1>5. ASSUME NEW i \in Invoices, PayInvoice(i)
      PROVE  TypeOK' /\ \A h \in Hashes : dep'[h] = dep[h]
  <2>1. [invoice[i] EXCEPT !.status = "settled"] \in Invoice
    BY DEF TypeInv, TypeOK, Invoice
  <2> QED BY <1>1, <1>2, <1>5, <2>1 DEF PayInvoice, TypeInv, TypeOK
<1>6. ASSUME NEW d \in Deliveries, NEW i \in Invoices, Webhook(d, i)
      PROVE  TypeOK' /\ \A h \in Hashes : dep'[h] = dep[h]
  BY <1>6 DEF Webhook, TypeInv, TypeOK
<1>7. ASSUME NEW d \in Deliveries, WebhookCredit(d)
      PROVE  TypeOK' /\ \A h \in Hashes : dep'[h] = dep[h]
  <2>1. /\ hook[d] \in Invoices /\ hook[d] \in Rows /\ hook[d] \notin Hashes
        /\ dep[hook[d]] \in Dep
    BY <1>7, ConstantTypes DEF WebhookCredit, TypeInv, TypeOK
  <2>2. dep[hook[d]].user \in Users \cup {NoUser} /\ dep[hook[d]].amount \in Nat
    BY <2>1 DEF Dep
  <2>3. Credited(hook[d], dep[hook[d]].user, dep[hook[d]].amount)
        /\ hook' = [hook EXCEPT ![d] = NoKey] /\ UNCHANGED invoice
    BY <1>7 DEF WebhookCredit
  <2>4. /\ dep' \in [Rows -> Dep] /\ balance' \in [Users -> Int]
        /\ \A j \in Rows : j # hook[d] => dep'[j] = dep[j]
    BY <2>1, <2>2, <2>3, CreditedType DEF TypeInv
  <2> QED BY <1>1, <2>1, <2>3, <2>4, ConstantTypes DEF TypeInv, TypeOK
<1>8. TypeOK' /\ \A h \in Hashes : dep'[h] = dep[h]
  BY <1>3, <1>4, <1>5, <1>6, <1>7
<1> QED BY <1>1, <1>8 DEF TypeInv, DesksHaveTickets

LEMMA CrashType ==
    ASSUME TypeInv, Crash
    PROVE  /\ TypeInv' /\ UNCHANGED <<chain, balance, dep>> /\ TicketsKept
           /\ scan' = NoKey /\ \A r \in Runs, h \in Hashes : job'[r][h].pc = "idle"
<1>1. UNCHANGED <<chain, balance, dep>> /\ scan' = NoKey
  BY DEF Crash
<1>2. /\ job' \in [Runs -> [Hashes -> Job]]
      /\ \A r \in Runs, h \in Hashes : job'[r][h].pc = "idle"
  BY IdleTypes DEF Crash, IdleJob
<1>3. ticket' \in [Tickets -> Ticket] /\ TicketsKept
  BY IdleTypes DEF Crash, TypeInv, TypeOK, TicketsKept
<1>4. /\ desk' \in [Admins -> Desk] /\ \A a \in Admins : desk'[a].pc = "idle"
      /\ invoice' \in [Invoices -> Invoice] /\ hook' \in [Deliveries -> Invoices \cup {NoKey}]
  BY IdleTypes DEF Crash, IdleDesk, TypeInv, TypeOK
<1> QED BY <1>1, <1>2, <1>3, <1>4 DEF TypeInv, TypeOK, DesksHaveTickets

LEMMA EnterStep ==
    ASSUME TypeInv, NEW h \in Hashes, SyncDeposit(h) \/ \E u \in Users : SubmitDeposit(u, h)
    PROVE  /\ TypeInv' /\ UNCHANGED <<chain, job, scan, ticket, desk>>
           /\ dep[h].status = "none" /\ dep'[h].status = "pending_verification"
           /\ \A j \in Hashes : j # h => dep'[j] = dep[j]
<1>1. PICK u \in Users, n \in Nat : Insert(h, u, n)
  BY EnterType DEF TypeInv
<1>2. /\ TypeOK' /\ UNCHANGED <<chain, balance, job, scan, ticket, desk, btcpay>>
      /\ dep[h].status = "none" /\ dep'[h].status = "pending_verification"
      /\ \A j \in Rows : j # h => dep'[j] = dep[j]
  BY <1>1, InsertType DEF TypeInv
<1> QED BY <1>2, ConstantTypes DEF TypeInv, DesksHaveTickets

LEMMA VerifyReadStep ==
    ASSUME TypeInv, NEW r \in Runs, NEW h \in Hashes, VerifyRead(r, h)
    PROVE  /\ TypeInv' /\ UNCHANGED <<chain, dep, scan, ticket, desk>>
           /\ job[r][h].pc = "loaded"
           /\ job'[r][h].pc = "ok" => chain[h] = "confirmed" /\ Accepts(h, dep[h].user)
           /\ \A s \in Runs, i \in Hashes : s # r \/ i # h => job'[s][i] = job[s][i]
<1>1. /\ TypeOK' /\ UNCHANGED <<chain, balance, dep, scan, ticket, desk, btcpay>>
      /\ job[r][h].pc = "loaded"
      /\ job'[r][h].pc = "ok" => Verdict(h) = "ok"
      /\ \A s \in Runs, i \in Hashes : s # r \/ i # h => job'[s][i] = job[s][i]
  BY VerifyReadType DEF TypeInv
<1>2. chain[h] \in {"unmined", "mined", "confirmed", "reverted"}
  BY DEF TypeInv, TypeOK
<1> QED BY <1>1, <1>2, VerdictType DEF TypeInv, DesksHaveTickets

LEMMA VerifyWriteStep ==
    ASSUME TypeInv, NEW r \in Runs, NEW h \in Hashes,
           VerifyWait(r, h) \/ VerifyFail(r, h) \/ VerifyCredit(r, h)
    PROVE  TypeInv' /\ Judged(r, h)
BY VerifyWriteType DEF TypeInv, DesksHaveTickets, Judged

LEMMA DeskStep ==
    ASSUME TypeInv, NEW a \in Admins, NEW t \in Tickets,
           ViewTicket(a, t) \/ RejectTicket(a, t) \/ ApproveTicket(a, t)
    PROVE  TypeInv' /\ UNCHANGED <<chain, dep, job, scan, ticket>>
<1>1. /\ TypeOK' /\ UNCHANGED <<chain, balance, dep, job, scan, ticket, btcpay>>
      /\ \E pc : desk' = [desk EXCEPT ![a] = [pc |-> pc, t |-> t]]
                       /\ (pc = "revive" => ticket[t].key # NoKey)
      /\ ticket[t].status \notin {"none", "asked"}
  BY DeskStartType DEF TypeInv
<1>2. desk \in [Admins -> Desk]
  BY DEF TypeInv, TypeOK
<1>3. \A b \in Admins : b # a => desk'[b] = desk[b]
  BY <1>1, <1>2
<1>4. desk'[a].t = t /\ (desk'[a].pc = "revive" => ticket[t].key # NoKey)
  BY <1>1, <1>2
<1> QED BY <1>1, <1>3, <1>4 DEF TypeInv, DesksHaveTickets

LEMMA SettledStep ==
    ASSUME TypeInv, NEW a \in Admins,
           \/ ViewWrite(a) \/ RejectWrite(a) \/ CreateWrite(a) \/ ReviveWrite(a)
           \/ CloseWrite(a)
    PROVE  TypeInv' /\ Settled(a) /\ TicketsKept
<1>1. TypeOK' /\ Settled(a)
  BY SettledType DEF TypeInv
<1>2. TicketsKept
  BY <1>1 DEF Settled, TicketsKept
<1>3. \A b \in Admins : desk'[b] = desk[b] \/ desk'[b].pc = "idle"
  <2>1. desk' = [desk EXCEPT ![a] = IdleDesk]
    BY DEF ViewWrite, RejectWrite, CreateWrite, ReviveWrite, CloseWrite, DeskWrite
  <2> QED BY <2>1 DEF TypeInv, TypeOK, IdleDesk
<1> QED BY <1>1, <1>2, <1>3, DesksKept DEF TypeInv

LEMMA InitTypeInv == Init => TypeInv
BY InitType DEF Init, TypeInv, DesksHaveTickets, IdleDesk

LEMMA NextTypeInv == TypeInv /\ [Next]_vars => TypeInv'
<1> SUFFICES ASSUME TypeInv, [Next]_vars PROVE TypeInv'
  OBVIOUS
<1>1. CASE UNCHANGED vars
  BY <1>1 DEF vars, btcpay, TypeInv, TypeOK, DesksHaveTickets
<1> QED
  BY <1>1, ChainType, EnterStep, ScanType, RunStartType, VerifyReadStep, VerifyWriteStep,
     TicketType, DeskStep, SettledStep, BtcpayType, CrashType DEF Next

THEOREM TypingInv == Spec => []TypeInv
BY InitTypeInv, NextTypeInv, PTL DEF Spec

\* Every variable keeps its type; a ticket handler holds a ticket that is out.
THEOREM Typing == Spec => []TypeOK
BY TypingInv, PTL DEF TypeInv

-----------------------------------------------------------------------------
(* Automatic credits.  A job past its verdict and a scanner past its look- *)
(* up know a transfer to us, which neither the chain nor the table takes   *)
(* back before they credit it; only a ticket may change the row's user.    *)

\* A ticket under the hash is out: an admin may have credited it.
Vouched(h) == \E t \in Tickets : ticket[t].key = h /\ ticket[t].status \notin {"none", "asked"}

JobKnows(r, h) ==
    /\ job[r][h].pc # "idle" => dep[h].status # "none"
    /\ job[r][h].pc = "ok" =>
          chain[h] = "confirmed" /\ (Vouched(h) \/ Accepts(h, dep[h].user))

RowReal(h) ==
    dep[h].status = "completed" =>
        \/ Vouched(h)
        \/ /\ chain[h] \in {"mined", "confirmed"}
           /\ Accepts(h, dep[h].user)
           /\ dep[h].amount = ChainAmount[h]

ScanKnows == scan # NoKey => Kind[scan] = "treasury" /\ chain[scan] \in {"mined", "confirmed"}

CreditsReal == /\ ScanKnows
               /\ \A h \in Hashes : RowReal(h) /\ \A r \in Runs : JobKnows(r, h)

RealInv == TypeInv /\ CreditsReal

LEMMA VouchedKept ==
    ASSUME TicketsKept, NEW h \in Hashes, Vouched(h)
    PROVE  Vouched(h)'
BY DEF TicketsKept, Vouched

LEMMA ChainReal ==
    ASSUME RealInv, ChainKept, UNCHANGED <<dep, job, scan, ticket>>
    PROVE  CreditsReal'
<1> USE DEF CreditsReal
<1>1. \A h \in Hashes : Vouched(h)' <=> Vouched(h)
  BY DEF Vouched
<1>2. ScanKnows'
  BY ConstantTypes DEF RealInv, ScanKnows, ChainKept, TypeInv, TypeOK
<1>3. ASSUME NEW h \in Hashes PROVE RowReal(h)' /\ \A r \in Runs : JobKnows(r, h)'
  BY <1>1 DEF RealInv, RowReal, JobKnows, ChainKept, Accepts
<1> QED BY <1>2, <1>3

\* A step that only takes tickets further.
LEMMA TicketReal ==
    ASSUME RealInv, TicketsKept, UNCHANGED <<chain, dep>>,
           scan' = scan \/ scan' = NoKey,
           \A r \in Runs, h \in Hashes : \/ job'[r][h] = job[r][h] \/ job'[r][h].pc = "idle"
                                         \/ /\ job'[r][h].pc # "ok"
                                            /\ dep[h].status # "none"
    PROVE  CreditsReal'
<1> USE DEF CreditsReal
<1>1. ScanKnows'
  BY DEF RealInv, ScanKnows
<1>2. ASSUME NEW h \in Hashes PROVE RowReal(h)' /\ \A r \in Runs : JobKnows(r, h)'
  <2>1. Vouched(h) => Vouched(h)'
    BY VouchedKept
  <2>2. RowReal(h) /\ \A r \in Runs : JobKnows(r, h)
    BY DEF RealInv
  <2> QED BY <2>1, <2>2 DEF RowReal, JobKnows, Accepts
<1> QED BY <1>1, <1>2

LEMMA InitReal == Init => RealInv
BY InitTypeInv, ConstantTypes DEF Init, RealInv, CreditsReal, ScanKnows, RowReal, JobKnows, NoDep, IdleJob

LEMMA NextReal == RealInv /\ [Next]_vars => RealInv'
<1> SUFFICES ASSUME RealInv, [Next]_vars
             PROVE  CreditsReal'
  BY NextTypeInv DEF RealInv
<1> USE DEF CreditsReal
<1>0. /\ TypeInv /\ ScanKnows
      /\ \A h \in Hashes : RowReal(h) /\ \A r \in Runs : JobKnows(r, h)
  BY DEF RealInv
<1>1. ASSUME NEW h \in Hashes, ChainStep(h) PROVE CreditsReal'
  BY <1>0, <1>1, ChainType, ChainReal
<1>2. ASSUME NEW h \in Hashes, SyncDeposit(h) \/ \E u \in Users : SubmitDeposit(u, h)
      PROVE  CreditsReal'
  <2>1. /\ UNCHANGED <<chain, job, scan, ticket>>
        /\ dep[h].status = "none" /\ dep'[h].status = "pending_verification"
        /\ \A j \in Hashes : j # h => dep'[j] = dep[j]
    BY <1>0, <1>2, EnterStep
  <2>2. \A j \in Hashes : Vouched(j)' <=> Vouched(j)
    BY <2>1 DEF Vouched
  <2>3. ScanKnows'
    BY <1>0, <2>1 DEF ScanKnows
  <2>4. ASSUME NEW j \in Hashes PROVE RowReal(j)' /\ \A r \in Runs : JobKnows(r, j)'
    BY <1>0, <2>1, <2>2 DEF RowReal, JobKnows, Accepts
  <2> QED BY <2>3, <2>4
<1>3. CASE (\E h \in Hashes : ScanCheck(h)) \/ ScanCredit
  <2>1. /\ UNCHANGED <<chain, job, ticket>>
        /\ \A h \in Hashes : dep'[h] # dep[h] =>
              /\ h = scan /\ dep[h].status = "none"
              /\ dep'[h].user = Sender[h] /\ dep'[h].amount = ChainAmount[h]
        /\ scan' # NoKey => Kind[scan'] = "treasury" /\ chain[scan'] \in {"mined", "confirmed"}
    BY <1>0, <1>3, ScanType
  <2>2. \A j \in Hashes : Vouched(j)' <=> Vouched(j)
    BY <2>1 DEF Vouched
  <2>3. ScanKnows'
    BY <2>1 DEF ScanKnows
  <2>4. ASSUME NEW j \in Hashes PROVE RowReal(j)' /\ \A r \in Runs : JobKnows(r, j)'
    <3>1. CASE dep'[j] = dep[j]
      BY <1>0, <2>1, <2>2, <3>1 DEF RowReal, JobKnows, Accepts
    <3>2. CASE dep'[j] # dep[j]
      <4>1. j = scan /\ scan # NoKey /\ dep[j].status = "none"
        BY <2>1, <3>2, ConstantTypes
      <4>2. \A r \in Runs : job'[r][j].pc = "idle"
        BY <1>0, <2>1, <4>1 DEF JobKnows
      <4> QED BY <1>0, <2>1, <3>2, <4>1, <4>2 DEF ScanKnows, RowReal, JobKnows, Accepts
    <3> QED BY <3>1, <3>2
  <2> QED BY <2>3, <2>4
<1>4. ASSUME NEW r \in Runs, RunStart(r) PROVE CreditsReal'
  <2>1. TicketsKept /\ UNCHANGED <<chain, dep, scan>>
        /\ \A s \in Runs, h \in Hashes :
              \/ job'[s][h] = job[s][h]
              \/ job'[s][h].pc # "ok" /\ (job'[s][h].pc # "idle" => dep[h].status # "none")
    BY <1>0, <1>4, RunStartType DEF TicketsKept
  <2> QED BY <2>1, TicketReal
<1>5. ASSUME NEW r \in Runs, NEW h \in Hashes, VerifyRead(r, h) PROVE CreditsReal'
  <2>1. /\ UNCHANGED <<chain, dep, scan, ticket>>
        /\ job[r][h].pc = "loaded"
        /\ job'[r][h].pc = "ok" => chain[h] = "confirmed" /\ Accepts(h, dep[h].user)
        /\ \A s \in Runs, i \in Hashes : s # r \/ i # h => job'[s][i] = job[s][i]
    BY <1>0, <1>5, VerifyReadStep
  <2>2. \A j \in Hashes : Vouched(j)' <=> Vouched(j)
    BY <2>1 DEF Vouched
  <2>3. ScanKnows'
    BY <1>0, <2>1 DEF ScanKnows
  <2>4. ASSUME NEW j \in Hashes PROVE RowReal(j)'
    BY <1>0, <2>1, <2>2 DEF RowReal, Accepts
  <2>5. ASSUME NEW j \in Hashes, NEW s \in Runs PROVE JobKnows(s, j)'
    <3>1. CASE s = r /\ j = h
      BY <1>0, <2>1, <3>1 DEF JobKnows, Accepts
    <3>2. CASE s # r \/ j # h
      BY <1>0, <2>1, <2>2, <3>2 DEF JobKnows, Accepts
    <3> QED BY <3>1, <3>2
  <2> QED BY <2>3, <2>4, <2>5
<1>6. ASSUME NEW r \in Runs, NEW h \in Hashes,
             VerifyWait(r, h) \/ VerifyFail(r, h) \/ VerifyCredit(r, h)
      PROVE  CreditsReal'
  <2>1. Judged(r, h)
    BY <1>0, <1>6, VerifyWriteStep
  <2>2. \A j \in Hashes : Vouched(j)' <=> Vouched(j)
    BY <2>1 DEF Judged, Vouched
  <2>3. ScanKnows'
    BY <1>0, <2>1 DEF Judged, ScanKnows
  <2>4. h \in Rows /\ \A j \in Hashes : j \in Rows
    BY ConstantTypes
  <2>5. ASSUME NEW j \in Hashes PROVE RowReal(j)'
    <3>1. CASE j = h
      BY <1>0, <2>1, <2>2, <3>1 DEF Judged, RowReal, JobKnows, Accepts
    <3>2. CASE j # h
      BY <1>0, <2>1, <2>2, <2>4, <3>2 DEF Judged, RowReal, Accepts
    <3> QED BY <3>1, <3>2
  <2>6. ASSUME NEW j \in Hashes PROVE dep[j].status # "none" => dep'[j].status # "none"
    BY <2>1, <2>4 DEF Judged
  <2>7. ASSUME NEW j \in Hashes PROVE dep'[j].user = dep[j].user
    BY <2>1, <2>4 DEF Judged
  <2>8. ASSUME NEW j \in Hashes, NEW s \in Runs PROVE JobKnows(s, j)'
    <3>1. job'[s][j] = job[s][j] \/ job'[s][j].pc = "idle"
      BY <2>1 DEF Judged, IdleJob
    <3>2. chain' = chain
      BY <2>1 DEF Judged
    <3> QED BY <1>0, <2>2, <2>6, <2>7, <3>1, <3>2 DEF JobKnows, Accepts
  <2> QED BY <2>3, <2>5, <2>8
<1>7. ASSUME NEW t \in Tickets,
             OpenTicket(t) \/ \E u \in Users, k \in Keys \cup {NoKey} : AskTicket(t, u, k)
      PROVE  CreditsReal'
  BY <1>0, <1>7, TicketType, TicketReal
<1>8. ASSUME NEW a \in Admins, NEW t \in Tickets,
             ViewTicket(a, t) \/ RejectTicket(a, t) \/ ApproveTicket(a, t)
      PROVE  CreditsReal'
  <2>1. UNCHANGED <<chain, dep, job, scan, ticket>>
    BY <1>0, <1>8, DeskStep
  <2> QED BY <2>1, TicketReal DEF TicketsKept
<1>9. ASSUME NEW a \in Admins, \/ ViewWrite(a) \/ RejectWrite(a) \/ CreateWrite(a)
                               \/ ReviveWrite(a) \/ CloseWrite(a)
      PROVE  CreditsReal'
  <2>1. Settled(a) /\ TicketsKept
    BY <1>0, <1>9, SettledStep
  <2>2. ScanKnows'
    BY <1>0, <2>1 DEF Settled, ScanKnows
  <2>3. ASSUME NEW j \in Hashes PROVE RowReal(j)' /\ \A r \in Runs : JobKnows(r, j)'
    <3>1. dep'[j] = dep[j] \/ (dep'[j].status = "completed" /\ Vouched(j)')
      BY <2>1, ConstantTypes DEF Settled, Vouched
    <3>2. Vouched(j) => Vouched(j)'
      BY <2>1, VouchedKept
    <3>3. UNCHANGED <<chain, job>>
      BY <2>1 DEF Settled
    <3> QED BY <1>0, <3>1, <3>2, <3>3 DEF RowReal, JobKnows, Accepts
  <2> QED BY <2>2, <2>3
<1>10. CASE \/ \E u \in Users, i \in Invoices : CreateInvoice(u, i)
            \/ \E i \in Invoices : TrackInvoice(i) \/ PayInvoice(i)
            \/ \E d \in Deliveries, i \in Invoices : Webhook(d, i)
            \/ \E d \in Deliveries : WebhookCredit(d)
  <2>1. UNCHANGED <<chain, job, scan, ticket>> /\ \A h \in Hashes : dep'[h] = dep[h]
    BY <1>0, <1>10, BtcpayType
  <2>2. ScanKnows'
    BY <1>0, <2>1 DEF ScanKnows
  <2>3. ASSUME NEW j \in Hashes PROVE RowReal(j)' /\ \A r \in Runs : JobKnows(r, j)'
    <3>1. Vouched(j)' <=> Vouched(j)
      BY <2>1 DEF Vouched
    <3> QED BY <1>0, <2>1, <3>1 DEF RowReal, JobKnows, Accepts
  <2> QED BY <2>2, <2>3
<1>11. CASE Crash
  BY <1>0, <1>11, CrashType, TicketReal
<1>12. CASE UNCHANGED vars
  BY <1>12, TicketReal DEF vars, TicketsKept
<1> HIDE DEF CreditsReal
<1> QED
  BY <1>1, <1>2, <1>3, <1>4, <1>5, <1>6, <1>7, <1>8, <1>9, <1>10, <1>11, <1>12 DEF Next

\* A row completed without any ticket under its hash is a mined transfer to us, by the
\* player credited, and of the amount on chain, whatever the passes, scanners and admins do.
THEOREM AutomaticCredits == Spec => []AutomaticCreditIsReal
<1>1. RealInv => AutomaticCreditIsReal
  BY DEF RealInv, CreditsReal, RowReal, Vouched, AutomaticCreditIsReal
<1> QED BY <1>1, InitReal, NextReal, PTL DEF Spec
-----------------------------------------------------------------------------
(* The balance.  One pass of the verifier, one ticket handler and one      *)
(* webhook at a time: then what each of them has read still holds when it  *)
(* writes.                                                                 *)

OneRun      == \A r, s \in Runs : r = s
OneAdmin    == \A a, b \in Admins : a = b
OneDelivery == \A d, e \in Deliveries : d = e

\* An entry of n has n units.
LEMMA EntryUnits ==
    ASSUME NEW x, NEW n \in Nat
    PROVE  IsFiniteSet({x} \X (1 .. n)) /\ Cardinality({x} \X (1 .. n)) = n
<1>1. IsFiniteSet(1 .. n) /\ Cardinality(1 .. n) = n
  BY FS_Interval
<1>2. IsFiniteSet({x}) /\ Cardinality({x}) = 1
  BY FS_Singleton
<1> QED BY <1>1, <1>2, FS_Product

\* Tables that differ in one entry have totals that differ by it.
LEMMA TotalChange ==
    ASSUME NEW S, NEW T, NEW f \in [S -> Nat], NEW g \in [T -> Nat], NEW x,
           S \ {x} = T \ {x}, \A y \in S \ {x} : g[y] = f[y], IsFiniteSet(Units(f))
    PROVE  /\ IsFiniteSet(Units(g))
           /\ Total(g) = Total(f) - (IF x \in S THEN f[x] ELSE 0)
                                  + (IF x \in T THEN g[x] ELSE 0)
<1> DEFINE a == IF x \in S THEN f[x] ELSE 0
           b == IF x \in T THEN g[x] ELSE 0
           A == {x} \X (1 .. a)
           B == {x} \X (1 .. b)
           R == Units(f) \ A
<1>1. a \in Nat /\ b \in Nat
  OBVIOUS
<1>2. A \subseteq Units(f)
  BY DEF Units
<1>3. Units(g) = R \cup B
  BY DEF Units
<1>4. R \cap B = {}
  BY DEF Units
<1> HIDE DEF a, b
<1>5. /\ IsFiniteSet(A) /\ Cardinality(A) = a
      /\ IsFiniteSet(B) /\ Cardinality(B) = b
  BY <1>1, EntryUnits
<1>6. Units(f) \cap A = A
  BY <1>2
<1>7. IsFiniteSet(R) /\ Cardinality(R) = Total(f) - a
  <2>1. /\ IsFiniteSet(R)
        /\ Cardinality(R) = Cardinality(Units(f)) - Cardinality(Units(f) \cap A)
    BY FS_Difference
  <2> QED BY <1>5, <1>6, <2>1 DEF Total
<1>8. IsFiniteSet(R \cup B) /\ Cardinality(R \cup B) = Cardinality(R) + b - 0
  BY <1>4, <1>5, <1>7, FS_Union, FS_EmptySet
<1>9. Total(f) \in Nat /\ Cardinality(R) \in Nat
  BY <1>7, FS_CardinalityType DEF Total
<1> QED BY <1>1, <1>3, <1>7, <1>8, <1>9 DEF Total, a, b

LEMMA TotalIsNat ==
    ASSUME NEW f, IsFiniteSet(Units(f))
    PROVE  Total(f) \in Nat
BY FS_CardinalityType DEF Total

LEMMA NoUnits ==
    ASSUME NEW f, DOMAIN f = {}
    PROVE  IsFiniteSet(Units(f)) /\ Total(f) = 0
<1>1. Units(f) = {}
  BY DEF Units
<1> QED BY <1>1, FS_EmptySet DEF Total

\* What the pass, the ticket handler and the webhook hold is as they read it; an invoice
\* without a row has no row.
JobsCurrent ==
    \A r \in Runs, h \in Hashes :
        job[r][h].pc # "idle" => dep[h].status = "pending_verification"
DesksCurrent ==
    \A a \in Admins :
        /\ desk[a].pc \in {"view", "reject", "create"} => ticket[desk[a].t].status # "credited"
        /\ desk[a].pc = "revive" => dep[ticket[desk[a].t].key].status = "failed"
        /\ desk[a].pc = "close" => ticket[desk[a].t].key # NoKey
HooksCurrent ==
    /\ \A i \in Invoices : invoice[i].status \in {"none", "created"} => dep[i].status = "none"
    /\ \A d \in Deliveries : hook[d] # NoKey => dep[hook[d]].status = "btcpay_pending"

Accounts ==
    \A u \in Users :
        /\ IsFiniteSet(Units(Deposited(u))) /\ IsFiniteSet(Units(ByTicket(u)))
        /\ balance[u] = Total(Deposited(u)) + Total(ByTicket(u))

BalanceInv == TypeInv /\ JobsCurrent /\ DesksCurrent /\ HooksCurrent /\ Accounts

\* The two tables are of naturals.
LEMMA TableTypes ==
    ASSUME TypeOK, NEW u \in Users
    PROVE  /\ Deposited(u) \in [RowsOf(u) -> Nat] /\ ByTicket(u) \in [HashlessOf(u) -> Nat]
           /\ \A k \in RowsOf(u) : Deposited(u)[k] = dep[k].amount
           /\ \A t \in HashlessOf(u) : ByTicket(u)[t] = AdminAmount
<1>1. \A k \in Rows : dep[k].amount \in Nat
  BY DEF TypeOK, Dep
<1> QED BY <1>1, ConstantTypes DEF Deposited, ByTicket, RowsOf

\* The columns a row or a ticket counts by.
SameTickets == \A u \in Users : HashlessOf(u)' = HashlessOf(u)

\* A row that was not completed is written: it counts if it is completed now.
LEMMA RowBooked ==
    ASSUME TypeOK, TypeOK', Accounts, SameTickets, NEW k \in Rows, dep[k].status # "completed",
           \A j \in Rows : j # k => dep'[j] = dep[j],
           \A u \in Users : balance'[u] = balance[u] +
               (IF dep'[k].status = "completed" /\ dep'[k].user = u THEN dep'[k].amount ELSE 0)
    PROVE  Accounts'
<1> SUFFICES ASSUME NEW u \in Users
             PROVE  /\ IsFiniteSet(Units(Deposited(u)))' /\ IsFiniteSet(Units(ByTicket(u)))'
                    /\ balance'[u] = Total(Deposited(u))' + Total(ByTicket(u))'
  BY DEF Accounts
<1> DEFINE S == RowsOf(u)
           T == RowsOf(u)'
           f == Deposited(u)
           g == Deposited(u)'
           n == IF dep'[k].status = "completed" /\ dep'[k].user = u THEN dep'[k].amount ELSE 0
<1>1. f \in [S -> Nat] /\ \A j \in S : f[j] = dep[j].amount
  BY TableTypes
<1>2. g \in [T -> Nat] /\ \A j \in T : g[j] = dep'[j].amount
  <2>1. \A j \in Rows : dep'[j].amount \in Nat
    BY DEF TypeOK, Dep
  <2> QED BY <2>1 DEF Deposited, RowsOf
<1>3. k \notin S /\ S \ {k} = T \ {k} /\ (\A j \in S \ {k} : j \in T /\ dep'[j] = dep[j])
  BY DEF RowsOf
<1>4. n = IF k \in T THEN dep'[k].amount ELSE 0
  BY DEF RowsOf
<1>5. \A j \in S \ {k} : g[j] = f[j]
  BY <1>1, <1>2, <1>3
<1>6. IsFiniteSet(Units(f)) /\ IsFiniteSet(Units(ByTicket(u)))
  BY DEF Accounts
<1>7. ByTicket(u)' = ByTicket(u)
  BY DEF ByTicket, SameTickets
<1>8. Units(g) = Units(Deposited(u))' /\ Total(g) = Total(Deposited(u))'
      /\ Units(ByTicket(u))' = Units(ByTicket(u)) /\ Total(ByTicket(u))' = Total(ByTicket(u))
  BY <1>7 DEF Units, Total
<1>9. balance[u] = Total(f) + Total(ByTicket(u)) /\ balance'[u] = balance[u] + n
  BY DEF Accounts
<1>10. n = IF k \in T THEN g[k] ELSE 0
  BY <1>2, <1>4
<1>11. n \in Nat
  BY <1>2, <1>10
<1>12. Total(f) \in Nat /\ Total(ByTicket(u)) \in Nat
  BY <1>6, TotalIsNat
<1>16. S \ {k} = T \ {k} /\ f \in [S -> Nat] /\ g \in [T -> Nat]
  BY <1>1, <1>2, <1>3
<1> HIDE DEF S, T, f, g, n
<1>13. /\ IsFiniteSet(Units(g))
       /\ Total(g) = Total(f) - (IF k \in S THEN f[k] ELSE 0) + (IF k \in T THEN g[k] ELSE 0)
  BY <1>5, <1>6, <1>16, TotalChange
<1>14. Total(g) = Total(f) + n
  BY <1>3, <1>10, <1>11, <1>12, <1>13
<1>15. balance'[u] = Total(g) + Total(ByTicket(u))
  BY <1>9, <1>11, <1>12, <1>14
<1> QED BY <1>6, <1>8, <1>13, <1>15

\* A ticket that did not count is written: it counts if it is credited now, without a hash.
LEMMA TicketBooked ==
    ASSUME TypeOK, TypeOK', Accounts, UNCHANGED dep, NEW t \in Tickets,
           ticket[t].status # "credited" \/ ticket[t].key # NoKey,
           \A q \in Tickets : q # t => ticket'[q] = ticket[q],
           \A u \in Users : balance'[u] = balance[u] +
               (IF t \in HashlessOf(u)' THEN AdminAmount ELSE 0)
    PROVE  Accounts'
<1> SUFFICES ASSUME NEW u \in Users
             PROVE  /\ IsFiniteSet(Units(Deposited(u)))' /\ IsFiniteSet(Units(ByTicket(u)))'
                    /\ balance'[u] = Total(Deposited(u))' + Total(ByTicket(u))'
  BY DEF Accounts
<1> DEFINE S == HashlessOf(u)
           T == HashlessOf(u)'
           f == ByTicket(u)
           g == ByTicket(u)'
           n == IF t \in T THEN AdminAmount ELSE 0
<1>1. f \in [S -> Nat] /\ \A q \in S : f[q] = AdminAmount
  BY TableTypes
<1>2. g \in [T -> Nat] /\ \A q \in T : g[q] = AdminAmount
  BY ConstantTypes DEF ByTicket
<1>3. t \notin S /\ S \ {t} = T \ {t} /\ (\A q \in S \ {t} : q \in T)
  BY DEF HashlessOf
<1>5. \A q \in S \ {t} : g[q] = f[q]
  BY <1>1, <1>2, <1>3
<1>6. IsFiniteSet(Units(f)) /\ IsFiniteSet(Units(Deposited(u)))
  BY DEF Accounts
<1>7. Deposited(u)' = Deposited(u)
  BY DEF Deposited, RowsOf
<1>8. Units(g) = Units(ByTicket(u))' /\ Total(g) = Total(ByTicket(u))'
      /\ Units(Deposited(u))' = Units(Deposited(u)) /\ Total(Deposited(u))' = Total(Deposited(u))
  BY <1>7 DEF Units, Total
<1>9. balance[u] = Total(Deposited(u)) + Total(f) /\ balance'[u] = balance[u] + n
  BY DEF Accounts
<1>10. n = IF t \in T THEN g[t] ELSE 0
  BY <1>2
<1>11. n \in Nat
  BY <1>2, <1>10
<1>12. Total(f) \in Nat /\ Total(Deposited(u)) \in Nat
  BY <1>6, TotalIsNat
<1> HIDE DEF S, T, f, g, n
<1>13. /\ IsFiniteSet(Units(g))
       /\ Total(g) = Total(f) - (IF t \in S THEN f[t] ELSE 0) + (IF t \in T THEN g[t] ELSE 0)
  BY <1>1, <1>2, <1>3, <1>5, <1>6, TotalChange
<1>14. Total(g) = Total(f) + n
  BY <1>3, <1>10, <1>11, <1>12, <1>13
<1>15. balance'[u] = Total(Deposited(u)) + Total(g)
  BY <1>9, <1>11, <1>12, <1>14
<1> QED BY <1>6, <1>8, <1>13, <1>15

\* A step of neither.
LEMMA NothingBooked ==
    ASSUME Accounts, UNCHANGED <<dep, balance>>, SameTickets
    PROVE  Accounts'
<1>1. \A u \in Users : Deposited(u)' = Deposited(u) /\ ByTicket(u)' = ByTicket(u)
  BY DEF Deposited, RowsOf, ByTicket, SameTickets
<1>2. \A u \in Users : /\ Units(Deposited(u))' = Units(Deposited(u))
                       /\ Total(Deposited(u))' = Total(Deposited(u))
                       /\ Units(ByTicket(u))' = Units(ByTicket(u))
                       /\ Total(ByTicket(u))' = Total(ByTicket(u))
  BY <1>1 DEF Units, Total
<1> QED BY <1>2 DEF Accounts

LEMMA InitBalance == Init => BalanceInv
<1> SUFFICES ASSUME Init PROVE BalanceInv
  OBVIOUS
<1>1. JobsCurrent /\ DesksCurrent /\ HooksCurrent
  BY ConstantTypes DEF Init, JobsCurrent, DesksCurrent, HooksCurrent, IdleJob, IdleDesk, NoInvoice, NoDep
<1>2. \A u \in Users : RowsOf(u) = {} /\ HashlessOf(u) = {}
  BY DEF Init, RowsOf, HashlessOf, NoDep, NoTicket
<1>3. \A u \in Users : DOMAIN Deposited(u) = {} /\ DOMAIN ByTicket(u) = {}
  BY <1>2 DEF Deposited, ByTicket
<1>4. \A u \in Users : balance[u] = 0
  BY DEF Init
<1>5. Accounts
  BY <1>3, <1>4, NoUnits DEF Accounts
<1> QED BY <1>1, <1>5, InitTypeInv DEF BalanceInv
LEMMA JobsStay ==
    ASSUME JobsCurrent,
           \A r \in Runs, h \in Hashes : job'[r][h].pc # "idle" =>
               /\ job[r][h].pc # "idle"
               /\ dep[h].status = "pending_verification" =>
                     dep'[h].status = "pending_verification"
    PROVE  JobsCurrent'
BY DEF JobsCurrent

LEMMA DesksStay ==
    ASSUME TypeInv, DesksCurrent,
           \A a \in Admins : desk'[a] = desk[a] \/ desk'[a].pc = "idle",
           \A t \in Tickets : ticket[t].status \notin {"none", "asked"} =>
               /\ ticket'[t].key = ticket[t].key
               /\ ticket'[t].status = "credited" => ticket[t].status = "credited",
           \A k \in Rows : dep[k].status = "failed" => dep'[k].status = "failed"
    PROVE  DesksCurrent'
<1> SUFFICES ASSUME NEW a \in Admins, desk'[a].pc # "idle"
             PROVE  /\ desk'[a].pc \in {"view", "reject", "create"} =>
                           ticket'[desk'[a].t].status # "credited"
                    /\ desk'[a].pc = "revive" => dep'[ticket'[desk'[a].t].key].status = "failed"
                    /\ desk'[a].pc = "close" => ticket'[desk'[a].t].key # NoKey
  BY DEF DesksCurrent
<1>1. desk'[a] = desk[a]
  OBVIOUS
<1> DEFINE t == desk[a].t
<1>2. t \in Tickets /\ ticket[t].status \notin {"none", "asked"}
      /\ (desk[a].pc = "revive" => ticket[t].key # NoKey)
  BY <1>1 DEF TypeInv, DesksHaveTickets
<1>3. ticket[t].key \in Keys \cup {NoKey}
  BY <1>2 DEF TypeInv, TypeOK, Ticket
<1>4. desk[a].pc = "revive" => ticket[t].key \in Rows
  BY <1>2, <1>3, ConstantTypes
<1>5. /\ desk[a].pc \in {"view", "reject", "create"} => ticket[t].status # "credited"
      /\ desk[a].pc = "revive" => dep[ticket[t].key].status = "failed"
      /\ desk[a].pc = "close" => ticket[t].key # NoKey
  BY DEF DesksCurrent
<1>6. ticket'[t].key = ticket[t].key
      /\ (ticket'[t].status = "credited" => ticket[t].status = "credited")
  BY <1>2
<1> HIDE DEF t
<1>7. desk'[a].t = t
  BY <1>1 DEF t
<1> QED BY <1>1, <1>4, <1>5, <1>6, <1>7

LEMMA HooksStay ==
    ASSUME TypeInv, HooksCurrent,
           \A i \in Invoices : /\ dep'[i].status = dep[i].status
                               /\ invoice'[i].status \in {"none", "created"} =>
                                     invoice[i].status \in {"none", "created"},
           \A d \in Deliveries : hook'[d] = hook[d] \/ hook'[d] = NoKey
    PROVE  HooksCurrent'
<1>1. \A d \in Deliveries : hook[d] \in Invoices \cup {NoKey}
  BY DEF TypeInv, TypeOK
<1> QED BY <1>1 DEF HooksCurrent

LEMMA CreditedIs ==
    ASSUME TypeOK, NEW k \in Rows, NEW u \in Users \cup {NoUser}, NEW n \in Nat, Credited(k, u, n)
    PROVE  /\ dep'[k].status = "completed" /\ dep'[k].user = u /\ dep'[k].amount = n
           /\ \A j \in Rows : j # k => dep'[j] = dep[j]
           /\ \A v \in Users : balance'[v] = balance[v] + (IF u = v THEN n ELSE 0)
<1>1. dep'[k] = [dep[k] EXCEPT !.status = "completed", !.user = u, !.amount = n]
      /\ \A j \in Rows : j # k => dep'[j] = dep[j]
  BY CreditedType
<1>2. dep[k] \in Dep
  BY DEF TypeOK
<1>3. dep'[k].status = "completed" /\ dep'[k].user = u /\ dep'[k].amount = n
  BY <1>1, <1>2 DEF Dep
<1>4. balance \in [Users -> Int] /\ balance' = [balance EXCEPT ![u] = @ + n]
  BY DEF TypeOK, Credited
<1>5. \A v \in Users : balance'[v] = balance[v] + (IF u = v THEN n ELSE 0)
  BY <1>4
<1> QED BY <1>1, <1>3, <1>5

\* A row of a transfer that no pass, handler or webhook holds is written.
LEMMA HashWritten ==
    ASSUME TypeInv, TypeInv', DesksCurrent, HooksCurrent, NEW h \in Hashes,
           dep[h].status # "failed", \A j \in Rows : j # h => dep'[j] = dep[j],
           UNCHANGED <<ticket, desk, btcpay>>
    PROVE  DesksCurrent' /\ HooksCurrent' /\ SameTickets
<1>1. \A k \in Rows : dep[k].status = "failed" => dep'[k].status = "failed"
  OBVIOUS
<1>2. DesksCurrent'
  BY <1>1, DesksStay
<1>3. \A i \in Invoices : dep'[i] = dep[i]
  BY ConstantTypes
<1>4. HooksCurrent'
  BY <1>3, HooksStay DEF btcpay
<1>5. SameTickets
  BY DEF SameTickets, HashlessOf
<1> QED BY <1>2, <1>4, <1>5

LEMMA EnterBalance ==
    ASSUME BalanceInv, TypeInv', NEW h \in Hashes,
           SyncDeposit(h) \/ \E u \in Users : SubmitDeposit(u, h)
    PROVE  BalanceInv'
<1>1. PICK u \in Users, n \in Nat : Insert(h, u, n)
  BY EnterType DEF BalanceInv, TypeInv
<1>2. /\ UNCHANGED <<chain, balance, job, scan, ticket, desk, btcpay>>
      /\ dep[h].status = "none" /\ dep'[h].status = "pending_verification"
      /\ \A j \in Rows : j # h => dep'[j] = dep[j]
  BY <1>1, InsertType DEF BalanceInv, TypeInv
<1>3. h \in Rows /\ (\A j \in Hashes : j \in Rows) /\ \A v \in Users : balance[v] \in Int
  BY ConstantTypes DEF BalanceInv, TypeInv, TypeOK
<1>4. JobsCurrent'
  BY <1>2, <1>3, JobsStay DEF BalanceInv
<1>5. DesksCurrent' /\ HooksCurrent' /\ SameTickets
  BY <1>2, HashWritten DEF BalanceInv
<1>6. Accounts'
  <2>1. dep[h].status # "completed" /\ dep'[h].status # "completed"
    BY <1>2
  <2>2. \A v \in Users : balance'[v] = balance[v] +
            (IF dep'[h].status = "completed" /\ dep'[h].user = v THEN dep'[h].amount ELSE 0)
    BY <1>2, <1>3, <2>1
  <2> QED BY <1>2, <1>3, <1>5, <2>1, <2>2, RowBooked DEF BalanceInv, TypeInv
<1> QED BY <1>4, <1>5, <1>6 DEF BalanceInv

LEMMA ScanBalance ==
    ASSUME BalanceInv, TypeInv', ScanCredit
    PROVE  BalanceInv'
<1>1. UNCHANGED <<chain, job, ticket, desk, btcpay>>
  BY DEF ScanCredit
<1>2. scan \in Hashes /\ scan \in Rows /\ (\A j \in Hashes : j \in Rows)
      /\ Sender[scan] \in Users /\ ChainAmount[scan] \in Nat
  BY ConstantTypes DEF ScanCredit, BalanceInv, TypeInv, TypeOK
<1>3. CASE dep[scan].status = "none"
  <2>1. Credited(scan, Sender[scan], ChainAmount[scan])
    BY <1>3 DEF ScanCredit
  <2>2. /\ dep'[scan].status = "completed" /\ dep'[scan].user = Sender[scan]
        /\ dep'[scan].amount = ChainAmount[scan]
        /\ \A j \in Rows : j # scan => dep'[j] = dep[j]
        /\ \A v \in Users : balance'[v] = balance[v] +
                                (IF Sender[scan] = v THEN ChainAmount[scan] ELSE 0)
    BY <1>2, <2>1, CreditedIs DEF BalanceInv, TypeInv
  <2>3. JobsCurrent'
    BY <1>1, <1>2, <1>3, <2>2, JobsStay DEF BalanceInv
  <2>4. DesksCurrent' /\ HooksCurrent' /\ SameTickets
    BY <1>1, <1>2, <1>3, <2>2, HashWritten DEF BalanceInv
  <2>5. \A v \in Users : balance'[v] = balance[v] +
           (IF dep'[scan].status = "completed" /\ dep'[scan].user = v THEN dep'[scan].amount ELSE 0)
    BY <2>2
  <2>6. Accounts'
    BY <1>2, <1>3, <2>2, <2>4, <2>5, RowBooked DEF BalanceInv, TypeInv
  <2> QED BY <2>3, <2>4, <2>6 DEF BalanceInv
<1>4. CASE dep[scan].status # "none"
  <2>1. UNCHANGED <<dep, balance>>
    BY <1>4 DEF ScanCredit
  <2> QED BY <1>1, <2>1, JobsStay, DesksStay, HooksStay, NothingBooked
          DEF BalanceInv, SameTickets, HashlessOf, btcpay
<1> QED BY <1>3, <1>4

\* What a job of the only pass writes.
LEMMA VerifyBalance ==
    ASSUME OneRun, BalanceInv, TypeInv', NEW r \in Runs, NEW h \in Hashes,
           VerifyWait(r, h) \/ VerifyFail(r, h) \/ VerifyCredit(r, h)
    PROVE  BalanceInv'
<1>1. Judged(r, h)
  BY VerifyWriteStep DEF BalanceInv
<1>2. /\ UNCHANGED <<ticket, desk, btcpay>> /\ dep'[h].user = dep[h].user
      /\ \A j \in Rows : j # h => dep'[j] = dep[j]
      /\ job'[r][h].pc = "idle"
      /\ \A i \in Hashes : i # h => job'[r][i] = job[r][i]
  BY <1>1 DEF Judged, IdleJob
<1>3. h \in Rows /\ (\A j \in Hashes : j \in Rows) /\ \A v \in Users : balance[v] \in Int
  BY ConstantTypes DEF BalanceInv, TypeInv, TypeOK
<1>4. dep[h].status = "pending_verification"
  BY DEF VerifyWait, VerifyFail, VerifyCredit, BalanceInv, JobsCurrent
<1>5. \A s \in Runs, i \in Hashes : job'[s][i].pc # "idle" =>
          job[s][i].pc # "idle" /\ dep'[i] = dep[i]
  <2> SUFFICES ASSUME NEW s \in Runs, NEW i \in Hashes, job'[s][i].pc # "idle"
               PROVE  job[s][i].pc # "idle" /\ dep'[i] = dep[i]
    OBVIOUS
  <2>1. s = r
    BY DEF OneRun
  <2> QED BY <1>2, <1>3, <2>1
<1>6. JobsCurrent'
  BY <1>5, JobsStay DEF BalanceInv
<1>7. DesksCurrent' /\ HooksCurrent' /\ SameTickets
  BY <1>2, <1>4, HashWritten DEF BalanceInv
<1>8. \A v \in Users : balance'[v] = balance[v] +
          (IF dep'[h].status = "completed" /\ dep'[h].user = v THEN dep'[h].amount ELSE 0)
  <2>1. CASE VerifyWait(r, h) \/ VerifyFail(r, h)
    <3>1. dep'[h].status # "completed" /\ balance' = balance
      BY <1>1, <1>4, <2>1 DEF VerifyWait, VerifyFail, Judged
    <3> QED BY <1>3, <3>1
  <2>2. CASE VerifyCredit(r, h)
    <3>1. dep'[h].status = "completed" /\ dep'[h].amount = ChainAmount[h]
      BY <1>1, <2>2 DEF VerifyCredit, Judged
    <3>2. balance' = [balance EXCEPT ![dep[h].user] = @ + ChainAmount[h]]
      BY <2>2 DEF VerifyCredit
    <3>3. balance \in [Users -> Int] /\ ChainAmount[h] \in Nat
      BY ConstantTypes DEF BalanceInv, TypeInv, TypeOK
    <3> QED BY <1>2, <3>1, <3>2, <3>3
  <2> QED BY <2>1, <2>2
<1>9. Accounts'
  BY <1>2, <1>3, <1>4, <1>7, <1>8, RowBooked DEF BalanceInv, TypeInv
<1> QED BY <1>6, <1>7, <1>9 DEF BalanceInv
LEMMA TicketBalance ==
    ASSUME BalanceInv, TypeInv', NEW t \in Tickets,
           OpenTicket(t) \/ \E u \in Users, k \in Keys \cup {NoKey} : AskTicket(t, u, k)
    PROVE  BalanceInv'
<1>1. UNCHANGED <<chain, balance, dep, job, scan, desk, btcpay>>
  BY DEF OpenTicket, AskTicket
<1>2. /\ ticket[t].status \in {"none", "asked"} /\ ticket'[t].status # "credited"
      /\ \A q \in Tickets : q # t => ticket'[q] = ticket[q]
  <2>1. ticket \in [Tickets -> Ticket]
    BY DEF BalanceInv, TypeInv, TypeOK
  <2>2. CASE OpenTicket(t)
    <3>1. ticket' = [ticket EXCEPT ![t] = [ticket[t] EXCEPT !.status = "open"]]
      BY <2>1, <2>2 DEF OpenTicket
    <3> QED BY <2>1, <2>2, <3>1 DEF OpenTicket, Ticket
  <2>3. CASE \E u \in Users, k \in Keys \cup {NoKey} : AskTicket(t, u, k)
    BY <2>1, <2>3 DEF AskTicket
  <2> QED BY <2>2, <2>3
<1>3. SameTickets
  BY <1>2 DEF SameTickets, HashlessOf
<1>4. Accounts'
  BY <1>1, <1>3, NothingBooked DEF BalanceInv
<1>5. JobsCurrent' /\ DesksCurrent' /\ HooksCurrent'
  BY <1>1, <1>2, JobsStay, DesksStay, HooksStay DEF BalanceInv, btcpay
<1> QED BY <1>4, <1>5 DEF BalanceInv

\* A handler starts on what it reads.
LEMMA DeskBalance ==
    ASSUME BalanceInv, TypeInv', NEW a \in Admins, NEW t \in Tickets,
           ViewTicket(a, t) \/ RejectTicket(a, t) \/ ApproveTicket(a, t)
    PROVE  BalanceInv'
<1>1. UNCHANGED <<chain, balance, dep, job, scan, ticket, btcpay>>
  BY DEF ViewTicket, RejectTicket, ApproveTicket
<1>2. PICK pc \in {"view", "reject", "create", "revive", "close"} :
        /\ desk' = [desk EXCEPT ![a] = [pc |-> pc, t |-> t]]
        /\ pc \in {"view", "reject", "create"} => ticket[t].status # "credited"
        /\ pc = "revive" => dep[ticket[t].key].status = "failed"
        /\ pc = "close" => ticket[t].key # NoKey
  <2>1. CASE ViewTicket(a, t)
    BY <2>1 DEF ViewTicket, Unresolved
  <2>2. CASE RejectTicket(a, t)
    BY <2>2 DEF RejectTicket, Unresolved
  <2>3. CASE ApproveTicket(a, t)
    <3>1. /\ Plan(t) \in {"create", "revive", "close", "refuse"}
          /\ Plan(t) = "revive" => dep[ticket[t].key].status = "failed"
          /\ Plan(t) = "close" => ticket[t].key # NoKey
      BY DEF Plan
    <3> QED BY <2>3, <3>1 DEF ApproveTicket
  <2> QED BY <2>1, <2>2, <2>3
<1>3. /\ \A b \in Admins : b # a => desk'[b] = desk[b]
      /\ desk'[a].pc = pc /\ desk'[a].t = t
  BY <1>2 DEF BalanceInv, TypeInv, TypeOK
<1>4. DesksCurrent'
  BY <1>1, <1>2, <1>3 DEF BalanceInv, DesksCurrent
<1>5. JobsCurrent' /\ HooksCurrent' /\ Accounts'
  BY <1>1, JobsStay, HooksStay, NothingBooked
     DEF BalanceInv, SameTickets, HashlessOf, btcpay
<1> QED BY <1>4, <1>5 DEF BalanceInv

\* The only handler ends.
LEMMA SettledBalance ==
    ASSUME OneAdmin, BalanceInv, TypeInv', NEW a \in Admins,
           \/ ViewWrite(a) \/ RejectWrite(a) \/ CreateWrite(a) \/ ReviveWrite(a)
           \/ CloseWrite(a)
    PROVE  BalanceInv'
<1> DEFINE t == desk[a].t
           k == ticket[t].key
<1>1. DesksCurrent'
  <2>1. desk' = [desk EXCEPT ![a] = IdleDesk]
    BY DEF ViewWrite, RejectWrite, CreateWrite, ReviveWrite, CloseWrite, DeskWrite
  <2>2. \A b \in Admins : desk'[b].pc = "idle"
    BY <2>1 DEF OneAdmin, IdleDesk, BalanceInv, TypeInv, TypeOK
  <2> QED BY <2>2 DEF DesksCurrent
<1>2. UNCHANGED <<chain, job, scan, btcpay>>
  BY DEF ViewWrite, RejectWrite, CreateWrite, ReviveWrite, CloseWrite, DeskWrite, btcpay
<1>3. /\ t \in Tickets /\ k \in Keys \cup {NoKey} /\ ticket[t].user \in Users \cup {NoUser}
      /\ desk[a].pc = "revive" => k # NoKey
      /\ k # NoKey => k \in Rows /\ k \notin Invoices
      /\ AdminAmount \in Nat
      /\ \A u \in Users : balance[u] \in Int
  <2>1. desk[a].pc # "idle"
    BY DEF ViewWrite, RejectWrite, CreateWrite, ReviveWrite, CloseWrite
  <2>2. t \in Tickets /\ (desk[a].pc = "revive" => k # NoKey)
    BY <2>1 DEF BalanceInv, TypeInv, DesksHaveTickets
  <2> QED BY <2>2, ConstantTypes DEF BalanceInv, TypeInv, TypeOK, Ticket
<1>4. /\ desk[a].pc \in {"view", "reject", "create"} => ticket[t].status # "credited"
      /\ desk[a].pc = "revive" => dep[k].status = "failed"
      /\ desk[a].pc = "close" => k # NoKey
  BY DEF BalanceInv, DesksCurrent
<1>5. ASSUME NEW s \in {"open", "analyzing", "credited", "rejected"}, DeskWrite(a, t, s)
      PROVE  /\ \A q \in Tickets : q # t => ticket'[q] = ticket[q]
             /\ ticket'[t].status = s /\ ticket'[t].key = k /\ ticket'[t].user = ticket[t].user
  <2>1. ticket' = [ticket EXCEPT ![t].status = s] /\ ticket \in [Tickets -> Ticket]
    BY <1>5 DEF DeskWrite, BalanceInv, TypeInv, TypeOK
  <2>2. ticket' = [ticket EXCEPT ![t] = [ticket[t] EXCEPT !.status = s]]
    BY <1>3, <2>1
  <2>3. /\ [ticket[t] EXCEPT !.status = s].status = s
        /\ [ticket[t] EXCEPT !.status = s].key = k
        /\ [ticket[t] EXCEPT !.status = s].user = ticket[t].user
    BY <1>3, <2>1 DEF Ticket
  <2> HIDE DEF t, k
  <2> QED BY <1>3, <2>1, <2>2, <2>3
<1> HIDE DEF t, k
<1>6. \* The ticket alone is written.
      ASSUME NEW s \in {"analyzing", "credited", "rejected"}, DeskWrite(a, t, s), UNCHANGED dep,
             ticket[t].status # "credited" \/ k # NoKey,
             \A u \in Users : balance'[u] = balance[u] +
                 (IF s = "credited" /\ k = NoKey /\ ticket[t].user = u THEN AdminAmount ELSE 0)
      PROVE  BalanceInv'
  <2>1. /\ \A q \in Tickets : q # t => ticket'[q] = ticket[q]
        /\ ticket'[t].status = s /\ ticket'[t].key = k /\ ticket'[t].user = ticket[t].user
    BY <1>5, <1>6
  <2>2. \A u \in Users : balance'[u] = balance[u] +
            (IF t \in HashlessOf(u)' THEN AdminAmount ELSE 0)
    BY <1>3, <1>6, <2>1 DEF HashlessOf
  <2>3. ticket[t].status # "credited" \/ ticket[t].key # NoKey
    BY <1>6 DEF k
  <2>4. Accounts'
    BY <1>3, <1>6, <2>1, <2>2, <2>3, TicketBooked DEF BalanceInv, TypeInv
  <2>5. JobsCurrent' /\ HooksCurrent'
    BY <1>2, <1>6, JobsStay, HooksStay DEF BalanceInv, btcpay
  <2> QED BY <1>1, <2>4, <2>5 DEF BalanceInv
<1>7. \* A row is credited with it.
      ASSUME k # NoKey, dep[k].status \in {"none", "failed"},
             Credited(k, ticket[t].user, AdminAmount), DeskWrite(a, t, "credited")
      PROVE  BalanceInv'
  <2>1. /\ \A q \in Tickets : q # t => ticket'[q] = ticket[q]
        /\ ticket'[t].key = k
    BY <1>5, <1>7
  <2>2. SameTickets
    BY <1>3, <1>7, <2>1 DEF SameTickets, HashlessOf, k
  <2>3. /\ dep'[k].status = "completed" /\ dep'[k].user = ticket[t].user
        /\ dep'[k].amount = AdminAmount
        /\ \A j \in Rows : j # k => dep'[j] = dep[j]
        /\ \A v \in Users : balance'[v] = balance[v] +
                                (IF ticket[t].user = v THEN AdminAmount ELSE 0)
    BY <1>3, <1>7, CreditedIs DEF BalanceInv, TypeInv
  <2>4. \A v \in Users : balance'[v] = balance[v] +
            (IF dep'[k].status = "completed" /\ dep'[k].user = v THEN dep'[k].amount ELSE 0)
    BY <2>3
  <2>5. Accounts'
    BY <1>3, <1>7, <2>2, <2>3, <2>4, RowBooked DEF BalanceInv, TypeInv
  <2>6. (\A j \in Hashes : j \in Rows) /\ (\A i \in Invoices : i \in Rows /\ i # k)
    BY <1>3, <1>7, ConstantTypes
  <2>7. JobsCurrent'
    BY <1>2, <1>7, <2>3, <2>6, JobsStay DEF BalanceInv
  <2>8. HooksCurrent'
    BY <1>2, <2>3, <2>6, HooksStay DEF BalanceInv, btcpay
  <2> QED BY <1>1, <2>5, <2>7, <2>8 DEF BalanceInv
<1>8. CASE ViewWrite(a)
  BY <1>3, <1>4, <1>6, <1>8 DEF ViewWrite, t
<1>9. CASE RejectWrite(a)
  BY <1>3, <1>4, <1>6, <1>9 DEF RejectWrite, t
<1>10. CASE CloseWrite(a)
  BY <1>3, <1>4, <1>6, <1>10 DEF CloseWrite, t
<1>11. CASE ReviveWrite(a)
  BY <1>3, <1>4, <1>7, <1>11 DEF ReviveWrite, t, k
<1>12. CASE CreateWrite(a)
  <2>1. CASE k = NoKey
    <3>1. DeskWrite(a, t, "credited") /\ UNCHANGED dep
          /\ balance' = [balance EXCEPT ![ticket[t].user] = @ + AdminAmount]
      BY <1>12, <2>1 DEF CreateWrite, t, k
    <3>2. \A u \in Users : balance'[u] = balance[u] +
              (IF k = NoKey /\ ticket[t].user = u THEN AdminAmount ELSE 0)
      BY <1>3, <2>1, <3>1 DEF BalanceInv, TypeInv, TypeOK
    <3>3. ticket[t].status # "credited"
      BY <1>4, <1>12 DEF CreateWrite
    <3> QED BY <1>6, <3>1, <3>2, <3>3
  <2>2. CASE k # NoKey /\ dep[k].status = "none"
    BY <1>7, <1>12, <2>2 DEF CreateWrite, t, k
  <2>3. CASE k # NoKey /\ dep[k].status # "none"
    <3>1. UNCHANGED <<chain, balance, dep, job, scan, ticket, btcpay>>
      BY <1>12, <2>3 DEF CreateWrite, t, k
    <3> QED BY <1>1, <3>1, JobsStay, HooksStay, NothingBooked
            DEF BalanceInv, SameTickets, HashlessOf, btcpay
  <2> QED BY <2>1, <2>2, <2>3
<1> QED BY <1>8, <1>9, <1>10, <1>11, <1>12
\* BTCPay: the row of an invoice is written.
LEMMA InvoiceWritten ==
    ASSUME BalanceInv, TypeInv', NEW i \in Invoices,
           \A j \in Rows : j # i => dep'[j] = dep[j],
           UNCHANGED <<chain, job, scan, ticket, desk>>
    PROVE  JobsCurrent' /\ DesksCurrent' /\ SameTickets
<1>1. (\A h \in Hashes : dep'[h] = dep[h]) /\ (\A k \in Keys : dep'[k] = dep[k])
  BY ConstantTypes
<1>2. JobsCurrent'
  BY <1>1, JobsStay DEF BalanceInv
<1>3. SameTickets
  BY DEF SameTickets, HashlessOf
<1>4. DesksCurrent'
  <2> SUFFICES ASSUME NEW a \in Admins
               PROVE  /\ desk[a].pc \in {"view", "reject", "create"} =>
                             ticket[desk[a].t].status # "credited"
                      /\ desk[a].pc = "revive" => dep'[ticket[desk[a].t].key].status = "failed"
                      /\ desk[a].pc = "close" => ticket[desk[a].t].key # NoKey
    BY DEF DesksCurrent
  <2>1. desk[a].pc = "revive" => ticket[desk[a].t].key \in Keys
    BY DEF BalanceInv, TypeInv, DesksHaveTickets, TypeOK, Ticket
  <2> QED BY <1>1, <2>1 DEF BalanceInv, DesksCurrent
<1> QED BY <1>2, <1>3, <1>4

LEMMA TrackBalance ==
    ASSUME BalanceInv, TypeInv', NEW i \in Invoices, TrackInvoice(i)
    PROVE  BalanceInv'
<1>1. UNCHANGED <<chain, balance, job, scan, ticket, desk, hook>>
  BY DEF TrackInvoice, InvoiceStep
<1>2. i \in Rows /\ \A u \in Users : balance[u] \in Int
  BY ConstantTypes DEF BalanceInv, TypeInv, TypeOK
<1>3. dep[i].status = "none"
  BY DEF TrackInvoice, BalanceInv, HooksCurrent
<1>4. dep'[i].status = "btcpay_pending" /\ \A j \in Rows : j # i => dep'[j] = dep[j]
  BY <1>2 DEF TrackInvoice, BalanceInv, TypeInv, TypeOK
<1>5. JobsCurrent' /\ DesksCurrent' /\ SameTickets
  BY <1>1, <1>4, InvoiceWritten
<1>6. invoice'[i].status = "open" /\ \A j \in Invoices : j # i => invoice'[j] = invoice[j]
  <2>1. invoice \in [Invoices -> Invoice]
        /\ invoice' = [invoice EXCEPT ![i] = [invoice[i] EXCEPT !.status = "open"]]
    BY DEF TrackInvoice, InvoiceStep, BalanceInv, TypeInv, TypeOK
  <2>2. [invoice[i] EXCEPT !.status = "open"].status = "open"
    BY <2>1 DEF Invoice
  <2> QED BY <2>1, <2>2
<1>7. HooksCurrent'
  <2>1. \A d \in Deliveries : hook[d] # NoKey =>
            hook[d] \in Invoices /\ hook[d] \in Rows /\ dep[hook[d]].status = "btcpay_pending"
    BY ConstantTypes DEF BalanceInv, TypeInv, TypeOK, HooksCurrent
  <2>2. \A d \in Deliveries : hook'[d] # NoKey => dep'[hook'[d]].status = "btcpay_pending"
    BY <1>1, <1>3, <1>4, <2>1
  <2>3. \A j \in Invoices : invoice'[j].status \in {"none", "created"} => dep'[j].status = "none"
    BY <1>4, <1>6, ConstantTypes DEF BalanceInv, HooksCurrent
  <2> QED BY <2>2, <2>3 DEF HooksCurrent
<1>8. Accounts'
  <2>1. \A v \in Users : balance'[v] = balance[v] +
            (IF dep'[i].status = "completed" /\ dep'[i].user = v THEN dep'[i].amount ELSE 0)
    BY <1>1, <1>2, <1>4
  <2> QED BY <1>2, <1>3, <1>4, <1>5, <2>1, RowBooked DEF BalanceInv, TypeInv
<1> QED BY <1>5, <1>7, <1>8 DEF BalanceInv

\* The only webhook credits what it has read.
LEMMA WebhookBalance ==
    ASSUME OneDelivery, BalanceInv, TypeInv', NEW d \in Deliveries, WebhookCredit(d)
    PROVE  BalanceInv'
<1> DEFINE i == hook[d]
<1>1. UNCHANGED <<chain, job, scan, ticket, desk, invoice>>
  BY DEF WebhookCredit
<1>2. /\ i \in Invoices /\ i \in Rows /\ dep[i] \in Dep /\ dep[i].status = "btcpay_pending"
      /\ i # NoKey
  BY ConstantTypes DEF WebhookCredit, BalanceInv, TypeInv, TypeOK, HooksCurrent
<1>3. dep[i].user \in Users \cup {NoUser} /\ dep[i].amount \in Nat
  BY <1>2 DEF Dep
<1>4. Credited(i, dep[i].user, dep[i].amount) /\ hook' = [hook EXCEPT ![d] = NoKey]
  BY DEF WebhookCredit
<1>5. /\ dep'[i].status = "completed" /\ dep'[i].user = dep[i].user
      /\ dep'[i].amount = dep[i].amount
      /\ \A j \in Rows : j # i => dep'[j] = dep[j]
      /\ \A v \in Users : balance'[v] = balance[v] +
                              (IF dep[i].user = v THEN dep[i].amount ELSE 0)
  BY <1>2, <1>3, <1>4, CreditedIs DEF BalanceInv, TypeInv
<1>6. \A e \in Deliveries : hook'[e] = NoKey
  BY <1>4 DEF OneDelivery, BalanceInv, TypeInv, TypeOK
<1> HIDE DEF i
<1>7. JobsCurrent' /\ DesksCurrent' /\ SameTickets
  BY <1>1, <1>2, <1>5, InvoiceWritten
<1>8. HooksCurrent'
  BY <1>1, <1>2, <1>5, <1>6, ConstantTypes DEF BalanceInv, HooksCurrent
<1>9. Accounts'
  <2>1. \A v \in Users : balance'[v] = balance[v] +
            (IF dep'[i].status = "completed" /\ dep'[i].user = v THEN dep'[i].amount ELSE 0)
    BY <1>5
  <2> QED BY <1>2, <1>5, <1>7, <2>1, RowBooked DEF BalanceInv, TypeInv
<1> QED BY <1>7, <1>8, <1>9 DEF BalanceInv

\* The steps of BTCPay that touch no row.
LEMMA InvoiceBalance ==
    ASSUME BalanceInv, TypeInv', NEW i \in Invoices,
           \/ \E u \in Users : CreateInvoice(u, i)
           \/ PayInvoice(i) \/ \E d \in Deliveries : Webhook(d, i)
    PROVE  BalanceInv'
<1>1. UNCHANGED <<chain, balance, dep, job, scan, ticket, desk>>
  BY DEF CreateInvoice, PayInvoice, InvoiceStep, Webhook
<1>2. JobsCurrent' /\ DesksCurrent' /\ Accounts'
  BY <1>1, JobsStay, DesksStay, NothingBooked DEF BalanceInv, SameTickets, HashlessOf
<1>3. invoice \in [Invoices -> Invoice] /\ hook \in [Deliveries -> Invoices \cup {NoKey}]
      /\ HooksCurrent
  BY DEF BalanceInv, TypeInv, TypeOK
<1>4. CASE \E u \in Users : CreateInvoice(u, i)
  <2>1. invoice[i].status = "none" /\ UNCHANGED hook
        /\ (\A j \in Invoices : j # i => invoice'[j] = invoice[j])
    BY <1>3, <1>4 DEF CreateInvoice, InvoiceStep, NoInvoice
  <2> QED BY <1>1, <1>2, <1>3, <2>1, HooksStay DEF BalanceInv
<1>5. CASE PayInvoice(i)
  <2>1. invoice' = [invoice EXCEPT ![i] = [invoice[i] EXCEPT !.status = "settled"]]
        /\ UNCHANGED hook
    BY <1>5 DEF PayInvoice, InvoiceStep
  <2>2. [invoice[i] EXCEPT !.status = "settled"].status = "settled"
    BY <1>3 DEF Invoice
  <2>3. \A j \in Invoices : invoice'[j].status \in {"none", "created"} =>
                                invoice[j].status \in {"none", "created"}
    BY <1>3, <2>1, <2>2
  <2> QED BY <1>1, <1>2, <1>3, <2>1, <2>3, HooksStay DEF BalanceInv
<1>6. ASSUME NEW d \in Deliveries, Webhook(d, i) PROVE BalanceInv'
  <2>1. hook' = [hook EXCEPT ![d] = i] /\ UNCHANGED invoice /\ dep[i].status = "btcpay_pending"
    BY <1>6 DEF Webhook, Unpaid
  <2>2. HooksCurrent'
    BY <1>1, <1>3, <2>1 DEF HooksCurrent
  <2> QED BY <1>2, <2>2 DEF BalanceInv
<1> QED BY <1>4, <1>5, <1>6

LEMMA CrashBalance ==
    ASSUME BalanceInv, TypeInv', Crash
    PROVE  BalanceInv'
<1>1. UNCHANGED <<chain, balance, dep>>
      /\ \A r \in Runs, h \in Hashes : job'[r][h].pc = "idle"
  BY CrashType DEF BalanceInv
<1>2. \A a \in Admins : desk'[a].pc = "idle"
  BY DEF Crash, IdleDesk
<1>3. \A t \in Tickets :
          \/ ticket'[t] = ticket[t]
          \/ ticket'[t].status # "credited" /\ ticket[t].status # "credited"
  <2>1. \A t \in Tickets :
            \/ ticket'[t] = ticket[t]
            \/ ticket'[t] = NoTicket /\ ticket[t].status = "asked"
    <3>1. ticket' = [t \in Tickets |->
                        IF ticket[t].status = "asked" THEN NoTicket ELSE ticket[t]]
      BY DEF Crash
    <3> QED BY <3>1
  <2> QED BY <2>1 DEF NoTicket
<1>4. SameTickets
  BY <1>3 DEF SameTickets, HashlessOf
<1>5. HooksCurrent'
  <2>1. /\ \A d \in Deliveries : hook'[d] = NoKey
        /\ \A i \in Invoices : invoice'[i] = invoice[i] \/ invoice[i].status = "created"
    BY DEF Crash
  <2> QED BY <1>1, <2>1, HooksStay DEF BalanceInv
<1>6. JobsCurrent' /\ DesksCurrent' /\ Accounts'
  BY <1>1, <1>2, <1>4, NothingBooked DEF BalanceInv, JobsCurrent, DesksCurrent
<1> QED BY <1>5, <1>6 DEF BalanceInv

LEMMA NextBalance ==
    ASSUME OneRun, OneAdmin, OneDelivery
    PROVE  BalanceInv /\ [Next]_vars => BalanceInv'
<1> SUFFICES ASSUME BalanceInv, [Next]_vars PROVE BalanceInv'
  OBVIOUS
<1>0. TypeInv /\ TypeInv'
  BY NextTypeInv DEF BalanceInv
<1>1. ASSUME UNCHANGED <<balance, dep, ticket, desk, btcpay>>,
             \A r \in Runs, h \in Hashes : job'[r][h].pc # "idle" =>
                 job[r][h].pc # "idle" \/ dep[h].status = "pending_verification"
      PROVE  BalanceInv'
  <2>1. JobsCurrent'
    BY <1>1 DEF BalanceInv, JobsCurrent
  <2>2. DesksCurrent' /\ HooksCurrent' /\ Accounts'
    BY <1>1, DesksStay, HooksStay, NothingBooked
       DEF BalanceInv, SameTickets, HashlessOf, btcpay
  <2> QED BY <1>0, <2>1, <2>2 DEF BalanceInv
<1>2. ASSUME NEW h \in Hashes, ChainStep(h) \/ ScanCheck(h) PROVE BalanceInv'
  BY <1>1, <1>2 DEF ChainStep, ScanCheck
<1>3. ASSUME NEW r \in Runs, RunStart(r) PROVE BalanceInv'
  <2> DEFINE jobs == [h \in Hashes |-> IF h \in PendingRows
                        THEN [pc |-> "loaded", attempts |-> dep[h].attempts + 1] ELSE IdleJob]
  <2>1. job' = [job EXCEPT ![r] = jobs] /\ UNCHANGED <<balance, dep, ticket, desk, btcpay>>
    BY <1>3 DEF RunStart
  <2>2. \A h \in Hashes : jobs[h].pc # "idle" => dep[h].status = "pending_verification"
    BY DEF IdleJob, PendingRows
  <2> HIDE DEF jobs
  <2>3. \A s \in Runs : job'[s] = job[s] \/ job'[s] = jobs
    BY <1>0, <2>1 DEF TypeInv, TypeOK
  <2> QED BY <1>1, <2>1, <2>2, <2>3
<1>4. ASSUME NEW r \in Runs, NEW h \in Hashes, VerifyRead(r, h) PROVE BalanceInv'
  <2>1. /\ job[r][h].pc = "loaded"
        /\ \A s \in Runs, i \in Hashes : s # r \/ i # h => job'[s][i] = job[s][i]
    BY <1>0, <1>4, VerifyReadStep
  <2>2. UNCHANGED <<balance, dep, ticket, desk, btcpay>>
    BY <1>4 DEF VerifyRead
  <2> QED BY <1>1, <2>1, <2>2
<1>5. CASE UNCHANGED vars
  BY <1>1, <1>5 DEF vars
<1> QED
  BY <1>0, <1>2, <1>3, <1>4, <1>5, EnterBalance, ScanBalance, VerifyBalance, TicketBalance,
     DeskBalance, SettledBalance, TrackBalance, WebhookBalance, InvoiceBalance, CrashBalance
     DEF Next

\* With one pass, one ticket handler and one webhook at a time, a balance holds exactly the
\* completed rows and the credited tickets without a hash, across crashes and however the
\* submits, the scanners, the verifier, the tickets and the invoices interleave.
THEOREM BalancesMatchRows ==
    ASSUME OneRun, OneAdmin, OneDelivery
    PROVE  Spec => []BalanceMatchesRows
<1>1. BalanceInv => BalanceMatchesRows
  BY DEF BalanceInv, Accounts, BalanceMatchesRows
<1>2. Init => BalanceInv
  BY InitBalance
<1>3. BalanceInv /\ [Next]_vars => BalanceInv'
  BY NextBalance
<1> QED BY <1>1, <1>2, <1>3, PTL DEF Spec
=============================================================================
