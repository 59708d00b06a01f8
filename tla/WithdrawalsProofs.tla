-------------------------- MODULE WithdrawalsProofs --------------------------
(***************************************************************************)
(* Theorems about Withdrawals, for every set of users, tabs, admins, ids   *)
(* and amounts.  Typing holds whatever runs concurrently.  The safety      *)
(* theorems hold for the default deployment: sending is manual and one     *)
(* admin request is handled at a time.                                     *)
(***************************************************************************)
EXTENDS Withdrawals, FiniteSetTheorems, TLAPS

\* A busy handler has a row, and a request past its first check has an amount.
HandlersOK ==
    /\ \A w \in Workers : job[w].pc # "idle" => job[w].id \in Ids
    /\ \A c \in Users \X Tabs : req[c].pc # "idle" => req[c].amount \in Amounts

TypeInv == TypeOK /\ HandlersOK

LEMMA AmountsAreNat == \A a \in Amounts : a \in Nat /\ a \in Int
BY WithdrawalsAssumption

LEMMA WorkersOf == Admins \subseteq Workers /\ Sweeps \subseteq Workers
BY DEF Workers

\* Adding an amount to one account keeps a table of balances well typed.
LEMMA AddTo ==
    ASSUME NEW S, NEW f \in [S -> Int], NEW x, NEW n \in Int
    PROVE  [f EXCEPT ![x] = @ + n] \in [S -> Int]
<1>1. CASE x \in S
  BY <1>1
<1>2. CASE x \notin S
  <2>1. [f EXCEPT ![x] = @ + n] = f
    BY <1>2
  <2> QED BY <2>1
<1> QED BY <1>1, <1>2

\* Counting a broadcast keeps a table of counts well typed.
LEMMA BumpType ==
    ASSUME NEW f \in [Ids -> Nat], NEW i
    PROVE  Bump(f, i) \in [Ids -> Nat]
<1>1. CASE i \in Ids
  BY <1>1 DEF Bump
<1>2. CASE i \notin Ids
  <2>1. Bump(f, i) = f
    BY <1>2 DEF Bump
  <2> QED BY <2>1
<1> QED BY <1>1, <1>2

LEMMA InitTypeInv == Init => TypeInv
<1> SUFFICES ASSUME Init PROVE TypeInv
  OBVIOUS
<1> USE WithdrawalsAssumption
<1>1. NoRow \in Row /\ IdleReq \in Req /\ IdleJob \in Job
  BY DEF NoRow, Row, IdleReq, Req, IdleJob, Job, Status, Ops
<1>2. TypeOK
  BY <1>1 DEF Init, TypeOK
<1>3. HandlersOK
  BY DEF Init, HandlersOK, IdleReq, IdleJob
<1> QED BY <1>2, <1>3 DEF TypeInv

\* Every step preserves the typing of the state and of the handlers.
LEMMA StatusType ==
    ASSUME NEW r \in Row, NEW s \in Status
    PROVE  [r EXCEPT !.status = s] \in Row
BY DEF Row

LEMMA NextTypeInv == TypeInv /\ [Next]_vars => TypeInv'
<1> SUFFICES ASSUME TypeInv, [Next]_vars PROVE TypeInv'
  OBVIOUS
<1> USE AmountsAreNat, WorkersOf
<1> USE DEF TypeInv, TypeOK, HandlersOK
<1>0. IdleReq \in Req /\ IdleJob \in Job
  BY DEF IdleReq, Req, IdleJob, Job, Status, Ops
<1>1. ASSUME NEW u \in Users, NEW t \in Tabs, CheckPending(u, t) PROVE TypeInv'
  BY <1>1 DEF CheckPending, Req, IdleReq
<1>2. ASSUME NEW u \in Users, NEW t \in Tabs, CheckBalance(u, t) PROVE TypeInv'
  BY <1>2, <1>0 DEF CheckBalance, Req, IdleReq
<1>3. ASSUME NEW u \in Users, NEW t \in Tabs, CommitWithdrawal(u, t) PROVE TypeInv'
  <2>1. PICK i \in Ids :
          /\ row' = [row EXCEPT ![i] =
                        [status |-> "pending", user |-> u, amount |-> req[<<u, t>>].amount]]
          /\ outbox' = outbox \cup Events(i, {"alert"})
    BY <1>3 DEF CommitWithdrawal
  <2>a. <<u, t>> \in Users \X Tabs
    OBVIOUS
  <2>b. req[<<u, t>>].amount \in Amounts
    BY <2>a, <1>3 DEF CommitWithdrawal
  <2>2. row' \in [Ids -> Row]
    BY <2>1, <2>b DEF Row, Status
  <2>3. outbox' \subseteq Ids \X {"alert", "proof"}
    BY <2>1 DEF Events
  <2>4. balance' \in [Users -> Int]
    <3>1. balance' = [balance EXCEPT ![u] = @ - req[<<u, t>>].amount]
      BY <1>3 DEF CommitWithdrawal
    <3>2. req[<<u, t>>].amount \in Int /\ balance \in [Users -> Int]
      BY <2>b
    <3> HIDE DEF TypeInv, TypeOK, HandlersOK
    <3> QED BY <3>1, <3>2
  <2>5. /\ req' = [req EXCEPT ![<<u, t>>] = IdleReq]
        /\ UNCHANGED <<job, todo, paid, lost, refunds, spent>>
    BY <1>3 DEF CommitWithdrawal
  <2> QED BY <2>2, <2>3, <2>4, <2>5, <1>0 DEF IdleReq
<1>4. ASSUME NEW a \in Admins, NEW op \in Ops, NEW i \in Ids, AdminCheck(a, op, i)
      PROVE TypeInv'
  BY <1>4 DEF AdminCheck, Job, Status
<1>5. ASSUME NEW a \in Admins, ApproveWrite(a) PROVE TypeInv'
  <2>1. job[a].id \in Ids /\ job' = [job EXCEPT ![a] = IdleJob]
    BY <1>5 DEF ApproveWrite
  <2>2. [row[job[a].id] EXCEPT !.status = "approved"] \in Row
    BY <2>1, StatusType DEF Status
  <2>3. row' = [row EXCEPT ![job[a].id] = [row[job[a].id] EXCEPT !.status = "approved"]]
    BY <1>5, <2>1 DEF ApproveWrite
  <2>4. row' \in [Ids -> Row]
    BY <2>1, <2>2, <2>3
  <2> QED BY <1>5, <1>0, <2>1, <2>4 DEF ApproveWrite, IdleJob
<1>6. ASSUME NEW w \in Workers, StatusRead(w) PROVE TypeInv'
  <2>1. job[w].id \in Ids
    BY <1>6 DEF StatusRead
  <2>2. row[job[w].id].status \in Status
    BY <2>1 DEF Row
  <2>3. job' \in [Workers -> Job]
    BY <1>6, <2>2, ZenonT(60) DEF StatusRead, Job
  <2> QED BY <1>6, <2>1, <2>3 DEF StatusRead
<1>7. ASSUME NEW w \in Workers, StatusWrite(w) PROVE TypeInv'
  <2>1. job[w].id \in Ids
    BY <1>7 DEF StatusWrite
  <2>2. /\ row' \in [Ids -> Row]
        /\ outbox' \subseteq Ids \X {"alert", "proof"}
        /\ balance' \in [Users -> Int]
        /\ refunds' \in [Ids -> Nat]
    <3>1. CASE WriteCompleted(w, job[w].id)
      BY <2>1, <3>1, SMTT(30) DEF WriteCompleted, Events, Row, Status
    <3>2. CASE WriteFailed(w, job[w].id)
      <4> DEFINE i == job[w].id
      <4>1. row' \in [Ids -> Row] /\ outbox' = outbox
        BY <2>1, <3>2 DEF WriteFailed, Row, Status
      <4>2. row[i].amount \in Int /\ i \in Ids
        BY <2>1 DEF Row
      <4>3. CASE UNCHANGED <<balance, refunds>>
        BY <4>1, <4>3
      <4>4. CASE /\ balance' = [balance EXCEPT ![row[i].user] = @ + row[i].amount]
                 /\ refunds' = [refunds EXCEPT ![i] = @ + 1]
        <5>0. /\ balance \in [Users -> Int]
              /\ refunds \in [Ids -> Nat]
              /\ outbox \subseteq Ids \X {"alert", "proof"}
          OBVIOUS
        <5> HIDE DEF TypeInv, TypeOK, HandlersOK, i
        <5>1. balance' \in [Users -> Int]
          BY <4>2, <4>4, <5>0, AddTo
        <5>2. refunds' \in [Ids -> Nat]
          BY <4>2, <4>4, <5>0
        <5> QED BY <4>1, <5>0, <5>1, <5>2
      <4> QED BY <3>2, <4>3, <4>4 DEF WriteFailed
    <3> QED BY <1>7, <3>1, <3>2 DEF StatusWrite
  <2>3. /\ job' = [job EXCEPT ![w] = IdleJob]
        /\ UNCHANGED <<req, todo, paid, lost, spent>>
    BY <1>7 DEF StatusWrite
  <2> QED BY <2>2, <2>3, <1>0 DEF IdleJob
<1>8. ASSUME NEW w \in Workers, StatusError(w) PROVE TypeInv'
  <2>1. lost' \in [Ids -> Nat]
    BY <1>8, BumpType DEF StatusError
  <2>2. /\ job' = [job EXCEPT ![w] = IdleJob]
        /\ UNCHANGED <<balance, row, outbox, req, todo, paid, refunds, spent>>
    BY <1>8 DEF StatusError
  <2> QED BY <2>1, <2>2, <1>0 DEF IdleJob
<1>9. ASSUME NEW s \in Sweeps, SweepStart(s) PROVE TypeInv'
  BY <1>9 DEF SweepStart, Approved
<1>10. ASSUME NEW s \in Sweeps, SweepSend(s) PROVE TypeInv'
  <2>1. PICK i \in Ids :
            /\ paid' = Bump(paid, i)
            /\ todo' = [todo EXCEPT ![s] = @ \ {i}]
            /\ job' = [job EXCEPT ![s] =
                          [pc |-> "checked", op |-> "complete", id |-> i, prev |-> "none"]]
    BY <1>10 DEF SweepSend
  <2>2. paid' \in [Ids -> Nat]
    BY <2>1, BumpType
  <2>3. UNCHANGED <<balance, row, outbox, req, lost, refunds, spent>>
    BY <1>10 DEF SweepSend
  <2> QED BY <2>1, <2>2, <2>3 DEF Job, Status, Ops
<1>11. ASSUME NEW s \in Sweeps, SweepSendError(s) PROVE TypeInv'
  BY <1>11 DEF SweepSendError
<1>12. ASSUME NEW s \in Sweeps, SweepLostReply(s) PROVE TypeInv'
  <2>1. PICK i \in Ids :
            /\ paid' = Bump(paid, i)
            /\ lost' = Bump(lost, i)
            /\ todo' = [todo EXCEPT ![s] = @ \ {i}]
    BY <1>12 DEF SweepLostReply
  <2>2. paid' \in [Ids -> Nat] /\ lost' \in [Ids -> Nat]
    BY <2>1, BumpType
  <2>3. UNCHANGED <<balance, row, outbox, req, job, refunds, spent>>
    BY <1>12 DEF SweepLostReply
  <2> QED BY <2>1, <2>2, <2>3
<1>13. ASSUME NEW u \in Users, NEW a \in Amounts, OtherSpend(u, a) PROVE TypeInv'
  BY <1>13 DEF OtherSpend
<1>14. CASE Crash
  <2>1. \A i \in Ids : Bump(lost, i)[i] \in Nat
    BY BumpType
  <2>2. lost' \in [Ids -> Nat]
    BY <1>14, <2>1 DEF Crash
  <2>3. /\ req' = [c \in Users \X Tabs |-> IdleReq]
        /\ job' = [w \in Workers |-> IdleJob]
        /\ todo' = [s \in Sweeps |-> {}]
        /\ UNCHANGED <<balance, row, outbox, paid, refunds, spent>>
    BY <1>14 DEF Crash
  <2> QED BY <2>2, <2>3, <1>0 DEF IdleReq, IdleJob
<1>15. CASE UNCHANGED vars
  BY <1>15 DEF vars
<1> QED
  BY <1>1, <1>2, <1>3, <1>4, <1>5, <1>6, <1>7, <1>8, <1>9, <1>10, <1>11, <1>12, <1>13,
     <1>14, <1>15 DEF Next

THEOREM TypingInv == Spec => []TypeInv
BY InitTypeInv, NextTypeInv, PTL DEF Spec

\* The state always has its type, for any number of concurrent handlers.
THEOREM Typing == Spec => []TypeOK
BY TypingInv, PTL DEF TypeInv

-----------------------------------------------------------------------------
(* The default deployment.                                                 *)

OneAdmin   == \A a, b \in Admins : a = b
ManualMode == AutoSend = FALSE

\* The row an admin handler works on is still open and as the handler read it:
\* nobody else changes a row between the handler's reads and its write.
HandlerCurrent(a) ==
    job[a].pc # "idle" =>
        /\ row[job[a].id].status \in Open
        /\ job[a].op = "approve" =>
              row[job[a].id].status = "pending" /\ job[a].pc = "checked"
        /\ job[a].pc = "loaded" => job[a].prev = row[job[a].id].status

SweepsIdle == \A s \in Sweeps : todo[s] = {} /\ job[s] = IdleJob

ManualInv ==
    /\ TypeInv
    /\ SweepsIdle
    /\ \A a \in Admins : HandlerCurrent(a)
    /\ RefundedIffFailed

LEMMA InitManualInv == Init => ManualInv
<1> SUFFICES ASSUME Init PROVE ManualInv
  OBVIOUS
<1>1. SweepsIdle
  BY WorkersOf DEF Init, SweepsIdle
<1>2. \A a \in Admins : HandlerCurrent(a)
  BY WorkersOf DEF Init, HandlerCurrent, IdleJob
<1>3. RefundedIffFailed
  BY DEF Init, RefundedIffFailed, NoRow
<1> QED BY <1>1, <1>2, <1>3, InitTypeInv DEF ManualInv

\* What a write of updateTransactionStatus does in the default deployment: the row
\* was open, and it is closed with the refund that goes with the new status.
LEMMA StatusWriteEffect ==
    ASSUME ManualInv, NEW w \in Workers, StatusWrite(w)
    PROVE  /\ w \in Admins
           /\ job[w].id \in Ids
           /\ row[job[w].id].status \in Open
           /\ \/ /\ row' = [row EXCEPT ![job[w].id].status = "completed"]
                 /\ UNCHANGED <<balance, refunds>>
              \/ /\ row' = [row EXCEPT ![job[w].id].status = "failed"]
                 /\ balance' = [balance EXCEPT
                        ![row[job[w].id].user] = @ + row[job[w].id].amount]
                 /\ refunds' = [refunds EXCEPT ![job[w].id] = @ + 1]
<1>1. w \in Admins
  BY DEF ManualInv, SweepsIdle, StatusWrite, IdleJob, Workers
<1>2. job[w].id \in Ids
  BY DEF ManualInv, TypeInv, HandlersOK, StatusWrite
<1>3. row[job[w].id].status \in Open /\ job[w].prev = row[job[w].id].status
  BY <1>1 DEF ManualInv, HandlerCurrent, StatusWrite
<1>4. job[w].prev \notin Final
  BY <1>3 DEF Open, Final
<1>5. CASE WriteCompleted(w, job[w].id)
  BY <1>1, <1>2, <1>3, <1>5 DEF WriteCompleted
<1>6. CASE WriteFailed(w, job[w].id)
  BY <1>1, <1>2, <1>3, <1>4, <1>6 DEF WriteFailed
<1> QED BY <1>5, <1>6 DEF StatusWrite

\* The steps that leave rows, refunds and handlers as they are.
LEMMA ManualInvFrame ==
    ASSUME ManualInv, TypeInv', UNCHANGED <<row, job, todo, refunds>>
    PROVE  ManualInv'
BY DEF ManualInv, SweepsIdle, HandlerCurrent, RefundedIffFailed

\* A restart, or a handler that gives up, leaves an idle handler behind.
LEMMA NextManualInv ==
    ASSUME OneAdmin, ManualMode, ManualInv, [Next]_vars
    PROVE  ManualInv'
<1> USE WorkersOf
<1>0. TypeInv /\ TypeInv'
  BY NextTypeInv DEF ManualInv
<1>1. ASSUME NEW u \in Users, NEW t \in Tabs,
             CheckPending(u, t) \/ CheckBalance(u, t)
      PROVE ManualInv'
  BY <1>0, <1>1, ManualInvFrame DEF CheckPending, CheckBalance
<1>2. ASSUME NEW u \in Users, NEW t \in Tabs, CommitWithdrawal(u, t) PROVE ManualInv'
  <2>1. PICK i \in Ids :
          /\ row[i].status = "none"
          /\ row' = [row EXCEPT ![i] =
                        [status |-> "pending", user |-> u, amount |-> req[<<u, t>>].amount]]
    BY <1>2 DEF CommitWithdrawal, NextId
  <2>2. UNCHANGED <<job, todo, refunds>>
    BY <1>2 DEF CommitWithdrawal
  <2>3. RefundedIffFailed'
    BY <1>0, <2>1, <2>2 DEF ManualInv, RefundedIffFailed, TypeInv, TypeOK
  <2>4. ASSUME NEW a \in Admins PROVE HandlerCurrent(a)'
    <3>1. CASE job[a].pc = "idle"
      BY <2>2, <3>1 DEF HandlerCurrent
    <3>2. CASE job[a].pc # "idle"
      <4>1. job[a].id # i
        BY <2>1, <3>2 DEF ManualInv, HandlerCurrent, Open
      <4>2. row'[job[a].id] = row[job[a].id]
        BY <1>0, <2>1, <3>2, <4>1 DEF TypeInv, TypeOK, HandlersOK
      <4> QED BY <2>2, <3>2, <4>2 DEF ManualInv, HandlerCurrent
    <3> QED BY <3>1, <3>2
  <2> QED BY <1>0, <2>2, <2>3, <2>4 DEF ManualInv, SweepsIdle
<1>3. ASSUME NEW a \in Admins, NEW op \in Ops, NEW i \in Ids, AdminCheck(a, op, i)
      PROVE ManualInv'
  <2>1. UNCHANGED <<row, todo, refunds>>
    BY <1>3 DEF AdminCheck
  <2>2. /\ job' = [job EXCEPT ![a] =
              [pc |-> "checked", op |-> op, id |-> i, prev |-> "none"]]
        /\ row[i].status \in (IF op = "approve" THEN {"pending"} ELSE Open)
    BY <1>3 DEF AdminCheck, Allows
  <2>3. \A s \in Sweeps : job'[s] = job[s]
    BY <1>0, <2>2, WithdrawalsAssumption DEF TypeInv, TypeOK
  <2>4. ASSUME NEW b \in Admins PROVE HandlerCurrent(b)'
    <3>1. b = a
      BY DEF OneAdmin
    <3>2. job'[b] = [pc |-> "checked", op |-> op, id |-> i, prev |-> "none"]
      BY <1>0, <2>2, <3>1 DEF TypeInv, TypeOK
    <3> QED BY <2>1, <2>2, <3>2 DEF HandlerCurrent, Open
  <2> QED BY <1>0, <2>1, <2>3, <2>4 DEF ManualInv, SweepsIdle, RefundedIffFailed
<1>4. ASSUME NEW a \in Admins, ApproveWrite(a) PROVE ManualInv'
  <2>1. job' = [job EXCEPT ![a] = IdleJob] /\ UNCHANGED <<todo, refunds>>
    BY <1>4 DEF ApproveWrite
  <2>2. /\ row' = [row EXCEPT ![job[a].id].status = "approved"]
        /\ job[a].id \in Ids
        /\ row[job[a].id].status = "pending"
    BY <1>0, <1>4 DEF ApproveWrite, ManualInv, HandlerCurrent, TypeInv, HandlersOK
  <2>3. RefundedIffFailed'
    BY <1>0, <2>1, <2>2 DEF ManualInv, RefundedIffFailed, TypeInv, TypeOK, Row
  <2>4. \A b \in Admins : HandlerCurrent(b)'
    BY <1>0, <2>1 DEF OneAdmin, HandlerCurrent, IdleJob, TypeInv, TypeOK
  <2>5. \A s \in Sweeps : job'[s] = job[s]
    BY <1>0, <2>1, WithdrawalsAssumption DEF TypeInv, TypeOK
  <2> QED BY <1>0, <2>1, <2>3, <2>4, <2>5 DEF ManualInv, SweepsIdle
<1>5. ASSUME NEW w \in Workers, StatusRead(w) PROVE ManualInv'
  <2>1. w \in Admins
    BY <1>5 DEF ManualInv, SweepsIdle, StatusRead, IdleJob, Workers
  <2>2. /\ job' = [job EXCEPT ![w].pc = "loaded", ![w].prev = row[job[w].id].status]
        /\ UNCHANGED <<row, todo, refunds>>
        /\ job[w].pc = "checked" /\ job[w].op # "approve"
    BY <1>5 DEF StatusRead
  <2>3. ASSUME NEW b \in Admins PROVE HandlerCurrent(b)'
    <3>1. b = w
      BY <2>1 DEF OneAdmin
    <3>2. /\ job'[b].pc = "loaded" /\ job'[b].op = job[b].op
          /\ job'[b].id = job[b].id /\ job'[b].prev = row[job[b].id].status
      BY <1>0, <2>2, <3>1 DEF TypeInv, TypeOK, Job
    <3>3. row[job[b].id].status \in Open
      BY <2>2, <3>1 DEF ManualInv, HandlerCurrent
    <3> QED BY <2>2, <3>1, <3>2, <3>3 DEF HandlerCurrent
  <2>4. \A s \in Sweeps : job'[s] = job[s]
    BY <1>0, <2>1, <2>2, WithdrawalsAssumption DEF TypeInv, TypeOK
  <2> QED BY <1>0, <2>2, <2>3, <2>4 DEF ManualInv, SweepsIdle, RefundedIffFailed
<1>6. ASSUME NEW w \in Workers, StatusWrite(w) PROVE ManualInv'
  <2>1. /\ w \in Admins
        /\ job' = [job EXCEPT ![w] = IdleJob] /\ UNCHANGED todo
    BY <1>6, StatusWriteEffect DEF StatusWrite
  <2>2. RefundedIffFailed'
    <3> DEFINE k == job[w].id
    <3>1. k \in Ids /\ row[k].status \in Open /\ refunds[k] = 0
      BY <1>6, StatusWriteEffect DEF ManualInv, RefundedIffFailed, Open
    <3>2. CASE /\ row' = [row EXCEPT ![k].status = "completed"]
               /\ UNCHANGED <<balance, refunds>>
      BY <1>0, <3>1, <3>2 DEF ManualInv, RefundedIffFailed, TypeInv, TypeOK, Row
    <3>3. CASE /\ row' = [row EXCEPT ![k].status = "failed"]
               /\ refunds' = [refunds EXCEPT ![k] = @ + 1]
      BY <1>0, <3>1, <3>3 DEF ManualInv, RefundedIffFailed, TypeInv, TypeOK, Row
    <3> QED BY <1>6, <3>2, <3>3, StatusWriteEffect
  <2>3. \A b \in Admins : HandlerCurrent(b)'
    BY <1>0, <2>1 DEF OneAdmin, HandlerCurrent, IdleJob, TypeInv, TypeOK
  <2>4. \A s \in Sweeps : job'[s] = job[s]
    BY <1>0, <2>1, WithdrawalsAssumption DEF TypeInv, TypeOK
  <2> QED BY <1>0, <2>1, <2>2, <2>3, <2>4 DEF ManualInv, SweepsIdle
<1>7. ASSUME NEW w \in Workers, StatusError(w) PROVE ManualInv'
  <2>1. /\ job' = [job EXCEPT ![w] = IdleJob]
        /\ UNCHANGED <<row, todo, refunds>>
    BY <1>7 DEF StatusError
  <2>2. \A v \in Workers : job'[v] = job[v] \/ job'[v] = IdleJob
    BY <1>0, <2>1 DEF TypeInv, TypeOK
  <2>3. \A b \in Admins : HandlerCurrent(b)'
    BY <2>1, <2>2 DEF ManualInv, HandlerCurrent, IdleJob
  <2> QED BY <1>0, <2>1, <2>2, <2>3 DEF ManualInv, SweepsIdle, RefundedIffFailed
<1>8. ASSUME NEW s \in Sweeps,
             SweepStart(s) \/ SweepSend(s) \/ SweepSendError(s) \/ SweepLostReply(s)
      PROVE ManualInv'
  BY <1>8 DEF ManualMode, ManualInv, SweepsIdle, SweepStart, SweepSend, SweepSendError,
              SweepLostReply, At
<1>9. ASSUME NEW u \in Users, NEW a \in Amounts, OtherSpend(u, a) PROVE ManualInv'
  BY <1>0, <1>9, ManualInvFrame DEF OtherSpend
<1>10. CASE Crash
  BY <1>0, <1>10 DEF Crash, ManualInv, SweepsIdle, HandlerCurrent, IdleJob,
                     RefundedIffFailed
<1>11. CASE UNCHANGED vars
  BY <1>0, <1>11, ManualInvFrame DEF vars
<1> QED
  BY <1>1, <1>2, <1>3, <1>4, <1>5, <1>6, <1>7, <1>8, <1>9, <1>10, <1>11 DEF Next

THEOREM ManualSafe ==
    ASSUME OneAdmin, ManualMode
    PROVE  Spec => []ManualInv
<1>1. ManualInv /\ [Next]_vars => ManualInv'
  BY NextManualInv
<1> QED BY <1>1, InitManualInv, PTL DEF Spec

\* A withdrawal's amount returns to the user once if it failed, never otherwise.
THEOREM RefundExactlyOnce ==
    ASSUME OneAdmin, ManualMode
    PROVE  Spec => []RefundedIffFailed
<1>1. ManualInv => RefundedIffFailed
  BY DEF ManualInv
<1> QED BY <1>1, ManualSafe, PTL

-----------------------------------------------------------------------------
(* Steps on rows and on the ledger.                                        *)

\* A step changes at most one row, and only an open or an unused one.
LEMMA RowStep ==
    ASSUME OneAdmin, ManualMode, ManualInv, [Next]_vars,
           NEW i \in Ids, row[i].status \in Final
    PROVE  row'[i].status = row[i].status
<1>0. row \in [Ids -> Row] /\ row[i].status # "none" /\ row[i].status \notin Open
  BY DEF ManualInv, TypeInv, TypeOK, Final, Open
<1>1. ASSUME NEW u \in Users, NEW t \in Tabs, CommitWithdrawal(u, t)
      PROVE row'[i].status = row[i].status
  BY <1>0, <1>1 DEF CommitWithdrawal, NextId
<1>2. ASSUME NEW a \in Admins, ApproveWrite(a) PROVE row'[i].status = row[i].status
  <2>1. job[a].id # i
    BY <1>0, <1>2 DEF ManualInv, HandlerCurrent, ApproveWrite
  <2> QED BY <1>0, <1>2, <2>1 DEF ApproveWrite
<1>3. ASSUME NEW w \in Workers, StatusWrite(w) PROVE row'[i].status = row[i].status
  <2>1. job[w].id # i
    BY <1>0, <1>3, StatusWriteEffect
  <2> QED BY <1>0, <1>3, <2>1, StatusWriteEffect
<1>4. CASE UNCHANGED row
  BY <1>4
<1> QED
  BY <1>1, <1>2, <1>3, <1>4
  DEF Next, CheckPending, CheckBalance, AdminCheck, StatusRead, StatusError, SweepStart,
      SweepSend, SweepSendError, SweepLostReply, OtherSpend, Crash, vars

\* A completed or failed withdrawal is never changed again.
THEOREM FinalStays ==
    ASSUME OneAdmin, ManualMode
    PROVE  Spec => FinalIsFinal
<1>1. ManualInv /\ [Next]_vars =>
        [\A i \in Ids : row[i].status \in Final => row'[i].status = row[i].status]_vars
  BY RowStep
<1> QED BY <1>1, ManualSafe, PTL DEF Spec, FinalIsFinal

Claims == [i \in Ids |-> ClaimOf(row[i])]

LEMMA LedgerInit == Init => Ledger!Init
<1> SUFFICES ASSUME Init PROVE Ledger!Init
  OBVIOUS
<1>1. \A i \in Ids : row[i] = NoRow
  BY DEF Init
<1>2. ClaimOf(NoRow) = Ledger!NoClaim
  BY DEF ClaimOf, Open, NoRow, Ledger!NoClaim
<1>3. [i \in Ids |-> ClaimOf(row[i])] = [i \in Ids |-> Ledger!NoClaim]
  BY <1>1, <1>2
<1>4. balance = [u \in Users |-> InitBalance]
  BY DEF Init
<1> QED BY <1>3, <1>4 DEF Ledger!Init

\* Closing row k as paid or returned is what the ledger does to claim k.
LEMMA LedgerClose ==
    ASSUME ManualInv, NEW w \in Workers, StatusWrite(w)
    PROVE  Ledger!Next
<1> DEFINE k == job[w].id
<1>0. /\ k \in Ids /\ row \in [Ids -> Row]
      /\ row[k].status \in Open
      /\ Claims[k].state = "reserved"
      /\ Claims[k].user = row[k].user /\ Claims[k].amount = row[k].amount
  BY StatusWriteEffect DEF Claims, ClaimOf, Open, ManualInv, TypeInv, TypeOK
<1> HIDE DEF k
<1>1. CASE /\ row' = [row EXCEPT ![k].status = "completed"]
           /\ UNCHANGED <<balance, refunds>>
  <2>1. Claims' = [Claims EXCEPT ![k].state = "paid"]
    BY <1>0, <1>1, ZenonT(60) DEF Claims, ClaimOf, Row, Open
  <2> QED BY <1>0, <1>1, <2>1 DEF Ledger!Next, Ledger!Pay, Claims
<1>2. CASE /\ row' = [row EXCEPT ![k].status = "failed"]
           /\ balance' = [balance EXCEPT ![row[k].user] = @ + row[k].amount]
  <2>1. Claims' = [Claims EXCEPT ![k].state = "returned"]
    BY <1>0, <1>2, ZenonT(60) DEF Claims, ClaimOf, Row, Open
  <2> QED BY <1>0, <1>2, <2>1 DEF Ledger!Next, Ledger!Refund, Claims
<1> QED BY <1>1, <1>2, StatusWriteEffect DEF k

LEMMA LedgerStep ==
    ASSUME OneAdmin, ManualMode, ManualInv, [Next]_vars
    PROVE  [Ledger!Next]_<<balance, Claims>>
<1>0. row \in [Ids -> Row]
  BY DEF ManualInv, TypeInv, TypeOK
<1>1. ASSUME NEW u \in Users, NEW t \in Tabs, CommitWithdrawal(u, t) PROVE Ledger!Next
  <2> DEFINE a == req[<<u, t>>].amount
  <2>1. a \in Amounts
    BY <1>1 DEF CommitWithdrawal, ManualInv, TypeInv, HandlersOK
  <2>2. PICK i \in Ids :
          /\ row[i].status = "none"
          /\ row' = [row EXCEPT ![i] = [status |-> "pending", user |-> u, amount |-> a]]
    BY <1>1 DEF CommitWithdrawal, NextId
  <2>3. balance' = [balance EXCEPT ![u] = @ - a]
    BY <1>1 DEF CommitWithdrawal
  <2> HIDE DEF a
  <2>4. /\ Claims[i].state = "none"
        /\ Claims' = [Claims EXCEPT ![i] = [state |-> "reserved", user |-> u, amount |-> a]]
    BY <1>0, <2>2 DEF Claims, ClaimOf, Open
  <2> QED BY <2>1, <2>3, <2>4 DEF Ledger!Next, Ledger!Request, Claims
<1>2. ASSUME NEW a \in Admins, ApproveWrite(a) PROVE UNCHANGED <<balance, Claims>>
  <2>1. /\ job[a].id \in Ids
        /\ row[job[a].id].status = "pending"
        /\ row' = [row EXCEPT ![job[a].id].status = "approved"]
        /\ UNCHANGED balance
    BY <1>2, WorkersOf DEF ApproveWrite, ManualInv, HandlerCurrent, TypeInv, HandlersOK
  <2>2. \A i \in Ids : ClaimOf(row'[i]) = ClaimOf(row[i])
    BY <1>0, <2>1 DEF ClaimOf, Open, Row
  <2> QED BY <2>1, <2>2 DEF Claims
<1>3. ASSUME NEW w \in Workers, StatusWrite(w) PROVE Ledger!Next
  BY <1>3, LedgerClose
<1>4. ASSUME NEW u \in Users, NEW a \in Amounts, OtherSpend(u, a) PROVE Ledger!Next
  BY <1>4 DEF OtherSpend, Ledger!Next, Ledger!Spend
<1>5. CASE UNCHANGED <<balance, row>>
  BY <1>5 DEF Claims
<1> QED
  BY <1>1, <1>2, <1>3, <1>4, <1>5
  DEF Next, CheckPending, CheckBalance, AdminCheck, StatusRead, StatusError, SweepStart,
      SweepSend, SweepSendError, SweepLostReply, Crash, vars

\* Withdrawals, sent manually by one admin at a time, implement the atomic ledger.
THEOREM LedgerRefinement ==
    ASSUME OneAdmin, ManualMode
    PROVE  Spec => ImplementsLedger
<1>1. ManualInv /\ [Next]_vars => [Ledger!Next]_<<balance, Claims>>
  BY LedgerStep
<1> QED BY <1>1, LedgerInit, ManualSafe, PTL DEF Spec, ImplementsLedger, Ledger!Spec, Claims

-----------------------------------------------------------------------------
(* The money.                                                              *)

\* An entry of n has n units.
LEMMA EntryUnits ==
    ASSUME NEW x, NEW n \in Nat
    PROVE  IsFiniteSet({x} \X (1 .. n)) /\ Cardinality({x} \X (1 .. n)) = n
<1>1. IsFiniteSet(1 .. n) /\ Cardinality(1 .. n) = n
  BY FS_Interval
<1>2. IsFiniteSet({x}) /\ Cardinality({x}) = 1
  BY FS_Singleton
<1> QED BY <1>1, <1>2, FS_Product

\* Tables that differ in one entry have totals that differ by it.
LEMMA TotalChange ==
    ASSUME NEW S, NEW T, NEW f \in [S -> Nat], NEW g \in [T -> Nat], NEW x,
           S \ {x} = T \ {x}, \A y \in S \ {x} : g[y] = f[y], IsFiniteSet(Units(f))
    PROVE  /\ IsFiniteSet(Units(g))
           /\ Total(g) = Total(f) - (IF x \in S THEN f[x] ELSE 0)
                                  + (IF x \in T THEN g[x] ELSE 0)
<1> DEFINE a == IF x \in S THEN f[x] ELSE 0
           b == IF x \in T THEN g[x] ELSE 0
           A == {x} \X (1 .. a)
           B == {x} \X (1 .. b)
           R == Units(f) \ A
<1>1. a \in Nat /\ b \in Nat
  OBVIOUS
<1>2. A \subseteq Units(f)
  BY DEF Units
<1>3. Units(g) = R \cup B
  BY DEF Units
<1>4. R \cap B = {}
  BY DEF Units
<1> HIDE DEF a, b
<1>5. /\ IsFiniteSet(A) /\ Cardinality(A) = a
      /\ IsFiniteSet(B) /\ Cardinality(B) = b
  BY <1>1, EntryUnits
<1>6. Units(f) \cap A = A
  BY <1>2
<1>7. IsFiniteSet(R) /\ Cardinality(R) = Total(f) - a
  <2>1. /\ IsFiniteSet(R)
        /\ Cardinality(R) = Cardinality(Units(f)) - Cardinality(Units(f) \cap A)
    BY FS_Difference
  <2> QED BY <1>5, <1>6, <2>1 DEF Total
<1>8. IsFiniteSet(R \cup B) /\ Cardinality(R \cup B) = Cardinality(R) + b - 0
  BY <1>4, <1>5, <1>7, FS_Union, FS_EmptySet
<1>9. Total(f) \in Nat /\ Cardinality(R) \in Nat
  BY <1>7, FS_CardinalityType DEF Total
<1> QED BY <1>1, <1>3, <1>7, <1>8, <1>9 DEF Total, a, b

\* What is reserved for a user is finite, and with his balance and what he spent
\* elsewhere makes up what he had.
Books ==
    /\ \A u \in Users : IsFiniteSet(Units(Reserved(u)))
    /\ Conservation

LEMMA ReservedType ==
    ASSUME NEW u \in Users
    PROVE  /\ TypeInv => Reserved(u) \in [Owed(u) -> Nat]
           /\ TypeInv' => (Reserved(u) \in [Owed(u) -> Nat])'
BY AmountsAreNat DEF TypeInv, TypeOK, Row, Reserved, Owed, RowsOf

\* What a write to row i does to what is reserved for a user.
LEMMA ReservedChange ==
    ASSUME TypeInv, TypeInv', Books, NEW u \in Users, NEW i \in Ids, NEW r \in Row,
           row' = [row EXCEPT ![i] = r]
    PROVE  /\ IsFiniteSet(Units(Reserved(u)))'
           /\ Total(Reserved(u))' = Total(Reserved(u))
                - (IF i \in Owed(u) THEN row[i].amount ELSE 0)
                + (IF i \in Owed(u)' THEN r.amount ELSE 0)
<1> DEFINE S == Owed(u)
           T == Owed(u)'
           f == Reserved(u)
           g == Reserved(u)'
<1>1. f \in [S -> Nat] /\ g \in [T -> Nat]
  BY ReservedType
<1>2. /\ S \subseteq Ids /\ T \subseteq Ids
      /\ \A j \in Ids : row'[j] = IF j = i THEN r ELSE row[j]
  BY DEF Owed, RowsOf, TypeInv, TypeOK
<1>3. S \ {i} = T \ {i}
  BY <1>2 DEF Owed, RowsOf
<1>4. \A j \in S \ {i} : g[j] = f[j]
  BY <1>2, <1>3 DEF Reserved
<1>5. (i \in S => f[i] = row[i].amount) /\ (i \in T => g[i] = r.amount)
  BY <1>2 DEF Reserved
<1>6. IsFiniteSet(Units(f))
  BY DEF Books
<1> HIDE DEF S, T, f, g
<1>7. /\ IsFiniteSet(Units(g))
      /\ Total(g) = Total(f) - (IF i \in S THEN f[i] ELSE 0)
                             + (IF i \in T THEN g[i] ELSE 0)
  BY <1>1, <1>3, <1>4, <1>6, TotalChange
<1> QED BY <1>5, <1>7 DEF S, T, f, g

LEMMA TotalIsNat ==
    ASSUME NEW f, IsFiniteSet(Units(f))
    PROVE  Total(f) \in Nat
BY FS_CardinalityType DEF Total

LEMMA InitBooks == Init => Books
<1> SUFFICES ASSUME Init PROVE Books
  OBVIOUS
<1>1. \A u \in Users : Owed(u) = {}
  BY DEF Init, Owed, RowsOf, NoRow
<1>2. \A u \in Users : Units(Reserved(u)) = {}
  BY <1>1 DEF Units, Reserved
<1>3. \A u \in Users : IsFiniteSet(Units(Reserved(u))) /\ Total(Reserved(u)) = 0
  BY <1>2, FS_EmptySet DEF Total
<1>4. InitBalance \in Nat /\ \A u \in Users : balance[u] = InitBalance /\ spent[u] = 0
  BY WithdrawalsAssumption DEF Init
<1> QED BY <1>3, <1>4 DEF Books, Conservation

\* A step that leaves the rows alone, and moves money only between balance and spent.
LEMMA BooksFrame ==
    ASSUME TypeInv, TypeInv', Books, UNCHANGED row,
           \A u \in Users : balance'[u] + spent'[u] = balance[u] + spent[u]
    PROVE  Books'
<1>1. \A u \in Users : Reserved(u)' = Reserved(u)
  BY DEF Reserved, Owed, RowsOf
<1>2. \A u \in Users : Total(Reserved(u)) \in Nat
  BY TotalIsNat DEF Books
<1>3. \A u \in Users : /\ balance[u] \in Int /\ balance'[u] \in Int
                       /\ spent[u] \in Int /\ spent'[u] \in Int
  BY DEF TypeInv, TypeOK
<1>4. \A u \in Users :
         /\ balance[u] + Total(Reserved(u)) + spent[u] = InitBalance
         /\ balance'[u] + spent'[u] = balance[u] + spent[u]
  BY DEF Books, Conservation
<1>5. \A u \in Users : balance'[u] + Total(Reserved(u)) + spent'[u] = InitBalance
  BY <1>2, <1>3, <1>4
<1> QED BY <1>1, <1>5 DEF Books, Conservation

LEMMA NextBooks ==
    ASSUME ManualInv, OneAdmin, ManualMode, Books, [Next]_vars
    PROVE  Books'
<1>0. /\ TypeInv /\ TypeInv' /\ row \in [Ids -> Row] /\ balance \in [Users -> Int]
      /\ spent \in [Users -> Nat]
  BY NextTypeInv DEF ManualInv, TypeInv, TypeOK
<1>a. \A u \in Users : /\ Total(Reserved(u)) \in Int
                       /\ balance[u] + Total(Reserved(u)) + spent[u] = InitBalance
  BY TotalIsNat DEF Books, Conservation
\* One row is written, and the balances move with it.
<1>b. ASSUME NEW i \in Ids, NEW r \in Row, row' = [row EXCEPT ![i] = r], UNCHANGED spent,
             \A u \in Users : balance'[u] = balance[u]
                    + (IF i \in Owed(u) THEN row[i].amount ELSE 0)
                    - (IF i \in Owed(u)' THEN r.amount ELSE 0)
      PROVE  Books'
  <2>1. ASSUME NEW u \in Users
        PROVE  /\ IsFiniteSet(Units(Reserved(u)))'
               /\ balance'[u] + Total(Reserved(u))' + spent'[u] = InitBalance
    <3>1. /\ IsFiniteSet(Units(Reserved(u)))'
          /\ Total(Reserved(u))' = Total(Reserved(u))
                - (IF i \in Owed(u) THEN row[i].amount ELSE 0)
                + (IF i \in Owed(u)' THEN r.amount ELSE 0)
      BY <1>0, <1>b, ReservedChange
    <3>2. row[i].amount \in Int /\ r.amount \in Int
      BY <1>0, AmountsAreNat DEF Row
    <3>3. balance[u] \in Int /\ spent'[u] = spent[u] /\ spent[u] \in Int
      BY <1>0, <1>b
    <3> QED BY <1>a, <1>b, <3>1, <3>2, <3>3
  <2> QED BY <2>1 DEF Books, Conservation
<1>1. ASSUME NEW u \in Users, NEW t \in Tabs, CommitWithdrawal(u, t) PROVE Books'
  <2> DEFINE a == req[<<u, t>>].amount
  <2>1. a \in Amounts
    BY <1>0, <1>1 DEF CommitWithdrawal, TypeInv, HandlersOK
  <2>2. PICK i \in Ids :
          /\ row[i].status = "none"
          /\ row' = [row EXCEPT ![i] = [status |-> "pending", user |-> u, amount |-> a]]
    BY <1>1 DEF CommitWithdrawal, NextId
  <2>3. balance' = [balance EXCEPT ![u] = @ - a] /\ UNCHANGED spent
    BY <1>1 DEF CommitWithdrawal
  <2> DEFINE r == [status |-> "pending", user |-> u, amount |-> a]
  <2>4. r \in Row /\ r.amount = a /\ a \in Int
    BY <2>1, AmountsAreNat DEF Row, Status
  <2>5. \A v \in Users : i \notin Owed(v) /\ (i \in Owed(v)' <=> v = u)
    BY <1>0, <2>2 DEF Owed, RowsOf
  <2> HIDE DEF a, r
  <2>6. \A v \in Users : balance'[v] = balance[v]
                    + (IF i \in Owed(v) THEN row[i].amount ELSE 0)
                    - (IF i \in Owed(v)' THEN r.amount ELSE 0)
    BY <1>0, <2>3, <2>4, <2>5
  <2> QED BY <1>b, <2>2, <2>3, <2>4, <2>6 DEF r
<1>2. ASSUME NEW a \in Admins, ApproveWrite(a) PROVE Books'
  <2> DEFINE i == job[a].id
             r == [row[i] EXCEPT !.status = "approved"]
  <2>1. /\ i \in Ids /\ row[i].status = "pending"
        /\ row' = [row EXCEPT ![i].status = "approved"]
        /\ UNCHANGED <<balance, spent>>
    BY <1>0, <1>2, WorkersOf DEF ApproveWrite, ManualInv, HandlerCurrent, TypeInv, HandlersOK
  <2> HIDE DEF i
  <2>2. row[i] \in Row /\ r \in Row
    BY <1>0, <2>1, StatusType DEF Status
  <2>a. r.amount = row[i].amount
    BY <2>2 DEF Row
  <2>b. row' = [row EXCEPT ![i] = r]
    BY <1>0, <2>1
  <2>3. \A v \in Users : i \in Owed(v)' <=> i \in Owed(v)
    BY <1>0, <2>1 DEF Owed, RowsOf, Row
  <2>4. row[i].amount \in Int /\ \A v \in Users : balance[v] \in Int
    BY <1>0, <2>1, AmountsAreNat DEF Row
  <2> HIDE DEF r
  <2>5. \A v \in Users : balance'[v] = balance[v]
                    + (IF i \in Owed(v) THEN row[i].amount ELSE 0)
                    - (IF i \in Owed(v)' THEN r.amount ELSE 0)
    BY <2>1, <2>a, <2>3, <2>4
  <2> QED BY <1>b, <2>1, <2>2, <2>b, <2>5
<1>3. ASSUME NEW w \in Workers, StatusWrite(w) PROVE Books'
  <2> DEFINE i == job[w].id
  <2>1. i \in Ids /\ row[i].status \in Open
    BY <1>3, StatusWriteEffect
  <2>2. UNCHANGED spent
    BY <1>3 DEF StatusWrite
  <2>3. row[i].amount \in Int /\ \A v \in Users : balance[v] \in Int
    BY <1>0, <2>1, AmountsAreNat DEF Row
  <2>4. \A v \in Users : i \in Owed(v) <=> row[i].user = v
    BY <2>1 DEF Owed, RowsOf, Open
  <2> HIDE DEF i
  <2>5. CASE /\ row' = [row EXCEPT ![i].status = "completed"]
             /\ UNCHANGED <<balance, refunds>>
    <3> DEFINE r == [row[i] EXCEPT !.status = "completed"]
    <3>a. row[i] \in Row /\ r \in Row
      BY <1>0, <2>1, StatusType DEF Status
    <3>b. r.amount = row[i].amount
      BY <3>a DEF Row
    <3>1. row' = [row EXCEPT ![i] = r]
      BY <1>0, <2>1, <2>5
    <3>2. \A v \in Users : i \in Owed(v)' <=> row[i].user = v
      BY <1>0, <2>1, <2>5 DEF Owed, RowsOf, Row
    <3> HIDE DEF r
    <3>3. \A v \in Users : balance'[v] = balance[v]
                    + (IF i \in Owed(v) THEN row[i].amount ELSE 0)
                    - (IF i \in Owed(v)' THEN r.amount ELSE 0)
      BY <2>3, <2>4, <2>5, <3>b, <3>2
    <3> QED BY <1>b, <2>1, <2>2, <3>a, <3>1, <3>3
  <2>6. CASE /\ row' = [row EXCEPT ![i].status = "failed"]
             /\ balance' = [balance EXCEPT ![row[i].user] = @ + row[i].amount]
    <3> DEFINE r == [row[i] EXCEPT !.status = "failed"]
    <3>a. row[i] \in Row /\ r \in Row
      BY <1>0, <2>1, StatusType DEF Status
    <3>b. r.amount = row[i].amount
      BY <3>a DEF Row
    <3>1. row' = [row EXCEPT ![i] = r]
      BY <1>0, <2>1, <2>6
    <3>2. \A v \in Users : i \notin Owed(v)'
      BY <1>0, <2>1, <2>6 DEF Owed, RowsOf, Row
    <3>3. \A v \in Users : balance'[v] = balance[v]
                               + (IF row[i].user = v THEN row[i].amount ELSE 0)
      BY <1>0, <2>3, <2>6
    <3> HIDE DEF r
    <3>4. \A v \in Users : balance'[v] \in Int
      BY <2>3, <3>3
    <3>5. \A v \in Users : balance'[v] = balance[v]
                    + (IF i \in Owed(v) THEN row[i].amount ELSE 0)
                    - (IF i \in Owed(v)' THEN r.amount ELSE 0)
      BY <2>3, <2>4, <3>2, <3>3, <3>4
    <3> QED BY <1>b, <2>1, <2>2, <3>a, <3>1, <3>5
  <2> QED BY <1>3, <2>5, <2>6, StatusWriteEffect DEF i
<1>4. ASSUME NEW u \in Users, NEW a \in Amounts, OtherSpend(u, a) PROVE Books'
  <2>1. /\ balance' = [balance EXCEPT ![u] = @ - a]
        /\ spent' = [spent EXCEPT ![u] = @ + a]
        /\ UNCHANGED row /\ a \in Int
    BY <1>4, AmountsAreNat DEF OtherSpend
  <2>2. \A v \in Users : balance'[v] + spent'[v] = balance[v] + spent[v]
    BY <1>0, <2>1
  <2> QED BY <1>0, <2>1, <2>2, BooksFrame
<1>5. CASE UNCHANGED <<row, balance, spent>>
  BY <1>0, <1>5, BooksFrame
<1> QED
  BY <1>1, <1>2, <1>3, <1>4, <1>5
  DEF Next, CheckPending, CheckBalance, AdminCheck, StatusRead, StatusError, SweepStart,
      SweepSend, SweepSendError, SweepLostReply, Crash, vars

\* No POL of a user is created or lost: with one admin handler at a time and manual
\* sending, balance, reserved and paid withdrawals, and other purchases add up.
THEOREM MoneyConserved ==
    ASSUME OneAdmin, ManualMode
    PROVE  Spec => []Conservation
<1>1. ManualInv /\ Books /\ [Next]_vars => Books'
  BY NextBooks
<1>2. Books => Conservation
  BY DEF Books
<1> QED BY <1>1, <1>2, InitBooks, ManualSafe, PTL DEF Spec

-----------------------------------------------------------------------------
(* Auto-send: one run of the cron and one admin request at a time.         *)

OneSweep == \A s, t \in Sweeps : s = t

\* An admin has decided on row i.
Decided(i)  == row[i].status \notin {"none", "pending"}
\* Every transfer made for row i so far is one whose record was lost.
Recorded(i) == paid[i] <= lost[i]
Sends(s, i) == job[s] # IdleJob /\ job[s].id = i

\* Nobody decides on a row while an admin is about to approve it.
ApprovesPending ==
    \A a \in Admins :
        job[a].pc # "idle" /\ job[a].op = "approve" => row[job[a].id].status = "pending"

\* A run that has not come to a row yet has not paid for it, and one that has will
\* mark it completed.
SweepKnows(s) ==
    /\ \A i \in todo[s] : Decided(i) /\ Recorded(i)
    /\ job[s] # IdleJob => job[s].pc # "idle" /\ job[s].op = "complete" /\ Decided(job[s].id)

\* A row that is still approved has not been paid, unless the run is at it.
ApprovedRecorded ==
    \A i \in Ids :
        row[i].status = "approved" /\ (\A s \in Sweeps : ~Sends(s, i)) => Recorded(i)

AutoInv ==
    /\ TypeInv
    /\ ApprovesPending
    /\ \A s \in Sweeps : SweepKnows(s)
    /\ ApprovedRecorded
    /\ \A i \in Ids : paid[i] <= MaxPaid
    /\ PaidAsRecorded

\* Counting up to the bound.
LEMMA BumpIs ==
    ASSUME NEW f \in [Ids -> Nat], NEW i \in Ids, NEW j \in Ids
    PROVE  /\ Bump(f, i)[j] = IF j = i /\ f[i] < MaxPaid THEN f[i] + 1 ELSE f[j]
           /\ f[j] <= MaxPaid => Bump(f, i)[j] <= MaxPaid
           /\ f[j] <= Bump(f, i)[j]
<1>1. MaxPaid \in Nat
  BY WithdrawalsAssumption
<1>2. Bump(f, i)[j] = IF j = i /\ f[i] < MaxPaid THEN f[i] + 1 ELSE f[j]
  BY DEF Bump
<1> QED BY <1>1, <1>2

LEMMA InitAutoInv == Init => AutoInv
<1> SUFFICES ASSUME Init PROVE AutoInv
  OBVIOUS
<1>1. ApprovesPending /\ \A s \in Sweeps : SweepKnows(s)
  BY WorkersOf DEF Init, ApprovesPending, SweepKnows, IdleJob
<1>2. ApprovedRecorded /\ PaidAsRecorded /\ \A i \in Ids : paid[i] <= MaxPaid
  BY WithdrawalsAssumption DEF Init, ApprovedRecorded, PaidAsRecorded, NoRow
<1> QED BY <1>1, <1>2, InitTypeInv DEF AutoInv

\* A step that pays nothing and loses nothing: rows that were decided stay so, none
\* becomes approved but one that was pending or approved, and a handler that is not
\* idle is as it was, or is left idle with its row completed or failed.
LEMMA AutoFrame ==
    ASSUME AutoInv, TypeInv', UNCHANGED <<paid, lost, todo>>,
           \A i \in Ids : /\ Decided(i) => Decided(i)'
                          /\ row'[i].status = "approved" => row[i].status \in Open,
           ApprovesPending',
           \A s \in Sweeps :
               \/ job'[s] = job[s]
               \/ job'[s] = IdleJob /\ row'[job[s].id].status # "approved"
               \/ /\ job[s] # IdleJob /\ job'[s].pc # "idle"
                  /\ job'[s].op = job[s].op /\ job'[s].id = job[s].id
    PROVE  AutoInv'
<1> USE WorkersOf
<1>0. TypeInv
  BY DEF AutoInv
<1>a. \A s \in Sweeps : todo[s] \subseteq Ids /\ (job[s].pc # "idle" => job[s].id \in Ids)
  BY <1>0 DEF TypeInv, TypeOK, HandlersOK
<1>1. ASSUME NEW s \in Sweeps PROVE SweepKnows(s)'
  BY <1>a DEF AutoInv, SweepKnows, Recorded, IdleJob
<1>2. ApprovedRecorded'
  <2> SUFFICES ASSUME NEW i \in Ids, row'[i].status = "approved",
                      \A s \in Sweeps : ~Sends(s, i)'
               PROVE  Recorded(i)'
    BY DEF ApprovedRecorded
  <2>1. CASE row[i].status = "pending"
    <3>1. paid[i] <= 0 /\ paid[i] \in Nat /\ lost[i] \in Nat
      BY <1>0, <2>1 DEF AutoInv, PaidAsRecorded, TypeInv, TypeOK
    <3> QED BY <3>1 DEF Recorded
  <2>2. CASE row[i].status = "approved"
    <3>1. \A s \in Sweeps : ~Sends(s, i)
      BY DEF Sends, IdleJob
    <3> QED BY <2>2, <3>1 DEF AutoInv, ApprovedRecorded, Recorded
  <2> QED BY <2>1, <2>2 DEF Open
<1>3. PaidAsRecorded'
  <2> SUFFICES ASSUME NEW i \in Ids
               PROVE  paid[i] <= IF row'[i].status \in {"none", "pending"} THEN 0
                                 ELSE 1 + lost[i]
    BY DEF PaidAsRecorded
  <2>1. paid[i] \in Nat /\ lost[i] \in Nat
    BY <1>0 DEF TypeInv, TypeOK
  <2>2. paid[i] <= IF row[i].status \in {"none", "pending"} THEN 0 ELSE 1 + lost[i]
    BY DEF AutoInv, PaidAsRecorded
  <2> QED BY <2>1, <2>2 DEF Decided
<1> QED BY <1>1, <1>2, <1>3 DEF AutoInv

\* Every step keeps what the rows say and what was paid in step.
LEMMA NextAutoInv ==
    ASSUME OneAdmin, OneSweep, AutoInv, [Next]_vars
    PROVE  AutoInv'
<1> USE WorkersOf
<1>0. /\ TypeInv /\ TypeInv' /\ row \in [Ids -> Row]
      /\ paid \in [Ids -> Nat] /\ lost \in [Ids -> Nat] /\ MaxPaid \in Nat
  BY NextTypeInv, WithdrawalsAssumption DEF AutoInv, TypeInv, TypeOK
<1>a. \A s \in Sweeps : /\ todo[s] \subseteq Ids /\ s \notin Admins
                        /\ job[s] # IdleJob => job[s].id \in Ids
  BY <1>0, WithdrawalsAssumption DEF AutoInv, SweepKnows, TypeInv, TypeOK, HandlersOK
<1>b. \A i \in Ids : paid[i] <= IF row[i].status \in {"none", "pending"} THEN 0 ELSE 1 + lost[i]
  BY DEF AutoInv, PaidAsRecorded
<1>1. ASSUME NEW u \in Users, NEW t \in Tabs, CommitWithdrawal(u, t) PROVE AutoInv'
  <2>1. PICK i \in Ids :
          /\ row[i].status = "none"
          /\ row' = [row EXCEPT ![i] =
                        [status |-> "pending", user |-> u, amount |-> req[<<u, t>>].amount]]
    BY <1>1 DEF CommitWithdrawal, NextId
  <2>2. UNCHANGED <<job, todo, paid, lost>>
    BY <1>1 DEF CommitWithdrawal
  <2>3. ApprovesPending'
    <3> SUFFICES ASSUME NEW a \in Admins, job[a].pc # "idle", job[a].op = "approve"
                 PROVE  row'[job[a].id].status = "pending"
      BY <2>2 DEF ApprovesPending
    <3>1. row[job[a].id].status = "pending" /\ job[a].id \in Ids
      BY <1>0 DEF AutoInv, ApprovesPending, TypeInv, HandlersOK
    <3> QED BY <1>0, <2>1, <3>1
  <2>4. \A j \in Ids : /\ Decided(j) => Decided(j)'
                       /\ row'[j].status = "approved" => row[j].status \in Open
    BY <1>0, <2>1 DEF Decided, Open
  <2> QED BY <1>0, <2>2, <2>3, <2>4, AutoFrame
<1>2. ASSUME NEW a \in Admins, NEW op \in Ops, NEW i \in Ids, AdminCheck(a, op, i)
      PROVE AutoInv'
  <2>1. /\ job' = [job EXCEPT ![a] = [pc |-> "checked", op |-> op, id |-> i, prev |-> "none"]]
        /\ op = "approve" => row[i].status = "pending"
        /\ UNCHANGED <<row, todo, paid, lost>>
    BY <1>2 DEF AdminCheck, Allows
  <2>2. ApprovesPending'
    BY <1>0, <2>1 DEF OneAdmin, ApprovesPending, TypeInv, TypeOK
  <2>3. \A s \in Sweeps : job'[s] = job[s]
    BY <1>0, <1>a, <2>1 DEF TypeInv, TypeOK
  <2>4. \A j \in Ids : /\ Decided(j) => Decided(j)'
                       /\ row'[j].status = "approved" => row[j].status \in Open
    BY <2>1 DEF Decided, Open
  <2> QED BY <1>0, <2>1, <2>2, <2>3, <2>4, AutoFrame
<1>3. ASSUME NEW a \in Admins, ApproveWrite(a) PROVE AutoInv'
  <2>1. /\ row' = [row EXCEPT ![job[a].id].status = "approved"]
        /\ job' = [job EXCEPT ![a] = IdleJob]
        /\ UNCHANGED <<todo, paid, lost>>
        /\ job[a].id \in Ids /\ row[job[a].id].status = "pending"
    BY <1>0, <1>3 DEF ApproveWrite, AutoInv, ApprovesPending, TypeInv, HandlersOK
  <2>2. ApprovesPending'
    BY <1>0, <2>1 DEF OneAdmin, ApprovesPending, TypeInv, TypeOK, IdleJob
  <2>3. \A s \in Sweeps : job'[s] = job[s]
    BY <1>0, <1>a, <2>1 DEF TypeInv, TypeOK
  <2>4. \A j \in Ids : /\ Decided(j) => Decided(j)'
                       /\ row'[j].status = "approved" => row[j].status \in Open
    BY <1>0, <2>1 DEF Decided, Open, Row
  <2> QED BY <1>0, <2>1, <2>2, <2>3, <2>4, AutoFrame
<1>4. ASSUME NEW w \in Workers, StatusRead(w) PROVE AutoInv'
  <2>1. /\ job' = [job EXCEPT ![w].pc = "loaded", ![w].prev = row[job[w].id].status]
        /\ job[w].pc = "checked" /\ job[w].op # "approve"
        /\ UNCHANGED <<row, todo, paid, lost>>
    BY <1>4 DEF StatusRead
  <2>2. \A v \in Workers : /\ v # w => job'[v] = job[v]
                           /\ v = w => /\ job'[v].pc = "loaded" /\ job'[v].op = job[v].op
                                       /\ job'[v].id = job[v].id
    BY <1>0, <2>1 DEF TypeInv, TypeOK, Job
  <2>3. ApprovesPending'
    BY <2>1, <2>2 DEF AutoInv, ApprovesPending
  <2>4. \A j \in Ids : /\ Decided(j) => Decided(j)'
                       /\ row'[j].status = "approved" => row[j].status \in Open
    BY <2>1 DEF Decided, Open
  <2>5. job[w] # IdleJob
    BY <2>1 DEF IdleJob
  <2> QED BY <1>0, <2>1, <2>2, <2>3, <2>4, <2>5, AutoFrame
<1>5. ASSUME NEW w \in Workers, StatusWrite(w) PROVE AutoInv'
  <2>1. /\ job' = [job EXCEPT ![w] = IdleJob]
        /\ UNCHANGED <<todo, paid, lost>>
        /\ job[w].id \in Ids /\ job[w].pc = "loaded"
    BY <1>0, <1>5 DEF StatusWrite, TypeInv, HandlersOK
  <2>2. PICK st \in Final : row' = [row EXCEPT ![job[w].id].status = st]
    BY <1>5 DEF StatusWrite, WriteCompleted, WriteFailed, Final
  <2>3. \A i \in Ids : row'[i].status = IF i = job[w].id THEN st ELSE row[i].status
    BY <1>0, <2>1, <2>2 DEF Row
  <2>4. \A v \in Workers : job'[v] = IF v = w THEN IdleJob ELSE job[v]
    BY <1>0, <2>1 DEF TypeInv, TypeOK
  <2>5. job[w].op # "approve"
    <3>1. CASE w \in Sweeps
      BY <2>1, <3>1 DEF AutoInv, SweepKnows, IdleJob
    <3>2. CASE w \in Admins
      BY <1>5 DEF StatusWrite, WriteCompleted, WriteFailed
    <3> QED BY <3>1, <3>2 DEF Workers
  <2>6. ApprovesPending'
    <3> SUFFICES ASSUME NEW a \in Admins, job'[a].pc # "idle", job'[a].op = "approve"
                 PROVE  row'[job'[a].id].status = "pending"
      BY DEF ApprovesPending
    <3>1. a # w /\ job'[a] = job[a]
      BY <2>4 DEF IdleJob
    <3>2. row[job[a].id].status = "pending" /\ job[a].id \in Ids
      BY <1>0, <3>1 DEF AutoInv, ApprovesPending, TypeInv, HandlersOK
    <3>3. w \in Sweeps
      BY <3>1 DEF OneAdmin, Workers
    <3>4. Decided(job[w].id)
      BY <2>1, <3>3 DEF AutoInv, SweepKnows, IdleJob
    <3> QED BY <2>3, <3>1, <3>2, <3>4 DEF Decided
  <2>7. \A j \in Ids : /\ Decided(j) => Decided(j)'
                       /\ row'[j].status = "approved" => row[j].status \in Open
    BY <2>3 DEF Decided, Open, Final
  <2>8. \A s \in Sweeps : \/ job'[s] = job[s]
                          \/ job'[s] = IdleJob /\ row'[job[s].id].status # "approved"
    BY <2>1, <2>3, <2>4 DEF Final
  <2> QED BY <1>0, <2>1, <2>6, <2>7, <2>8, AutoFrame
<1>6. ASSUME NEW w \in Workers, StatusError(w) PROVE AutoInv'
  <2>1. /\ job' = [job EXCEPT ![w] = IdleJob]
        /\ lost' = IF w \in Sweeps THEN Bump(lost, job[w].id) ELSE lost
        /\ UNCHANGED <<row, todo, paid>>
        /\ job[w].pc = "loaded" /\ job[w].id \in Ids
    BY <1>0, <1>6 DEF StatusError, TypeInv, HandlersOK
  <2>2. \A v \in Workers : job'[v] = IF v = w THEN IdleJob ELSE job[v]
    BY <1>0, <2>1 DEF TypeInv, TypeOK
  <2>3. \A i \in Ids : lost[i] <= lost'[i] /\ lost'[i] \in Nat
    BY <1>0, <2>1, BumpIs DEF TypeInv, TypeOK
  <2>4. ApprovesPending'
    BY <2>1, <2>2 DEF AutoInv, ApprovesPending, IdleJob
  <2>5. \A i \in Ids : Recorded(i) => Recorded(i)'
    BY <1>0, <2>1, <2>3 DEF Recorded
  <2>6. \A s \in Sweeps : SweepKnows(s)'
    BY <1>a, <2>1, <2>2, <2>5 DEF AutoInv, SweepKnows, Decided
  <2>7. ApprovedRecorded'
    <3> SUFFICES ASSUME NEW i \in Ids, row[i].status = "approved",
                        \A s \in Sweeps : ~Sends(s, i)'
                 PROVE  Recorded(i)'
      BY <2>1 DEF ApprovedRecorded
    <3>1. CASE w \in Sweeps /\ job[w].id = i
      <4>1. lost'[i] = IF lost[i] < MaxPaid THEN lost[i] + 1 ELSE lost[i]
        BY <1>0, <2>1, <3>1, BumpIs
      <4>2. paid[i] <= 1 + lost[i] /\ paid[i] <= MaxPaid
        BY <1>b DEF AutoInv
      <4> QED BY <1>0, <2>1, <4>1, <4>2 DEF Recorded
    <3>2. CASE ~(w \in Sweeps /\ job[w].id = i)
      <4>1. \A s \in Sweeps : ~Sends(s, i)
        BY <2>2, <3>2 DEF Sends
      <4> QED BY <2>5, <4>1 DEF AutoInv, ApprovedRecorded
    <3> QED BY <3>1, <3>2
  <2>8. PaidAsRecorded'
    BY <1>0, <1>b, <2>1, <2>3 DEF PaidAsRecorded
  <2> QED BY <1>0, <2>1, <2>4, <2>6, <2>7, <2>8 DEF AutoInv
<1>7. ASSUME NEW s \in Sweeps, SweepStart(s) PROVE AutoInv'
  <2>1. /\ todo' = [todo EXCEPT ![s] = Approved] /\ job[s] = IdleJob
        /\ UNCHANGED <<row, job, paid, lost>>
    BY <1>7 DEF SweepStart
  <2>2. \A i \in Approved : Decided(i) /\ Recorded(i)
    BY <2>1 DEF OneSweep, AutoInv, ApprovedRecorded, Approved, Decided, Sends
  <2>3. \A r \in Sweeps : SweepKnows(r)'
    BY <1>0, <2>1, <2>2 DEF AutoInv, SweepKnows, Decided, Recorded, TypeInv, TypeOK
  <2> QED
    BY <1>0, <2>1, <2>3
    DEF AutoInv, ApprovesPending, ApprovedRecorded, Recorded, Sends, PaidAsRecorded
<1>8. ASSUME NEW s \in Sweeps, SweepSend(s) PROVE AutoInv'
  <2>1. PICK i \in Ids :
          /\ At(s, i)
          /\ paid' = Bump(paid, i)
          /\ todo' = [todo EXCEPT ![s] = @ \ {i}]
          /\ job' = [job EXCEPT ![s] =
                        [pc |-> "checked", op |-> "complete", id |-> i, prev |-> "none"]]
    BY <1>8 DEF SweepSend
  <2>2. UNCHANGED <<row, lost>>
    BY <1>8 DEF SweepSend
  <2>3. Decided(i) /\ Recorded(i)
    BY <2>1 DEF At, AutoInv, SweepKnows
  <2>4. \A v \in Workers : v # s => job'[v] = job[v]
    BY <1>0, <2>1 DEF TypeInv, TypeOK
  <2>5. job'[s] = [pc |-> "checked", op |-> "complete", id |-> i, prev |-> "none"]
    BY <1>0, <2>1 DEF TypeInv, TypeOK
  <2>6. \A j \in Ids : /\ j # i => paid'[j] = paid[j]
                       /\ paid'[i] <= 1 + lost[i]
                       /\ paid'[j] <= MaxPaid
    BY <1>0, <2>1, <2>3, BumpIs DEF Recorded, AutoInv
  <2>7. ApprovesPending'
    BY <1>a, <2>2, <2>4 DEF AutoInv, ApprovesPending
  <2>8. \A r \in Sweeps : r = s
    BY DEF OneSweep
  <2>9. SweepKnows(s)'
    <3>1. todo'[s] = todo[s] \ {i}
      BY <1>0, <2>1 DEF TypeInv, TypeOK
    <3>2. \A j \in todo'[s] : (Decided(j) /\ Recorded(j))'
      BY <1>a, <2>2, <2>6, <3>1 DEF AutoInv, SweepKnows, Decided, Recorded
    <3> QED BY <2>2, <2>3, <2>5, <3>2 DEF SweepKnows, Decided
  <2>10. ApprovedRecorded'
    <3> SUFFICES ASSUME NEW j \in Ids, row[j].status = "approved",
                        \A r \in Sweeps : ~Sends(r, j)'
                 PROVE  Recorded(j)'
      BY <2>2 DEF ApprovedRecorded
    <3>1. j # i
      BY <2>5 DEF Sends, IdleJob
    <3>2. \A r \in Sweeps : ~Sends(r, j)
      BY <2>1, <2>8 DEF Sends, At
    <3>3. Recorded(j)
      BY <3>2 DEF AutoInv, ApprovedRecorded
    <3> QED BY <2>2, <2>6, <3>1, <3>3 DEF Recorded
  <2>11. PaidAsRecorded'
    <3> SUFFICES ASSUME NEW j \in Ids
                 PROVE  paid'[j] <= IF row[j].status \in {"none", "pending"} THEN 0
                                    ELSE 1 + lost[j]
      BY <2>2 DEF PaidAsRecorded
    <3> QED BY <1>b, <2>3, <2>6 DEF Decided
  <2> QED BY <1>0, <2>6, <2>7, <2>8, <2>9, <2>10, <2>11 DEF AutoInv
<1>9. ASSUME NEW s \in Sweeps, SweepSendError(s) PROVE AutoInv'
  <2>1. PICK i \in Ids : todo' = [todo EXCEPT ![s] = @ \ {i}]
    BY <1>9 DEF SweepSendError
  <2>2. UNCHANGED <<row, job, paid, lost>>
    BY <1>9 DEF SweepSendError
  <2>3. \A r \in Sweeps : todo'[r] \subseteq todo[r]
    BY <1>0, <2>1 DEF TypeInv, TypeOK
  <2>4. \A r \in Sweeps : SweepKnows(r)'
    BY <2>2, <2>3 DEF AutoInv, SweepKnows, Decided, Recorded
  <2> QED
    BY <1>0, <2>2, <2>4
    DEF AutoInv, ApprovesPending, ApprovedRecorded, Recorded, Sends, PaidAsRecorded
<1>10. ASSUME NEW s \in Sweeps, SweepLostReply(s) PROVE AutoInv'
  <2>1. PICK i \in Ids :
          /\ At(s, i)
          /\ paid' = Bump(paid, i)
          /\ lost' = Bump(lost, i)
          /\ todo' = [todo EXCEPT ![s] = @ \ {i}]
    BY <1>10 DEF SweepLostReply
  <2>2. UNCHANGED <<row, job>>
    BY <1>10 DEF SweepLostReply
  <2>3. Decided(i) /\ Recorded(i)
    BY <2>1 DEF At, AutoInv, SweepKnows
  <2>4. \A j \in Ids :
          /\ j # i => paid'[j] = paid[j] /\ lost'[j] = lost[j]
          /\ paid'[i] <= lost'[i] /\ paid'[j] <= MaxPaid
          /\ paid'[j] \in Nat /\ lost'[j] \in Nat
    <3>1. paid[i] <= MaxPaid /\ \A j \in Ids : paid[j] <= MaxPaid
      BY DEF AutoInv
    <3>2. paid' \in [Ids -> Nat] /\ lost' \in [Ids -> Nat]
      BY <1>0 DEF TypeInv, TypeOK
    <3> QED BY <1>0, <2>1, <2>3, <3>1, <3>2, BumpIs DEF Recorded
  <2>5. \A j \in Ids : Recorded(j) => Recorded(j)'
    BY <2>4 DEF Recorded
  <2>6. \A r \in Sweeps : todo'[r] \subseteq todo[r]
    BY <1>0, <2>1 DEF TypeInv, TypeOK
  <2>7. \A r \in Sweeps : SweepKnows(r)'
    BY <1>a, <2>2, <2>5, <2>6 DEF AutoInv, SweepKnows, Decided
  <2>8. ApprovedRecorded' /\ ApprovesPending'
    BY <2>2, <2>5 DEF AutoInv, ApprovedRecorded, ApprovesPending, Sends
  <2>9. PaidAsRecorded'
    <3> SUFFICES ASSUME NEW j \in Ids
                 PROVE  paid'[j] <= IF row[j].status \in {"none", "pending"} THEN 0
                                    ELSE 1 + lost'[j]
      BY <2>2 DEF PaidAsRecorded
    <3>1. CASE j = i
      BY <2>3, <2>4, <3>1 DEF Decided
    <3>2. CASE j # i
      BY <1>b, <2>4, <3>2
    <3> QED BY <3>1, <3>2
  <2> QED BY <1>0, <2>4, <2>7, <2>8, <2>9 DEF AutoInv
<1>11. CASE Crash
  <2>1. /\ job' = [w \in Workers |-> IdleJob]
        /\ todo' = [s \in Sweeps |-> {}]
        /\ UNCHANGED <<row, paid>>
    BY <1>11 DEF Crash
  <2>2. \A i \in Ids : lost'[i] = IF \E s \in Sweeps : job[s] # IdleJob /\ job[s].id = i
                                  THEN Bump(lost, i)[i] ELSE lost[i]
    BY <1>11 DEF Crash
  <2>3. \A i \in Ids : Bump(lost, i)[i] = IF lost[i] < MaxPaid THEN lost[i] + 1 ELSE lost[i]
    BY <1>0, BumpIs
  <2>4. \A i \in Ids : lost[i] <= lost'[i] /\ lost'[i] \in Nat
    BY <1>0, <2>2, <2>3
  <2>5. ApprovesPending' /\ \A s \in Sweeps : SweepKnows(s)'
    BY <2>1 DEF ApprovesPending, SweepKnows, IdleJob
  <2>6. ApprovedRecorded'
    <3> SUFFICES ASSUME NEW i \in Ids, row[i].status = "approved"
                 PROVE  Recorded(i)'
      BY <2>1 DEF ApprovedRecorded
    <3>1. paid[i] <= 1 + lost[i] /\ paid[i] <= MaxPaid
      BY <1>b DEF AutoInv
    <3>2. CASE \E s \in Sweeps : job[s] # IdleJob /\ job[s].id = i
      BY <1>0, <2>1, <2>2, <2>3, <3>1, <3>2 DEF Recorded
    <3>3. CASE ~\E s \in Sweeps : job[s] # IdleJob /\ job[s].id = i
      <4>1. Recorded(i)
        BY <3>3 DEF AutoInv, ApprovedRecorded, Sends
      <4> QED BY <2>1, <2>2, <3>3, <4>1 DEF Recorded
    <3> QED BY <3>2, <3>3
  <2>7. PaidAsRecorded'
    BY <1>0, <1>b, <2>1, <2>4 DEF PaidAsRecorded
  <2> QED BY <1>0, <2>1, <2>5, <2>6, <2>7 DEF AutoInv
<1>12. CASE UNCHANGED <<row, job, todo, paid, lost>>
  BY <1>0, <1>12
  DEF AutoInv, ApprovesPending, SweepKnows, Decided, Recorded, ApprovedRecorded, Sends,
      PaidAsRecorded
<1> QED
  BY <1>1, <1>2, <1>3, <1>4, <1>5, <1>6, <1>7, <1>8, <1>9, <1>10, <1>11, <1>12
  DEF Next, CheckPending, CheckBalance, OtherSpend, vars

\* What leaves the hot wallet is what the rows say, if runs of the cron do not overlap
\* and one admin request is handled at a time: nothing for a row nobody decided on, at
\* most one transfer for any other, and one more for every record that was lost.
THEOREM PaysAsRecorded ==
    ASSUME OneAdmin, OneSweep
    PROVE  Spec => []PaidAsRecorded
<1>1. AutoInv /\ [Next]_vars => AutoInv'
  BY NextAutoInv
<1>2. AutoInv => PaidAsRecorded
  BY DEF AutoInv
<1> QED BY <1>1, <1>2, InitAutoInv, PTL DEF Spec

-----------------------------------------------------------------------------
(* One POST /withdraw per user at a time, whatever the admins and crons do. *)

OneTab == \A s, t \in Tabs : s = t

\* A request past its first check still has no pending row beside it.
RequestsFresh ==
    \A u \in Users, t \in Tabs : req[<<u, t>>].pc # "idle" => ~HasPending(u)

PendingInv == TypeInv /\ RequestsFresh /\ OnePending

LEMMA InitPendingInv == Init => PendingInv
<1> SUFFICES ASSUME Init PROVE PendingInv
  OBVIOUS
<1>1. RequestsFresh /\ OnePending
  BY DEF Init, RequestsFresh, OnePending, IdleReq, NoRow
<1> QED BY <1>1, InitTypeInv DEF PendingInv

\* A step that adds no pending row and starts no request keeps the invariant.
LEMMA PendingFrame ==
    ASSUME PendingInv, TypeInv',
           \A i \in Ids : /\ row'[i].user = row[i].user
                          /\ row'[i].status = "pending" => row[i].status = "pending",
           \A u \in Users, t \in Tabs :
               req'[<<u, t>>].pc # "idle" => req[<<u, t>>].pc # "idle"
    PROVE  PendingInv'
BY DEF PendingInv, RequestsFresh, OnePending, HasPending, RowsOf

LEMMA NextPendingInv ==
    ASSUME OneTab, PendingInv, [Next]_vars
    PROVE  PendingInv'
<1> USE WorkersOf
<1>0. TypeInv /\ TypeInv'
  BY NextTypeInv DEF PendingInv
<1>1. ASSUME NEW u \in Users, NEW t \in Tabs, CheckPending(u, t) PROVE PendingInv'
  <2>1. UNCHANGED row /\ ~HasPending(u)
    BY <1>1 DEF CheckPending
  <2>2. \A v \in Users, s \in Tabs : v # u => req'[<<v, s>>] = req[<<v, s>>]
    BY <1>0, <1>1 DEF CheckPending, TypeInv, TypeOK
  <2>3. RequestsFresh'
    BY <2>1, <2>2 DEF PendingInv, RequestsFresh, HasPending, RowsOf
  <2> QED BY <1>0, <2>1, <2>3 DEF PendingInv, OnePending
<1>2. ASSUME NEW u \in Users, NEW t \in Tabs, CheckBalance(u, t) PROVE PendingInv'
  <2>1. \A v \in Users, s \in Tabs :
           req'[<<v, s>>].pc # "idle" => req[<<v, s>>].pc # "idle"
    BY <1>0, <1>2 DEF CheckBalance, TypeInv, TypeOK
  <2> QED BY <1>0, <1>2, <2>1, PendingFrame DEF CheckBalance
<1>3. ASSUME NEW u \in Users, NEW t \in Tabs, CommitWithdrawal(u, t) PROVE PendingInv'
  <2>1. PICK i \in Ids : row' = [row EXCEPT ![i] =
                        [status |-> "pending", user |-> u, amount |-> req[<<u, t>>].amount]]
    BY <1>3 DEF CommitWithdrawal
  <2>2. /\ req[<<u, t>>].pc = "funded"
        /\ req' = [req EXCEPT ![<<u, t>>] = IdleReq]
    BY <1>3 DEF CommitWithdrawal
  <2>3. ~HasPending(u)
    BY <2>2 DEF PendingInv, RequestsFresh
  <2>4. OnePending'
    BY <1>0, <2>1, <2>3 DEF PendingInv, OnePending, HasPending, RowsOf, TypeInv, TypeOK
  <2>5. ASSUME NEW v \in Users, NEW s \in Tabs, req'[<<v, s>>].pc # "idle"
        PROVE ~HasPending(v)'
    <3>1. s = t
      BY DEF OneTab
    <3>2. v # u
      BY <1>0, <2>2, <2>5, <3>1 DEF IdleReq, TypeInv, TypeOK
    <3>3. ~HasPending(v)
      BY <1>0, <2>2, <2>5, <3>2 DEF PendingInv, RequestsFresh, TypeInv, TypeOK
    <3> QED BY <1>0, <2>1, <3>2, <3>3 DEF HasPending, RowsOf, TypeInv, TypeOK
  <2> QED BY <1>0, <2>4, <2>5 DEF PendingInv, RequestsFresh
<1>4. ASSUME NEW a \in Admins, ApproveWrite(a) PROVE PendingInv'
  <2>1. row' = [row EXCEPT ![job[a].id].status = "approved"] /\ UNCHANGED req
    BY <1>4 DEF ApproveWrite
  <2>2. \A i \in Ids : /\ row'[i].user = row[i].user
                       /\ row'[i].status = "pending" => row[i].status = "pending"
    BY <1>0, <2>1 DEF TypeInv, TypeOK, Row
  <2> QED BY <1>0, <2>1, <2>2, PendingFrame
<1>5. ASSUME NEW w \in Workers, StatusWrite(w) PROVE PendingInv'
  <2>1. PICK st \in {"completed", "failed"} :
          row' = [row EXCEPT ![job[w].id].status = st]
    BY <1>5 DEF StatusWrite, WriteCompleted, WriteFailed
  <2>2. UNCHANGED req
    BY <1>5 DEF StatusWrite
  <2>3. \A i \in Ids : /\ row'[i].user = row[i].user
                       /\ row'[i].status = "pending" => row[i].status = "pending"
    BY <1>0, <2>1 DEF TypeInv, TypeOK, Row
  <2> QED BY <1>0, <2>2, <2>3, PendingFrame
<1>6. CASE Crash
  <2>1. /\ UNCHANGED row
        /\ \A u \in Users, t \in Tabs : req'[<<u, t>>].pc = "idle"
    BY <1>6 DEF Crash, IdleReq
  <2> QED BY <1>0, <2>1, PendingFrame
<1>7. CASE UNCHANGED <<row, req>>
  BY <1>0, <1>7, PendingFrame
<1> QED
  BY <1>1, <1>2, <1>3, <1>4, <1>5, <1>6, <1>7
  DEF Next, AdminCheck, StatusRead, StatusError, SweepStart, SweepSend, SweepSendError,
      SweepLostReply, OtherSpend, vars

\* With one request per user in flight there is at most one pending withdrawal.
THEOREM AtMostOnePending ==
    ASSUME OneTab
    PROVE  Spec => []OnePending
<1>1. PendingInv /\ [Next]_vars => PendingInv'
  BY NextPendingInv
<1>2. PendingInv => OnePending
  BY DEF PendingInv
<1> QED BY <1>1, <1>2, InitPendingInv, PTL DEF Spec
=============================================================================
