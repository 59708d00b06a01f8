------------------------ MODULE ShopPurchasesProofs ------------------------
(***************************************************************************)
(* Theorems about ShopPurchases, for any number of users, keys, requests   *)
(* and faults: what the row lock of a user and the lease of a key give.    *)
(***************************************************************************)
EXTENDS ShopPurchases, TLAPS

Pcs == {"new", "begin", "over"} \cup Working
Rec == [pc : Pcs, reply : Replies]
IdemRow == [phase : {"idle", "lease", "done"}, body : Bodies \cup {NoBody},
            token : Requests \cup {NoRequest}, live : BOOLEAN]

LEMMA RequestTypes ==
    /\ \A p \in Requests : /\ KeyOf[p] \in Keys /\ Owner(p) \in Users
                           /\ Quantity[p] \in Bodies /\ Quantity[p] \in Nat
                           /\ Cost(p) \in Nat
    /\ Price \in Nat /\ Funds \in Nat /\ StockTotal \in Nat /\ MaxPerUser \in Nat
<1>1. Price \in Nat /\ Funds \in Nat /\ StockTotal \in Nat /\ MaxPerUser \in Nat
  BY ShopAssumption
<1>2. \A p \in Requests : /\ KeyOf[p] \in Keys /\ Owner(p) \in Users
                          /\ Quantity[p] \in Bodies /\ Quantity[p] \in Nat
  BY ShopAssumption DEF Owner
<1>3. \A m, n \in Nat : m * n \in Nat
  OBVIOUS
<1> QED BY <1>1, <1>2, <1>3 DEF Cost

\* What a step does to the requests.
LEMMA GotoEffect ==
    ASSUME TypeOK, NEW p \in Requests, NEW pc \in Pcs, Goto(p, pc)
    PROVE  /\ req' \in [Requests -> Rec]
           /\ req'[p].pc = pc
           /\ \A q \in Requests : /\ q # p => req'[q].pc = req[q].pc
                                  /\ req'[q].reply = req[q].reply
<1> DEFINE r == [req[p] EXCEPT !.pc = pc]
<1>1. req \in [Requests -> Rec]
  BY DEF TypeOK, Rec, Pcs
<1>2. r \in Rec /\ r.pc = pc /\ r.reply = req[p].reply
  BY <1>1 DEF Rec
<1>3. req' = [req EXCEPT ![p] = r]
  BY DEF Goto
<1> HIDE DEF r
<1> QED BY <1>1, <1>2, <1>3

LEMMA ReplyEffect ==
    ASSUME TypeOK, NEW p \in Requests, NEW reply \in Replies, Reply(p, reply)
    PROVE  /\ req' \in [Requests -> Rec]
           /\ req'[p].pc = "over" /\ req'[p].reply = reply
           /\ \A q \in Requests : q # p => req'[q] = req[q]
BY DEF TypeOK, Reply, Rec, Pcs

LEMMA AnswerType ==
    ASSUME NEW k, NEW body
    PROVE  Answer(k, body) \in {"lease", "replay", "mismatch", "busy"}
BY DEF Answer

\* What a lease step does to the rows of the keys.
LEMMA LeaseEffect ==
    ASSUME TypeOK, NEW k \in Keys, NEW new \in IdemRow
    PROVE  [idem EXCEPT ![k] = new] \in [Keys -> IdemRow]
BY DEF TypeOK, LeaseTypeOK, IdemRow

LEMMA NoIdemType == NoIdem \in IdemRow
BY DEF NoIdem, IdemRow

-----------------------------------------------------------------------------
(* Types.                                                                  *)

LEMMA StartLeaseTxType ==
    ASSUME TypeOK, NEW p \in Requests, NEW from, NEW to \in Pcs, StartLeaseTx(p, from, to)
    PROVE  /\ TypeOK' /\ UNCHANGED idem /\ UNCHANGED shop /\ req[p].pc = from
           /\ req' \in [Requests -> Rec]
           /\ \A q \in Requests : q # p => req'[q] = req[q]
           /\ \/ req'[p].pc = to /\ req'[p].reply = req[p].reply
              \/ req'[p].pc = "over" /\ req'[p].reply = "error"
<1>1. req \in [Requests -> Rec] /\ req' \in [Requests -> Rec]
      /\ \A q \in Requests : q # p => req'[q].pc = req[q].pc /\ req'[q].reply = req[q].reply
  BY GotoEffect, ReplyEffect DEF StartLeaseTx, Replies, TypeOK, Rec, Pcs
<1>2. \A q \in Requests : q # p => req'[q] = req[q]
  BY <1>1 DEF Rec
<1>3. \/ req'[p].pc = to /\ req'[p].reply = req[p].reply
      \/ req'[p].pc = "over" /\ req'[p].reply = "error"
  BY GotoEffect, ReplyEffect DEF StartLeaseTx, Replies
<1>4. UNCHANGED idem /\ UNCHANGED shop /\ req[p].pc = from
  BY DEF StartLeaseTx, LockKey
<1>5. keyLock' \in [Keys -> Requests \cup {NoRequest}]
  BY RequestTypes DEF StartLeaseTx, LockKey, TypeOK, LeaseTypeOK
<1> QED BY <1>1, <1>2, <1>3, <1>4, <1>5 DEF TypeOK, LeaseTypeOK, shop, Rec, Pcs

LEMMA BeginType ==
    ASSUME TypeOK, NEW p \in Requests, Begin(p)
    PROVE  TypeOK'
<1>1. req' \in [Requests -> Rec]
  BY GotoEffect, ReplyEffect, AnswerType DEF Begin, Replies, Pcs, Working
<1>2. [phase |-> "lease", body |-> Quantity[p], token |-> p, live |-> TRUE] \in IdemRow
  BY RequestTypes DEF IdemRow
<1>3. idem' \in [Keys -> IdemRow] /\ keyLock' \in [Keys -> Requests \cup {NoRequest}]
  BY <1>2, RequestTypes, LeaseEffect DEF Begin, BeginLease, FreeKey, TypeOK, LeaseTypeOK, IdemRow
<1> QED BY <1>1, <1>3 DEF Begin, TypeOK, LeaseTypeOK, shop, Rec, Pcs, IdemRow

LEMMA CommitType ==
    ASSUME TypeOK, NEW p \in Requests, Commit(p)
    PROVE  TypeOK'
<1>1. req' \in [Requests -> Rec]
  BY ReplyEffect DEF Commit, Replies
<1>2. [phase |-> "done", body |-> Quantity[p], token |-> NoRequest, live |-> FALSE] \in IdemRow
  BY RequestTypes DEF IdemRow
<1>3. idem' \in [Keys -> IdemRow] /\ keyLock' \in [Keys -> Requests \cup {NoRequest}]
  BY <1>2, RequestTypes, LeaseEffect DEF Commit, CommitLease, FreeKey, TypeOK, LeaseTypeOK, IdemRow
<1> QED BY <1>1, <1>3 DEF Commit, TypeOK, LeaseTypeOK, shop, Rec, Pcs, IdemRow

LEMMA AbortType ==
    ASSUME TypeOK, NEW p \in Requests, Abort(p)
    PROVE  TypeOK'
<1>1. req' \in [Requests -> Rec]
  BY ReplyEffect DEF Abort, Replies
<1>2. idem' \in [Keys -> IdemRow] /\ keyLock' \in [Keys -> Requests \cup {NoRequest}]
  BY NoIdemType, RequestTypes, LeaseEffect DEF Abort, AbortLease, FreeKey, TypeOK, LeaseTypeOK, IdemRow
<1> QED BY <1>1, <1>2 DEF Abort, TypeOK, LeaseTypeOK, shop, Rec, Pcs, IdemRow

LEMMA TxType ==
    ASSUME TypeOK, NEW p \in Requests, TxRead(p) \/ TxWrite(p)
    PROVE  TypeOK'
<1>1. req' \in [Requests -> Rec]
  BY GotoEffect DEF TxRead, TxWrite, Pcs, Working
<1>2. userLock' \in [Users -> Requests \cup {NoRequest}]
  BY RequestTypes DEF TxRead, TxWrite, TypeOK
<1>3. /\ balance' \in [Users -> Int] /\ owned' \in [Users -> Nat]
      /\ sold' \in Nat /\ paid' \subseteq Requests
  BY RequestTypes DEF TxRead, TxWrite, TypeOK
<1> QED BY <1>1, <1>2, <1>3 DEF TxRead, TxWrite, TypeOK, LeaseTypeOK, Rec, Pcs

LEMMA LapseType ==
    ASSUME TypeOK, NEW k \in Keys, Expire(k) \/ Purge(k)
    PROVE  TypeOK'
<1>1. [idem[k] EXCEPT !.live = FALSE] \in IdemRow
  BY ZenonT(60) DEF TypeOK, LeaseTypeOK, IdemRow
<1>2. idem' \in [Keys -> IdemRow]
  BY <1>1, NoIdemType, LeaseEffect DEF Expire, ExpireLease, Purge, PurgeLease
<1> QED BY <1>2 DEF Expire, ExpireLease, Purge, PurgeLease, TypeOK, LeaseTypeOK, IdemRow

LEMMA CrashType ==
    ASSUME TypeOK, Crash
    PROVE  TypeOK'
BY DEF Crash, InFlight, TypeOK, LeaseTypeOK, Replies

LEMMA InitType == Init => TypeOK
BY ShopAssumption DEF Init, LeaseInit, NoIdem, TypeOK, LeaseTypeOK, Replies

LEMMA NextType == TypeOK /\ [Next]_vars => TypeOK'
<1> SUFFICES ASSUME TypeOK, [Next]_vars PROVE TypeOK'
  OBVIOUS
<1>1. ASSUME NEW p \in Requests, Receive(p) \/ StartCommit(p) \/ StartAbort(p) PROVE TypeOK'
  BY <1>1, StartLeaseTxType DEF Receive, StartCommit, StartAbort, Pcs, Working
<1>2. ASSUME NEW p \in Requests, Check(p) PROVE TypeOK'
  <2>1. req' \in [Requests -> Rec]
    BY <1>2, GotoEffect DEF Check, Pcs, Working
  <2> QED BY <1>2, <2>1 DEF Check, shop, TypeOK, LeaseTypeOK, Rec, Pcs
<1>3. CASE UNCHANGED vars
  BY <1>3 DEF vars, shop, TypeOK, LeaseTypeOK
<1> QED
  BY <1>1, <1>2, <1>3, BeginType, CommitType, AbortType, TxType, LapseType, CrashType DEF Next

\* Every variable keeps its type: the record of a request and the row of a key follow
\* the states of purchaseMiner and of the idempotency service.
THEOREM Typing == Spec => []TypeOK
BY InitType, NextType, PTL DEF Spec

-----------------------------------------------------------------------------
(* Limits of a user.                                                       *)

\* A transaction that has read has the user's rows to itself, so that what it read of
\* them still holds when it writes.
WritersHold ==
    \A p \in Requests : req[p].pc = "writing" =>
        /\ userLock[Owner(p)] = p
        /\ balance[Owner(p)] >= Cost(p)
        /\ owned[Owner(p)] + Quantity[p] <= MaxPerUser

LimitsInv == TypeOK /\ WritersHold /\ UserLimitsHold

LEMMA WritersHoldStep ==
    ASSUME LimitsInv, NEW p \in Requests, TxWrite(p)
    PROVE  LimitsInv'
<1> DEFINE u == Owner(p)
<1>0. TypeOK' /\ TypeOK
  BY TxType DEF LimitsInv
<1>1. /\ \A q \in Requests : q # p => req'[q].pc = req[q].pc
      /\ req'[p].pc # "writing"
  BY <1>0, GotoEffect DEF TxWrite, Pcs, Working
<1>2. /\ u \in Users /\ userLock[u] = p /\ balance[u] >= Cost(p)
      /\ owned[u] + Quantity[p] <= MaxPerUser
      /\ Cost(p) \in Nat /\ Quantity[p] \in Nat
  BY RequestTypes DEF TxWrite, LimitsInv, WritersHold
<1>3. \A q \in Requests : (q # p /\ req[q].pc = "writing") => Owner(q) # u
  BY <1>2 DEF LimitsInv, WritersHold
<1>4. \A v \in Users : v # u => /\ userLock'[v] = userLock[v]
                               /\ balance'[v] = balance[v] /\ owned'[v] = owned[v]
  BY <1>0 DEF TxWrite, TypeOK
<1>5. WritersHold'
  BY <1>1, <1>3, <1>4, RequestTypes DEF LimitsInv, WritersHold, Owner, Cost
<1>6. balance'[u] >= 0 /\ owned'[u] <= MaxPerUser
  BY <1>0, <1>2 DEF TxWrite, TypeOK, LimitsInv, UserLimitsHold
<1>7. UserLimitsHold'
  BY <1>4, <1>6 DEF LimitsInv, UserLimitsHold
<1> QED BY <1>0, <1>5, <1>7 DEF LimitsInv

LEMMA TxReadHolds ==
    ASSUME LimitsInv, NEW p \in Requests, TxRead(p)
    PROVE  LimitsInv'
<1>0. TypeOK' /\ TypeOK
  BY TxType DEF LimitsInv
<1>1. \A q \in Requests : q # p => req'[q].pc = req[q].pc
  BY <1>0, GotoEffect DEF TxRead, Pcs, Working
<1>2. CASE UserFree(Owner(p)) /\ Allowed(p)
  <2>1. \A q \in Requests : req[q].pc = "writing" => Owner(q) # Owner(p)
    BY <1>2, RequestTypes, LeaseAssumption DEF UserFree, LimitsInv, WritersHold
  <2>2. \A v \in Users : userLock'[v] = IF v = Owner(p) THEN p ELSE userLock[v]
    BY <1>0, <1>2 DEF TxRead, TypeOK
  <2>3. balance' = balance /\ owned' = owned
    BY DEF TxRead
  <2> QED BY <1>0, <1>1, <1>2, <2>1, <2>2, <2>3, RequestTypes
          DEF Allowed, LimitsInv, WritersHold, UserLimitsHold, Owner, Cost
<1>3. CASE ~(UserFree(Owner(p)) /\ Allowed(p))
  <2>1. req'[p].pc # "writing" /\ UNCHANGED <<userLock, balance, owned>>
    BY <1>0, <1>3, GotoEffect DEF TxRead, Pcs, Working
  <2> QED BY <1>0, <1>1, <2>1 DEF LimitsInv, WritersHold, UserLimitsHold, Owner, Cost
<1> QED BY <1>2, <1>3

LEMMA NextLimits == LimitsInv /\ [Next]_vars => LimitsInv'
<1> SUFFICES ASSUME LimitsInv, [Next]_vars PROVE LimitsInv'
  OBVIOUS
<1>0. TypeOK' /\ TypeOK
  BY NextType DEF LimitsInv
\* Steps that write nothing of the user and start no write.
<1>1. ASSUME UNCHANGED <<userLock, balance, owned>>,
             \A q \in Requests : req'[q].pc = "writing" => req[q].pc = "writing"
      PROVE  LimitsInv'
  BY <1>0, <1>1 DEF LimitsInv, WritersHold, UserLimitsHold, Owner, Cost
<1>2. ASSUME NEW p \in Requests, Receive(p) \/ StartCommit(p) \/ StartAbort(p)
      PROVE  LimitsInv'
  <2>1. UNCHANGED shop /\ \A q \in Requests : req'[q].pc = "writing" => req[q].pc = "writing"
    BY <1>0, <1>2, StartLeaseTxType DEF Receive, StartCommit, StartAbort, Pcs, Working
  <2> QED BY <1>1, <2>1 DEF shop
<1>3. ASSUME NEW p \in Requests, Begin(p) \/ Check(p) \/ Commit(p) \/ Abort(p)
      PROVE  LimitsInv'
  <2>1. UNCHANGED shop /\ \A q \in Requests : req'[q].pc = "writing" => req[q].pc = "writing"
    BY <1>0, <1>3, GotoEffect, ReplyEffect, AnswerType
    DEF Begin, Check, Commit, Abort, Pcs, Working, Replies
  <2> QED BY <1>1, <2>1 DEF shop
<1>4. ASSUME NEW k \in Keys, Expire(k) \/ Purge(k) PROVE LimitsInv'
  BY <1>1, <1>4 DEF Expire, Purge
<1>5. CASE Crash
  <2>1. \A q \in Requests : req'[q].pc # "writing"
    BY <1>5 DEF Crash, InFlight
  <2> QED BY <1>0, <1>5, <2>1 DEF Crash, LimitsInv, WritersHold, UserLimitsHold
<1>6. CASE UNCHANGED vars
  BY <1>1, <1>6 DEF vars, shop
<1> QED
  BY <1>2, <1>3, <1>4, <1>5, <1>6, TxReadHolds, WritersHoldStep DEF Next

\* Purchases of one user under different keys, whatever fails among them, neither
\* overdraw the balance nor pass the limit per user: their transactions take turns.
THEOREM UserLimits == Spec => []UserLimitsHold
<1>1. Init => LimitsInv
  <2>1. Init => TypeOK
    BY InitType
  <2> QED BY <2>1, RequestTypes DEF Init, LimitsInv, WritersHold, UserLimitsHold
<1>2. LimitsInv => UserLimitsHold
  BY DEF LimitsInv
<1> QED BY <1>1, <1>2, NextLimits, PTL DEF Spec

-----------------------------------------------------------------------------
(* Replays, and keys that are not charged again.                           *)

\* A stored answer is that of a charged purchase: a lease is committed only by a
\* request whose purchase was.
AnswersPaid ==
    /\ \A p \in Requests : req[p].pc \in {"commit", "committing"} => p \in paid
    /\ \A k \in Keys : idem[k].phase = "done" =>
          \E q \in PaidUnder(k) : Quantity[q] = idem[k].body

\* Of a key that has not lapsed, the lease is that of the only request at work, and no
\* request is once one was answered ok.
LeaseHeld ==
    \A p \in Requests : KeyOf[p] \notin lapsed =>
        /\ req[p].pc \in Working => /\ idem[KeyOf[p]].phase = "lease"
                                   /\ idem[KeyOf[p]].live
                                   /\ idem[KeyOf[p]].token = p
        /\ req[p].reply = "ok" => idem[KeyOf[p]].phase = "done"

LeaseInv == TypeOK /\ AnswersPaid /\ ReplayIsTrue /\ LeaseHeld

\* Steps that leave the rows of the keys, move no request into work and answer neither
\* a replay nor ok.
LEMMA LeaseFrame ==
    ASSUME LeaseInv, TypeOK', UNCHANGED idem, paid \subseteq paid', lapsed \subseteq lapsed',
           \A p \in Requests :
              /\ req'[p].pc \in Working => req[p].pc \in Working
              /\ req'[p].pc \in {"commit", "committing"} =>
                    req[p].pc \in {"commit", "committing"} \/ p \in paid'
              /\ req'[p].reply \in {"replay", "ok"} => req'[p].reply = req[p].reply
    PROVE  LeaseInv'
<1>1. AnswersPaid'
  BY DEF LeaseInv, AnswersPaid, PaidUnder
<1>2. ReplayIsTrue'
  BY DEF LeaseInv, ReplayIsTrue, PaidUnder
<1>3. LeaseHeld'
  BY RequestTypes DEF LeaseInv, LeaseHeld
<1> QED BY <1>1, <1>2, <1>3 DEF LeaseInv

LEMMA BeginLeaseInv ==
    ASSUME LeaseInv, NEW p \in Requests, Begin(p)
    PROVE  LeaseInv'
<1> DEFINE k == KeyOf[p]
           answer == Answer(k, Quantity[p])
<1>0. TypeOK /\ TypeOK' /\ k \in Keys /\ UNCHANGED shop
  BY BeginType, RequestTypes DEF LeaseInv, Begin
<1>1. CASE answer = "lease"
  <2>1. /\ req'[p].pc = "leased" /\ req'[p].reply = req[p].reply /\ req[p].pc = "begin"
        /\ \A q \in Requests : /\ q # p => req'[q].pc = req[q].pc
                               /\ req'[q].reply = req[q].reply
    BY <1>0, <1>1, GotoEffect DEF Begin, Pcs, Working
  <2>2. /\ idem'[k].phase = "lease" /\ idem'[k].live /\ idem'[k].token = p
        /\ \A l \in Keys : l # k => idem'[l] = idem[l]
    BY <1>0, <1>1 DEF Begin, BeginLease, TypeOK, LeaseTypeOK
  <2>3. idem[k].phase # "done" /\ ~(idem[k].phase = "lease" /\ idem[k].live)
    BY <1>0, <1>1 DEF Answer, TypeOK, LeaseTypeOK
  <2>4. AnswersPaid'
    BY <1>0, <2>1, <2>2 DEF shop, LeaseInv, AnswersPaid, PaidUnder
  <2>5. ReplayIsTrue'
    BY <1>0, <2>1 DEF shop, LeaseInv, ReplayIsTrue, PaidUnder
  <2>6. ASSUME NEW q \in Requests, KeyOf[q] \notin lapsed'
        PROVE  /\ req'[q].pc \in Working => /\ idem'[KeyOf[q]].phase = "lease"
                                             /\ idem'[KeyOf[q]].live
                                             /\ idem'[KeyOf[q]].token = q
               /\ req'[q].reply = "ok" => idem'[KeyOf[q]].phase = "done"
    <3>1. KeyOf[q] \in Keys /\ KeyOf[q] \notin lapsed
      BY <1>0, <2>6, RequestTypes DEF shop
    <3>2. CASE q = p
      BY <2>1, <2>2, <2>3, <3>1, <3>2 DEF LeaseInv, LeaseHeld
    <3>3. CASE q # p /\ KeyOf[q] = k
      BY <2>1, <2>3, <3>1, <3>3 DEF LeaseInv, LeaseHeld
    <3>4. CASE q # p /\ KeyOf[q] # k
      BY <2>1, <2>2, <3>1, <3>4 DEF LeaseInv, LeaseHeld
    <3> QED BY <3>2, <3>3, <3>4
  <2> QED BY <1>0, <2>4, <2>5, <2>6 DEF LeaseInv, LeaseHeld
<1>2. CASE answer # "lease"
  <2>1. /\ req'[p].pc = "over" /\ req'[p].reply = answer
        /\ \A q \in Requests : q # p => req'[q] = req[q]
        /\ answer \in {"replay", "mismatch", "busy"}
    BY <1>0, <1>2, ReplyEffect, AnswerType DEF Begin, Replies
  <2>2. UNCHANGED idem
    BY <1>2 DEF Begin, BeginLease
  <2>3. AnswersPaid'
    BY <1>0, <2>1, <2>2 DEF shop, LeaseInv, AnswersPaid, PaidUnder
  <2>4. answer = "replay" => idem[k].phase = "done" /\ idem[k].body = Quantity[p]
    BY DEF Answer
  <2>5. answer = "replay" => \E q \in PaidUnder(k) : Quantity[q] = Quantity[p]
    BY <1>0, <2>4 DEF LeaseInv, AnswersPaid
  <2>6. ReplayIsTrue'
    BY <1>0, <2>1, <2>5 DEF shop, LeaseInv, ReplayIsTrue, PaidUnder
  <2>7. LeaseHeld'
    BY <1>0, <2>1, <2>2 DEF shop, LeaseInv, LeaseHeld, Working
  <2> QED BY <1>0, <2>3, <2>6, <2>7 DEF LeaseInv
<1> QED BY <1>1, <1>2

LEMMA CommitLeaseInv ==
    ASSUME LeaseInv, NEW p \in Requests, Commit(p)
    PROVE  LeaseInv'
<1> DEFINE k == KeyOf[p]
<1>0. TypeOK /\ TypeOK' /\ k \in Keys /\ UNCHANGED shop /\ p \in PaidUnder(k)
  BY CommitType, RequestTypes DEF LeaseInv, AnswersPaid, PaidUnder, Commit
<1>1. /\ req'[p].pc = "over" /\ req'[p].reply = "ok" /\ req[p].pc = "committing"
      /\ \A q \in Requests : q # p => req'[q] = req[q]
  BY <1>0, ReplyEffect DEF Commit, Replies
<1>2. \A l \in Keys : l # k => idem'[l] = idem[l]
  BY <1>0 DEF Commit, CommitLease, TypeOK, LeaseTypeOK
<1>3. /\ idem[k].token = p => idem'[k].phase = "done" /\ idem'[k].body = Quantity[p]
      /\ idem[k].token # p => idem'[k] = idem[k]
  BY <1>0 DEF Commit, CommitLease, TypeOK, LeaseTypeOK
<1>4. AnswersPaid'
  BY <1>0, <1>1, <1>2, <1>3 DEF shop, LeaseInv, AnswersPaid, PaidUnder
<1>5. ReplayIsTrue'
  BY <1>0, <1>1 DEF shop, LeaseInv, ReplayIsTrue, PaidUnder
<1>6. ASSUME NEW q \in Requests, KeyOf[q] \notin lapsed'
      PROVE  /\ req'[q].pc \in Working => /\ idem'[KeyOf[q]].phase = "lease"
                                           /\ idem'[KeyOf[q]].live
                                           /\ idem'[KeyOf[q]].token = q
             /\ req'[q].reply = "ok" => idem'[KeyOf[q]].phase = "done"
  <2>1. KeyOf[q] \in Keys /\ KeyOf[q] \notin lapsed
    BY <1>0, <1>6, RequestTypes DEF shop
  <2>2. CASE KeyOf[q] = k
    <3>1. idem[k].token = p /\ idem[k].phase = "lease"
      BY <1>1, <2>1, <2>2 DEF LeaseInv, LeaseHeld, Working
    <3>2. q # p => req[q].pc \notin Working /\ req[q].reply # "ok"
      BY <2>1, <2>2, <3>1 DEF LeaseInv, LeaseHeld
    <3> QED BY <1>1, <1>3, <2>2, <3>1, <3>2 DEF Working
  <2>3. CASE KeyOf[q] # k
    BY <1>1, <1>2, <2>1, <2>3 DEF LeaseInv, LeaseHeld
  <2> QED BY <2>2, <2>3
<1> QED BY <1>0, <1>4, <1>5, <1>6 DEF LeaseInv, LeaseHeld

LEMMA AbortLeaseInv ==
    ASSUME LeaseInv, NEW p \in Requests, Abort(p)
    PROVE  LeaseInv'
<1> DEFINE k == KeyOf[p]
<1>0. TypeOK /\ TypeOK' /\ k \in Keys /\ UNCHANGED shop
  BY AbortType, RequestTypes DEF LeaseInv, Abort
<1>1. /\ req'[p].pc = "over" /\ req'[p].reply = "refused" /\ req[p].pc = "aborting"
      /\ \A q \in Requests : q # p => req'[q] = req[q]
  BY <1>0, ReplyEffect DEF Abort, Replies
<1>2. \A l \in Keys : l # k => idem'[l] = idem[l]
  BY <1>0 DEF Abort, AbortLease, TypeOK, LeaseTypeOK
<1>3. /\ idem[k].token = p => idem'[k].phase = "idle"
      /\ idem[k].token # p => idem'[k] = idem[k]
  BY <1>0 DEF Abort, AbortLease, NoIdem, TypeOK, LeaseTypeOK
<1>4. AnswersPaid'
  BY <1>0, <1>1, <1>2, <1>3 DEF shop, LeaseInv, AnswersPaid, PaidUnder
<1>5. ReplayIsTrue'
  BY <1>0, <1>1 DEF shop, LeaseInv, ReplayIsTrue, PaidUnder
<1>6. ASSUME NEW q \in Requests, KeyOf[q] \notin lapsed'
      PROVE  /\ req'[q].pc \in Working => /\ idem'[KeyOf[q]].phase = "lease"
                                           /\ idem'[KeyOf[q]].live
                                           /\ idem'[KeyOf[q]].token = q
             /\ req'[q].reply = "ok" => idem'[KeyOf[q]].phase = "done"
  <2>1. KeyOf[q] \in Keys /\ KeyOf[q] \notin lapsed
    BY <1>0, <1>6, RequestTypes DEF shop
  <2>2. CASE KeyOf[q] = k
    <3>1. idem[k].token = p /\ idem[k].phase = "lease"
      BY <1>1, <2>1, <2>2 DEF LeaseInv, LeaseHeld, Working
    <3>2. q # p => req[q].pc \notin Working /\ req[q].reply # "ok"
      BY <2>1, <2>2, <3>1 DEF LeaseInv, LeaseHeld
    <3> QED BY <1>1, <2>2, <3>1, <3>2 DEF Working
  <2>3. CASE KeyOf[q] # k
    BY <1>1, <1>2, <2>1, <2>3 DEF LeaseInv, LeaseHeld
  <2> QED BY <2>2, <2>3
<1> QED BY <1>0, <1>4, <1>5, <1>6 DEF LeaseInv, LeaseHeld

\* A lease ends before its request, or its key lapses.
LEMMA LapseLeaseInv ==
    ASSUME LeaseInv, NEW k \in Keys, Expire(k) \/ Purge(k)
    PROVE  LeaseInv'
<1>0. TypeOK /\ TypeOK' /\ UNCHANGED <<req, paid>> /\ lapsed \subseteq lapsed'
  BY LapseType DEF LeaseInv, Expire, Purge
<1>1. \A l \in Keys : l # k => idem'[l] = idem[l]
  BY <1>0 DEF Expire, ExpireLease, Purge, PurgeLease, TypeOK, LeaseTypeOK
<1>2. idem'[k].phase # "done"
  BY <1>0 DEF Expire, ExpireLease, Purge, PurgeLease, NoIdem, TypeOK, LeaseTypeOK
<1>3. AnswersPaid'
  BY <1>0, <1>1, <1>2 DEF LeaseInv, AnswersPaid, PaidUnder
<1>4. ReplayIsTrue'
  BY <1>0 DEF LeaseInv, ReplayIsTrue, PaidUnder
<1>5. ASSUME NEW q \in Requests, KeyOf[q] = k, k \notin lapsed'
      PROVE  req[q].pc \notin Working /\ req[q].reply # "ok"
  <2>1. Expire(k) /\ ~InUse(k) /\ k \notin lapsed
    BY <1>0, <1>5 DEF Expire, Purge
  <2>2. idem[k].phase = "lease"
    BY <2>1 DEF Expire, ExpireLease
  <2>3. req[q].pc \in Working => idem[k].token = q /\ req[q].pc # "over"
    BY <1>5, <2>1 DEF LeaseInv, LeaseHeld, Working
  <2> QED BY <1>5, <2>1, <2>2, <2>3 DEF InUse, LeaseInv, LeaseHeld
<1>6. LeaseHeld'
  BY <1>0, <1>1, <1>5, RequestTypes DEF LeaseInv, LeaseHeld
<1> QED BY <1>0, <1>3, <1>4, <1>6 DEF LeaseInv

LEMMA NextLease == LeaseInv /\ [Next]_vars => LeaseInv'
<1> SUFFICES ASSUME LeaseInv, [Next]_vars PROVE LeaseInv'
  OBVIOUS
<1>0. TypeOK' /\ TypeOK
  BY NextType DEF LeaseInv
<1>1. ASSUME NEW p \in Requests, Receive(p) \/ StartCommit(p) \/ StartAbort(p)
      PROVE  LeaseInv'
  <2>1. PICK from \in Pcs, to \in Pcs :
           /\ StartLeaseTx(p, from, to)
           /\ <<from, to>> \in {<<"new", "begin">>, <<"commit", "committing">>,
                               <<"abort", "aborting">>}
    BY <1>1 DEF Receive, StartCommit, StartAbort, Pcs, Working
  <2>2. /\ UNCHANGED idem /\ UNCHANGED shop /\ req[p].pc = from
        /\ \A q \in Requests : q # p => req'[q] = req[q]
        /\ \/ req'[p].pc = to /\ req'[p].reply = req[p].reply
           \/ req'[p].pc = "over" /\ req'[p].reply = "error"
    BY <1>0, <2>1, StartLeaseTxType
  <2> QED BY <1>0, <2>1, <2>2, LeaseFrame DEF shop, Working
<1>2. ASSUME NEW p \in Requests, Check(p) \/ TxRead(p) \/ TxWrite(p) PROVE LeaseInv'
  <2>1. PICK to \in {"checked", "writing", "commit", "abort"} : Goto(p, to)
    BY <1>2 DEF Check, TxRead, TxWrite
  <2>2. /\ req'[p].pc = to
        /\ \A q \in Requests : q # p => req'[q].pc = req[q].pc
        /\ \A q \in Requests : req'[q].reply = req[q].reply
    BY <1>0, <2>1, GotoEffect DEF Pcs, Working
  <2>3. /\ req[p].pc \in Working /\ UNCHANGED <<idem, lapsed>> /\ paid \subseteq paid'
        /\ to = "commit" => p \in paid'
    BY <1>0, <1>2, <2>2, GotoEffect DEF Check, TxRead, TxWrite, shop, Working, Pcs
  <2> QED BY <1>0, <2>1, <2>2, <2>3, LeaseFrame
<1>3. CASE Crash
  <2>1. \A p \in Requests : req'[p] = req[p] \/ req'[p] = [pc |-> "over", reply |-> "lost"]
    BY <1>3 DEF Crash
  <2> QED BY <1>0, <1>3, <2>1, LeaseFrame DEF Crash, Working
<1>4. CASE UNCHANGED vars
  BY <1>0, <1>4, LeaseFrame DEF vars, shop
<1> QED
  BY <1>1, <1>2, <1>3, <1>4, BeginLeaseInv, CommitLeaseInv, AbortLeaseInv, LapseLeaseInv
  DEF Next

LEMMA InitLease == Init => LeaseInv
BY InitType, RequestTypes
DEF Init, LeaseInit, NoIdem, LeaseInv, AnswersPaid, ReplayIsTrue, LeaseHeld, Working

\* A request is answered as a replay only if a purchase of its quantity was charged
\* under its key, whatever leases expired or rows were purged in between.
THEOREM TrueReplays == Spec => []ReplayIsTrue
<1>1. LeaseInv => ReplayIsTrue
  BY DEF LeaseInv
<1> QED BY <1>1, InitLease, NextLease, PTL DEF Spec

\* After an answer ok the key is not charged again, unless its lease ran out under a
\* request or its row was purged.
THEOREM ChargedKeyRests == Spec => NoChargeAfterOk
<1>1. ASSUME LeaseInv, [Next]_vars
      PROVE  [\A p \in Requests :
                (req[p].reply = "ok" /\ KeyOf[p] \notin lapsed) =>
                    PaidUnder(KeyOf[p])' = PaidUnder(KeyOf[p])]_vars
  <2> SUFFICES ASSUME NEW p \in Requests, req[p].reply = "ok", KeyOf[p] \notin lapsed
               PROVE  PaidUnder(KeyOf[p])' = PaidUnder(KeyOf[p])
    OBVIOUS
  <2>1. CASE UNCHANGED paid
    BY <2>1 DEF PaidUnder
  <2>2. ASSUME NEW q \in Requests, TxWrite(q)
        PROVE  PaidUnder(KeyOf[p])' = PaidUnder(KeyOf[p])
    <3>1. idem[KeyOf[p]].phase = "done"
      BY <1>1 DEF LeaseInv, LeaseHeld
    <3>2. KeyOf[q] \notin lapsed => idem[KeyOf[q]].phase = "lease"
      BY <1>1, <2>2 DEF TxWrite, LeaseInv, LeaseHeld, Working
    <3>3. KeyOf[q] # KeyOf[p]
      BY <3>1, <3>2
    <3> QED BY <2>2, <3>3 DEF TxWrite, PaidUnder
  <2>3. UNCHANGED paid \/ \E q \in Requests : TxWrite(q)
    BY <1>1 DEF Next, vars, shop, Receive, StartLeaseTx, Begin, Check, TxRead, StartCommit,
       Commit, StartAbort, Abort, Expire, Purge, Crash
  <2> QED BY <2>1, <2>2, <2>3
<1> QED BY <1>1, InitLease, NextLease, PTL DEF Spec, NoChargeAfterOk
=============================================================================
