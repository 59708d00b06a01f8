---------------------------- MODULE ShopPurchases ----------------------------
(***************************************************************************)
(* Miners bought in the shop under an idempotency key.                     *)
(*   server/controllers/shopController.ts    purchaseMiner                 *)
(*   server/services/userOwnedMachineService.ts    the machines created    *)
(*   server/utils/transactionLocks.ts        the user row lock             *)
(* A client may send the request of a key again while the first is at work *)
(* or after it; requests of other keys and users run at the same time.     *)
(***************************************************************************)
EXTENDS IdempotencyLease, FiniteSetsExt

CONSTANTS
    Users,
    KeyOf,      \* [Requests -> Keys]
    UserOf,     \* [Keys -> Users]
    Quantity,   \* [Requests -> Bodies]  the body of the request
    Price, Funds, StockTotal, MaxPerUser,
    DbErrors,   \* a transaction may fail
    MayStall,   \* a request may outlive its lease of 120 s
    MayPurge,   \* keys may be used again after 72 hours
    MayCrash    \* the server process may stop and start again

ASSUME ShopAssumption ==
    /\ KeyOf \in [Requests -> Keys] /\ UserOf \in [Keys -> Users]
    /\ Bodies \subseteq Nat \ {0} /\ Quantity \in [Requests -> Bodies]
    /\ {Price, Funds, StockTotal, MaxPerUser} \subseteq Nat
    /\ {DbErrors, MayStall, MayPurge, MayCrash} \subseteq BOOLEAN

VARIABLES
    req,        \* [Requests -> purchaseMiner in flight and its answer]
    userLock,   \* [Users -> the request in a transaction on the user, or NoRequest]
    balance,    \* [Users -> Int]  users.pol_balance
    owned,      \* [Users -> Nat]  user_owned_machines of this miner
    sold,       \* miners.stock_sold
    paid,       \* the requests whose purchase was committed
    lapsed      \* history: keys forgotten after 72 hours or under their request

shop == <<userLock, balance, owned, sold, paid, lapsed>>
vars == <<idem, keyLock, req, shop>>

Owner(p) == UserOf[KeyOf[p]]
Cost(p)  == Price * Quantity[p]

Working == {"leased", "checked", "writing", "commit", "committing", "abort", "aborting"}
Replies == {"none", "ok", "replay", "mismatch", "busy", "refused", "error", "lost"}

TypeOK ==
    /\ LeaseTypeOK
    /\ req \in [Requests -> [pc : {"new", "begin", "over"} \cup Working, reply : Replies]]
    /\ userLock \in [Users -> Requests \cup {NoRequest}]
    /\ balance \in [Users -> Int] /\ owned \in [Users -> Nat] /\ sold \in Nat
    /\ paid \subseteq Requests /\ lapsed \subseteq Keys

Init ==
    /\ LeaseInit
    /\ req = [p \in Requests |-> [pc |-> "new", reply |-> "none"]]
    /\ userLock = [u \in Users |-> NoRequest]
    /\ balance = [u \in Users |-> Funds]
    /\ owned = [u \in Users |-> 0]
    /\ sold = 0
    /\ paid = {} /\ lapsed = {}

-----------------------------------------------------------------------------
Goto(p, pc)     == req' = [req EXCEPT ![p].pc = pc]
Reply(p, reply) == req' = [req EXCEPT ![p] = [pc |-> "over", reply |-> reply]]

\* A transaction of the lease service starts, or throws because one is running.  Nothing
\* catches it: the answer is an error, and a lease the request holds stays.
StartLeaseTx(p, from, to) ==
    /\ req[p].pc = from
    /\ \/ LockKey(KeyOf[p], p) /\ Goto(p, to)
       \/ /\ KeyBusy(KeyOf[p]) \/ DbErrors
          /\ Reply(p, "error")
          /\ UNCHANGED <<idem, keyLock>>
    /\ UNCHANGED shop

Receive(p)     == StartLeaseTx(p, "new", "begin")
StartCommit(p) == StartLeaseTx(p, "commit", "committing")
StartAbort(p)  == StartLeaseTx(p, "abort", "aborting")

Begin(p) ==
    /\ req[p].pc = "begin"
    /\ LET answer == Answer(KeyOf[p], Quantity[p])
       IN  IF answer = "lease" THEN Goto(p, "leased") ELSE Reply(p, answer)
    /\ BeginLease(KeyOf[p], p, Quantity[p])
    /\ UNCHANGED shop

\* An admin may take the miner off the shop, or put it back, at any time.
Check(p) ==
    /\ req[p].pc = "leased"
    /\ \E found \in BOOLEAN : Goto(p, IF found THEN "checked" ELSE "abort")
    /\ UNCHANGED <<idem, keyLock, shop>>

\* Two transactions of one user that may run together.
UserFreeAlways(u) == TRUE
\* advisoryXactTryLockOrThrow on the user, then FOR UPDATE on the user's row.
UserFree(u) == userLock[u] = NoRequest

Allowed(p) ==
    /\ sold + Quantity[p] <= StockTotal
    /\ owned[Owner(p)] + Quantity[p] <= MaxPerUser
    /\ balance[Owner(p)] >= Cost(p)

\* The transaction's reads.  The user's rows are locked; the miner's is not.
TxRead(p) ==
    /\ req[p].pc = "checked"
    /\ IF UserFree(Owner(p)) /\ Allowed(p)
         THEN /\ userLock' = [userLock EXCEPT ![Owner(p)] = p]
              /\ Goto(p, "writing")
         ELSE UNCHANGED userLock /\ Goto(p, "abort")
    /\ UNCHANGED <<idem, keyLock, balance, owned, sold, paid, lapsed>>

\* Its updates, which add to what the rows then hold, and its commit.
TxWrite(p) ==
    LET u == Owner(p) IN
    /\ req[p].pc = "writing"
    /\ \/ /\ balance' = [balance EXCEPT ![u] = @ - Cost(p)]
          /\ owned' = [owned EXCEPT ![u] = @ + Quantity[p]]
          /\ sold' = sold + Quantity[p]
          /\ paid' = paid \cup {p}
          /\ Goto(p, "commit")
       \/ DbErrors /\ Goto(p, "abort") /\ UNCHANGED <<balance, owned, sold, paid>>
    /\ userLock' = [userLock EXCEPT ![u] = NoRequest]
    /\ UNCHANGED <<idem, keyLock, lapsed>>

Commit(p) ==
    /\ req[p].pc = "committing"
    /\ CommitLease(KeyOf[p], p, Quantity[p])
    /\ Reply(p, "ok")
    /\ UNCHANGED shop

Abort(p) ==
    /\ req[p].pc = "aborting"
    /\ AbortLease(KeyOf[p], p)
    /\ Reply(p, "refused")
    /\ UNCHANGED shop

-----------------------------------------------------------------------------
\* A request is at work under the lease of k, or a transaction is looking at it.
InUse(k) == KeyBusy(k) \/ \E p \in Requests : idem[k].token = p /\ req[p].pc # "over"

\* A lease outlives its request, and a transaction that looks at it, unless they stall.
Expire(k) ==
    /\ MayStall \/ ~InUse(k)
    /\ ExpireLease(k)
    /\ lapsed' = IF InUse(k) THEN lapsed \cup {k} ELSE lapsed
    /\ UNCHANGED <<req, userLock, balance, owned, sold, paid>>

Purge(k) ==
    /\ MayPurge
    /\ PurgeLease(k)
    /\ lapsed' = lapsed \cup {k}
    /\ UNCHANGED <<req, userLock, balance, owned, sold, paid>>

InFlight == {p \in Requests : req[p].pc \notin {"new", "over"}}

\* Open transactions roll back and free their locks; leases stay.
Crash ==
    /\ MayCrash /\ InFlight # {}
    /\ req' = [p \in Requests |->
                  IF p \in InFlight THEN [pc |-> "over", reply |-> "lost"] ELSE req[p]]
    /\ keyLock' = [k \in Keys |-> NoRequest]
    /\ userLock' = [u \in Users |-> NoRequest]
    /\ UNCHANGED <<idem, balance, owned, sold, paid, lapsed>>

Next ==
    \/ \E p \in Requests :
          \/ Receive(p) \/ Begin(p) \/ Check(p) \/ TxRead(p) \/ TxWrite(p)
          \/ StartCommit(p) \/ Commit(p) \/ StartAbort(p) \/ Abort(p)
    \/ \E k \in Keys : Expire(k) \/ Purge(k)
    \/ Crash

Spec == Init /\ [][Next]_vars

-----------------------------------------------------------------------------
(* Properties.                                                             *)

PaidUnder(k) == {p \in paid : KeyOf[p] = k}

\* A replay reports a purchase that was charged, of the quantity asked for.
ReplayIsTrue ==
    \A p \in Requests : req[p].reply = "replay" =>
        \E q \in PaidUnder(KeyOf[p]) : Quantity[q] = Quantity[p]

\* Once a purchase was answered ok, its key is not charged again while it is remembered.
NoChargeAfterOk ==
    [][\A p \in Requests :
          (req[p].reply = "ok" /\ KeyOf[p] \notin lapsed) =>
              PaidUnder(KeyOf[p])' = PaidUnder(KeyOf[p])]_vars

\* Concurrent purchases of one user, whatever their keys, neither overdraw the balance
\* nor pass the limit per user.
UserLimitsHold ==
    \A u \in Users : balance[u] >= 0 /\ owned[u] <= MaxPerUser

-----------------------------------------------------------------------------
(* Stated by the code or its comments, and not kept by it: see README.md,  *)
(* section 5.                                                              *)

\* "already processed successfully; returning the same result without charging again"
\* (shopController.ts:137): a key is charged at most once.
ChargedOncePerKey == \A k \in Keys : Cardinality(PaidUnder(k)) <= 1

\* "Miner out of stock." (shopController.ts:197): no more is sold than there is.
StockNotOversold == sold <= StockTotal
=============================================================================
