------------------------------ MODULE CheckIns ------------------------------
(***************************************************************************)
(* The daily check-in, paid on the chain or from the balance.              *)
(*   server/controllers/checkinController.ts     confirm, balance, finalize*)
(*   server/services/checkinChain.ts             evaluateCheckinTx         *)
(*   server/services/checkinMilestoneService.ts  streaks                   *)
(*   server/utils/checkinStreak.ts, cron/checkinPendingCron.ts             *)
(* A row per player and day.  Confirming asks the chain and then writes    *)
(* under the lock of the player; finalizing a pending row (a poll of the   *)
(* status, or the cron job) takes no lock and updates the row it once read.*)
(* A confirmed check-in is told to the tasks and missions (DailyMissions). *)
(***************************************************************************)
EXTENDS DailyMissions

CONSTANTS
    Payments, NoPay,    \* transactions of the chain
    Payer,          \* [Payments -> Users]
    Threshold,      \* [Milestones -> Nat]  dayThreshold
    Cost,           \* of a check-in from the balance
    Submits,        \* the <<player, day, payment>> that may be submitted (a bound)
    Debits,         \* the <<player, day>> that may be paid from the balance (a bound)
    Callers         \* confirm and finalize calls that may overlap

ASSUME CheckInsAssumption ==
    /\ (Payments \cup {NoPay}) \cap (Users \X Days) = {} /\ NoPay \notin Payments
    /\ Payer \in [Payments -> Users]
    /\ Threshold \in [Milestones -> Nat \ {0}] /\ Cost \in Nat
    /\ Submits \subseteq Users \X Days \X Payments /\ Debits \subseteq Users \X Days

VARIABLES
    chain,      \* [Payments -> "none", or "good" or "bad" when it has a receipt]
    row,        \* [Users \X Days -> daily_checkins row]
    charged,    \* [Users \X Days -> Nat]  debits for a check-in (history)
    call        \* [Callers -> confirm or finalize in flight]

vars == <<dailyVars, chain, row, charged, call>>

Synthetic(u, d) == <<u, d>>     \* balanceCheckinSyntheticTxHash
Hashes == Payments \cup (Users \X Days) \cup {NoPay}
NoRow == [status |-> "none", hash |-> NoPay, method |-> "wallet"]
Idle  == [op |-> "none", user |-> CHOOSE u \in Users : TRUE, day |-> 1, hash |-> NoPay,
          state |-> "pending"]

TypeOK ==
    /\ DailyTypeOK
    /\ chain \in [Payments -> {"none", "good", "bad"}]
    /\ row \in [Users \X Days -> [status : {"none", "pending", "failed", "confirmed"},
                                  hash : Hashes, method : {"wallet", "balance"}]]
    /\ \A i, j \in Users \X Days : row[i].hash = row[j].hash /\ row[i].hash # NoPay => i = j
    /\ charged \in [Users \X Days -> Nat]
    /\ call \in [Callers -> [op : {"none", "confirm", "finalize"}, user : Users, day : Days,
                             hash : Hashes, state : {"pending", "failed", "confirmed"}]]

Init ==
    /\ DailyInit
    /\ chain = [p \in Payments |-> "none"]
    /\ row = [i \in Users \X Days |-> NoRow]
    /\ charged = [i \in Users \X Days |-> 0]
    /\ call = [c \in Callers |-> Idle]

-----------------------------------------------------------------------------
\* evaluateCheckinTx: pending until there is a receipt; then the sender, the receiver, the
\* value and the receipt's status decide.
GoodFor(u)      == {p \in Payments : chain[p] = "good" /\ Payer[p] = u}
Evaluated(u, p) ==
    IF chain[p] = "none" THEN "pending" ELSE IF p \in GoodFor(u) THEN "confirmed" ELSE "failed"

Mine(p) ==
    /\ chain[p] = "none"
    /\ \E outcome \in {"good", "bad"} : chain' = [chain EXCEPT ![p] = outcome]
    /\ UNCHANGED <<dailyVars, row, charged, call>>

\* computeCheckinStreak, after the row was written: confirmed days in a row up to today, or
\* to yesterday.
Confirmed(rows, u) == {d \in Days : rows[u, d].status = "confirmed"}
HasStreak(rows, u, n) ==
    \E last \in {day - 1, day} : (last - n + 1) .. last \subseteq Confirmed(rows, u)

\* Streaks, notifyMiniPassLoginDay and notifyDailyTaskLoginDay.
TellLogin(u, d) ==
    Tell(Hook(u, "LOGIN", <<"login", d>>,
              {m \in Milestones : /\ HasStreak(row', u, Threshold[m])
                                  /\ given[u, <<"streak", m>>] = 0}))

\* Told whatever the payment turned out to be.
Decided(u, d, state) == IF state = "confirmed" THEN TellLogin(u, d) ELSE UNCHANGED hooks

\* applyStreakMilestoneRewards, for one milestone: the claim is unique.
GrantStreak(h, m) ==
    /\ h \in hooks /\ m \in h.left \cap Milestones
    /\ Past(h, m)
    /\ IF given[h.user, <<"streak", m>>] = 0
       THEN Deliver(h.user, <<"streak", m>>, Pol[m])
       ELSE UNCHANGED <<given, balance>>
    /\ UNCHANGED <<day, ticks, progress, ledger, xp, bought, buying, played>>
    /\ UNCHANGED <<chain, row, charged, call>>

untold == <<day, ticks, progress, ledger, xp, given, bought, buying, played>>

-----------------------------------------------------------------------------
(* confirmDailyCheckin                                                     *)

ConfirmRead(c, u, p) ==
    /\ call[c] = Idle
    /\ row[u, day].status # "confirmed"
    /\ call' = [call EXCEPT ![c] = [op |-> "confirm", user |-> u, day |-> day, hash |-> p,
                                    state |-> Evaluated(u, p)]]
    /\ UNCHANGED <<dailyVars, chain, row, charged>>

\* tx_hash is unique.
HashFree(p, u, d) == \A i \in (Users \X Days) \ {<<u, d>>} : row[i].hash # p

ConfirmWrite(c) ==
    LET u == call[c].user
        d == call[c].day
    IN  /\ call[c].op = "confirm"
        /\ row[u, d].status # "confirmed"
        /\ HashFree(call[c].hash, u, d)
        /\ row' = [row EXCEPT ![<<u, d>>] = [status |-> call[c].state, hash |-> call[c].hash,
                                         method |-> "wallet"]]
        /\ Decided(u, d, call[c].state)
        /\ call' = [call EXCEPT ![c] = Idle]
        /\ UNCHANGED <<untold, balance, chain, charged>>

\* The check-in was made in the meantime, the hash is used, the lock is busy, or an error.
GiveUp(c) ==
    /\ call[c] # Idle
    /\ call' = [call EXCEPT ![c] = Idle]
    /\ UNCHANGED <<dailyVars, chain, row, charged>>

-----------------------------------------------------------------------------
(* tryFinalizeCheckinRow                                                   *)

FinalizeRead(c, u, d) ==
    /\ call[c] = Idle
    /\ d <= day
    /\ row[u, d].status = "pending"
    /\ Evaluated(u, row[u, d].hash) # "pending"
    /\ call' = [call EXCEPT ![c] = [op |-> "finalize", user |-> u, day |-> d,
                                    hash |-> row[u, d].hash,
                                    state |-> Evaluated(u, row[u, d].hash)]]
    /\ UNCHANGED <<dailyVars, chain, row, charged>>

\* The update is by id: whatever the row is now.
FinalizeWrite(c) ==
    LET u == call[c].user
        d == call[c].day
    IN  /\ call[c].op = "finalize"
        /\ row' = [row EXCEPT ![<<u, d>>].status = call[c].state,
                              ![<<u, d>>].method =
                                  IF call[c].state = "confirmed" THEN "wallet" ELSE @]
        /\ Decided(u, d, call[c].state)
        /\ call' = [call EXCEPT ![c] = Idle]
        /\ UNCHANGED <<untold, balance, chain, charged>>

-----------------------------------------------------------------------------
\* checkinBalance: read and written under the lock of the player.
CheckinBalance(u) ==
    /\ row[u, day].status \notin {"confirmed", "pending"}
    /\ balance[u] >= Cost
    /\ balance' = [balance EXCEPT ![u] = @ - Cost]
    /\ charged' = [charged EXCEPT ![<<u, day>>] = @ + 1]
    /\ row' = [row EXCEPT ![<<u, day>>] = [status |-> "confirmed", hash |-> Synthetic(u, day),
                                       method |-> "balance"]]
    /\ TellLogin(u, day)
    /\ UNCHANGED <<untold, chain, call>>

Next ==
    \/ DailyNext /\ UNCHANGED <<chain, row, charged, call>>
    \/ \E p \in Payments : Mine(p)
    \/ \E h \in hooks : \E m \in h.left : GrantStreak(h, m)
    \/ \E c \in Callers :
          \/ \E s \in Submits : s[2] = day /\ ConfirmRead(c, s[1], s[3])
          \/ \E u \in Users, d \in Days : FinalizeRead(c, u, d)
          \/ ConfirmWrite(c) \/ FinalizeWrite(c) \/ GiveUp(c)
    \/ \E u \in Users : <<u, day>> \in Debits /\ CheckinBalance(u)

Spec == Init /\ [][Next]_vars

-----------------------------------------------------------------------------
(* Properties.                                                             *)

\* The tick of an event and its value commit together: what a player's row says is the
\* number of ticks kept for it, however the hooks overlap, repeat or fail.
ValuesAreTicks ==
    \A u \in Users, o \in Definitions, p \in Periods :
        progress[u, o, p].value =
            Cardinality({t \in ticks : t.user = u /\ t.obj = o /\ t.period = p})

XpRows(u) == [l \in {k \in ledger : k.user = u} |-> l.xp]

\* "Keeps enrollment.totalXp in sync with the sum of ledger rows" (miniPassXpService.ts:19):
\* through purchases, missions and XP keys that collide.
XpInSync == \A u \in Users : xp[u] = Total(XpRows(u))

\* A mission is completed if and only if its XP is in the ledger: a collision of keys
\* leaves no mission completed and unpaid.
CompletedMissionsPaid ==
    \A u \in Users, o \in Missions, p \in Periods :
        LET paid == \E l \in ledger : l.user = u /\ l.key = XpKey(o, p)
        IN  /\ progress[u, o, p].done => progress[u, o, p].value >= Target[o]
            /\ paid => progress[u, o, p].done
            /\ progress[u, o, p].done /\ Xp[o] > 0 => paid

Won(u) == {r \in Rewards : given[u, r] > 0}
PolOf(r) == Pol[IF r[1] \in Tasks THEN r[1] ELSE r[2]]
Prices(u)  == [b \in {c \in bought : c.user = u} |-> b.price]
Charges(u) == [d \in Days |-> Cost * charged[u, d]]
Prizes(u)  == [r \in Won(u) |-> PolOf(r)]

\* The balance is explained by what was bought, paid and won, each reward once, however
\* purchases, claims and check-ins overlap.
BalanceExplained ==
    \A u \in Users :
        balance[u] = Funds - Total(Prices(u)) - Total(Charges(u)) + Total(Prizes(u))

-----------------------------------------------------------------------------
(* Stated by the code or its comments, and not kept by it: see README.md,  *)
(* section 5.                                                              *)

\* "After daily check-in is confirmed - counts toward LOGIN_DAY missions."
\* (miniPassMissionHookService.ts:163): of every player, once his hooks have run.
Told(u) == \A h \in hooks : h.user # u
LoginCounted ==
    \A u \in Users : \A d \in Confirmed(row, u) : Told(u) =>
        \A o \in Definitions : Type[o] = "LOGIN" =>
            \E t \in ticks : t.obj = o /\ t.user = u /\ t.key = <<"login", d>>

\* "After a minigame grants UserPowerGame - counts toward PLAY_GAMES missions."
\* (miniPassMissionHookService.ts:107)
RoundCounted ==
    \A g \in played : Told(Player[g]) =>
        \A o \in Definitions : Type[o] = "GAME" => Ticked(o, <<"game", g>>)

\* "so "today" matches the check-in calendar" (miniPassPeriod.ts:28)
LoginInItsDay ==
    \A t \in ticks : Type[t.obj] = "LOGIN" /\ Cadence[t.obj] = "DAILY" => t.period = t.key[2]

XpBought(u) == [b \in {c \in bought : c.user = u} |-> b.xp]

\* "bounded by season cap" (miniPassPurchaseService.ts:13)
XpWithinCap == \A u \in Users : Total(XpBought(u)) <= XpCap

\* "insufficient_balance" (miniPassPurchaseService.ts:136)
NeverOverdrawn == \A u \in Users : balance[u] >= 0

\* "Check-in was already recorded." (checkinController.ts:704): once a day.
ChargedOncePerDay == \A u \in Users, d \in Days : charged[u, d] <= 1

\* tx_hash is unique (schema.prisma:849): a payment is one check-in.
PaymentCountsOnce ==
    \A u \in Users :
        Cardinality(Confirmed(row, u)) <=
            Cardinality(GoodFor(u)) + Total([d \in Days |-> charged[u, d]])
=============================================================================
