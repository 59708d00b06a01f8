--------------------------- MODULE DailyMissions ---------------------------
(***************************************************************************)
(* Daily tasks, the missions and the levels of a mini pass season.         *)
(*   server/services/dailyTasks/dailyTaskProgressService.ts, ...Claim...,  *)
(*     ...Hook..., dailyTaskPeriod.ts                                      *)
(*   server/services/miniPass/miniPassMissionHookService.ts, ...Xp...,     *)
(*     ...Claim..., ...Purchase..., ...LevelMath.ts, miniPassPeriod.ts     *)
(*   server/prisma/schema.prisma   their tables                            *)
(* What a player does is told to the tasks and missions by hooks nobody    *)
(* waits for.  A hook counts the event for one definition at a time, each  *)
(* in a transaction of its own; an error or a restart drops the rest, that *)
(* is, nothing obliges it to go on.  Definitions and season stay live.     *)
(* A module that extends this one tells the login days, and frames the     *)
(* variables of its own.                                                   *)
(***************************************************************************)
EXTENDS Integers, Totals

CONSTANTS
    Users,
    Tasks, Missions,    \* DailyTaskDefinition, MiniPassMission
    Type,               \* [Tasks \cup Missions -> {"LOGIN", "GAME"}]
    Cadence,            \* [Tasks \cup Missions -> {"DAILY", "EVENT"}]
    Target,             \* [Tasks \cup Missions -> Nat \ {0}]
    Milestones,         \* CheckinStreakMilestone, granted by a hook as well
    Xp,                 \* [Missions -> Nat]  xpReward
    Pol,                \* [rewards -> Nat]  rewardPolAmount, 0 for other kinds
    XpPerLevel, MaxLevel, BuyLevelPrice, CompletePassPrice,
    Quantities,         \* levels a purchase may ask for (1 .. 50)
    Games, Player,      \* minigame rounds, [Games -> Users]
    Buyers, Shopper,    \* purchases that may overlap, [Buyers -> Users]
    Funds,              \* pol_balance at the start
    LastDay, MaxBuys    \* bounds of the model

Definitions == Tasks \cup Missions

ASSUME MissionsAssumption ==
    /\ Users # {} /\ "buy" \notin Missions /\ {"level", "streak"} \cap Tasks = {}
    /\ Tasks \cap Missions = {} /\ Milestones \cap Definitions = {}
    /\ Type \in [Definitions -> {"LOGIN", "GAME"}]
    /\ Cadence \in [Definitions -> {"DAILY", "EVENT"}]
    /\ Target \in [Definitions -> Nat \ {0}] /\ Xp \in [Missions -> Nat]
    /\ {XpPerLevel, MaxLevel, BuyLevelPrice, CompletePassPrice, LastDay} \subseteq Nat \ {0}
    /\ Quantities \subseteq 1 .. 50
    /\ Player \in [Games -> Users] /\ Shopper \in [Buyers -> Users]
    /\ {Funds, MaxBuys} \subseteq Nat

Days    == 1 .. LastDay
Periods == 0 .. LastDay         \* 0: the whole event
Levels  == 2 .. MaxLevel        \* those with a reward

\* dedupeKey: a login key names the day, not the player.
Keys    == ({"login"} \X Days) \cup ({"game"} \X Games)
XpKeys  == (Missions \X Periods) \cup ({"buy"} \X Nat)    \* idempotencyKey of the XP
Rewards == (Tasks \X Periods) \cup ({"level"} \X Levels) \cup ({"streak"} \X Milestones)

ASSUME PolAssumption == Pol \in [Tasks \cup Levels \cup Milestones -> Nat]

VARIABLES
    day,        \* today
    hooks,      \* the notify calls in flight: what is left of each
    ticks,      \* the dedupe ticks, with the player and the period they were counted for
    progress,   \* [Users \X Definitions \X Periods -> progress row]
    ledger,     \* user_mini_pass_xp_ledger
    xp,         \* [Users -> Nat]  enrollment.totalXp
    given,      \* [Users \X Rewards -> Nat]  times a reward was delivered (history)
    bought,     \* user_mini_pass_purchases
    buying,     \* [Buyers -> purchase in flight]
    balance,    \* [Users -> Int]  pol_balance
    played      \* the rounds played

dailyVars == <<day, hooks, ticks, progress, ledger, xp, given, bought, buying, balance, played>>

NoProgress == [value |-> 0, done |-> FALSE, claimed |-> FALSE]
NotBuying  == [user |-> CHOOSE u \in Users : TRUE, price |-> 0, xp |-> 0]

Hooks    == [user : Users, key : Keys, day : Days,
             left : (SUBSET (Definitions \cup Milestones)) \ {{}}]
Progress == [value : Nat, done : BOOLEAN, claimed : BOOLEAN]

\* The dedupe ticks have a unique key per definition, the ledger a unique idempotencyKey.
DailyTypeOK ==
    /\ day \in Days /\ played \subseteq Games /\ hooks \subseteq Hooks
    /\ ticks \subseteq [obj : Definitions, key : Keys, user : Users, period : Periods]
    /\ \A t, s \in ticks : t.obj = s.obj /\ t.key = s.key => t = s
    /\ progress \in [Users \X Definitions \X Periods -> Progress]
    /\ ledger \subseteq [user : Users, key : XpKeys, xp : Nat]
    /\ \A l, k \in ledger : l.key = k.key => l = k
    /\ xp \in [Users -> Nat] /\ given \in [Users \X Rewards -> Nat]
    /\ balance \in [Users -> Int]
    /\ buying \in [Buyers -> [user : Users, price : Nat, xp : Nat]]
    /\ bought \subseteq [id : Nat, user : Users, price : Nat, xp : Nat]

DailyInit ==
    /\ day = 1 /\ hooks = {} /\ ticks = {} /\ ledger = {} /\ bought = {} /\ played = {}
    /\ progress = [i \in Users \X Definitions \X Periods |-> NoProgress]
    /\ xp = [u \in Users |-> 0]
    /\ given = [i \in Users \X Rewards |-> 0]
    /\ buying = [b \in Buyers |-> NotBuying]
    /\ balance = [u \in Users |-> Funds]

-----------------------------------------------------------------------------
LesserOf(m, n) == IF m < n THEN m ELSE n
GreaterOf(m, n) == IF m < n THEN n ELSE m

\* computePassLevel, xpCapForSeason, xpRemainingToCap
PassLevel(n)   == LesserOf(MaxLevel, 1 + n \div XpPerLevel)
XpCap          == (MaxLevel - 1) * XpPerLevel
XpRemaining(n) == GreaterOf(0, XpCap - n)

-----------------------------------------------------------------------------
(* Counting an event.                                                      *)

\* getDailyTaskPeriodKey, resolveMissionPeriodKey: the period of a day.
Period(o, d) == IF Cadence[o] = "DAILY" THEN d ELSE 0

\* The hook for all definitions of a type, and the milestones of a streak.
Hook(u, type, key, milestones) ==
    [user |-> u, key |-> key, day |-> day,
     left |-> {o \in Definitions : Type[o] = type} \cup milestones]

Tell(h) == hooks' = IF h.left = {} THEN hooks ELSE hooks \cup {h}

\* Definition o of hook h is dealt with.
Past(h, o) ==
    hooks' = (hooks \ {h}) \cup
             (IF h.left = {o} THEN {} ELSE {[h EXCEPT !.left = @ \ {o}]})

Play(g) ==
    /\ g \notin played
    /\ played' = played \cup {g}
    /\ Tell(Hook(Player[g], "GAME", <<"game", g>>, {}))
    /\ UNCHANGED <<day, ticks, progress, ledger, xp, given, bought, buying, balance>>

\* Ticks told apart by the period as well.
TickedToday(o, key) ==
    \E t \in ticks : t.obj = o /\ t.key = key /\ t.period = Period(o, day)
\* tryConsumeDedupe: a tick of the definition has the key.
Ticked(o, key) == \E t \in ticks : t.obj = o /\ t.key = key

\* bumpOneTask, bumpMissionProgress: the row after one event more.
Bumped(r, o) == [r EXCEPT !.value = @ + 1, !.done = r.done \/ r.value + 1 >= Target[o]]

\* XP the event earns.
Earned(r, o) == IF o \in Missions /\ ~r.done /\ Bumped(r, o).done THEN Xp[o] ELSE 0

\* idempotencyKey of a mission in a period: again not the player's.
XpKey(o, p) == <<o, p>>

\* The insert fails, and with it the whole transaction: the tick, the value and the
\* completion are gone when it commits.
RolledBack(r, o, p) == Earned(r, o) > 0 /\ \E l \in ledger : l.key = XpKey(o, p)

\* applyMiniPassXp within a transaction, for a key that is free; and with the total cut off
\* at the last level.
GrantXpCapped(u, key, n) ==
    /\ ledger' = IF n = 0 THEN ledger ELSE ledger \cup {[user |-> u, key |-> key, xp |-> n]}
    /\ xp' = [xp EXCEPT ![u] = LesserOf(XpCap, @ + n)]
GrantXp(u, key, n) ==
    /\ ledger' = IF n = 0 THEN ledger ELSE ledger \cup {[user |-> u, key |-> key, xp |-> n]}
    /\ xp' = [xp EXCEPT ![u] = @ + n]

\* What a hook's transaction for o finds, and whether it commits.
\* The hooks take the date when they start, the one of a round's missions as it goes.
PeriodOf(h, o) ==
    Period(o, IF o \in Missions /\ Type[o] = "GAME" THEN day ELSE h.day)
RowOf(h, o)    == progress[h.user, o, PeriodOf(h, o)]
Commits(h, o)  == ~Ticked(o, h.key) /\ ~RolledBack(RowOf(h, o), o, PeriodOf(h, o))

Tick(h, o) == [obj |-> o, key |-> h.key, user |-> h.user, period |-> PeriodOf(h, o)]
\* The tick in a transaction of its own.
TicksApart(h, o)  == ticks \cup (IF Ticked(o, h.key) THEN {} ELSE {Tick(h, o)})
TicksAfter(h, o)  == ticks \cup (IF Commits(h, o) THEN {Tick(h, o)} ELSE {})
\* The duplicate key of the XP caught, and the rest committed.
RowCaught(h, o) == IF Ticked(o, h.key) THEN RowOf(h, o) ELSE Bumped(RowOf(h, o), o)
RowAfter(h, o)  == IF Commits(h, o) THEN Bumped(RowOf(h, o), o) ELSE RowOf(h, o)

Count(h, o) ==
    /\ h \in hooks /\ o \in h.left \cap Definitions
    /\ Past(h, o)
    /\ ticks' = TicksAfter(h, o)
    /\ progress' = [progress EXCEPT ![<<h.user, o, PeriodOf(h, o)>>] = RowAfter(h, o)]
    /\ GrantXp(h.user, XpKey(o, PeriodOf(h, o)),
               IF Commits(h, o) THEN Earned(RowOf(h, o), o) ELSE 0)
    /\ UNCHANGED <<day, given, bought, buying, balance, played>>

-----------------------------------------------------------------------------
(* Rewards.                                                                *)

\* fulfillMiniPassLevelReward
Deliver(u, reward, amount) ==
    /\ given' = [given EXCEPT ![<<u, reward>>] = @ + 1]
    /\ balance' = [balance EXCEPT ![u] = @ + amount]

\* The look-up without rewardClaimedAt.
ClaimableAlways(r) == r.done
Claimable(r) == r.done /\ ~r.claimed

\* claimDailyTaskReward: of the present period only.
ClaimTask(u, o) ==
    LET p == Period(o, day) IN
    /\ Claimable(progress[u, o, p])
    /\ progress' = [progress EXCEPT ![<<u, o, p>>].claimed = TRUE]
    /\ Deliver(u, <<o, p>>, Pol[o])
    /\ UNCHANGED <<day, hooks, ticks, ledger, xp, bought, buying, played>>

\* claimMiniPassLevelReward: the claim is unique.
ClaimLevel(u, l) ==
    /\ PassLevel(xp[u]) >= l
    /\ given[u, <<"level", l>>] = 0
    /\ Deliver(u, <<"level", l>>, Pol[l])
    /\ UNCHANGED <<day, hooks, ticks, progress, ledger, xp, bought, buying, played>>

-----------------------------------------------------------------------------
(* Buying XP: what the transaction reads first is not locked.              *)

BuyRead(b, u, price, n) ==
    /\ buying[b] = NotBuying
    /\ XpRemaining(xp[u]) > 0
    /\ balance[u] >= price
    /\ Cardinality(bought) + Cardinality({c \in Buyers : buying[c] # NotBuying}) < MaxBuys
    /\ buying' = [buying EXCEPT ![b] = [user |-> u, price |-> price, xp |-> n]]
    /\ UNCHANGED <<day, hooks, ticks, progress, ledger, xp, given, bought, balance, played>>

\* purchaseMiniPassLevels
BuyLevels(b, u, q) ==
    LET n == LesserOf(q * XpPerLevel, XpRemaining(xp[u]))
        levels == (n + XpPerLevel - 1) \div XpPerLevel
    IN  BuyRead(b, u, BuyLevelPrice * levels, n)

\* purchaseMiniPassComplete
BuyComplete(b, u) == BuyRead(b, u, CompletePassPrice, XpRemaining(xp[u]))

\* The decrement has no condition.
Debited(u, price) == balance[u] - price

BuyWrite(b) ==
    LET c == buying[b]
        id == Cardinality(bought) + 1
    IN  /\ c # NotBuying
        /\ balance' = [balance EXCEPT ![c.user] = Debited(c.user, c.price)]
        /\ bought' = bought \cup {[id |-> id, user |-> c.user, price |-> c.price, xp |-> c.xp]}
        /\ GrantXp(c.user, <<"buy", id>>, c.xp)
        /\ buying' = [buying EXCEPT ![b] = NotBuying]
        /\ UNCHANGED <<day, hooks, ticks, progress, given, played>>

\* An error: nothing was written.
BuyFails(b) ==
    /\ buying[b] # NotBuying
    /\ buying' = [buying EXCEPT ![b] = NotBuying]
    /\ UNCHANGED <<day, hooks, ticks, progress, ledger, xp, given, bought, balance, played>>

NextDay ==
    /\ day < LastDay
    /\ day' = day + 1
    /\ UNCHANGED <<hooks, ticks, progress, ledger, xp, given, bought, buying, balance, played>>

DailyNext ==
    \/ \E g \in Games : Play(g)
    \/ \E h \in hooks : \E o \in h.left : Count(h, o)
    \/ \E u \in Users : \/ \E o \in Tasks : ClaimTask(u, o)
                        \/ \E l \in Levels : ClaimLevel(u, l)
    \/ \E b \in Buyers : \/ \E q \in Quantities : BuyLevels(b, Shopper[b], q)
                         \/ BuyComplete(b, Shopper[b])
                         \/ BuyWrite(b) \/ BuyFails(b)
    \/ NextDay
=============================================================================
