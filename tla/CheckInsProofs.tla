--------------------------- MODULE CheckInsProofs ---------------------------
(***************************************************************************)
(* Theorems about CheckIns and the missions it extends, for any number of  *)
(* players, days, definitions, rounds, payments, purchases and calls: each *)
(* event is counted with its tick, each completed mission is paid, a       *)
(* player's XP is the sum of his ledger and his balance is explained.      *)
(***************************************************************************)
EXTENDS CheckIns, FiniteSetTheorems, TLAPS

XpRow    == [user : Users, key : XpKeys, xp : Nat]
TickRow  == [obj : Definitions, key : Keys, user : Users, period : Periods]
Purchase == [id : Nat, user : Users, price : Nat, xp : Nat]
Buying   == [user : Users, price : Nat, xp : Nat]
Row      == [status : {"none", "pending", "failed", "confirmed"},
             hash : Hashes, method : {"wallet", "balance"}]
Call     == [op : {"none", "confirm", "finalize"}, user : Users, day : Days,
             hash : Hashes, state : {"pending", "failed", "confirmed"}]

\* Purchases are numbered, and their XP has the number in its key.
PurchasesNumbered ==
    /\ IsFiniteSet(bought) /\ IsFiniteSet(ticks)
    /\ \A p \in bought : p.id <= Cardinality(bought)
    /\ \A l \in ledger : l.key[1] = "buy" => l.key[2] <= Cardinality(bought)

\* A call that confirms has a payment; a synthetic hash is that of its row.
HashesOwned ==
    /\ \A c \in Callers : call[c].op = "confirm" => call[c].hash \in Payments
    /\ \A i \in Users \X Days : row[i].hash \in Users \X Days => row[i].hash = i

TypeInv == TypeOK /\ PurchasesNumbered /\ HashesOwned

-----------------------------------------------------------------------------
(* Constants and values.                                                   *)

LEMMA ConstantTypes ==
    /\ Users # {} /\ "buy" \notin Missions /\ Missions \cap Tasks = {}
    /\ Milestones \cap Definitions = {} /\ Tasks \subseteq Definitions
    /\ Missions \subseteq Definitions
    /\ \A o \in Definitions : Target[o] \in Nat /\ Target[o] >= 1
    /\ \A o \in Missions : Xp[o] \in Nat
    /\ XpPerLevel \in Nat /\ XpPerLevel >= 1 /\ MaxLevel \in Nat /\ MaxLevel >= 1
    /\ BuyLevelPrice \in Nat /\ CompletePassPrice \in Nat /\ Funds \in Nat /\ Cost \in Nat
    /\ Quantities \subseteq Nat
    /\ \A r \in Tasks \cup Levels \cup Milestones : Pol[r] \in Nat
    /\ \A g \in Games : Player[g] \in Users
    /\ \A b \in Buyers : Shopper[b] \in Users
BY MissionsAssumption, PolAssumption, CheckInsAssumption DEF Definitions

LEMMA DayTypes ==
    /\ LastDay \in Nat /\ 1 \in Days /\ Days \subseteq Periods /\ 0 \in Periods
    /\ \A d \in Days : d < LastDay => d + 1 \in Days
BY MissionsAssumption DEF Days, Periods

LEMMA HashTypes ==
    /\ NoPay \in Hashes /\ Payments \subseteq Hashes /\ (Users \X Days) \subseteq Hashes
    /\ NoPay \notin Payments /\ NoPay \notin Users \X Days
    /\ Payments \cap (Users \X Days) = {}
BY CheckInsAssumption DEF Hashes

LEMMA PeriodType ==
    ASSUME NEW o, NEW d \in Days
    PROVE  Period(o, d) \in Periods
BY DayTypes DEF Period

LEMMA StartTypes ==
    /\ NoProgress \in Progress /\ NotBuying \in Buying /\ NoRow \in Row /\ Idle \in Call
    /\ Idle.op = "none"
<1>1. (CHOOSE u \in Users : TRUE) \in Users
  BY ConstantTypes
<1> QED
  BY <1>1, DayTypes, HashTypes
     DEF NoProgress, Progress, NotBuying, Buying, NoRow, Row, Idle, Call

LEMMA InitTypeInv == Init => TypeInv
<1> SUFFICES ASSUME Init PROVE TypeInv
  OBVIOUS
<1>1. DailyTypeOK
  <2>1. xp \in [Users -> Nat] /\ given \in [Users \X Rewards -> Nat]
        /\ balance \in [Users -> Int]
    BY ConstantTypes DEF Init, DailyInit
  <2>2. progress \in [Users \X Definitions \X Periods -> Progress]
        /\ buying \in [Buyers -> Buying]
    BY StartTypes DEF Init, DailyInit
  <2> QED BY <2>1, <2>2, DayTypes DEF Init, DailyInit, DailyTypeOK, Buying
<1>2. TypeOK
  BY <1>1, StartTypes, HashTypes DEF Init, TypeOK, Row, Call, NoRow
<1>3. PurchasesNumbered
  BY FS_EmptySet DEF Init, DailyInit, PurchasesNumbered
<1>4. HashesOwned
  BY StartTypes, HashTypes DEF Init, HashesOwned, NoRow
<1> QED BY <1>2, <1>3, <1>4 DEF TypeInv

-----------------------------------------------------------------------------
(* Steps of a hook.                                                        *)

LEMMA HookType ==
    ASSUME TypeInv, NEW u \in Users, NEW t, NEW k \in Keys, NEW M \in SUBSET Milestones
    PROVE  Tell(Hook(u, t, k, M)) => hooks' \subseteq Hooks
<1> DEFINE h == Hook(u, t, k, M)
<1>1. h.left = {} \/ h \in Hooks
  BY DEF Hook, Hooks, TypeInv, TypeOK, DailyTypeOK
<1> HIDE DEF h
<1> QED BY <1>1 DEF Tell, TypeInv, TypeOK, DailyTypeOK, h

LEMMA PastType ==
    ASSUME TypeInv, NEW h \in hooks, NEW o \in h.left, Past(h, o)
    PROVE  hooks' \subseteq Hooks
<1>1. h \in Hooks /\ hooks \subseteq Hooks
  BY DEF TypeInv, TypeOK, DailyTypeOK
<1>2. CASE h.left = {o}
  BY <1>1, <1>2 DEF Past
<1>3. CASE h.left # {o}
  <2>1. [h EXCEPT !.left = h.left \ {o}] \in Hooks
    BY <1>1, <1>3 DEF Hooks
  <2> QED BY <1>1, <1>3, <2>1 DEF Past
<1> QED BY <1>2, <1>3

LEMMA DeliverType ==
    ASSUME TypeInv, NEW u \in Users, NEW r \in Rewards, NEW n \in Nat, Deliver(u, r, n)
    PROVE  given' \in [Users \X Rewards -> Nat] /\ balance' \in [Users -> Int]
BY DEF Deliver, TypeInv, TypeOK, DailyTypeOK

\* A day's check-ins, the calls and the chain as they were.
Outside == UNCHANGED <<chain, row, charged, call>>

LEMMA OutsideType ==
    ASSUME TypeInv, Outside
    PROVE  /\ DailyTypeOK' => TypeOK'
           /\ HashesOwned'
BY DEF Outside, TypeInv, TypeOK, HashesOwned

\* The XP of a key that is free.
LEMMA GrantType ==
    ASSUME TypeInv, NEW u \in Users, NEW key \in XpKeys, NEW n \in Nat, GrantXp(u, key, n),
           n > 0 => \A l \in ledger : l.key # key
    PROVE  /\ ledger' \subseteq XpRow /\ xp' \in [Users -> Nat]
           /\ \A l, k \in ledger' : l.key = k.key => l = k
           /\ \A l \in ledger' : l \in ledger \/ l = [user |-> u, key |-> key, xp |-> n]
           /\ ledger \subseteq ledger'
           /\ n > 0 => [user |-> u, key |-> key, xp |-> n] \in ledger'
           /\ n = 0 => ledger' = ledger
<1> DEFINE new == [user |-> u, key |-> key, xp |-> n]
<1>1. new \in XpRow /\ new.key = key
  BY DEF XpRow
<1>2. ledger \subseteq XpRow /\ xp \in [Users -> Nat]
      /\ \A l, k \in ledger : l.key = k.key => l = k
  BY DEF TypeInv, TypeOK, DailyTypeOK, XpRow
<1>3. ledger' = IF n = 0 THEN ledger ELSE ledger \cup {new}
  BY DEF GrantXp
<1>4. xp' \in [Users -> Nat]
  BY <1>2 DEF GrantXp
<1> HIDE DEF new
<1>5. CASE n = 0
  BY <1>2, <1>3, <1>4, <1>5
<1>6. CASE n > 0
  BY <1>1, <1>2, <1>3, <1>4, <1>6 DEF new
<1> QED BY <1>5, <1>6

-----------------------------------------------------------------------------
(* Counting.                                                               *)

\* What a hook finds for a definition.
LEMMA HookFinds ==
    ASSUME TypeInv, NEW h \in hooks, NEW o \in h.left, o \in Definitions
    PROVE  /\ h.user \in Users /\ h.key \in Keys /\ PeriodOf(h, o) \in Periods
           /\ RowOf(h, o) \in Progress /\ RowOf(h, o) = progress[<<h.user, o, PeriodOf(h, o)>>]
           /\ Tick(h, o) \in TickRow
           /\ o \in Missions => XpKey(o, PeriodOf(h, o)) \in XpKeys
<1>1. h \in Hooks /\ day \in Days
  BY DEF TypeInv, TypeOK, DailyTypeOK
<1>2. h.user \in Users /\ h.key \in Keys /\ PeriodOf(h, o) \in Periods
  BY <1>1, PeriodType DEF Hooks, PeriodOf
<1>3. RowOf(h, o) \in Progress /\ RowOf(h, o) = progress[<<h.user, o, PeriodOf(h, o)>>]
  BY <1>2 DEF RowOf, TypeInv, TypeOK, DailyTypeOK
<1>4. Tick(h, o) \in TickRow
  BY <1>2 DEF Tick, TickRow
<1> QED BY <1>2, <1>3, <1>4 DEF XpKey, XpKeys

LEMMA BumpedType ==
    ASSUME NEW r \in Progress, NEW o \in Definitions
    PROVE  /\ Bumped(r, o) \in Progress
           /\ Bumped(r, o).value = r.value + 1
           /\ Bumped(r, o).done <=> (r.done \/ r.value + 1 >= Target[o])
           /\ Earned(r, o) \in Nat
           /\ Earned(r, o) > 0 => o \in Missions /\ ~r.done /\ Bumped(r, o).done
           /\ o \in Missions /\ ~r.done /\ Bumped(r, o).done => Earned(r, o) = Xp[o]
<1> DEFINE done == r.done \/ r.value + 1 >= Target[o]
<1>1. done \in BOOLEAN /\ r.value \in Nat /\ r.value + 1 \in Nat
  BY DEF Progress
<1> HIDE DEF done
<1>2. Bumped(r, o) = [[r EXCEPT !.value = r.value + 1] EXCEPT !.done = done]
  BY DEF Bumped, done, Progress
<1>3. /\ Bumped(r, o) \in Progress /\ Bumped(r, o).value = r.value + 1
      /\ Bumped(r, o).done = done
  BY <1>1, <1>2 DEF Progress
<1>4. Earned(r, o) \in Nat
  BY ConstantTypes DEF Earned
<1>5. Earned(r, o) > 0 => o \in Missions /\ ~r.done /\ Bumped(r, o).done
  BY DEF Earned
<1>6. o \in Missions /\ ~r.done /\ Bumped(r, o).done => Earned(r, o) = Xp[o]
  BY DEF Earned
<1> QED BY <1>3, <1>4, <1>5, <1>6 DEF done

\* A count that commits, and one that does not.
Counted(h, o) ==
    /\ ticks' = ticks \cup {Tick(h, o)}
    /\ \A t \in ticks : t.obj # o \/ t.key # h.key
    /\ progress' = [progress EXCEPT ![<<h.user, o, PeriodOf(h, o)>>] = Bumped(RowOf(h, o), o)]
    /\ GrantXp(h.user, XpKey(o, PeriodOf(h, o)), Earned(RowOf(h, o), o))
    /\ Earned(RowOf(h, o), o) > 0 => \A l \in ledger : l.key # XpKey(o, PeriodOf(h, o))

LEMMA CountForms ==
    ASSUME TypeInv, NEW h \in hooks, NEW o \in h.left, Count(h, o)
    PROVE  /\ o \in Definitions
           /\ Counted(h, o) \/ UNCHANGED <<ticks, progress, ledger, xp>>
           /\ UNCHANGED <<day, given, bought, buying, balance, played>>
<1>0. o \in Definitions
  BY DEF Count
<1>1. CASE Commits(h, o)
  BY <1>0, <1>1 DEF Count, Counted, Commits, TicksAfter, RowAfter, Ticked, RolledBack
<1>2. CASE ~Commits(h, o)
  <2>1. ticks' = ticks
    BY <1>2 DEF Count, TicksAfter
  <2>2. progress' = progress
    BY <1>0, <1>2, HookFinds DEF Count, RowAfter, TypeInv, TypeOK, DailyTypeOK
  <2>3. GrantXp(h.user, XpKey(o, PeriodOf(h, o)), 0)
    BY <1>2 DEF Count
  <2>4. ledger' = ledger /\ xp' = xp
    <3>1. \A u \in Users : xp[u] + 0 = xp[u]
      BY DEF TypeInv, TypeOK, DailyTypeOK
    <3> QED BY <2>3, <3>1 DEF GrantXp, TypeInv, TypeOK, DailyTypeOK
  <2> QED BY <1>0, <2>1, <2>2, <2>4 DEF Count
<1> QED BY <1>0, <1>1, <1>2 DEF Count

\* What a committed count leaves.
LEMMA CountedType ==
    ASSUME TypeInv, NEW h \in hooks, NEW o \in h.left, o \in Definitions, Counted(h, o)
    PROVE  /\ ticks' \subseteq TickRow /\ IsFiniteSet(ticks') /\ Tick(h, o) \notin ticks
           /\ \A t, s \in ticks' : t.obj = s.obj /\ t.key = s.key => t = s
           /\ progress' \in [Users \X Definitions \X Periods -> Progress]
           /\ ledger' \subseteq XpRow /\ xp' \in [Users -> Nat]
           /\ \A l, k \in ledger' : l.key = k.key => l = k
           /\ \A l \in ledger' : l \in ledger \/ l.key = XpKey(o, PeriodOf(h, o))
<1>1. /\ Tick(h, o) \in TickRow /\ RowOf(h, o) \in Progress
      /\ h.user \in Users /\ PeriodOf(h, o) \in Periods
      /\ Tick(h, o).obj = o /\ Tick(h, o).key = h.key
  BY HookFinds DEF Tick
<1>2. /\ ticks' \subseteq TickRow /\ Tick(h, o) \notin ticks
      /\ \A t, s \in ticks' : t.obj = s.obj /\ t.key = s.key => t = s
  <2>1. /\ ticks \subseteq TickRow
        /\ \A t, s \in ticks : t.obj = s.obj /\ t.key = s.key => t = s
    BY DEF TypeInv, TypeOK, DailyTypeOK, TickRow
  <2>2. ticks' = ticks \cup {Tick(h, o)} /\ \A t \in ticks : t.obj # o \/ t.key # h.key
    BY DEF Counted
  <2> QED BY <1>1, <2>1, <2>2
<1>3. IsFiniteSet(ticks')
  <2>1. IsFiniteSet(ticks)
    BY DEF TypeInv, PurchasesNumbered
  <2> QED BY <2>1, FS_AddElement DEF Counted
<1>4. progress' \in [Users \X Definitions \X Periods -> Progress]
  BY <1>1, BumpedType DEF Counted, TypeInv, TypeOK, DailyTypeOK
<1> DEFINE n == Earned(RowOf(h, o), o)
           key == XpKey(o, PeriodOf(h, o))
<1>5. n \in Nat /\ (n > 0 => key \in XpKeys)
  BY <1>1, BumpedType, HookFinds
<1>6. GrantXp(h.user, key, n) /\ (n > 0 => \A l \in ledger : l.key # key)
  BY DEF Counted
<1>7. /\ ledger' \subseteq XpRow /\ xp' \in [Users -> Nat]
      /\ \A l, k \in ledger' : l.key = k.key => l = k
      /\ \A l \in ledger' : l \in ledger \/ l.key = key
  <2> HIDE DEF n, key
  <2>1. CASE n = 0
    <3>1. ledger' = ledger /\ xp' \in [Users -> Nat]
      BY <1>1, <1>5, <1>6, <2>1 DEF GrantXp, TypeInv, TypeOK, DailyTypeOK
    <3> QED BY <3>1 DEF TypeInv, TypeOK, DailyTypeOK, XpRow
  <2>2. CASE n > 0
    <3>1. key \in XpKeys
      BY <1>5, <2>2
    <3>2. h.user \in Users /\ n \in Nat /\ (n > 0 => \A l \in ledger : l.key # key)
      BY <1>1, <1>5, <1>6
    <3>3. /\ ledger' \subseteq XpRow /\ xp' \in [Users -> Nat]
          /\ \A l, k \in ledger' : l.key = k.key => l = k
          /\ \A l \in ledger' : l \in ledger \/ l = [user |-> h.user, key |-> key, xp |-> n]
      BY <1>6, <3>1, <3>2, GrantType
    <3> QED BY <3>3
  <2> QED BY <1>5, <2>1, <2>2
<1> QED BY <1>2, <1>3, <1>4, <1>7

LEMMA CountType ==
    ASSUME TypeInv, NEW h \in hooks, NEW o \in h.left, Count(h, o), Outside
    PROVE  TypeInv'
<1>1. /\ o \in Definitions
      /\ Counted(h, o) \/ UNCHANGED <<ticks, progress, ledger, xp>>
      /\ UNCHANGED <<day, given, bought, buying, balance, played>>
  BY CountForms
<1>2. hooks' \subseteq Hooks
  BY PastType DEF Count
<1>3. CASE Counted(h, o)
  <2>1. DailyTypeOK'
    BY <1>1, <1>2, <1>3, CountedType
       DEF TypeInv, TypeOK, DailyTypeOK, XpRow, TickRow
  <2>2. PurchasesNumbered'
    <3>1. o \in Missions => XpKey(o, PeriodOf(h, o))[1] # "buy"
      BY ConstantTypes DEF XpKey
    <3>2. \A l \in ledger' : l \in ledger \/ (o \in Missions /\ l.key[1] # "buy")
      <4>1. Earned(RowOf(h, o), o) > 0 \/ ledger' = ledger
        <5>1. Earned(RowOf(h, o), o) \in Nat
          BY <1>1, HookFinds, BumpedType
        <5> QED BY <1>3, <5>1 DEF Counted, GrantXp
      <4>2. Earned(RowOf(h, o), o) > 0 => o \in Missions
        BY DEF Earned
      <4> QED BY <1>1, <1>3, <3>1, <4>1, <4>2, CountedType
    <3> QED BY <1>1, <1>3, <3>2, CountedType DEF TypeInv, PurchasesNumbered
  <2> QED BY <2>1, <2>2, OutsideType DEF TypeInv
<1>4. CASE UNCHANGED <<ticks, progress, ledger, xp>>
  <2>1. DailyTypeOK' /\ PurchasesNumbered'
    BY <1>1, <1>2, <1>4 DEF TypeInv, TypeOK, DailyTypeOK, PurchasesNumbered
  <2> QED BY <2>1, OutsideType DEF TypeInv
<1> QED BY <1>1, <1>3, <1>4

-----------------------------------------------------------------------------
(* The other steps of the missions.                                        *)

\* A step that touches neither ticks nor ledger nor purchases made.
Aside == UNCHANGED <<ticks, ledger, bought>>

LEMMA AsideType ==
    ASSUME TypeInv, Aside, Outside, DailyTypeOK'
    PROVE  TypeInv'
BY OutsideType DEF Aside, TypeInv, PurchasesNumbered

LEMMA PlayType ==
    ASSUME TypeInv, NEW g \in Games, Play(g), Outside
    PROVE  TypeInv' /\ Aside /\ UNCHANGED progress
<1>1. hooks' \subseteq Hooks
  <2>1. <<"game", g>> \in Keys
    BY DEF Keys
  <2> QED BY <2>1, HookType, ConstantTypes DEF Play
<1>2. DailyTypeOK'
  BY <1>1 DEF Play, TypeInv, TypeOK, DailyTypeOK
<1> QED BY <1>2, AsideType DEF Play, Aside

LEMMA ClaimTaskType ==
    ASSUME TypeInv, NEW u \in Users, NEW o \in Tasks, ClaimTask(u, o), Outside
    PROVE  /\ TypeInv' /\ Aside
           /\ \A i \in Users \X Definitions \X Periods :
                 progress'[i].value = progress[i].value /\ progress'[i].done = progress[i].done
<1> DEFINE p == Period(o, day)
<1>1. p \in Periods /\ o \in Definitions /\ Pol[o] \in Nat /\ <<o, p>> \in Rewards
  BY PeriodType, ConstantTypes DEF TypeInv, TypeOK, DailyTypeOK, Rewards
<1>2. /\ progress' = [progress EXCEPT ![<<u, o, p>>].claimed = TRUE]
      /\ Deliver(u, <<o, p>>, Pol[o])
      /\ UNCHANGED <<day, hooks, ticks, ledger, xp, bought, buying, played>>
  BY DEF ClaimTask
<1> HIDE DEF p
<1>3. given' \in [Users \X Rewards -> Nat] /\ balance' \in [Users -> Int]
  BY <1>1, <1>2, DeliverType
<1>4. progress \in [Users \X Definitions \X Periods -> Progress]
  BY DEF TypeInv, TypeOK, DailyTypeOK
<1>5. /\ progress' \in [Users \X Definitions \X Periods -> Progress]
      /\ \A i \in Users \X Definitions \X Periods :
            progress'[i].value = progress[i].value /\ progress'[i].done = progress[i].done
  BY <1>1, <1>2, <1>4 DEF Progress
<1>6. DailyTypeOK'
  BY <1>2, <1>3, <1>5 DEF TypeInv, TypeOK, DailyTypeOK
<1> QED BY <1>2, <1>5, <1>6, AsideType DEF Aside

LEMMA ClaimLevelType ==
    ASSUME TypeInv, NEW u \in Users, NEW l \in Levels, ClaimLevel(u, l), Outside
    PROVE  TypeInv' /\ Aside /\ UNCHANGED progress
<1>1. Pol[l] \in Nat /\ <<"level", l>> \in Rewards
  BY ConstantTypes DEF Rewards
<1>2. given' \in [Users \X Rewards -> Nat] /\ balance' \in [Users -> Int]
  BY <1>1, DeliverType DEF ClaimLevel
<1>3. DailyTypeOK'
  BY <1>2 DEF ClaimLevel, TypeInv, TypeOK, DailyTypeOK
<1> QED BY <1>3, AsideType DEF ClaimLevel, Aside

LEMMA BuyReadType ==
    ASSUME TypeInv, NEW b \in Buyers, NEW u \in Users, NEW price \in Nat, NEW n \in Nat,
           BuyRead(b, u, price, n), Outside
    PROVE  TypeInv' /\ Aside /\ UNCHANGED progress
<1>1. [user |-> u, price |-> price, xp |-> n] \in Buying
  BY DEF Buying
<1>2. DailyTypeOK'
  BY <1>1 DEF BuyRead, TypeInv, TypeOK, DailyTypeOK, Buying
<1> QED BY <1>2, AsideType DEF BuyRead, Aside

LEMMA AmountTypes ==
    ASSUME NEW m \in Nat
    PROVE  XpRemaining(m) \in Nat
<1>1. (MaxLevel - 1) * XpPerLevel \in Nat
  <2>1. MaxLevel - 1 \in Nat /\ XpPerLevel \in Nat
    BY ConstantTypes
  <2> QED BY <2>1
<1> DEFINE cap == (MaxLevel - 1) * XpPerLevel
<1>2. cap \in Nat
  BY <1>1
<1> HIDE DEF cap
<1>3. GreaterOf(0, cap - m) \in Nat
  BY <1>2 DEF GreaterOf
<1> QED BY <1>3 DEF XpRemaining, XpCap, cap

LEMMA BuyLevelsType ==
    ASSUME TypeInv, NEW b \in Buyers, NEW u \in Users, NEW q \in Quantities,
           BuyLevels(b, u, q), Outside
    PROVE  TypeInv' /\ Aside /\ UNCHANGED progress
<1> DEFINE n == LesserOf(q * XpPerLevel, XpRemaining(xp[u]))
           levels == (n + XpPerLevel - 1) \div XpPerLevel
           price == BuyLevelPrice * levels
<1>1. n \in Nat
  <2>1. q \in Nat /\ XpPerLevel \in Nat /\ XpRemaining(xp[u]) \in Nat
    BY AmountTypes, ConstantTypes DEF TypeInv, TypeOK, DailyTypeOK
  <2>2. q * XpPerLevel \in Nat
    BY <2>1
  <2> QED BY <2>1, <2>2 DEF LesserOf
<1>2. BuyRead(b, u, price, n)
  BY DEF BuyLevels
<1>3. levels \in Nat
  <2> HIDE DEF n
  <2>1. XpPerLevel \in Nat /\ XpPerLevel > 0 /\ n + XpPerLevel - 1 \in Nat
    BY <1>1, ConstantTypes
  <2> QED BY <2>1
<1>4. price \in Nat
  <2> HIDE DEF levels
  <2> QED BY <1>3, ConstantTypes
<1> HIDE DEF n, price
<1> QED BY <1>1, <1>2, <1>4, BuyReadType

LEMMA BuyCompleteType ==
    ASSUME TypeInv, NEW b \in Buyers, NEW u \in Users, BuyComplete(b, u), Outside
    PROVE  TypeInv' /\ Aside /\ UNCHANGED progress
<1>1. XpRemaining(xp[u]) \in Nat
  BY AmountTypes DEF TypeInv, TypeOK, DailyTypeOK
<1> QED BY <1>1, BuyReadType, ConstantTypes DEF BuyComplete

LEMMA BuyFailsType ==
    ASSUME TypeInv, NEW b \in Buyers, BuyFails(b), Outside
    PROVE  TypeInv' /\ Aside /\ UNCHANGED progress
<1>1. DailyTypeOK'
  BY StartTypes DEF BuyFails, TypeInv, TypeOK, DailyTypeOK, Buying
<1> QED BY <1>1, AsideType DEF BuyFails, Aside

LEMMA NextDayType ==
    ASSUME TypeInv, NextDay, Outside
    PROVE  TypeInv' /\ Aside /\ UNCHANGED progress
<1>1. DailyTypeOK'
  BY DayTypes DEF NextDay, TypeInv, TypeOK, DailyTypeOK
<1> QED BY <1>1, AsideType DEF NextDay, Aside

\* The XP of a purchase has a key of its own.
LEMMA BuyWriteType ==
    ASSUME TypeInv, NEW b \in Buyers, BuyWrite(b), Outside
    PROVE  /\ TypeInv' /\ UNCHANGED <<ticks, progress>>
           /\ \A l \in ledger' : l \in ledger \/ l.key[1] = "buy"
           /\ ledger \subseteq ledger'
<1> DEFINE id == Cardinality(bought) + 1
           c == buying[b]
           new == [id |-> id, user |-> c.user, price |-> c.price, xp |-> c.xp]
<1>1. Cardinality(bought) \in Nat /\ IsFiniteSet(bought)
  BY FS_CardinalityType DEF TypeInv, PurchasesNumbered
<1>2. c \in Buying
  BY DEF TypeInv, TypeOK, DailyTypeOK, Buying
<1>3. new \in Purchase
  BY <1>1, <1>2 DEF Purchase, Buying
<1>4. /\ balance' = [balance EXCEPT ![c.user] = Debited(c.user, c.price)]
      /\ bought' = bought \cup {new}
      /\ GrantXp(c.user, <<"buy", id>>, c.xp)
      /\ buying' = [buying EXCEPT ![b] = NotBuying]
      /\ UNCHANGED <<day, hooks, ticks, progress, given, played>>
  BY DEF BuyWrite
<1>5. <<"buy", id>> \in XpKeys
  BY <1>1 DEF XpKeys
<1>6. \A l \in ledger : l.key # <<"buy", id>>
  BY <1>1 DEF TypeInv, PurchasesNumbered
<1> HIDE DEF c
<1>7. /\ ledger' \subseteq XpRow /\ xp' \in [Users -> Nat]
      /\ \A l, k \in ledger' : l.key = k.key => l = k
      /\ \A l \in ledger' : l \in ledger \/ l.key = <<"buy", id>>
      /\ ledger \subseteq ledger'
  <2> DEFINE key == <<"buy", id>>
  <2>1. c.user \in Users /\ c.xp \in Nat /\ key \in XpKeys /\ GrantXp(c.user, key, c.xp)
        /\ \A l \in ledger : l.key # key
    BY <1>2, <1>4, <1>5, <1>6 DEF Buying
  <2> HIDE DEF key
  <2>2. /\ ledger' \subseteq XpRow /\ xp' \in [Users -> Nat]
        /\ \A l, k \in ledger' : l.key = k.key => l = k
        /\ \A l \in ledger' : l \in ledger \/ l = [user |-> c.user, key |-> key, xp |-> c.xp]
        /\ ledger \subseteq ledger'
    BY <2>1, GrantType
  <2> QED BY <2>2 DEF key
<1>8. balance' \in [Users -> Int]
  BY <1>2, <1>4 DEF Debited, Buying, TypeInv, TypeOK, DailyTypeOK
<1>9. buying' \in [Buyers -> Buying] /\ bought' \subseteq Purchase
  BY <1>3, <1>4, StartTypes DEF TypeInv, TypeOK, DailyTypeOK, Buying, Purchase
<1>10. DailyTypeOK'
  BY <1>4, <1>7, <1>8, <1>9 DEF TypeInv, TypeOK, DailyTypeOK, Buying, Purchase, XpRow
<1>11. IsFiniteSet(bought') /\ Cardinality(bought') = id
  <2>1. new \notin bought
    BY <1>1, <1>3 DEF TypeInv, PurchasesNumbered, Purchase
  <2> HIDE DEF new
  <2> QED BY <1>1, <1>4, <2>1, FS_AddElement
<1>12. PurchasesNumbered'
  <2>1. \A p \in bought' : p.id <= id
    BY <1>1, <1>4 DEF TypeInv, TypeOK, DailyTypeOK, PurchasesNumbered
  <2>2. \A l \in ledger' : l.key[1] = "buy" => l.key[2] <= id
    <3> TAKE l \in ledger'
    <3>1. CASE l \in ledger
      <4>1. l.key \in XpKeys
        BY <3>1 DEF TypeInv, TypeOK, DailyTypeOK
      <4>2. l.key[1] = "buy" => l.key[2] \in Nat
        BY <4>1, ConstantTypes DEF XpKeys
      <4> QED BY <1>1, <3>1, <4>2 DEF TypeInv, PurchasesNumbered
    <3>2. CASE l.key = <<"buy", id>>
      BY <1>1, <3>2
    <3> QED BY <1>7, <3>1, <3>2
  <2> QED BY <1>4, <1>11, <2>1, <2>2 DEF TypeInv, PurchasesNumbered
<1> QED BY <1>4, <1>7, <1>10, <1>12, OutsideType DEF TypeInv

LEMMA DailyNextType == TypeInv /\ DailyNext /\ Outside => TypeInv'
<1> SUFFICES ASSUME TypeInv, DailyNext, Outside PROVE TypeInv'
  OBVIOUS
<1>1. CASE \E g \in Games : Play(g)
  BY <1>1, PlayType
<1>2. CASE \E h \in hooks : \E o \in h.left : Count(h, o)
  BY <1>2, CountType
<1>3. CASE \E u \in Users, o \in Tasks : ClaimTask(u, o)
  BY <1>3, ClaimTaskType
<1>4. CASE \E u \in Users, l \in Levels : ClaimLevel(u, l)
  BY <1>4, ClaimLevelType
<1>5. CASE \E b \in Buyers : (\E q \in Quantities : BuyLevels(b, Shopper[b], q))
                             \/ BuyComplete(b, Shopper[b])
  BY <1>5, BuyLevelsType, BuyCompleteType, ConstantTypes
<1>6. CASE \E b \in Buyers : BuyWrite(b) \/ BuyFails(b)
  BY <1>6, BuyWriteType, BuyFailsType
<1>7. CASE NextDay
  BY <1>7, NextDayType
<1> QED BY <1>1, <1>2, <1>3, <1>4, <1>5, <1>6, <1>7 DEF DailyNext

-----------------------------------------------------------------------------
(* Check-ins.                                                              *)

\* What a check-in leaves of the missions: ticks, counts and ledger as they are.
Untouched == UNCHANGED <<day, ticks, progress, ledger, xp, bought, buying, played>>

LEMMA UntouchedType ==
    ASSUME TypeInv, Untouched, hooks' \subseteq Hooks,
           given' \in [Users \X Rewards -> Nat], balance' \in [Users -> Int]
    PROVE  DailyTypeOK' /\ PurchasesNumbered'
BY DEF Untouched, TypeInv, TypeOK, DailyTypeOK, PurchasesNumbered

LEMMA TellLoginType ==
    ASSUME TypeInv, NEW u \in Users, NEW d \in Days, NEW state,
           TellLogin(u, d) \/ Decided(u, d, state)
    PROVE  hooks' \subseteq Hooks
<1>1. <<"login", d>> \in Keys
  BY DEF Keys
<1> DEFINE M == {m \in Milestones : /\ HasStreak(row', u, Threshold[m])
                                    /\ given[u, <<"streak", m>>] = 0}
<1>2. CASE TellLogin(u, d)
  <2>1. Tell(Hook(u, "LOGIN", <<"login", d>>, M))
    BY <1>2 DEF TellLogin
  <2>2. M \in SUBSET Milestones
    OBVIOUS
  <2> HIDE DEF M
  <2> QED BY <1>1, <2>1, <2>2, HookType
<1>3. CASE UNCHANGED hooks
  BY <1>3 DEF TypeInv, TypeOK, DailyTypeOK
<1> QED BY <1>2, <1>3 DEF Decided

LEMMA MineType ==
    ASSUME TypeInv, NEW p \in Payments, Mine(p)
    PROVE  TypeInv' /\ Untouched
BY DEF Mine, dailyVars, Untouched, TypeInv, TypeOK, DailyTypeOK, PurchasesNumbered, HashesOwned

LEMMA GrantStreakType ==
    ASSUME TypeInv, NEW h \in hooks, NEW m \in h.left, GrantStreak(h, m)
    PROVE  TypeInv' /\ Untouched
<1>1. hooks' \subseteq Hooks
  BY PastType DEF GrantStreak
<1>2. given' \in [Users \X Rewards -> Nat] /\ balance' \in [Users -> Int]
  <2>1. h.user \in Users /\ <<"streak", m>> \in Rewards /\ Pol[m] \in Nat
    BY ConstantTypes DEF GrantStreak, Rewards, TypeInv, TypeOK, DailyTypeOK, Hooks
  <2>2. Deliver(h.user, <<"streak", m>>, Pol[m]) \/ UNCHANGED <<given, balance>>
    BY DEF GrantStreak
  <2> QED BY <2>1, <2>2, DeliverType DEF TypeInv, TypeOK, DailyTypeOK
<1>3. Untouched /\ Outside
  BY DEF GrantStreak, Untouched, Outside
<1> QED BY <1>1, <1>2, <1>3, UntouchedType, OutsideType DEF TypeInv

\* A call is made, or over.
LEMMA CallType ==
    ASSUME TypeInv, NEW c \in Callers, NEW k \in Call,
           call' = [call EXCEPT ![c] = k], k.op = "confirm" => k.hash \in Payments
    PROVE  /\ call' \in [Callers -> Call]
           /\ \A b \in Callers : call'[b].op = "confirm" => call'[b].hash \in Payments
BY DEF TypeInv, TypeOK, HashesOwned, Call

LEMMA CallOnlyType ==
    ASSUME TypeInv, NEW c \in Callers, NEW k \in Call, UNCHANGED <<dailyVars, chain, row, charged>>,
           call' = [call EXCEPT ![c] = k], k.op = "confirm" => k.hash \in Payments
    PROVE  TypeInv' /\ Untouched
<1>1. /\ call' \in [Callers -> Call]
      /\ \A b \in Callers : call'[b].op = "confirm" => call'[b].hash \in Payments
  BY CallType
<1>2. DailyTypeOK' /\ PurchasesNumbered' /\ Untouched
  BY DEF dailyVars, Untouched, TypeInv, TypeOK, DailyTypeOK, PurchasesNumbered
<1> QED BY <1>1, <1>2 DEF TypeInv, TypeOK, HashesOwned, Call

LEMMA EvaluatedType ==
    ASSUME NEW u, NEW p
    PROVE  Evaluated(u, p) \in {"pending", "failed", "confirmed"}
BY DEF Evaluated

LEMMA ConfirmReadType ==
    ASSUME TypeInv, NEW c \in Callers, NEW s \in Submits, ConfirmRead(c, s[1], s[3])
    PROVE  TypeInv' /\ Untouched
<1>1. s[1] \in Users /\ s[3] \in Payments /\ day \in Days
  BY CheckInsAssumption DEF TypeInv, TypeOK, DailyTypeOK
<1> DEFINE k == [op |-> "confirm", user |-> s[1], day |-> day, hash |-> s[3],
                 state |-> Evaluated(s[1], s[3])]
<1>2. k \in Call
  BY <1>1, EvaluatedType, HashTypes DEF Call
<1>3. k.hash \in Payments /\ call' = [call EXCEPT ![c] = k]
      /\ UNCHANGED <<dailyVars, chain, row, charged>>
  BY <1>1 DEF ConfirmRead
<1> HIDE DEF k
<1> QED BY <1>2, <1>3, CallOnlyType

LEMMA FinalizeReadType ==
    ASSUME TypeInv, NEW c \in Callers, NEW u \in Users, NEW d \in Days, FinalizeRead(c, u, d)
    PROVE  TypeInv' /\ Untouched
<1> DEFINE k == [op |-> "finalize", user |-> u, day |-> d, hash |-> row[u, d].hash,
                 state |-> Evaluated(u, row[u, d].hash)]
<1>1. row[u, d].hash \in Hashes
  BY DEF TypeInv, TypeOK
<1>2. k \in Call
  BY <1>1, EvaluatedType DEF Call
<1>3. k.op # "confirm" /\ call' = [call EXCEPT ![c] = k]
      /\ UNCHANGED <<dailyVars, chain, row, charged>>
  BY DEF FinalizeRead
<1> HIDE DEF k
<1> QED BY <1>2, <1>3, CallOnlyType

LEMMA GiveUpType ==
    ASSUME TypeInv, NEW c \in Callers, GiveUp(c)
    PROVE  TypeInv' /\ Untouched
BY StartTypes, CallOnlyType DEF GiveUp

\* The row of a player's day is written: its hash stays unique.
LEMMA RowType ==
    ASSUME TypeInv, NEW i \in Users \X Days, NEW r \in Row, row' = [row EXCEPT ![i] = r],
           \A j \in Users \X Days : j # i /\ r.hash # NoPay => row[j].hash # r.hash,
           r.hash \in Users \X Days => r.hash = i
    PROVE  /\ row' \in [Users \X Days -> Row]
           /\ \A j, k \in Users \X Days :
                 row'[j].hash = row'[k].hash /\ row'[j].hash # NoPay => j = k
           /\ \A j \in Users \X Days : row'[j].hash \in Users \X Days => row'[j].hash = j
<1>1. /\ row \in [Users \X Days -> Row]
      /\ \A j, k \in Users \X Days : row[j].hash = row[k].hash /\ row[j].hash # NoPay => j = k
      /\ \A j \in Users \X Days : row[j].hash \in Users \X Days => row[j].hash = j
  BY DEF TypeInv, TypeOK, HashesOwned, Row
<1> DEFINE S == Users \X Days
<1>2. /\ i \in S /\ row \in [S -> Row] /\ row' = [row EXCEPT ![i] = r]
      /\ \A j, k \in S : row[j].hash = row[k].hash /\ row[j].hash # NoPay => j = k
      /\ \A j \in S : row[j].hash \in S => row[j].hash = j
      /\ \A j \in S : j # i /\ r.hash # NoPay => row[j].hash # r.hash
      /\ r.hash \in S => r.hash = i
  BY <1>1
<1> HIDE DEF S
<1>3. row' \in [S -> Row] /\ row'[i] = r /\ \A j \in S : j # i => row'[j] = row[j]
  BY <1>2
<1>4. \A j, k \in S : row'[j].hash = row'[k].hash /\ row'[j].hash # NoPay => j = k
  BY <1>2, <1>3
<1>5. \A j \in S : row'[j].hash \in S => row'[j].hash = j
  BY <1>2, <1>3
<1> QED BY <1>3, <1>4, <1>5 DEF S

LEMMA ConfirmWriteType ==
    ASSUME TypeInv, NEW c \in Callers, ConfirmWrite(c)
    PROVE  TypeInv' /\ Untouched
<1> DEFINE u == call[c].user
           d == call[c].day
           r == [status |-> call[c].state, hash |-> call[c].hash, method |-> "wallet"]
<1>1. u \in Users /\ d \in Days /\ call[c].hash \in Payments
      /\ call[c].state \in {"pending", "failed", "confirmed"}
  BY DEF ConfirmWrite, TypeInv, TypeOK, HashesOwned, Call
<1>2. r \in Row /\ r.hash = call[c].hash
  BY <1>1, HashTypes DEF Row
<1>3. <<u, d>> \in Users \X Days /\ row' = [row EXCEPT ![<<u, d>>] = r]
  BY <1>1 DEF ConfirmWrite
<1>4. /\ \A j \in Users \X Days : j # <<u, d>> /\ r.hash # NoPay => row[j].hash # r.hash
      /\ r.hash \in Users \X Days => r.hash = <<u, d>>
  BY <1>1, <1>2, HashTypes DEF ConfirmWrite, HashFree
<1>5. hooks' \subseteq Hooks
  BY <1>1, TellLoginType DEF ConfirmWrite
<1>6. /\ call' \in [Callers -> Call]
      /\ \A b \in Callers : call'[b].op = "confirm" => call'[b].hash \in Payments
  BY StartTypes, CallType DEF ConfirmWrite
<1>7. /\ row' \in [Users \X Days -> Row]
      /\ \A j, k \in Users \X Days :
            row'[j].hash = row'[k].hash /\ row'[j].hash # NoPay => j = k
      /\ \A j \in Users \X Days : row'[j].hash \in Users \X Days => row'[j].hash = j
  <2> HIDE DEF u, d, r
  <2> QED BY <1>2, <1>3, <1>4, RowType
<1>8. Untouched /\ UNCHANGED <<given, balance, chain, charged>>
  BY DEF ConfirmWrite, untold, Untouched
<1>9. DailyTypeOK' /\ PurchasesNumbered'
  BY <1>5, <1>8, UntouchedType DEF TypeInv, TypeOK, DailyTypeOK
<1> QED BY <1>6, <1>7, <1>8, <1>9 DEF TypeInv, TypeOK, HashesOwned, Row, Call

LEMMA RowUpdate ==
    ASSUME NEW r \in Row, NEW status \in {"none", "pending", "failed", "confirmed"},
           NEW method \in {"wallet", "balance"}
    PROVE  [[r EXCEPT !.status = status] EXCEPT !.method = method]
             = [status |-> status, hash |-> r.hash, method |-> method]
<1>1. PICK r1 : r1 = [r EXCEPT !.status = status]
  OBVIOUS
<1>2. r1 \in Row /\ r1.hash = r.hash /\ r1.status = status
  BY <1>1 DEF Row
<1>3. PICK r2 : r2 = [r1 EXCEPT !.method = method]
  OBVIOUS
<1>4. r2 \in Row /\ r2.hash = r.hash /\ r2.status = status /\ r2.method = method
  BY <1>2, <1>3 DEF Row
<1>5. r2 = [status |-> status, hash |-> r.hash, method |-> method]
  BY <1>4 DEF Row
<1> QED BY <1>1, <1>3, <1>5

LEMMA FinalizeWriteType ==
    ASSUME TypeInv, NEW c \in Callers, FinalizeWrite(c)
    PROVE  TypeInv' /\ Untouched
<1> DEFINE u == call[c].user
           d == call[c].day
           m == IF call[c].state = "confirmed" THEN "wallet" ELSE row[<<u, d>>].method
           r == [status |-> call[c].state, hash |-> row[<<u, d>>].hash, method |-> m]
<1>1. u \in Users /\ d \in Days /\ call[c].state \in {"pending", "failed", "confirmed"}
      /\ row \in [Users \X Days -> Row] /\ row[<<u, d>>] \in Row
  BY DEF FinalizeWrite, TypeInv, TypeOK, Call, Row
<1>2. r \in Row /\ r.hash = row[<<u, d>>].hash /\ <<u, d>> \in Users \X Days
  BY <1>1 DEF Row
<1>3. row' = [row EXCEPT ![<<u, d>>] = r]
  <2>1. row' = [row EXCEPT ![<<u, d>>].status = call[c].state, ![<<u, d>>].method = m]
    BY <1>1 DEF FinalizeWrite
  <2>2. [[row[<<u, d>>] EXCEPT !.status = call[c].state] EXCEPT !.method = m] = r
    <3>1. m \in {"wallet", "balance"}
      BY <1>1 DEF Row
    <3> HIDE DEF u, d, m
    <3> QED BY <1>1, <3>1, RowUpdate
  <2> QED BY <1>1, <2>1, <2>2
<1>4. /\ \A j \in Users \X Days : j # <<u, d>> /\ r.hash # NoPay => row[j].hash # r.hash
      /\ r.hash \in Users \X Days => r.hash = <<u, d>>
  BY <1>2 DEF TypeInv, TypeOK, HashesOwned
<1>5. hooks' \subseteq Hooks
  BY <1>1, TellLoginType DEF FinalizeWrite
<1>6. /\ call' \in [Callers -> Call]
      /\ \A b \in Callers : call'[b].op = "confirm" => call'[b].hash \in Payments
  BY StartTypes, CallType DEF FinalizeWrite
<1>7. /\ row' \in [Users \X Days -> Row]
      /\ \A j, k \in Users \X Days :
            row'[j].hash = row'[k].hash /\ row'[j].hash # NoPay => j = k
      /\ \A j \in Users \X Days : row'[j].hash \in Users \X Days => row'[j].hash = j
  <2> HIDE DEF u, d, r
  <2> QED BY <1>2, <1>3, <1>4, RowType
<1>8. Untouched /\ UNCHANGED <<given, balance, chain, charged>>
  BY DEF FinalizeWrite, untold, Untouched
<1>9. DailyTypeOK' /\ PurchasesNumbered'
  BY <1>5, <1>8, UntouchedType DEF TypeInv, TypeOK, DailyTypeOK
<1> QED BY <1>6, <1>7, <1>8, <1>9 DEF TypeInv, TypeOK, HashesOwned, Row, Call

LEMMA CheckinBalanceType ==
    ASSUME TypeInv, NEW u \in Users, CheckinBalance(u)
    PROVE  TypeInv' /\ Untouched
<1> DEFINE i == <<u, day>>
           r == [status |-> "confirmed", hash |-> i, method |-> "balance"]
<1>1. day \in Days /\ i \in Users \X Days
  BY DEF TypeInv, TypeOK, DailyTypeOK
<1>2. r \in Row /\ r.hash = i
  BY <1>1, HashTypes DEF Row
<1>3. row' = [row EXCEPT ![i] = r] /\ charged' = [charged EXCEPT ![i] = charged[i] + 1]
      /\ balance' = [balance EXCEPT ![u] = balance[u] - Cost]
  BY DEF CheckinBalance, Synthetic
<1>4. hooks' \subseteq Hooks
  BY <1>1, TellLoginType DEF CheckinBalance
<1>5. charged' \in [Users \X Days -> Nat] /\ balance' \in [Users -> Int]
  <2>1. balance[u] \in Int /\ charged[i] \in Nat /\ Cost \in Nat
    BY <1>1, ConstantTypes DEF TypeInv, TypeOK, DailyTypeOK
  <2> QED BY <1>1, <1>3, <2>1 DEF TypeInv, TypeOK, DailyTypeOK
<1>6. \A j \in Users \X Days : j # i => row[j].hash # i
  BY <1>1 DEF TypeInv, HashesOwned
<1>7. /\ row' \in [Users \X Days -> Row]
      /\ \A j, k \in Users \X Days :
            row'[j].hash = row'[k].hash /\ row'[j].hash # NoPay => j = k
      /\ \A j \in Users \X Days : row'[j].hash \in Users \X Days => row'[j].hash = j
  <2> HIDE DEF i, r
  <2>1. /\ \A j \in Users \X Days : j # i /\ r.hash # NoPay => row[j].hash # r.hash
        /\ r.hash \in Users \X Days => r.hash = i
    BY <1>2, <1>6
  <2>2. row' = [row EXCEPT ![i] = r]
    BY <1>3
  <2> QED BY <1>1, <1>2, <2>1, <2>2, RowType
<1>8. Untouched /\ UNCHANGED <<given, chain, call>>
  BY DEF CheckinBalance, untold, Untouched
<1>9. DailyTypeOK' /\ PurchasesNumbered'
  BY <1>4, <1>5, <1>8, UntouchedType DEF TypeInv, TypeOK, DailyTypeOK
<1> QED BY <1>5, <1>7, <1>8, <1>9 DEF TypeInv, TypeOK, HashesOwned, Row, Call

\* The steps of this module, as opposed to those of the missions.
CheckInNext ==
    \/ \E p \in Payments : Mine(p)
    \/ \E h \in hooks : \E m \in h.left : GrantStreak(h, m)
    \/ \E c \in Callers :
          \/ \E s \in Submits : ConfirmRead(c, s[1], s[3])
          \/ \E u \in Users, d \in Days : FinalizeRead(c, u, d)
          \/ ConfirmWrite(c) \/ FinalizeWrite(c) \/ GiveUp(c)
    \/ \E u \in Users : CheckinBalance(u)

LEMMA NextForms == Next => CheckInNext \/ (DailyNext /\ Outside)
BY DEF Next, CheckInNext, Outside

LEMMA CheckInType == TypeInv /\ CheckInNext => TypeInv' /\ Untouched
BY MineType, GrantStreakType, ConfirmReadType, FinalizeReadType, ConfirmWriteType,
   FinalizeWriteType, GiveUpType, CheckinBalanceType DEF CheckInNext

LEMMA StutterType == TypeInv /\ UNCHANGED vars => TypeInv'
BY DEF vars, dailyVars, TypeInv, TypeOK, DailyTypeOK, PurchasesNumbered, HashesOwned

LEMMA NextTypeInv == TypeInv /\ [Next]_vars => TypeInv'
BY NextForms, CheckInType, DailyNextType, StutterType

THEOREM TypingInv == Spec => []TypeInv
BY InitTypeInv, NextTypeInv, PTL DEF Spec

\* Rows, calls, hooks, ticks, ledger and purchases keep their types and unique keys: two
\* rows never have one payment, a definition has one tick per key, the ledger one row per key.
THEOREM Typing == Spec => []TypeOK
<1>1. TypeInv => TypeOK
  BY DEF TypeInv
<1> QED BY <1>1, TypingInv, PTL

-----------------------------------------------------------------------------
(* Every event is counted with its tick.                                   *)

TicksOf(u, o, p) == {t \in ticks : t.user = u /\ t.obj = o /\ t.period = p}

ValuesKept ==
    \A u \in Users, o \in Definitions, p \in Periods :
        progress[<<u, o, p>>].value = Cardinality(TicksOf(u, o, p))

LEMMA ValuesForm == ValuesKept <=> ValuesAreTicks
BY DEF ValuesKept, ValuesAreTicks, TicksOf

LEMMA CountedValues ==
    ASSUME TypeInv, ValuesKept, NEW h \in hooks, NEW o \in h.left, o \in Definitions,
           Counted(h, o)
    PROVE  ValuesKept'
<1>1. /\ h.user \in Users /\ PeriodOf(h, o) \in Periods /\ RowOf(h, o) \in Progress
      /\ RowOf(h, o) = progress[<<h.user, o, PeriodOf(h, o)>>]
      /\ Tick(h, o).user = h.user /\ Tick(h, o).obj = o
      /\ Tick(h, o).period = PeriodOf(h, o)
  BY HookFinds DEF Tick
<1>2. ticks' = ticks \cup {Tick(h, o)} /\ Tick(h, o) \notin ticks /\ IsFiniteSet(ticks)
  BY CountedType DEF Counted, TypeInv, PurchasesNumbered
<1>3. Bumped(RowOf(h, o), o).value = RowOf(h, o).value + 1
  BY <1>1, BumpedType
<1>4. progress' = [progress EXCEPT ![<<h.user, o, PeriodOf(h, o)>>] = Bumped(RowOf(h, o), o)]
      /\ progress \in [Users \X Definitions \X Periods -> Progress]
  BY DEF Counted, TypeInv, TypeOK, DailyTypeOK
<1> SUFFICES ASSUME NEW u \in Users, NEW q \in Definitions, NEW p \in Periods
             PROVE  progress'[<<u, q, p>>].value = Cardinality(TicksOf(u, q, p)')
  BY DEF ValuesKept
<1> DEFINE tick == Tick(h, o)
           T == TicksOf(u, q, p)
<1>5. IsFiniteSet(T) /\ tick \notin T
  BY <1>2, FS_Subset DEF TicksOf
<1>6. CASE u = h.user /\ q = o /\ p = PeriodOf(h, o)
  <2>1. TicksOf(u, q, p)' = T \cup {tick}
    BY <1>1, <1>2, <1>6 DEF TicksOf
  <2>2. Cardinality(T \cup {tick}) = Cardinality(T) + 1
    <3> HIDE DEF T, tick
    <3> QED BY <1>5, FS_AddElement
  <2>3. progress'[<<u, q, p>>].value = progress[<<u, q, p>>].value + 1
    BY <1>1, <1>3, <1>4, <1>6
  <2> QED BY <2>1, <2>2, <2>3 DEF ValuesKept
<1>7. CASE ~(u = h.user /\ q = o /\ p = PeriodOf(h, o))
  <2>1. TicksOf(u, q, p)' = T
    BY <1>1, <1>2, <1>7 DEF TicksOf
  <2>2. progress'[<<u, q, p>>] = progress[<<u, q, p>>]
    BY <1>1, <1>4, <1>7
  <2> QED BY <2>1, <2>2 DEF ValuesKept
<1> QED BY <1>6, <1>7

\* The steps that leave ticks, values and completions alone.
Still == /\ UNCHANGED ticks
         /\ \A i \in Users \X Definitions \X Periods :
               progress'[i].value = progress[i].value /\ progress'[i].done = progress[i].done

\* Every step is a count, a purchase written, or leaves ledger and completions alone.
LEMMA StepForms ==
    ASSUME TypeInv, [Next]_vars
    PROVE  \/ \E h \in hooks : \E o \in h.left : o \in Definitions /\ Counted(h, o)
           \/ /\ Still
              /\ \A l \in ledger' : l \in ledger \/ l.key[1] = "buy"
              /\ ledger \subseteq ledger'
<1> DEFINE Level == /\ Still
                    /\ \A l \in ledger' : l \in ledger \/ l.key[1] = "buy"
                    /\ ledger \subseteq ledger'
<1>1. CASE Untouched
  BY <1>1 DEF Untouched, Still
<1>2. CASE UNCHANGED vars
  BY <1>2 DEF vars, dailyVars, Still
<1>3. CASE DailyNext /\ Outside
  <2>1. CASE \E g \in Games : Play(g)
    BY <1>3, <2>1, PlayType DEF Aside, Still
  <2>2. CASE \E h \in hooks : \E o \in h.left : Count(h, o)
    BY <2>2, CountForms DEF Still
  <2>3. CASE \E u \in Users, o \in Tasks : ClaimTask(u, o)
    BY <1>3, <2>3, ClaimTaskType DEF Aside, Still
  <2>4. CASE \E u \in Users, l \in Levels : ClaimLevel(u, l)
    BY <1>3, <2>4, ClaimLevelType DEF Aside, Still
  <2>5. CASE \E b \in Buyers : (\E q \in Quantities : BuyLevels(b, Shopper[b], q))
                               \/ BuyComplete(b, Shopper[b]) \/ BuyFails(b)
    BY <1>3, <2>5, BuyLevelsType, BuyCompleteType, BuyFailsType, ConstantTypes DEF Aside, Still
  <2>6. CASE \E b \in Buyers : BuyWrite(b)
    BY <1>3, <2>6, BuyWriteType DEF Still
  <2>7. CASE NextDay
    BY <1>3, <2>7, NextDayType DEF Aside, Still
  <2> QED BY <1>3, <2>1, <2>2, <2>3, <2>4, <2>5, <2>6, <2>7 DEF DailyNext
<1> QED BY <1>1, <1>2, <1>3, NextForms, CheckInType

LEMMA NextValues == TypeInv /\ ValuesKept /\ [Next]_vars => ValuesKept'
<1> SUFFICES ASSUME TypeInv, ValuesKept, [Next]_vars PROVE ValuesKept'
  OBVIOUS
<1>1. CASE Still
  BY <1>1 DEF Still, ValuesKept, TicksOf
<1> QED BY <1>1, StepForms, CountedValues

\* A player's progress is the number of ticks kept for it, however hooks overlap, repeat
\* or fail half-way.
THEOREM ValuesCounted == Spec => []ValuesAreTicks
<1>1. Init => ValuesKept
  <2> SUFFICES ASSUME Init PROVE ValuesKept
    OBVIOUS
  <2>1. \A u \in Users, o \in Definitions, p \in Periods :
           /\ progress[<<u, o, p>>].value = 0
           /\ TicksOf(u, o, p) = {}
    BY DEF Init, DailyInit, NoProgress, TicksOf
  <2> QED BY <2>1, FS_EmptySet DEF ValuesKept
<1>2. Spec => []ValuesKept
  BY <1>1, TypingInv, NextValues, PTL DEF Spec
<1> QED BY <1>2, ValuesForm, PTL

-----------------------------------------------------------------------------
(* Every completed mission is paid.                                        *)

PaidXp(u, o, p) == \E l \in ledger : l.user = u /\ l.key = XpKey(o, p)

MissionsKept ==
    \A u \in Users, o \in Missions, p \in Periods :
        /\ progress[<<u, o, p>>].done => progress[<<u, o, p>>].value >= Target[o]
        /\ PaidXp(u, o, p) => progress[<<u, o, p>>].done
        /\ progress[<<u, o, p>>].done /\ Xp[o] > 0 => PaidXp(u, o, p)

LEMMA MissionsForm == MissionsKept <=> CompletedMissionsPaid
BY DEF MissionsKept, CompletedMissionsPaid, PaidXp

\* A key of a mission is the mission's and the period's, and never that of a purchase.
LEMMA XpKeyApart ==
    ASSUME NEW o \in Missions, NEW p, NEW q, NEW r
    PROVE  /\ XpKey(o, p) = XpKey(q, r) => o = q /\ p = r
           /\ XpKey(o, p)[1] # "buy"
BY ConstantTypes DEF XpKey

LEMMA CountedMissions ==
    ASSUME TypeInv, MissionsKept, NEW h \in hooks, NEW o \in h.left, o \in Definitions,
           Counted(h, o)
    PROVE  MissionsKept'
<1> DEFINE r == RowOf(h, o)
           n == Earned(r, o)
           key == XpKey(o, PeriodOf(h, o))
           new == [user |-> h.user, key |-> key, xp |-> n]
<1>1. /\ h.user \in Users /\ PeriodOf(h, o) \in Periods /\ r \in Progress
      /\ r = progress[<<h.user, o, PeriodOf(h, o)>>]
  BY HookFinds
<1>2. /\ Bumped(r, o).value = r.value + 1
      /\ Bumped(r, o).done <=> (r.done \/ r.value + 1 >= Target[o])
      /\ n \in Nat
      /\ n > 0 => o \in Missions /\ ~r.done /\ Bumped(r, o).done
      /\ o \in Missions /\ ~r.done /\ Bumped(r, o).done => n = Xp[o]
  BY <1>1, BumpedType
<1>3. /\ progress' = [progress EXCEPT ![<<h.user, o, PeriodOf(h, o)>>] = Bumped(r, o)]
      /\ progress \in [Users \X Definitions \X Periods -> Progress]
  BY DEF Counted, TypeInv, TypeOK, DailyTypeOK
<1>4. /\ ledger' = IF n = 0 THEN ledger ELSE ledger \cup {new}
      /\ n > 0 => \A l \in ledger : l.key # key
  BY DEF Counted, GrantXp
<1>5. new.user = h.user /\ new.key = key
  OBVIOUS
<1> SUFFICES ASSUME NEW u \in Users, NEW q \in Missions, NEW p \in Periods
             PROVE  /\ progress'[<<u, q, p>>].done => progress'[<<u, q, p>>].value >= Target[q]
                    /\ PaidXp(u, q, p)' => progress'[<<u, q, p>>].done
                    /\ progress'[<<u, q, p>>].done /\ Xp[q] > 0 => PaidXp(u, q, p)'
  BY DEF MissionsKept
<1>6. q \in Definitions /\ Target[q] \in Nat /\ Xp[q] \in Nat
  BY ConstantTypes
<1>7. /\ progress[<<u, q, p>>].done => progress[<<u, q, p>>].value >= Target[q]
      /\ PaidXp(u, q, p) => progress[<<u, q, p>>].done
      /\ progress[<<u, q, p>>].done /\ Xp[q] > 0 => PaidXp(u, q, p)
  BY DEF MissionsKept
<1>8. CASE u = h.user /\ q = o /\ p = PeriodOf(h, o)
  <2>1. progress'[<<u, q, p>>] = Bumped(r, o) /\ progress[<<u, q, p>>] = r
    BY <1>1, <1>3, <1>6, <1>8
  <2>2. r.value \in Nat
    BY <1>1 DEF Progress
  <2>3. PaidXp(u, q, p)' <=> PaidXp(u, q, p) \/ n > 0
    <3> HIDE DEF n, new, r
    <3>1. CASE n = 0
      BY <1>4, <3>1 DEF PaidXp
    <3>2. CASE n > 0
      <4>1. new \in ledger' /\ new.user = u /\ new.key = XpKey(q, p)
        BY <1>4, <1>5, <1>8, <3>2
      <4> QED BY <3>2, <4>1 DEF PaidXp
    <3> QED BY <1>2, <3>1, <3>2
  <2> HIDE DEF n, r, new, key
  <2>4. Bumped(r, o).done => Bumped(r, o).value >= Target[o]
    BY <1>2, <1>6, <1>7, <1>8, <2>1, <2>2
  <2>5. PaidXp(u, q, p)' => Bumped(r, o).done
    BY <1>2, <1>7, <2>1, <2>3
  <2>6. Bumped(r, o).done /\ Xp[q] > 0 => PaidXp(u, q, p)'
    BY <1>2, <1>7, <1>8, <2>1, <2>3
  <2> QED BY <1>8, <2>1, <2>4, <2>5, <2>6
<1>9. CASE ~(u = h.user /\ q = o /\ p = PeriodOf(h, o))
  <2>1. progress'[<<u, q, p>>] = progress[<<u, q, p>>]
    BY <1>1, <1>3, <1>6, <1>9
  <2>2. PaidXp(u, q, p)' <=> PaidXp(u, q, p)
    <3>1. new.user # u \/ new.key # XpKey(q, p)
      BY <1>5, <1>9, XpKeyApart
    <3> HIDE DEF new, n
    <3> QED BY <1>4, <3>1 DEF PaidXp
  <2> QED BY <1>7, <2>1, <2>2
<1> QED BY <1>8, <1>9

LEMMA NextMissions == TypeInv /\ MissionsKept /\ [Next]_vars => MissionsKept'
<1> SUFFICES ASSUME TypeInv, MissionsKept, [Next]_vars PROVE MissionsKept'
  OBVIOUS
<1>1. ASSUME Still, \A l \in ledger' : l \in ledger \/ l.key[1] = "buy",
             ledger \subseteq ledger'
      PROVE  MissionsKept'
  <2> SUFFICES ASSUME NEW u \in Users, NEW q \in Missions, NEW p \in Periods
               PROVE  /\ progress'[<<u, q, p>>].done => progress'[<<u, q, p>>].value >= Target[q]
                      /\ PaidXp(u, q, p)' => progress'[<<u, q, p>>].done
                      /\ progress'[<<u, q, p>>].done /\ Xp[q] > 0 => PaidXp(u, q, p)'
    BY DEF MissionsKept
  <2>1. <<u, q, p>> \in Users \X Definitions \X Periods
    BY ConstantTypes
  <2>2. /\ progress'[<<u, q, p>>].value = progress[<<u, q, p>>].value
        /\ progress'[<<u, q, p>>].done = progress[<<u, q, p>>].done
    BY <1>1, <2>1 DEF Still
  <2>3. PaidXp(u, q, p)' <=> PaidXp(u, q, p)
    BY <1>1, XpKeyApart DEF PaidXp
  <2> QED BY <2>2, <2>3 DEF MissionsKept
<1> QED BY <1>1, StepForms, CountedMissions

\* A mission is completed if and only if its XP is in the ledger, though the key of that XP
\* does not name the player: a collision undoes the completion with the rest.
THEOREM CompletedPaid == Spec => []CompletedMissionsPaid
<1>1. Init => MissionsKept
  BY DEF Init, DailyInit, NoProgress, MissionsKept, PaidXp, Definitions
<1>2. Spec => []MissionsKept
  BY <1>1, TypingInv, NextMissions, PTL DEF Spec
<1> QED BY <1>2, MissionsForm, PTL

-----------------------------------------------------------------------------
(* Totals.                                                                 *)

\* An entry of n has n units.
LEMMA EntryUnits ==
    ASSUME NEW x, NEW n \in Nat
    PROVE  IsFiniteSet({x} \X (1 .. n)) /\ Cardinality({x} \X (1 .. n)) = n
<1>1. IsFiniteSet(1 .. n) /\ Cardinality(1 .. n) = n
  BY FS_Interval
<1>2. IsFiniteSet({x}) /\ Cardinality({x}) = 1
  BY FS_Singleton
<1> QED BY <1>1, <1>2, FS_Product

\* Tables that differ in one entry have totals that differ by it.
LEMMA TotalChange ==
    ASSUME NEW S, NEW T, NEW f \in [S -> Nat], NEW g \in [T -> Nat], NEW x,
           S \ {x} = T \ {x}, \A y \in S \ {x} : g[y] = f[y], IsFiniteSet(Units(f))
    PROVE  /\ IsFiniteSet(Units(g))
           /\ Total(g) = Total(f) - (IF x \in S THEN f[x] ELSE 0)
                                  + (IF x \in T THEN g[x] ELSE 0)
<1> DEFINE a == IF x \in S THEN f[x] ELSE 0
           b == IF x \in T THEN g[x] ELSE 0
           A == {x} \X (1 .. a)
           B == {x} \X (1 .. b)
           R == Units(f) \ A
<1>1. a \in Nat /\ b \in Nat
  OBVIOUS
<1>2. A \subseteq Units(f)
  BY DEF Units
<1>3. Units(g) = R \cup B
  BY DEF Units
<1>4. R \cap B = {}
  BY DEF Units
<1> HIDE DEF a, b
<1>5. /\ IsFiniteSet(A) /\ Cardinality(A) = a
      /\ IsFiniteSet(B) /\ Cardinality(B) = b
  BY <1>1, EntryUnits
<1>6. Units(f) \cap A = A
  BY <1>2
<1>7. IsFiniteSet(R) /\ Cardinality(R) = Total(f) - a
  <2>1. /\ IsFiniteSet(R)
        /\ Cardinality(R) = Cardinality(Units(f)) - Cardinality(Units(f) \cap A)
    BY FS_Difference
  <2> QED BY <1>5, <1>6, <2>1 DEF Total
<1>8. IsFiniteSet(R \cup B) /\ Cardinality(R \cup B) = Cardinality(R) + b - 0
  BY <1>4, <1>5, <1>7, FS_Union, FS_EmptySet
<1>9. Total(f) \in Nat /\ Cardinality(R) \in Nat
  BY <1>7, FS_CardinalityType DEF Total
<1> QED BY <1>1, <1>3, <1>7, <1>8, <1>9 DEF Total, a, b

LEMMA TotalIsNat ==
    ASSUME NEW f, IsFiniteSet(Units(f))
    PROVE  Total(f) \in Nat
BY FS_CardinalityType DEF Total

\* A new entry adds what it says.
LEMMA TotalGrows ==
    ASSUME NEW S, NEW x, x \notin S, NEW T, T = S \cup {x},
           NEW f \in [S -> Nat], NEW g \in [T -> Nat],
           \A y \in S : g[y] = f[y], IsFiniteSet(Units(f))
    PROVE  IsFiniteSet(Units(g)) /\ Total(g) = Total(f) + g[x]
<1>1. S \ {x} = T \ {x} /\ \A y \in S \ {x} : g[y] = f[y]
  OBVIOUS
<1>2. /\ IsFiniteSet(Units(g))
      /\ Total(g) = Total(f) - (IF x \in S THEN f[x] ELSE 0) + (IF x \in T THEN g[x] ELSE 0)
  BY <1>1, TotalChange
<1>3. Total(f) \in Nat /\ g[x] \in Nat
  BY TotalIsNat
<1> QED BY <1>2, <1>3

\* A table all of zeros has no units.
LEMMA NoUnits ==
    ASSUME NEW f, \A x \in DOMAIN f : f[x] = 0
    PROVE  IsFiniteSet(Units(f)) /\ Total(f) = 0
<1>1. Units(f) = {}
  BY DEF Units
<1> QED BY <1>1, FS_EmptySet DEF Total

-----------------------------------------------------------------------------
(* The XP of a player is that of his ledger.                               *)

XpBooks == \A u \in Users : IsFiniteSet(Units(XpRows(u))) /\ xp[u] = Total(XpRows(u))

LEMMA XpTables ==
    ASSUME TypeInv, NEW u
    PROVE  XpRows(u) \in [{k \in ledger : k.user = u} -> Nat]
BY DEF XpRows, TypeInv, TypeOK, DailyTypeOK

LEMMA XpGranted ==
    ASSUME TypeInv, TypeInv', XpBooks, NEW u \in Users, NEW key, NEW n \in Nat,
           GrantXp(u, key, n), n > 0 => \A l \in ledger : l.key # key
    PROVE  XpBooks'
<1> DEFINE new == [user |-> u, key |-> key, xp |-> n]
<1>1. /\ ledger' = IF n = 0 THEN ledger ELSE ledger \cup {new}
      /\ xp' = [xp EXCEPT ![u] = xp[u] + n] /\ xp \in [Users -> Nat]
  BY DEF GrantXp, TypeInv, TypeOK, DailyTypeOK
<1>2. new.user = u /\ new.key = key /\ new.xp = n
  OBVIOUS
<1> SUFFICES ASSUME NEW v \in Users
             PROVE  IsFiniteSet(Units(XpRows(v)')) /\ xp'[v] = Total(XpRows(v)')
  BY DEF XpBooks, Units, Total
<1> HIDE DEF new
<1>3. IsFiniteSet(Units(XpRows(v))) /\ xp[v] = Total(XpRows(v)) /\ xp[v] \in Nat
  BY <1>1 DEF XpBooks
<1>4. CASE n = 0 \/ v # u
  <2>1. {k \in ledger' : k.user = v} = {k \in ledger : k.user = v}
    BY <1>1, <1>2, <1>4
  <2>2. XpRows(v)' = XpRows(v)
    BY <2>1 DEF XpRows
  <2>3. xp'[v] = xp[v]
    BY <1>1, <1>4
  <2> QED BY <1>3, <2>2, <2>3
<1>5. CASE n > 0 /\ v = u
  <2> DEFINE S == {k \in ledger : k.user = v}
             T == {k \in ledger' : k.user = v}
             f == XpRows(v)
             g == XpRows(v)'
  <2>1. new \notin S /\ T = S \cup {new}
    BY <1>1, <1>2, <1>5
  <2>2. f \in [S -> Nat] /\ g \in [T -> Nat]
    <3>1. f \in [S -> Nat]
      BY XpTables
    <3>2. g \in [T -> Nat]
      BY DEF XpRows, TypeInv, TypeOK, DailyTypeOK
    <3> QED BY <3>1, <3>2
  <2>3. \A y \in S : g[y] = f[y]
    BY <2>1 DEF XpRows
  <2>4. IsFiniteSet(Units(f))
    BY <1>3
  <2>5. g[new] = n /\ xp[v] = Total(f) /\ xp'[v] = xp[v] + n
    BY <1>1, <1>2, <1>3, <1>5, <2>1 DEF XpRows
  <2> HIDE DEF S, T, f, g
  <2>6. IsFiniteSet(Units(g)) /\ Total(g) = Total(f) + g[new]
    BY <2>1, <2>2, <2>3, <2>4, TotalGrows
  <2>7. IsFiniteSet(Units(g)) /\ xp'[v] = Total(g)
    BY <2>5, <2>6
  <2> QED BY <2>7 DEF g
<1> QED BY <1>4, <1>5

LEMMA XpSame ==
    ASSUME XpBooks, UNCHANGED <<ledger, xp>>
    PROVE  XpBooks'
<1> SUFFICES ASSUME NEW u \in Users
             PROVE  IsFiniteSet(Units(XpRows(u)')) /\ xp'[u] = Total(XpRows(u)')
  BY DEF XpBooks, Units, Total
<1>1. XpRows(u)' = XpRows(u)
  BY DEF XpRows
<1> QED BY <1>1 DEF XpBooks

LEMMA NextXp == TypeInv /\ XpBooks /\ [Next]_vars => XpBooks'
<1> SUFFICES ASSUME TypeInv, XpBooks, [Next]_vars PROVE XpBooks'
  OBVIOUS
<1>0. TypeInv'
  BY NextTypeInv
<1>1. CASE Untouched
  BY <1>1, XpSame DEF Untouched
<1>2. CASE UNCHANGED vars
  BY <1>2, XpSame DEF vars, dailyVars
<1>3. CASE DailyNext /\ Outside
  <2>1. CASE \E g \in Games : Play(g)
    BY <2>1, XpSame DEF Play
  <2>2. ASSUME NEW h \in hooks, NEW o \in h.left, Count(h, o) PROVE XpBooks'
    <3>1. /\ o \in Definitions
          /\ Counted(h, o) \/ UNCHANGED <<ticks, progress, ledger, xp>>
      BY <2>2, CountForms
    <3>2. h.user \in Users /\ Earned(RowOf(h, o), o) \in Nat
      BY <3>1, HookFinds, BumpedType
    <3> QED BY <1>0, <3>1, <3>2, XpGranted, XpSame DEF Counted
  <2>3. CASE \E u \in Users, o \in Tasks : ClaimTask(u, o)
    BY <2>3, XpSame DEF ClaimTask
  <2>4. CASE \E u \in Users, l \in Levels : ClaimLevel(u, l)
    BY <2>4, XpSame DEF ClaimLevel
  <2>5. CASE \E b \in Buyers : (\E q \in Quantities : BuyLevels(b, Shopper[b], q))
                               \/ BuyComplete(b, Shopper[b]) \/ BuyFails(b)
    BY <2>5, XpSame DEF BuyLevels, BuyComplete, BuyRead, BuyFails
  <2>6. ASSUME NEW b \in Buyers, BuyWrite(b) PROVE XpBooks'
    <3> DEFINE key == <<"buy", Cardinality(bought) + 1>>
    <3>1. buying[b] \in Buying /\ Cardinality(bought) \in Nat
      BY FS_CardinalityType DEF TypeInv, TypeOK, DailyTypeOK, PurchasesNumbered, Buying
    <3>2. buying[b].user \in Users /\ buying[b].xp \in Nat
      BY <3>1 DEF Buying
    <3>3. \A l \in ledger : l.key # key
      BY <3>1 DEF TypeInv, PurchasesNumbered
    <3>4. GrantXp(buying[b].user, key, buying[b].xp)
      BY <2>6 DEF BuyWrite
    <3> HIDE DEF key
    <3> QED BY <1>0, <3>2, <3>3, <3>4, XpGranted
  <2>7. CASE NextDay
    BY <2>7, XpSame DEF NextDay
  <2> QED BY <1>3, <2>1, <2>2, <2>3, <2>4, <2>5, <2>6, <2>7 DEF DailyNext
<1> QED BY <1>1, <1>2, <1>3, NextForms, CheckInType

\* A player's XP is the sum of the ledger rows that grant it to him, through missions,
\* overlapping purchases and colliding keys.
THEOREM XpIsLedger == Spec => []XpInSync
<1>1. Init => XpBooks
  <2> SUFFICES ASSUME Init, NEW u \in Users
               PROVE  IsFiniteSet(Units(XpRows(u))) /\ xp[u] = Total(XpRows(u))
    BY DEF XpBooks
  <2>1. xp[u] = 0 /\ \A x \in DOMAIN XpRows(u) : XpRows(u)[x] = 0
    BY DEF Init, DailyInit, XpRows
  <2> QED BY <2>1, NoUnits
<1>2. XpBooks => XpInSync
  BY DEF XpBooks, XpInSync
<1> QED BY <1>1, <1>2, TypingInv, NextXp, PTL DEF Spec

-----------------------------------------------------------------------------
(* The balance of a player is explained.                                   *)

Explained(u) ==
    /\ IsFiniteSet(Units(Prices(u))) /\ IsFiniteSet(Units(Charges(u)))
    /\ IsFiniteSet(Units(Prizes(u)))
    /\ balance[u] = Funds - Total(Prices(u)) - Total(Charges(u)) + Total(Prizes(u))

\* A task whose reward was delivered is marked claimed.
ClaimsMarked ==
    \A u \in Users, o \in Tasks, p \in Periods :
        given[<<u, <<o, p>>>>] > 0 => progress[<<u, o, p>>].claimed

BalanceBooks == ClaimsMarked /\ \A u \in Users : Explained(u)

\* What a reward pays.
LEMMA RewardTypes ==
    /\ \A r \in Rewards : PolOf(r) \in Nat
    /\ \A o \in Tasks, p \in Periods : <<o, p>> \in Rewards /\ PolOf(<<o, p>>) = Pol[o]
    /\ \A l \in Levels : <<"level", l>> \in Rewards /\ PolOf(<<"level", l>>) = Pol[l]
    /\ \A m \in Milestones : <<"streak", m>> \in Rewards /\ PolOf(<<"streak", m>>) = Pol[m]
<1>1. "level" \notin Tasks /\ "streak" \notin Tasks
  BY MissionsAssumption
<1> QED BY <1>1, ConstantTypes DEF Rewards, PolOf

LEMMA MoneyTables ==
    ASSUME TypeInv, NEW u \in Users
    PROVE  /\ Prices(u) \in [{c \in bought : c.user = u} -> Nat]
           /\ Charges(u) \in [Days -> Nat]
           /\ Prizes(u) \in [Won(u) -> Nat]
<1>1. Prices(u) \in [{c \in bought : c.user = u} -> Nat]
  BY DEF Prices, TypeInv, TypeOK, DailyTypeOK
<1>2. Charges(u) \in [Days -> Nat]
  <2>1. \A d \in Days : Cost \in Nat /\ charged[<<u, d>>] \in Nat
    BY ConstantTypes DEF TypeInv, TypeOK
  <2>2. \A d \in Days : Cost * charged[<<u, d>>] \in Nat
    BY <2>1
  <2> QED BY <2>2 DEF Charges
<1>3. Prizes(u) \in [Won(u) -> Nat]
  BY RewardTypes DEF Prizes, Won
<1> QED BY <1>1, <1>2, <1>3

\* The totals as numbers.
LEMMA MoneyTotals ==
    ASSUME TypeInv, NEW u \in Users, Explained(u)
    PROVE  /\ Total(Prices(u)) \in Nat /\ Total(Charges(u)) \in Nat
           /\ Total(Prizes(u)) \in Nat /\ Funds \in Nat /\ balance[u] \in Int
BY TotalIsNat, ConstantTypes DEF Explained, TypeInv, TypeOK, DailyTypeOK

\* What a table needs for a player's account to stay as it is.
LEMMA ExplainedSame ==
    ASSUME NEW u \in Users, Explained(u), balance'[u] = balance[u],
           Prices(u)' = Prices(u), Charges(u)' = Charges(u), Prizes(u)' = Prizes(u)
    PROVE  Explained(u)'
BY DEF Explained, Units, Total

\* A reward not yet delivered is.
LEMMA DeliverExplained ==
    ASSUME TypeInv, TypeInv', \A v \in Users : Explained(v), NEW u \in Users,
           NEW r \in Rewards, given[<<u, r>>] = 0, Deliver(u, r, PolOf(r)),
           UNCHANGED <<bought, charged>>
    PROVE  \A v \in Users : Explained(v)'
<1>1. /\ given \in [Users \X Rewards -> Nat] /\ balance \in [Users -> Int]
      /\ given' = [given EXCEPT ![<<u, r>>] = given[<<u, r>>] + 1]
      /\ balance' = [balance EXCEPT ![u] = balance[u] + PolOf(r)]
  BY DEF Deliver, TypeInv, TypeOK, DailyTypeOK
<1> SUFFICES ASSUME NEW v \in Users PROVE Explained(v)'
  OBVIOUS
<1>2. Prices(v)' = Prices(v) /\ Charges(v)' = Charges(v)
  BY DEF Prices, Charges
<1>3. CASE v # u
  <2>1. \A q \in Rewards : given'[<<v, q>>] = given[<<v, q>>]
    BY <1>1, <1>3
  <2>2. Won(v)' = Won(v)
    BY <2>1 DEF Won
  <2>3. Prizes(v)' = Prizes(v)
    BY <2>2 DEF Prizes, PolOf
  <2>4. balance'[v] = balance[v]
    BY <1>1, <1>3
  <2> QED BY <1>2, <2>3, <2>4, ExplainedSame
<1>4. CASE v = u
  <2> DEFINE S == Won(v)
             T == Won(v)'
             f == Prizes(v)
             g == Prizes(v)'
  <2>1. r \notin S /\ T = S \cup {r}
    <3>1. \A q \in Rewards : q # r => given'[<<v, q>>] = given[<<v, q>>]
      BY <1>1, <1>4
    <3>2. given[<<v, r>>] = 0 /\ given'[<<v, r>>] = 1
      BY <1>1, <1>4
    <3>3. \A q : (q \in T <=> q \in Rewards /\ given'[<<v, q>>] > 0)
                 /\ (q \in S <=> q \in Rewards /\ given[<<v, q>>] > 0)
      BY DEF Won
    <3> HIDE DEF S, T
    <3>4. r \notin S /\ r \in T
      BY <3>2, <3>3
    <3>5. \A q : q # r => (q \in T <=> q \in S)
      BY <3>1, <3>3
    <3> QED BY <3>4, <3>5
  <2>2. f \in [S -> Nat] /\ g \in [T -> Nat]
    <3>1. f \in [S -> Nat]
      BY MoneyTables
    <3>2. g \in [T -> Nat]
      <4>1. T \subseteq Rewards
        BY DEF Won
      <4>2. g = [q \in T |-> PolOf(q)]
        BY DEF Prizes, PolOf
      <4> QED BY <4>1, <4>2, RewardTypes
    <3> QED BY <3>1, <3>2
  <2>3. (\A y \in S : g[y] = f[y]) /\ g[r] = PolOf(r)
    BY <2>1 DEF Prizes, PolOf
  <2>4. IsFiniteSet(Units(f))
    BY DEF Explained
  <2>5. /\ balance[v] = Funds - Total(Prices(v)) - Total(Charges(v)) + Total(f)
        /\ balance'[v] = balance[v] + PolOf(r)
    BY <1>1, <1>4 DEF Explained
  <2>6. /\ Total(Prices(v)) \in Nat /\ Total(Charges(v)) \in Nat /\ Total(f) \in Nat
        /\ Funds \in Nat /\ PolOf(r) \in Nat
    BY MoneyTotals, RewardTypes
  <2>7. IsFiniteSet(Units(Prices(v))) /\ IsFiniteSet(Units(Charges(v)))
    BY DEF Explained
  <2> HIDE DEF S, T, f, g
  <2>8. IsFiniteSet(Units(g)) /\ Total(g) = Total(f) + PolOf(r)
    BY <2>1, <2>2, <2>3, <2>4, TotalGrows
  <2>9. balance'[v] = Funds - Total(Prices(v)) - Total(Charges(v)) + Total(g)
    BY <2>5, <2>6, <2>8
  <2> QED BY <1>2, <2>7, <2>8, <2>9 DEF Explained, g, Units, Total
<1> QED BY <1>3, <1>4

\* A purchase is written: its price leaves the balance as it enters the table.
LEMMA BuyExplained ==
    ASSUME TypeInv, TypeInv', \A v \in Users : Explained(v), NEW b \in Buyers, BuyWrite(b),
           UNCHANGED charged
    PROVE  \A v \in Users : Explained(v)'
<1> DEFINE u == buying[b].user
           price == buying[b].price
           new == [id |-> Cardinality(bought) + 1, user |-> u, price |-> price,
                   xp |-> buying[b].xp]
<1>1. Cardinality(bought) \in Nat
  BY FS_CardinalityType DEF TypeInv, PurchasesNumbered
<1>2. u \in Users /\ price \in Nat
  BY DEF TypeInv, TypeOK, DailyTypeOK
<1>3. /\ balance \in [Users -> Int] /\ balance' = [balance EXCEPT ![u] = balance[u] - price]
      /\ bought' = bought \cup {new} /\ UNCHANGED given
  BY DEF BuyWrite, Debited, TypeInv, TypeOK, DailyTypeOK
<1>4. new \notin bought /\ new.user = u /\ new.price = price
  BY <1>1 DEF TypeInv, PurchasesNumbered
<1> HIDE DEF u, price, new
<1> SUFFICES ASSUME NEW v \in Users PROVE Explained(v)'
  OBVIOUS
<1>5. Charges(v)' = Charges(v) /\ Prizes(v)' = Prizes(v)
  BY <1>3 DEF Charges, Prizes, Won, PolOf
<1>6. CASE v # u
  <2>1. {c \in bought' : c.user = v} = {c \in bought : c.user = v}
    BY <1>3, <1>4, <1>6
  <2>2. Prices(v)' = Prices(v)
    BY <2>1 DEF Prices
  <2>3. balance'[v] = balance[v]
    BY <1>3, <1>6
  <2> QED BY <1>5, <2>2, <2>3, ExplainedSame
<1>7. CASE v = u
  <2> DEFINE S == {c \in bought : c.user = v}
             T == {c \in bought' : c.user = v}
             f == Prices(v)
             g == Prices(v)'
  <2>1. new \notin S /\ T = S \cup {new}
    BY <1>3, <1>4, <1>7
  <2>2. f \in [S -> Nat] /\ g \in [T -> Nat]
    <3>1. f \in [S -> Nat]
      BY MoneyTables
    <3>2. g \in [T -> Nat]
      BY DEF Prices, TypeInv, TypeOK, DailyTypeOK
    <3> QED BY <3>1, <3>2
  <2>3. (\A y \in S : g[y] = f[y]) /\ g[new] = price
    BY <1>4, <2>1 DEF Prices
  <2>4. IsFiniteSet(Units(f))
    BY DEF Explained
  <2>5. /\ balance[v] = Funds - Total(f) - Total(Charges(v)) + Total(Prizes(v))
        /\ balance'[v] = balance[v] - price
    BY <1>3, <1>7 DEF Explained
  <2>6. /\ Total(f) \in Nat /\ Total(Charges(v)) \in Nat /\ Total(Prizes(v)) \in Nat
        /\ Funds \in Nat
    BY MoneyTotals
  <2>7. IsFiniteSet(Units(Charges(v))) /\ IsFiniteSet(Units(Prizes(v)))
    BY DEF Explained
  <2> HIDE DEF S, T, f, g
  <2>8. IsFiniteSet(Units(g)) /\ Total(g) = Total(f) + price
    BY <2>1, <2>2, <2>3, <2>4, TotalGrows
  <2>9. balance'[v] = Funds - Total(g) - Total(Charges(v)) + Total(Prizes(v))
    BY <1>2, <2>5, <2>6, <2>8
  <2> QED BY <1>5, <2>7, <2>8, <2>9 DEF Explained, g, Units, Total
<1> QED BY <1>6, <1>7

\* A check-in from the balance is charged to its day.
LEMMA CheckinExplained ==
    ASSUME TypeInv, TypeInv', \A v \in Users : Explained(v), NEW u \in Users,
           CheckinBalance(u)
    PROVE  \A v \in Users : Explained(v)'
<1> DEFINE d == day
<1>1. d \in Days /\ <<u, d>> \in Users \X Days
  BY DEF TypeInv, TypeOK, DailyTypeOK
<1>2. /\ balance \in [Users -> Int] /\ balance' = [balance EXCEPT ![u] = balance[u] - Cost]
      /\ charged \in [Users \X Days -> Nat]
      /\ charged' = [charged EXCEPT ![<<u, d>>] = charged[<<u, d>>] + 1]
      /\ UNCHANGED <<given, bought>>
  BY DEF CheckinBalance, untold, TypeInv, TypeOK, DailyTypeOK
<1> HIDE DEF d
<1> SUFFICES ASSUME NEW v \in Users PROVE Explained(v)'
  OBVIOUS
<1>3. Prices(v)' = Prices(v) /\ Prizes(v)' = Prizes(v)
  BY <1>2 DEF Prices, Prizes, Won, PolOf
<1>4. CASE v # u
  <2>1. \A e \in Days : charged'[<<v, e>>] = charged[<<v, e>>]
    BY <1>2, <1>4
  <2>2. Charges(v)' = Charges(v)
    BY <2>1 DEF Charges
  <2>3. balance'[v] = balance[v]
    BY <1>2, <1>4
  <2> QED BY <1>3, <2>2, <2>3, ExplainedSame
<1>5. CASE v = u
  <2> DEFINE f == Charges(v)
             g == Charges(v)'
  <2>1. Days \ {d} = Days \ {d} /\ f \in [Days -> Nat] /\ g \in [Days -> Nat]
    <3>1. f \in [Days -> Nat]
      BY MoneyTables
    <3>2. \A e \in Days : Cost \in Nat /\ charged'[<<v, e>>] \in Nat
      BY ConstantTypes DEF TypeInv, TypeOK
    <3>3. \A e \in Days : Cost * charged'[<<v, e>>] \in Nat
      BY <3>2
    <3>4. g = [e \in Days |-> Cost * charged'[<<v, e>>]]
      BY DEF Charges
    <3> QED BY <3>1, <3>3, <3>4
  <2>2. \A y \in Days \ {d} : g[y] = f[y]
    <3>1. \A y \in Days \ {d} : charged'[<<v, y>>] = charged[<<v, y>>]
      BY <1>1, <1>2
    <3> QED BY <3>1 DEF Charges
  <2>3. g[d] = f[d] + Cost /\ f[d] \in Nat /\ Cost \in Nat
    <3>1. charged'[<<v, d>>] = charged[<<v, d>>] + 1 /\ charged[<<v, d>>] \in Nat
      BY <1>1, <1>2, <1>5
    <3>2. g[d] = Cost * (charged[<<v, d>>] + 1) /\ f[d] = Cost * charged[<<v, d>>]
      BY <1>1, <3>1 DEF Charges
    <3>3. Cost \in Nat /\ f[d] \in Nat
      BY <1>1, <2>1, ConstantTypes
    <3> HIDE DEF f, g
    <3> QED BY <3>1, <3>2, <3>3
  <2>4. IsFiniteSet(Units(f))
    BY DEF Explained
  <2>5. /\ balance[v] = Funds - Total(Prices(v)) - Total(f) + Total(Prizes(v))
        /\ balance'[v] = balance[v] - Cost
    BY <1>2, <1>5 DEF Explained
  <2>6. /\ Total(Prices(v)) \in Nat /\ Total(f) \in Nat /\ Total(Prizes(v)) \in Nat
        /\ Funds \in Nat
    BY MoneyTotals
  <2>7. IsFiniteSet(Units(Prices(v))) /\ IsFiniteSet(Units(Prizes(v)))
    BY DEF Explained
  <2> HIDE DEF f, g
  <2>8. /\ IsFiniteSet(Units(g))
        /\ Total(g) = Total(f) - (IF d \in Days THEN f[d] ELSE 0)
                               + (IF d \in Days THEN g[d] ELSE 0)
    BY <2>1, <2>2, <2>4, TotalChange
  <2>9. Total(g) = Total(f) + Cost
    BY <1>1, <2>3, <2>6, <2>8
  <2>10. balance'[v] = Funds - Total(Prices(v)) - Total(g) + Total(Prizes(v))
    BY <2>3, <2>5, <2>6, <2>9
  <2> QED BY <1>3, <2>7, <2>8, <2>10 DEF Explained, g, Units, Total
<1> QED BY <1>4, <1>5

\* A step that touches none of the money.
MoneyStill == UNCHANGED <<given, bought, charged, balance>>

LEMMA StillExplained ==
    ASSUME \A v \in Users : Explained(v), MoneyStill
    PROVE  \A v \in Users : Explained(v)'
<1> SUFFICES ASSUME NEW v \in Users PROVE Explained(v)'
  OBVIOUS
<1>1. Prices(v)' = Prices(v) /\ Charges(v)' = Charges(v) /\ Prizes(v)' = Prizes(v)
  BY DEF MoneyStill, Prices, Charges, Prizes, Won, PolOf
<1> QED BY <1>1, ExplainedSame DEF MoneyStill

\* What was claimed stays so.
ClaimsKept ==
    \A i \in Users \X Definitions \X Periods : progress[i].claimed => progress'[i].claimed

LEMMA StillMarked ==
    ASSUME ClaimsMarked, ClaimsKept, UNCHANGED given
    PROVE  ClaimsMarked'
BY ConstantTypes DEF ClaimsMarked, ClaimsKept

LEMMA DeliverMarked ==
    ASSUME TypeInv, ClaimsMarked, ClaimsKept, NEW u \in Users, NEW r \in Rewards, NEW n,
           Deliver(u, r, n),
           \A o \in Tasks, p \in Periods : r = <<o, p>> => progress'[<<u, o, p>>].claimed
    PROVE  ClaimsMarked'
<1> SUFFICES ASSUME NEW v \in Users, NEW o \in Tasks, NEW p \in Periods,
                    given'[<<v, <<o, p>>>>] > 0
             PROVE  progress'[<<v, o, p>>].claimed
  BY DEF ClaimsMarked
<1>1. <<o, p>> \in Rewards /\ <<v, o, p>> \in Users \X Definitions \X Periods
  BY RewardTypes, ConstantTypes
<1>2. CASE v = u /\ r = <<o, p>>
  BY <1>2
<1>3. CASE ~(v = u /\ r = <<o, p>>)
  <2>1. given'[<<v, <<o, p>>>>] = given[<<v, <<o, p>>>>]
    BY <1>1, <1>3 DEF Deliver, TypeInv, TypeOK, DailyTypeOK
  <2> QED BY <1>1, <2>1 DEF ClaimsMarked, ClaimsKept
<1> QED BY <1>2, <1>3

LEMMA CountedClaims ==
    ASSUME TypeInv, NEW h \in hooks, NEW o \in h.left, o \in Definitions, Counted(h, o)
    PROVE  ClaimsKept
<1> DEFINE i == <<h.user, o, PeriodOf(h, o)>>
           r == RowOf(h, o)
<1>1. r \in Progress /\ r = progress[i] /\ i \in Users \X Definitions \X Periods
  BY HookFinds
<1>2. Bumped(r, o).claimed = r.claimed
  BY <1>1 DEF Bumped, Progress
<1>3. /\ progress' = [progress EXCEPT ![i] = Bumped(r, o)]
      /\ progress \in [Users \X Definitions \X Periods -> Progress]
  BY DEF Counted, TypeInv, TypeOK, DailyTypeOK
<1> HIDE DEF i, r
<1> QED BY <1>1, <1>2, <1>3 DEF ClaimsKept

LEMMA ClaimTaskBooks ==
    ASSUME TypeInv, TypeInv', BalanceBooks, NEW u \in Users, NEW o \in Tasks,
           ClaimTask(u, o), Outside
    PROVE  BalanceBooks'
<1> DEFINE p == Period(o, day)
           r == <<o, p>>
<1>1. /\ p \in Periods /\ r \in Rewards /\ PolOf(r) = Pol[o]
      /\ <<u, o, p>> \in Users \X Definitions \X Periods
  BY PeriodType, RewardTypes, ConstantTypes DEF TypeInv, TypeOK, DailyTypeOK
<1>2. /\ progress \in [Users \X Definitions \X Periods -> Progress]
      /\ given[<<u, r>>] \in Nat
  BY <1>1 DEF TypeInv, TypeOK, DailyTypeOK
<1>3. /\ ~progress[<<u, o, p>>].claimed
      /\ progress' = [progress EXCEPT ![<<u, o, p>>].claimed = TRUE]
      /\ Deliver(u, r, PolOf(r)) /\ UNCHANGED <<bought, charged>>
  BY <1>1 DEF ClaimTask, Claimable, Outside
<1>4. given[<<u, r>>] = 0
  BY <1>1, <1>2, <1>3 DEF BalanceBooks, ClaimsMarked
<1>5. ClaimsKept /\ progress'[<<u, o, p>>].claimed
  <2> HIDE DEF p, r
  <2> QED BY <1>1, <1>2, <1>3 DEF ClaimsKept, Progress
<1>6. \A q \in Tasks, d \in Periods : r = <<q, d>> => progress'[<<u, q, d>>].claimed
  BY <1>5
<1> HIDE DEF p, r
<1>7. ClaimsMarked'
  BY <1>1, <1>3, <1>5, <1>6, DeliverMarked DEF BalanceBooks
<1>8. \A v \in Users : Explained(v)'
  BY <1>1, <1>3, <1>4, DeliverExplained DEF BalanceBooks
<1> QED BY <1>7, <1>8 DEF BalanceBooks

\* A reward of another kind, given once.
LEMMA OtherBooks ==
    ASSUME TypeInv, TypeInv', BalanceBooks, NEW u \in Users, NEW r \in Rewards,
           r[1] \notin Tasks, given[<<u, r>>] = 0, Deliver(u, r, PolOf(r)),
           UNCHANGED <<progress, bought, charged>>
    PROVE  BalanceBooks'
<1>1. ClaimsKept
  BY DEF ClaimsKept
<1>2. \A o \in Tasks, p \in Periods : r # <<o, p>>
  OBVIOUS
<1>3. ClaimsMarked'
  BY <1>1, <1>2, DeliverMarked DEF BalanceBooks
<1>4. \A v \in Users : Explained(v)'
  BY DeliverExplained DEF BalanceBooks
<1> QED BY <1>3, <1>4 DEF BalanceBooks

LEMMA StillBooks ==
    ASSUME BalanceBooks, ClaimsKept, MoneyStill
    PROVE  BalanceBooks'
BY StillMarked, StillExplained DEF BalanceBooks, MoneyStill

LEMMA NextBooks == TypeInv /\ BalanceBooks /\ [Next]_vars => BalanceBooks'
<1> SUFFICES ASSUME TypeInv, BalanceBooks, [Next]_vars PROVE BalanceBooks'
  OBVIOUS
<1>0. TypeInv'
  BY NextTypeInv
<1>1. (UNCHANGED progress => ClaimsKept)
      /\ "level" \notin Tasks /\ "streak" \notin Tasks
  BY MissionsAssumption DEF ClaimsKept
<1>2. CASE UNCHANGED vars
  BY <1>1, <1>2, StillBooks DEF vars, dailyVars, MoneyStill
<1>3. CASE CheckInNext
  <2>1. CASE \E p \in Payments : Mine(p)
    BY <1>1, <2>1, StillBooks DEF Mine, dailyVars, MoneyStill
  <2>2. ASSUME NEW h \in hooks, NEW m \in h.left, GrantStreak(h, m) PROVE BalanceBooks'
    <3> DEFINE r == <<"streak", m>>
    <3>1. h.user \in Users /\ m \in Milestones
      BY <2>2 DEF GrantStreak, TypeInv, TypeOK, DailyTypeOK, Hooks
    <3>2. r \in Rewards /\ PolOf(r) = Pol[m] /\ r[1] \notin Tasks
      BY <1>1, <3>1, RewardTypes
    <3>3. UNCHANGED <<progress, bought, charged>>
      BY <2>2 DEF GrantStreak
    <3>4. \/ given[<<h.user, r>>] = 0 /\ Deliver(h.user, r, PolOf(r))
          \/ UNCHANGED <<given, balance>>
      BY <2>2, <3>2 DEF GrantStreak
    <3> HIDE DEF r
    <3> QED BY <1>0, <1>1, <3>1, <3>2, <3>3, <3>4, OtherBooks, StillBooks DEF MoneyStill
  <2>3. CASE \E c \in Callers : \/ \E s \in Submits : ConfirmRead(c, s[1], s[3])
                                \/ \E u \in Users, d \in Days : FinalizeRead(c, u, d)
                                \/ GiveUp(c)
    BY <1>1, <2>3, StillBooks DEF ConfirmRead, FinalizeRead, GiveUp, dailyVars, MoneyStill
  <2>4. CASE \E c \in Callers : ConfirmWrite(c) \/ FinalizeWrite(c)
    BY <1>1, <2>4, StillBooks DEF ConfirmWrite, FinalizeWrite, untold, MoneyStill
  <2>5. ASSUME NEW u \in Users, CheckinBalance(u) PROVE BalanceBooks'
    <3>1. ClaimsMarked'
      BY <1>1, <2>5, StillMarked DEF CheckinBalance, untold, BalanceBooks
    <3> QED BY <1>0, <2>5, <3>1, CheckinExplained DEF BalanceBooks
  <2> QED BY <1>3, <2>1, <2>2, <2>3, <2>4, <2>5 DEF CheckInNext
<1>4. CASE DailyNext /\ Outside
  <2>1. CASE \E g \in Games : Play(g)
    BY <1>1, <1>4, <2>1, StillBooks DEF Play, Outside, MoneyStill
  <2>2. ASSUME NEW h \in hooks, NEW o \in h.left, Count(h, o) PROVE BalanceBooks'
    <3>1. ClaimsKept /\ UNCHANGED <<given, bought, balance>>
      BY <1>1, <2>2, CountForms, CountedClaims
    <3> QED BY <1>4, <3>1, StillBooks DEF Outside, MoneyStill
  <2>3. CASE \E u \in Users, o \in Tasks : ClaimTask(u, o)
    BY <1>0, <1>4, <2>3, ClaimTaskBooks
  <2>4. ASSUME NEW u \in Users, NEW l \in Levels, ClaimLevel(u, l) PROVE BalanceBooks'
    <3> DEFINE r == <<"level", l>>
    <3>1. r \in Rewards /\ PolOf(r) = Pol[l] /\ r[1] \notin Tasks
      BY <1>1, RewardTypes
    <3>2. given[<<u, r>>] = 0 /\ Deliver(u, r, PolOf(r)) /\ UNCHANGED <<progress, bought, charged>>
      BY <1>4, <2>4, <3>1 DEF ClaimLevel, Outside
    <3> HIDE DEF r
    <3> QED BY <1>0, <3>1, <3>2, OtherBooks
  <2>5. CASE \E b \in Buyers : (\E q \in Quantities : BuyLevels(b, Shopper[b], q))
                               \/ BuyComplete(b, Shopper[b]) \/ BuyFails(b)
    BY <1>1, <1>4, <2>5, StillBooks
       DEF BuyLevels, BuyComplete, BuyRead, BuyFails, Outside, MoneyStill
  <2>6. ASSUME NEW b \in Buyers, BuyWrite(b) PROVE BalanceBooks'
    <3>1. ClaimsMarked'
      BY <1>1, <2>6, StillMarked DEF BuyWrite, BalanceBooks
    <3> QED BY <1>0, <1>4, <2>6, <3>1, BuyExplained DEF BalanceBooks, Outside
  <2>7. CASE NextDay
    BY <1>1, <1>4, <2>7, StillBooks DEF NextDay, Outside, MoneyStill
  <2> QED BY <1>4, <2>1, <2>2, <2>3, <2>4, <2>5, <2>6, <2>7 DEF DailyNext
<1> QED BY <1>2, <1>3, <1>4, NextForms

\* A player's balance is what he started with, less what he bought and paid for check-ins,
\* plus each reward he won once, however purchases, claims, hooks and check-ins overlap.
THEOREM BalanceIsExplained == Spec => []BalanceExplained
<1>1. Init => BalanceBooks
  <2> SUFFICES ASSUME Init PROVE BalanceBooks
    OBVIOUS
  <2>1. ClaimsMarked
    BY RewardTypes DEF Init, DailyInit, ClaimsMarked
  <2>2. ASSUME NEW u \in Users PROVE Explained(u)
    <3>1. DOMAIN Prices(u) = {} /\ DOMAIN Prizes(u) = {}
      <4>1. bought = {} /\ \A r \in Rewards : ~(given[<<u, r>>] > 0)
        BY DEF Init, DailyInit
      <4>2. {c \in bought : c.user = u} = {} /\ Won(u) = {}
        BY <4>1 DEF Won
      <4> QED BY <4>2 DEF Prices, Prizes
    <3>2. \A x \in DOMAIN Charges(u) : Charges(u)[x] = 0
      <4>1. \A d \in Days : charged[<<u, d>>] = 0
        BY DEF Init
      <4>2. \A d \in Days : Cost * charged[<<u, d>>] = 0
        BY <4>1, ConstantTypes
      <4> QED BY <4>2 DEF Charges
    <3>3. balance[u] = Funds /\ Funds \in Nat
      BY ConstantTypes DEF Init, DailyInit
    <3> QED BY <3>1, <3>2, <3>3, NoUnits DEF Explained
  <2> QED BY <2>1, <2>2 DEF BalanceBooks
<1>2. BalanceBooks => BalanceExplained
  BY DEF BalanceBooks, Explained, BalanceExplained
<1> QED BY <1>1, <1>2, TypingInv, NextBooks, PTL DEF Spec
=============================================================================
