----------------------------- MODULE AutoMining -----------------------------
(***************************************************************************)
(* Auto mining v2: hash rate granted cycle by cycle to one player.         *)
(*   server/services/autoMiningV2/autoMiningV2Service.ts                   *)
(*   server/services/autoMiningV2/autoMiningV2Domain.ts                    *)
(*   server/cron/gamePowerCleanup.ts          deletes what has expired     *)
(* Players share nothing here, so the module is about one.  Each handler   *)
(* takes its clock and reads in one step and writes in a later one; only   *)
(* the write of a claim is conditional, on the next claim it has read.     *)
(***************************************************************************)
EXTENDS Integers, Sequences, Totals

CONSTANTS
    Sessions, NoSession,        \* ids of auto_mining_v2_sessions rows
    Impressions, NoImpression,  \* ids of auto_mining_v2_banner_impressions rows
    Callers,        \* concurrent claim, banner and click handlers
    Starters,       \* concurrent handlers of session/start
    Modes,          \* modes the player starts sessions in
    HashRate,       \* ["normal", "turbo" -> Nat]  5 and 10 H/s
    DailyLimit,     \* DAILY_LIMIT_HASH (1000)
    Cycle, Skew,    \* CYCLE_SECONDS (60) and the skew of isClaimDue (5)
    Day,            \* length of a UTC day
    Ttl,            \* GRANT_TTL_MS (24 h)
    Grace, Delay,   \* CLICK_GRACE_MS (3 min), MIN_CLICK_DELAY_MS (400 ms)
    StaleAfter,     \* age at which an unused impression is deleted (7 days)
    LastTime        \* bound on the clock

ASSUME AutoMiningAssumption ==
    /\ NoSession \notin Sessions /\ NoImpression \notin Impressions
    /\ Modes \subseteq {"normal", "turbo"}
    /\ HashRate \in [{"normal", "turbo"} -> Nat]
    /\ {DailyLimit, Cycle, Skew, Grace, Delay, StaleAfter, LastTime} \subseteq Nat
    /\ Day \in Nat \ {0}
    /\ Ttl \in Nat /\ Ttl >= Day /\ Grace < Ttl

VARIABLES
    now,        \* the server's clock
    session,    \* [Sessions -> row]
    impression, \* [Impressions -> row]
    grants,     \* auto_mining_v2_power_grants in the order of their ids; a deleted
                \* row stays with row = FALSE
    call,       \* [Callers -> handler]
    starting    \* [Starters -> handler of session/start]

vars == <<now, session, impression, grants, call, starting>>

Times == 0 .. LastTime
None  == -1

Session    == [mode : {"none", "normal", "turbo"}, next : Nat, active : BOOLEAN]
Impression == [session : Sessions \cup {NoSession}, created : Times,
               clicked : Times \cup {None}, grant : Nat,
               row : {"unused", "present", "deleted"}]
Grant == [mode : {"normal", "turbo"}, session : Sessions,
          impression : Impressions \cup {NoImpression}, earned : Times, row : BOOLEAN]
Call  == [op : {"none", "normal", "turbo", "banner", "click"}, at : Times,
          impression : Impressions \cup {NoImpression},
          session : Sessions \cup {NoSession}, next : Nat]
Start == [mode : {"none", "normal", "turbo"}, at : Times, seen : SUBSET Sessions]

NewSession    == [mode |-> "none", next |-> 0, active |-> FALSE]
NewImpression == [session |-> NoSession, created |-> 0, clicked |-> None, grant |-> 0,
                  row |-> "unused"]
Idle == [op |-> "none", at |-> 0, impression |-> NoImpression,
         session |-> NoSession, next |-> 0]
NotStarting == [mode |-> "none", at |-> 0, seen |-> {}]

TypeOK ==
    /\ now \in Times
    /\ session \in [Sessions -> Session]
    /\ impression \in [Impressions -> Impression]
    /\ grants \in Seq(Grant)
    /\ call \in [Callers -> Call]
    /\ starting \in [Starters -> Start]

Init ==
    /\ now = 0
    /\ session = [s \in Sessions |-> NewSession]
    /\ impression = [i \in Impressions |-> NewImpression]
    /\ grants = <<>>
    /\ call = [c \in Callers |-> Idle]
    /\ starting = [c \in Starters |-> NotStarting]

Tick ==
    /\ now < LastTime
    /\ now' = now + 1
    /\ UNCHANGED <<session, impression, grants, call, starting>>

-----------------------------------------------------------------------------
(* Sessions.                                                               *)

Active == {s \in Sessions : session[s].active}

NextClaimBack(t) == t - Cycle
\* nextClaimAfterSuccess
NextClaim(t) == t + Cycle

\* Deactivates the sessions its statement sees; another start in flight stays unseen.
StartBegin(c, mode) ==
    /\ starting[c] = NotStarting
    /\ starting' = [starting EXCEPT ![c] = [mode |-> mode, at |-> now, seen |-> Active]]
    /\ UNCHANGED <<now, session, impression, grants, call>>

Replaced(old, s, mode, next) ==
    [x \in Sessions |->
        IF x = s THEN [mode |-> mode, next |-> next, active |-> TRUE]
        ELSE IF x \in old THEN [session[x] EXCEPT !.active = FALSE]
        ELSE session[x]]

StartCommit(c, s) ==
    /\ starting[c] # NotStarting
    /\ session[s] = NewSession
    /\ session' = Replaced(starting[c].seen, s, starting[c].mode,
                         NextClaim(starting[c].at))
    /\ starting' = [starting EXCEPT ![c] = NotStarting]
    /\ UNCHANGED <<now, impression, grants, call>>

StopSession ==
    /\ Active # {}
    /\ session' = [s \in Sessions |-> [session[s] EXCEPT !.active = FALSE]]
    /\ UNCHANGED <<now, impression, grants, call, starting>>

-----------------------------------------------------------------------------
(* Handlers of a running session.                                          *)

\* The handler's transaction rolls back, or finds at its write that it must.
GiveUp(c) ==
    /\ call[c] # Idle
    /\ call' = [call EXCEPT ![c] = Idle]
    /\ UNCHANGED <<now, session, impression, grants, starting>>

\* The handler op has taken its clock, and read session s and impression i.
Read(c, op, s, i) ==
    /\ call[c] = Idle
    /\ call' = [call EXCEPT ![c] =
                   [op |-> op, at |-> now, impression |-> i, session |-> s,
                    next |-> IF s = NoSession THEN 0 ELSE session[s].next]]
    /\ UNCHANGED <<now, session, impression, grants, starting>>

DayOf(t) == t \div Day

\* isClaimDue
Due(s, t) == t >= session[s].next - Skew

Rates(G) == [g \in G |-> HashRate[grants[g].mode]]

\* sumDailyGrantedHash: the rows that are still in the table.
GrantedRows(t) == {g \in DOMAIN grants : grants[g].row /\ DayOf(grants[g].earned) = DayOf(t)}
Granted(t)     == Total(Rates(GrantedRows(t)))

UnderLimitBefore(mode, t) == Granted(t) <= DailyLimit
\* canGrantDaily
UnderLimit(mode, t) == Granted(t) + HashRate[mode] <= DailyLimit

UsableAgain(i, s, t) ==
    /\ impression[i].row = "present" /\ impression[i].session = s
    /\ impression[i].clicked # None
    /\ impression[i].clicked - impression[i].created >= Delay
    /\ t - impression[i].created <= Grace

\* validateImpressionForTurboClaim
Usable(i, s, t) ==
    /\ impression[i].row = "present" /\ impression[i].session = s
    /\ impression[i].clicked # None
    /\ impression[i].grant = 0
    /\ impression[i].clicked - impression[i].created >= Delay
    /\ t - impression[i].created <= Grace

\* claimNormal
ClaimNormal(c, s) ==
    /\ s \in Active /\ session[s].mode = "normal"
    /\ Due(s, now)
    /\ UnderLimit("normal", now)
    /\ Read(c, "normal", s, NoImpression)

\* claimTurbo
ClaimTurbo(c, s, i) ==
    /\ s \in Active /\ session[s].mode = "turbo"
    /\ Usable(i, s, now)
    /\ Due(s, now)
    /\ UnderLimit("turbo", now)
    /\ Read(c, "turbo", s, i)

StillFirstAlways(c) == TRUE
\* The updateMany that moves the next claim: no claim has moved it since the read.
StillFirst(c) ==
    LET s == call[c].session
    IN  session[s].active /\ session[s].next = call[c].next

\* The claim's writes; an impression deleted since the read rolls them back.
ClaimWrite(c) ==
    LET s == call[c].session
        i == call[c].impression
    IN  /\ call[c].op \in {"normal", "turbo"}
        /\ StillFirst(c)
        /\ call[c].op = "turbo" => impression[i].row = "present"
        /\ session' = [session EXCEPT ![s].next = NextClaim(call[c].at)]
        /\ grants' = Append(grants, [mode |-> call[c].op, session |-> s, impression |-> i,
                                     earned |-> call[c].at, row |-> TRUE])
        /\ impression' = IF call[c].op = "turbo"
                           THEN [impression EXCEPT ![i].grant = Len(grants) + 1]
                           ELSE impression
        /\ call' = [call EXCEPT ![c] = Idle]
        /\ UNCHANGED <<now, starting>>

\* getOrCreateBannerImpression: an impression of the session still open is returned.
Open(s, t) == {i \in Impressions : /\ impression[i].row = "present"
                                   /\ impression[i].session = s
                                   /\ impression[i].grant = 0
                                   /\ impression[i].created >= t - Grace}

GetBanner(c, s) ==
    /\ s \in Active /\ session[s].mode = "turbo"
    /\ Due(s, now)
    /\ UnderLimit("turbo", now)
    /\ Open(s, now) = {}
    /\ Read(c, "banner", s, NoImpression)

\* The database dates the row when it is inserted.
CreateImpression(c, i) ==
    /\ call[c].op = "banner"
    /\ impression[i] = NewImpression
    /\ impression' = [impression EXCEPT ![i].session = call[c].session,
                                        ![i].created = now, ![i].row = "present"]
    /\ call' = [call EXCEPT ![c] = Idle]
    /\ UNCHANGED <<now, session, grants, starting>>

\* registerBannerClick
Click(c, i) ==
    /\ impression[i].row = "present"
    /\ impression[i].grant = 0
    /\ impression[i].clicked = None
    /\ now - impression[i].created \in Delay .. Grace
    /\ Read(c, "click", NoSession, i)

StoreClick(c) ==
    LET i == call[c].impression
    IN  /\ call[c].op = "click"
        /\ impression[i].row = "present"
        /\ impression' = [impression EXCEPT ![i].clicked = call[c].at]
        /\ call' = [call EXCEPT ![c] = Idle]
        /\ UNCHANGED <<now, session, grants, starting>>

-----------------------------------------------------------------------------
(* The cleanup of every five minutes.  Deleting a grant clears the         *)
(* reference its impression holds.                                         *)

Expired(g) == grants[g].row /\ grants[g].earned + Ttl < now
Stale(i)   == /\ impression[i].row = "present" /\ impression[i].grant = 0
              /\ impression[i].created < now - StaleAfter

Cleanup ==
    /\ grants' = [g \in DOMAIN grants |->
                     IF Expired(g) THEN [grants[g] EXCEPT !.row = FALSE] ELSE grants[g]]
    /\ impression' =
          [i \in Impressions |->
              IF Stale(i) THEN [impression[i] EXCEPT !.row = "deleted"]
              ELSE IF impression[i].grant # 0 /\ Expired(impression[i].grant)
                     THEN [impression[i] EXCEPT !.grant = 0]
              ELSE impression[i]]
    /\ UNCHANGED <<now, session, call, starting>>

Next ==
    \/ Tick
    \/ \E c \in Starters, m \in Modes : StartBegin(c, m)
    \/ \E c \in Starters, s \in Sessions : StartCommit(c, s)
    \/ StopSession
    \/ \E c \in Callers, s \in Sessions : ClaimNormal(c, s) \/ GetBanner(c, s)
    \/ \E c \in Callers, s \in Sessions, i \in Impressions : ClaimTurbo(c, s, i)
    \/ \E c \in Callers : ClaimWrite(c) \/ StoreClick(c) \/ GiveUp(c)
    \/ \E c \in Callers, i \in Impressions : CreateImpression(c, i) \/ Click(c, i)
    \/ Cleanup

Spec == Init /\ [][Next]_vars

-----------------------------------------------------------------------------
(* Properties.                                                             *)

EarnedOn(d) == {g \in DOMAIN grants : DayOf(grants[g].earned) = d}

\* Whatever is deleted meanwhile, and however claims interleave, the grants of a UTC
\* day stay within the cap ("1000 H/s daily cap", docs/AUTO_MINING_V2.md:5).
DailyLimitHolds ==
    \A d \in {DayOf(t) : t \in Times} : Total(Rates(EarnedOn(d))) <= DailyLimit

\* Two grants of one session are a cycle apart, less the skew: a claim that read the
\* session before another one committed is not granted.
GrantsPaced ==
    \A g, h \in DOMAIN grants :
        (g < h /\ grants[g].session = grants[h].session)
            => grants[h].earned - grants[g].earned >= Cycle - Skew

\* An impression pays for one grant ("one grant per impression"), also after the grant
\* has expired and its deletion has cleared the reference in the impression.
ImpressionPaysOnce ==
    \A g, h \in DOMAIN grants :
        (grants[g].impression = grants[h].impression
         /\ grants[g].impression # NoImpression) => g = h

-----------------------------------------------------------------------------
(* Stated by the docs, and not kept by the code: see README.md, section 5. *)

\* "Ends any prior active session" (docs/AUTO_MINING_V2.md:16).
OneActiveSession == \A s, r \in Active : s = r
=============================================================================
