-------------------------- MODULE AutoMiningProofs --------------------------
(***************************************************************************)
(* Theorems about AutoMining, for any number of concurrent claims, starts, *)
(* sessions and impressions: grants of a session are paced, impressions    *)
(* pay once, and the grants of a day stay within the cap.                  *)
(***************************************************************************)
EXTENDS AutoMining, FiniteSetTheorems, TLAPS

\* A handler in flight has what its write uses.
CallsOK ==
    \A c \in Callers :
        /\ call[c].op \in {"normal", "turbo", "banner"} => call[c].session \in Sessions
        /\ call[c].op \in {"turbo", "click"} => call[c].impression \in Impressions
        /\ call[c].op = "normal" => call[c].impression = NoImpression

TypeInv == TypeOK /\ CallsOK

LEMMA ConstantsAreNat ==
    /\ Cycle \in Nat /\ Skew \in Nat /\ Grace \in Nat /\ Ttl \in Nat /\ LastTime \in Nat
    /\ \A t \in Times : t \in Nat
    /\ 0 \in Times
BY AutoMiningAssumption DEF Times

LEMMA InitTypeInv == Init => TypeInv
BY AutoMiningAssumption
DEF Init, TypeInv, TypeOK, CallsOK, NewSession, Session, NewImpression, Impression, Times,
    None, Idle, Call, NotStarting, Start

LEMMA IdleType == Idle \in Call /\ Idle.op = "none"
BY ConstantsAreNat DEF Idle, Call

LEMMA ReadType ==
    ASSUME TypeInv, NEW c \in Callers, NEW op \in {"normal", "turbo", "banner", "click"},
           NEW s \in Sessions \cup {NoSession}, NEW i \in Impressions \cup {NoImpression},
           op # "click" => s \in Sessions,
           op \in {"turbo", "click"} => i \in Impressions,
           op = "normal" => i = NoImpression,
           Read(c, op, s, i)
    PROVE  TypeInv'
<1>1. (IF s = NoSession THEN 0 ELSE session[s].next) \in Nat
  BY DEF TypeInv, TypeOK, Session
<1>2. call' = [call EXCEPT ![c] = [op |-> op, at |-> now, impression |-> i, session |-> s,
                   next |-> IF s = NoSession THEN 0 ELSE session[s].next]]
  BY DEF Read
<1>3. [op |-> op, at |-> now, impression |-> i, session |-> s,
       next |-> IF s = NoSession THEN 0 ELSE session[s].next] \in Call
  BY <1>1 DEF TypeInv, TypeOK, Call
<1>4. call' \in [Callers -> Call]
  BY <1>2, <1>3 DEF TypeInv, TypeOK
<1>5. CallsOK'
  BY <1>2 DEF TypeInv, TypeOK, CallsOK
<1> QED BY <1>4, <1>5 DEF Read, TypeInv, TypeOK

LEMMA NextTypeInv == TypeInv /\ [Next]_vars => TypeInv'
<1> SUFFICES ASSUME TypeInv, [Next]_vars PROVE TypeInv'
  OBVIOUS
<1> USE ConstantsAreNat
<1>1. CASE Tick
  BY <1>1 DEF Tick, TypeInv, TypeOK, CallsOK, Times
<1>2. ASSUME NEW c \in Starters, NEW m \in Modes, StartBegin(c, m) PROVE TypeInv'
  BY <1>2, AutoMiningAssumption DEF StartBegin, TypeInv, TypeOK, CallsOK, Start, Active
<1>3. ASSUME NEW c \in Starters, NEW s \in Sessions, StartCommit(c, s) PROVE TypeInv'
  <2>1. NextClaim(starting[c].at) \in Nat /\ starting[c] \in Start
    BY DEF NextClaim, TypeInv, TypeOK, Start
  <2>2. session' \in [Sessions -> Session]
    BY <1>3, <2>1, ZenonT(60) DEF StartCommit, Replaced, TypeInv, TypeOK, Session, Start
  <2>3. starting' \in [Starters -> Start]
    BY <1>3 DEF StartCommit, TypeInv, TypeOK, Start, NotStarting, Times
  <2> QED BY <1>3, <2>2, <2>3 DEF StartCommit, TypeInv, TypeOK, CallsOK
<1>4. CASE StopSession
  BY <1>4 DEF StopSession, TypeInv, TypeOK, CallsOK, Session
<1>5. ASSUME NEW c \in Callers, NEW s \in Sessions, ClaimNormal(c, s) PROVE TypeInv'
  BY <1>5, ReadType DEF ClaimNormal
<1>6. ASSUME NEW c \in Callers, NEW s \in Sessions, GetBanner(c, s) PROVE TypeInv'
  BY <1>6, ReadType DEF GetBanner
<1>7. ASSUME NEW c \in Callers, NEW s \in Sessions, NEW i \in Impressions, ClaimTurbo(c, s, i)
      PROVE TypeInv'
  BY <1>7, ReadType DEF ClaimTurbo
<1>8. ASSUME NEW c \in Callers, ClaimWrite(c) PROVE TypeInv'
  <2> DEFINE s == call[c].session
             i == call[c].impression
  <2>1. /\ call[c] \in Call /\ s \in Sessions
        /\ call[c].op = "turbo" => i \in Impressions
        /\ call[c].op \in {"normal", "turbo"}
    BY <1>8 DEF ClaimWrite, TypeInv, TypeOK, CallsOK
  <2>2. NextClaim(call[c].at) \in Nat
    BY <2>1 DEF Call, NextClaim
  <2>3. session' \in [Sessions -> Session]
    BY <1>8, <2>1, <2>2 DEF ClaimWrite, TypeInv, TypeOK, Session
  <2>4. grants' \in Seq(Grant)
    BY <1>8, <2>1 DEF ClaimWrite, TypeInv, TypeOK, Call, Grant
  <2>5. impression' \in [Impressions -> Impression]
    <3>1. Len(grants) + 1 \in Nat /\ impression \in [Impressions -> Impression]
      BY DEF TypeInv, TypeOK
    <3>2. CASE call[c].op = "turbo"
      <4>1. impression' = [impression EXCEPT ![i].grant = Len(grants) + 1]
        BY <1>8, <3>2 DEF ClaimWrite
      <4>2. i \in Impressions /\ impression[i] \in Impression
        BY <2>1, <3>1, <3>2
      <4> HIDE DEF i
      <4>3. [impression[i] EXCEPT !.grant = Len(grants) + 1] \in Impression
        BY <3>1, <4>2 DEF Impression
      <4>4. impression' = [impression EXCEPT ![i] = [impression[i] EXCEPT !.grant = Len(grants) + 1]]
        BY <3>1, <4>1, <4>2
      <4> QED BY <3>1, <4>2, <4>3, <4>4
    <3> QED BY <1>8, <3>1, <3>2 DEF ClaimWrite
  <2>6. call' \in [Callers -> Call] /\ CallsOK'
    BY <1>8, IdleType DEF ClaimWrite, TypeInv, TypeOK, CallsOK
  <2> QED BY <1>8, <2>3, <2>4, <2>5, <2>6 DEF ClaimWrite, TypeInv, TypeOK
<1>9. ASSUME NEW c \in Callers, StoreClick(c) PROVE TypeInv'
  <2>1. call[c] \in Call /\ call[c].impression \in Impressions
    BY <1>9 DEF StoreClick, TypeInv, TypeOK, CallsOK
  <2>2. impression' \in [Impressions -> Impression]
    <3> DEFINE i == call[c].impression
               r == [impression[i] EXCEPT !.clicked = call[c].at]
    <3>1. impression[i] \in Impression /\ call[c].at \in Times
      BY <2>1 DEF TypeInv, TypeOK, Call
    <3>2. r \in Impression
      BY <3>1 DEF Impression
    <3>3. impression' = [impression EXCEPT ![i] = r]
      BY <1>9 DEF StoreClick
    <3> HIDE DEF i, r
    <3> QED BY <3>2, <3>3 DEF TypeInv, TypeOK
  <2>3. call' \in [Callers -> Call] /\ CallsOK'
    BY <1>9, IdleType DEF StoreClick, TypeInv, TypeOK, CallsOK
  <2> QED BY <1>9, <2>2, <2>3 DEF StoreClick, TypeInv, TypeOK
<1>10. ASSUME NEW c \in Callers, GiveUp(c) PROVE TypeInv'
  BY <1>10, IdleType DEF GiveUp, TypeInv, TypeOK, CallsOK
<1>11. ASSUME NEW c \in Callers, NEW i \in Impressions, CreateImpression(c, i) PROVE TypeInv'
  <2>1. call[c] \in Call /\ call[c].session \in Sessions
    BY <1>11 DEF CreateImpression, TypeInv, TypeOK, CallsOK
  <2>2. impression' \in [Impressions -> Impression]
    <3> DEFINE r == [impression[i] EXCEPT !.session = call[c].session, !.created = now,
                                          !.row = "present"]
    <3>1. impression[i] \in Impression /\ now \in Times
      BY DEF TypeInv, TypeOK
    <3>2. r \in Impression
      BY <2>1, <3>1 DEF Impression
    <3>3. impression' = [impression EXCEPT ![i] = r]
      BY <1>11 DEF CreateImpression
    <3> HIDE DEF r
    <3> QED BY <3>2, <3>3 DEF TypeInv, TypeOK
  <2>3. call' \in [Callers -> Call] /\ CallsOK'
    BY <1>11, IdleType DEF CreateImpression, TypeInv, TypeOK, CallsOK
  <2> QED BY <1>11, <2>2, <2>3 DEF CreateImpression, TypeInv, TypeOK
<1>12. ASSUME NEW c \in Callers, NEW i \in Impressions, Click(c, i) PROVE TypeInv'
  BY <1>12, ReadType DEF Click
<1>13. CASE Cleanup
  <2>1. grants' \in Seq(Grant)
    <3>1. /\ Len(grants) \in Nat /\ DOMAIN grants = 1 .. Len(grants)
          /\ \A g \in DOMAIN grants : grants[g] \in Grant
      BY DEF TypeInv, TypeOK
    <3>2. \A g \in DOMAIN grants : [grants[g] EXCEPT !.row = FALSE] \in Grant
      BY <3>1 DEF Grant
    <3>3. grants' \in [1 .. Len(grants) -> Grant]
      BY <1>13, <3>1, <3>2 DEF Cleanup
    <3> QED BY <3>1, <3>3
  <2>2. impression' \in [Impressions -> Impression]
    BY <1>13, ZenonT(60) DEF Cleanup, TypeInv, TypeOK, Impression
  <2> QED BY <1>13, <2>1, <2>2 DEF Cleanup, TypeInv, TypeOK, CallsOK
<1>14. CASE UNCHANGED vars
  BY <1>14 DEF vars, TypeInv, TypeOK, CallsOK
<1> QED
  BY <1>1, <1>2, <1>3, <1>4, <1>5, <1>6, <1>7, <1>8, <1>9, <1>10, <1>11, <1>12, <1>13, <1>14
  DEF Next

THEOREM TypingInv == Spec => []TypeInv
BY InitTypeInv, NextTypeInv, PTL DEF Spec

\* The state always has its type, for any number of concurrent handlers.
THEOREM Typing == Spec => []TypeOK
BY TypingInv, PTL DEF TypeInv

-----------------------------------------------------------------------------
(* Pacing: the claim that is next in a session is a cycle after each of    *)
(* its grants.                                                             *)

\* The skew tolerated is shorter than a cycle (5 s of 60 s).
ShortSkew == Skew < Cycle

\* A session that runs has a next claim.  It is a cycle after each grant of the session, and
\* only moves on; a claim in flight was due when it read it.
NextIsLater ==
    /\ \A s \in Sessions : session[s].active => session[s].next > 0
    /\ \A g \in DOMAIN grants : session[grants[g].session].next >= grants[g].earned + Cycle
    /\ \A c \in Callers : call[c].op \in {"normal", "turbo"} =>
          /\ session[call[c].session].next > 0
          /\ call[c].at >= call[c].next - Skew
          /\ call[c].next <= session[call[c].session].next

PaceInv == TypeInv /\ NextIsLater /\ GrantsPaced

LEMMA InitPaceInv == Init => PaceInv
<1>1. Init => NextIsLater /\ GrantsPaced
  BY DEF Init, NextIsLater, GrantsPaced, Idle, NewSession
<1> QED BY <1>1, InitTypeInv DEF PaceInv

LEMMA GrantType ==
    ASSUME TypeOK, NEW g \in DOMAIN grants
    PROVE  g \in Nat /\ g # 0 /\ grants[g] \in Grant
BY DEF TypeOK

\* A step that grants nothing and moves no next claim keeps the pacing.
LEMMA PaceFrame ==
    ASSUME ShortSkew, PaceInv, TypeInv',
           DOMAIN grants' = DOMAIN grants,
           \A g \in DOMAIN grants : /\ grants'[g].session = grants[g].session
                                    /\ grants'[g].earned = grants[g].earned,
           \A s \in Sessions :
               /\ session[s].next > 0 => session'[s].next = session[s].next
               /\ session'[s].active => session'[s].next > 0,
           \A c \in Callers :
               \/ call'[c] = call[c]
               \/ call'[c].op \notin {"normal", "turbo"}
               \/ /\ call'[c].session \in Sessions
                  /\ session[call'[c].session].next > 0
                  /\ call'[c].at >= call'[c].next - Skew
                  /\ call'[c].next = session[call'[c].session].next
    PROVE  PaceInv'
<1> USE ConstantsAreNat
<1>1. \A s \in Sessions : session[s].next \in Nat /\ session'[s].next \in Nat
  BY DEF PaceInv, TypeInv, TypeOK, Session
<1>2. ASSUME NEW g \in DOMAIN grants'
      PROVE  session'[grants'[g].session].next >= grants'[g].earned + Cycle
  <2>1. grants[g].session \in Sessions /\ grants[g].earned \in Nat
    BY <1>2, GrantType DEF PaceInv, TypeInv, Grant
  <2>2. session[grants[g].session].next >= grants[g].earned + Cycle
    BY <1>2 DEF PaceInv, NextIsLater
  <2>3. session[grants[g].session].next > 0
    BY <1>1, <2>1, <2>2 DEF ShortSkew
  <2> QED BY <1>2, <2>1, <2>2, <2>3
<1>3. ASSUME NEW c \in Callers, call'[c].op \in {"normal", "turbo"}
      PROVE  /\ session'[call'[c].session].next > 0
             /\ call'[c].at >= call'[c].next - Skew
             /\ call'[c].next <= session'[call'[c].session].next
  <2>1. CASE call'[c] = call[c]
    <3>1. call[c].session \in Sessions
      BY <1>3, <2>1 DEF PaceInv, TypeInv, CallsOK
    <3> QED BY <1>3, <2>1, <3>1 DEF PaceInv, NextIsLater
  <2>2. CASE /\ call'[c].session \in Sessions
             /\ session[call'[c].session].next > 0
             /\ call'[c].at >= call'[c].next - Skew
             /\ call'[c].next = session[call'[c].session].next
    BY <1>1, <2>2
  <2> QED BY <1>3, <2>1, <2>2
<1>4. GrantsPaced'
  BY DEF PaceInv, GrantsPaced
<1> QED BY <1>2, <1>3, <1>4 DEF PaceInv, NextIsLater

\* What a claim has read when it goes on: the session is running, and the claim due.
LEMMA ReadDue ==
    ASSUME ShortSkew, PaceInv, TypeInv', NEW c \in Callers, NEW op \in {"normal", "turbo"},
           NEW s \in Active, NEW i, Due(s, now), Read(c, op, s, i)
    PROVE  PaceInv'
<1>1. s # NoSession /\ s \in Sessions /\ session[s].next > 0
  BY AutoMiningAssumption DEF Active, PaceInv, NextIsLater
<1>2. /\ call' = [call EXCEPT ![c] = [op |-> op, at |-> now, impression |-> i, session |-> s,
                                      next |-> session[s].next]]
      /\ UNCHANGED <<session, grants>>
  BY <1>1 DEF Read
<1>3. call'[c].session = s /\ call'[c].at = now /\ call'[c].next = session[s].next
  BY <1>2 DEF PaceInv, TypeInv, TypeOK
<1>4. call'[c].at >= call'[c].next - Skew
  BY <1>3 DEF Due
<1>5. \A d \in Callers : d # c => call'[d] = call[d]
  BY <1>2 DEF PaceInv, TypeInv, TypeOK
<1>6. \A r \in Sessions : session[r].active => session[r].next > 0
  BY DEF PaceInv, NextIsLater
<1> QED BY <1>1, <1>2, <1>3, <1>4, <1>5, <1>6, PaceFrame

\* A claim that is written while no other has moved the next claim.
LEMMA WritePaceInv ==
    ASSUME ShortSkew, PaceInv, TypeInv', NEW c \in Callers, ClaimWrite(c)
    PROVE  PaceInv'
<1> DEFINE s == call[c].session
           t == call[c].at
           n == Len(grants) + 1
<1> USE ConstantsAreNat
<1>1. /\ s \in Sessions /\ t \in Nat /\ session[s].next \in Nat
      /\ session[s].next = call[c].next
      /\ t >= session[s].next - Skew
  BY DEF ClaimWrite, StillFirst, PaceInv, TypeInv, TypeOK, CallsOK, NextIsLater, Call, Session
<1>2. /\ session' = [session EXCEPT ![s].next = t + Cycle]
      /\ call' = [call EXCEPT ![c] = Idle]
  BY DEF ClaimWrite, NextClaim
<1>3. session'[s].next = t + Cycle /\ t + Cycle > session[s].next /\ t + Cycle > 0
  BY <1>1, <1>2, SMTT(30) DEF ShortSkew, PaceInv, TypeInv, TypeOK
<1>4. \A r \in Sessions : /\ session'[r].active = session[r].active
                          /\ session[r].next \in Nat
                          /\ session'[r].next >= session[r].next
                          /\ r # s => session'[r] = session[r]
  BY <1>1, <1>2, <1>3, SMTT(30) DEF PaceInv, TypeInv, TypeOK, Session
<1>5. /\ DOMAIN grants' = DOMAIN grants \cup {n} /\ n \in Nat
      /\ \A g \in DOMAIN grants : grants'[g] = grants[g] /\ g < n
      /\ grants'[n].session = s /\ grants'[n].earned = t
  BY DEF ClaimWrite, PaceInv, TypeInv, TypeOK
<1>6. \A g \in DOMAIN grants : grants[g].session \in Sessions /\ grants[g].earned \in Nat
  BY GrantType DEF PaceInv, TypeInv, Grant
<1> HIDE DEF s, t, n
<1>7. \A g \in DOMAIN grants' : session'[grants'[g].session].next >= grants'[g].earned + Cycle
  <2>1. ASSUME NEW g \in DOMAIN grants
        PROVE  session'[grants'[g].session].next >= grants'[g].earned + Cycle
    <3>1. session[grants[g].session].next >= grants[g].earned + Cycle
      BY DEF PaceInv, NextIsLater
    <3>2. /\ session'[grants[g].session].next >= session[grants[g].session].next
          /\ session[grants[g].session].next \in Nat
          /\ session'[grants[g].session].next \in Nat
      BY <1>4, <1>6 DEF TypeInv, TypeOK, Session
    <3> QED BY <1>5, <1>6, <3>1, <3>2
  <2>2. session'[grants'[n].session].next >= grants'[n].earned + Cycle
    BY <1>1, <1>3, <1>5
  <2> QED BY <1>5, <2>1, <2>2
<1>8. \A d \in Callers : call'[d].op \in {"normal", "turbo"} =>
          /\ session'[call'[d].session].next > 0
          /\ call'[d].at >= call'[d].next - Skew
          /\ call'[d].next <= session'[call'[d].session].next
  <2>1. ASSUME NEW d \in Callers, call'[d].op \in {"normal", "turbo"}
        PROVE  /\ session'[call'[d].session].next > 0
               /\ call'[d].at >= call'[d].next - Skew
               /\ call'[d].next <= session'[call'[d].session].next
    <3>1. call'[d] = call[d]
      BY <1>2, <2>1, IdleType DEF PaceInv, TypeInv, TypeOK
    <3>2. call[d].session \in Sessions /\ call[d].next \in Nat
      BY <2>1, <3>1 DEF PaceInv, TypeInv, TypeOK, CallsOK, Call
    <3>3. /\ session[call[d].session].next > 0
          /\ call[d].at >= call[d].next - Skew
          /\ call[d].next <= session[call[d].session].next
      BY <2>1, <3>1 DEF PaceInv, NextIsLater
    <3>4. session'[call[d].session].next \in Nat
      BY <3>2 DEF TypeInv, TypeOK, Session
    <3> QED BY <1>4, <3>1, <3>2, <3>3, <3>4
  <2> QED BY <2>1
<1>9. \A r \in Sessions : session'[r].active => session'[r].next > 0
  <2>1. ASSUME NEW r \in Sessions, session'[r].active PROVE session'[r].next > 0
    <3>1. session[r].next > 0 /\ session[r].next \in Nat /\ session'[r].next \in Nat
      BY <1>4, <2>1 DEF PaceInv, NextIsLater, TypeInv, TypeOK, Session
    <3> QED BY <1>4, <3>1
  <2> QED BY <2>1
<1>10. GrantsPaced'
  <2>1. ASSUME NEW g \in DOMAIN grants, grants[g].session = s
        PROVE  t - grants[g].earned >= Cycle - Skew
    <3>1. session[s].next >= grants[g].earned + Cycle
      BY <2>1 DEF PaceInv, NextIsLater
    <3> QED BY <1>1, <1>6, <3>1
  <2>2. \A g \in DOMAIN grants : ~(n < g)
    BY <1>5, GrantType DEF PaceInv, TypeInv
  <2> QED BY <1>5, <2>1, <2>2 DEF PaceInv, GrantsPaced
<1> QED BY <1>7, <1>8, <1>9, <1>10 DEF PaceInv, NextIsLater

LEMMA NextPaceInv ==
    ASSUME ShortSkew, PaceInv, [Next]_vars
    PROVE  PaceInv'
<1>0. TypeInv /\ TypeInv'
  BY NextTypeInv DEF PaceInv
<1> USE ConstantsAreNat
<1>1. \A r \in Sessions : session[r].active => session[r].next > 0
  BY DEF PaceInv, NextIsLater
<1>2. ASSUME NEW c \in Starters, NEW s \in Sessions, StartCommit(c, s) PROVE PaceInv'
  <2>1. /\ session[s].next = 0 /\ starting[c].at \in Nat
        /\ UNCHANGED <<grants, call>>
        /\ session'[s].next = starting[c].at + Cycle
        /\ \A r \in Sessions : r # s =>
              session'[r] = session[r] \/ session'[r] = [session[r] EXCEPT !.active = FALSE]
    BY <1>0, <1>2 DEF StartCommit, Replaced, NewSession, NextClaim, TypeInv, TypeOK, Start
  <2>2. \A r \in Sessions :
            r # s => session'[r].next = session[r].next /\ (session'[r].active => session[r].active)
    BY <1>0, <2>1 DEF TypeInv, TypeOK, Session
  <2>3. session'[s].next > 0
    BY <2>1 DEF ShortSkew
  <2> QED BY <1>0, <1>1, <2>1, <2>2, <2>3, PaceFrame
<1>3. CASE StopSession
  <2>1. /\ UNCHANGED <<grants, call>>
        /\ \A r \in Sessions : session'[r].next = session[r].next /\ ~session'[r].active
    BY <1>0, <1>3 DEF StopSession, TypeInv, TypeOK, Session
  <2> QED BY <1>0, <2>1, PaceFrame
<1>4. ASSUME NEW c \in Callers, NEW s \in Sessions, ClaimNormal(c, s) PROVE PaceInv'
  BY <1>0, <1>4, ReadDue DEF ClaimNormal
<1>5. ASSUME NEW c \in Callers, NEW s \in Sessions, NEW i \in Impressions, ClaimTurbo(c, s, i)
      PROVE PaceInv'
  BY <1>0, <1>5, ReadDue DEF ClaimTurbo
<1>6. ASSUME NEW c \in Callers, ClaimWrite(c) PROVE PaceInv'
  BY <1>0, <1>6, WritePaceInv
<1>7. CASE Cleanup
  <2>1. /\ UNCHANGED <<session, call>> /\ DOMAIN grants' = DOMAIN grants
        /\ \A g \in DOMAIN grants : /\ grants'[g].session = grants[g].session
                                     /\ grants'[g].earned = grants[g].earned
    BY <1>7 DEF Cleanup
  <2> QED BY <1>0, <1>1, <2>1, PaceFrame
<1>8. ASSUME NEW c \in Callers, NEW o, UNCHANGED <<session, grants>>,
             call' = [call EXCEPT ![c] = o], o.op \notin {"normal", "turbo"}
      PROVE  PaceInv'
  <2>1. \A d \in Callers : call'[d] = call[d] \/ call'[d].op \notin {"normal", "turbo"}
    BY <1>0, <1>8 DEF TypeInv, TypeOK
  <2> QED BY <1>0, <1>1, <1>8, <2>1, PaceFrame
<1>9. ASSUME NEW c \in Callers, NEW s, NEW i, NEW op \in {"banner", "click"}, Read(c, op, s, i)
      PROVE  PaceInv'
  <2> DEFINE o == [op |-> op, at |-> now, impression |-> i, session |-> s,
                   next |-> IF s = NoSession THEN 0 ELSE session[s].next]
  <2>1. /\ call' = [call EXCEPT ![c] = o] /\ UNCHANGED <<session, grants>>
        /\ o.op \notin {"normal", "turbo"}
    BY <1>9 DEF Read
  <2> HIDE DEF o
  <2> QED BY <1>8, <2>1
<1>10. ASSUME NEW c \in Callers,
              \/ GiveUp(c) \/ StoreClick(c)
              \/ \E i \in Impressions : CreateImpression(c, i)
       PROVE  PaceInv'
  <2>1. call' = [call EXCEPT ![c] = Idle] /\ UNCHANGED <<session, grants>>
    BY <1>10 DEF GiveUp, StoreClick, CreateImpression
  <2> QED BY <1>8, <2>1, IdleType
<1>11. CASE UNCHANGED <<session, grants, call>>
  BY <1>0, <1>1, <1>11, PaceFrame
<1> QED
  BY <1>2, <1>3, <1>4, <1>5, <1>6, <1>7, <1>9, <1>10, <1>11
  DEF Next, Tick, StartBegin, GetBanner, Click, vars

\* Two grants of a session are a cycle apart, less the skew, however claims interleave.
THEOREM Pacing ==
    ASSUME ShortSkew
    PROVE  Spec => []GrantsPaced
<1>1. PaceInv /\ [Next]_vars => PaceInv'
  BY NextPaceInv
<1>2. PaceInv => GrantsPaced
  BY DEF PaceInv
<1> QED BY <1>1, <1>2, InitPaceInv, PTL DEF Spec

-----------------------------------------------------------------------------
(* Impressions.  A grant that is still there is referred to by its         *)
(* impression; when it is not, it is so old that the impression is closed. *)

ImpressionsKept ==
    /\ \A i \in Impressions :
          impression[i].row = "present" => impression[i].created <= now
    /\ \A g \in DOMAIN grants :
          LET i == grants[g].impression IN i # NoImpression =>
              /\ impression[i].row # "unused"
              /\ impression[i].session = grants[g].session
              /\ impression[i].created <= grants[g].earned
              /\ \/ impression[i].grant = g
                 \/ impression[i].grant = 0 /\ grants[g].earned + Ttl < now

\* A turbo claim in flight holds an impression of its session; if another claim has used it
\* since, the next claim has moved on from what this one read.
TurboCurrent ==
    \A c \in Callers : call[c].op = "turbo" =>
        LET i == call[c].impression IN
        /\ impression[i].row # "unused"
        /\ impression[i].session = call[c].session
        /\ impression[i].created <= call[c].at
        /\ \A g \in DOMAIN grants :
              grants[g].impression = i => session[call[c].session].next > call[c].next

PaidInv == PaceInv /\ ImpressionsKept /\ TurboCurrent /\ ImpressionPaysOnce

LEMMA InitPaidInv == Init => PaidInv
<1>1. Init => ImpressionsKept /\ TurboCurrent /\ ImpressionPaysOnce
  BY DEF Init, ImpressionsKept, TurboCurrent, ImpressionPaysOnce, NewImpression, Idle
<1> QED BY <1>1, InitPaceInv DEF PaidInv

\* A step that leaves the grants alone, and of the impressions what the invariant is about.
LEMMA PaidFrame ==
    ASSUME PaidInv, PaceInv', grants' = grants, now' >= now,
           \A i \in Impressions : /\ impression'[i].row = impression[i].row
                                 /\ impression'[i].session = impression[i].session
                                 /\ impression'[i].created = impression[i].created
                                 /\ impression'[i].grant = impression[i].grant,
           \A s \in Sessions : session'[s].next >= session[s].next,
           \A c \in Callers : call'[c] = call[c] \/ call'[c].op # "turbo"
    PROVE  PaidInv'
<1> USE ConstantsAreNat
<1>1. now \in Nat /\ now' \in Nat
  BY DEF PaidInv, PaceInv, TypeInv, TypeOK
<1>2. \A g \in DOMAIN grants :
          grants[g].earned \in Nat /\ grants[g].impression \in Impressions \cup {NoImpression}
  BY GrantType DEF PaidInv, PaceInv, TypeInv, Grant
<1>3. \A i \in Impressions : impression[i].created \in Nat
  BY DEF PaidInv, PaceInv, TypeInv, TypeOK, Impression
<1>4. ImpressionsKept'
  BY <1>1, <1>2, <1>3 DEF PaidInv, ImpressionsKept
<1>5. ASSUME NEW c \in Callers, call'[c].op = "turbo"
      PROVE  LET i == call'[c].impression IN
             /\ impression'[i].row # "unused"
             /\ impression'[i].session = call'[c].session
             /\ impression'[i].created <= call'[c].at
             /\ \A g \in DOMAIN grants :
                   grants[g].impression = i => session'[call'[c].session].next > call'[c].next
  <2>1. /\ call'[c] = call[c] /\ call[c].impression \in Impressions
        /\ call[c].session \in Sessions /\ call[c].next \in Nat
    BY <1>5 DEF PaidInv, PaceInv, TypeInv, TypeOK, CallsOK, Call
  <2>2. session[call[c].session].next \in Nat /\ session'[call[c].session].next \in Nat
    BY <2>1 DEF PaidInv, PaceInv, TypeInv, TypeOK, Session
  <2> QED BY <1>5, <2>1, <2>2 DEF PaidInv, TurboCurrent
<1>6. TurboCurrent'
  BY <1>5 DEF TurboCurrent
<1>7. ImpressionPaysOnce'
  BY DEF PaidInv, ImpressionPaysOnce
<1> QED BY <1>4, <1>6, <1>7 DEF PaidInv

\* An impression that a claim finds usable has paid for nothing: the grant it would have
\* paid for is either referred to, or older than any impression that is still open.
LEMMA UsableIsUnpaid ==
    ASSUME PaidInv, NEW i \in Impressions, NEW s, Usable(i, s, now), NEW g \in DOMAIN grants
    PROVE  grants[g].impression # i
<1> USE ConstantsAreNat
<1> SUFFICES ASSUME grants[g].impression = i PROVE FALSE
  OBVIOUS
<1>1. g # 0 /\ grants[g].earned \in Nat /\ now \in Nat /\ impression[i].created \in Nat
  BY GrantType DEF PaidInv, PaceInv, TypeInv, TypeOK, Grant, Impression
<1>2. impression[i].grant = 0 /\ now - impression[i].created <= Grace
  BY DEF Usable
<1>3. i # NoImpression
  BY AutoMiningAssumption
<1>4. impression[i].created <= grants[g].earned /\ grants[g].earned + Ttl < now
  BY <1>1, <1>2, <1>3 DEF PaidInv, ImpressionsKept
<1> QED BY <1>1, <1>2, <1>4, AutoMiningAssumption

LEMMA TurboPaidInv ==
    ASSUME PaidInv, PaceInv', NEW c \in Callers, NEW s \in Sessions, NEW i \in Impressions,
           ClaimTurbo(c, s, i)
    PROVE  PaidInv'
<1> USE ConstantsAreNat
<1>1. /\ call'[c] = [op |-> "turbo", at |-> now, impression |-> i, session |-> s,
                     next |-> IF s = NoSession THEN 0 ELSE session[s].next]
      /\ \A d \in Callers : d # c => call'[d] = call[d]
      /\ UNCHANGED <<now, session, impression, grants>>
  BY DEF ClaimTurbo, Read, PaidInv, PaceInv, TypeInv, TypeOK
<1>2. ImpressionsKept' /\ ImpressionPaysOnce'
  BY <1>1 DEF PaidInv, ImpressionsKept, ImpressionPaysOnce
<1>3. /\ impression[i].row = "present" /\ impression[i].session = s
      /\ impression[i].created <= now
      /\ \A g \in DOMAIN grants : grants[g].impression # i
  BY UsableIsUnpaid DEF ClaimTurbo, Usable, PaidInv, ImpressionsKept
<1>4. TurboCurrent'
  BY <1>1, <1>3 DEF PaidInv, TurboCurrent
<1> QED BY <1>2, <1>4 DEF PaidInv

LEMMA WritePaidInv ==
    ASSUME ShortSkew, PaidInv, PaceInv', NEW c \in Callers, ClaimWrite(c)
    PROVE  PaidInv'
<1> DEFINE s == call[c].session
           i == call[c].impression
           t == call[c].at
           n == Len(grants) + 1
<1> USE ConstantsAreNat
<1>0. TypeInv /\ TypeInv' /\ NextIsLater
  BY DEF PaidInv, PaceInv
<1>1. /\ s \in Sessions /\ t \in Nat /\ session[s].next \in Nat
      /\ session[s].next = call[c].next /\ t >= session[s].next - Skew
      /\ i \in Impressions \cup {NoImpression}
      /\ call[c].op = "turbo" => i \in Impressions
      /\ call[c].op # "turbo" => i = NoImpression
  BY <1>0 DEF ClaimWrite, StillFirst, TypeInv, TypeOK, CallsOK, NextIsLater, Call, Session
<1>2. /\ session' = [session EXCEPT ![s].next = t + Cycle]
      /\ call' = [call EXCEPT ![c] = Idle]
      /\ now' = now
  BY DEF ClaimWrite, NextClaim
<1>3. /\ session'[s].next > session[s].next
      /\ \A r \in Sessions : session'[r].next >= session[r].next
  BY <1>0, <1>1, <1>2, SMTT(30) DEF ShortSkew, TypeInv, TypeOK, Session
<1>4. /\ DOMAIN grants' = DOMAIN grants \cup {n} /\ n \in Nat /\ n # 0 /\ n \notin DOMAIN grants
      /\ \A g \in DOMAIN grants : grants'[g] = grants[g]
      /\ grants'[n].session = s /\ grants'[n].earned = t /\ grants'[n].impression = i
  BY <1>0 DEF ClaimWrite, TypeInv, TypeOK
<1>5. /\ \A j \in Impressions : /\ impression'[j].row = impression[j].row
                                /\ impression'[j].session = impression[j].session
                                /\ impression'[j].created = impression[j].created
                                /\ j # i => impression'[j] = impression[j]
      /\ i \in Impressions => /\ impression'[i].grant = n /\ impression[i].row # "unused"
                              /\ impression[i].session = s /\ impression[i].created <= t
  <2>1. CASE call[c].op = "turbo"
    <3>1. impression' = [impression EXCEPT ![i].grant = n]
      BY <2>1 DEF ClaimWrite
    <3>2. /\ impression[i].row # "unused"
          /\ impression[i].session = s /\ impression[i].created <= t
      BY <2>1 DEF PaidInv, TurboCurrent
    <3>3. impression \in [Impressions -> Impression]
      BY <1>0 DEF TypeInv, TypeOK
    <3> HIDE DEF i, n, s, t
    <3> QED BY <3>1, <3>2, <3>3 DEF Impression
  <2>2. CASE call[c].op # "turbo"
    BY <1>1, <2>2, AutoMiningAssumption DEF ClaimWrite
  <2> QED BY <2>1, <2>2
<1>6. i \in Impressions => \A g \in DOMAIN grants : grants[g].impression # i
  BY <1>1, AutoMiningAssumption DEF PaidInv, TurboCurrent
<1> HIDE DEF s, i, t, n
<1>7. \A g \in DOMAIN grants : grants[g].impression \in Impressions \cup {NoImpression}
  BY <1>0, GrantType DEF TypeInv, Grant
<1>8. ImpressionsKept'
  <2>1. \A j \in Impressions : impression'[j].row = "present" => impression'[j].created <= now'
    BY <1>2, <1>5 DEF PaidInv, ImpressionsKept
  <2>2. ASSUME NEW g \in DOMAIN grants', grants'[g].impression # NoImpression
        PROVE  LET j == grants'[g].impression IN
               /\ impression'[j].row # "unused"
               /\ impression'[j].session = grants'[g].session
               /\ impression'[j].created <= grants'[g].earned
               /\ \/ impression'[j].grant = g
                  \/ impression'[j].grant = 0 /\ grants'[g].earned + Ttl < now'
    <3>1. CASE g = n
      BY <1>1, <1>4, <1>5, <2>2, <3>1
    <3>2. CASE g \in DOMAIN grants
      BY <1>2, <1>4, <1>5, <1>6, <1>7, <2>2, <3>2 DEF PaidInv, ImpressionsKept
    <3> QED BY <1>4, <3>1, <3>2
  <2> QED BY <2>1, <2>2 DEF ImpressionsKept
<1>9. TurboCurrent'
  <2>1. ASSUME NEW d \in Callers, call'[d].op = "turbo"
        PROVE  LET j == call'[d].impression IN
               /\ impression'[j].row # "unused"
               /\ impression'[j].session = call'[d].session
               /\ impression'[j].created <= call'[d].at
               /\ \A g \in DOMAIN grants' :
                   grants'[g].impression = j => session'[call'[d].session].next > call'[d].next
    <3> DEFINE j == call[d].impression
               r == call[d].session
    <3>1. call'[d] = call[d]
      BY <1>0, <1>2, <2>1, IdleType DEF TypeInv, TypeOK
    <3>2. /\ j \in Impressions /\ r \in Sessions /\ call[d].next \in Nat
          /\ session[r].next \in Nat /\ session'[r].next \in Nat
      BY <1>0, <2>1, <3>1 DEF TypeInv, TypeOK, CallsOK, Call, Session
    <3>3. call[d].next <= session[r].next
      BY <1>0, <2>1, <3>1 DEF NextIsLater
    <3>4. /\ impression[j].row # "unused" /\ impression[j].session = r
          /\ impression[j].created <= call[d].at
          /\ \A g \in DOMAIN grants : grants[g].impression = j => session[r].next > call[d].next
      BY <2>1, <3>1 DEF PaidInv, TurboCurrent
    <3> HIDE DEF j, r
    <3>5. \A g \in DOMAIN grants : grants[g].impression = j => session'[r].next > call[d].next
      BY <1>3, <3>2, <3>4
    <3>6. i = j => session'[r].next > call[d].next
      BY <1>1, <1>3, <1>5, <3>2, <3>3, <3>4
    <3> QED BY <1>4, <1>5, <3>1, <3>2, <3>4, <3>5, <3>6 DEF j, r
  <2> QED BY <2>1 DEF TurboCurrent
<1>10. ImpressionPaysOnce'
  BY <1>1, <1>4, <1>6 DEF PaidInv, ImpressionPaysOnce
<1> QED BY <1>8, <1>9, <1>10 DEF PaidInv

LEMMA CreatePaidInv ==
    ASSUME PaidInv, PaceInv', NEW c \in Callers, NEW i \in Impressions, CreateImpression(c, i)
    PROVE  PaidInv'
<1> USE ConstantsAreNat
<1>1. /\ impression[i].row = "unused" /\ impression'[i].created = now
      /\ \A j \in Impressions : j # i => impression'[j] = impression[j]
      /\ UNCHANGED <<now, session, grants>>
      /\ \A d \in Callers : call'[d] = call[d] \/ call'[d].op # "turbo"
  BY IdleType DEF CreateImpression, NewImpression, PaidInv, PaceInv, TypeInv, TypeOK
<1>2. now \in Nat
  BY DEF PaidInv, PaceInv, TypeInv, TypeOK
<1>3. \A g \in DOMAIN grants : grants[g].impression \in Impressions \cup {NoImpression}
  BY GrantType DEF PaidInv, PaceInv, TypeInv, Grant
<1>4. ImpressionsKept'
  BY <1>1, <1>2, <1>3, AutoMiningAssumption DEF PaidInv, ImpressionsKept
<1>5. \A d \in Callers : call[d].op = "turbo" => call[d].impression \in Impressions
  BY DEF PaidInv, PaceInv, TypeInv, CallsOK
<1>6. TurboCurrent'
  BY <1>1, <1>5 DEF PaidInv, TurboCurrent
<1> QED BY <1>1, <1>4, <1>6 DEF PaidInv, ImpressionPaysOnce

LEMMA CleanupPaidInv ==
    ASSUME PaidInv, PaceInv', Cleanup
    PROVE  PaidInv'
<1> USE ConstantsAreNat
<1>1. /\ UNCHANGED <<now, session, call>> /\ DOMAIN grants' = DOMAIN grants
      /\ \A g \in DOMAIN grants : /\ grants'[g].session = grants[g].session
                                   /\ grants'[g].earned = grants[g].earned
                                   /\ grants'[g].impression = grants[g].impression
  BY DEF Cleanup
<1>2. \A i \in Impressions :
          /\ impression'[i].row # "unused" <=> impression[i].row # "unused"
          /\ impression'[i].row = "present" => impression[i].row = "present"
          /\ impression'[i].session = impression[i].session
          /\ impression'[i].created = impression[i].created
          /\ \/ impression'[i].grant = impression[i].grant
             \/ /\ impression'[i].grant = 0
                /\ grants[impression[i].grant].earned + Ttl < now
  BY DEF Cleanup, Stale, Expired, PaidInv, PaceInv, TypeInv, TypeOK, Impression
<1>3. \A g \in DOMAIN grants : grants[g].impression \in Impressions \cup {NoImpression}
  BY GrantType DEF PaidInv, PaceInv, TypeInv, Grant
<1>4. ImpressionsKept'
  BY <1>1, <1>2, <1>3 DEF PaidInv, ImpressionsKept
<1>5. \A c \in Callers : call[c].op = "turbo" => call[c].impression \in Impressions
  BY DEF PaidInv, PaceInv, TypeInv, CallsOK
<1>6. TurboCurrent'
  BY <1>1, <1>2, <1>5 DEF PaidInv, TurboCurrent
<1>7. ImpressionPaysOnce'
  BY <1>1 DEF PaidInv, ImpressionPaysOnce
<1> QED BY <1>4, <1>6, <1>7 DEF PaidInv

LEMMA NextPaidInv ==
    ASSUME ShortSkew, PaidInv, [Next]_vars
    PROVE  PaidInv'
<1>0. PaceInv' /\ TypeInv
  BY NextPaceInv DEF PaidInv, PaceInv
<1> USE ConstantsAreNat
<1>1. now \in Nat /\ \A s \in Sessions : session[s].next \in Nat
  BY <1>0 DEF TypeInv, TypeOK, Session
<1>2. CASE Tick
  BY <1>0, <1>1, <1>2, PaidFrame DEF Tick
<1>3. ASSUME NEW c \in Starters, NEW s \in Sessions, StartCommit(c, s) PROVE PaidInv'
  <2>1. \A r \in Sessions : session'[r].next >= session[r].next
    <3>1. starting[c].at \in Nat /\ session[s].next = 0
      BY <1>0, <1>3 DEF StartCommit, NewSession, TypeInv, TypeOK, Start
    <3> QED BY <1>0, <1>1, <1>3, <3>1 DEF StartCommit, Replaced, NextClaim, TypeInv, TypeOK
  <2> QED BY <1>0, <1>1, <1>3, <2>1, PaidFrame DEF StartCommit
<1>4. CASE StopSession
  <2>1. \A s \in Sessions : session'[s].next = session[s].next
    BY <1>0, <1>4 DEF StopSession, TypeInv, TypeOK, Session
  <2> QED BY <1>0, <1>1, <1>4, <2>1, PaidFrame, SMTT(30) DEF StopSession
<1>5. ASSUME NEW c \in Callers, NEW s \in Sessions, NEW i \in Impressions, ClaimTurbo(c, s, i)
      PROVE PaidInv'
  BY <1>0, <1>5, TurboPaidInv
<1>6. ASSUME NEW c \in Callers, ClaimWrite(c) PROVE PaidInv'
  BY <1>0, <1>6, WritePaidInv
<1>7. ASSUME NEW c \in Callers, NEW i \in Impressions, CreateImpression(c, i) PROVE PaidInv'
  BY <1>0, <1>7, CreatePaidInv
<1>8. CASE Cleanup
  BY <1>0, <1>8, CleanupPaidInv
<1>9. ASSUME NEW c \in Callers, NEW s, NEW i, NEW op \in {"normal", "banner", "click"},
             Read(c, op, s, i)
      PROVE  PaidInv'
  <2>1. /\ UNCHANGED <<now, session, impression, grants>>
        /\ \A d \in Callers : call'[d] = call[d] \/ call'[d].op # "turbo"
    BY <1>0, <1>9 DEF Read, TypeInv, TypeOK
  <2> QED BY <1>0, <1>1, <2>1, PaidFrame
<1>10. ASSUME NEW c \in Callers, GiveUp(c) \/ StoreClick(c) PROVE PaidInv'
  <2>1. /\ UNCHANGED <<now, session, grants>>
        /\ \A d \in Callers : call'[d] = call[d] \/ call'[d].op # "turbo"
    BY <1>0, <1>10, IdleType DEF GiveUp, StoreClick, TypeInv, TypeOK
  <2>2. \A i \in Impressions : /\ impression'[i].row = impression[i].row
                              /\ impression'[i].session = impression[i].session
                              /\ impression'[i].created = impression[i].created
                              /\ impression'[i].grant = impression[i].grant
    <3>1. CASE GiveUp(c)
      BY <3>1 DEF GiveUp
    <3>2. CASE StoreClick(c)
      <4> DEFINE k == call[c].impression
                 r == [impression[k] EXCEPT !.clicked = call[c].at]
      <4>1. impression \in [Impressions -> Impression]
        BY <1>0 DEF TypeInv, TypeOK
      <4>2. impression' = [impression EXCEPT ![k] = r]
        BY <3>2 DEF StoreClick
      <4>3. k \in Impressions =>
              /\ r.row = impression[k].row       /\ r.session = impression[k].session
              /\ r.created = impression[k].created /\ r.grant = impression[k].grant
        BY <4>1 DEF Impression
      <4> HIDE DEF r
      <4> QED BY <4>1, <4>2, <4>3
    <3> QED BY <1>10, <3>1, <3>2
  <2> QED BY <1>0, <1>1, <2>1, <2>2, PaidFrame
<1>11. CASE UNCHANGED <<now, session, impression, grants, call>>
  BY <1>0, <1>1, <1>11, PaidFrame
<1> QED
  BY <1>2, <1>3, <1>4, <1>5, <1>6, <1>7, <1>8, <1>9, <1>10, <1>11
  DEF Next, StartBegin, ClaimNormal, GetBanner, Click, vars

\* An impression pays for one grant, although the cleanup clears what says that it did.
THEOREM OneGrantPerImpression ==
    ASSUME ShortSkew
    PROVE  Spec => []ImpressionPaysOnce
<1>1. PaidInv /\ [Next]_vars => PaidInv'
  BY NextPaidInv
<1>2. PaidInv => ImpressionPaysOnce
  BY DEF PaidInv
<1> QED BY <1>1, <1>2, InitPaidInv, PTL DEF Spec
-----------------------------------------------------------------------------
(* The daily limit.  A claim in flight that can still be written leaves    *)
(* room for itself: what it has counted is what the day holds, because no  *)
(* expired grant is of today, and no other claim can be written before it. *)

\* The player starts one session at a time.
OneStarter == \A c, d \in Starters : c = d

\* An entry of n has n units.
LEMMA EntryUnits ==
    ASSUME NEW x, NEW n \in Nat
    PROVE  IsFiniteSet({x} \X (1 .. n)) /\ Cardinality({x} \X (1 .. n)) = n
<1>1. IsFiniteSet(1 .. n) /\ Cardinality(1 .. n) = n
  BY FS_Interval
<1>2. IsFiniteSet({x}) /\ Cardinality({x}) = 1
  BY FS_Singleton
<1> QED BY <1>1, <1>2, FS_Product

\* Tables that differ in one entry have totals that differ by it.
LEMMA TotalChange ==
    ASSUME NEW S, NEW T, NEW f \in [S -> Nat], NEW g \in [T -> Nat], NEW x,
           S \ {x} = T \ {x}, \A y \in S \ {x} : g[y] = f[y], IsFiniteSet(Units(f))
    PROVE  /\ IsFiniteSet(Units(g))
           /\ Total(g) = Total(f) - (IF x \in S THEN f[x] ELSE 0)
                                  + (IF x \in T THEN g[x] ELSE 0)
<1> DEFINE a == IF x \in S THEN f[x] ELSE 0
           b == IF x \in T THEN g[x] ELSE 0
           A == {x} \X (1 .. a)
           B == {x} \X (1 .. b)
           R == Units(f) \ A
<1>1. a \in Nat /\ b \in Nat
  OBVIOUS
<1>2. A \subseteq Units(f)
  BY DEF Units
<1>3. Units(g) = R \cup B
  BY DEF Units
<1>4. R \cap B = {}
  BY DEF Units
<1> HIDE DEF a, b
<1>5. /\ IsFiniteSet(A) /\ Cardinality(A) = a
      /\ IsFiniteSet(B) /\ Cardinality(B) = b
  BY <1>1, EntryUnits
<1>6. Units(f) \cap A = A
  BY <1>2
<1>7. IsFiniteSet(R) /\ Cardinality(R) = Total(f) - a
  <2>1. /\ IsFiniteSet(R)
        /\ Cardinality(R) = Cardinality(Units(f)) - Cardinality(Units(f) \cap A)
    BY FS_Difference
  <2> QED BY <1>5, <1>6, <2>1 DEF Total
<1>8. IsFiniteSet(R \cup B) /\ Cardinality(R \cup B) = Cardinality(R) + b - 0
  BY <1>4, <1>5, <1>7, FS_Union, FS_EmptySet
<1>9. Total(f) \in Nat /\ Cardinality(R) \in Nat
  BY <1>7, FS_CardinalityType DEF Total
<1> QED BY <1>1, <1>3, <1>7, <1>8, <1>9 DEF Total, a, b

LEMMA TotalIsNat ==
    ASSUME NEW f, IsFiniteSet(Units(f))
    PROVE  Total(f) \in Nat
BY FS_CardinalityType DEF Total

Claiming == {c \in Callers : call[c].op \in {"normal", "turbo"}}
OnDay(d) == Rates(EarnedOn(d))
Today(c) == OnDay(DayOf(call[c].at))

\* A start in flight has seen every session that runs.
OneRuns ==
    /\ \A s, r \in Active : s = r
    /\ \A c \in Starters : starting[c] # NotStarting => Active \subseteq starting[c].seen

\* Clocks are of the past; only grants older than their time to live are deleted.
Dated ==
    /\ \A c \in Claiming : call[c].at <= now
    /\ \A g \in DOMAIN grants :
          grants[g].earned <= now /\ (grants[g].row \/ grants[g].earned + Ttl < now)

Room ==
    \A c \in Claiming :
        StillFirst(c) => Total(Today(c)) + HashRate[call[c].op] <= DailyLimit

DayBooks ==
    \A t \in Times : /\ IsFiniteSet(Units(OnDay(DayOf(t))))
                     /\ Total(OnDay(DayOf(t))) <= DailyLimit

LimitInv == PaceInv /\ OneRuns /\ Dated /\ Room /\ DayBooks

\* Two moments of a day are less than a day apart.
LEMMA SameDay ==
    ASSUME NEW a \in Nat, NEW b \in Nat, DayOf(a) = DayOf(b)
    PROVE  b - a < Day
<1>1. Day \in Nat /\ Day > 0
  BY AutoMiningAssumption
<1> DEFINE q == a \div Day
           p == b \div Day
<1>2. /\ q \in Int /\ Day * q <= a /\ a < Day * q + Day
      /\ p \in Int /\ Day * p <= b /\ b < Day * p + Day
  BY <1>1
<1>3. q = p
  BY DEF DayOf
<1>4. Day * q \in Int
  BY <1>1, <1>2
<1> HIDE DEF q, p
<1> QED BY <1>1, <1>2, <1>3, <1>4
LEMMA RatesType ==
    ASSUME TypeOK, NEW G \in SUBSET (DOMAIN grants)
    PROVE  /\ Rates(G) \in [G -> Nat]
           /\ \A g \in G : Rates(G)[g] = HashRate[grants[g].mode]
<1>1. \A g \in G : grants[g] \in Grant
  BY DEF TypeOK
<1>2. \A g \in G : HashRate[grants[g].mode] \in Nat
  BY <1>1, AutoMiningAssumption DEF Grant
<1> QED BY <1>2 DEF Rates

LEMMA InitLimitInv == Init => LimitInv
<1> SUFFICES ASSUME Init PROVE LimitInv
  OBVIOUS
<1>1. OneRuns /\ Dated /\ Room
  BY DEF Init, OneRuns, Active, NewSession, Dated, Room, Claiming, Idle
<1>2. \A t \in Times : Units(OnDay(DayOf(t))) = {}
  BY DEF Init, OnDay, EarnedOn, Rates, Units
<1>3. DayBooks
  BY <1>2, FS_EmptySet, AutoMiningAssumption DEF DayBooks, Total
<1> QED BY <1>1, <1>3, InitPaceInv DEF LimitInv

\* A step that grants nothing and lets no claim become the first.
LEMMA LimitFrame ==
    ASSUME LimitInv, PaceInv', OneRuns', Dated',
           DOMAIN grants' = DOMAIN grants,
           \A g \in DOMAIN grants : /\ grants'[g].mode = grants[g].mode
                                    /\ grants'[g].earned = grants[g].earned,
           \A c \in Callers : call'[c].op \in {"normal", "turbo"} /\ StillFirst(c)' =>
                                  call'[c] = call[c] /\ StillFirst(c)
    PROVE  LimitInv'
<1>1. \A d : OnDay(d)' = OnDay(d)
  BY DEF OnDay, EarnedOn, Rates
<1>2. \A d : Units(OnDay(d))' = Units(OnDay(d)) /\ Total(OnDay(d))' = Total(OnDay(d))
  BY <1>1 DEF Units, Total
<1>3. DayBooks'
  BY <1>2 DEF LimitInv, DayBooks
<1>4. Room'
  <2>1. \A c \in Callers : call'[c] = call[c] => Today(c)' = Today(c)
    BY DEF Today, OnDay, EarnedOn, Rates
  <2>2. \A c \in Callers : call'[c] = call[c] => Total(Today(c))' = Total(Today(c))
    BY <2>1 DEF Total, Units
  <2> QED BY <2>2 DEF LimitInv, Room, Claiming
<1> QED BY <1>3, <1>4 DEF LimitInv

\* The sessions.
LEMMA SessionLimit ==
    ASSUME OneStarter, LimitInv, PaceInv',
           \/ \E c \in Starters, m \in Modes : StartBegin(c, m)
           \/ \E c \in Starters, s \in Sessions : StartCommit(c, s)
           \/ StopSession
    PROVE  LimitInv'
<1>0. TypeInv /\ NextIsLater
  BY DEF LimitInv, PaceInv
<1>1. UNCHANGED <<now, impression, grants, call>>
  BY DEF StartBegin, StartCommit, StopSession
<1>2. Dated'
  BY <1>1 DEF LimitInv, Dated, Claiming
<1>3. ASSUME NEW c \in Starters, NEW m \in Modes, StartBegin(c, m) PROVE LimitInv'
  <2>1. starting'[c].seen = Active /\ UNCHANGED session
    BY <1>0, <1>3 DEF StartBegin, TypeInv, TypeOK
  <2>2. OneRuns'
    BY <2>1 DEF OneStarter, LimitInv, OneRuns, Active
  <2> QED BY <1>1, <1>2, <2>1, <2>2, LimitFrame DEF StillFirst
<1>4. ASSUME NEW c \in Starters, NEW s \in Sessions, StartCommit(c, s) PROVE LimitInv'
  <2>1. /\ session[s] = NewSession /\ starting' = [starting EXCEPT ![c] = NotStarting]
        /\ session' = Replaced(starting[c].seen, s, starting[c].mode,
                               NextClaim(starting[c].at))
        /\ Active \subseteq starting[c].seen
    BY <1>4 DEF StartCommit, LimitInv, OneRuns
  <2>2. ASSUME NEW x \in Sessions, x # s
        PROVE  ~session'[x].active
    <3>1. session'[x] = IF x \in starting[c].seen THEN [session[x] EXCEPT !.active = FALSE]
                        ELSE session[x]
      BY <2>1, <2>2 DEF Replaced
    <3>2. session[x] \in Session /\ (x \notin starting[c].seen => ~session[x].active)
      BY <1>0, <2>1 DEF TypeInv, TypeOK, Active
    <3> QED BY <3>1, <3>2 DEF Session
  <2>3. \A d \in Starters : starting'[d] = NotStarting
    BY <1>0, <2>1 DEF OneStarter, TypeInv, TypeOK
  <2>4. OneRuns'
    BY <2>2, <2>3 DEF OneRuns, Active
  <2>5. \A d \in Callers : call[d].op \in {"normal", "turbo"} => ~StillFirst(d)'
    <3>1. session[s].next = 0
      BY <2>1 DEF NewSession
    <3>2. \A d \in Callers : call[d].op \in {"normal", "turbo"} =>
              call[d].session \in Sessions /\ call[d].session # s
      BY <1>0, <3>1 DEF TypeInv, CallsOK, NextIsLater
    <3> QED BY <1>1, <2>2, <3>2 DEF StillFirst
  <2> QED BY <1>1, <1>2, <2>4, <2>5, LimitFrame
<1>5. CASE StopSession
  <2>1. UNCHANGED starting /\ \A s \in Sessions : ~session'[s].active
    BY <1>0, <1>5 DEF StopSession, TypeInv, TypeOK, Session
  <2>2. OneRuns'
    BY <2>1 DEF OneRuns, Active
  <2>3. \A d \in Callers : call[d].op \in {"normal", "turbo"} => ~StillFirst(d)'
    BY <1>0, <1>1, <2>1 DEF TypeInv, CallsOK, StillFirst
  <2> QED BY <1>1, <1>2, <2>2, <2>3, LimitFrame
<1> QED BY <1>3, <1>4, <1>5

\* A claim that starts has counted all of the day's grants.
LEMMA ReadLimit ==
    ASSUME LimitInv, PaceInv', NEW c \in Callers, NEW op \in {"normal", "turbo"},
           NEW s \in Active, NEW i, UnderLimit(op, now), Read(c, op, s, i)
    PROVE  LimitInv'
<1> USE ConstantsAreNat
<1>0. TypeInv /\ Dated /\ Room
  BY DEF LimitInv, PaceInv
<1>1. /\ call'[c].op = op /\ call'[c].at = now
      /\ \A d \in Callers : d # c => call'[d] = call[d]
      /\ UNCHANGED <<now, session, impression, grants, starting>>
  BY <1>0 DEF Read, TypeInv, TypeOK
<1>2. now \in Nat /\ \A g \in DOMAIN grants : grants[g].earned \in Nat
  BY <1>0, GrantType DEF TypeInv, TypeOK, Grant
<1>3. GrantedRows(now) = EarnedOn(DayOf(now))
  <2>1. ASSUME NEW g \in DOMAIN grants, DayOf(grants[g].earned) = DayOf(now) PROVE grants[g].row
    <3>1. now - grants[g].earned < Day
      BY <1>2, <2>1, SameDay
    <3>2. grants[g].row \/ grants[g].earned + Ttl < now
      BY <1>0 DEF Dated
    <3> QED BY <1>2, <3>1, <3>2, AutoMiningAssumption
  <2> QED BY <2>1 DEF GrantedRows, EarnedOn
<1>4. Total(OnDay(DayOf(now))) + HashRate[op] <= DailyLimit
  BY <1>3 DEF UnderLimit, Granted, OnDay
<1>5. \A d : OnDay(d)' = OnDay(d)
  BY <1>1 DEF OnDay, EarnedOn, Rates
<1>6. \A d : Units(OnDay(d))' = Units(OnDay(d)) /\ Total(OnDay(d))' = Total(OnDay(d))
  BY <1>5 DEF Units, Total
<1>7. DayBooks' /\ OneRuns' /\ Dated'
  <2>1. DayBooks'
    BY <1>6 DEF LimitInv, DayBooks
  <2>2. OneRuns'
    BY <1>1 DEF LimitInv, OneRuns, Active
  <2>3. Dated'
    BY <1>0, <1>1, <1>2 DEF Dated, Claiming
  <2> QED BY <2>1, <2>2, <2>3
<1>8. Room'
  <2>1. ASSUME NEW d \in Callers, call'[d].op \in {"normal", "turbo"}, StillFirst(d)'
        PROVE  Total(Today(d))' + HashRate[call'[d].op] <= DailyLimit
    <3>1. CASE d = c
      <4>1. Today(d)' = OnDay(DayOf(now))
        BY <1>1, <3>1 DEF Today, OnDay, EarnedOn, Rates
      <4>2. Total(Today(d))' = Total(OnDay(DayOf(now)))
        BY <4>1 DEF Total, Units
      <4> QED BY <1>1, <1>4, <3>1, <4>2
    <3>2. CASE d # c
      <4>1. call'[d] = call[d] /\ StillFirst(d)
        BY <1>1, <2>1, <3>2 DEF StillFirst
      <4>2. Today(d)' = Today(d)
        BY <1>1, <4>1 DEF Today, OnDay, EarnedOn, Rates
      <4>3. Total(Today(d))' = Total(Today(d))
        BY <4>2 DEF Total, Units
      <4> QED BY <1>0, <2>1, <4>1, <4>3 DEF Room, Claiming
    <3> QED BY <3>1, <3>2
  <2> QED BY <2>1 DEF Room, Claiming
<1> QED BY <1>7, <1>8 DEF LimitInv
\* A claim is written: it had room, and leaves no other that can be written.
LEMMA WriteLimit ==
    ASSUME ShortSkew, LimitInv, PaceInv', NEW c \in Callers, ClaimWrite(c)
    PROVE  LimitInv'
<1> DEFINE s == call[c].session
           t == call[c].at
           n == Len(grants) + 1
           op == call[c].op
<1> USE ConstantsAreNat
<1>0. TypeInv /\ NextIsLater /\ Dated /\ Room /\ OneRuns /\ DayBooks
  BY DEF LimitInv, PaceInv
<1>1. /\ s \in Sessions /\ session[s].active /\ t \in Times /\ t \in Nat /\ t <= now
      /\ op \in {"normal", "turbo"} /\ HashRate[op] \in Nat
      /\ session[s].next \in Nat /\ session[s].next = call[c].next
      /\ t >= session[s].next - Skew
  <2>1. op \in {"normal", "turbo"} /\ StillFirst(c)
    BY DEF ClaimWrite
  <2>2. s \in Sessions /\ t \in Times /\ t <= now /\ t >= call[c].next - Skew
    BY <1>0, <2>1 DEF TypeInv, TypeOK, CallsOK, Call, Dated, Claiming, NextIsLater
  <2>3. session[s].next \in Nat
    BY <1>0, <2>2 DEF TypeInv, TypeOK, Session
  <2> QED BY <2>1, <2>2, <2>3, AutoMiningAssumption DEF StillFirst
<1>2. /\ session' = [session EXCEPT ![s].next = t + Cycle]
      /\ call' = [call EXCEPT ![c] = Idle]
      /\ UNCHANGED <<now, starting>>
  BY DEF ClaimWrite, NextClaim
<1>3. session'[s].next > session[s].next
      /\ \A r \in Sessions : session'[r].active = session[r].active
  BY <1>0, <1>1, <1>2, SMTT(30) DEF ShortSkew, TypeInv, TypeOK, Session
<1>4. /\ DOMAIN grants' = DOMAIN grants \cup {n} /\ n \notin DOMAIN grants
      /\ \A g \in DOMAIN grants : grants'[g] = grants[g]
      /\ grants'[n].mode = op /\ grants'[n].earned = t /\ grants'[n].row
  BY <1>0 DEF ClaimWrite, TypeInv, TypeOK
<1>5. Total(Today(c)) + HashRate[op] <= DailyLimit
  BY <1>0, <1>1 DEF Room, Claiming, ClaimWrite
<1>6. OneRuns'
  BY <1>0, <1>2, <1>3 DEF OneRuns, Active
<1>7. \A d \in Callers : d = c \/ call'[d] = call[d]
  BY <1>0, <1>2 DEF TypeInv, TypeOK
<1>8. call'[c].op = "none"
  BY <1>0, <1>2, IdleType DEF TypeInv, TypeOK
<1>9. Dated'
  <2>1. \A d \in Callers : call'[d].op \in {"normal", "turbo"} => call'[d].at <= now'
    BY <1>0, <1>2, <1>7, <1>8 DEF Dated, Claiming
  <2>2. \A g \in DOMAIN grants' :
            grants'[g].earned <= now' /\ (grants'[g].row \/ grants'[g].earned + Ttl < now')
    BY <1>0, <1>1, <1>2, <1>4 DEF Dated
  <2> QED BY <2>1, <2>2 DEF Dated, Claiming
<1>10. Room'
  <2>1. ASSUME NEW d \in Callers, call'[d].op \in {"normal", "turbo"}, StillFirst(d)'
        PROVE  FALSE
    <3>1. d # c /\ call'[d] = call[d]
      BY <1>7, <1>8, <2>1
    <3> DEFINE r == call[d].session
    <3>2. /\ r \in Sessions /\ call[d].next <= session[r].next
          /\ call[d].next \in Nat /\ session[r].next \in Nat
      BY <1>0, <2>1, <3>1 DEF TypeInv, TypeOK, CallsOK, Call, Session, NextIsLater
    <3>3. session'[r].active /\ session'[r].next = call[d].next
      BY <2>1, <3>1 DEF StillFirst
    <3>4. r = s
      BY <1>0, <1>1, <1>3, <3>2, <3>3 DEF OneRuns, Active
    <3>5. session'[s].next \in Nat
      BY <1>1 DEF PaceInv, TypeInv, TypeOK, Session
    <3> HIDE DEF r, s
    <3> QED BY <1>1, <1>3, <3>2, <3>3, <3>4, <3>5
  <2> QED BY <2>1 DEF Room, Claiming
<1>11. DayBooks'
  <2> SUFFICES ASSUME NEW q \in Times
               PROVE  /\ IsFiniteSet(Units(OnDay(DayOf(q))))'
                      /\ Total(OnDay(DayOf(q)))' <= DailyLimit
    BY DEF DayBooks
  <2> DEFINE D == DayOf(q)
             S == EarnedOn(D)
             T == EarnedOn(D)'
             f == OnDay(D)
             g == OnDay(D)'
  <2>1. IsFiniteSet(Units(f)) /\ Total(f) <= DailyLimit
    BY <1>0 DEF DayBooks
  <2>2. Units(OnDay(D))' = Units(g) /\ Total(OnDay(D))' = Total(g)
    BY DEF Units, Total
  <2>3. n \notin S /\ S \ {n} = T \ {n} /\ (n \in T <=> DayOf(t) = D)
    <3> HIDE DEF D, t, n
    <3> QED BY <1>4 DEF EarnedOn, DayOf
  <2>4. f \in [S -> Nat] /\ g \in [T -> Nat]
        /\ (\A x \in S : f[x] = HashRate[grants[x].mode])
        /\ \A x \in T : g[x] = HashRate[grants'[x].mode]
    <3>1. f \in [S -> Nat] /\ \A x \in S : f[x] = HashRate[grants[x].mode]
      <4>1. S \in SUBSET DOMAIN grants
        BY DEF EarnedOn
      <4>2. TypeOK
        BY <1>0 DEF TypeInv
      <4>3. f = Rates(S)
        BY DEF OnDay
      <4> HIDE DEF S, f
      <4> QED BY <4>1, <4>2, <4>3, RatesType
    <3>2. \A x \in DOMAIN grants' : HashRate[grants'[x].mode] \in Nat
      <4>1. \A x \in DOMAIN grants' : grants'[x] \in Grant
        BY DEF PaceInv, TypeInv, TypeOK
      <4> QED BY <4>1, AutoMiningAssumption DEF Grant
    <3>3. g = [x \in T |-> HashRate[grants'[x].mode]] /\ T \subseteq DOMAIN grants'
      BY DEF OnDay, Rates, EarnedOn
    <3> HIDE DEF f, g, S, T
    <3>4. g \in [T -> Nat] /\ \A x \in T : g[x] = HashRate[grants'[x].mode]
      BY <3>2, <3>3
    <3> QED BY <3>1, <3>4
  <2>5. \A x \in S \ {n} : g[x] = f[x]
    <3>1. S \subseteq DOMAIN grants
      BY DEF EarnedOn
    <3> HIDE DEF f, g, S, T, n
    <3> QED BY <1>4, <2>3, <2>4, <3>1
  <2>6. n \in T => g[n] = HashRate[op]
    BY <1>4, <2>4
  <2>7. D = DayOf(t) => f = Today(c)
    BY DEF Today
  <2>8. Total(f) \in Nat
    BY <2>1, TotalIsNat
  <2>9. DailyLimit \in Nat
    BY AutoMiningAssumption
  <2>10. S \ {n} = T \ {n} /\ f \in [S -> Nat] /\ g \in [T -> Nat]
    BY <2>3, <2>4
  <2> HIDE DEF D, S, T, f, g, n, t, op
  <2>11. /\ IsFiniteSet(Units(g))
         /\ Total(g) = Total(f) - (IF n \in S THEN f[n] ELSE 0) + (IF n \in T THEN g[n] ELSE 0)
    BY <2>1, <2>5, <2>10, TotalChange
  <2>12. Total(g) = Total(f) + (IF n \in T THEN HashRate[op] ELSE 0)
    BY <1>1, <2>3, <2>6, <2>8, <2>11
  <2>13. Total(g) <= DailyLimit
    <3>1. CASE n \in T
      <4>1. f = Today(c)
        BY <2>3, <2>7, <3>1
      <4> QED BY <1>5, <2>12, <3>1, <4>1
    <3>2. CASE n \notin T
      BY <2>1, <2>8, <2>12, <3>2
    <3> QED BY <3>1, <3>2
  <2> QED BY <2>2, <2>11, <2>13 DEF D
<1> QED BY <1>6, <1>9, <1>10, <1>11 DEF LimitInv

LEMMA NextLimitInv ==
    ASSUME ShortSkew, OneStarter, LimitInv, [Next]_vars
    PROVE  LimitInv'
<1>0. PaceInv' /\ TypeInv /\ Dated
  BY NextPaceInv DEF LimitInv, PaceInv
<1> USE ConstantsAreNat
<1>1. now \in Nat /\ now' \in Nat
  BY <1>0 DEF PaceInv, TypeInv, TypeOK
<1>2. \A g \in DOMAIN grants : grants[g].earned \in Nat
  BY <1>0, GrantType DEF TypeInv, Grant
<1>3. \A c \in Callers : call[c].at \in Nat
  BY <1>0 DEF TypeInv, TypeOK, Call
<1>4. CASE Tick
  <2>1. now' >= now /\ UNCHANGED <<session, grants, call, starting>>
    BY <1>1, <1>4 DEF Tick
  <2>2. Dated'
    BY <1>0, <1>1, <1>2, <1>3, <2>1 DEF Dated, Claiming
  <2>3. OneRuns'
    BY <2>1 DEF LimitInv, OneRuns, Active
  <2> QED BY <1>0, <2>1, <2>2, <2>3, LimitFrame DEF StillFirst
<1>5. CASE \/ \E c \in Starters, m \in Modes : StartBegin(c, m)
           \/ \E c \in Starters, s \in Sessions : StartCommit(c, s)
           \/ StopSession
  BY <1>0, <1>5, SessionLimit
<1>6. ASSUME NEW c \in Callers, NEW s \in Sessions, ClaimNormal(c, s) PROVE LimitInv'
  BY <1>0, <1>6, ReadLimit DEF ClaimNormal
<1>7. ASSUME NEW c \in Callers, NEW s \in Sessions, NEW i \in Impressions, ClaimTurbo(c, s, i)
      PROVE  LimitInv'
  BY <1>0, <1>7, ReadLimit DEF ClaimTurbo
<1>8. ASSUME NEW c \in Callers, ClaimWrite(c) PROVE LimitInv'
  BY <1>0, <1>8, WriteLimit
<1>9. CASE Cleanup
  <2>1. /\ UNCHANGED <<now, session, call, starting>> /\ DOMAIN grants' = DOMAIN grants
        /\ \A g \in DOMAIN grants :
              /\ grants'[g].mode = grants[g].mode /\ grants'[g].earned = grants[g].earned
              /\ grants'[g].row = grants[g].row \/ grants[g].earned + Ttl < now
    <3>1. /\ UNCHANGED <<now, session, call, starting>>
          /\ grants' = [g \in DOMAIN grants |->
                IF Expired(g) THEN [grants[g] EXCEPT !.row = FALSE] ELSE grants[g]]
      BY <1>9 DEF Cleanup
    <3>2. \A g \in DOMAIN grants :
              /\ [grants[g] EXCEPT !.row = FALSE].mode = grants[g].mode
              /\ [grants[g] EXCEPT !.row = FALSE].earned = grants[g].earned
      OBVIOUS
    <3> QED BY <3>1, <3>2 DEF Expired
  <2>2. Dated'
    BY <1>0, <2>1 DEF Dated, Claiming
  <2>3. OneRuns'
    BY <2>1 DEF LimitInv, OneRuns, Active
  <2> QED BY <1>0, <2>1, <2>2, <2>3, LimitFrame DEF StillFirst
<1>10. ASSUME NEW c \in Callers, NEW o, UNCHANGED <<now, session, grants, starting>>,
              call' = [call EXCEPT ![c] = o], o.op \notin {"normal", "turbo"}
       PROVE  LimitInv'
  <2>1. \A d \in Callers : call'[d] = call[d] \/ call'[d].op \notin {"normal", "turbo"}
    BY <1>0, <1>10 DEF TypeInv, TypeOK
  <2>2. Dated'
    BY <1>0, <1>10, <2>1 DEF Dated, Claiming
  <2>3. OneRuns'
    BY <1>10 DEF LimitInv, OneRuns, Active
  <2> QED BY <1>0, <1>10, <2>1, <2>2, <2>3, LimitFrame DEF StillFirst
<1>11. ASSUME NEW c \in Callers, NEW s, NEW i, NEW op \in {"banner", "click"}, Read(c, op, s, i)
       PROVE  LimitInv'
  <2> DEFINE o == [op |-> op, at |-> now, impression |-> i, session |-> s,
                   next |-> IF s = NoSession THEN 0 ELSE session[s].next]
  <2>1. /\ call' = [call EXCEPT ![c] = o] /\ UNCHANGED <<now, session, grants, starting>>
        /\ o.op \notin {"normal", "turbo"}
    BY <1>11 DEF Read
  <2> HIDE DEF o
  <2> QED BY <1>10, <2>1
<1>12. ASSUME NEW c \in Callers,
              \/ GiveUp(c) \/ StoreClick(c)
              \/ \E i \in Impressions : CreateImpression(c, i)
       PROVE  LimitInv'
  <2>1. call' = [call EXCEPT ![c] = Idle] /\ UNCHANGED <<now, session, grants, starting>>
    BY <1>12 DEF GiveUp, StoreClick, CreateImpression
  <2> QED BY <1>10, <2>1, IdleType
<1>13. CASE UNCHANGED vars
  <2>1. UNCHANGED <<now, session, grants, call, starting>>
    BY <1>13 DEF vars
  <2>2. Dated' /\ OneRuns'
    BY <1>0, <2>1 DEF LimitInv, Dated, Claiming, OneRuns, Active
  <2> QED BY <1>0, <2>1, <2>2, LimitFrame DEF StillFirst
<1> QED
  BY <1>4, <1>5, <1>6, <1>7, <1>8, <1>9, <1>11, <1>12, <1>13 DEF Next, GetBanner, Click

\* A player who starts one session at a time is granted no more than the cap on any day,
\* however claims race with one another, with the cleanup, with stops and with starts.
THEOREM DailyCap ==
    ASSUME ShortSkew, OneStarter
    PROVE  Spec => []DailyLimitHolds
<1>1. LimitInv => DailyLimitHolds
  BY DEF LimitInv, DayBooks, DailyLimitHolds, OnDay
<1>2. LimitInv /\ [Next]_vars => LimitInv'
  BY NextLimitInv
<1> QED BY <1>1, <1>2, InitLimitInv, PTL DEF Spec
=============================================================================
