------------------------ MODULE TelegramOutboxProofs ------------------------
(***************************************************************************)
(* Theorems about TelegramOutbox, for any number of events, ticks, admins, *)
(* attempts and faults: who owns a row being processed, and how often its  *)
(* notice is posted.                                                       *)
(***************************************************************************)
EXTENDS TelegramOutbox, FiniteSetTheorems, TLAPS

\* A tick past its look-up has an event.
TicksHaveEvents ==
    \A k \in Ticks : tick[k].pc \notin {"start", "over"} => tick[k].event \in Events

TypeInv == TypeOK /\ TicksHaveEvents

LEMMA BoundsAreNat ==
    /\ MaxDelivered \in Nat /\ MaxDelivered >= 1 /\ MaxRetries \in Nat /\ MaxRestarts \in Nat
    /\ NoEvent \notin Events
BY OutboxAssumption

-----------------------------------------------------------------------------
(* Types.                                                                  *)

LEMMA NewTickType == /\ NewTick \in Tick /\ NewTick.pc = "start"
                     /\ [NewTick EXCEPT !.pc = "over"] \in Tick
BY DEF NewTick, Tick, Claimable

\* The end of a tick leaves the others alone.
LEMMA OverEffect ==
    ASSUME TypeInv, NEW k \in Ticks, Over(k)
    PROVE  /\ tick' \in [Ticks -> Tick] /\ tick'[k].pc = "over"
           /\ \A j \in Ticks : j # k => tick'[j] = tick[j]
           /\ TicksHaveEvents'
<1>1. tick' \in [Ticks -> Tick] /\ tick'[k].pc = "over"
      /\ \A j \in Ticks : j # k => tick'[j] = tick[j]
  BY NewTickType DEF Over, TypeInv, TypeOK, NewTick
<1> QED BY <1>1 DEF TypeInv, TicksHaveEvents

\* After an exit every tick is new.
LEMMA ExitEffect ==
    ASSUME TypeInv, Exit
    PROVE  /\ tick' \in [Ticks -> Tick] /\ TicksHaveEvents'
           /\ \A j \in Ticks : tick'[j].pc = "start"
           /\ restarts' \in 0 .. MaxRestarts /\ restarts' > 0
           /\ UNCHANGED <<delivered, lost, retries>>
BY NewTickType, BoundsAreNat DEF Exit, TypeInv, TypeOK, TicksHaveEvents

\* Another state of tick k, with the same event.
LEMMA MoveEffect ==
    ASSUME TypeInv, NEW k \in Ticks, tick[k].event \in Events,
           NEW pc \in {"claimed", "sent", "refused", "lost"},
           tick' = [tick EXCEPT ![k].pc = pc]
    PROVE  /\ tick' \in [Ticks -> Tick] /\ TicksHaveEvents'
           /\ tick'[k].pc = pc /\ tick'[k].event = tick[k].event
           /\ \A j \in Ticks : j # k => tick'[j] = tick[j]
<1>1. tick' \in [Ticks -> Tick] /\ tick'[k].pc = pc /\ tick'[k].event = tick[k].event
      /\ \A j \in Ticks : j # k => tick'[j] = tick[j]
  BY DEF TypeInv, TypeOK, Tick
<1> QED BY <1>1 DEF TypeInv, TicksHaveEvents

\* A count of one event goes up by one or stays at the bound.
LEMMA BumpEffect ==
    ASSUME NEW f \in [Events -> 0 .. MaxDelivered], NEW e \in Events
    PROVE  /\ Bump(f, e) \in [Events -> 0 .. MaxDelivered]
           /\ Bump(f, e)[e] = IF f[e] < MaxDelivered THEN f[e] + 1 ELSE MaxDelivered
           /\ Bump(f, e)[e] >= 1
           /\ \A d \in Events : d # e => Bump(f, e)[d] = f[d]
BY BoundsAreNat DEF Bump

LEMMA InitTypeInv == Init => TypeInv
BY BoundsAreNat, NewTickType DEF Init, NoRow, TypeInv, TypeOK, TicksHaveEvents, Row

LEMMA FindType ==
    ASSUME TypeInv, NEW k \in Ticks, Find(k)
    PROVE  /\ TypeInv' /\ UNCHANGED <<row, desk, history>>
           /\ \A j \in Ticks : j # k => tick'[j] = tick[j]
           /\ tick'[k].pc \in {"over", "found"}
<1>1. CASE Over(k)
  BY <1>1, OverEffect DEF Find, TypeInv, TypeOK, history
<1>2. ASSUME NEW e \in Ready,
             tick' = [tick EXCEPT ![k] = [pc |-> "found", event |-> e,
                                          seen |-> row[e].status, attempts |-> 0]]
      PROVE  /\ tick' \in [Ticks -> Tick] /\ TicksHaveEvents' /\ tick'[k].pc = "found"
             /\ \A j \in Ticks : j # k => tick'[j] = tick[j]
  <2>1. [pc |-> "found", event |-> e, seen |-> row[e].status, attempts |-> 0] \in Tick
    BY DEF Ready, Tick
  <2>2. tick' \in [Ticks -> Tick] /\ tick'[k].pc = "found" /\ tick'[k].event = e
        /\ \A j \in Ticks : j # k => tick'[j] = tick[j]
    BY <1>2, <2>1 DEF TypeInv, TypeOK
  <2> QED BY <2>2 DEF Ready, TypeInv, TicksHaveEvents
<1> QED BY <1>1, <1>2 DEF Find, TypeInv, TypeOK, history

\* The claim itself.
Claims(k) ==
    /\ StillReady(k)
    /\ row' = [row EXCEPT ![tick[k].event].status = "processing",
                          ![tick[k].event].attempts = row[tick[k].event].attempts + 1]
    /\ tick' = [tick EXCEPT ![k].pc = "claimed",
                            ![k].attempts = row[tick[k].event].attempts + 1]
    /\ UNCHANGED <<desk, history>>

LEMMA ClaimsEffect ==
    ASSUME TypeInv, NEW k \in Ticks, tick[k].pc = "found", Claims(k)
    PROVE  /\ TypeInv' /\ tick[k].event \in Events
           /\ tick'[k].pc = "claimed" /\ tick'[k].event = tick[k].event
           /\ \A j \in Ticks : j # k => tick'[j] = tick[j]
           /\ row[tick[k].event].status \in Claimable
           /\ row'[tick[k].event].status = "processing"
           /\ \A d \in Events : d # tick[k].event => row'[d] = row[d]
<1>1. tick[k].event \in Events
  BY DEF TypeInv, TicksHaveEvents
<1>2. row[tick[k].event].attempts + 1 \in Nat
  BY <1>1 DEF TypeInv, TypeOK, Row
<1>3. row' \in [Events -> Row] /\ row'[tick[k].event].status = "processing"
      /\ \A d \in Events : d # tick[k].event => row'[d] = row[d]
  BY <1>1, <1>2, SMTT(30) DEF Claims, TypeInv, TypeOK, Row
<1>4. tick' \in [Ticks -> Tick] /\ tick'[k].pc = "claimed" /\ tick'[k].event = tick[k].event
      /\ \A j \in Ticks : j # k => tick'[j] = tick[j]
  BY <1>2, ZenonT(60) DEF Claims, TypeInv, TypeOK, Tick
<1>5. row[tick[k].event].status \in Claimable
  BY <1>1 DEF Claims, StillReady, TypeInv, TypeOK, Tick
<1>6. TicksHaveEvents'
  BY <1>1, <1>4 DEF TypeInv, TicksHaveEvents
<1> QED BY <1>1, <1>3, <1>4, <1>5, <1>6 DEF Claims, history, TypeInv, TypeOK

\* A row is marked with the outcome of its tick.
Marks(k, status) ==
    /\ row'[tick[k].event].status = status
    /\ \A d \in Events : d # tick[k].event => row'[d] = row[d]
    /\ tick'[k].pc = "over" /\ \A j \in Ticks : j # k => tick'[j] = tick[j]
    /\ UNCHANGED <<desk, history>>

\* An error outside the tick's try.
Exits == /\ \A j \in Ticks : tick'[j].pc = "start"
         /\ restarts' > 0
         /\ UNCHANGED <<row, desk, delivered, lost, retries>>

LEMMA ClaimType ==
    ASSUME TypeInv, NEW k \in Ticks, Claim(k)
    PROVE  /\ TypeInv' /\ tick[k].pc = "found"
           /\ \/ Claims(k)
              \/ /\ UNCHANGED <<row, desk, history>> /\ tick'[k].pc = "over"
                 /\ \A j \in Ticks : j # k => tick'[j] = tick[j]
              \/ Exits
<1>1. CASE Claims(k)
  BY <1>1, ClaimsEffect DEF Claim
<1>2. CASE Over(k) /\ UNCHANGED <<row, desk, history>>
  BY <1>2, OverEffect DEF Claim, TypeInv, TypeOK, history
<1>3. CASE Exit /\ UNCHANGED <<row, desk>>
  BY <1>3, ExitEffect DEF Claim, Exits, TypeInv, TypeOK
<1> QED BY <1>1, <1>2, <1>3 DEF Claim, Claims

\* What a post comes to: the tick knows, or does not, whether it arrived.
Posts(k, outcome) ==
    /\ outcome \in {"sent", "refused", "lost"}
    /\ tick'[k].pc = outcome /\ tick'[k].event = tick[k].event
    /\ \A j \in Ticks : j # k => tick'[j] = tick[j]
    /\ delivered' = IF outcome = "refused" THEN delivered ELSE Bump(delivered, tick[k].event)
    /\ lost' = IF outcome = "lost" THEN Bump(lost, tick[k].event) ELSE lost
    /\ UNCHANGED <<row, desk, retries, restarts>>

LEMMA SendType ==
    ASSUME TypeInv, NEW k \in Ticks, Send(k)
    PROVE  /\ TypeInv' /\ tick[k].pc = "claimed" /\ tick[k].event \in Events
           /\ \E outcome \in {"sent", "refused", "lost"} : Posts(k, outcome)
<1>1. tick[k].pc = "claimed" /\ tick[k].event \in Events
  BY DEF Send, TypeInv, TicksHaveEvents
<1>2. PICK outcome \in {"sent", "refused", "lost"} :
        /\ tick' = [tick EXCEPT ![k].pc = outcome]
        /\ delivered' = IF outcome = "refused" THEN delivered
                        ELSE Bump(delivered, tick[k].event)
        /\ lost' = IF outcome = "lost" THEN Bump(lost, tick[k].event) ELSE lost
  BY DEF Send
<1>3. /\ tick' \in [Ticks -> Tick] /\ TicksHaveEvents'
      /\ tick'[k].pc = outcome /\ tick'[k].event = tick[k].event
      /\ \A j \in Ticks : j # k => tick'[j] = tick[j]
  BY <1>1, <1>2, MoveEffect
<1>4. /\ delivered' \in [Events -> 0 .. MaxDelivered] /\ lost' \in [Events -> 0 .. MaxDelivered]
  BY <1>1, <1>2, BumpEffect DEF TypeInv, TypeOK
<1>5. Posts(k, outcome)
  BY <1>2, <1>3 DEF Send, Posts
<1> QED BY <1>1, <1>3, <1>4, <1>5 DEF Send, TypeInv, TypeOK

LEMMA MarksType ==
    ASSUME TypeInv, NEW k \in Ticks, tick[k].event \in Events, Over(k),
           UNCHANGED <<desk, history>>,
           NEW s \in {"sent", "failed", "dead"}, NEW due \in BOOLEAN,
           row' = [row EXCEPT ![tick[k].event].due = due, ![tick[k].event].status = s]
    PROVE  TypeInv' /\ Marks(k, s)
<1>1. row' \in [Events -> Row] /\ row'[tick[k].event].status = s
      /\ \A d \in Events : d # tick[k].event => row'[d] = row[d]
  BY DEF TypeInv, TypeOK, Row
<1> QED BY <1>1, OverEffect DEF Marks, history, TypeInv, TypeOK

LEMMA MarkSentType ==
    ASSUME TypeInv, NEW k \in Ticks, MarkSent(k)
    PROVE  /\ TypeInv' /\ tick[k].pc = "sent" /\ tick[k].event \in Events
           /\ \/ Marks(k, "sent")
              \/ /\ tick'[k].pc = "lost" /\ tick'[k].event = tick[k].event
                 /\ \A j \in Ticks : j # k => tick'[j] = tick[j]
                 /\ lost' = Bump(lost, tick[k].event)
                 /\ UNCHANGED <<row, desk, delivered, retries, restarts>>
<1>1. tick[k].pc = "sent" /\ tick[k].event \in Events
  BY DEF MarkSent, TypeInv, TicksHaveEvents
<1>2. CASE row' = [row EXCEPT ![tick[k].event].status = "sent"] /\ Over(k) /\ UNCHANGED lost
  <2>1. row[tick[k].event].due \in BOOLEAN
        /\ row' = [row EXCEPT ![tick[k].event].due = row[tick[k].event].due,
                              ![tick[k].event].status = "sent"]
    BY <1>1, <1>2 DEF TypeInv, TypeOK, Row
  <2> QED BY <1>1, <1>2, <2>1, MarksType DEF MarkSent, history
<1>3. CASE tick' = [tick EXCEPT ![k].pc = "lost"] /\ lost' = Bump(lost, tick[k].event)
           /\ UNCHANGED row
  <2>1. lost' \in [Events -> 0 .. MaxDelivered]
    BY <1>1, <1>3, BumpEffect DEF TypeInv, TypeOK
  <2>2. /\ tick' \in [Ticks -> Tick] /\ TicksHaveEvents'
        /\ tick'[k].pc = "lost" /\ tick'[k].event = tick[k].event
        /\ \A j \in Ticks : j # k => tick'[j] = tick[j]
    BY <1>1, <1>3, MoveEffect
  <2> QED BY <1>1, <1>3, <2>1, <2>2 DEF MarkSent, TypeInv, TypeOK
<1> QED BY <1>1, <1>2, <1>3 DEF MarkSent

LEMMA MarkFailedType ==
    ASSUME TypeInv, NEW k \in Ticks, MarkFailed(k)
    PROVE  /\ TypeInv' /\ tick[k].pc \in {"refused", "lost"} /\ tick[k].event \in Events
           /\ Marks(k, "failed") \/ Marks(k, "dead") \/ Exits
<1>1. tick[k].pc \in {"refused", "lost"} /\ tick[k].event \in Events
  BY DEF MarkFailed, TypeInv, TicksHaveEvents
<1>2. CASE /\ row' = [row EXCEPT ![tick[k].event].due = FALSE,
                     ![tick[k].event].status = IF IsDead(k) THEN "dead" ELSE "failed"]
           /\ Over(k) /\ UNCHANGED history
  BY <1>1, <1>2, MarksType DEF MarkFailed
<1>3. CASE Exit /\ UNCHANGED row
  BY <1>1, <1>3, ExitEffect DEF MarkFailed, Exits, TypeInv, TypeOK
<1> QED BY <1>1, <1>2, <1>3 DEF MarkFailed

\* What the other actions do to the row of an event.
LEMMA RowsType ==
    ASSUME TypeInv, NEW e \in Events, Enqueue(e) \/ BecomeDue(e)
    PROVE  /\ TypeInv' /\ UNCHANGED <<tick, desk, history>>
           /\ row[e].status \notin {"processing", "sent"}
           /\ row'[e].status \notin {"processing", "sent"}
           /\ \A d \in Events : d # e => row'[d] = row[d]
<1>1. [status |-> "pending", attempts |-> 0, due |-> TRUE] \in Row
  BY DEF Row
<1>2. CASE Enqueue(e)
  BY <1>1, <1>2 DEF Enqueue, history, TypeInv, TypeOK, TicksHaveEvents
<1>3. CASE BecomeDue(e)
  <2>1. row' \in [Events -> Row] /\ row'[e].status = row[e].status
        /\ \A d \in Events : d # e => row'[d] = row[d]
    BY <1>3 DEF BecomeDue, TypeInv, TypeOK, Row
  <2> QED BY <1>3, <2>1 DEF BecomeDue, Claimable, history, TypeInv, TypeOK, TicksHaveEvents
<1> QED BY <1>2, <1>3

LEMMA RetryWriteType ==
    ASSUME TypeInv, NEW a \in Admins, RetryWrite(a)
    PROVE  /\ TypeInv' /\ desk[a] \in Events
           /\ retries'[desk[a]] > 0
           /\ \A d \in Events : d # desk[a] => row'[d] = row[d] /\ retries'[d] = retries[d]
           /\ row'[desk[a]].status = "pending"
           /\ UNCHANGED <<tick, delivered, lost, restarts>>
<1>1. [status |-> "pending", attempts |-> 0, due |-> TRUE] \in Row
  BY DEF Row
<1>2. desk[a] \in Events /\ retries[desk[a]] + 1 \in 0 .. MaxRetries
  BY BoundsAreNat DEF RetryWrite, TypeInv, TypeOK
<1>3. row' \in [Events -> Row] /\ \A d \in Events : d # desk[a] => row'[d] = row[d]
  BY <1>1, <1>2 DEF RetryWrite, TypeInv, TypeOK
<1>4. /\ retries' \in [Events -> 0 .. MaxRetries] /\ retries'[desk[a]] > 0
      /\ \A d \in Events : d # desk[a] => retries'[d] = retries[d]
  BY <1>2, BoundsAreNat DEF RetryWrite, TypeInv, TypeOK
<1>5. row'[desk[a]].status = "pending"
  BY <1>2 DEF RetryWrite, TypeInv, TypeOK
<1> QED BY <1>2, <1>3, <1>4, <1>5 DEF RetryWrite, TypeInv, TypeOK, TicksHaveEvents

\* A round that starts, or a process that stops.
LEMMA FreshType ==
    ASSUME TypeInv, NewRound \/ Crash
    PROVE  /\ TypeInv'
           /\ UNCHANGED <<row, desk, history>> \/ Exits
           /\ \A j \in Ticks : tick'[j].pc = "start"
           /\ NewRound => \A j \in Ticks : tick[j].pc = "over"
<1>1. CASE NewRound
  BY <1>1, NewTickType DEF NewRound, history, TypeInv, TypeOK, TicksHaveEvents
<1>2. CASE Crash /\ ~NewRound
  BY <1>2, ExitEffect DEF Crash, Exits, TypeInv, TypeOK
<1> QED BY <1>1, <1>2

LEMMA NextTypeInv == TypeInv /\ [Next]_vars => TypeInv'
<1> SUFFICES ASSUME TypeInv, [Next]_vars PROVE TypeInv'
  OBVIOUS
<1>1. ASSUME NEW a \in Admins, NEW e \in Events, RetryRead(a, e) PROVE TypeInv'
  BY <1>1 DEF RetryRead, history, TypeInv, TypeOK, TicksHaveEvents
<1>2. CASE UNCHANGED vars
  BY <1>2 DEF vars, history, TypeInv, TypeOK, TicksHaveEvents
<1> QED
  BY <1>1, <1>2, RowsType, FindType, ClaimType, SendType, MarkSentType, MarkFailedType,
     RetryWriteType, FreshType DEF Next

THEOREM TypingInv == Spec => []TypeInv
BY InitTypeInv, NextTypeInv, PTL DEF Spec

\* Every variable keeps its type; a tick past its look-up has an event.
THEOREM Typing == Spec => []TypeOK
BY TypingInv, PTL DEF TypeInv

-----------------------------------------------------------------------------
(* Ownership.  As long as no admin has reset it, the row of a tick past    *)
(* its claim is in processing, and one tick at most is past the claim.     *)

Owns(k, e) == tick[k].event = e /\ tick[k].pc \in {"claimed", "sent", "refused", "lost"}

RowsOwned ==
    \A e \in Events : retries[e] = 0 =>
        /\ \A k \in Ticks : Owns(k, e) => row[e].status = "processing"
        /\ \A j, k \in Ticks : Owns(j, e) /\ Owns(k, e) => j = k
        /\ (row[e].status = "processing" /\ restarts = 0) => \E k \in Ticks : Owns(k, e)

OwnInv == TypeInv /\ RowsOwned

LEMMA InitOwn == Init => OwnInv
BY InitTypeInv DEF Init, OwnInv, RowsOwned, Owns, NoRow, NewTick

LEMMA NextOwn == OwnInv /\ [Next]_vars => OwnInv'
<1> SUFFICES ASSUME OwnInv, [Next]_vars PROVE RowsOwned'
  BY NextTypeInv DEF OwnInv
<1> USE DEF OwnInv, RowsOwned, Owns
<1>1. ASSUME NEW e \in Events, Enqueue(e) \/ BecomeDue(e) PROVE RowsOwned'
  BY <1>1, RowsType DEF history
<1>2. ASSUME NEW k \in Ticks, Find(k) PROVE RowsOwned'
  <2>1. tick[k].pc = "start"
    BY <1>2 DEF Find
  <2>2. \A j \in Ticks, e \in Events : Owns(j, e)' <=> Owns(j, e)
    BY <1>2, <2>1, FindType
  <2>3. UNCHANGED <<row, retries, restarts>>
    BY <1>2, FindType DEF history
  <2> HIDE DEF Owns
  <2> QED BY <2>2, <2>3
<1>3. ASSUME NEW k \in Ticks, Claim(k) PROVE RowsOwned'
  <2>1. CASE Claims(k)
    <3> PICK f \in Events : f = tick[k].event
      BY <1>3, <2>1, ClaimType, ClaimsEffect
    <3>1. /\ Owns(k, f)' /\ \A e \in Events : e # f => ~Owns(k, e)'
          /\ \A e \in Events : ~Owns(k, e)
          /\ \A j \in Ticks : j # k => tick'[j] = tick[j]
      BY <1>3, <2>1, ClaimType, ClaimsEffect
    <3>2. \A j \in Ticks, e \in Events : j # k => (Owns(j, e)' <=> Owns(j, e))
      BY <3>1
    <3>3. /\ row[f].status \in Claimable /\ row'[f].status = "processing"
          /\ \A d \in Events : d # f => row'[d] = row[d]
      <4> HIDE DEF RowsOwned, Owns
      <4> QED BY <1>3, <2>1, ClaimType, ClaimsEffect
    <3>. UNCHANGED <<retries, restarts>>
      BY <2>1 DEF Claims, history
    <3>4. retries[f] = 0 => \A j \in Ticks : ~Owns(j, f)
      BY <3>3 DEF Claimable
    <3> HIDE DEF Owns
    <3>5. ASSUME NEW e \in Events, retries'[e] = 0
          PROVE  /\ \A j \in Ticks : Owns(j, e)' => row'[e].status = "processing"
                 /\ \A i, j \in Ticks : Owns(i, e)' /\ Owns(j, e)' => i = j
                 /\ (row'[e].status = "processing" /\ restarts' = 0)
                        => \E j \in Ticks : Owns(j, e)'
      <4>1. CASE e = f
        BY <3>1, <3>2, <3>3, <3>4, <3>5, <4>1
      <4>2. CASE e # f
        BY <3>1, <3>2, <3>3, <3>5, <4>2
      <4> QED BY <4>1, <4>2
    <3> QED BY <3>5
  <2>2. CASE Exits
    BY <2>2 DEF Exits
  <2>3. CASE /\ UNCHANGED <<row, desk, history>> /\ tick'[k].pc = "over"
             /\ \A j \in Ticks : j # k => tick'[j] = tick[j]
    <3>1. \A j \in Ticks, e \in Events : Owns(j, e)' <=> Owns(j, e)
      BY <1>3, <2>3, ClaimType
    <3> HIDE DEF Owns
    <3> QED BY <2>3, <3>1 DEF history
  <2> QED BY <1>3, <2>1, <2>2, <2>3, ClaimType
<1>4. ASSUME NEW k \in Ticks, Send(k) PROVE RowsOwned'
  BY <1>4, SendType DEF Posts
<1>5. ASSUME NEW k \in Ticks, MarkSent(k) \/ MarkFailed(k) PROVE RowsOwned'
  <2>1. tick[k].pc \in {"sent", "refused", "lost"} /\ tick[k].event \in Events
    BY <1>5, MarkSentType, MarkFailedType
  <2>2. ASSUME NEW s \in {"sent", "failed", "dead"}, Marks(k, s) PROVE RowsOwned'
    BY <2>1, <2>2 DEF Marks, history
  <2>3. CASE Exits
    BY <2>3 DEF Exits
  <2>4. CASE /\ tick'[k].pc = "lost" /\ tick'[k].event = tick[k].event
             /\ \A j \in Ticks : j # k => tick'[j] = tick[j]
             /\ UNCHANGED <<row, retries, restarts>>
    BY <2>1, <2>4
  <2> QED BY <1>5, <2>2, <2>3, <2>4, MarkSentType, MarkFailedType
<1>6. ASSUME NEW a \in Admins, RetryWrite(a) PROVE RowsOwned'
  BY <1>6, RetryWriteType
<1>7. CASE NewRound
  <2>1. \A k \in Ticks, e \in Events : ~Owns(k, e) /\ ~Owns(k, e)'
    BY <1>7, FreshType
  <2>2. UNCHANGED <<row, retries, restarts>>
    BY <1>7 DEF NewRound, history
  <2> HIDE DEF Owns
  <2> QED BY <2>1, <2>2
<1>10. CASE Crash
  <2>1. \A k \in Ticks, e \in Events : ~Owns(k, e)'
    BY <1>10, FreshType
  <2>2. UNCHANGED <<row, retries>> /\ restarts' > 0
    BY <1>10, ExitEffect DEF Crash
  <2> HIDE DEF Owns
  <2> QED BY <2>1, <2>2
<1>8. ASSUME NEW a \in Admins, NEW e \in Events, RetryRead(a, e) PROVE RowsOwned'
  BY <1>8 DEF RetryRead, history
<1>9. CASE UNCHANGED vars
  BY <1>9 DEF vars, history
<1> QED BY <1>1, <1>2, <1>3, <1>4, <1>5, <1>6, <1>7, <1>8, <1>9, <1>10 DEF Next

THEOREM OwnedRows == Spec => []OwnInv
BY InitOwn, NextOwn, PTL DEF Spec

LEMMA OwnersCounted == OwnInv => ProcessingIsOwned
<1> SUFFICES ASSUME OwnInv, NEW e \in Events, row[e].status = "processing", retries[e] = 0
             PROVE  Cardinality(Owners(e)) \in (IF restarts = 0 THEN {1} ELSE {0, 1})
  BY DEF ProcessingIsOwned
<1>1. CASE Owners(e) = {}
  BY <1>1, FS_EmptySet DEF OwnInv, RowsOwned, Owns, Owners
<1>2. ASSUME NEW k \in Owners(e) PROVE Cardinality(Owners(e)) = 1
  <2>1. Owners(e) = {k}
    BY DEF OwnInv, RowsOwned, Owns, Owners
  <2> QED BY <2>1, FS_Singleton
<1> QED BY <1>1, <1>2

\* Without a manual retry a row in processing has one owner, and none only after a stop of
\* the process: the conditional update of the claim lets one tick through.
THEOREM OneOwner == Spec => []ProcessingIsOwned
BY OwnedRows, OwnersCounted, PTL

-----------------------------------------------------------------------------
(* Posts.  Until an admin resets the row, a post the worker does not take  *)
(* for a failure leads to sent, or stays with an owner that knows of it.   *)

Known(e) ==
    \/ delivered[e] <= lost[e]
    \/ row[e].status = "sent"
    \/ row[e].status = "processing" /\ \A k \in Ticks : Owns(k, e) => tick[k].pc = "sent"

PostsKnown ==
    /\ \A k \in Ticks : tick[k].pc = "sent" => delivered[tick[k].event] >= 1
    /\ \A e \in Events : row[e].status = "sent" => delivered[e] >= 1
    /\ \A e \in Events : retries[e] = 0 => delivered[e] <= 1 + lost[e] /\ Known(e)

PostInv == OwnInv /\ PostsKnown

LEMMA InitPost == Init => PostInv
BY InitOwn DEF Init, PostInv, PostsKnown, Known, NoRow, NewTick

LEMMA NextPost == PostInv /\ [Next]_vars => PostInv'
<1> SUFFICES ASSUME PostInv, [Next]_vars PROVE PostsKnown'
  BY NextOwn DEF PostInv
<1> USE DEF PostInv, OwnInv, PostsKnown, Known, Owns
<1>0. /\ delivered \in [Events -> 0 .. MaxDelivered] /\ lost \in [Events -> 0 .. MaxDelivered]
      /\ MaxDelivered \in Nat
      /\ \A k \in Ticks : tick[k].pc = "sent" => tick[k].event \in Events
  BY BoundsAreNat DEF TypeInv, TypeOK, TicksHaveEvents
<1>1. ASSUME NEW e \in Events, Enqueue(e) \/ BecomeDue(e) PROVE PostsKnown'
  BY <1>0, <1>1, RowsType DEF history
<1>2. ASSUME NEW k \in Ticks, Find(k) PROVE PostsKnown'
  <2>1. tick[k].pc = "start"
    BY <1>2 DEF Find
  <2>2. UNCHANGED <<row, delivered, lost, retries>>
        /\ \A j \in Ticks : j # k => tick'[j] = tick[j]
    BY <1>2, FindType DEF history
  <2>3. tick'[k].pc \in {"over", "found"}
    BY <1>2, FindType
  <2> QED BY <1>0, <2>1, <2>2, <2>3
<1>3. ASSUME NEW k \in Ticks, Claim(k) PROVE PostsKnown'
  <2>1. CASE Claims(k)
    <3> PICK e \in Events : e = tick[k].event
      BY <1>3, <2>1, ClaimType, ClaimsEffect
    <3>1. /\ tick[k].pc = "found" /\ tick'[k].pc = "claimed"
          /\ \A j \in Ticks : j # k => tick'[j] = tick[j]
          /\ UNCHANGED <<delivered, lost, retries>>
      BY <1>3, <2>1, ClaimType, ClaimsEffect DEF Claims, history
    <3>2. /\ e \in Events /\ row[e].status \in Claimable /\ row'[e].status = "processing"
          /\ \A d \in Events : d # e => row'[d] = row[d]
      BY <1>3, <2>1, ClaimType, ClaimsEffect
    <3>3. retries[e] = 0 => delivered[e] <= lost[e]
      BY <3>2 DEF Claimable
    <3>4. \A d \in Events : row'[d].status = "sent" => row[d].status = "sent"
      BY <3>2
    <3>5. \A d \in Events, j \in Ticks : d # e /\ Owns(j, d)' => Owns(j, d) /\ tick'[j] = tick[j]
      BY <1>3, <2>1, <3>1, ClaimType, ClaimsEffect
    <3> QED BY <1>0, <3>1, <3>2, <3>3, <3>4, <3>5
  <2>2. CASE Exits
    BY <1>0, <2>2 DEF Exits
  <2>3. CASE /\ UNCHANGED <<row, desk, history>> /\ tick'[k].pc = "over"
             /\ \A j \in Ticks : j # k => tick'[j] = tick[j]
    BY <1>0, <2>3 DEF history
  <2> QED BY <1>3, <2>1, <2>2, <2>3, ClaimType
<1>4. ASSUME NEW k \in Ticks, Send(k) PROVE PostsKnown'
  <2>1. tick[k].pc = "claimed" /\ tick[k].event \in Events
    BY <1>4, SendType
  <2>2. PICK outcome \in {"sent", "refused", "lost"} : Posts(k, outcome)
    BY <1>4, SendType
  <2> PICK e \in Events : e = tick[k].event
    BY <2>1
  <2>3. retries[e] = 0 => delivered[e] <= lost[e] /\ row[e].status = "processing"
                          /\ \A j \in Ticks : Owns(j, e) => j = k
    BY <2>1 DEF RowsOwned
  <2>4. \A d \in Events : d # e => delivered'[d] = delivered[d] /\ lost'[d] = lost[d]
    BY <1>0, <2>1, <2>2, BumpEffect DEF Posts
  <2>5. /\ outcome = "sent" => delivered'[e] <= delivered[e] + 1 /\ delivered'[e] >= 1
                               /\ lost'[e] = lost[e]
        /\ outcome = "lost" => /\ delivered'[e] >= 1
                               /\ delivered[e] <= lost[e] => delivered'[e] <= lost'[e]
        /\ outcome = "refused" => delivered'[e] = delivered[e] /\ lost'[e] = lost[e]
        /\ delivered'[e] >= delivered[e]
    BY <1>0, <2>1, <2>2, BumpEffect, SMTT(30) DEF Posts
  <2>6. delivered'[e] \in Nat /\ lost'[e] \in Nat
    BY <1>0, <2>1, <2>2, BumpEffect DEF Posts
  <2>7. \A j \in Ticks : tick'[j].pc = "sent" => delivered'[tick'[j].event] >= 1
    BY <1>0, <2>1, <2>2, <2>4, <2>5, <2>6 DEF Posts
  <2>8. \A d \in Events : row'[d].status = "sent" => delivered'[d] >= 1
    BY <1>0, <2>1, <2>2, <2>4, <2>5, <2>6 DEF Posts
  <2>9. ASSUME retries'[e] = 0 PROVE delivered'[e] <= 1 + lost'[e] /\ Known(e)'
    BY <1>0, <2>1, <2>2, <2>3, <2>5, <2>6, <2>9 DEF Posts
  <2>10. ASSUME NEW d \in Events, d # e, retries'[d] = 0
         PROVE  delivered'[d] <= 1 + lost'[d] /\ Known(d)'
    BY <1>0, <2>1, <2>2, <2>4, <2>10 DEF Posts
  <2>11. \A d \in Events : retries'[d] = 0 => delivered'[d] <= 1 + lost'[d] /\ Known(d)'
    <3> HIDE DEF Known
    <3> QED BY <2>1, <2>9, <2>10
  <2> HIDE DEF Known
  <2> QED BY <2>7, <2>8, <2>11
<1>5. ASSUME NEW k \in Ticks, MarkSent(k) \/ MarkFailed(k) PROVE PostsKnown'
  <2>1. tick[k].pc \in {"sent", "refused", "lost"} /\ tick[k].event \in Events
    BY <1>5, MarkSentType, MarkFailedType
  <2>2. CASE Marks(k, "sent") /\ tick[k].pc = "sent"
    BY <1>0, <2>1, <2>2 DEF Marks, history
  <2>3. ASSUME NEW s \in {"failed", "dead"}, Marks(k, s), tick[k].pc # "sent"
        PROVE  PostsKnown'
    <3>1. retries[tick[k].event] = 0 => delivered[tick[k].event] <= lost[tick[k].event]
      BY <2>1, <2>3 DEF RowsOwned
    <3> QED BY <1>0, <2>1, <2>3, <3>1 DEF Marks, history
  <2>4. CASE Exits
    BY <1>0, <2>4 DEF Exits
  <2>5. CASE /\ tick[k].pc = "sent" /\ tick'[k].pc = "lost" /\ tick'[k].event = tick[k].event
             /\ \A j \in Ticks : j # k => tick'[j] = tick[j]
             /\ lost' = Bump(lost, tick[k].event)
             /\ UNCHANGED <<row, desk, delivered, retries, restarts>>
    <3> PICK e \in Events : e = tick[k].event
      BY <2>1
    <3>1. /\ lost'[e] = IF lost[e] < MaxDelivered THEN lost[e] + 1 ELSE MaxDelivered
          /\ \A d \in Events : d # e => lost'[d] = lost[d]
      BY <1>0, <2>1, <2>5, BumpEffect
    <3>2. ASSUME retries'[e] = 0 PROVE delivered'[e] <= 1 + lost'[e] /\ Known(e)'
      BY <1>0, <2>1, <2>5, <3>1, <3>2
    <3>3. ASSUME NEW d \in Events, d # e, retries'[d] = 0
          PROVE  delivered'[d] <= 1 + lost'[d] /\ Known(d)'
      BY <1>0, <2>1, <2>5, <3>1, <3>3
    <3> QED BY <1>0, <2>1, <2>5, <3>2, <3>3
  <2> QED BY <1>5, <2>2, <2>3, <2>4, <2>5, MarkSentType, MarkFailedType
<1>6. ASSUME NEW a \in Admins, RetryWrite(a) PROVE PostsKnown'
  BY <1>0, <1>6, RetryWriteType
<1>7. CASE NewRound \/ Crash
  <2>1. \A j \in Ticks : tick'[j].pc = "start"
    BY <1>7, FreshType
  <2>2. UNCHANGED <<row, delivered, lost, retries>>
    BY <1>7, FreshType DEF Exits, history
  <2> QED BY <1>0, <2>1, <2>2
<1>8. ASSUME NEW a \in Admins, NEW e \in Events, RetryRead(a, e) PROVE PostsKnown'
  BY <1>0, <1>8 DEF RetryRead, history
<1>9. CASE UNCHANGED vars
  BY <1>0, <1>9 DEF vars, history
<1> QED BY <1>1, <1>2, <1>3, <1>4, <1>5, <1>6, <1>7, <1>8, <1>9 DEF Next

\* A row marked sent was posted, and without a manual retry a notice is posted again only
\* as often as the worker took a post for a failure.
THEOREM PostsExplained == Spec => []PostsMatchRows
<1>1. PostInv => PostsMatchRows
  BY DEF PostInv, PostsKnown, PostsMatchRows
<1> QED BY <1>1, InitPost, NextPost, PTL DEF Spec
=============================================================================
