--------------------------- MODULE TelegramOutbox ---------------------------
(***************************************************************************)
(* The outbox of withdrawal notices and the worker that delivers them.     *)
(*   server/services/withdrawalTelegramService.ts    rows, admin retry     *)
(*   services/telegram-proof-worker/telegramProofWorker.js    the worker   *)
(* The worker runs `concurrency` ticks at a time, in rounds.  A tick claims *)
(* a row by a conditional update, sends the notice, and marks the row.     *)
(***************************************************************************)
EXTENDS Integers, FiniteSets

CONSTANTS
    Events,         \* row ids, in the order of createdAt
    NoEvent,
    Ticks,          \* the ticks of a round, which run at the same time
    Admins,
    MaxAttempts,    \* TELEGRAM_WORKER_MAX_ATTEMPTS (5)
    LostReplies,    \* Telegram may take a message whose answer is lost
    DbErrors,       \* a tick's update may fail
    MaxDelivered,   \* bounds of the model: deliveries of one event that are counted,
    MaxRetries,     \* manual retries of one event,
    MaxRestarts     \* times the worker process stops and is started again

ASSUME OutboxAssumption ==
    /\ Events \subseteq Nat /\ NoEvent \notin Events
    /\ MaxAttempts \in Nat \ {0}
    /\ MaxDelivered \in Nat \ {0} /\ MaxRetries \in Nat /\ MaxRestarts \in Nat
    /\ {LostReplies, DbErrors} \subseteq BOOLEAN

VARIABLES
    row,        \* [Events -> telegram_outbox row]; due is nextRunAt <= now
    tick,       \* [Ticks -> workerTick]
    desk,       \* [Admins -> event retryTelegramOutboxEvent has read, or NoEvent]
    delivered,  \* [Events -> Nat]  messages Telegram has posted (external)
    lost,       \* [Events -> Nat]  history: posts the worker took for failures
    retries,    \* [Events -> Nat]  history: manual retries
    restarts    \* history: times the worker process stopped

history == <<delivered, lost, retries, restarts>>
vars == <<row, tick, desk, history>>

Claimable == {"pending", "failed"}
Row  == [status : {"none", "pending", "processing", "sent", "failed", "dead"},
         attempts : Nat, due : BOOLEAN]
Tick == [pc : {"start", "over", "found", "claimed", "sent", "refused", "lost"},
         event : Events \cup {NoEvent}, seen : Claimable, attempts : Nat]

NoRow    == [status |-> "none", attempts |-> 0, due |-> FALSE]
NewTick  == [pc |-> "start", event |-> NoEvent, seen |-> "pending", attempts |-> 0]

TypeOK ==
    /\ row \in [Events -> Row]
    /\ tick \in [Ticks -> Tick]
    /\ desk \in [Admins -> Events \cup {NoEvent}]
    /\ delivered \in [Events -> 0 .. MaxDelivered] /\ lost \in [Events -> 0 .. MaxDelivered]
    /\ retries \in [Events -> 0 .. MaxRetries] /\ restarts \in 0 .. MaxRestarts

Init ==
    /\ row = [e \in Events |-> NoRow]
    /\ tick = [k \in Ticks |-> NewTick]
    /\ desk = [a \in Admins |-> NoEvent]
    /\ delivered = [e \in Events |-> 0] /\ lost = delivered /\ retries = delivered
    /\ restarts = 0

-----------------------------------------------------------------------------
\* createTelegramOutboxEventTx, within the withdrawal's transaction.
Enqueue(e) ==
    /\ \A d \in Events : d < e => row[d].status # "none"
    /\ row[e].status = "none"
    /\ row' = [row EXCEPT ![e] = [status |-> "pending", attempts |-> 0, due |-> TRUE]]
    /\ UNCHANGED <<tick, desk, history>>

\* The back-off of computeBackoffMs is over.
BecomeDue(e) ==
    /\ row[e].status \in Claimable /\ ~row[e].due
    /\ row' = [row EXCEPT ![e].due = TRUE]
    /\ UNCHANGED <<tick, desk, history>>

\* Only the rows that were never tried.
ReadyPending == {e \in Events : row[e].status = "pending" /\ row[e].due}
Ready == {e \in Events : row[e].status \in Claimable /\ row[e].due}

\* runWorker starts the next round when every tick of the last one is over.
NewRound ==
    /\ \A k \in Ticks : tick[k].pc = "over"
    /\ tick' = [k \in Ticks |-> NewTick]
    /\ UNCHANGED <<row, desk, history>>

Over(k) == tick' = [tick EXCEPT ![k] = [NewTick EXCEPT !.pc = "over"]]

\* An error outside the tick's try ends the process; it is started again with no tick,
\* and nothing puts the rows it was processing back.
Exit ==
    /\ restarts < MaxRestarts
    /\ restarts' = restarts + 1
    /\ tick' = [k \in Ticks |-> NewTick]
    /\ UNCHANGED <<delivered, lost, retries>>

\* claimNextEvent: the oldest row that is ready ...
Find(k) ==
    /\ tick[k].pc = "start"
    /\ \/ \E e \in Ready :
             /\ \A d \in Ready : e <= d
             /\ tick' = [tick EXCEPT ![k] = [pc |-> "found", event |-> e,
                                            seen |-> row[e].status, attempts |-> 0]]
       \/ Ready = {} /\ Over(k)
    /\ UNCHANGED <<row, desk, history>>

StillReadyAlways(k) == TRUE
\* ... is claimed only if it is still as it was read.
StillReady(k) ==
    LET e == tick[k].event IN row[e].status = tick[k].seen /\ row[e].due

Claim(k) ==
    /\ tick[k].pc = "found"
    /\ \/ /\ StillReady(k)
          /\ LET e == tick[k].event
                 n == row[e].attempts + 1
             IN  /\ row' = [row EXCEPT ![e].status = "processing", ![e].attempts = n]
                 /\ tick' = [tick EXCEPT ![k].pc = "claimed", ![k].attempts = n]
                 /\ UNCHANGED history
       \/ ~StillReady(k) /\ Over(k) /\ UNCHANGED <<row, history>>
       \/ DbErrors /\ Exit /\ UNCHANGED row
    /\ UNCHANGED desk

\* Counts one more for event e, up to the bound.
Bump(f, e) == [f EXCEPT ![e] = IF @ < MaxDelivered THEN @ + 1 ELSE @]

\* processTelegramEvent: the message is posted, refused, or posted without an answer.
Send(k) ==
    /\ tick[k].pc = "claimed"
    /\ \E outcome \in {"sent", "refused"} \cup (IF LostReplies THEN {"lost"} ELSE {}) :
          /\ tick' = [tick EXCEPT ![k].pc = outcome]
          /\ delivered' = IF outcome = "refused" THEN delivered
                          ELSE Bump(delivered, tick[k].event)
          /\ lost' = IF outcome = "lost" THEN Bump(lost, tick[k].event) ELSE lost
    /\ UNCHANGED <<row, desk, retries, restarts>>

\* A failing markSent is caught like a failing send.
MarkSent(k) ==
    /\ tick[k].pc = "sent"
    /\ \/ /\ row' = [row EXCEPT ![tick[k].event].status = "sent"]
          /\ Over(k)
          /\ UNCHANGED lost
       \/ /\ DbErrors
          /\ tick' = [tick EXCEPT ![k].pc = "lost"]
          /\ lost' = Bump(lost, tick[k].event)
          /\ UNCHANGED row
    /\ UNCHANGED <<desk, delivered, retries, restarts>>

IsDead(k) == tick[k].attempts >= MaxAttempts

\* A status that is not one of the table's.
MarkFailedGivenUp(k) ==
    /\ tick[k].pc \in {"refused", "lost"}
    /\ \/ /\ row' = [row EXCEPT ![tick[k].event].due = FALSE,
                    ![tick[k].event].status = IF IsDead(k) THEN "given_up" ELSE "failed"]
          /\ Over(k)
          /\ UNCHANGED history
       \/ DbErrors /\ Exit /\ UNCHANGED row
    /\ UNCHANGED desk

MarkFailed(k) ==
    /\ tick[k].pc \in {"refused", "lost"}
    /\ \/ /\ row' = [row EXCEPT ![tick[k].event].due = FALSE,
                    ![tick[k].event].status = IF IsDead(k) THEN "dead" ELSE "failed"]
          /\ Over(k)
          /\ UNCHANGED history
       \/ DbErrors /\ Exit /\ UNCHANGED row
    /\ UNCHANGED desk

-----------------------------------------------------------------------------
\* retryTelegramOutboxEvent reads the row, then resets it whatever it has become.
RetryRead(a, e) ==
    /\ desk[a] = NoEvent
    /\ retries[e] < MaxRetries
    /\ row[e].status \in {"failed", "dead"}
    /\ desk' = [desk EXCEPT ![a] = e]
    /\ UNCHANGED <<row, tick, history>>

RetryWrite(a) ==
    /\ desk[a] # NoEvent /\ retries[desk[a]] < MaxRetries
    /\ row' = [row EXCEPT ![desk[a]] = [status |-> "pending", attempts |-> 0, due |-> TRUE]]
    /\ desk' = [desk EXCEPT ![a] = NoEvent]
    /\ retries' = [retries EXCEPT ![desk[a]] = @ + 1]
    /\ UNCHANGED <<tick, delivered, lost, restarts>>

Crash == Exit /\ UNCHANGED <<row, desk>>

WorkerStep(k) == Find(k) \/ Claim(k) \/ Send(k) \/ MarkSent(k) \/ MarkFailed(k)

Next ==
    \/ \E e \in Events : Enqueue(e) \/ BecomeDue(e)
    \/ \E k \in Ticks : Find(k) \/ Claim(k) \/ Send(k) \/ MarkSent(k) \/ MarkFailed(k)
    \/ \E a \in Admins, e \in Events : RetryRead(a, e)
    \/ \E a \in Admins : RetryWrite(a)
    \/ NewRound
    \/ Crash

Spec == Init /\ [][Next]_vars

\* runWorker loops for ever, each await returns, and back-offs end.
FairSpec ==
    /\ Spec
    /\ WF_vars(NewRound) /\ \A k \in Ticks : WF_vars(WorkerStep(k))
    /\ \A e \in Events : WF_vars(BecomeDue(e))

-----------------------------------------------------------------------------
(* Properties.                                                             *)

Owners(e) == {k \in Ticks : /\ tick[k].event = e
                             /\ tick[k].pc \in {"claimed", "sent", "refused", "lost"}}

\* A row marked sent was posted; and however many ticks race for an event and however
\* often it was refused before, it is posted again only if the worker took a post for a
\* failure, or an admin asked for it.
PostsMatchRows ==
    \A e \in Events : /\ row[e].status = "sent" => delivered[e] >= 1
                      /\ retries[e] = 0 => delivered[e] <= 1 + lost[e]

\* Without a manual retry a row being processed belongs to one tick, which will mark it;
\* only when the process has stopped may it belong to none.
ProcessingIsOwned ==
    \A e \in Events : (row[e].status = "processing" /\ retries[e] = 0) =>
        Cardinality(Owners(e)) \in (IF restarts = 0 THEN {1} ELSE {0, 1})

\* Every notice is delivered or given up for dead, though newer rows keep being claimed
\* and every send may be refused; only a stop of the process may leave it claimed.
EventSettles ==
    \A e \in Events :
        row[e].status = "pending" ~>
            \/ row[e].status \in {"sent", "dead"}
            \/ restarts > 0 /\ row[e].status = "processing" /\ Owners(e) = {}

-----------------------------------------------------------------------------
(* Stated by the code or its comments, and not kept by it: see README.md,  *)
(* section 5.                                                              *)

\* "Apenas eventos failed/dead podem ser reenviados manualmente"
\* (withdrawalTelegramService.ts:334): no other row goes back to pending.
OnlyFailedRetried ==
    [][\A e \in Events :
          row[e].status \in {"processing", "sent"} => row'[e].status # "pending"]_vars
=============================================================================
