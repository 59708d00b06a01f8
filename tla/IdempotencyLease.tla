-------------------------- MODULE IdempotencyLease --------------------------
(***************************************************************************)
(* Replay-safe mutations: one callback_queue row per (scope, user, key)    *)
(* holds a lease while a request works, then its answer.                   *)
(*   server/services/idempotencyService.ts (the Postgres mode)             *)
(*   server/utils/pgAdvisoryLocks.ts                                       *)
(*   server/cron/securityArtifactCleanupCron.ts                            *)
(* Each call is a transaction that first tries an advisory lock on the key *)
(* and throws when another transaction holds it.  A module that extends    *)
(* this one runs the requests and frames the variables of its own.         *)
(***************************************************************************)
EXTENDS Naturals

CONSTANTS
    Keys,
    Requests,   \* each takes at most one lease, so it stands for its leaseToken
    NoRequest,
    Bodies,     \* what requestHash tells apart
    NoBody

ASSUME LeaseAssumption == NoRequest \notin Requests /\ NoBody \notin Bodies

VARIABLES
    idem,       \* [Keys -> callback_queue row of type SEC_IDEM]
    keyLock     \* [Keys -> the request in a transaction on the key, or NoRequest]

NoIdem == [phase |-> "idle", body |-> NoBody, token |-> NoRequest, live |-> FALSE]

\* live: leaseUntilMs has not passed.
LeaseTypeOK ==
    /\ idem \in [Keys -> [phase : {"idle", "lease", "done"}, body : Bodies \cup {NoBody},
                          token : Requests \cup {NoRequest}, live : BOOLEAN]]
    /\ keyLock \in [Keys -> Requests \cup {NoRequest}]

LeaseInit ==
    /\ idem = [k \in Keys |-> NoIdem]
    /\ keyLock = [k \in Keys |-> NoRequest]

-----------------------------------------------------------------------------
\* advisoryXactTryLockOrThrow, at the start of each transaction.
KeyBusy(k)    == keyLock[k] # NoRequest
LockKey(k, p) == ~KeyBusy(k) /\ keyLock' = [keyLock EXCEPT ![k] = p] /\ UNCHANGED idem
FreeKey(k)    == keyLock' = [keyLock EXCEPT ![k] = NoRequest]

\* A lease that is not looked at.
AnswerIgnoringLease(k, body) ==
    CASE idem[k].phase = "done" /\ idem[k].body = body -> "replay"
      [] idem[k].phase = "done" /\ idem[k].body # body -> "mismatch"
      [] OTHER -> "lease"

\* A key used again for another request, that is not noticed.
AnswerIgnoringBody(k, body) ==
    CASE idem[k].phase = "done" -> "replay"
      [] idem[k].phase = "lease" /\ idem[k].live -> "busy"
      [] OTHER -> "lease"

\* What beginIdempotencyLease answers.
Answer(k, body) ==
    CASE idem[k].phase = "done" /\ idem[k].body = body -> "replay"
      [] idem[k].phase = "lease" /\ idem[k].live /\ idem[k].body = body -> "busy"
      [] \/ idem[k].phase = "done" /\ idem[k].body # body
         \/ idem[k].phase = "lease" /\ idem[k].live /\ idem[k].body # body -> "mismatch"
      [] OTHER -> "lease"

BeginLease(k, p, body) ==
    /\ idem' = IF Answer(k, body) = "lease"
                 THEN [idem EXCEPT ![k] =
                         [phase |-> "lease", body |-> body, token |-> p, live |-> TRUE]]
                 ELSE idem
    /\ FreeKey(k)

\* commitIdempotencyResult stores the answer if the lease is still the caller's.
CommitLease(k, p, body) ==
    /\ idem' = IF idem[k].token = p
                 THEN [idem EXCEPT ![k] =
                         [phase |-> "done", body |-> body, token |-> NoRequest, live |-> FALSE]]
                 ELSE idem
    /\ FreeKey(k)

AbortMarked(k, p) ==
    /\ idem' = [idem EXCEPT ![k].phase = "aborted", ![k].token = NoRequest]
    /\ FreeKey(k)

AbortLease(k, p) ==
    /\ idem' = IF idem[k].token = p THEN [idem EXCEPT ![k] = NoIdem] ELSE idem
    /\ FreeKey(k)

\* leaseUntilMs passes.
ExpireLease(k) ==
    /\ idem[k].phase = "lease" /\ idem[k].live
    /\ idem' = [idem EXCEPT ![k].live = FALSE]
    /\ UNCHANGED keyLock

\* The clean-up deletes a row 72 hours after its creation, in whatever phase.
PurgeLease(k) ==
    /\ idem[k] # NoIdem
    /\ idem' = [idem EXCEPT ![k] = NoIdem]
    /\ UNCHANGED keyLock
=============================================================================
