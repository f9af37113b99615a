------------------------------ MODULE CutCalls ------------------------------
(***************************************************************************)
(* What a call of Service leaves in memory when the store refuses one of   *)
(* its events.  Handlers change the records in place before they emit, and *)
(* most return at the first error, so what they had changed stays and what *)
(* was to follow is left out: the rest of the tasks, the release, the      *)
(* reconcile.  Only effects that no whole call has are listed here; which  *)
(* events are then missing from the log is the matter of DurableService.   *)
(*                                                                         *)
(* UpdateTask, reconcile and the reaper drop the error and go on, so in    *)
(* memory they always have their whole effect.                             *)
(***************************************************************************)
EXTENDS Service

\* The first n tasks are made.  (Without the event for the release nothing is.)
CutCreate(r, request) ==
  \E n \in 0 .. Len(request.devices) - 1 : CreateWith(r, request, {r} \X (1 .. n))

\* A queued release is not moved to preflight.
CutClaim(d, a, ttl) ==
  \E t \in DOMAIN tasks :
    /\ releases[ReleaseOf(t)].status = "queued"
    /\ LeaseFirst(d, a, ttl, t)
    /\ UNCHANGED releases

\* Tasks are queued in no order; at least one was when the call broke off, and
\* the release had its new status before them.
CutQueueRollback(r) ==
  /\ r \in DOMAIN releases
  /\ \E queued \in SUBSET Revertible(r) \ {{}} : QueueTasks(r, queued)

\* The four below change their task and do not get to the release.
CutRollback(t, a) == RollBack(t, a) /\ UNCHANGED releases

CutFail(t, a, retryable) ==
  LET limit == releases[ReleaseOf(t)].policy.retryLimit IN
  /\ t \in DOMAIN tasks
  /\ VerifyLease(tasks[t], a, now)
  /\ ~(retryable /\ RetryPanics(tasks[t], limit))
  /\ UpdateOnly(t, IF retryable THEN ScheduleRetry(tasks[t], now, limit)
                   ELSE Settle(tasks[t], "failed", now))

CutPreflight(t, ok) ==
  /\ t \in DOMAIN tasks
  /\ tasks[t].status \in {"installing", "leased"}
  /\ UpdateOnly(t, WithStatus(tasks[t],
       IF ok THEN "awaiting-confirmation" ELSE "failed", now))

CutConfirm(t, a) ==
  /\ t \in DOMAIN tasks
  /\ tasks[t].leaseOwner = a /\ now <= tasks[t].leaseUntil
  /\ tasks[t].status = "awaiting-confirmation"
  /\ UpdateOnly(t, Settle(tasks[t], "completed", now))

-----------------------------------------------------------------------------

\* Calls that return at the event of the last record they changed, which the
\* store has refused, or has in the log when only the snapshot failed.
CutWireNext ==
  \/ \E r \in ReleaseId, request \in Request : CutCreate(r, request)
  \/ \E d \in Device, a \in Caller : CutClaim(d, a, LeaseTTL)

CutLibraryNext ==
  \/ \E d \in Device, a \in Caller, ttl \in TTLs : CutClaim(d, a, ttl)
  \/ \E t \in DOMAIN tasks :
       \/ \E a \in Caller : CutRollback(t, a)
       \/ \E a \in Caller, retryable \in BOOLEAN : CutFail(t, a, retryable)
       \/ \E ok \in BOOLEAN : CutPreflight(t, ok)
       \/ \E a \in Caller : CutConfirm(t, a)

CutNext == CutWireNext \/ CutLibraryNext

\* QueueRollback is apart: the release it changed first is the last it logs.
CutQueueNext == \E r \in ReleaseId : CutQueueRollback(r)
=============================================================================
