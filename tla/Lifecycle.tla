----------------------------- MODULE Lifecycle -----------------------------
(***************************************************************************)
(* The task and release rules of internal/domain: the two status matrices, *)
(* the lease, and the retry schedule.  These are pure operators; the        *)
(* modules that model the service apply them to the records they keep.      *)
(*                                                                          *)
(* A task record holds status, leaseOwner, leaseUntil, attempts, nextRetry  *)
(* and updatedAt.  Instants are naturals; the zero time.Time is ZeroTime,   *)
(* and every reading of the clock is later than it.                         *)
(***************************************************************************)
EXTENDS Integers, Sequences

CONSTANTS
  NoAgent,   \* the empty agent string: a task that nobody owns
  Second,    \* base of ScheduleRetry's exponential backoff, in clock units
  Minute     \* unit of the linear backoffs, in clock units

ASSUME BackoffAssumption == Second \in Nat \ {0} /\ Minute \in Nat \ {0}

ZeroTime == 0

TaskStatus ==
  {"queued", "leased", "installing", "awaiting-confirmation", "completed",
   "rejected", "failed", "rollback-queued", "rolling-back", "rolled-back"}

ReleaseStatus ==
  {"queued", "preflight", "installing", "awaiting-confirmation", "completed",
   "paused", "rollback-pending", "rolled-back", "failed"}

-----------------------------------------------------------------------------
(* Status matrices *)

TaskTransitions ==
  {<<"queued", "leased">>,
   <<"leased", "installing">>, <<"leased", "rejected">>,
   <<"installing", "awaiting-confirmation">>, <<"installing", "completed">>,
   <<"installing", "failed">>,
   <<"awaiting-confirmation", "completed">>,
   <<"awaiting-confirmation", "failed">>,
   <<"rejected", "queued">>, <<"rejected", "failed">>,
   <<"completed", "rollback-queued">>, <<"failed", "rollback-queued">>,
   <<"rollback-queued", "rolling-back">>,
   <<"rolling-back", "rolled-back">>, <<"rolling-back", "failed">>}

ValidTransition(from, to) == <<from, to>> \in TaskTransitions

(* Task.Transition accepts the status a task already has. *)
CanTransition(task, to) == task.status = to \/ ValidTransition(task.status, to)

ReleaseTransitions ==
  LET stop == {"paused", "rollback-pending", "failed"}
  IN  ({"queued"} \X (stop \cup {"preflight"}))
      \cup ({"preflight"} \X (stop \cup {"installing"}))
      \cup ({"installing"} \X (stop \cup {"awaiting-confirmation", "completed"}))
      \cup ({"awaiting-confirmation"} \X (stop \cup {"installing", "completed"}))
      \cup ({"paused"} \X {"queued", "rollback-pending", "failed"})
      \cup ({"rollback-pending"} \X {"rolled-back", "failed"})

ValidReleaseTransition(from, to) == from = to \/ <<from, to>> \in ReleaseTransitions

TerminalRelease == {"completed", "rolled-back", "failed"}   \* Release.Terminal

\* A status change always stamps the task.
WithStatus(task, status, now) == [task EXCEPT !.status = status, !.updatedAt = now]

-----------------------------------------------------------------------------
(* Leases *)

\* The statuses in which an agent is at work on a task (Task.IsActive, and the
\* test the reaper repeats).
ActiveStatus ==
  {"leased", "installing", "awaiting-confirmation", "rolling-back"}

IsActive(task) == task.status \in ActiveStatus

RetryReady(task, now) == task.nextRetry = ZeroTime \/ now >= task.nextRetry

\* The tests of Task.Lease.  It goes through Transition, whose matrix has no
\* rejected -> leased: a rejected task passes the first test and fails there.
CanLease(task, agent, now) ==
  /\ agent # NoAgent
  /\ task.status \in {"queued", "rejected"}
  /\ RetryReady(task, now)
  /\ CanTransition(task, "leased")

Lease(task, agent, now, ttl) ==
  [status |-> "leased", leaseOwner |-> agent, leaseUntil |-> now + ttl,
   attempts |-> task.attempts + 1, nextRetry |-> task.nextRetry, updatedAt |-> now]

VerifyLease(task, agent, now) ==
  /\ task.leaseOwner = agent
  /\ task.leaseUntil = ZeroTime \/ now <= task.leaseUntil

ReleaseLease(task) ==
  [task EXCEPT !.leaseOwner = NoAgent, !.leaseUntil = ZeroTime]

Renew(task, now, ttl) == [task EXCEPT !.leaseUntil = now + ttl, !.updatedAt = now]

\* The task leaves its agent and gets a status.
Settle(task, status, now) == WithStatus(ReleaseLease(task), status, now)

LeaseExpired(task, now) == task.leaseUntil # ZeroTime /\ now > task.leaseUntil

-----------------------------------------------------------------------------
(* Retries *)

min(a, b) == IF a < b THEN a ELSE b

\* 1 << k for the shift counts ScheduleRetry can reach.
PowerOfTwo == <<1, 2, 4, 8, 16, 32, 64, 128, 256>>

RetryDelay(attempts) == Second * PowerOfTwo[min(attempts - 1, 8) + 1]

\* ScheduleRetry on a task no agent ever leased shifts by -1: Go panics there,
\* after the assignments above it.
RetryPanics(task, limit) == task.attempts = 0 /\ limit >= 0

RetryAt(task, at) == [task EXCEPT !.nextRetry = at]

ScheduleRetry(task, now, limit) ==
  IF task.attempts > limit
  THEN RetryAt(Settle(task, "failed", now), ZeroTime)
  ELSE IF RetryPanics(task, limit)
  THEN Settle(task, "rejected", now)
  ELSE RetryAt(Settle(task, "rejected", now), now + RetryDelay(task.attempts))
=============================================================================
