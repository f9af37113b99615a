------------------------------ MODULE Service ------------------------------
(***************************************************************************)
(* internal/service: the rollout service that release managers, edge        *)
(* agents and the scheduler call.  One action per exported operation, each  *)
(* a whole call: the checks, the assignments, every event it emits and the  *)
(* reconcile that follows.  Calls are serialised here, and emit succeeds in  *)
(* every one of them; what a call leaves in memory that emit cut short is   *)
(* the matter of CutCalls.                                                  *)
(*                                                                          *)
(* A task is named by its release and its position in that release's device *)
(* list (CreateRelease makes one per entry, duplicates included), so        *)
(* Task.ReleaseID and Task.DeviceID need no field.  An action that would    *)
(* return an error leaves the state alone and is not enabled, except where  *)
(* the code has already changed something when it fails.                    *)
(*                                                                          *)
(* A definition marked "Fault" is a wrong version of the one that follows   *)
(* it and is part of no specification: it shows that a property can fail.   *)
(***************************************************************************)
EXTENDS Lifecycle, FiniteSets

CONSTANTS
  ReleaseId, Device, Agent,
  Request,      \* the parameter records CreateRelease is called with
  TTLs,         \* durations RenewLease and ClaimWithTTL are called with, (0, 1h]
  LeaseTTL,     \* the five minutes of Claim and ClaimRollback
  MaxTime,      \* bound: the clock stops there
  MaxAttempts,  \* bound: no claim of a task claimed this often already
  MaxFailed     \* bound: no RequestRollback once a release's Failed is here

ASSUME ServiceAssumption ==
  /\ NoAgent \notin Agent
  /\ Request \subseteq
       [devices : Seq(Device), batchSize : Int, maxConcurrent : Int,
        retryLimit : Int, maxFailures : Int, auto : BOOLEAN]
  /\ TTLs \subseteq Nat \ {0}
  /\ LeaseTTL \in TTLs

ASSUME BoundAssumption ==
  MaxTime \in Nat \ {0} /\ MaxAttempts \in Nat /\ MaxFailed \in Nat

VARIABLES
  now,        \* Clock.Now()
  releases,   \* State.Releases
  devices,    \* State.Devices
  tasks       \* State.Tasks

vars == <<now, releases, devices, tasks>>

\* An agent field of a request body may be missing, which decodes to NoAgent.
Caller == Agent \cup {NoAgent}

ReleaseOf(t) == t[1]
DeviceOf(t)  == releases[t[1]].policy.devices[t[2]]

TaskIds(r, request) == {r} \X (1 .. Len(request.devices))
TasksOf(r) == {t \in DOMAIN tasks : ReleaseOf(t) = r}

\* How many of r's tasks have a status of S in the task map ts.
Count(ts, r, S) ==
  Cardinality({t \in DOMAIN ts : ReleaseOf(t) = r /\ ts[t].status \in S})

Put(f, key, value) == [k \in DOMAIN f \cup {key} |-> IF k = key THEN value ELSE f[k]]

EmptyMap == [k \in {} |-> k]

Init ==
  /\ now = 1
  /\ releases = EmptyMap
  /\ devices = EmptyMap
  /\ tasks = EmptyMap

-----------------------------------------------------------------------------
(* reconcile, and the two shapes of a call that updates one task *)

\* Fault: every settled task counts towards completion.
ReconciledSettled(r, ts) ==
  LET done == Count(ts, r, {"completed"})
      fail == Count(ts, r, {"failed"})
      policy == releases[r].policy
  IN  [releases[r] EXCEPT
         !.completed = done,
         !.failed = fail,
         !.status = IF policy.auto /\ fail > policy.maxFailures
                    THEN "rollback-pending"
                    ELSE IF done + fail = Len(policy.devices) THEN "completed" ELSE @]

\* r's record after reconcile has read the task map ts.  The rollback test
\* comes last in the code, so it wins; neither asks what r's status was.
Reconciled(r, ts) ==
  LET done == Count(ts, r, {"completed"})
      fail == Count(ts, r, {"failed"})
      policy == releases[r].policy
  IN  [releases[r] EXCEPT
         !.completed = done,
         !.failed = fail,
         !.status = IF policy.auto /\ fail > policy.maxFailures
                    THEN "rollback-pending"
                    ELSE IF done = Len(policy.devices) THEN "completed" ELSE @]

UpdateOnly(t, task) ==
  /\ tasks' = [tasks EXCEPT ![t] = task]
  /\ UNCHANGED <<now, releases, devices>>

UpdateAndReconcile(t, task) ==
  /\ tasks' = [tasks EXCEPT ![t] = task]
  /\ releases' = [releases EXCEPT ![ReleaseOf(t)] = Reconciled(ReleaseOf(t), tasks')]
  /\ UNCHANGED <<now, devices>>

SetStatus(r, status) == releases' = [releases EXCEPT ![r].status = status]

-----------------------------------------------------------------------------
(* Release manager *)

\* Fault: the retry limit is not validated.
NoRetryCheck(request) ==
  request.devices # << >> /\ request.batchSize >= 1 /\ request.maxConcurrent >= 1

ValidRequest(request) ==
  /\ request.devices # << >>
  /\ request.batchSize >= 1 /\ request.maxConcurrent >= 1
  /\ request.retryLimit >= 0

\* The release and the tasks ids of it are made.
CreateWith(r, request, ids) ==
  /\ r \notin DOMAIN releases                 \* IDs.New never repeats
  /\ ValidRequest(request)
  /\ releases' = Put(releases, r,
       [policy |-> request, status |-> "queued", createdAt |-> now,
        completed |-> 0, failed |-> 0])
  /\ tasks' = [t \in DOMAIN tasks \cup ids |->
       IF t \in DOMAIN tasks THEN tasks[t]
       ELSE [status |-> "queued", leaseOwner |-> NoAgent,
             leaseUntil |-> ZeroTime, attempts |-> 0,
             nextRetry |-> ZeroTime, updatedAt |-> now]]
  /\ UNCHANGED <<now, devices>>

CreateRelease(r, request) == CreateWith(r, request, TaskIds(r, request))

PauseRelease(r) ==      \* SetRelease(r, "pause")
  /\ r \in DOMAIN releases
  /\ releases[r].status \notin TerminalRelease
  /\ SetStatus(r, "paused")
  /\ UNCHANGED <<now, devices, tasks>>

ResumeRelease(r) ==     \* SetRelease(r, "resume")
  /\ r \in DOMAIN releases
  /\ releases[r].status = "paused"
  /\ SetStatus(r, "queued")
  /\ UNCHANGED <<now, devices, tasks>>

RollbackRelease(r) ==   \* SetRelease(r, "rollback"): no test at all
  /\ r \in DOMAIN releases
  /\ SetStatus(r, "rollback-pending")
  /\ UNCHANGED <<now, devices, tasks>>

RequestRollback(r) ==
  /\ r \in DOMAIN releases
  /\ releases[r].status \notin TerminalRelease \ {"completed"}
  /\ ValidReleaseTransition(releases[r].status, "rollback-pending")
  /\ releases[r].failed < MaxFailed
  /\ releases' = [releases EXCEPT ![r].status = "rollback-pending",
                                  ![r].failed = @ + 1]
  /\ UNCHANGED <<now, devices, tasks>>

Revertible(r) == {t \in TasksOf(r) : tasks[t].status \in {"completed", "failed"}}

\* The tasks of queued are queued for rollback; the release is not reconciled,
\* so its counters keep the old totals.
QueueTasks(r, queued) ==
  /\ ValidReleaseTransition(releases[r].status, "rollback-pending")
  /\ tasks' = [t \in DOMAIN tasks |->
       IF t \in queued THEN Settle(tasks[t], "rollback-queued", now) ELSE tasks[t]]
  /\ SetStatus(r, "rollback-pending")
  /\ UNCHANGED <<now, devices>>

QueueRollback(r) == r \in DOMAIN releases /\ QueueTasks(r, Revertible(r))

-----------------------------------------------------------------------------
(* Devices and claims *)

RegisterDevice(d) ==
  /\ devices' = Put(devices, d, [online |-> TRUE])
  /\ UNCHANGED <<now, releases, tasks>>

DeviceHeartbeat(d, online) ==
  /\ d \in DOMAIN devices
  /\ devices' = [devices EXCEPT ![d].online = online]
  /\ UNCHANGED <<now, releases, tasks>>

\* scheduler.Active: a leased task does not count.
Active(r) == Count(tasks, r, {"installing", "awaiting-confirmation"})

DispatchCapacity(r) ==
  min(releases[r].policy.maxConcurrent - Active(r), releases[r].policy.batchSize)

\* Fault: the status test forgets terminal releases.
DispatchAllowedEnded(r) ==
  /\ r \in DOMAIN releases
  /\ releases[r].status \notin {"paused", "rollback-pending"}
  /\ DispatchCapacity(r) > 0

DispatchAllowed(r) ==   \* DispatchDecision(r).Allowed
  /\ r \in DOMAIN releases
  /\ releases[r].status \notin TerminalRelease \cup {"paused", "rollback-pending"}
  /\ DispatchCapacity(r) > 0

EligibleTasks(d) ==
  {t \in DOMAIN tasks :
     /\ DeviceOf(t) = d
     /\ tasks[t].status \in {"queued", "rejected"}
     /\ RetryReady(tasks[t], now)
     /\ DispatchAllowed(ReleaseOf(t))}

\* The first eligible task in order of release creation; ids are opaque, so
\* any task can come first among those of the same instant.
FirstEligible(d, t) ==
  /\ t \in EligibleTasks(d)
  /\ \A u \in EligibleTasks(d) :
       releases[ReleaseOf(t)].createdAt <= releases[ReleaseOf(u)].createdAt

\* Only the first eligible task is tried: if Task.Lease refuses it the call
\* fails.
LeaseFirst(d, a, ttl, t) ==
  /\ d \in DOMAIN devices /\ devices[d].online
  /\ FirstEligible(d, t)
  /\ CanLease(tasks[t], a, now)
  /\ tasks[t].attempts < MaxAttempts
  /\ tasks' = [tasks EXCEPT ![t] = Lease(@, a, now, ttl)]
  /\ UNCHANGED <<now, devices>>

ClaimWithTTL(d, a, ttl) ==
  \E t \in DOMAIN tasks :
    /\ LeaseFirst(d, a, ttl, t)
    /\ releases' = [releases EXCEPT ![ReleaseOf(t)].status =
                       IF @ = "queued" THEN "preflight" ELSE @]

Claim(d, a) == ClaimWithTTL(d, a, LeaseTTL)

\* Fault: a rollback another agent is running counts as queued.
RollbackQueueOrRunning(d) ==
  {t \in DOMAIN tasks :
     DeviceOf(t) = d /\ tasks[t].status \in {"rollback-queued", "rolling-back"}}

RollbackQueue(d) ==
  {t \in DOMAIN tasks : DeviceOf(t) = d /\ tasks[t].status = "rollback-queued"}

\* Any of the device's oldest rollback-queued tasks; neither the device, nor
\* the release, nor the agent is looked at.
ClaimRollback(d, a) ==
  \E t \in RollbackQueue(d) :
    /\ \A u \in RollbackQueue(d) : tasks[t].updatedAt <= tasks[u].updatedAt
    /\ tasks[t].attempts < MaxAttempts
    /\ UpdateOnly(t, WithStatus(Lease(tasks[t], a, now, LeaseTTL),
                                "rolling-back", now))

\* Fault: the deadline is not looked at.
RenewExpired(t, a, ttl) ==
  /\ t \in DOMAIN tasks
  /\ tasks[t].leaseOwner = a
  /\ IsActive(tasks[t])
  /\ UpdateOnly(t, Renew(tasks[t], now, ttl))

RenewLease(t, a, ttl) ==
  /\ t \in DOMAIN tasks
  /\ VerifyLease(tasks[t], a, now)
  /\ IsActive(tasks[t])
  /\ UpdateOnly(t, Renew(tasks[t], now, ttl))

-----------------------------------------------------------------------------
(* Agent reports *)

StartTask(t, a) ==
  /\ t \in DOMAIN tasks
  /\ VerifyLease(tasks[t], a, now)
  /\ CanTransition(tasks[t], "installing")
  /\ UpdateOnly(t, WithStatus(tasks[t], "installing", now))

\* done stands for percent = 100.
ReportProgress(t, a, done) ==
  /\ t \in DOMAIN tasks
  /\ VerifyLease(tasks[t], a, now)
  /\ tasks[t].status \in {"installing", "awaiting-confirmation"}
  /\ UpdateOnly(t, WithStatus(tasks[t],
       IF done THEN "awaiting-confirmation" ELSE tasks[t].status, now))

\* The status is not looked at and the release is not reconciled.  When the
\* retry schedule panics the fields are set but no event is emitted; in memory
\* the effect is the same.
RejectTask(t, a) ==
  /\ t \in DOMAIN tasks
  /\ VerifyLease(tasks[t], a, now)
  /\ UpdateOnly(t, ScheduleRetry(tasks[t], now, releases[ReleaseOf(t)].policy.retryLimit))

\* A repeated failure with the same reason changes nothing; a panic in the
\* retry schedule skips the reconcile.
FailTask(t, a, retryable) ==
  LET limit == releases[ReleaseOf(t)].policy.retryLimit IN
  /\ t \in DOMAIN tasks
  /\ VerifyLease(tasks[t], a, now)
  /\ \/ /\ retryable /\ RetryPanics(tasks[t], limit)
        /\ UpdateOnly(t, ScheduleRetry(tasks[t], now, limit))
     \/ /\ retryable /\ ~RetryPanics(tasks[t], limit)
        /\ UpdateAndReconcile(t, ScheduleRetry(tasks[t], now, limit))
     \/ /\ ~retryable
        /\ UpdateAndReconcile(t, Settle(tasks[t], "failed", now))

\* No lease test, and a failed check keeps the lease on the failed task.
ReportPreflight(t, ok) ==
  /\ t \in DOMAIN tasks
  /\ tasks[t].status \in {"installing", "leased"}
  /\ UpdateAndReconcile(t, WithStatus(tasks[t],
       IF ok THEN "awaiting-confirmation" ELSE "failed", now))

\* A repeated confirmation of a completed task changes nothing.
ConfirmInstall(t, a) ==
  /\ t \in DOMAIN tasks
  /\ tasks[t].leaseOwner = a /\ now <= tasks[t].leaseUntil
  /\ tasks[t].status = "awaiting-confirmation"
  /\ UpdateAndReconcile(t, Settle(tasks[t], "completed", now))

RetryTask(t) ==
  /\ t \in DOMAIN tasks
  /\ tasks[t].status \in {"failed", "rejected"}
  /\ tasks[t].attempts <= releases[ReleaseOf(t)].policy.retryLimit
  /\ UpdateOnly(t, RetryAt(WithStatus(tasks[t], "queued", now), now))

\* Fault: any task can be acknowledged.
AckTaskAny(t) ==
  /\ t \in DOMAIN tasks
  /\ UpdateAndReconcile(t, WithStatus(tasks[t], "installing", now))

\* UpdateTask's three actions name no agent and look at no lease.
AckTask(t) ==
  /\ t \in DOMAIN tasks
  /\ tasks[t].status = "leased"
  /\ UpdateAndReconcile(t, WithStatus(tasks[t], "installing", now))

UpdateTaskReject(t) ==
  /\ t \in DOMAIN tasks
  /\ UpdateAndReconcile(t, RetryAt(WithStatus(tasks[t], "rejected", now),
                                   now + (tasks[t].attempts + 1) * Minute))

\* Fault: the completed task keeps its lease.
CompleteTaskLeased(t) ==
  /\ t \in DOMAIN tasks
  /\ tasks[t].status \in {"installing", "awaiting-confirmation"}
  /\ UpdateAndReconcile(t, WithStatus(tasks[t], "completed", now))

CompleteTask(t) ==
  /\ t \in DOMAIN tasks
  /\ tasks[t].status \in {"installing", "awaiting-confirmation"}
  /\ UpdateAndReconcile(t, Settle(tasks[t], "completed", now))

\* Fault: tasks that completed are not waited for.
WaitForFailed == {"rolled-back", "queued", "rejected", "completed"}

\* The statuses CompleteRollback does not wait for.
RollbackSettled == {"rolled-back", "queued", "rejected"}

RollBack(t, a) ==
  /\ t \in DOMAIN tasks
  /\ tasks[t].status # "rolled-back"
  /\ VerifyLease(tasks[t], a, now)
  /\ CanTransition(tasks[t], "rolled-back")
  /\ tasks' = [tasks EXCEPT ![t] = Settle(@, "rolled-back", now)]
  /\ UNCHANGED <<now, devices>>

\* The task is rolled back even when the release then refuses its transition,
\* which the caller sees as an error.
CompleteRollback(t, a) ==
  LET r == ReleaseOf(t) IN
  /\ RollBack(t, a)
  /\ SetStatus(r, IF /\ \A u \in TasksOf(r) : tasks'[u].status \in RollbackSettled
                     /\ ValidReleaseTransition(releases[r].status, "rolled-back")
                  THEN "rolled-back" ELSE releases[r].status)

-----------------------------------------------------------------------------
(* Scheduler and clock *)

Expired == {t \in DOMAIN tasks : IsActive(tasks[t]) /\ LeaseExpired(tasks[t], now)}

\* Fault: one attempt too many is granted.
ReapedOnceMore(t) ==
  LET task == tasks[t] IN
  IF task.status = "rolling-back" THEN Settle(task, "rollback-queued", now)
  ELSE IF task.attempts > releases[ReleaseOf(t)].policy.retryLimit + 1
  THEN Settle(task, "failed", now)
  ELSE RetryAt(Settle(task, "queued", now), now + task.attempts * Minute)

Reaped(t) ==
  LET task == tasks[t] IN
  IF task.status = "rolling-back" THEN Settle(task, "rollback-queued", now)
  ELSE IF task.attempts > releases[ReleaseOf(t)].policy.retryLimit
  THEN Settle(task, "failed", now)
  ELSE RetryAt(Settle(task, "queued", now), now + task.attempts * Minute)

\* Fault: the tasks of paused releases are passed over.
ReapUnpaused ==
  LET reaped == {t \in Expired : releases[ReleaseOf(t)].status # "paused"} IN
  /\ reaped # {}
  /\ tasks' = [t \in DOMAIN tasks |-> IF t \in reaped THEN Reaped(t) ELSE tasks[t]]
  /\ releases' = [r \in DOMAIN releases |->
       IF \E t \in reaped : ReleaseOf(t) = r THEN Reconciled(r, tasks')
       ELSE releases[r]]
  /\ UNCHANGED <<now, devices>>

\* Scheduler.Tick calls this; every release with a reaped task is reconciled.
ReapExpired ==
  /\ Expired # {}
  /\ tasks' = [t \in DOMAIN tasks |-> IF t \in Expired THEN Reaped(t) ELSE tasks[t]]
  /\ releases' = [r \in DOMAIN releases |->
       IF \E t \in Expired : ReleaseOf(t) = r THEN Reconciled(r, tasks')
       ELSE releases[r]]
  /\ UNCHANGED <<now, devices>>

Tick ==
  /\ now < MaxTime
  /\ now' = now + 1
  /\ UNCHANGED <<releases, devices, tasks>>

-----------------------------------------------------------------------------
(* What the HTTP server routes, and the whole exported API *)

ManagerNext ==
  \E r \in ReleaseId :
    \/ \E request \in Request : CreateRelease(r, request)
    \/ PauseRelease(r)
    \/ ResumeRelease(r)
    \/ RollbackRelease(r)
    \/ QueueRollback(r)

AgentNext ==
  \/ \E d \in Device : RegisterDevice(d)
  \/ \E d \in Device, a \in Caller : Claim(d, a)
  \/ \E d \in Device, a \in Caller : ClaimRollback(d, a)
  \/ \E t \in DOMAIN tasks :
       \/ \E a \in Caller : StartTask(t, a)
       \/ \E a \in Caller : RejectTask(t, a)
       \/ \E a \in Caller, done \in BOOLEAN : ReportProgress(t, a, done)
       \/ RetryTask(t)
       \/ AckTask(t)
       \/ CompleteTask(t)

\* Operations only Go callers reach: tests, the smoke command, embedders.
LibraryNext ==
  \/ \E d \in Device, online \in BOOLEAN : DeviceHeartbeat(d, online)
  \/ \E d \in Device, a \in Caller, ttl \in TTLs : ClaimWithTTL(d, a, ttl)
  \/ \E r \in ReleaseId : RequestRollback(r)
  \/ \E t \in DOMAIN tasks :
       \/ \E a \in Caller, ttl \in TTLs : RenewLease(t, a, ttl)
       \/ \E a \in Caller, retryable \in BOOLEAN : FailTask(t, a, retryable)
       \/ \E ok \in BOOLEAN : ReportPreflight(t, ok)
       \/ \E a \in Caller : ConfirmInstall(t, a)
       \/ \E a \in Caller : CompleteRollback(t, a)
       \/ UpdateTaskReject(t)

ServedNext == ManagerNext \/ AgentNext \/ Tick
WireNext   == ServedNext \/ ReapExpired
Next       == WireNext \/ LibraryNext

Spec     == Init /\ [][Next]_vars
WireSpec == Init /\ [][WireNext]_vars

\* Scheduler.Run calls ReapExpired at every tick of its timer, so wherever a
\* scheduler runs an expired lease is looked at again and again.
WireLiveSpec == WireSpec /\ WF_vars(Tick) /\ WF_vars(ReapExpired)

\* What main starts: the HTTP server alone.  Agents keep asking for work, so a
\* claim that is possible again and again is made.
ServedLiveSpec ==
  /\ Init /\ [][ServedNext]_vars
  /\ WF_vars(Tick)
  /\ \A d \in Device : SF_vars(\E a \in Agent : Claim(d, a))

-----------------------------------------------------------------------------
(* Properties *)

Policy == [devices : Seq(Device), batchSize : Nat \ {0}, maxConcurrent : Nat \ {0},
           retryLimit : Nat, maxFailures : Int, auto : BOOLEAN]

\* The statuses the service ever gives a release: installing,
\* awaiting-confirmation and failed exist in the matrix only.
UsedReleaseStatus == {"queued", "preflight", "completed", "paused",
                      "rollback-pending", "rolled-back"}

ReleaseRecord == [policy : Policy, status : UsedReleaseStatus, createdAt : Nat,
                  completed : Nat, failed : Nat]
TaskRecord == [status : TaskStatus, leaseOwner : Caller, leaseUntil : Nat,
               attempts : Nat, nextRetry : Nat, updatedAt : Nat]

(* Every map holds records of the types domain/model.go declares, and every *)
(* task stands at a position of the device list of a known release.         *)
RecordsOK ==
  /\ now \in Nat \ {0}
  /\ DOMAIN releases \subseteq ReleaseId
  /\ releases \in [DOMAIN releases -> ReleaseRecord]
  /\ \A r \in DOMAIN releases : releases[r].policy.devices # << >>
  /\ DOMAIN devices \subseteq Device
  /\ devices \in [DOMAIN devices -> [online : BOOLEAN]]
  /\ DOMAIN tasks \subseteq UNION {TaskIds(r, releases[r].policy) : r \in DOMAIN releases}
  /\ tasks \in [DOMAIN tasks -> TaskRecord]

(* The records are well formed, and the task map holds exactly one task per *)
(* position of each release's device list: CreateRelease whose emit fails   *)
(* half way would leave fewer (CutCalls).                                   *)
TypeOK ==
  /\ RecordsOK
  /\ \A r \in DOMAIN releases : TaskIds(r, releases[r].policy) \subseteq DOMAIN tasks

(* Work in flight can be taken back: whoever is at work on a task holds a   *)
(* lease with a deadline, without which the reaper passes the task over for *)
(* ever, and forward work names the agent that does it.                     *)
ActiveLeaseHeld ==
  \A t \in DOMAIN tasks :
    /\ IsActive(tasks[t]) => tasks[t].leaseUntil # ZeroTime
    /\ tasks[t].status \in {"leased", "installing", "awaiting-confirmation"}
         => tasks[t].leaseOwner # NoAgent

InFlight == ActiveStatus \cup {"rollback-queued"}

(* A release that has ended stays quiet: once completed or rolled back, none *)
(* of its tasks is leased, installing, awaiting confirmation or on its way   *)
(* through a rollback, whatever calls arrive late.                           *)
TerminalQuiescent ==
  \A t \in DOMAIN tasks :
    releases[ReleaseOf(t)].status \in TerminalRelease => tasks[t].status \notin InFlight

(* A rolled-back release left no device on the new firmware: none of its     *)
(* tasks is completed.                                                       *)
RolledBackClean ==
  \A t \in DOMAIN tasks :
    releases[ReleaseOf(t)].status = "rolled-back" => tasks[t].status # "completed"

(* A step that completes a release finds every one of its tasks completed.   *)
CompletionIsEarned ==
  [][\A r \in DOMAIN releases :
       releases[r].status # "completed" /\ releases'[r].status = "completed"
         => \A t \in TasksOf(r) : tasks'[t].status = "completed"]_vars

(* A lease that still runs is never handed to another agent in one step: its *)
(* holder keeps the task until it reports, or the lease runs out.            *)
NoLeaseTheft ==
  [][\A t \in DOMAIN tasks :
       IsActive(tasks[t]) /\ ~LeaseExpired(tasks[t], now)
         => tasks'[t].leaseOwner \in {tasks[t].leaseOwner, NoAgent}]_vars

TaskId == UNION {TaskIds(r, request) : r \in ReleaseId, request \in Request}

LeaseOn(t) ==
  IF t \in DOMAIN tasks /\ IsActive(tasks[t])
  THEN {[holder |-> tasks[t].leaseOwner, until |-> tasks[t].leaseUntil]} ELSE {}

LeaseSpec == INSTANCE TaskLease WITH
  Task <- TaskId, Holder <- Caller, lease <- [t \in TaskId |-> LeaseOn(t)]

(* Whatever dispatch, reports, expiry, retries and rollback do to a task, all *)
(* that anyone sees of it is a lease that is granted when there is none, is   *)
(* renewed in time by its holder, and ends.                                   *)
ImplementsTaskLease == LeaseSpec!Spec

-----------------------------------------------------------------------------
(* Properties of what the HTTP server and the scheduler can do *)

(* The retry limit is a limit: a task waiting to run has attempts left, and   *)
(* one at work was claimed at most retryLimit + 1 times, through every mix    *)
(* of rejections, expiries and manual retries.                                *)
RetryBudget ==
  \A t \in DOMAIN tasks :
    LET limit == releases[ReleaseOf(t)].policy.retryLimit IN
    /\ tasks[t].status \in {"queued", "rejected"} => tasks[t].attempts <= limit
    /\ tasks[t].status \in {"leased", "installing", "awaiting-confirmation"}
         => tasks[t].attempts \in 1 .. limit + 1

(* A lease lives exactly as long as the work: a task no agent is at work on    *)
(* names no owner and no deadline, so a late report by its last agent is       *)
(* refused.                                                                    *)
LeaseIffActive ==
  \A t \in DOMAIN tasks :
    /\ IsActive(tasks[t]) <=> tasks[t].leaseUntil # ZeroTime
    /\ ~IsActive(tasks[t]) => tasks[t].leaseOwner = NoAgent

(* The Completed counter a completed release reports is its device count,      *)
(* which is what the smoke command checks after recovery.                      *)
CompletedCountsAll ==
  \A r \in DOMAIN releases :
    releases[r].status = "completed"
      => releases[r].completed = Len(releases[r].policy.devices)

(* Where a scheduler runs, no task stays held by a lease that ran out.         *)
LeasesReclaimed == \A t \in TaskId : t \in Expired ~> t \notin Expired

-----------------------------------------------------------------------------
(* What the repository says of the program, and the program does not do *)

(* cli.go and README.md call max-concurrent the maximum of active tasks, and   *)
(* Release.Capacity counts leased tasks as active.                             *)
ConcurrencyLimit ==
  \A r \in DOMAIN releases :
    Count(tasks, r, {"leased", "installing", "awaiting-confirmation"})
      <= releases[r].policy.maxConcurrent

(* A failure past the rollback threshold moves an auto-rollback release to     *)
(* rollback-pending, whichever report made the task fail.                      *)
FailureTriggersRollback ==
  [][\A r \in DOMAIN releases :
       LET policy == releases[r].policy IN
       /\ policy.auto
       /\ Count(tasks, r, {"failed"}) <= policy.maxFailures
       /\ Count(tasks', r, {"failed"}) > policy.maxFailures
       => releases'[r].status = "rollback-pending"]_vars

(* Rejections enter a retry backoff: a task an agent held before does not     *)
(* stay eligible for ever on an online device whose agents keep claiming.      *)
RejectedIsRetried ==
  \A t \in TaskId, d \in Device :
    []<>~(/\ d \in DOMAIN devices /\ devices[d].online
          /\ t \in EligibleTasks(d) /\ tasks[t].attempts > 0)
=============================================================================
