------------------------ MODULE DurableServiceProofs ------------------------
(***************************************************************************)
(* Proofs that DurableService keeps its promises through crashes and        *)
(* refused events, for every set of releases, devices, agents and requests  *)
(* and every value of the bounds.  Memory and log are related record by     *)
(* record: one that no event is owed for is the same in both, up to the     *)
(* effect of a retry schedule that panicked; one that is owed is a single   *)
(* call ahead of the log.  Of a release that the store ever refused an      *)
(* event of, only what does not compare the two is claimed.                 *)
(***************************************************************************)
EXTENDS DurableService, ServiceProofs

-----------------------------------------------------------------------------
(* The invariant *)

LogTyped ==
  /\ logged = [releases |-> logged.releases, devices |-> logged.devices,
               tasks |-> logged.tasks]
  /\ DOMAIN logged.releases \subseteq DOMAIN releases
  /\ logged.releases \in [DOMAIN logged.releases -> ReleaseRecord]
  /\ \A r \in DOMAIN logged.releases : logged.releases[r].policy = releases[r].policy
  /\ DOMAIN logged.devices \subseteq Device
  /\ logged.devices \in [DOMAIN logged.devices -> [online : BOOLEAN]]
  /\ DOMAIN logged.tasks \subseteq DOMAIN tasks
  /\ logged.tasks \in [DOMAIN logged.tasks -> TaskRecord]
  /\ \A t \in DOMAIN logged.tasks : ReleaseOf(t) \in DOMAIN logged.releases

TodoTyped ==
  todo = [releases |-> todo.releases, devices |-> todo.devices, tasks |-> todo.tasks]

\* A panicking retry schedule changed the task from x to y in memory only.
Undone(x, y) == x.attempts = 0 /\ y.attempts = 0 /\ y.status = "rejected"

ReleasesSynced ==
  \A r \in DOMAIN releases \ todo.releases :
    r \in DOMAIN logged.releases /\ (r \notin refused => logged.releases[r] = releases[r])

TasksSynced ==
  \A t \in DOMAIN tasks \ todo.tasks :
    /\ t \in DOMAIN logged.tasks
    /\ ReleaseOf(t) \notin refused
         => logged.tasks[t] = tasks[t] \/ Undone(logged.tasks[t], tasks[t])

\* Work in flight has a lease, and what is in flight or completed was claimed.
Fine(x) == LeaseHeld(x) /\ (IsActive(x) \/ x.status = "completed" => x.attempts # 0)

TasksFine ==
  /\ \A t \in DOMAIN tasks : Fine(tasks[t])
  /\ \A t \in DOMAIN logged.tasks : Fine(logged.tasks[t])

\* What the log may have to follow: from the record x on disk to y in memory.
Follows(x, y) ==
  /\ LeaseMoves(x, y)
  /\ IsActive(x) /\ ~LeaseExpired(x, now) => y.leaseOwner \in {x.leaseOwner, NoAgent}

TasksFollow ==
  \A t \in DOMAIN tasks :
    ReleaseOf(t) \notin refused =>
    IF t \in DOMAIN logged.tasks THEN Follows(logged.tasks[t], tasks[t])
    ELSE ~IsActive(tasks[t])

CompletionDue ==
  \A r \in DOMAIN logged.releases \ refused :
    releases[r].status = "completed" /\ logged.releases[r].status # "completed"
      => \A t \in TaskIds(r, releases[r].policy) :
           t \in DOMAIN tasks /\ tasks[t].status = "completed"

\* A completed release is quiet, whether it is memory or the log that says so.
Quiet(ts, rs) ==
  \A t \in DOMAIN ts :
    /\ ReleaseOf(t) \in DOMAIN rs \ refused
    /\ rs[ReleaseOf(t)].status = "completed"
    => ts[t].status \notin InFlight

AllQuiet ==
  /\ Quiet(tasks, releases)
  /\ Quiet(tasks, logged.releases)
  /\ Quiet(logged.tasks, logged.releases)

DurableInv ==
  /\ RecordsOK /\ LogTyped /\ TodoTyped
  /\ ReleasesSynced /\ TasksSynced
  /\ TasksFine /\ TasksFollow
  /\ CompletionDue /\ AllQuiet

-----------------------------------------------------------------------------
(* What every call does to memory *)

(* No call removes a release or a task or changes a policy, and a new release  *)
(* and its tasks are queued.                                                   *)
LEMMA StepGrows ==
  ASSUME RecordsOK, [AnyStep]_vars
  PROVE  /\ DOMAIN releases \subseteq DOMAIN releases'
         /\ \A r \in DOMAIN releases : releases'[r].policy = releases[r].policy
         /\ \A r \in DOMAIN releases' \ DOMAIN releases : releases'[r].status = "queued"
         /\ DOMAIN tasks \subseteq DOMAIN tasks'
         /\ \A t \in DOMAIN tasks' \ DOMAIN tasks :
              ReleaseOf(t) \notin DOMAIN releases /\ tasks'[t].status = "queued"
<1>1. CASE CreateStep
  <2>0. PICK r \in ReleaseId, request \in Request :
          \E ids \in SUBSET TaskIds(r, request) : CreateWith(r, request, ids)
    BY <1>1 DEF CreateStep
  <2>1. PICK ids \in SUBSET TaskIds(r, request) : CreateWith(r, request, ids)
    BY <2>0
  <2>2. /\ r \notin DOMAIN releases /\ DOMAIN releases' = DOMAIN releases \cup {r}
        /\ releases'[r].status = "queued"
        /\ \A q \in DOMAIN releases : releases'[q] = releases[q]
    BY <2>1, CreateFacts
  <2>3. /\ DOMAIN tasks \subseteq DOMAIN tasks'
        /\ \A t \in DOMAIN tasks' \ DOMAIN tasks :
             ReleaseOf(t) = r /\ tasks'[t].status = "queued"
    BY <2>1, CreateFacts
  <2>4. QED
    BY <2>2, <2>3
<1>2. CASE SamePolicies /\ SameTasks
  BY <1>2 DEF SamePolicies, SameTasks
<1>3. CASE MoveStep
  BY <1>2, <1>3, MoveFacts DEF MoveStep, SameTasks
<1>4. CASE QueueStep
  BY <1>2, <1>4, QueueRollbackFacts DEF QueueStep
<1>5. CASE ClaimStep
  BY <1>2, <1>5, ClaimFacts DEF ClaimStep
<1>6. CASE Update
  BY <1>2, <1>6, UpdateFacts DEF Update, Updates, SamePolicies, SameTasks
<1>7. CASE RollbackStep
  BY <1>2, <1>7, CompleteRollbackFacts DEF RollbackStep
<1>8. CASE ReapExpired
  BY <1>2, <1>8, ReapFacts
<1>9. CASE QuietStep \/ UNCHANGED vars
  BY <1>2, <1>9 DEF QuietStep, vars, SamePolicies, SameTasks
<1>10. QED
  BY <1>1, <1>3, <1>4, <1>5, <1>6, <1>7, <1>8, <1>9, Steps

(* The kinds of change never put an unclaimed task in flight.                  *)
LEMMA ChangeKeepsFine ==
  ASSUME NEW x \in TaskRecord, NEW y, NEW limit, Fine(x), Change(x, y, limit)
  PROVE  Fine(y)
<1> USE DEF Fine, IsActive, ActiveStatus, Forward
<1>1. LeaseHeld(y)
  BY ChangeKeepsLease
<1>2. x.attempts \in Nat
  BY DEF TaskRecord
<1>3. IsActive(y) \/ y.status = "completed" => y.attempts # 0
  <2>1. CASE Advanced(x, y)
    BY <2>1 DEF Advanced, SameLease
  <2>2. CASE \/ GivenUp(x, y, limit) \/ Finished(x, y) \/ Requeued(x, y, limit)
             \/ PreflightFailed(x, y) \/ Bounced(x, y)
    BY <2>2 DEF GivenUp, Finished, Requeued, PreflightFailed, Bounced, LeaseFreed
  <2>3. CASE RollbackStarted(x, y)
    BY <1>2, <2>3 DEF RollbackStarted
  <2>4. CASE Renewed(x, y)
    BY <2>4 DEF Renewed
  <2>5. QED
    BY <2>1, <2>2, <2>3, <2>4 DEF Change, WireChange
<1>4. QED
  BY <1>1, <1>3

LEMMA FineStep ==
  ASSUME RecordsOK, \A t \in DOMAIN tasks : Fine(tasks[t]), [AnyStep]_vars
  PROVE  \A t \in DOMAIN tasks' : Fine(tasks'[t])
<1>1. \A t \in DOMAIN tasks : tasks[t] \in TaskRecord /\ tasks[t].attempts \in Nat
  BY DEF RecordsOK, TaskRecord
<1>2. \A t \in DOMAIN tasks' : LeaseHeld(tasks'[t])
  BY ActiveLeaseStep DEF Fine
<1> DEFINE Worked(x) == IsActive(x) \/ x.status = "completed"
<1>3. SUFFICES \A t \in DOMAIN tasks' : Worked(tasks'[t]) => tasks'[t].attempts # 0
  BY <1>2 DEF Fine
<1>4. \A t \in DOMAIN tasks : Worked(tasks[t]) => tasks[t].attempts # 0
  BY DEF Fine
<1> USE DEF IsActive, ActiveStatus
<1>5. CASE CreateStep
  BY <1>4, <1>5, CreateFacts DEF CreateStep
<1>6. CASE MoveStep \/ QuietStep \/ UNCHANGED vars
  BY <1>4, <1>6, MoveFacts DEF MoveStep, QuietStep, vars
<1>7. CASE QueueStep
  BY <1>4, <1>7, QueueRollbackFacts DEF QueueStep, SameTasks
<1>8. CASE ClaimStep
  BY <1>1, <1>4, <1>8, ClaimFacts DEF ClaimStep, SameTasks
<1>9. CASE Update
  <2>1. PICK t \in DOMAIN tasks, y \in TaskRecord :
          Updates(t, y) /\ Change(tasks[t], y, LimitOf(t))
    BY <1>9 DEF Update
  <2>2. tasks' = [tasks EXCEPT ![t] = y]
    BY <2>1, UpdateFacts DEF Updates
  <2>3. Fine(y)
    BY <1>1, <2>1, ChangeKeepsFine
  <2>4. QED
    BY <1>4, <2>2, <2>3 DEF Fine
<1>10. CASE RollbackStep
  BY <1>4, <1>10, CompleteRollbackFacts DEF RollbackStep, SameTasks
<1>11. CASE ReapExpired
  BY <1>4, <1>11, ReapFacts DEF SameTasks
<1>12. QED
  BY <1>5, <1>6, <1>7, <1>8, <1>9, <1>10, <1>11, Steps

(* No call puts a task of a completed release in flight, not even one that      *)
(* reopens the release.                                                        *)
LEMMA CompletedKept ==
  ASSUME RecordsOK, [AnyStep]_vars, Quiet(tasks, releases),
         NEW t \in DOMAIN tasks, ReleaseOf(t) \notin refused,
         releases[ReleaseOf(t)].status = "completed"
  PROVE  tasks'[t].status \notin InFlight
<1> USE DEF InFlight, ActiveStatus
<1>1. tasks[t].status \notin InFlight
  BY TaskRelease DEF Quiet
<1>2. CASE CreateStep
  BY <1>1, <1>2, CreateFacts DEF CreateStep
<1>3. CASE MoveStep \/ QuietStep \/ UNCHANGED vars
  BY <1>1, <1>3, MoveFacts DEF MoveStep, QuietStep, vars
<1>4. CASE QueueStep
  BY <1>1, <1>4, QueueRollbackFacts DEF QueueStep, TerminalRelease
<1>5. CASE ClaimStep
  BY <1>1, <1>5, ClaimFacts DEF ClaimStep, TerminalRelease
<1>6. CASE Update
  <2>1. PICK u \in DOMAIN tasks, y \in TaskRecord :
          Updates(u, y) /\ Change(tasks[u], y, LimitOf(u))
    BY <1>6 DEF Update
  <2>2. tasks' = [tasks EXCEPT ![u] = y]
    BY <2>1, UpdateFacts DEF Updates
  <2>3. CASE u = t
    <3>1. Over("completed", tasks[t])
      BY <1>1 DEF Over
    <3>2. Over("completed", y)
      BY <2>1, <2>3, <3>1, ChangeKeepsQuiet DEF TerminalRelease
    <3>3. QED
      BY <2>2, <2>3, <3>2 DEF Over, TerminalRelease
  <2>4. QED
    BY <1>1, <2>2, <2>3
<1>7. CASE RollbackStep
  BY <1>1, <1>7, CompleteRollbackFacts DEF RollbackStep
<1>8. CASE ReapExpired
  BY <1>1, <1>8, ReapFacts DEF IsActive
<1>9. QED
  BY <1>2, <1>3, <1>4, <1>5, <1>6, <1>7, <1>8, Steps

-----------------------------------------------------------------------------
(* The steps between calls: one event reaches the log, or the service restarts *)

(* An event for a task puts the task's record in memory into the log.          *)
LEMMA LogTaskFacts ==
  ASSUME LogTyped, TodoTyped, RecordsOK, NEW t \in DOMAIN tasks, LogTask(t)
  PROVE  /\ UNCHANGED vars
         /\ ReleaseOf(t) \in DOMAIN logged.releases
         /\ logged'.releases = logged.releases /\ logged'.devices = logged.devices
         /\ DOMAIN logged'.tasks = DOMAIN logged.tasks \cup {t}
         /\ logged'.tasks[t] = tasks[t]
         /\ \A u \in DOMAIN logged.tasks : u # t => logged'.tasks[u] = logged.tasks[u]
         /\ todo'.releases = todo.releases /\ todo'.tasks = todo.tasks \ {t}
         /\ refused' = refused /\ TodoTyped' /\ LogTyped'
<1> USE DEF LogTask, history
<1>1. UNCHANGED vars /\ ReleaseOf(t) \in DOMAIN logged.releases
  BY DEF LoggableTask
<1>2. logged' = [releases |-> logged.releases, devices |-> logged.devices,
                 tasks |-> Put(logged.tasks, t, tasks[t])]
  BY DEF LogTyped
<1>3. todo' = [releases |-> todo.releases, devices |-> todo.devices,
               tasks |-> todo.tasks \ {t}]
  BY DEF TodoTyped
<1>4. /\ DOMAIN logged'.tasks = DOMAIN logged.tasks \cup {t}
      /\ logged'.tasks[t] = tasks[t]
      /\ \A u \in DOMAIN logged.tasks : u # t => logged'.tasks[u] = logged.tasks[u]
  BY <1>2 DEF Put
<1>5. logged'.tasks \in [DOMAIN logged'.tasks -> TaskRecord]
  BY <1>2, <1>4 DEF LogTyped, RecordsOK, Put
<1>6. releases' = releases /\ tasks' = tasks
  BY <1>1 DEF vars
<1>7. LogTyped'
  BY <1>1, <1>2, <1>4, <1>5, <1>6 DEF LogTyped
<1>8. QED
  BY <1>1, <1>2, <1>3, <1>4, <1>7 DEF TodoTyped

(* So does an event for a release; only a release that is not in the log yet is *)
(* logged before the tasks of its call.                                         *)
LEMMA LogReleaseFacts ==
  ASSUME LogTyped, TodoTyped, RecordsOK, NEW r \in DOMAIN releases, LogRelease(r)
  PROVE  /\ UNCHANGED vars
         /\ r \in DOMAIN logged.releases => todo.tasks = {}
         /\ logged'.tasks = logged.tasks /\ logged'.devices = logged.devices
         /\ DOMAIN logged'.releases = DOMAIN logged.releases \cup {r}
         /\ logged'.releases[r] = releases[r]
         /\ \A q \in DOMAIN logged.releases :
              q # r => logged'.releases[q] = logged.releases[q]
         /\ todo'.releases = todo.releases \ {r} /\ todo'.tasks = todo.tasks
         /\ refused' = refused /\ TodoTyped' /\ LogTyped'
<1> USE DEF LogRelease, history
<1>1. UNCHANGED vars /\ (r \in DOMAIN logged.releases => todo.tasks = {})
  BY DEF LoggableRelease
<1>2. logged' = [releases |-> Put(logged.releases, r, releases[r]),
                 devices |-> logged.devices, tasks |-> logged.tasks]
  BY DEF LogTyped
<1>3. todo' = [releases |-> todo.releases \ {r}, devices |-> todo.devices,
               tasks |-> todo.tasks]
  BY DEF TodoTyped
<1>4. /\ DOMAIN logged'.releases = DOMAIN logged.releases \cup {r}
      /\ logged'.releases[r] = releases[r]
      /\ \A q \in DOMAIN logged.releases :
           q # r => logged'.releases[q] = logged.releases[q]
  BY <1>2 DEF Put
<1>5. logged'.releases \in [DOMAIN logged'.releases -> ReleaseRecord]
  BY <1>2, <1>4 DEF LogTyped, RecordsOK, Put
<1>6. releases' = releases /\ tasks' = tasks
  BY <1>1 DEF vars
<1>7. LogTyped'
  BY <1>2, <1>4, <1>5, <1>6 DEF LogTyped
<1>8. QED
  BY <1>1, <1>2, <1>3, <1>4, <1>7 DEF TodoTyped

(* Events for devices change neither releases nor tasks anywhere.               *)
LEMMA LogDeviceFacts ==
  ASSUME LogTyped, TodoTyped, RecordsOK, NEW d \in DOMAIN devices, LogDevice(d)
  PROVE  /\ UNCHANGED vars
         /\ logged'.tasks = logged.tasks /\ logged'.releases = logged.releases
         /\ todo'.releases = todo.releases /\ todo'.tasks = todo.tasks
         /\ refused' = refused /\ TodoTyped' /\ LogTyped'
<1> USE DEF LogDevice, history
<1>1. releases' = releases /\ tasks' = tasks /\ UNCHANGED vars
  BY DEF vars
<1>2. logged' = [releases |-> logged.releases,
                 devices |-> Put(logged.devices, d, devices[d]), tasks |-> logged.tasks]
  BY DEF LogTyped
<1>3. todo' = [releases |-> todo.releases, devices |-> todo.devices \ {d},
               tasks |-> todo.tasks]
  BY DEF TodoTyped
<1>4. /\ DOMAIN logged'.devices \subseteq Device
      /\ logged'.devices \in [DOMAIN logged'.devices -> [online : BOOLEAN]]
  BY <1>2 DEF LogTyped, RecordsOK, Put
<1>5. LogTyped'
  BY <1>1, <1>2, <1>4 DEF LogTyped
<1>6. QED
  BY <1>1, <1>2, <1>3, <1>5 DEF TodoTyped

(* A restart comes up with well-formed records.                                 *)
LEMMA RestartFacts ==
  ASSUME LogTyped, RecordsOK, Restart
  PROVE  refused' = refused /\ RecordsOK' /\ LogTyped' /\ TodoTyped'
<1> USE DEF Restart, history
<1>1. ASSUME NEW t \in DOMAIN logged.tasks
      PROVE  /\ ReleaseOf(t) \in DOMAIN logged.releases
             /\ t \in TaskIds(ReleaseOf(t), logged.releases[ReleaseOf(t)].policy)
  BY TaskRelease DEF LogTyped
<1>2. DOMAIN tasks' \subseteq
        UNION {TaskIds(r, releases'[r].policy) : r \in DOMAIN releases'}
  BY <1>1
<1>3. RecordsOK'
  BY <1>2 DEF RecordsOK, LogTyped
<1>4. LogTyped' /\ TodoTyped'
  BY DEF LogTyped, TodoTyped, Nothing
<1>5. QED
  BY <1>3, <1>4

-----------------------------------------------------------------------------
(* The invariant holds at every step *)

LEMMA FollowsItself == ASSUME NEW x PROVE Follows(x, x)
BY DEF Follows, LeaseMoves, SameLease

LEMMA LogTaskKeeps ==
  ASSUME DurableInv, NEW t \in DOMAIN tasks, LogTask(t)
  PROVE  DurableInv'
<1> USE DEF DurableInv
<1>1. /\ UNCHANGED vars /\ RecordsOK'
      /\ now' = now /\ releases' = releases /\ tasks' = tasks /\ refused' = refused
  BY LogTaskFacts, StepType DEF vars
<1>2. ReleasesSynced'
  BY <1>1, LogTaskFacts DEF ReleasesSynced
<1>3. TasksSynced'
  BY <1>1, LogTaskFacts DEF TasksSynced
<1>4. TasksFine'
  BY <1>1, LogTaskFacts DEF TasksFine
<1>5. TasksFollow'
  <2>1. ASSUME NEW u \in DOMAIN tasks, ReleaseOf(u) \notin refused
        PROVE  IF u \in DOMAIN logged'.tasks THEN Follows(logged'.tasks[u], tasks[u])
               ELSE ~IsActive(tasks[u])
    <3>1. CASE u = t
      BY <3>1, LogTaskFacts, FollowsItself
    <3>2. CASE u # t
      BY <2>1, <3>2, LogTaskFacts DEF TasksFollow
    <3>3. QED
      BY <3>1, <3>2
  <2>2. QED
    BY <1>1, <2>1 DEF TasksFollow, Follows, LeaseMoves
<1>6. CompletionDue'
  BY <1>1, LogTaskFacts DEF CompletionDue
<1>7. AllQuiet'
  BY <1>1, LogTaskFacts DEF AllQuiet, Quiet
<1>8. QED
  BY <1>1, <1>2, <1>3, <1>4, <1>5, <1>6, <1>7, LogTaskFacts

(* The log learns that a release is completed only when it has nothing more to   *)
(* learn of the release's tasks.                                                *)
LEMMA CompletionDone ==
  ASSUME DurableInv, NEW r \in DOMAIN logged.releases \ refused, todo.tasks = {},
         releases[r].status = "completed", logged.releases[r].status # "completed",
         NEW t \in TaskIds(r, logged.releases[r].policy)
  PROVE  t \in DOMAIN logged.tasks /\ logged.tasks[t].status = "completed"
<1>1. t \in TaskIds(r, releases[r].policy)
  BY DEF DurableInv, LogTyped
<1>2. t \in DOMAIN tasks /\ tasks[t].status = "completed"
  BY <1>1 DEF DurableInv, CompletionDue
<1>3. ReleaseOf(t) = r
  BY DEF TaskIds, ReleaseOf
<1>4. QED
  BY <1>2, <1>3 DEF DurableInv, TasksSynced, Undone

LEMMA LogReleaseKeeps ==
  ASSUME DurableInv, NEW r \in DOMAIN releases, LogRelease(r)
  PROVE  DurableInv'
<1> USE DEF DurableInv
<1>1. /\ UNCHANGED vars /\ RecordsOK'
      /\ now' = now /\ releases' = releases /\ tasks' = tasks /\ refused' = refused
  BY LogReleaseFacts, StepType DEF vars
<1>2. ReleasesSynced' /\ TasksSynced'
  BY <1>1, LogReleaseFacts DEF ReleasesSynced, TasksSynced
<1>3. TasksFine' /\ TasksFollow'
  BY <1>1, LogReleaseFacts DEF TasksFine, TasksFollow, Follows, LeaseMoves
<1>4. CompletionDue'
  BY <1>1, LogReleaseFacts DEF CompletionDue
<1>5. Quiet(tasks, logged.releases)'
  BY <1>1, LogReleaseFacts DEF AllQuiet, Quiet
<1>6. Quiet(logged.tasks, logged.releases)'
  <2>1. ASSUME NEW t \in DOMAIN logged.tasks, ReleaseOf(t) = r, r \notin refused,
               releases[r].status = "completed"
        PROVE  logged.tasks[t].status \notin InFlight
    <3>1. r \in DOMAIN logged.releases /\ t \in DOMAIN tasks
      BY <2>1 DEF LogTyped
    <3>2. CASE logged.releases[r].status = "completed"
      BY <2>1, <3>1, <3>2 DEF AllQuiet, Quiet
    <3>3. CASE logged.releases[r].status # "completed"
      <4>1. todo.tasks = {}
        BY <3>1, LogReleaseFacts
      <4>2. t \in TaskIds(r, logged.releases[r].policy)
        BY <2>1, <3>1, TaskRelease DEF LogTyped
      <4>3. logged.tasks[t].status = "completed"
        BY <2>1, <3>1, <3>3, <4>1, <4>2, CompletionDone
      <4>4. QED
        BY <4>3 DEF InFlight, ActiveStatus
    <3>4. QED
      BY <3>2, <3>3
  <2>2. QED
    BY <1>1, <2>1, LogReleaseFacts DEF AllQuiet, Quiet
<1>7. AllQuiet'
  BY <1>1, <1>5, <1>6 DEF AllQuiet, Quiet
<1>8. QED
  BY <1>1, <1>2, <1>3, <1>4, <1>7, LogReleaseFacts

LEMMA LogDeviceKeeps ==
  ASSUME DurableInv, NEW d \in DOMAIN devices, LogDevice(d)
  PROVE  DurableInv'
<1> USE DEF DurableInv
<1>1. /\ UNCHANGED vars /\ RecordsOK'
      /\ now' = now /\ releases' = releases /\ tasks' = tasks /\ refused' = refused
  BY LogDeviceFacts, StepType DEF vars
<1>2. ReleasesSynced' /\ TasksSynced'
  BY <1>1, LogDeviceFacts DEF ReleasesSynced, TasksSynced
<1>3. TasksFine' /\ TasksFollow'
  BY <1>1, LogDeviceFacts DEF TasksFine, TasksFollow, Follows, LeaseMoves
<1>4. CompletionDue' /\ AllQuiet'
  BY <1>1, LogDeviceFacts DEF CompletionDue, AllQuiet, Quiet
<1>5. QED
  BY <1>1, <1>2, <1>3, <1>4, LogDeviceFacts

LEMMA RestartKeeps ==
  ASSUME DurableInv, Restart
  PROVE  DurableInv'
<1> USE DEF DurableInv
<1>1. /\ now' = now /\ logged' = logged
      /\ releases' = logged.releases /\ tasks' = logged.tasks /\ refused' = refused
  BY RestartFacts DEF Restart
<1>2. RecordsOK' /\ LogTyped' /\ TodoTyped'
  BY RestartFacts
<1>3. ReleasesSynced' /\ TasksSynced'
  BY <1>1 DEF ReleasesSynced, TasksSynced
<1>4. TasksFine'
  BY <1>1 DEF TasksFine
<1>5. TasksFollow'
  BY <1>1 DEF TasksFollow, Follows, LeaseMoves, SameLease
<1>6. CompletionDue'
  BY <1>1 DEF CompletionDue
<1>7. AllQuiet'
  BY <1>1 DEF AllQuiet, Quiet
<1>8. QED
  BY <1>2, <1>3, <1>4, <1>5, <1>6, <1>7

(* A call leaves the log alone.  Either a retry schedule panicked and it owes no  *)
(* event, or it owes one for all it changed but what was lost; a call that makes  *)
(* a release loses nothing.                                                       *)
LEMMA CallKinds ==
  ASSUME Call
  PROVE  /\ AnyStep /\ logged' = logged
         /\ \/ Next /\ Panics /\ todo' = Nothing /\ refused' = refused
            \/ \E lost \in Parts(Changed) :
                 /\ Emits(lost)
                 /\ lost = Nothing \/ DOMAIN releases' = DOMAIN releases
<1>1. Nothing \in Parts(Changed)
  BY DEF Nothing, Parts
<1>2. CASE Next /\ EmitsAll
  BY <1>1, <1>2 DEF EmitsAll, Emits, AnyStep, history
<1>3. CASE Next /\ EmitsLess
  BY <1>3 DEF EmitsLess, Emits, AnyStep
<1>4. CASE CutNext /\ (Emits(Nothing) \/ EmitsLess)
  BY <1>1, <1>4 DEF EmitsLess, Emits, AnyStep
<1>5. CASE CutQueueNext /\ EmitsNoRelease
  BY <1>5 DEF EmitsNoRelease, Emits, AnyStep, CutQueueNext, CutQueueRollback,
              QueueTasks, SetStatus
<1>6. QED
  BY <1>2, <1>3, <1>4, <1>5 DEF Call

(* What a call changed is owed, or it belongs to a release the store refused.     *)
LEMMA EmitsFacts ==
  ASSUME NEW lost \in Parts(Changed), Emits(lost)
  PROVE  /\ TodoTyped' /\ refused \subseteq refused'
         /\ \A r \in Differing(releases, releases') \ todo'.releases :
              r \in refused' /\ lost # Nothing
         /\ \A t \in Differing(tasks, tasks') \ todo'.tasks :
              ReleaseOf(t) \in refused' /\ lost # Nothing
<1>1. PICK again \in Parts(Behind) :
        todo' = [releases |-> (Changed.releases \cup again.releases) \ lost.releases,
                 devices |-> (Changed.devices \cup again.devices) \ lost.devices,
                 tasks |-> (Changed.tasks \cup again.tasks) \ lost.tasks]
  BY DEF Emits
<1>2. /\ Changed.releases = Differing(releases, releases')
      /\ Changed.tasks = Differing(tasks, tasks')
  BY DEF Changed
<1>3. /\ lost = Nothing => refused' = refused
      /\ lost # Nothing =>
           refused' = refused \cup lost.releases \cup {ReleaseOf(t) : t \in lost.tasks}
  BY DEF Emits, history
<1>4. TodoTyped'
  BY <1>1 DEF TodoTyped
<1>5. \A r \in Differing(releases, releases') \ todo'.releases : r \in lost.releases
  BY <1>1, <1>2
<1>6. \A t \in Differing(tasks, tasks') \ todo'.tasks : t \in lost.tasks
  BY <1>1, <1>2
<1>7. lost.releases # {} \/ lost.tasks # {} => lost # Nothing
  BY DEF Nothing
<1>8. QED
  BY <1>3, <1>4, <1>5, <1>6, <1>7

LEMMA CallFacts ==
  ASSUME DurableInv, Call
  PROVE  /\ [AnyStep]_vars /\ RecordsOK' /\ logged' = logged /\ refused \subseteq refused'
         /\ DOMAIN tasks \subseteq DOMAIN logged.tasks
         /\ DOMAIN releases = DOMAIN logged.releases
         /\ \A r \in DOMAIN releases \ refused : logged.releases[r] = releases[r]
         /\ \A t \in DOMAIN tasks :
              ReleaseOf(t) \notin refused =>
                logged.tasks[t] = tasks[t] \/ Undone(logged.tasks[t], tasks[t])
         /\ TodoTyped' /\ ReleasesSynced' /\ TasksSynced'
<1> USE DEF DurableInv
<1>1. [AnyStep]_vars /\ logged' = logged
  BY CallKinds
<1>2. RecordsOK'
  BY <1>1, StepType
<1>3. todo = Nothing
  BY DEF Call
<1>4. /\ DOMAIN tasks \subseteq DOMAIN logged.tasks
      /\ \A t \in DOMAIN tasks :
           ReleaseOf(t) \notin refused =>
             logged.tasks[t] = tasks[t] \/ Undone(logged.tasks[t], tasks[t])
  BY <1>3 DEF TasksSynced, Nothing
<1>5. /\ DOMAIN releases = DOMAIN logged.releases
      /\ \A r \in DOMAIN releases \ refused : logged.releases[r] = releases[r]
  BY <1>3 DEF ReleasesSynced, LogTyped, Nothing
<1>6. CASE Next /\ Panics /\ todo' = Nothing /\ refused' = refused
  <2>1. PICK t \in DOMAIN tasks, a \in Caller :
          /\ RetryPanics(tasks[t], LimitOf(t))
          /\ RejectTask(t, a) \/ FailTask(t, a, TRUE)
    BY <1>6 DEF Panics, LimitOf
  <2>2. UpdateOnly(t, ScheduleRetry(tasks[t], now, LimitOf(t)))
    BY <2>1 DEF RejectTask, FailTask, LimitOf
  <2>3. /\ tasks[t] \in TaskRecord /\ LimitOf(t) \in Nat /\ now \in Nat
    BY TaskRelease DEF LimitOf, ReleaseRecord, Policy, RecordsOK
  <2> DEFINE y == ScheduleRetry(tasks[t], now, LimitOf(t))
  <2>4. /\ y \in TaskRecord
        /\ y.status = IF tasks[t].attempts > LimitOf(t) THEN "failed" ELSE "rejected"
        /\ y.attempts = tasks[t].attempts
    BY <2>3, ScheduleRetryFields DEF LeaseFreed
  <2>5. tasks[t].attempts = 0
    BY <2>1 DEF RetryPanics
  <2>6. Undone(tasks[t], y)
    BY <2>3, <2>4, <2>5 DEF Undone
  <2> HIDE DEF y
  <2>7. tasks' = [tasks EXCEPT ![t] = y] /\ releases' = releases
    BY <2>2 DEF UpdateOnly, y
  <2>8. TasksSynced'
    <3>1. ReleaseOf(t) \notin refused => Undone(logged.tasks[t], y)
      BY <1>4, <2>5, <2>6 DEF Undone
    <3>2. QED
      BY <1>1, <1>4, <1>6, <2>7, <3>1 DEF TasksSynced
  <2>9. TodoTyped' /\ ReleasesSynced'
    BY <1>1, <1>5, <1>6, <2>7 DEF TodoTyped, ReleasesSynced, Nothing
  <2>10. QED
    BY <1>1, <1>2, <1>4, <1>5, <1>6, <2>8, <2>9
<1>7. ASSUME NEW lost \in Parts(Changed), Emits(lost),
             lost = Nothing \/ DOMAIN releases' = DOMAIN releases
      PROVE  refused \subseteq refused' /\ TodoTyped' /\ ReleasesSynced' /\ TasksSynced'
  <2>1. TodoTyped' /\ refused \subseteq refused'
    BY <1>7, EmitsFacts
  <2>2. \A t \in DOMAIN tasks' \ DOMAIN tasks :
          ReleaseOf(t) \in DOMAIN releases' \ DOMAIN releases
    BY <1>1, <1>2, StepGrows DEF RecordsOK, TaskIds, ReleaseOf
  <2>3. ASSUME NEW r \in DOMAIN releases' \ todo'.releases
        PROVE  r \in DOMAIN logged.releases
                 /\ (r \notin refused' => logged.releases[r] = releases'[r])
    <3>1. CASE r \in Differing(releases, releases')
      BY <1>5, <1>7, <2>3, <3>1, EmitsFacts
    <3>2. CASE r \notin Differing(releases, releases')
      BY <1>5, <2>1, <2>3, <3>2 DEF Differing
    <3>3. QED
      BY <3>1, <3>2
  <2>4. ASSUME NEW t \in DOMAIN tasks' \ todo'.tasks
        PROVE  /\ t \in DOMAIN logged.tasks
               /\ ReleaseOf(t) \notin refused'
                    => logged.tasks[t] = tasks'[t] \/ Undone(logged.tasks[t], tasks'[t])
    <3>1. CASE t \in Differing(tasks, tasks')
      BY <1>4, <1>7, <2>2, <2>4, <3>1, EmitsFacts
    <3>2. CASE t \notin Differing(tasks, tasks')
      BY <1>4, <2>1, <2>4, <3>2 DEF Differing
    <3>3. QED
      BY <3>1, <3>2
  <2>5. ReleasesSynced' /\ TasksSynced'
    BY <1>1, <2>3, <2>4 DEF ReleasesSynced, TasksSynced
  <2>6. QED
    BY <2>1, <2>5
<1>8. QED
  BY <1>1, <1>2, <1>4, <1>5, <1>6, <1>7, CallKinds

(* A call moves no lease in a way the log cannot follow.                          *)
LEMMA CallFollows ==
  ASSUME DurableInv, Call
  PROVE  TasksFollow'
<1> USE DEF DurableInv
<1>1. ActiveLeaseHeld
  BY DEF TasksFine, Fine, LeaseHeld, ActiveLeaseHeld, Forward
<1>2. SUFFICES ASSUME NEW t \in DOMAIN tasks', ReleaseOf(t) \notin refused'
               PROVE  (IF t \in DOMAIN logged.tasks THEN Follows(logged.tasks[t], tasks[t])
                       ELSE ~IsActive(tasks[t]))'
  BY DEF TasksFollow
<1>3. CASE t \notin DOMAIN tasks
  <2>1. t \notin DOMAIN logged.tasks
    BY <1>3 DEF LogTyped
  <2>2. ~IsActive(tasks'[t])
    BY <1>1, <1>3, CallFacts, StepMovesLeases
  <2>3. QED
    BY <2>1, <2>2, CallFacts
<1>4. CASE t \in DOMAIN tasks
  <2> DEFINE x == logged.tasks[t]
             m == tasks[t]
             y == tasks'[t]
  <2>1. /\ LeaseMoves(m, y)
        /\ IsActive(m) /\ ~LeaseExpired(m, now) => y.leaseOwner \in {m.leaseOwner, NoAgent}
    BY <1>1, <1>4, CallFacts, StepMovesLeases, TheftStep
  <2>2. /\ t \in DOMAIN logged.tasks /\ (x = m \/ Undone(x, m))
        /\ logged'.tasks[t] = x /\ t \in DOMAIN logged'.tasks
    BY <1>2, <1>4, CallFacts
  <2>3. Fine(x) /\ Fine(m)
    BY <1>4, <2>2, CallFacts DEF TasksFine
  <2>4. now' = now \/ (Tick /\ tasks' = tasks)
    BY CallFacts, ClockSteps
  <2>5. CASE Undone(x, m)
    <3>1. ~IsActive(x) /\ ~IsActive(m)
      BY <2>3, <2>5 DEF Undone, Fine, IsActive, ActiveStatus
    <3>2. CASE now' = now
      BY <2>1, <2>2, <3>1, <3>2 DEF Follows, LeaseMoves
    <3>3. CASE tasks' = tasks
      BY <2>2, <3>1, <3>3 DEF Follows, LeaseMoves
    <3>4. QED
      BY <2>4, <3>2, <3>3
  <2>6. CASE x = m
    <3>1. CASE now' = now
      BY <2>1, <2>2, <2>6, <3>1 DEF Follows, LeaseMoves, LeaseExpired
    <3>2. CASE tasks' = tasks
      BY <2>2, <2>6, <3>2 DEF Follows, LeaseMoves, SameLease
    <3>3. QED
      BY <2>4, <3>1, <3>2
  <2>7. QED
    BY <1>4, <2>2, <2>5, <2>6, CallFacts
<1>5. QED
  BY <1>3, <1>4

LEMMA CallKeeps ==
  ASSUME DurableInv, Call
  PROVE  DurableInv'
<1> USE DEF DurableInv
<1>1. /\ [AnyStep]_vars /\ RecordsOK' /\ logged' = logged /\ refused \subseteq refused'
      /\ DOMAIN releases = DOMAIN logged.releases
      /\ \A r \in DOMAIN releases \ refused : logged.releases[r] = releases[r]
      /\ DOMAIN tasks \subseteq DOMAIN logged.tasks
      /\ TodoTyped' /\ ReleasesSynced' /\ TasksSynced'
  BY CallFacts
<1>2. LogTyped'
  BY <1>1, StepGrows DEF LogTyped
<1>3. TasksFine'
  BY <1>1, FineStep DEF TasksFine
<1>4. CompletionDue'
  <2>1. ASSUME NEW r \in DOMAIN logged.releases \ refused',
               releases'[r].status = "completed",
               logged.releases[r].status # "completed",
               NEW t \in TaskIds(r, releases'[r].policy)
        PROVE  t \in DOMAIN tasks' /\ tasks'[t].status = "completed"
    <3>1. releases'[r].policy = releases[r].policy /\ DOMAIN tasks \subseteq DOMAIN tasks'
      BY <1>1, StepGrows
    <3>2. /\ TaskIds(r, releases[r].policy) \subseteq DOMAIN tasks
          /\ \A u \in TasksOf(r) : tasks'[u].status = "completed"
      BY <1>1, <2>1, EarnedStep
    <3>3. t \in TasksOf(r)
      BY <3>1, <3>2 DEF TasksOf, TaskIds, ReleaseOf
    <3>4. QED
      BY <3>1, <3>2, <3>3
  <2>2. QED
    BY <1>1, <2>1 DEF CompletionDue
<1>5. Quiet(tasks, releases)'
  <2>1. ASSUME NEW t \in DOMAIN tasks', ReleaseOf(t) \in DOMAIN releases' \ refused',
               releases'[ReleaseOf(t)].status = "completed"
        PROVE  tasks'[t].status \notin InFlight
    <3>1. CASE t \notin DOMAIN tasks
      BY <1>1, <3>1, StepGrows DEF InFlight, ActiveStatus
    <3>2. CASE t \in DOMAIN tasks /\ releases[ReleaseOf(t)].status = "completed"
      BY <1>1, <2>1, <3>2, CompletedKept DEF AllQuiet
    <3>3. CASE t \in DOMAIN tasks /\ releases[ReleaseOf(t)].status # "completed"
      <4>1. ReleaseOf(t) \in DOMAIN releases /\ t \in TasksOf(ReleaseOf(t))
        BY <3>3, TaskRelease DEF TasksOf
      <4>2. tasks'[t].status = "completed"
        BY <1>1, <2>1, <3>3, <4>1, EarnedStep
      <4>3. QED
        BY <4>2 DEF InFlight, ActiveStatus
    <3>4. QED
      BY <3>1, <3>2, <3>3
  <2>2. QED
    BY <2>1 DEF Quiet
<1>6. Quiet(tasks, logged.releases)'
  <2>1. ASSUME NEW t \in DOMAIN tasks', ReleaseOf(t) \in DOMAIN releases \ refused',
               releases[ReleaseOf(t)].status = "completed"
        PROVE  tasks'[t].status \notin InFlight
    <3>1. CASE t \notin DOMAIN tasks
      BY <1>1, <2>1, <3>1, StepGrows
    <3>2. CASE t \in DOMAIN tasks
      BY <1>1, <2>1, <3>2, CompletedKept DEF AllQuiet
    <3>3. QED
      BY <3>1, <3>2
  <2>2. QED
    BY <1>1, <2>1 DEF Quiet
<1>7. AllQuiet'
  BY <1>1, <1>5, <1>6 DEF AllQuiet, Quiet
<1>8. QED
  BY <1>1, <1>2, <1>3, <1>4, <1>7, CallFollows

LEMMA DurableInitial == DurableInit => DurableInv
<1> SUFFICES ASSUME DurableInit PROVE DurableInv
  OBVIOUS
<1> USE DEF DurableInit
<1>1. RecordsOK
  BY InitType
<1>2. /\ releases = EmptyMap /\ tasks = EmptyMap
      /\ logged = [releases |-> EmptyMap, devices |-> EmptyMap, tasks |-> EmptyMap]
      /\ DOMAIN EmptyMap = {} /\ EmptyMap \in [{} -> ReleaseRecord]
      /\ EmptyMap \in [{} -> TaskRecord] /\ EmptyMap \in [{} -> [online : BOOLEAN]]
  BY DEF Init, EmptyMap
<1>3. LogTyped
  BY <1>2 DEF LogTyped
<1>4. TodoTyped
  BY DEF TodoTyped, Nothing
<1>5. ReleasesSynced /\ TasksSynced /\ TasksFine /\ TasksFollow /\ CompletionDue /\ AllQuiet
  BY <1>2 DEF ReleasesSynced, TasksSynced, TasksFine, TasksFollow, CompletionDue, AllQuiet,
              Quiet
<1>6. QED
  BY <1>1, <1>3, <1>4, <1>5 DEF DurableInv

\* A step of the service on its log is a call, an event or a restart.
LEMMA DurableSteps ==
  ASSUME [DurableNext]_durableVars
  PROVE  \/ Call
         \/ \E t \in DOMAIN tasks : LogTask(t)
         \/ \E r \in DOMAIN releases : LogRelease(r)
         \/ \E d \in DOMAIN devices : LogDevice(d)
         \/ Restart
         \/ UNCHANGED durableVars
BY DEF DurableNext, LogEvent

LEMMA DurableStep == DurableInv /\ [DurableNext]_durableVars => DurableInv'
<1> SUFFICES ASSUME DurableInv, [DurableNext]_durableVars PROVE DurableInv'
  OBVIOUS
<1>1. CASE UNCHANGED durableVars
  <2>1. /\ UNCHANGED vars /\ logged' = logged /\ todo' = todo /\ now' = now
        /\ releases' = releases /\ tasks' = tasks /\ refused' = refused
    BY <1>1 DEF durableVars, vars, history
  <2>2. RecordsOK' /\ LogTyped' /\ TodoTyped'
    BY <2>1, StepType DEF DurableInv, LogTyped, TodoTyped
  <2>3. ReleasesSynced' /\ TasksSynced' /\ TasksFine' /\ CompletionDue' /\ AllQuiet'
    BY <2>1 DEF DurableInv, ReleasesSynced, TasksSynced, TasksFine, CompletionDue, AllQuiet,
                   Quiet
  <2>4. TasksFollow'
    BY <2>1 DEF DurableInv, TasksFollow, Follows, LeaseMoves
  <2>5. QED
    BY <2>2, <2>3, <2>4 DEF DurableInv
<1>2. QED
  BY <1>1, DurableSteps, CallKeeps, LogTaskKeeps, LogReleaseKeeps, LogDeviceKeeps,
     RestartKeeps

(* Memory and log stay related as DurableInv says, whenever a crash comes.        *)
THEOREM DurableInvariant == DurableSpec => []DurableInv
BY DurableInitial, DurableStep, PTL DEF DurableSpec

-----------------------------------------------------------------------------
(* What follows from it *)

(* None of the tasks of a completed release is in flight, through any crash of    *)
(* any call, unless the store refused an event of the release                     *)
(* (CompletedStaysQuiet: ReportPreflight, QueueRollback and the reaper against    *)
(* emit and Recover).                                                             *)
THEOREM CompletedQuiet == DurableSpec => []CompletedStaysQuiet
<1>1. DurableInv => CompletedStaysQuiet
  BY TaskRelease DEF DurableInv, AllQuiet, Quiet, CompletedStaysQuiet
<1>2. QED
  BY <1>1, DurableInvariant, PTL

(* Whatever the store refused and whenever a crash comes, the log holds no task   *)
(* without its release: CreateRelease emits the release first and returns when     *)
(* that fails (NoOrphanTask).                                                     *)
THEOREM NoTaskOrphaned == DurableSpec => []NoOrphanTask
<1>1. DurableInv => NoOrphanTask
  BY DEF DurableInv, LogTyped, NoOrphanTask
<1>2. QED
  BY <1>1, DurableInvariant, PTL

(* Recovered work in flight can be taken back by the reaper, whatever events the   *)
(* store refused (ActiveLeaseHeld through emit and Recover).                      *)
THEOREM RecoveredLeasesHeld == DurableSpec => []ActiveLeaseHeld
<1>1. DurableInv => ActiveLeaseHeld
  BY DEF DurableInv, TasksFine, Fine, LeaseHeld, ActiveLeaseHeld, Forward
<1>2. QED
  BY <1>1, DurableInvariant, PTL

(* What one step may do to a task in the log: nothing, or bring it up to memory.  *)
LEMMA LoggedTaskStep ==
  ASSUME DurableInv, [DurableNext]_durableVars
  PROVE  /\ DOMAIN logged.tasks \subseteq DOMAIN logged'.tasks
         /\ \A t \in DOMAIN logged.tasks :
              \/ logged'.tasks[t] = logged.tasks[t]
              \/ ReleaseOf(t) \in refused
              \/ Follows(logged.tasks[t], logged'.tasks[t])
         /\ \A t \in DOMAIN logged'.tasks \ DOMAIN logged.tasks :
              ReleaseOf(t) \in refused \/ ~IsActive(logged'.tasks[t])
<1> USE DEF DurableInv
<1>1. CASE Call \/ Restart \/ UNCHANGED durableVars
  BY <1>1, CallFacts DEF Restart, durableVars
<1>2. ASSUME NEW t \in DOMAIN tasks, LogTask(t)
      PROVE  /\ DOMAIN logged.tasks \subseteq DOMAIN logged'.tasks
             /\ \A u \in DOMAIN logged.tasks :
                  \/ logged'.tasks[u] = logged.tasks[u]
                  \/ ReleaseOf(u) \in refused
                  \/ Follows(logged.tasks[u], logged'.tasks[u])
             /\ \A u \in DOMAIN logged'.tasks \ DOMAIN logged.tasks :
                  ReleaseOf(u) \in refused \/ ~IsActive(logged'.tasks[u])
  <2>1. ReleaseOf(t) \notin refused =>
        IF t \in DOMAIN logged.tasks THEN Follows(logged.tasks[t], tasks[t])
        ELSE ~IsActive(tasks[t])
    BY DEF TasksFollow
  <2>2. QED
    BY <1>2, <2>1, LogTaskFacts
<1>3. CASE \E r \in DOMAIN releases : LogRelease(r)
  BY <1>3, LogReleaseFacts
<1>4. CASE \E d \in DOMAIN devices : LogDevice(d)
  BY <1>4, LogDeviceFacts
<1>5. QED
  BY <1>1, <1>2, <1>3, <1>4, DurableSteps

(* A lease that is on disk and still runs is not replaced there by another        *)
(* agent's, unless the store refused an event of its release (NoDoubleDispatch:   *)
(* claim, emit and Recover).                                                      *)
THEOREM NotDispatchedTwice == DurableSpec => NoDoubleDispatch
<1>1. DurableInv /\ [DurableNext]_durableVars
        => [\A t \in DOMAIN logged.tasks :
              LET task == logged.tasks[t] IN
              /\ ReleaseOf(t) \notin refused
              /\ IsActive(task) /\ ~LeaseExpired(task, now)
              => logged'.tasks[t].leaseOwner \in {task.leaseOwner, NoAgent}]_durableVars
  BY LoggedTaskStep DEF Follows
<1>2. QED
  BY <1>1, DurableInvariant, PTL DEF DurableSpec, NoDoubleDispatch

(* The log calls a release completed only when it holds its completed tasks,      *)
(* unless the store refused an event of it (CompletionLogged: UpdateTask emits    *)
(* the task before reconcile emits the release, and does not ask whether it       *)
(* was stored).                                                                   *)
THEOREM CompletionIsLogged == DurableSpec => CompletionLogged
<1>1. ASSUME DurableInv, [DurableNext]_durableVars, NEW r \in DOMAIN logged.releases \ refused,
             logged.releases[r].status # "completed",
             logged'.releases[r].status = "completed",
             NEW t \in TaskIds(r, logged.releases[r].policy)
      PROVE  t \in DOMAIN logged.tasks /\ logged.tasks[t].status = "completed"
  <2> USE DEF DurableInv
  <2>1. CASE Call \/ Restart \/ UNCHANGED durableVars
    BY <1>1, <2>1, CallFacts DEF Restart, durableVars
  <2>2. CASE \E u \in DOMAIN tasks : LogTask(u)
    BY <1>1, <2>2, LogTaskFacts
  <2>3. ASSUME NEW q \in DOMAIN releases, LogRelease(q)
        PROVE  t \in DOMAIN logged.tasks /\ logged.tasks[t].status = "completed"
    <3>1. q = r /\ releases[r].status = "completed" /\ todo.tasks = {}
      BY <1>1, <2>3, LogReleaseFacts
    <3>2. QED
      BY <1>1, <3>1, CompletionDone
  <2>4. CASE \E d \in DOMAIN devices : LogDevice(d)
    BY <1>1, <2>4, LogDeviceFacts
  <2>5. QED
    BY <1>1, <2>1, <2>2, <2>3, <2>4, DurableSteps
<1>2. DurableInv /\ [DurableNext]_durableVars
        => [\A r \in DOMAIN logged.releases \ refused : ~CompletedUnearned(r)]_durableVars
  BY <1>1 DEF CompletedUnearned
<1>3. QED
  BY <1>2, DurableInvariant, PTL DEF DurableSpec, CompletionLogged

-----------------------------------------------------------------------------
(* Releases that were rolled back *)

\* The task is not on its way to the new version, and did not get there.
Off(x) == x.status \notin Forward \cup {"completed"}

\* So are the tasks of a rolled-back release, whether it is memory or the log that
\* says so.
Reverted(ts, rs) ==
  \A t \in DOMAIN ts :
    /\ ReleaseOf(t) \in DOMAIN rs \ refused
    /\ rs[ReleaseOf(t)].status = "rolled-back"
    => Off(ts[t])

RevertedInv ==
  /\ Reverted(tasks, releases)
  /\ Reverted(tasks, logged.releases)
  /\ Reverted(logged.tasks, logged.releases)

(* No kind of change starts a task that is off.                                   *)
LEMMA ChangeKeepsOff ==
  ASSUME NEW x, NEW y, NEW limit, Off(x), Change(x, y, limit)
  PROVE  Off(y)
<1> USE DEF Off, Forward
<1>1. ~Advanced(x, y) /\ ~Finished(x, y) /\ ~PreflightFailed(x, y)
  BY DEF Advanced, Finished, PreflightFailed
<1>2. \/ GivenUp(x, y, limit) \/ Requeued(x, y, limit) \/ RollbackStarted(x, y)
      \/ Renewed(x, y) \/ Bounced(x, y)
  BY <1>1 DEF Change, WireChange
<1>3. QED
  BY <1>2 DEF GivenUp, Requeued, RollbackStarted, Renewed, Bounced

(* No call puts a task of a rolled-back release back to work, not even one that    *)
(* reopens the release.                                                           *)
LEMMA RevertedKept ==
  ASSUME RecordsOK, [AnyStep]_vars, NEW t \in DOMAIN tasks, Off(tasks[t]),
         releases[ReleaseOf(t)].status = "rolled-back"
  PROVE  Off(tasks'[t])
<1> USE DEF Off, Forward
<1>1. CASE CreateStep
  BY <1>1, CreateFacts DEF CreateStep
<1>2. CASE MoveStep \/ QuietStep \/ UNCHANGED vars
  BY <1>2, MoveFacts DEF MoveStep, QuietStep, vars
<1>3. CASE QueueStep
  BY <1>3, QueueRollbackFacts DEF QueueStep
<1>4. CASE ClaimStep
  BY <1>4, ClaimFacts DEF ClaimStep, TerminalRelease
<1>5. CASE Update
  <2>1. PICK u \in DOMAIN tasks, y \in TaskRecord :
          Updates(u, y) /\ Change(tasks[u], y, LimitOf(u))
    BY <1>5 DEF Update
  <2>2. tasks' = [tasks EXCEPT ![u] = y]
    BY <2>1, UpdateFacts DEF Updates
  <2>3. CASE u = t
    BY <2>1, <2>2, <2>3, ChangeKeepsOff
  <2>4. CASE u # t
    BY <2>2, <2>4
  <2>5. QED
    BY <2>3, <2>4
<1>6. CASE RollbackStep
  BY <1>6, CompleteRollbackFacts DEF RollbackStep
<1>7. CASE ReapExpired
  BY <1>7, ReapFacts
<1>8. QED
  BY <1>1, <1>2, <1>3, <1>4, <1>5, <1>6, <1>7, Steps

(* A step that makes a release rolled back finds none of its tasks on or on the   *)
(* way to the new version.                                                        *)
LEMMA RolledBackStep ==
  ASSUME RecordsOK, [AnyStep]_vars, NEW r \in DOMAIN releases,
         releases[r].status # "rolled-back", releases'[r].status = "rolled-back"
  PROVE  \A t \in TasksOf(r) : Off(tasks'[t])
<1>1. CASE CreateStep
  BY <1>1, CreateFacts DEF CreateStep
<1>2. CASE MoveStep
  BY <1>2, MoveFacts DEF MoveStep
<1>3. CASE QueueStep
  BY <1>3, QueueRollbackFacts DEF QueueStep
<1>4. CASE ClaimStep
  BY <1>4, ClaimFacts DEF ClaimStep
<1>5. CASE Update
  BY <1>5, UpdateFacts, ReconciledEnd DEF Update, Updates, SameTasks, TerminalRelease
<1>6. CASE RollbackStep
  BY <1>6, CompleteRollbackFacts DEF RollbackStep, RollbackSettled, Off, Forward
<1>7. CASE ReapExpired
  BY <1>7, ReapFacts, ReconciledEnd DEF TerminalRelease
<1>8. CASE QuietStep \/ UNCHANGED vars
  BY <1>8 DEF QuietStep, vars
<1>9. QED
  BY <1>1, <1>2, <1>3, <1>4, <1>5, <1>6, <1>7, <1>8, Steps

LEMMA CallKeepsReverted ==
  ASSUME DurableInv, RevertedInv, Call
  PROVE  RevertedInv'
<1> USE DEF DurableInv
<1>1. /\ [AnyStep]_vars /\ logged' = logged /\ refused \subseteq refused'
      /\ DOMAIN releases = DOMAIN logged.releases
      /\ \A r \in DOMAIN releases \ refused : logged.releases[r] = releases[r]
  BY CallFacts
<1>2. ASSUME NEW t \in DOMAIN tasks' \ DOMAIN tasks
      PROVE  Off(tasks'[t])
  BY <1>1, StepGrows DEF Off, Forward
<1>3. ASSUME NEW t \in DOMAIN tasks, ReleaseOf(t) \notin refused,
             releases[ReleaseOf(t)].status = "rolled-back"
      PROVE  Off(tasks'[t])
  <2>1. Off(tasks[t])
    BY <1>3, TaskRelease DEF RevertedInv, Reverted
  <2>2. QED
    BY <1>1, <1>3, <2>1, RevertedKept
<1>4. ASSUME NEW t \in DOMAIN tasks, ReleaseOf(t) \notin refused,
             releases'[ReleaseOf(t)].status = "rolled-back"
      PROVE  Off(tasks'[t])
  <2>1. ReleaseOf(t) \in DOMAIN releases /\ t \in TasksOf(ReleaseOf(t))
    BY TaskRelease DEF TasksOf
  <2>2. QED
    BY <1>1, <1>3, <1>4, <2>1, RolledBackStep
<1>5. Reverted(tasks, releases)'
  BY <1>1, <1>2, <1>4 DEF Reverted
<1>6. Reverted(tasks, logged.releases)'
  BY <1>1, <1>2, <1>3 DEF Reverted
<1>7. QED
  BY <1>1, <1>5, <1>6 DEF RevertedInv, Reverted

(* When the log learns that a release is rolled back it holds no task that is on   *)
(* the new version: what a panic kept from the log was never claimed.              *)
LEMMA LogReleaseKeepsReverted ==
  ASSUME DurableInv, RevertedInv, NEW r \in DOMAIN releases, LogRelease(r)
  PROVE  RevertedInv'
<1> USE DEF DurableInv
<1>1. releases' = releases /\ tasks' = tasks /\ refused' = refused
  BY LogReleaseFacts DEF vars
<1>2. Reverted(tasks, releases)' /\ Reverted(tasks, logged.releases)'
  BY <1>1, LogReleaseFacts DEF RevertedInv, Reverted
<1>3. ASSUME NEW t \in DOMAIN logged.tasks, ReleaseOf(t) = r, r \notin refused,
             releases[r].status = "rolled-back"
      PROVE  Off(logged.tasks[t])
  <2>1. r \in DOMAIN logged.releases /\ t \in DOMAIN tasks
    BY <1>3 DEF LogTyped
  <2>2. Off(tasks[t])
    BY <1>3, <2>1 DEF RevertedInv, Reverted
  <2>3. logged.tasks[t] = tasks[t] \/ Undone(logged.tasks[t], tasks[t])
    BY <1>3, <2>1, LogReleaseFacts DEF TasksSynced
  <2>4. CASE logged.tasks[t] = tasks[t]
    BY <2>2, <2>4
  <2>5. CASE Undone(logged.tasks[t], tasks[t])
    BY <1>3, <2>5 DEF Undone, TasksFine, Fine, IsActive, ActiveStatus, Off, Forward
  <2>6. QED
    BY <2>3, <2>4, <2>5
<1>4. Reverted(logged.tasks, logged.releases)'
  BY <1>1, <1>3, LogReleaseFacts DEF RevertedInv, Reverted
<1>5. QED
  BY <1>2, <1>4 DEF RevertedInv

LEMMA RevertedStep == DurableInv /\ RevertedInv /\ [DurableNext]_durableVars => RevertedInv'
<1> SUFFICES ASSUME DurableInv, RevertedInv, [DurableNext]_durableVars PROVE RevertedInv'
  OBVIOUS
<1> USE DEF DurableInv, RevertedInv
<1>1. CASE Restart \/ UNCHANGED durableVars
  BY <1>1 DEF Restart, durableVars, history, Reverted
<1>2. ASSUME NEW t \in DOMAIN tasks, LogTask(t)
      PROVE  RevertedInv'
  <2>1. releases' = releases /\ tasks' = tasks
    BY <1>2, LogTaskFacts DEF vars
  <2>2. QED
    BY <1>2, <2>1, LogTaskFacts DEF Reverted
<1>3. ASSUME NEW d \in DOMAIN devices, LogDevice(d)
      PROVE  RevertedInv'
  BY <1>3, LogDeviceFacts DEF vars, Reverted
<1>4. QED
  BY <1>1, <1>2, <1>3, CallKeepsReverted, LogReleaseKeepsReverted, DurableSteps

(* A release that was rolled back has no device on the new version, through any    *)
(* crash of any call, unless the store refused an event of it                      *)
(* (RolledBackStaysClean: CompleteRollback and Complete against emit and Recover). *)
THEOREM RolledBackIsCleanDurably == DurableSpec => []RolledBackStaysClean
<1>1. DurableInit => RevertedInv
  BY DEF DurableInit, Init, EmptyMap, RevertedInv, Reverted
<1>2. DurableInv /\ RevertedInv => RolledBackStaysClean
  BY TaskRelease DEF DurableInv, RevertedInv, Reverted, Off, RolledBackStaysClean
<1>3. QED
  BY <1>1, <1>2, RevertedStep, DurableInvariant, PTL DEF DurableSpec

-----------------------------------------------------------------------------
(* The leases on disk keep the promise of TaskLease *)

\* Time passes only while the log stays as it is.
LEMMA LogClock ==
  ASSUME DurableInv, [DurableNext]_durableVars
  PROVE  \/ now' = now
         \/ now' \in Nat /\ now' > now /\ logged' = logged /\ refused' = refused
<1> USE DEF DurableInv
<1>1. CASE Call
  <2>1. now' = now \/ Tick
    BY <1>1, CallFacts, ClockSteps
  <2>2. Tick => refused' = refused
    <3>1. Tick => \A lost \in Parts(Changed) : lost = Nothing
      BY DEF Tick, Parts, Changed, Differing, Nothing
    <3>2. QED
      BY <1>1, <3>1, CallKinds DEF Emits, history
  <2>3. QED
    BY <1>1, <2>1, <2>2, CallFacts DEF Tick, RecordsOK
<1>2. CASE Restart \/ UNCHANGED durableVars
  BY <1>2 DEF Restart, durableVars
<1>3. CASE \/ \E t \in DOMAIN tasks : LogTask(t)
           \/ \E r \in DOMAIN releases : LogRelease(r)
           \/ \E d \in DOMAIN devices : LogDevice(d)
  BY <1>3 DEF LogTask, LogRelease, LogDevice, vars
<1>4. QED
  BY <1>1, <1>2, <1>3, DurableSteps

(* What the store ever refused is not forgotten. *)
LEMMA RefusedGrows ==
  ASSUME DurableInv, [DurableNext]_durableVars
  PROVE  refused \subseteq refused'
<1>1. CASE \/ \E t \in DOMAIN tasks : LogTask(t)
           \/ \E r \in DOMAIN releases : LogRelease(r)
           \/ \E d \in DOMAIN devices : LogDevice(d)
           \/ Restart \/ UNCHANGED durableVars
  BY <1>1 DEF LogTask, LogRelease, LogDevice, Restart, durableVars, history
<1>2. QED
  BY <1>1, CallFacts, DurableSteps

LEMMA LoggedLeaseStep ==
  ASSUME DurableInv, DurableInv', [DurableNext]_durableVars
  PROVE  [LoggedLeaseSpec!Next]_<<now, [t \in TaskId |-> LoggedLeaseOn(t)]>>
<1> DEFINE lease == [t \in TaskId |-> LoggedLeaseOn(t)]
<1>1. ASSUME now' = now, NEW t \in TaskId
      PROVE  \/ LoggedLeaseSpec!Grant(t) \/ LoggedLeaseSpec!Renew(t)
             \/ LoggedLeaseSpec!End(t) \/ LoggedLeaseSpec!Keep(t)
  <2> DEFINE x == logged.tasks[t]
             y == logged'.tasks[t]
             current == [holder |-> x.leaseOwner, until |-> x.leaseUntil]
             granted == [holder |-> y.leaseOwner, until |-> y.leaseUntil]
  <2>1. CASE LoggedLeaseOn(t)' = {}
    BY <2>1 DEF LoggedLeaseSpec!End
  <2>2. CASE LoggedLeaseOn(t)' # {}
    <3>1. /\ t \in DOMAIN logged'.tasks /\ IsActive(y) /\ ReleaseOf(t) \notin refused
          /\ LoggedLeaseOn(t)' = {granted}
      BY <2>2, RefusedGrows DEF LoggedLeaseOn
    <3>2. t \in DOMAIN logged.tasks /\ (y = x \/ LeaseMoves(x, y))
      BY <3>1, LoggedTaskStep DEF Follows
    <3>3. y.leaseOwner \in Caller /\ y.leaseUntil \in Nat
      BY <3>1 DEF DurableInv, LogTyped, TaskRecord
    <3>4. CASE IsActive(x) /\ SameLease(x, y)
      BY <3>1, <3>2, <3>4 DEF LoggedLeaseSpec!Keep, LoggedLeaseOn, SameLease
    <3>5. CASE ~IsActive(x) /\ y.leaseUntil > now
      <4>1. LoggedLeaseSpec!Runs(granted) /\ LoggedLeaseOn(t) = {}
        BY <3>3, <3>5 DEF LoggedLeaseSpec!Runs, LoggedLeaseOn
      <4>2. QED
        BY <3>1, <4>1 DEF LoggedLeaseSpec!Grant
    <3>6. CASE /\ IsActive(x) /\ now <= x.leaseUntil
               /\ y.leaseOwner = x.leaseOwner /\ y.leaseUntil > now
      <4>1. /\ LoggedLeaseSpec!Runs(granted) /\ LoggedLeaseOn(t) = {current}
            /\ granted.holder = current.holder /\ now <= current.until
        BY <3>1, <3>2, <3>3, <3>6 DEF LoggedLeaseSpec!Runs, LoggedLeaseOn
      <4>2. LoggedLeaseSpec!Renew(t)
        <5> HIDE DEF granted, current
        <5>1. QED
          BY <3>1, <4>1 DEF LoggedLeaseSpec!Renew
      <4>3. QED
        BY <4>2
    <3>7. CASE y = x
      BY <3>1, <3>4, <3>7 DEF SameLease
    <3>8. QED
      BY <3>1, <3>2, <3>4, <3>5, <3>6, <3>7 DEF LeaseMoves
  <2>3. QED
    BY <2>1, <2>2
<1>2. CASE now' = now
  BY <1>1, <1>2 DEF LoggedLeaseSpec!Next, LoggedLeaseSpec!Call
<1>3. CASE now' \in Nat /\ now' > now /\ logged' = logged /\ refused' = refused
  <2>1. \A t \in TaskId : LoggedLeaseOn(t)' = LoggedLeaseOn(t)
    BY <1>3 DEF LoggedLeaseOn
  <2>2. QED
    BY <1>3, <2>1 DEF LoggedLeaseSpec!Next, LoggedLeaseSpec!Clock
<1>4. QED
  BY <1>2, <1>3, LogClock

(* Seen from the disk, a lease is granted when there is none, renewed in time by  *)
(* its holder, and ends, however often the service crashes, as long as the store  *)
(* refuses no event of its release (LogImplementsTaskLease: claim, RenewLease,    *)
(* emit and Recover).                                                             *)
THEOREM TaskLeaseLogged == DurableSpec => LogImplementsTaskLease
<1>1. DurableInit => LoggedLeaseSpec!Init
  BY DEF DurableInit, Init, EmptyMap, LoggedLeaseOn, LoggedLeaseSpec!Init
<1>2. DurableInv /\ DurableInv' /\ [DurableNext]_durableVars
        => [LoggedLeaseSpec!Next]_<<now, [t \in TaskId |-> LoggedLeaseOn(t)]>>
  BY LoggedLeaseStep
<1>3. QED
  BY <1>1, <1>2, DurableInvariant, PTL
     DEF DurableSpec, LogImplementsTaskLease, LoggedLeaseSpec!Spec

-----------------------------------------------------------------------------
(* What the routed calls and the scheduler keep through crashes *)

\* The retry budget and the extent of the lease, of a task in memory or in the log.
Exact(t, x) == Budget(LimitOf(t), x) /\ LeaseExact(x)

Counted(rs) ==
  \A r \in DOMAIN rs \ refused :
    rs[r].status = "completed" => rs[r].completed = Len(rs[r].policy.devices)

WireInv ==
  /\ \A t \in DOMAIN tasks : Exact(t, tasks[t])
  /\ \A t \in DOMAIN logged.tasks : Exact(t, logged.tasks[t])
  /\ Counted(releases)
  /\ Counted(logged.releases)

LEMMA WireCallIsCall == WireCall => Call
BY DEF WireCall, Call, Next, CutNext

LEMMA DurableWireIsDurable == DurableWireSpec => DurableSpec
<1>1. [DurableWireNext]_durableVars => [DurableNext]_durableVars
  BY WireCallIsCall DEF DurableWireNext, DurableNext
<1>2. QED
  BY <1>1, PTL DEF DurableWireSpec, DurableSpec

LEMMA WireCallKeeps ==
  ASSUME DurableInv, WireInv, WireCall
  PROVE  WireInv'
<1>1. /\ RecordsOK /\ [AnyWireStep]_vars /\ [AnyStep]_vars
      /\ logged' = logged /\ refused \subseteq refused'
  BY WireCallIsCall, CallFacts DEF DurableInv, WireCall, AnyWireStep
<1>2. \A t \in DOMAIN tasks' : Exact(t, tasks[t])'
  BY <1>1, BudgetStep, ExactStep DEF WireInv, Exact
<1>3. \A t \in DOMAIN logged.tasks : LimitOf(t)' = LimitOf(t)
  <2>1. \A t \in DOMAIN logged.tasks : ReleaseOf(t) \in DOMAIN releases
    BY DEF DurableInv, LogTyped
  <2>2. QED
    BY <1>1, <2>1, StepGrows DEF LimitOf
<1>4. Counted(releases)'
  <2>1. \A t \in DOMAIN tasks :
          ReleaseOf(t) \notin refused /\ releases[ReleaseOf(t)].status = "completed"
            => tasks[t].status \notin InFlight
    BY TaskRelease DEF DurableInv, AllQuiet, Quiet
  <2>2. CountedBut(refused)
    BY DEF WireInv, Counted, CountedBut
  <2>3. QED
    BY <1>1, <2>1, <2>2, CountedStep DEF Counted
<1>5. Counted(logged.releases)'
  BY <1>1 DEF WireInv, Counted
<1>6. QED
  BY <1>1, <1>2, <1>3, <1>4, <1>5 DEF WireInv, Exact

LEMMA RestartKeepsWire ==
  ASSUME DurableInv, WireInv, Restart
  PROVE  WireInv'
<1>1. /\ releases' = logged.releases /\ tasks' = logged.tasks /\ logged' = logged
      /\ refused' = refused
  BY DEF Restart, history
<1>2. \A t \in DOMAIN logged.tasks : LimitOf(t)' = LimitOf(t)
  BY <1>1 DEF DurableInv, LogTyped, LimitOf
<1>3. QED
  BY <1>1, <1>2 DEF WireInv, Exact, Counted

LEMMA WireStep == DurableInv /\ WireInv /\ [DurableWireNext]_durableVars => WireInv'
<1> SUFFICES ASSUME DurableInv, WireInv, [DurableWireNext]_durableVars PROVE WireInv'
  OBVIOUS
<1> USE DEF WireInv
<1>1. CASE UNCHANGED durableVars
  BY <1>1 DEF durableVars, history, Exact, Counted, LimitOf
<1>2. ASSUME NEW t \in DOMAIN tasks, LogTask(t)
      PROVE  WireInv'
  <2>1. releases' = releases /\ tasks' = tasks
    BY <1>2, LogTaskFacts DEF DurableInv, vars
  <2>2. QED
    BY <1>2, <2>1, LogTaskFacts DEF DurableInv, Exact, Counted, LimitOf
<1>3. ASSUME NEW r \in DOMAIN releases, LogRelease(r)
      PROVE  WireInv'
  <2>1. releases' = releases /\ tasks' = tasks
    BY <1>3, LogReleaseFacts DEF DurableInv, vars
  <2>2. QED
    BY <1>3, <2>1, LogReleaseFacts DEF DurableInv, Exact, Counted, LimitOf
<1>4. ASSUME NEW d \in DOMAIN devices, LogDevice(d)
      PROVE  WireInv'
  <2>1. releases' = releases /\ tasks' = tasks
    BY <1>4, LogDeviceFacts DEF DurableInv, vars
  <2>2. QED
    BY <1>4, <2>1, LogDeviceFacts DEF DurableInv, Exact, Counted, LimitOf
<1>5. QED
  BY <1>1, <1>2, <1>3, <1>4, WireCallKeeps, RestartKeepsWire DEF DurableWireNext, LogEvent

LEMMA WireInitial == DurableInit => WireInv
BY DEF DurableInit, Init, EmptyMap, WireInv, Counted

LEMMA WireInvariant == DurableWireSpec => []WireInv
<1>1. DurableWireSpec => []DurableInv
  BY DurableWireIsDurable, DurableInvariant, PTL
<1>2. QED
  BY <1>1, WireInitial, WireStep, PTL DEF DurableWireSpec

(* The retry limit stays a limit through crashes: memory, the log, and what a     *)
(* restart makes of the two are all within it (RetryBudget: claim, ScheduleRetry  *)
(* and ReapExpired against emit and Recover).                                     *)
THEOREM RetriesBoundedDurably == DurableWireSpec => []RetryBudget
<1>1. WireInv => RetryBudget
  BY DEF WireInv, Exact, RetryBudget, Budget, LimitOf, Forward
<1>2. QED
  BY <1>1, WireInvariant, PTL

(* A recovered task names an owner and a deadline exactly when an agent is at     *)
(* work on it (LeaseIffActive through Recover).                                   *)
THEOREM LeasesEndDurably == DurableWireSpec => []LeaseIffActive
<1>1. WireInv => LeaseIffActive
  BY DEF WireInv, Exact, LeaseIffActive, LeaseExact
<1>2. QED
  BY <1>1, WireInvariant, PTL

(* A completed release counts all of its devices, recovered or not, unless the     *)
(* store refused an event of it: reconcile sets the counter and the status in one  *)
(* event, and nothing of a completed release is in flight to change them again.    *)
THEOREM CompletedCountedDurably ==
  DurableWireSpec =>
    [](\A r \in DOMAIN releases \ refused :
         releases[r].status = "completed"
           => releases[r].completed = Len(releases[r].policy.devices))
<1>1. WireInv => \A r \in DOMAIN releases \ refused :
                   releases[r].status = "completed"
                     => releases[r].completed = Len(releases[r].policy.devices)
  BY DEF WireInv, Counted
<1>2. QED
  BY <1>1, WireInvariant, PTL
=============================================================================
