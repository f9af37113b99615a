--------------------------- MODULE ServiceProofs ---------------------------
(***************************************************************************)
(* Proofs that Service keeps its invariants, for every set of releases,     *)
(* devices, agents and requests and every value of the bounds.  The lemmas  *)
(* about steps take in what CutCalls adds, for DurableServiceProofs.        *)
(***************************************************************************)
EXTENDS CutCalls, FiniteSetTheorems, TLAPS

-----------------------------------------------------------------------------
(* The rules of internal/domain *)

(* The exponential backoff of a task that was leased is a natural number.   *)
LEMMA RetryDelayNat ==
  ASSUME NEW n \in Nat \ {0}
  PROVE  RetryDelay(n) \in Nat
<1>1. min(n - 1, 8) + 1 \in 1 .. 9
  BY DEF min
<1>2. PowerOfTwo \in [1 .. 9 -> Nat]
  BY DEF PowerOfTwo
<1>3. PowerOfTwo[min(n - 1, 8) + 1] \in Nat
  BY <1>1, <1>2
<1>4. \A x, y \in Nat : x * y \in Nat
  OBVIOUS
<1>5. QED
  BY <1>3, <1>4, BackoffAssumption DEF RetryDelay

SameLease(x, y) ==
  y.leaseOwner = x.leaseOwner /\ y.leaseUntil = x.leaseUntil /\ y.attempts = x.attempts

LeaseFreed(x, y) ==
  y.leaseOwner = NoAgent /\ y.leaseUntil = ZeroTime /\ y.attempts = x.attempts

(* Each helper keeps a task record a task record; what it sets and what it    *)
(* keeps.                                                                     *)
LEMMA WithStatusFields ==
  ASSUME NEW x \in TaskRecord, NEW s \in TaskStatus, NEW at \in Nat
  PROVE  /\ WithStatus(x, s, at) \in TaskRecord
         /\ WithStatus(x, s, at).status = s
         /\ SameLease(x, WithStatus(x, s, at))
  BY DEF WithStatus, SameLease, TaskRecord

LEMMA ReleaseLeaseFields ==
  ASSUME NEW x \in TaskRecord
  PROVE  /\ ReleaseLease(x) \in TaskRecord
         /\ LeaseFreed(x, ReleaseLease(x))
  BY DEF ReleaseLease, LeaseFreed, TaskRecord, Caller, ZeroTime

LEMMA SettleFields ==
  ASSUME NEW x \in TaskRecord, NEW s \in TaskStatus, NEW at \in Nat
  PROVE  /\ Settle(x, s, at) \in TaskRecord
         /\ Settle(x, s, at).status = s
         /\ LeaseFreed(x, Settle(x, s, at))
  BY ReleaseLeaseFields, WithStatusFields DEF Settle, LeaseFreed, SameLease

LEMMA RetryAtFields ==
  ASSUME NEW x \in TaskRecord, NEW n \in Nat
  PROVE  /\ RetryAt(x, n) \in TaskRecord
         /\ RetryAt(x, n).status = x.status
         /\ SameLease(x, RetryAt(x, n))
  BY DEF RetryAt, SameLease, TaskRecord

LEMMA RenewFields ==
  ASSUME NEW x \in TaskRecord, NEW at \in Nat, NEW ttl \in Nat
  PROVE  /\ Renew(x, at, ttl) \in TaskRecord
         /\ Renew(x, at, ttl).status = x.status
         /\ Renew(x, at, ttl).leaseOwner = x.leaseOwner
         /\ Renew(x, at, ttl).leaseUntil = at + ttl
         /\ Renew(x, at, ttl).attempts = x.attempts
<1>1. at + ttl \in Nat
  OBVIOUS
<1>2. QED
  BY <1>1 DEF Renew, TaskRecord

LEMMA LeaseFields ==
  ASSUME NEW x \in TaskRecord, NEW a \in Caller, NEW at \in Nat, NEW ttl \in Nat
  PROVE  /\ Lease(x, a, at, ttl) \in TaskRecord
         /\ Lease(x, a, at, ttl).status = "leased"
         /\ Lease(x, a, at, ttl).leaseOwner = a
         /\ Lease(x, a, at, ttl).leaseUntil = at + ttl
         /\ Lease(x, a, at, ttl).attempts = x.attempts + 1
  BY DEF Lease, TaskRecord, TaskStatus

(* ScheduleRetry frees the task and leaves it rejected or failed. *)
LEMMA ScheduleRetryFields ==
  ASSUME NEW x \in TaskRecord, NEW at \in Nat, NEW limit \in Nat
  PROVE  /\ ScheduleRetry(x, at, limit) \in TaskRecord
         /\ ScheduleRetry(x, at, limit).status =
              IF x.attempts > limit THEN "failed" ELSE "rejected"
         /\ LeaseFreed(x, ScheduleRetry(x, at, limit))
<1>1. x.attempts \in Nat /\ "failed" \in TaskStatus /\ "rejected" \in TaskStatus
  BY DEF TaskRecord, TaskStatus
<1>2. \A s \in {"failed", "rejected"} :
        /\ Settle(x, s, at) \in TaskRecord
        /\ Settle(x, s, at).status = s
        /\ LeaseFreed(x, Settle(x, s, at))
  BY <1>1, SettleFields
<1>3. CASE x.attempts > limit
  BY <1>2, <1>3, RetryAtFields DEF ScheduleRetry, ZeroTime, LeaseFreed, SameLease
<1>4. CASE ~(x.attempts > limit) /\ RetryPanics(x, limit)
  BY <1>2, <1>4 DEF ScheduleRetry
<1>5. CASE ~(x.attempts > limit) /\ ~RetryPanics(x, limit)
  <2>1. at + RetryDelay(x.attempts) \in Nat
    BY <1>1, <1>5, RetryDelayNat DEF RetryPanics
  <2>2. QED
    BY <1>2, <1>5, <2>1, RetryAtFields DEF ScheduleRetry, LeaseFreed, SameLease
<1>6. QED
  BY <1>3, <1>4, <1>5

-----------------------------------------------------------------------------
(* Tasks and releases in a state of the right type *)

(* A task belongs to a known release, at a position of its device list. *)
LEMMA TaskRelease ==
  ASSUME RecordsOK, NEW t \in DOMAIN tasks
  PROVE  /\ ReleaseOf(t) \in DOMAIN releases
         /\ t \in TaskIds(ReleaseOf(t), releases[ReleaseOf(t)].policy)
         /\ tasks[t] \in TaskRecord
         /\ releases[ReleaseOf(t)] \in ReleaseRecord
  BY DEF RecordsOK, TaskIds, ReleaseOf

(* A release has as many task ids as devices. *)
LEMMA TaskIdsFinite ==
  ASSUME NEW r, NEW policy \in Policy
  PROVE  /\ IsFiniteSet(TaskIds(r, policy))
         /\ Cardinality(TaskIds(r, policy)) = Len(policy.devices)
<1>1. Len(policy.devices) \in Nat
  BY DEF Policy
<1>2. /\ IsFiniteSet(1 .. Len(policy.devices))
      /\ Cardinality(1 .. Len(policy.devices)) = Len(policy.devices)
  BY <1>1, FS_Interval
<1>3. IsFiniteSet({r}) /\ Cardinality({r}) = 1
  BY FS_Singleton
<1>4. /\ IsFiniteSet({r} \X (1 .. Len(policy.devices)))
      /\ Cardinality({r} \X (1 .. Len(policy.devices))) = 1 * Len(policy.devices)
  BY <1>2, <1>3, FS_Product
<1>5. QED
  BY <1>1, <1>4 DEF TaskIds

(* Counting a release's tasks gives a natural number, and when every task    *)
(* there can be is counted, there is one per device and it has a status of S. *)
LEMMA CountType ==
  ASSUME RecordsOK, NEW r \in DOMAIN releases, NEW ts, DOMAIN ts = DOMAIN tasks, NEW S
  PROVE  /\ Count(ts, r, S) \in Nat
         /\ Count(ts, r, S) = Len(releases[r].policy.devices)
              => /\ TaskIds(r, releases[r].policy) \subseteq DOMAIN tasks
                 /\ \A t \in TasksOf(r) : ts[t].status \in S
<1> DEFINE ids == TaskIds(r, releases[r].policy)
           counted == {t \in DOMAIN ts : ReleaseOf(t) = r /\ ts[t].status \in S}
<1>1. releases[r].policy \in Policy
  BY DEF RecordsOK, ReleaseRecord
<1>2. IsFiniteSet(ids) /\ Cardinality(ids) = Len(releases[r].policy.devices)
  BY <1>1, TaskIdsFinite
<1>3. \A t \in DOMAIN tasks : ReleaseOf(t) = r => t \in ids
  BY TaskRelease
<1>4. counted \in SUBSET ids
  BY <1>3
<1>5. /\ IsFiniteSet(counted)
      /\ Cardinality(ids) = Cardinality(counted) => ids = counted
  BY <1>2, <1>4, FS_Subset
<1>6. Cardinality(counted) \in Nat
  BY <1>5, FS_CardinalityType
<1>7. Count(ts, r, S) = Cardinality(counted)
  BY DEF Count
<1>8. ASSUME Cardinality(ids) = Cardinality(counted), NEW t \in TasksOf(r)
      PROVE  ts[t].status \in S
  BY <1>3, <1>5, <1>8 DEF TasksOf
<1>9. counted \subseteq DOMAIN tasks
  OBVIOUS
<1>10. QED
  BY <1>2, <1>5, <1>6, <1>7, <1>8, <1>9

(* reconcile makes a release record with the same policy, and completes a    *)
(* release that was not complete only when all of its tasks are.             *)
LEMMA ReconciledFacts ==
  ASSUME RecordsOK, NEW r \in DOMAIN releases, NEW ts, DOMAIN ts = DOMAIN tasks
  PROVE  /\ Reconciled(r, ts) \in ReleaseRecord
         /\ Reconciled(r, ts).policy = releases[r].policy
         /\ Reconciled(r, ts).createdAt = releases[r].createdAt
         /\ Reconciled(r, ts).status \in
              {releases[r].status, "rollback-pending", "completed"}
         /\ Reconciled(r, ts).status = "completed" =>
              \/ releases[r].status = "completed"
              \/ /\ Reconciled(r, ts).completed = Len(releases[r].policy.devices)
                 /\ TaskIds(r, releases[r].policy) \subseteq DOMAIN tasks
                 /\ \A t \in TasksOf(r) : ts[t].status = "completed"
<1> DEFINE done == Count(ts, r, {"completed"})
           fail == Count(ts, r, {"failed"})
<1>1. done \in Nat /\ fail \in Nat
  BY CountType
<1>2. done = Len(releases[r].policy.devices)
        => /\ TaskIds(r, releases[r].policy) \subseteq DOMAIN tasks
           /\ \A t \in TasksOf(r) : ts[t].status = "completed"
  BY CountType
<1>3. releases[r] \in ReleaseRecord
  BY DEF RecordsOK
<1> HIDE DEF done, fail
<1>4. Reconciled(r, ts) =
        [releases[r] EXCEPT
           !.completed = done, !.failed = fail,
           !.status = IF releases[r].policy.auto /\ fail > releases[r].policy.maxFailures
                      THEN "rollback-pending"
                      ELSE IF done = Len(releases[r].policy.devices)
                      THEN "completed" ELSE @]
  BY DEF Reconciled, done, fail
<1>5. QED
  BY <1>1, <1>2, <1>3, <1>4 DEF ReleaseRecord, UsedReleaseStatus

(* A step that keeps the releases and the tasks there are, gives them records *)
(* of the right type and changes no policy keeps RecordsOK.                      *)
LEMMA TypeStep ==
  ASSUME RecordsOK, now' \in Nat \ {0},
         DOMAIN devices' \subseteq Device,
         devices' \in [DOMAIN devices' -> [online : BOOLEAN]],
         releases' \in [DOMAIN releases -> ReleaseRecord],
         \A r \in DOMAIN releases : releases'[r].policy = releases[r].policy,
         tasks' \in [DOMAIN tasks -> TaskRecord]
  PROVE  RecordsOK'
<1>1. DOMAIN releases' = DOMAIN releases /\ DOMAIN tasks' = DOMAIN tasks
  OBVIOUS
<1>2. UNION {TaskIds(r, releases'[r].policy) : r \in DOMAIN releases} =
      UNION {TaskIds(r, releases[r].policy) : r \in DOMAIN releases}
  OBVIOUS
<1>3. DOMAIN tasks \subseteq UNION {TaskIds(r, releases[r].policy) : r \in DOMAIN releases}
  BY DEF RecordsOK
<1>4. DOMAIN tasks' \subseteq
        UNION {TaskIds(r, releases'[r].policy) : r \in DOMAIN releases'}
  BY <1>1, <1>2, <1>3
<1>5. \A r \in DOMAIN releases' : releases'[r].policy.devices # << >>
  BY <1>1 DEF RecordsOK
<1>6. DOMAIN releases' \subseteq ReleaseId
  BY <1>1 DEF RecordsOK
<1>7. QED
  BY <1>1, <1>4, <1>5, <1>6 DEF RecordsOK

(* What a call that updates one task does, whether it reconciles or not. *)
LEMMA UpdateFacts ==
  ASSUME RecordsOK, NEW t \in DOMAIN tasks, NEW task \in TaskRecord,
         UpdateOnly(t, task) \/ UpdateAndReconcile(t, task)
  PROVE  /\ RecordsOK'
         /\ tasks' = [tasks EXCEPT ![t] = task]
         /\ DOMAIN tasks' = DOMAIN tasks
         /\ DOMAIN releases' = DOMAIN releases
         /\ \A r \in DOMAIN releases :
              /\ releases'[r].policy = releases[r].policy
              /\ \/ releases'[r] = releases[r]
                 \/ /\ r = ReleaseOf(t) /\ UpdateAndReconcile(t, task)
                    /\ releases'[r] = Reconciled(r, tasks')
         /\ UNCHANGED <<now, devices>>
<1>1. tasks' = [tasks EXCEPT ![t] = task] /\ UNCHANGED <<now, devices>>
  BY DEF UpdateOnly, UpdateAndReconcile
<1>2. tasks \in [DOMAIN tasks -> TaskRecord]
  BY DEF RecordsOK
<1>3. tasks' \in [DOMAIN tasks -> TaskRecord] /\ DOMAIN tasks' = DOMAIN tasks
  BY <1>1, <1>2
<1>4. ReleaseOf(t) \in DOMAIN releases
  BY TaskRelease
<1>5. releases \in [DOMAIN releases -> ReleaseRecord]
  BY DEF RecordsOK
<1>6. \/ releases' = releases
      \/ /\ UpdateAndReconcile(t, task)
         /\ releases' = [releases EXCEPT ![ReleaseOf(t)] = Reconciled(ReleaseOf(t), tasks')]
  BY DEF UpdateOnly, UpdateAndReconcile
<1>7. \A r \in DOMAIN releases :
        Reconciled(r, tasks') \in ReleaseRecord
        /\ Reconciled(r, tasks').policy = releases[r].policy
  BY <1>3, ReconciledFacts
<1>8. /\ releases' \in [DOMAIN releases -> ReleaseRecord]
      /\ \A r \in DOMAIN releases :
           /\ releases'[r].policy = releases[r].policy
           /\ \/ releases'[r] = releases[r]
              \/ /\ r = ReleaseOf(t) /\ UpdateAndReconcile(t, task)
                 /\ releases'[r] = Reconciled(r, tasks')
  BY <1>4, <1>5, <1>6, <1>7
<1>9. RecordsOK'
  BY <1>1, <1>3, <1>8, TypeStep DEF RecordsOK
<1>10. QED
  BY <1>1, <1>3, <1>8, <1>9

(* What a call that only moves the status of a release does. *)
LEMMA StatusFacts ==
  ASSUME RecordsOK, NEW r \in DOMAIN releases, NEW status \in UsedReleaseStatus,
         SetStatus(r, status), NEW ts \in [DOMAIN tasks -> TaskRecord], tasks' = ts,
         UNCHANGED <<now, devices>>
  PROVE  /\ RecordsOK'
         /\ DOMAIN releases' = DOMAIN releases
         /\ \A q \in DOMAIN releases :
              /\ releases'[q].policy = releases[q].policy
              /\ releases'[q].status = IF q = r THEN status ELSE releases[q].status
              /\ releases'[q].completed = releases[q].completed
<1>1. releases \in [DOMAIN releases -> ReleaseRecord]
  BY DEF RecordsOK
<1>2. releases' = [releases EXCEPT ![r].status = status]
  BY DEF SetStatus
<1>3. [releases[r] EXCEPT !.status = status] \in ReleaseRecord
  BY <1>1 DEF ReleaseRecord
<1>4. /\ releases' \in [DOMAIN releases -> ReleaseRecord]
      /\ \A q \in DOMAIN releases :
           /\ releases'[q].policy = releases[q].policy
           /\ releases'[q].status = IF q = r THEN status ELSE releases[q].status
           /\ releases'[q].completed = releases[q].completed
  BY <1>1, <1>2, <1>3 DEF ReleaseRecord
<1>5. RecordsOK'
  BY <1>4, TypeStep DEF RecordsOK
<1>6. QED
  BY <1>4, <1>5

-----------------------------------------------------------------------------
(* The kinds of change a call that updates one task makes: x is the task      *)
(* before, y the task after, limit its release's retry limit.                 *)

Forward == {"leased", "installing", "awaiting-confirmation"}

Advanced(x, y) ==
  /\ x.status \in Forward
  /\ y.status \in {"installing", "awaiting-confirmation"}
  /\ SameLease(x, y)

GivenUp(x, y, limit) ==
  /\ y.status \in {"rejected", "failed"}
  /\ y.status = "rejected" => y.attempts <= limit
  /\ LeaseFreed(x, y)

Finished(x, y) ==
  /\ x.status \in {"installing", "awaiting-confirmation"}
  /\ y.status = "completed"
  /\ LeaseFreed(x, y)

Requeued(x, y, limit) ==
  /\ x.status \in {"failed", "rejected"}
  /\ y.status = "queued" /\ y.attempts <= limit
  /\ SameLease(x, y)

RollbackStarted(x, y) ==
  /\ x.status = "rollback-queued"
  /\ y.status = "rolling-back"
  /\ y.leaseUntil # ZeroTime /\ y.leaseUntil > now
  /\ y.attempts = x.attempts + 1

Renewed(x, y) ==
  /\ IsActive(x)
  /\ x.leaseUntil # ZeroTime => now <= x.leaseUntil
  /\ y.status = x.status
  /\ y.leaseOwner = x.leaseOwner /\ y.leaseUntil # ZeroTime /\ y.leaseUntil > now
  /\ y.attempts = x.attempts

PreflightFailed(x, y) ==
  /\ x.status \in Forward
  /\ y.status = "failed"
  /\ SameLease(x, y)

Bounced(x, y) ==
  y.status = "rejected" /\ SameLease(x, y)

\* What the routed calls do, and what the others add.
WireChange(x, y, limit) ==
  \/ Advanced(x, y) \/ GivenUp(x, y, limit) \/ Finished(x, y)
  \/ Requeued(x, y, limit) \/ RollbackStarted(x, y)

Change(x, y, limit) ==
  WireChange(x, y, limit) \/ Renewed(x, y) \/ PreflightFailed(x, y) \/ Bounced(x, y)

LimitOf(t) == releases[ReleaseOf(t)].policy.retryLimit

WireReport(t) ==
  \/ \E a \in Caller : StartTask(t, a)
  \/ \E a \in Caller : RejectTask(t, a)
  \/ \E a \in Caller, done \in BOOLEAN : ReportProgress(t, a, done)
  \/ RetryTask(t)
  \/ AckTask(t)
  \/ CompleteTask(t)

LibraryReport(t) ==
  \/ \E a \in Caller, ttl \in TTLs : RenewLease(t, a, ttl)
  \/ \E a \in Caller, retryable \in BOOLEAN : FailTask(t, a, retryable)
  \/ \E ok \in BOOLEAN : ReportPreflight(t, ok)
  \/ \E a \in Caller : ConfirmInstall(t, a)
  \/ UpdateTaskReject(t)

Updates(t, y) == UpdateOnly(t, y) \/ UpdateAndReconcile(t, y)

LEMMA StatusNames ==
  /\ "queued" \in TaskStatus /\ "leased" \in TaskStatus
  /\ "installing" \in TaskStatus /\ "awaiting-confirmation" \in TaskStatus
  /\ "completed" \in TaskStatus /\ "rejected" \in TaskStatus
  /\ "failed" \in TaskStatus /\ "rollback-queued" \in TaskStatus
  /\ "rolling-back" \in TaskStatus /\ "rolled-back" \in TaskStatus
  BY DEF TaskStatus

(* Every routed report is a WireChange of its task. *)
LEMMA WireReports ==
  ASSUME RecordsOK, NEW t \in DOMAIN tasks, WireReport(t)
  PROVE  \E y \in TaskRecord :
           /\ Updates(t, y) /\ WireChange(tasks[t], y, LimitOf(t))
           /\ UpdateOnly(t, y) \/ tasks[t].status \in Forward
<1> DEFINE x == tasks[t]
           WireEffect(y) == /\ Updates(t, y) /\ WireChange(x, y, LimitOf(t))
                            /\ UpdateOnly(t, y) \/ x.status \in Forward
<1>1. x \in TaskRecord /\ now \in Nat /\ LimitOf(t) \in Nat
  BY TaskRelease DEF RecordsOK, ReleaseRecord, Policy, LimitOf
<1> HIDE DEF x
<1>2. ASSUME NEW a \in Caller, StartTask(t, a)
      PROVE  \E y \in TaskRecord : WireEffect(y)
  <2> DEFINE y == WithStatus(x, "installing", now)
  <2>1. UpdateOnly(t, y) /\ x.status \in Forward
    BY <1>2 DEF StartTask, CanTransition, ValidTransition, TaskTransitions, Forward, x
  <2>2. y \in TaskRecord /\ y.status = "installing" /\ SameLease(x, y)
    BY <1>1, StatusNames, WithStatusFields
  <2> HIDE DEF y
  <2>3. QED
    BY <2>1, <2>2 DEF WireChange, Advanced, Updates
<1>3. ASSUME NEW a \in Caller, RejectTask(t, a)
      PROVE  \E y \in TaskRecord : WireEffect(y)
  <2> DEFINE y == ScheduleRetry(x, now, LimitOf(t))
  <2>1. UpdateOnly(t, y)
    BY <1>3 DEF RejectTask, LimitOf, x
  <2>2. /\ y \in TaskRecord
        /\ y.status = IF x.attempts > LimitOf(t) THEN "failed" ELSE "rejected"
        /\ LeaseFreed(x, y)
    BY <1>1, ScheduleRetryFields
  <2> HIDE DEF y
  <2>3. x.attempts \in Nat
    BY <1>1 DEF TaskRecord
  <2>4. GivenUp(x, y, LimitOf(t))
    BY <1>1, <2>2, <2>3 DEF GivenUp, LeaseFreed
  <2>5. QED
    BY <2>1, <2>2, <2>4 DEF WireChange, Updates
<1>4. ASSUME NEW a \in Caller, NEW done \in BOOLEAN, ReportProgress(t, a, done)
      PROVE  \E y \in TaskRecord : WireEffect(y)
  <2> DEFINE s == IF done THEN "awaiting-confirmation" ELSE x.status
             y == WithStatus(x, s, now)
  <2>1. UpdateOnly(t, y) /\ x.status \in {"installing", "awaiting-confirmation"}
    BY <1>4 DEF ReportProgress, x
  <2>2. s \in TaskStatus /\ s \in {"installing", "awaiting-confirmation"}
    BY <2>1, StatusNames
  <2> HIDE DEF s
  <2>3. y \in TaskRecord /\ y.status = s /\ SameLease(x, y)
    BY <1>1, <2>2, WithStatusFields
  <2> HIDE DEF y
  <2>4. QED
    BY <2>1, <2>2, <2>3 DEF WireChange, Advanced, Updates, Forward
<1>5. ASSUME RetryTask(t)
      PROVE  \E y \in TaskRecord : WireEffect(y)
  <2> DEFINE y == RetryAt(WithStatus(x, "queued", now), now)
  <2>1. /\ UpdateOnly(t, y)
        /\ x.status \in {"failed", "rejected"} /\ x.attempts <= LimitOf(t)
    BY <1>5 DEF RetryTask, LimitOf, x
  <2>2. y \in TaskRecord /\ y.status = "queued" /\ SameLease(x, y)
    <3> DEFINE z == WithStatus(x, "queued", now)
    <3>1. z \in TaskRecord /\ z.status = "queued" /\ SameLease(x, z)
      BY <1>1, StatusNames, WithStatusFields
    <3>2. y \in TaskRecord /\ y.status = z.status /\ SameLease(z, y)
      BY <1>1, <3>1, RetryAtFields
    <3> HIDE DEF y, z
    <3>3. QED
      BY <3>1, <3>2 DEF SameLease
  <2> HIDE DEF y
  <2>3. Requeued(x, y, LimitOf(t))
    BY <2>1, <2>2 DEF Requeued, SameLease
  <2>4. QED
    BY <2>1, <2>2, <2>3 DEF WireChange, Updates
<1>6. ASSUME AckTask(t)
      PROVE  \E y \in TaskRecord : WireEffect(y)
  <2> DEFINE y == WithStatus(x, "installing", now)
  <2>1. UpdateAndReconcile(t, y) /\ x.status \in Forward
    BY <1>6 DEF AckTask, Forward, x
  <2>2. y \in TaskRecord /\ y.status = "installing" /\ SameLease(x, y)
    BY <1>1, StatusNames, WithStatusFields
  <2> HIDE DEF y
  <2>3. QED
    BY <2>1, <2>2 DEF WireChange, Advanced, Updates
<1>7. ASSUME CompleteTask(t)
      PROVE  \E y \in TaskRecord : WireEffect(y)
  <2> DEFINE y == Settle(x, "completed", now)
  <2>1. UpdateAndReconcile(t, y) /\ x.status \in {"installing", "awaiting-confirmation"}
    BY <1>7 DEF CompleteTask, x
  <2>2. y \in TaskRecord /\ y.status = "completed" /\ LeaseFreed(x, y)
    BY <1>1, StatusNames, SettleFields
  <2> HIDE DEF y
  <2>3. QED
    BY <2>1, <2>2 DEF WireChange, Finished, Updates, Forward
<1>8. QED
  BY <1>2, <1>3, <1>4, <1>5, <1>6, <1>7 DEF WireReport, x

(* Every report of the exported API is a Change of its task. *)
LEMMA Reports ==
  ASSUME RecordsOK, NEW t \in DOMAIN tasks, WireReport(t) \/ LibraryReport(t)
  PROVE  \E y \in TaskRecord : Updates(t, y) /\ Change(tasks[t], y, LimitOf(t))
<1> DEFINE x == tasks[t]
<1>1. /\ x \in TaskRecord /\ now \in Nat /\ now # 0 /\ LimitOf(t) \in Nat
      /\ \A ttl \in TTLs : ttl \in Nat \ {0}
  BY TaskRelease, ServiceAssumption DEF RecordsOK, ReleaseRecord, Policy, LimitOf
<1> HIDE DEF x
<1>2. CASE WireReport(t)
  BY <1>2, WireReports DEF Change, x
<1>3. ASSUME NEW a \in Caller, NEW ttl \in TTLs, RenewLease(t, a, ttl)
      PROVE  \E y \in TaskRecord : Updates(t, y) /\ Change(x, y, LimitOf(t))
  <2> DEFINE y == Renew(x, now, ttl)
  <2>1. /\ UpdateOnly(t, y) /\ IsActive(x)
        /\ x.leaseUntil # ZeroTime => now <= x.leaseUntil
    BY <1>3 DEF RenewLease, VerifyLease, x
  <2>2. /\ y \in TaskRecord /\ y.status = x.status
        /\ y.leaseOwner = x.leaseOwner /\ y.leaseUntil = now + ttl
        /\ y.attempts = x.attempts
    BY <1>1, RenewFields
  <2> HIDE DEF y
  <2>3. Renewed(x, y)
    BY <1>1, <2>1, <2>2 DEF Renewed, ZeroTime
  <2>4. QED
    BY <2>1, <2>2, <2>3 DEF Change, Updates
<1>4. ASSUME NEW a \in Caller, NEW retryable \in BOOLEAN, FailTask(t, a, retryable)
      PROVE  \E y \in TaskRecord : Updates(t, y) /\ Change(x, y, LimitOf(t))
  <2>1. CASE Updates(t, ScheduleRetry(x, now, LimitOf(t)))
    <3> DEFINE y == ScheduleRetry(x, now, LimitOf(t))
    <3>1. /\ y \in TaskRecord
          /\ y.status = IF x.attempts > LimitOf(t) THEN "failed" ELSE "rejected"
          /\ LeaseFreed(x, y)
      BY <1>1, ScheduleRetryFields
    <3>2. Updates(t, y)
      BY <2>1
    <3> HIDE DEF y
    <3>3. x.attempts \in Nat
      BY <1>1 DEF TaskRecord
    <3>4. GivenUp(x, y, LimitOf(t))
      BY <1>1, <3>1, <3>3 DEF GivenUp, LeaseFreed
    <3>5. QED
      BY <3>1, <3>2, <3>4 DEF Change, WireChange
  <2>2. CASE Updates(t, Settle(x, "failed", now))
    <3> DEFINE y == Settle(x, "failed", now)
    <3>1. y \in TaskRecord /\ y.status = "failed" /\ LeaseFreed(x, y)
      BY <1>1, StatusNames, SettleFields
    <3>2. Updates(t, y)
      BY <2>2
    <3> HIDE DEF y
    <3>3. QED
      BY <3>1, <3>2 DEF Change, WireChange, GivenUp
  <2>3. QED
    BY <1>4, <2>1, <2>2 DEF FailTask, Updates, LimitOf, x
<1>5. ASSUME NEW ok \in BOOLEAN, ReportPreflight(t, ok)
      PROVE  \E y \in TaskRecord : Updates(t, y) /\ Change(x, y, LimitOf(t))
  <2> DEFINE s == IF ok THEN "awaiting-confirmation" ELSE "failed"
             y == WithStatus(x, s, now)
  <2>1. UpdateAndReconcile(t, y) /\ x.status \in Forward
    BY <1>5 DEF ReportPreflight, Forward, x
  <2>2. s \in TaskStatus /\ s \in {"awaiting-confirmation", "failed"}
    BY StatusNames
  <2> HIDE DEF s
  <2>3. y \in TaskRecord /\ y.status = s /\ SameLease(x, y)
    BY <1>1, <2>2, WithStatusFields
  <2> HIDE DEF y
  <2>4. Advanced(x, y) \/ PreflightFailed(x, y)
    BY <2>1, <2>2, <2>3 DEF Advanced, PreflightFailed
  <2>5. QED
    BY <2>1, <2>3, <2>4 DEF Change, WireChange, Updates
<1>6. ASSUME NEW a \in Caller, ConfirmInstall(t, a)
      PROVE  \E y \in TaskRecord : Updates(t, y) /\ Change(x, y, LimitOf(t))
  <2> DEFINE y == Settle(x, "completed", now)
  <2>1. UpdateAndReconcile(t, y) /\ x.status = "awaiting-confirmation"
    BY <1>6 DEF ConfirmInstall, x
  <2>2. y \in TaskRecord /\ y.status = "completed" /\ LeaseFreed(x, y)
    BY <1>1, StatusNames, SettleFields
  <2> HIDE DEF y
  <2>3. QED
    BY <2>1, <2>2 DEF Change, WireChange, Finished, Updates
<1>7. ASSUME UpdateTaskReject(t)
      PROVE  \E y \in TaskRecord : Updates(t, y) /\ Change(x, y, LimitOf(t))
  <2> DEFINE z == WithStatus(x, "rejected", now)
             until == now + (x.attempts + 1) * Minute
             y == RetryAt(z, until)
  <2>1. UpdateAndReconcile(t, y)
    BY <1>7 DEF UpdateTaskReject, x
  <2>2. until \in Nat
    <3>1. x.attempts + 1 \in Nat /\ Minute \in Nat
      BY <1>1, BackoffAssumption DEF TaskRecord
    <3>2. \A m, n \in Nat : m * n \in Nat
      OBVIOUS
    <3>3. (x.attempts + 1) * Minute \in Nat
      BY <3>1, <3>2
    <3>4. QED
      BY <1>1, <3>3
  <2>3. z \in TaskRecord /\ z.status = "rejected" /\ SameLease(x, z)
    BY <1>1, StatusNames, WithStatusFields
  <2> HIDE DEF z, until
  <2>4. y \in TaskRecord /\ y.status = z.status /\ SameLease(z, y)
    BY <2>2, <2>3, RetryAtFields
  <2> HIDE DEF y
  <2>5. QED
    BY <2>1, <2>3, <2>4 DEF Change, Bounced, SameLease, Updates
<1>8. QED
  BY <1>2, <1>3, <1>4, <1>5, <1>6, <1>7 DEF LibraryReport, x

-----------------------------------------------------------------------------
(* What the other operations do *)

SamePolicies ==
  /\ DOMAIN releases' = DOMAIN releases
  /\ \A r \in DOMAIN releases : releases'[r].policy = releases[r].policy

SameTasks == DOMAIN tasks' = DOMAIN tasks

(* CreateRelease adds a queued release and its queued tasks, or some of them. *)
LEMMA CreateFacts ==
  ASSUME RecordsOK, NEW r \in ReleaseId, NEW request \in Request,
         NEW ids \in SUBSET TaskIds(r, request), CreateWith(r, request, ids)
  PROVE  /\ RecordsOK'
         /\ r \notin DOMAIN releases /\ DOMAIN releases' = DOMAIN releases \cup {r}
         /\ releases'[r].status = "queued" /\ releases'[r].policy = request
         /\ releases'[r].policy.retryLimit \in Nat
         /\ \A q \in DOMAIN releases : releases'[q] = releases[q]
         /\ DOMAIN tasks' = DOMAIN tasks \cup ids
         /\ \A t \in DOMAIN tasks : tasks'[t] = tasks[t]
         /\ \A t \in DOMAIN tasks' \ DOMAIN tasks :
              /\ ReleaseOf(t) = r
              /\ tasks'[t].status = "queued" /\ tasks'[t].leaseOwner = NoAgent
              /\ tasks'[t].leaseUntil = ZeroTime /\ tasks'[t].attempts = 0
<1> DEFINE new == [policy |-> request, status |-> "queued", createdAt |-> now,
                   completed |-> 0, failed |-> 0]
           task == [status |-> "queued", leaseOwner |-> NoAgent,
                    leaseUntil |-> ZeroTime, attempts |-> 0,
                    nextRetry |-> ZeroTime, updatedAt |-> now]
<1>1. now \in Nat /\ now' = now /\ devices' = devices
  BY DEF RecordsOK, CreateWith
<1>2. request \in Policy /\ request.devices # << >>
  BY ServiceAssumption DEF CreateWith, ValidRequest, Policy
<1>3. new \in ReleaseRecord
  BY <1>1, <1>2 DEF ReleaseRecord, UsedReleaseStatus
<1>4. task \in TaskRecord
  BY <1>1, StatusNames DEF TaskRecord, Caller, ZeroTime
<1>5. new.policy = request /\ new.status = "queued"
  OBVIOUS
<1>6. /\ task.status = "queued" /\ task.leaseOwner = NoAgent
      /\ task.leaseUntil = ZeroTime /\ task.attempts = 0
  OBVIOUS
<1>7. /\ r \notin DOMAIN releases
      /\ releases' = Put(releases, r, new)
      /\ tasks' = [t \in DOMAIN tasks \cup ids |->
                    IF t \in DOMAIN tasks THEN tasks[t] ELSE task]
  BY DEF CreateWith
<1> HIDE DEF new, task
<1>8. /\ DOMAIN releases' = DOMAIN releases \cup {r}
      /\ releases'[r] = new
      /\ \A q \in DOMAIN releases : releases'[q] = releases[q]
      /\ releases' \in [DOMAIN releases' -> ReleaseRecord]
  BY <1>3, <1>7 DEF Put, RecordsOK
<1>9. /\ DOMAIN tasks' = DOMAIN tasks \cup ids
      /\ \A t \in DOMAIN tasks : tasks'[t] = tasks[t]
      /\ \A t \in DOMAIN tasks' \ DOMAIN tasks :
           tasks'[t] = task /\ t \in TaskIds(r, request)
      /\ tasks' \in [DOMAIN tasks' -> TaskRecord]
  BY <1>4, <1>7 DEF RecordsOK
<1>10. DOMAIN tasks' \subseteq
         UNION {TaskIds(q, releases'[q].policy) : q \in DOMAIN releases'}
  <2>1. DOMAIN tasks \subseteq UNION {TaskIds(q, releases[q].policy) : q \in DOMAIN releases}
    BY DEF RecordsOK
  <2>2. TaskIds(r, releases'[r].policy) = TaskIds(r, request)
    BY <1>5, <1>8
  <2>3. \A q \in DOMAIN releases :
          TaskIds(q, releases'[q].policy) = TaskIds(q, releases[q].policy)
    BY <1>8
  <2>4. ASSUME NEW t \in DOMAIN tasks'
        PROVE  \E q \in DOMAIN releases' : t \in TaskIds(q, releases'[q].policy)
    <3>1. \/ \E q \in DOMAIN releases : t \in TaskIds(q, releases[q].policy)
          \/ t \in TaskIds(r, request)
      BY <1>9, <2>1
    <3>2. QED
      BY <1>8, <2>2, <2>3, <3>1
  <2>5. QED
    BY <2>4
<1>11. \A q \in DOMAIN releases' : releases'[q].policy.devices # << >>
  BY <1>2, <1>5, <1>8 DEF RecordsOK
<1>12. DOMAIN releases' \subseteq ReleaseId
  BY <1>8 DEF RecordsOK
<1>13. RecordsOK'
  BY <1>1, <1>8, <1>9, <1>10, <1>11, <1>12 DEF RecordsOK
<1>14. \A t \in TaskIds(r, request) : ReleaseOf(t) = r
  BY DEF TaskIds, ReleaseOf
<1>15. releases'[r].policy.retryLimit \in Nat
  BY <1>2, <1>5, <1>8 DEF Policy
<1>16. QED
  BY <1>5, <1>6, <1>7, <1>8, <1>9, <1>13, <1>14, <1>15

\* A claim, whether it gets to the release or not.
LeasesOne(d, a, ttl) == ClaimWithTTL(d, a, ttl) \/ CutClaim(d, a, ttl)

(* A claim leases one task of a release that is neither terminal, nor paused,  *)
(* nor rolling back.                                                           *)
LEMMA ClaimFacts ==
  ASSUME RecordsOK, NEW d \in Device, NEW a \in Caller, NEW ttl \in TTLs,
         LeasesOne(d, a, ttl)
  PROVE  /\ RecordsOK' /\ SamePolicies /\ SameTasks
         /\ \A r \in DOMAIN releases :
              /\ releases'[r].completed = releases[r].completed
              /\ \/ releases'[r].status = releases[r].status
                 \/ releases[r].status = "queued" /\ releases'[r].status = "preflight"
         /\ \E t \in DOMAIN tasks :
              /\ tasks[t].status \in {"queued", "rejected"} /\ a # NoAgent
              /\ releases[ReleaseOf(t)].status \notin TerminalRelease
              /\ tasks'[t].status = "leased" /\ tasks'[t].leaseOwner = a
              /\ tasks'[t].leaseUntil # ZeroTime /\ tasks'[t].leaseUntil > now
              /\ tasks'[t].attempts = tasks[t].attempts + 1
              /\ \A u \in DOMAIN tasks \ {t} : tasks'[u] = tasks[u]
<1>1. PICK t \in DOMAIN tasks :
        /\ t \in EligibleTasks(d) /\ CanLease(tasks[t], a, now)
        /\ tasks' = [tasks EXCEPT ![t] = Lease(tasks[t], a, now, ttl)]
        /\ UNCHANGED <<now, devices>>
        /\ \/ releases' = releases
           \/ releases' = [releases EXCEPT ![ReleaseOf(t)].status =
                              IF releases[ReleaseOf(t)].status = "queued" THEN "preflight"
                              ELSE releases[ReleaseOf(t)].status]
  BY DEF LeasesOne, ClaimWithTTL, CutClaim, LeaseFirst, FirstEligible
<1> DEFINE x == tasks[t]
           y == Lease(x, a, now, ttl)
           r == ReleaseOf(t)
           moved == IF releases[r].status = "queued" THEN "preflight"
                    ELSE releases[r].status
<1>2. /\ x.status \in {"queued", "rejected"} /\ a # NoAgent
      /\ releases[r].status \notin TerminalRelease
  BY <1>1 DEF EligibleTasks, CanLease, DispatchAllowed
<1>3. r \in DOMAIN releases /\ releases[r] \in ReleaseRecord
  BY TaskRelease
<1>4. x \in TaskRecord /\ now \in Nat /\ now # 0 /\ ttl \in Nat \ {0}
  BY TaskRelease, ServiceAssumption DEF RecordsOK
<1> HIDE DEF x
<1>5. /\ y \in TaskRecord /\ y.status = "leased" /\ y.leaseOwner = a
      /\ y.leaseUntil = now + ttl /\ y.attempts = x.attempts + 1
  <2>1. y \in TaskRecord
    BY <1>4, LeaseFields
  <2>2. /\ y.status = "leased" /\ y.leaseOwner = a
        /\ y.leaseUntil = now + ttl /\ y.attempts = x.attempts + 1
    BY DEF Lease
  <2>3. QED
    BY <2>1, <2>2
<1>6. releases \in [DOMAIN releases -> ReleaseRecord]
  BY DEF RecordsOK
<1>7. PICK s \in UsedReleaseStatus :
        /\ SetStatus(r, s)
        /\ \/ s = releases[r].status
           \/ releases[r].status = "queued" /\ s = "preflight"
  <2>1. CASE releases' = releases
    <3>1. releases' = [releases EXCEPT ![r].status = releases[r].status]
      BY <1>3, <1>6, <2>1 DEF ReleaseRecord
    <3>2. QED
      BY <1>3, <3>1 DEF SetStatus, ReleaseRecord
  <2>2. CASE releases' = [releases EXCEPT ![r].status = moved]
    BY <1>3, <2>2 DEF SetStatus, ReleaseRecord, UsedReleaseStatus
  <2>3. QED
    BY <1>1, <2>1, <2>2
<1> HIDE DEF y
<1>8. /\ tasks' \in [DOMAIN tasks -> TaskRecord]
      /\ tasks'[t] = y /\ \A u \in DOMAIN tasks \ {t} : tasks'[u] = tasks[u]
  BY <1>1, <1>5 DEF RecordsOK, x, y
<1>9. /\ RecordsOK' /\ SamePolicies
      /\ \A q \in DOMAIN releases :
           /\ releases'[q].completed = releases[q].completed
           /\ releases'[q].status = IF q = r THEN s ELSE releases[q].status
  BY <1>1, <1>3, <1>7, <1>8, StatusFacts DEF SamePolicies
<1>10. y.leaseUntil # ZeroTime /\ y.leaseUntil > now
  BY <1>4, <1>5 DEF ZeroTime
<1>11. QED
  BY <1>2, <1>5, <1>7, <1>8, <1>9, <1>10 DEF x, SameTasks

(* ClaimRollback takes up one rollback-queued task. *)
LEMMA ClaimRollbackFacts ==
  ASSUME RecordsOK, NEW d \in Device, NEW a \in Caller, ClaimRollback(d, a)
  PROVE  \E t \in DOMAIN tasks, y \in TaskRecord :
           UpdateOnly(t, y) /\ RollbackStarted(tasks[t], y)
<1>1. PICK t \in RollbackQueue(d) :
        UpdateOnly(t, WithStatus(Lease(tasks[t], a, now, LeaseTTL), "rolling-back", now))
  BY DEF ClaimRollback
<1> DEFINE x == tasks[t]
           z == Lease(x, a, now, LeaseTTL)
           y == WithStatus(z, "rolling-back", now)
<1>2. /\ t \in DOMAIN tasks /\ x \in TaskRecord
      /\ x.status = "rollback-queued"
  BY TaskRelease DEF RollbackQueue
<1>3. now \in Nat /\ now # 0 /\ LeaseTTL \in Nat \ {0}
  BY ServiceAssumption DEF RecordsOK
<1> HIDE DEF x
<1>4. /\ z \in TaskRecord
      /\ z.leaseUntil = now + LeaseTTL /\ z.attempts = x.attempts + 1
  BY <1>2, <1>3, LeaseFields
<1> HIDE DEF z
<1>5. /\ y \in TaskRecord
      /\ y.status = "rolling-back" /\ SameLease(z, y)
  <2>1. z \in TaskRecord
    BY <1>4
  <2>2. QED
    BY <1>3, <2>1, StatusNames, WithStatusFields
<1>6. UpdateOnly(t, y)
  BY <1>1 DEF x, z
<1> HIDE DEF y
<1>7. y.leaseUntil # ZeroTime /\ y.leaseUntil > now
  BY <1>3, <1>4, <1>5 DEF SameLease, ZeroTime
<1>8. y.attempts = x.attempts + 1
  BY <1>4, <1>5 DEF SameLease
<1>9. QED
  BY <1>2, <1>5, <1>6, <1>7, <1>8 DEF RollbackStarted, x

(* The calls of a release manager that only move a release's status. *)
ReleaseMove(r) ==
  PauseRelease(r) \/ ResumeRelease(r) \/ RollbackRelease(r) \/ RequestRollback(r)

LEMMA MoveFacts ==
  ASSUME RecordsOK, NEW r \in ReleaseId, ReleaseMove(r)
  PROVE  /\ RecordsOK' /\ SamePolicies /\ tasks' = tasks
         /\ \A q \in DOMAIN releases :
              /\ releases'[q].completed = releases[q].completed
              /\ \/ releases'[q].status = releases[q].status
                 \/ releases'[q].status \in {"paused", "queued", "rollback-pending"}
<1>1. r \in DOMAIN releases /\ tasks' = tasks /\ UNCHANGED <<now, devices>>
  BY DEF ReleaseMove, PauseRelease, ResumeRelease, RollbackRelease, RequestRollback
<1>2. tasks \in [DOMAIN tasks -> TaskRecord] /\ releases \in [DOMAIN releases -> ReleaseRecord]
  BY DEF RecordsOK
<1>3. ASSUME NEW s \in {"paused", "queued", "rollback-pending"}, SetStatus(r, s)
      PROVE  /\ RecordsOK' /\ SamePolicies
             /\ \A q \in DOMAIN releases :
                  /\ releases'[q].completed = releases[q].completed
                  /\ \/ releases'[q].status = releases[q].status
                     \/ releases'[q].status \in {"paused", "queued", "rollback-pending"}
  <2>1. s \in UsedReleaseStatus
    BY DEF UsedReleaseStatus
  <2>2. QED
    BY <1>1, <1>2, <1>3, <2>1, StatusFacts DEF SamePolicies
<1>4. CASE RequestRollback(r)
  <2> DEFINE new == [releases[r] EXCEPT !.status = "rollback-pending",
                                        !.failed = releases[r].failed + 1]
  <2>1. releases' = [releases EXCEPT ![r] = new]
    BY <1>1, <1>4 DEF RequestRollback
  <2>2. releases[r].failed + 1 \in Nat
    BY <1>1, <1>2 DEF ReleaseRecord
  <2>3. /\ new \in ReleaseRecord
        /\ new.policy = releases[r].policy /\ new.completed = releases[r].completed
        /\ new.status = "rollback-pending"
    BY <1>1, <1>2, <2>2 DEF ReleaseRecord, UsedReleaseStatus
  <2> HIDE DEF new
  <2>4. /\ releases' \in [DOMAIN releases -> ReleaseRecord]
        /\ \A q \in DOMAIN releases :
             /\ releases'[q].policy = releases[q].policy
             /\ releases'[q].completed = releases[q].completed
             /\ \/ releases'[q].status = releases[q].status
                \/ releases'[q].status \in {"paused", "queued", "rollback-pending"}
    BY <1>2, <2>1, <2>3
  <2>5. RecordsOK'
    BY <1>1, <1>2, <2>4, TypeStep DEF RecordsOK
  <2>6. QED
    BY <1>1, <2>4, <2>5 DEF SamePolicies
<1>5. QED
  BY <1>1, <1>3, <1>4 DEF ReleaseMove, PauseRelease, ResumeRelease, RollbackRelease

(* QueueRollback takes settled tasks of a release that has not ended. *)
LEMMA QueueRollbackFacts ==
  ASSUME RecordsOK, NEW r \in DOMAIN releases, NEW taken \in SUBSET Revertible(r),
         QueueTasks(r, taken)
  PROVE  /\ RecordsOK' /\ SamePolicies /\ SameTasks
         /\ releases[r].status \notin TerminalRelease
         /\ \A q \in DOMAIN releases :
              /\ releases'[q].completed = releases[q].completed
              /\ releases'[q].status =
                   IF q = r THEN "rollback-pending" ELSE releases[q].status
         /\ \A t \in DOMAIN tasks :
              \/ tasks'[t] = tasks[t]
              \/ /\ ReleaseOf(t) = r /\ tasks[t].status \in {"completed", "failed"}
                 /\ tasks'[t].status = "rollback-queued"
                 /\ LeaseFreed(tasks[t], tasks'[t])
<1> DEFINE queued(t) == Settle(tasks[t], "rollback-queued", now)
<1>1. now \in Nat
  BY DEF RecordsOK
<1>2. ASSUME NEW t \in DOMAIN tasks
      PROVE  /\ queued(t) \in TaskRecord /\ queued(t).status = "rollback-queued"
             /\ LeaseFreed(tasks[t], queued(t))
  <2> DEFINE x == tasks[t]
  <2>1. x \in TaskRecord
    BY TaskRelease
  <2> HIDE DEF x
  <2>2. LET y == Settle(x, "rollback-queued", now) IN
        y \in TaskRecord /\ y.status = "rollback-queued" /\ LeaseFreed(x, y)
    BY <1>1, <2>1, StatusNames, SettleFields
  <2>3. QED
    BY <2>2 DEF x
<1>3. /\ tasks' = [t \in DOMAIN tasks |-> IF t \in taken THEN queued(t) ELSE tasks[t]]
      /\ \A t \in taken :
           ReleaseOf(t) = r /\ tasks[t].status \in {"completed", "failed"}
  BY DEF QueueTasks, Revertible, TasksOf
<1> HIDE DEF queued
<1>4. tasks \in [DOMAIN tasks -> TaskRecord]
  BY DEF RecordsOK
<1>5. tasks' \in [DOMAIN tasks -> TaskRecord]
  BY <1>2, <1>3, <1>4
<1>6. /\ SameTasks
      /\ \A t \in DOMAIN tasks :
           \/ tasks'[t] = tasks[t]
           \/ /\ ReleaseOf(t) = r /\ tasks[t].status \in {"completed", "failed"}
              /\ tasks'[t].status = "rollback-queued"
              /\ LeaseFreed(tasks[t], tasks'[t])
  BY <1>2, <1>3 DEF SameTasks
<1>7. /\ releases[r].status \notin TerminalRelease
      /\ SetStatus(r, "rollback-pending") /\ UNCHANGED <<now, devices>>
  BY DEF QueueTasks, ValidReleaseTransition, ReleaseTransitions, TerminalRelease
<1>8. "rollback-pending" \in UsedReleaseStatus
  BY DEF UsedReleaseStatus
<1>9. QED
  BY <1>5, <1>6, <1>7, <1>8, StatusFacts DEF SamePolicies

\* The end of a rollback, whether the call gets to the release or not.
EndsRollback(t, a) == CompleteRollback(t, a) \/ CutRollback(t, a)

(* CompleteRollback ends one rollback, and with the last one the release. *)
LEMMA CompleteRollbackFacts ==
  ASSUME RecordsOK, NEW t \in DOMAIN tasks, NEW a \in Caller, EndsRollback(t, a)
  PROVE  /\ RecordsOK' /\ SamePolicies /\ SameTasks
         /\ tasks[t].status = "rolling-back"
         /\ tasks'[t].status = "rolled-back" /\ LeaseFreed(tasks[t], tasks'[t])
         /\ \A u \in DOMAIN tasks \ {t} : tasks'[u] = tasks[u]
         /\ \A q \in DOMAIN releases :
              /\ releases'[q].completed = releases[q].completed
              /\ \/ releases'[q].status = releases[q].status
                 \/ /\ releases'[q].status = "rolled-back"
                    /\ \A u \in TasksOf(q) : tasks'[u].status \in RollbackSettled
<1> DEFINE x == tasks[t]
           y == Settle(x, "rolled-back", now)
           r == ReleaseOf(t)
           over == /\ \A u \in TasksOf(r) : tasks'[u].status \in RollbackSettled
                   /\ ValidReleaseTransition(releases[r].status, "rolled-back")
<1>1. x \in TaskRecord /\ now \in Nat /\ releases \in [DOMAIN releases -> ReleaseRecord]
  BY TaskRelease DEF RecordsOK
<1>2. r \in DOMAIN releases /\ releases[r] \in ReleaseRecord
  BY TaskRelease
<1>3. RollBack(t, a)
  BY DEF EndsRollback, CompleteRollback, CutRollback
<1>4. /\ x.status = "rolling-back"
      /\ tasks' = [tasks EXCEPT ![t] = y] /\ UNCHANGED <<now, devices>>
  BY <1>3 DEF RollBack, CanTransition, ValidTransition, TaskTransitions
<1>5. PICK s \in UsedReleaseStatus :
        /\ SetStatus(r, s)
        /\ \/ s = releases[r].status
           \/ s = "rolled-back" /\ over
  <2>1. CASE CompleteRollback(t, a)
    BY <1>2, <2>1 DEF CompleteRollback, ReleaseRecord, UsedReleaseStatus
  <2>2. CASE CutRollback(t, a)
    <3>1. releases' = [releases EXCEPT ![r].status = releases[r].status]
      BY <1>1, <1>2, <2>2 DEF CutRollback, ReleaseRecord
    <3>2. QED
      BY <1>2, <3>1 DEF SetStatus, ReleaseRecord
  <2>3. QED
    BY <2>1, <2>2 DEF EndsRollback
<1> HIDE DEF x
<1>6. y \in TaskRecord /\ y.status = "rolled-back" /\ LeaseFreed(x, y)
  BY <1>1, StatusNames, SettleFields
<1> HIDE DEF y
<1>7. /\ tasks' \in [DOMAIN tasks -> TaskRecord] /\ SameTasks
      /\ tasks'[t] = y /\ \A u \in DOMAIN tasks \ {t} : tasks'[u] = tasks[u]
  BY <1>4, <1>6 DEF RecordsOK, SameTasks
<1>8. /\ RecordsOK' /\ SamePolicies
      /\ \A q \in DOMAIN releases :
           /\ releases'[q].completed = releases[q].completed
           /\ releases'[q].status = IF q = r THEN s ELSE releases[q].status
  BY <1>2, <1>4, <1>5, <1>7, StatusFacts DEF SamePolicies
<1>9. QED
  BY <1>4, <1>5, <1>6, <1>7, <1>8 DEF x

(* The reaper frees every expired task, and sends it back or fails it. *)
LEMMA ReapFacts ==
  ASSUME RecordsOK, ReapExpired
  PROVE  /\ RecordsOK' /\ SamePolicies /\ SameTasks
         /\ \A r \in DOMAIN releases :
              \/ releases'[r] = releases[r]
              \/ /\ \E t \in Expired : ReleaseOf(t) = r
                 /\ releases'[r] = Reconciled(r, tasks')
         /\ \A t \in DOMAIN tasks :
              \/ tasks'[t] = tasks[t]
              \/ /\ IsActive(tasks[t]) /\ LeaseExpired(tasks[t], now)
                 /\ LeaseFreed(tasks[t], tasks'[t])
                 /\ \/ /\ tasks[t].status = "rolling-back"
                       /\ tasks'[t].status = "rollback-queued"
                    \/ tasks'[t].status = "failed"
                    \/ tasks'[t].status = "queued" /\ tasks[t].attempts <= LimitOf(t)
<1>1. now \in Nat /\ tasks \in [DOMAIN tasks -> TaskRecord]
  BY DEF RecordsOK
<1>2. ASSUME NEW t \in DOMAIN tasks
      PROVE  /\ Reaped(t) \in TaskRecord
             /\ LeaseFreed(tasks[t], Reaped(t))
             /\ \/ /\ tasks[t].status = "rolling-back"
                   /\ Reaped(t).status = "rollback-queued"
                \/ Reaped(t).status = "failed"
                \/ Reaped(t).status = "queued" /\ tasks[t].attempts <= LimitOf(t)
  <2> DEFINE x == tasks[t]
             z == Settle(x, "queued", now)
             until == now + x.attempts * Minute
  <2>1. x \in TaskRecord /\ x.attempts \in Nat /\ LimitOf(t) \in Nat
    BY TaskRelease DEF TaskRecord, LimitOf, ReleaseRecord, Policy
  <2>2. Reaped(t) = IF x.status = "rolling-back" THEN Settle(x, "rollback-queued", now)
                    ELSE IF x.attempts > LimitOf(t) THEN Settle(x, "failed", now)
                    ELSE RetryAt(z, until)
    BY DEF Reaped, LimitOf
  <2>3. until \in Nat
    <3>1. \A m, n \in Nat : m * n \in Nat
      OBVIOUS
    <3>2. x.attempts * Minute \in Nat
      BY <2>1, <3>1, BackoffAssumption
    <3>3. QED
      BY <1>1, <3>2
  <2> HIDE DEF x, until
  <2>4. ASSUME NEW s \in {"rollback-queued", "failed", "queued"}
        PROVE  /\ Settle(x, s, now) \in TaskRecord /\ Settle(x, s, now).status = s
               /\ LeaseFreed(x, Settle(x, s, now))
    <3>1. s \in TaskStatus
      BY StatusNames
    <3>2. QED
      BY <1>1, <2>1, <3>1, SettleFields
  <2>5. z \in TaskRecord /\ z.status = "queued" /\ LeaseFreed(x, z)
    BY <2>4
  <2> HIDE DEF z
  <2>6. LET y == RetryAt(z, until) IN
        y \in TaskRecord /\ y.status = "queued" /\ SameLease(z, y)
    BY <2>3, <2>5, RetryAtFields
  <2>7. LeaseFreed(x, RetryAt(z, until))
    BY <2>5, <2>6 DEF LeaseFreed, SameLease
  <2>8. /\ Reaped(t) \in TaskRecord
        /\ LeaseFreed(x, Reaped(t))
        /\ \/ x.status = "rolling-back" /\ Reaped(t).status = "rollback-queued"
           \/ Reaped(t).status = "failed"
           \/ Reaped(t).status = "queued" /\ x.attempts <= LimitOf(t)
    BY <2>1, <2>2, <2>4, <2>6, <2>7
  <2>9. QED
    BY <2>8 DEF x
<1>3. tasks' = [t \in DOMAIN tasks |-> IF t \in Expired THEN Reaped(t) ELSE tasks[t]]
  BY DEF ReapExpired
<1>4. tasks' \in [DOMAIN tasks -> TaskRecord] /\ SameTasks
  BY <1>1, <1>2, <1>3 DEF SameTasks
<1>5. \A r \in DOMAIN releases :
        Reconciled(r, tasks') \in ReleaseRecord
        /\ Reconciled(r, tasks').policy = releases[r].policy
  BY <1>4, ReconciledFacts
<1>6. /\ releases' \in [DOMAIN releases -> ReleaseRecord]
      /\ \A r \in DOMAIN releases :
           /\ releases'[r].policy = releases[r].policy
           /\ \/ releases'[r] = releases[r]
              \/ /\ \E t \in Expired : ReleaseOf(t) = r
                 /\ releases'[r] = Reconciled(r, tasks')
  BY <1>5 DEF ReapExpired, RecordsOK
<1>7. UNCHANGED <<now, devices>>
  BY DEF ReapExpired
<1>8. RecordsOK'
  BY <1>4, <1>6, <1>7, TypeStep DEF RecordsOK
<1>9. \A t \in Expired : IsActive(tasks[t]) /\ LeaseExpired(tasks[t], now)
  BY DEF Expired
<1>10. QED
  BY <1>2, <1>3, <1>4, <1>6, <1>8, <1>9 DEF SamePolicies

-----------------------------------------------------------------------------
(* The kinds of step *)

\* Steps of whole calls and of calls cut short.
AnyStep     == Next \/ CutNext \/ CutQueueNext
AnyWireStep == WireNext \/ CutWireNext \/ CutQueueNext

WholeCreateStep == \E r \in ReleaseId, request \in Request : CreateRelease(r, request)
CreateStep ==
  \E r \in ReleaseId, request \in Request :
    \E ids \in SUBSET TaskIds(r, request) : CreateWith(r, request, ids)
MoveStep     == \E r \in ReleaseId : ReleaseMove(r)
QueueStep ==
  \E r \in DOMAIN releases : \E taken \in SUBSET Revertible(r) : QueueTasks(r, taken)
ClaimStep    == \E d \in Device, a \in Caller, ttl \in TTLs : LeasesOne(d, a, ttl)
RollbackStep == \E t \in DOMAIN tasks, a \in Caller : EndsRollback(t, a)
QuietStep    == RecordsOK' /\ releases' = releases /\ tasks' = tasks

\* A routed call reconciles only after a change of work in flight.
WireUpdate ==
  \E t \in DOMAIN tasks, y \in TaskRecord :
    /\ Updates(t, y) /\ WireChange(tasks[t], y, LimitOf(t))
    /\ UpdateOnly(t, y) \/ tasks[t].status \in Forward

Update ==
  \E t \in DOMAIN tasks, y \in TaskRecord :
    Updates(t, y) /\ Change(tasks[t], y, LimitOf(t))

(* The clock and the devices leave releases and tasks alone. *)
LEMMA QuietSteps ==
  ASSUME RecordsOK,
         \/ Tick
         \/ \E d \in Device : RegisterDevice(d)
         \/ \E d \in Device, online \in BOOLEAN : DeviceHeartbeat(d, online)
  PROVE  QuietStep
<1>1. now + 1 \in Nat \ {0}
  BY DEF RecordsOK
<1>2. releases' = releases /\ tasks' = tasks
  BY DEF Tick, RegisterDevice, DeviceHeartbeat
<1>3. CASE Tick
  BY <1>1, <1>3 DEF Tick, RecordsOK, QuietStep
<1>4. ASSUME NEW d \in Device, RegisterDevice(d)
      PROVE  QuietStep
  BY <1>2, <1>4 DEF RegisterDevice, Put, RecordsOK, QuietStep
<1>5. ASSUME NEW d \in Device, NEW online \in BOOLEAN, DeviceHeartbeat(d, online)
      PROVE  QuietStep
  BY <1>2, <1>5 DEF DeviceHeartbeat, RecordsOK, QuietStep
<1>6. QED
  BY <1>3, <1>4, <1>5

LEMMA WholeWireSteps ==
  ASSUME RecordsOK, WireNext
  PROVE  \/ WholeCreateStep \/ MoveStep \/ QueueStep \/ ClaimStep \/ WireUpdate
         \/ ReapExpired \/ QuietStep
<1>1. CASE ManagerNext
  BY <1>1 DEF ManagerNext, WholeCreateStep, MoveStep, QueueStep, ReleaseMove, QueueRollback
<1>2. CASE AgentNext
  <2>1. CASE \E d \in Device : RegisterDevice(d)
    BY <2>1, QuietSteps
  <2>2. CASE \E d \in Device, a \in Caller : Claim(d, a)
    BY <2>2, ServiceAssumption DEF Claim, ClaimStep, LeasesOne
  <2>3. CASE \E d \in Device, a \in Caller : ClaimRollback(d, a)
    BY <2>3, ClaimRollbackFacts DEF WireUpdate, Updates, WireChange
  <2>4. CASE \E t \in DOMAIN tasks : WireReport(t)
    BY <2>4, WireReports DEF WireUpdate
  <2>5. QED
    BY <1>2, <2>1, <2>2, <2>3, <2>4 DEF AgentNext, WireReport
<1>3. CASE Tick
  BY <1>3, QuietSteps
<1>4. QED
  BY <1>1, <1>2, <1>3 DEF WireNext, ServedNext

LEMMA WholeSteps ==
  ASSUME RecordsOK, Next
  PROVE  \/ WholeCreateStep \/ MoveStep \/ QueueStep \/ ClaimStep \/ Update
         \/ RollbackStep \/ ReapExpired \/ QuietStep
<1>1. CASE WireNext
  BY <1>1, WholeWireSteps DEF WireUpdate, Update, Change
<1>2. CASE LibraryNext
  <2>1. CASE \E d \in Device, online \in BOOLEAN : DeviceHeartbeat(d, online)
    BY <2>1, QuietSteps
  <2>2. CASE \E d \in Device, a \in Caller, ttl \in TTLs : ClaimWithTTL(d, a, ttl)
    BY <2>2 DEF ClaimStep, LeasesOne
  <2>3. CASE \E r \in ReleaseId : RequestRollback(r)
    BY <2>3 DEF MoveStep, ReleaseMove
  <2>4. CASE \E t \in DOMAIN tasks : LibraryReport(t)
    BY <2>4, Reports DEF Update
  <2>5. CASE \E t \in DOMAIN tasks, a \in Caller : CompleteRollback(t, a)
    BY <2>5 DEF RollbackStep, EndsRollback
  <2>6. QED
    BY <1>2, <2>1, <2>2, <2>3, <2>4, <2>5 DEF LibraryNext, LibraryReport
<1>3. QED
  BY <1>1, <1>2 DEF Next

LEMMA CreateSteps ==
  /\ WholeCreateStep => CreateStep
  /\ (\E r \in ReleaseId, request \in Request : CutCreate(r, request)) => CreateStep
<1>1. ASSUME NEW r \in ReleaseId, NEW request \in Request, CreateRelease(r, request)
      PROVE  CreateStep
  BY <1>1 DEF CreateRelease, CreateStep
<1>2. ASSUME NEW r \in ReleaseId, NEW request \in Request, CutCreate(r, request)
      PROVE  CreateStep
  <2>1. PICK n \in 0 .. Len(request.devices) - 1 : CreateWith(r, request, {r} \X (1 .. n))
    BY <1>2 DEF CutCreate
  <2>2. Len(request.devices) \in Nat
    BY ServiceAssumption
  <2>3. {r} \X (1 .. n) \subseteq TaskIds(r, request)
    BY <2>2 DEF TaskIds
  <2>4. QED
    BY <2>1, <2>3 DEF CreateStep
<1>3. QED
  BY <1>1, <1>2 DEF WholeCreateStep

LEMMA CutQueueSteps == CutQueueNext => QueueStep
BY DEF CutQueueNext, CutQueueRollback, QueueStep

(* A report cut short changes its task as the whole one does. *)
LEMMA CutReports ==
  ASSUME RecordsOK, NEW t \in DOMAIN tasks,
         \/ \E a \in Caller, retryable \in BOOLEAN : CutFail(t, a, retryable)
         \/ \E ok \in BOOLEAN : CutPreflight(t, ok)
         \/ \E a \in Caller : CutConfirm(t, a)
  PROVE  \E y \in TaskRecord : Updates(t, y) /\ Change(tasks[t], y, LimitOf(t))
<1> DEFINE x == tasks[t]
<1>1. /\ x \in TaskRecord /\ now \in Nat /\ LimitOf(t) \in Nat /\ x.attempts \in Nat
  BY TaskRelease DEF RecordsOK, ReleaseRecord, Policy, LimitOf, TaskRecord
<1> HIDE DEF x
<1>2. ASSUME NEW a \in Caller, NEW retryable \in BOOLEAN, CutFail(t, a, retryable)
      PROVE  \E y \in TaskRecord : Updates(t, y) /\ Change(x, y, LimitOf(t))
  <2>1. CASE UpdateOnly(t, ScheduleRetry(x, now, LimitOf(t)))
    <3> DEFINE y == ScheduleRetry(x, now, LimitOf(t))
    <3>1. /\ y \in TaskRecord
          /\ y.status = IF x.attempts > LimitOf(t) THEN "failed" ELSE "rejected"
          /\ LeaseFreed(x, y)
      BY <1>1, ScheduleRetryFields
    <3>2. UpdateOnly(t, y)
      BY <2>1
    <3> HIDE DEF y
    <3>3. GivenUp(x, y, LimitOf(t))
      BY <1>1, <3>1 DEF GivenUp, LeaseFreed
    <3>4. QED
      BY <3>1, <3>2, <3>3 DEF Change, WireChange, Updates
  <2>2. CASE UpdateOnly(t, Settle(x, "failed", now))
    <3> DEFINE y == Settle(x, "failed", now)
    <3>1. y \in TaskRecord /\ y.status = "failed" /\ LeaseFreed(x, y)
      BY <1>1, StatusNames, SettleFields
    <3>2. UpdateOnly(t, y)
      BY <2>2
    <3> HIDE DEF y
    <3>3. QED
      BY <3>1, <3>2 DEF Change, WireChange, GivenUp, Updates
  <2>3. QED
    BY <1>2, <2>1, <2>2 DEF CutFail, LimitOf, x
<1>3. ASSUME NEW ok \in BOOLEAN, CutPreflight(t, ok)
      PROVE  \E y \in TaskRecord : Updates(t, y) /\ Change(x, y, LimitOf(t))
  <2> DEFINE s == IF ok THEN "awaiting-confirmation" ELSE "failed"
             y == WithStatus(x, s, now)
  <2>1. UpdateOnly(t, y) /\ x.status \in {"installing", "leased"}
    BY <1>3 DEF CutPreflight, x
  <2>2. s \in TaskStatus /\ s \in {"awaiting-confirmation", "failed"}
    BY StatusNames
  <2> HIDE DEF s
  <2>3. y \in TaskRecord /\ y.status = s /\ SameLease(x, y)
    BY <1>1, <2>2, WithStatusFields
  <2> HIDE DEF y
  <2>4. QED
    BY <2>1, <2>2, <2>3
       DEF Change, WireChange, Advanced, PreflightFailed, Updates, Forward
<1>4. ASSUME NEW a \in Caller, CutConfirm(t, a)
      PROVE  \E y \in TaskRecord : Updates(t, y) /\ Change(x, y, LimitOf(t))
  <2> DEFINE y == Settle(x, "completed", now)
  <2>1. UpdateOnly(t, y) /\ x.status = "awaiting-confirmation"
    BY <1>4 DEF CutConfirm, x
  <2>2. y \in TaskRecord /\ y.status = "completed" /\ LeaseFreed(x, y)
    BY <1>1, StatusNames, SettleFields
  <2> HIDE DEF y
  <2>3. QED
    BY <2>1, <2>2 DEF Change, WireChange, Finished, Updates
<1>5. QED
  BY <1>2, <1>3, <1>4 DEF x

LEMMA WireSteps ==
  ASSUME RecordsOK, AnyWireStep
  PROVE  \/ CreateStep \/ MoveStep \/ QueueStep \/ ClaimStep \/ WireUpdate
         \/ ReapExpired \/ QuietStep
<1>1. CASE WireNext
  BY <1>1, WholeWireSteps, CreateSteps
<1>2. CASE CutWireNext
  BY <1>2, CreateSteps, ServiceAssumption DEF CutWireNext, ClaimStep, LeasesOne
<1>3. QED
  BY <1>1, <1>2, CutQueueSteps DEF AnyWireStep

LEMMA Steps ==
  ASSUME RecordsOK, AnyStep
  PROVE  \/ CreateStep \/ MoveStep \/ QueueStep \/ ClaimStep \/ Update
         \/ RollbackStep \/ ReapExpired \/ QuietStep
<1>1. CASE Next
  BY <1>1, WholeSteps, CreateSteps
<1>2. CASE CutWireNext
  BY <1>2, CreateSteps, ServiceAssumption DEF CutWireNext, ClaimStep, LeasesOne
<1>3. CASE CutLibraryNext
  <2>1. CASE \E d \in Device, a \in Caller, ttl \in TTLs : CutClaim(d, a, ttl)
    BY <2>1 DEF ClaimStep, LeasesOne
  <2>2. CASE \E t \in DOMAIN tasks, a \in Caller : CutRollback(t, a)
    BY <2>2 DEF RollbackStep, EndsRollback
  <2>3. CASE \E t \in DOMAIN tasks :
               \/ \E a \in Caller, retryable \in BOOLEAN : CutFail(t, a, retryable)
               \/ \E ok \in BOOLEAN : CutPreflight(t, ok)
               \/ \E a \in Caller : CutConfirm(t, a)
    BY <2>3, CutReports DEF Update
  <2>4. QED
    BY <1>3, <2>1, <2>2, <2>3 DEF CutLibraryNext
<1>4. QED
  BY <1>1, <1>2, <1>3, CutQueueSteps DEF AnyStep, CutNext

-----------------------------------------------------------------------------
(* Type correctness *)

LEMMA InitType == Init => RecordsOK
<1> SUFFICES ASSUME Init PROVE RecordsOK
  OBVIOUS
<1>1. now = 1 /\ releases = EmptyMap /\ devices = EmptyMap /\ tasks = EmptyMap
  BY DEF Init
<1>2. DOMAIN EmptyMap = {} /\ \A S : EmptyMap \in [{} -> S]
  BY DEF EmptyMap
<1>3. QED
  BY <1>1, <1>2 DEF RecordsOK

LEMMA StepType == RecordsOK /\ [AnyStep]_vars => RecordsOK'
<1> SUFFICES ASSUME RecordsOK, [AnyStep]_vars PROVE RecordsOK'
  OBVIOUS
<1>1. CASE CreateStep
  BY <1>1, CreateFacts DEF CreateStep
<1>2. CASE MoveStep
  BY <1>2, MoveFacts DEF MoveStep
<1>3. CASE QueueStep
  BY <1>3, QueueRollbackFacts DEF QueueStep
<1>4. CASE ClaimStep
  BY <1>4, ClaimFacts DEF ClaimStep
<1>5. CASE Update
  BY <1>5, UpdateFacts DEF Update, Updates
<1>6. CASE RollbackStep
  BY <1>6, CompleteRollbackFacts DEF RollbackStep
<1>7. CASE ReapExpired
  BY <1>7, ReapFacts
<1>8. CASE QuietStep
  BY <1>8 DEF QuietStep
<1>9. CASE UNCHANGED vars
  BY <1>9 DEF vars, RecordsOK
<1>10. QED
  BY <1>1, <1>2, <1>3, <1>4, <1>5, <1>6, <1>7, <1>8, <1>9, Steps

(* Releases are created with all of their tasks, and none is ever removed.    *)
LEMMA StepComplete == TypeOK /\ [Next]_vars => TypeOK'
<1> SUFFICES ASSUME TypeOK, [Next]_vars PROVE TypeOK'
  OBVIOUS
<1> DEFINE Full == \A r \in DOMAIN releases :
             TaskIds(r, releases[r].policy) \subseteq DOMAIN tasks
<1>1. RecordsOK /\ Full
  BY DEF TypeOK
<1>2. RecordsOK'
  BY <1>1, StepType DEF AnyStep
<1>3. SamePolicies /\ SameTasks => Full'
  BY <1>1 DEF SamePolicies, SameTasks
<1>4. CASE WholeCreateStep
  <2>1. PICK r \in ReleaseId, request \in Request :
          CreateWith(r, request, TaskIds(r, request))
    BY <1>4 DEF WholeCreateStep, CreateRelease
  <2>2. /\ DOMAIN releases' = DOMAIN releases \cup {r}
        /\ releases'[r].policy = request
        /\ \A q \in DOMAIN releases : releases'[q].policy = releases[q].policy
        /\ DOMAIN tasks' = DOMAIN tasks \cup TaskIds(r, request)
    BY <1>1, <2>1, CreateFacts
  <2>3. Full'
    BY <1>1, <2>2
  <2>4. QED
    BY <1>2, <2>3 DEF TypeOK
<1>5. CASE MoveStep
  BY <1>1, <1>2, <1>3, <1>5, MoveFacts DEF MoveStep, SameTasks, TypeOK
<1>6. CASE QueueStep
  BY <1>1, <1>2, <1>3, <1>6, QueueRollbackFacts DEF QueueStep, TypeOK
<1>7. CASE ClaimStep
  BY <1>1, <1>2, <1>3, <1>7, ClaimFacts DEF ClaimStep, TypeOK
<1>8. CASE Update
  BY <1>1, <1>2, <1>3, <1>8, UpdateFacts
     DEF Update, Updates, SamePolicies, SameTasks, TypeOK
<1>9. CASE RollbackStep
  BY <1>1, <1>2, <1>3, <1>9, CompleteRollbackFacts DEF RollbackStep, TypeOK
<1>10. CASE ReapExpired
  BY <1>1, <1>2, <1>3, <1>10, ReapFacts DEF TypeOK
<1>11. CASE QuietStep \/ UNCHANGED vars
  BY <1>1, <1>2, <1>11 DEF QuietStep, vars, TypeOK
<1>12. QED
  BY <1>1, <1>4, <1>5, <1>6, <1>7, <1>8, <1>9, <1>10, <1>11, WholeSteps

(* The records the service keeps are well formed, and it has exactly one task *)
(* per position of each release's device list, whatever is called.            *)
THEOREM TypeCorrect == Spec => []TypeOK
<1>1. Init => TypeOK
  BY InitType DEF Init, EmptyMap, TypeOK
<1>2. TypeOK /\ [Next]_vars => TypeOK'
  BY StepComplete
<1>3. QED
  BY <1>1, <1>2, PTL DEF Spec

LEMMA RecordsCorrect == Spec => []RecordsOK
<1>1. TypeOK => RecordsOK
  BY DEF TypeOK
<1>2. QED
  BY <1>1, TypeCorrect, PTL

(* The routed calls are calls of the exported API. *)
LEMMA WireIsSpec == WireSpec => Spec
<1>1. [WireNext]_vars => [Next]_vars
  BY DEF Next
<1>2. QED
  BY <1>1, PTL DEF WireSpec, Spec

-----------------------------------------------------------------------------
(* Leases *)

LeaseHeld(x) ==
  /\ IsActive(x) => x.leaseUntil # ZeroTime
  /\ x.status \in Forward => x.leaseOwner # NoAgent

(* A task whose work ends or that is taken back satisfies ActiveLeaseHeld, and *)
(* every change of a task keeps it.                                            *)
LEMMA ChangeKeepsLease ==
  ASSUME NEW x, NEW y, NEW limit, LeaseHeld(x), Change(x, y, limit)
  PROVE  LeaseHeld(y)
<1> USE DEF LeaseHeld, IsActive, ActiveStatus, Forward
<1>1. CASE Advanced(x, y)
  BY <1>1 DEF Advanced, SameLease
<1>2. CASE GivenUp(x, y, limit)
  BY <1>2 DEF GivenUp
<1>3. CASE Finished(x, y)
  BY <1>3 DEF Finished
<1>4. CASE Requeued(x, y, limit)
  BY <1>4 DEF Requeued
<1>5. CASE RollbackStarted(x, y)
  BY <1>5 DEF RollbackStarted
<1>6. CASE Renewed(x, y)
  BY <1>6 DEF Renewed
<1>7. CASE PreflightFailed(x, y) \/ Bounced(x, y)
  BY <1>7 DEF PreflightFailed, Bounced
<1>8. QED
  BY <1>1, <1>2, <1>3, <1>4, <1>5, <1>6, <1>7 DEF Change, WireChange

LEMMA ActiveLeaseStep ==
  ASSUME RecordsOK, \A t \in DOMAIN tasks : LeaseHeld(tasks[t]), [AnyStep]_vars
  PROVE  \A t \in DOMAIN tasks' : LeaseHeld(tasks'[t])
<1>1. CASE CreateStep
  BY <1>1, CreateFacts DEF CreateStep, LeaseHeld, IsActive, ActiveStatus, Forward
<1>2. CASE MoveStep \/ QuietStep \/ UNCHANGED vars
  BY <1>2, MoveFacts DEF MoveStep, QuietStep, vars
<1>3. CASE QueueStep
  BY <1>3, QueueRollbackFacts
     DEF QueueStep, SameTasks, LeaseHeld, IsActive, ActiveStatus, Forward
<1>4. CASE ClaimStep
  BY <1>4, ClaimFacts DEF ClaimStep, SameTasks, LeaseHeld
<1>5. CASE Update
  <2>1. PICK t \in DOMAIN tasks, y \in TaskRecord :
          Updates(t, y) /\ Change(tasks[t], y, LimitOf(t))
    BY <1>5 DEF Update
  <2>2. tasks' = [tasks EXCEPT ![t] = y]
    BY <2>1, UpdateFacts DEF Updates
  <2>3. LeaseHeld(y)
    BY <2>1, ChangeKeepsLease
  <2>4. QED
    BY <2>2, <2>3
<1>6. CASE RollbackStep
  BY <1>6, CompleteRollbackFacts
     DEF RollbackStep, SameTasks, LeaseHeld, IsActive, ActiveStatus, Forward
<1>7. CASE ReapExpired
  BY <1>7, ReapFacts DEF SameTasks, LeaseHeld, IsActive, ActiveStatus, Forward
<1>8. QED
  BY <1>1, <1>2, <1>3, <1>4, <1>5, <1>6, <1>7, Steps

(* Work in flight can always be taken back: it has a deadline, and forward work *)
(* an owner, through every call and every expiry.                               *)
THEOREM LeasesHeld == Spec => []ActiveLeaseHeld
<1>1. Init => ActiveLeaseHeld
  BY DEF Init, ActiveLeaseHeld, EmptyMap
<1>2. RecordsOK /\ ActiveLeaseHeld /\ [Next]_vars => ActiveLeaseHeld'
  <2> SUFFICES ASSUME RecordsOK, ActiveLeaseHeld, [Next]_vars PROVE ActiveLeaseHeld'
    OBVIOUS
  <2>1. \A t \in DOMAIN tasks : LeaseHeld(tasks[t])
    BY DEF ActiveLeaseHeld, LeaseHeld, Forward
  <2>2. \A t \in DOMAIN tasks' : LeaseHeld(tasks'[t])
    BY <2>1, ActiveLeaseStep DEF AnyStep
  <2>3. QED
    BY <2>2 DEF ActiveLeaseHeld, LeaseHeld, Forward
<1>3. QED
  BY <1>1, <1>2, RecordsCorrect, PTL DEF Spec

(* A step hands no running lease to another agent: a claim takes tasks nobody  *)
(* is at work on, and every report keeps the owner or leaves none.             *)
LEMMA TheftStep ==
  ASSUME RecordsOK, [AnyStep]_vars
  PROVE  \A t \in DOMAIN tasks :
           IsActive(tasks[t]) /\ ~LeaseExpired(tasks[t], now)
             => tasks'[t].leaseOwner \in {tasks[t].leaseOwner, NoAgent}
<1>1. CASE CreateStep
  BY <1>1, CreateFacts DEF CreateStep
<1>2. CASE MoveStep \/ QuietStep \/ UNCHANGED vars
  BY <1>2, MoveFacts DEF MoveStep, QuietStep, vars
<1>3. CASE QueueStep
  BY <1>3, QueueRollbackFacts DEF QueueStep, LeaseFreed
<1>4. CASE ClaimStep
  BY <1>4, ClaimFacts DEF ClaimStep, IsActive, ActiveStatus
<1>5. CASE Update
  <2>1. PICK t \in DOMAIN tasks, y \in TaskRecord :
          Updates(t, y) /\ Change(tasks[t], y, LimitOf(t))
    BY <1>5 DEF Update
  <2>2. tasks' = [tasks EXCEPT ![t] = y]
    BY <2>1, UpdateFacts DEF Updates
  <2>3. IsActive(tasks[t]) => y.leaseOwner \in {tasks[t].leaseOwner, NoAgent}
    BY <2>1 DEF Change, WireChange, Advanced, GivenUp, Finished, Requeued,
                RollbackStarted, Renewed, PreflightFailed, Bounced, SameLease,
                LeaseFreed, IsActive, ActiveStatus
  <2>4. QED
    BY <2>2, <2>3
<1>6. CASE RollbackStep
  BY <1>6, CompleteRollbackFacts DEF RollbackStep, LeaseFreed
<1>7. CASE ReapExpired
  BY <1>7, ReapFacts DEF LeaseFreed
<1>8. QED
  BY <1>1, <1>2, <1>3, <1>4, <1>5, <1>6, <1>7, Steps

(* A lease that still runs stays with its agent until the agent reports.       *)
THEOREM LeasesNotStolen == Spec => NoLeaseTheft
<1> DEFINE Safe == \A t \in DOMAIN tasks :
             IsActive(tasks[t]) /\ ~LeaseExpired(tasks[t], now)
               => tasks'[t].leaseOwner \in {tasks[t].leaseOwner, NoAgent}
<1>1. RecordsOK /\ [Next]_vars => [Safe]_vars
  BY TheftStep DEF AnyStep
<1>2. QED
  BY <1>1, RecordsCorrect, PTL DEF Spec, NoLeaseTheft

-----------------------------------------------------------------------------
(* The service keeps the promise of TaskLease *)

\* What a step at time now may do to the lease of a task: x before, y after.
LeaseMoves(x, y) ==
  \/ ~IsActive(y)
  \/ IsActive(x) /\ SameLease(x, y)
  \/ ~IsActive(x) /\ y.leaseUntil > now
  \/ /\ IsActive(x) /\ now <= x.leaseUntil
     /\ y.leaseOwner = x.leaseOwner /\ y.leaseUntil > now

LEMMA ChangeMovesLease ==
  ASSUME NEW x, NEW y, NEW limit, LeaseHeld(x), Change(x, y, limit)
  PROVE  LeaseMoves(x, y)
<1> USE DEF LeaseMoves, IsActive, ActiveStatus
<1>1. CASE Advanced(x, y)
  BY <1>1 DEF Advanced, Forward
<1>2. CASE \/ GivenUp(x, y, limit) \/ Finished(x, y) \/ Requeued(x, y, limit)
           \/ PreflightFailed(x, y) \/ Bounced(x, y)
  BY <1>2 DEF GivenUp, Finished, Requeued, PreflightFailed, Bounced
<1>3. CASE RollbackStarted(x, y)
  BY <1>3 DEF RollbackStarted
<1>4. CASE Renewed(x, y)
  BY <1>4 DEF Renewed, LeaseHeld
<1>5. QED
  BY <1>1, <1>2, <1>3, <1>4 DEF Change, WireChange

LEMMA StepMovesLeases ==
  ASSUME RecordsOK, ActiveLeaseHeld, [AnyStep]_vars
  PROVE  \A t \in DOMAIN tasks' :
           IF t \in DOMAIN tasks THEN LeaseMoves(tasks[t], tasks'[t])
           ELSE ~IsActive(tasks'[t])
<1> USE DEF LeaseMoves
<1>1. CASE CreateStep
  BY <1>1, CreateFacts DEF CreateStep, IsActive, ActiveStatus, SameLease
<1>2. CASE MoveStep \/ QuietStep \/ UNCHANGED vars
  BY <1>2, MoveFacts DEF MoveStep, QuietStep, vars, SameLease
<1>3. CASE QueueStep
  BY <1>3, QueueRollbackFacts DEF QueueStep, SameTasks, IsActive, ActiveStatus, SameLease
<1>4. CASE ClaimStep
  BY <1>4, ClaimFacts DEF ClaimStep, SameTasks, IsActive, ActiveStatus, SameLease
<1>5. CASE Update
  <2>1. PICK t \in DOMAIN tasks, y \in TaskRecord :
          Updates(t, y) /\ Change(tasks[t], y, LimitOf(t))
    BY <1>5 DEF Update
  <2>2. tasks' = [tasks EXCEPT ![t] = y]
    BY <2>1, UpdateFacts DEF Updates
  <2>3. LeaseHeld(tasks[t])
    BY DEF ActiveLeaseHeld, LeaseHeld, Forward
  <2>4. LeaseMoves(tasks[t], y)
    BY <2>1, <2>3, ChangeMovesLease
  <2>5. QED
    BY <2>2, <2>4 DEF SameLease
<1>6. CASE RollbackStep
  BY <1>6, CompleteRollbackFacts DEF RollbackStep, SameTasks, IsActive, ActiveStatus, SameLease
<1>7. CASE ReapExpired
  BY <1>7, ReapFacts DEF SameTasks, IsActive, ActiveStatus, SameLease
<1>8. QED
  BY <1>1, <1>2, <1>3, <1>4, <1>5, <1>6, <1>7, Steps

(* Only the clock moves the time, and it moves nothing else. *)
LEMMA ClockSteps ==
  ASSUME [AnyStep]_vars
  PROVE  now' = now \/ (Tick /\ tasks' = tasks)
<1>1. CASE ManagerNext
  BY <1>1 DEF ManagerNext, CreateRelease, CreateWith, PauseRelease, ResumeRelease,
              RollbackRelease, QueueRollback, QueueTasks
<1>2. CASE AgentNext
  BY <1>2 DEF AgentNext, RegisterDevice, Claim, ClaimWithTTL, LeaseFirst, ClaimRollback,
              StartTask, RejectTask, ReportProgress, RetryTask, AckTask, CompleteTask, UpdateOnly,
              UpdateAndReconcile
<1>3. CASE LibraryNext
  BY <1>3 DEF LibraryNext, DeviceHeartbeat, ClaimWithTTL, LeaseFirst, RequestRollback,
              RenewLease, FailTask, ReportPreflight, ConfirmInstall, CompleteRollback,
              RollBack, UpdateTaskReject, UpdateOnly, UpdateAndReconcile
<1>4. CASE Tick \/ ReapExpired \/ UNCHANGED vars
  BY <1>4 DEF Tick, ReapExpired, vars
<1>5. CASE CutNext \/ CutQueueNext
  BY <1>5 DEF CutNext, CutWireNext, CutLibraryNext, CutQueueNext, CutCreate, CutClaim,
              CutQueueRollback, CutRollback, CutFail, CutPreflight, CutConfirm,
              CreateWith, LeaseFirst, QueueTasks, RollBack, UpdateOnly
<1>6. QED
  BY <1>1, <1>2, <1>3, <1>4, <1>5 DEF AnyStep, Next, WireNext, ServedNext

LEMMA LeaseStep ==
  ASSUME RecordsOK, RecordsOK', ActiveLeaseHeld, [AnyStep]_vars
  PROVE  [LeaseSpec!Next]_<<now, [t \in TaskId |-> LeaseOn(t)]>>
<1> DEFINE lease == [t \in TaskId |-> LeaseOn(t)]
<1>1. ASSUME now' = now, NEW t \in TaskId
      PROVE  LeaseSpec!Grant(t) \/ LeaseSpec!Renew(t) \/ LeaseSpec!End(t) \/ LeaseSpec!Keep(t)
  <2>1. CASE LeaseOn(t)' = {}
    BY <2>1 DEF LeaseSpec!End
  <2>2. CASE LeaseOn(t)' # {}
    <3> DEFINE granted == [holder |-> tasks'[t].leaseOwner, until |-> tasks'[t].leaseUntil]
               current == [holder |-> tasks[t].leaseOwner, until |-> tasks[t].leaseUntil]
    <3>1. t \in DOMAIN tasks' /\ IsActive(tasks'[t]) /\ LeaseOn(t)' = {granted}
      BY <2>2 DEF LeaseOn
    <3>2. t \in DOMAIN tasks /\ LeaseMoves(tasks[t], tasks'[t])
      BY <3>1, StepMovesLeases
    <3>3. tasks'[t].leaseOwner \in Caller /\ tasks'[t].leaseUntil \in Nat
      BY <3>1 DEF RecordsOK, TaskRecord
    <3>4. CASE IsActive(tasks[t]) /\ SameLease(tasks[t], tasks'[t])
      BY <3>1, <3>2, <3>4 DEF LeaseSpec!Keep, LeaseOn, SameLease
    <3>5. CASE ~IsActive(tasks[t]) /\ tasks'[t].leaseUntil > now
      <4>1. LeaseSpec!Runs(granted)
        BY <3>3, <3>5 DEF LeaseSpec!Runs
      <4>2. LeaseOn(t) = {}
        BY <3>5 DEF LeaseOn
      <4>3. QED
        BY <3>1, <4>1, <4>2 DEF LeaseSpec!Grant
    <3>6. CASE /\ IsActive(tasks[t]) /\ now <= tasks[t].leaseUntil
               /\ tasks'[t].leaseOwner = tasks[t].leaseOwner /\ tasks'[t].leaseUntil > now
      <4>1. LeaseSpec!Runs(granted)
        BY <3>3, <3>6 DEF LeaseSpec!Runs
      <4>2. LeaseOn(t) = {current}
        BY <3>2, <3>6 DEF LeaseOn
      <4>3. granted.holder = current.holder /\ now <= current.until
        BY <3>6
      <4>4. LeaseSpec!Renew(t)
        <5> HIDE DEF granted, current
        <5>1. QED
          BY <3>1, <4>1, <4>2, <4>3 DEF LeaseSpec!Renew
      <4>5. QED
        BY <4>4
    <3>7. QED
      BY <3>1, <3>2, <3>4, <3>5, <3>6 DEF LeaseMoves
  <2>3. QED
    BY <2>1, <2>2
<1>2. CASE now' = now
  BY <1>1, <1>2 DEF LeaseSpec!Next, LeaseSpec!Call
<1>3. CASE Tick /\ tasks' = tasks
  <2>1. now' \in Nat /\ now' > now
    BY <1>3 DEF Tick, RecordsOK
  <2>2. \A t \in TaskId : LeaseOn(t)' = LeaseOn(t)
    BY <1>3 DEF LeaseOn
  <2>3. QED
    BY <2>1, <2>2 DEF LeaseSpec!Next, LeaseSpec!Clock
<1>4. QED
  BY <1>2, <1>3, ClockSteps

(* Through every call, in any order, what anyone sees of a task is one lease at *)
(* a time, granted, renewed in time by its holder, and ended: the service       *)
(* implements TaskLease.                                                        *)
THEOREM TaskLeaseImplemented == Spec => ImplementsTaskLease
<1>1. Init => LeaseSpec!Init
  BY DEF Init, EmptyMap, LeaseOn, LeaseSpec!Init
<1>2. RecordsOK /\ RecordsOK' /\ ActiveLeaseHeld /\ [Next]_vars
        => [LeaseSpec!Next]_<<now, [t \in TaskId |-> LeaseOn(t)]>>
  BY LeaseStep DEF AnyStep
<1>3. QED
  BY <1>1, <1>2, RecordsCorrect, LeasesHeld, PTL
     DEF Spec, ImplementsTaskLease, LeaseSpec!Spec

-----------------------------------------------------------------------------
(* Releases that have ended *)

Over(status, x) ==
  /\ status \in TerminalRelease => x.status \notin InFlight
  /\ status = "rolled-back" => x.status # "completed"

EndedQuiet == \A t \in DOMAIN tasks : Over(releases[ReleaseOf(t)].status, tasks[t])

LEMMA ChangeKeepsQuiet ==
  ASSUME NEW x, NEW y, NEW limit, NEW status, status \in TerminalRelease,
         Over(status, x), Change(x, y, limit)
  PROVE  Over(status, y)
<1> USE DEF Over, InFlight, ActiveStatus, Forward
<1>1. ~Advanced(x, y) /\ ~Finished(x, y) /\ ~RollbackStarted(x, y)
  BY DEF Advanced, Finished, RollbackStarted
<1>2. ~Renewed(x, y) /\ ~PreflightFailed(x, y)
  BY DEF Renewed, PreflightFailed, IsActive
<1>3. GivenUp(x, y, limit) \/ Requeued(x, y, limit) \/ Bounced(x, y)
  BY <1>1, <1>2 DEF Change, WireChange
<1>4. QED
  BY <1>3 DEF GivenUp, Requeued, Bounced

(* A release that reconcile leaves terminal was so, or has every task done. *)
LEMMA ReconciledEnd ==
  ASSUME RecordsOK, NEW r \in DOMAIN releases, SameTasks,
         releases'[r] = releases[r] \/ releases'[r] = Reconciled(r, tasks'),
         releases'[r].status \in TerminalRelease
  PROVE  \/ releases'[r].status = releases[r].status
         \/ /\ releases'[r].status = "completed"
            /\ TaskIds(r, releases[r].policy) \subseteq DOMAIN tasks
            /\ \A t \in TasksOf(r) : tasks'[t].status = "completed"
  BY ReconciledFacts DEF TerminalRelease, SameTasks

LEMMA EndedStep ==
  ASSUME RecordsOK, EndedQuiet, [AnyStep]_vars
  PROVE  EndedQuiet'
<1> USE DEF EndedQuiet
<1>1. \A t \in DOMAIN tasks : ReleaseOf(t) \in DOMAIN releases /\ t \in TasksOf(ReleaseOf(t))
  BY TaskRelease DEF TasksOf
<1>2. CASE CreateStep
  <2>0. PICK r \in ReleaseId, request \in Request :
          \E ids \in SUBSET TaskIds(r, request) : CreateWith(r, request, ids)
    BY <1>2 DEF CreateStep
  <2>1. PICK ids \in SUBSET TaskIds(r, request) : CreateWith(r, request, ids)
    BY <2>0
  <2>2. \A t \in DOMAIN tasks : Over(releases'[ReleaseOf(t)].status, tasks'[t])
    BY <1>1, <2>1, CreateFacts
  <2>3. \A t \in DOMAIN tasks' \ DOMAIN tasks :
          releases'[ReleaseOf(t)].status = "queued"
    BY <2>1, CreateFacts
  <2>4. \A t \in DOMAIN tasks' \ DOMAIN tasks : Over(releases'[ReleaseOf(t)].status, tasks'[t])
    BY <2>3 DEF Over, TerminalRelease
  <2>5. QED
    BY <2>2, <2>4
<1>3. CASE MoveStep
  <2>1. \A r \in DOMAIN releases :
          \/ releases'[r].status = releases[r].status
          \/ releases'[r].status \notin TerminalRelease
    BY <1>3, MoveFacts DEF MoveStep, TerminalRelease
  <2>2. tasks' = tasks
    BY <1>3, MoveFacts DEF MoveStep
  <2>3. QED
    BY <1>1, <2>1, <2>2 DEF Over, TerminalRelease
<1>4. CASE QueueStep
  <2>0. PICK r \in DOMAIN releases : \E taken \in SUBSET Revertible(r) : QueueTasks(r, taken)
    BY <1>4 DEF QueueStep
  <2>1. PICK taken \in SUBSET Revertible(r) : QueueTasks(r, taken)
    BY <2>0
  <2>2. ASSUME NEW t \in DOMAIN tasks
        PROVE  Over(releases'[ReleaseOf(t)].status, tasks'[t])
    <3>1. CASE ReleaseOf(t) = r
      BY <1>1, <2>1, <3>1, QueueRollbackFacts DEF Over, TerminalRelease
    <3>2. CASE ReleaseOf(t) # r
      BY <1>1, <2>1, <3>2, QueueRollbackFacts
    <3>3. QED
      BY <3>1, <3>2
  <2>3. QED
    BY <2>1, <2>2, QueueRollbackFacts DEF SameTasks
<1>5. CASE ClaimStep
  <2>1. PICK d \in Device, a \in Caller, ttl \in TTLs : LeasesOne(d, a, ttl)
    BY <1>5 DEF ClaimStep
  <2>2. PICK t \in DOMAIN tasks :
          /\ releases[ReleaseOf(t)].status \notin TerminalRelease
          /\ \A u \in DOMAIN tasks \ {t} : tasks'[u] = tasks[u]
    BY <2>1, ClaimFacts
  <2>3. \A r \in DOMAIN releases :
          \/ releases'[r].status = releases[r].status
          \/ releases'[r].status = "preflight"
    BY <2>1, ClaimFacts
  <2>4. \A u \in DOMAIN tasks : Over(releases'[ReleaseOf(u)].status, tasks'[u])
    BY <1>1, <2>2, <2>3 DEF Over, TerminalRelease
  <2>5. QED
    BY <2>1, <2>4, ClaimFacts DEF SameTasks
<1>6. CASE Update
  <2>1. PICK t \in DOMAIN tasks, y \in TaskRecord :
          Updates(t, y) /\ Change(tasks[t], y, LimitOf(t))
    BY <1>6 DEF Update
  <2>2. /\ tasks' = [tasks EXCEPT ![t] = y] /\ SameTasks
        /\ \A r \in DOMAIN releases :
             releases'[r] = releases[r] \/ releases'[r] = Reconciled(r, tasks')
    BY <2>1, UpdateFacts DEF Updates, SameTasks
  <2>3. ASSUME NEW u \in DOMAIN tasks, releases'[ReleaseOf(u)].status \in TerminalRelease
        PROVE  Over(releases'[ReleaseOf(u)].status, tasks'[u])
    <3>1. CASE releases'[ReleaseOf(u)].status = releases[ReleaseOf(u)].status
      <4>1. CASE u = t
        BY <2>1, <2>2, <2>3, <3>1, <4>1, ChangeKeepsQuiet
      <4>2. CASE u # t
        BY <2>2, <3>1, <4>2
      <4>3. QED
        BY <4>1, <4>2
    <3>2. CASE /\ releases'[ReleaseOf(u)].status = "completed"
               /\ tasks'[u].status = "completed"
      BY <3>2 DEF Over, InFlight, ActiveStatus
    <3>3. QED
      BY <1>1, <2>2, <2>3, <3>1, <3>2, ReconciledEnd
  <2>4. \A u \in DOMAIN tasks : Over(releases'[ReleaseOf(u)].status, tasks'[u])
    BY <2>3 DEF Over, TerminalRelease
  <2>5. QED
    BY <2>2, <2>4 DEF SameTasks
<1>7. CASE RollbackStep
  <2>1. PICK t \in DOMAIN tasks, a \in Caller : EndsRollback(t, a)
    BY <1>7 DEF RollbackStep
  <2>2. ASSUME NEW u \in DOMAIN tasks
        PROVE  Over(releases'[ReleaseOf(u)].status, tasks'[u])
    <3>1. CASE releases'[ReleaseOf(u)].status = releases[ReleaseOf(u)].status
      <4>1. CASE u = t
        BY <2>1, <3>1, <4>1, CompleteRollbackFacts DEF Over, InFlight, ActiveStatus
      <4>2. CASE u # t
        BY <2>1, <3>1, <4>2, CompleteRollbackFacts
      <4>3. QED
        BY <4>1, <4>2
    <3>2. CASE tasks'[u].status \in RollbackSettled
      BY <3>2 DEF RollbackSettled, Over, InFlight, ActiveStatus
    <3>3. QED
      BY <1>1, <2>1, <3>1, <3>2, CompleteRollbackFacts
  <2>3. QED
    BY <2>1, <2>2, CompleteRollbackFacts DEF SameTasks
<1>8. CASE ReapExpired
  <2>1. ASSUME NEW u \in DOMAIN tasks, releases'[ReleaseOf(u)].status \in TerminalRelease
        PROVE  Over(releases'[ReleaseOf(u)].status, tasks'[u])
    <3>1. CASE releases'[ReleaseOf(u)].status = releases[ReleaseOf(u)].status
      <4>1. ~IsActive(tasks[u])
        BY <2>1, <3>1 DEF Over, InFlight, IsActive
      <4>2. tasks'[u] = tasks[u]
        BY <1>8, <4>1, ReapFacts
      <4>3. QED
        BY <3>1, <4>2
    <3>2. CASE /\ releases'[ReleaseOf(u)].status = "completed"
               /\ tasks'[u].status = "completed"
      BY <3>2 DEF Over, InFlight, ActiveStatus
    <3>3. QED
      BY <1>1, <1>8, <2>1, <3>1, <3>2, ReapFacts, ReconciledEnd
  <2>2. \A u \in DOMAIN tasks : Over(releases'[ReleaseOf(u)].status, tasks'[u])
    BY <2>1 DEF Over, TerminalRelease
  <2>3. QED
    BY <1>8, <2>2, ReapFacts DEF SameTasks
<1>9. CASE QuietStep \/ UNCHANGED vars
  BY <1>9 DEF QuietStep, vars
<1>10. QED
  BY <1>2, <1>3, <1>4, <1>5, <1>6, <1>7, <1>8, <1>9, Steps

LEMMA EndedInvariant == Spec => []EndedQuiet
<1>1. Init => EndedQuiet
  BY DEF Init, EndedQuiet, EmptyMap
<1>2. RecordsOK /\ EndedQuiet /\ [Next]_vars => EndedQuiet'
  BY EndedStep DEF AnyStep
<1>3. QED
  BY <1>1, <1>2, RecordsCorrect, PTL DEF Spec

(* No call that arrives late wakes up a release that has ended. *)
THEOREM EndedStaysQuiet == Spec => []TerminalQuiescent
<1>1. EndedQuiet => TerminalQuiescent
  BY DEF EndedQuiet, Over, TerminalQuiescent
<1>2. QED
  BY <1>1, EndedInvariant, PTL

(* A rolled-back release left no task completed. *)
THEOREM RolledBackIsClean == Spec => []RolledBackClean
<1>1. EndedQuiet => RolledBackClean
  BY DEF EndedQuiet, Over, RolledBackClean
<1>2. QED
  BY <1>1, EndedInvariant, PTL

(* A step that completes a release finds a completed task for each device.     *)
LEMMA EarnedStep ==
  ASSUME RecordsOK, [AnyStep]_vars, NEW r \in DOMAIN releases,
         releases[r].status # "completed", releases'[r].status = "completed"
  PROVE  /\ TaskIds(r, releases[r].policy) \subseteq DOMAIN tasks
         /\ \A t \in TasksOf(r) : tasks'[t].status = "completed"
<1>1. CASE CreateStep
  BY <1>1, CreateFacts DEF CreateStep
<1>2. CASE MoveStep
  BY <1>2, MoveFacts DEF MoveStep
<1>3. CASE QueueStep
  BY <1>3, QueueRollbackFacts DEF QueueStep
<1>4. CASE ClaimStep
  BY <1>4, ClaimFacts DEF ClaimStep
<1>5. CASE Update
  BY <1>5, UpdateFacts, ReconciledEnd DEF Update, Updates, SameTasks, TerminalRelease
<1>6. CASE RollbackStep
  BY <1>6, CompleteRollbackFacts DEF RollbackStep
<1>7. CASE ReapExpired
  BY <1>7, ReapFacts, ReconciledEnd DEF TerminalRelease
<1>8. CASE QuietStep \/ UNCHANGED vars
  BY <1>8 DEF QuietStep, vars
<1>9. QED
  BY <1>1, <1>2, <1>3, <1>4, <1>5, <1>6, <1>7, <1>8, Steps

(* A release is completed by a step only when all its tasks are. *)
THEOREM CompletionEarned == Spec => CompletionIsEarned
<1> DEFINE Earned == \A r \in DOMAIN releases :
             releases[r].status # "completed" /\ releases'[r].status = "completed"
               => \A t \in TasksOf(r) : tasks'[t].status = "completed"
<1>1. RecordsOK /\ [Next]_vars => [Earned]_vars
  BY EarnedStep DEF AnyStep
<1>2. QED
  BY <1>1, RecordsCorrect, PTL DEF Spec, CompletionIsEarned

-----------------------------------------------------------------------------
(* What the routed calls and the scheduler keep *)

Budget(limit, x) ==
  /\ x.status \in {"queued", "rejected"} => x.attempts <= limit
  /\ x.status \in Forward => x.attempts \in 1 .. limit + 1

LEMMA ChangeKeepsBudget ==
  ASSUME NEW limit \in Nat, NEW x \in TaskRecord, NEW y \in TaskRecord,
         Budget(limit, x), WireChange(x, y, limit)
  PROVE  Budget(limit, y)
<1> USE DEF Budget, Forward
<1>1. CASE Advanced(x, y)
  BY <1>1 DEF Advanced, SameLease
<1>2. CASE GivenUp(x, y, limit)
  BY <1>2 DEF GivenUp
<1>3. CASE Finished(x, y) \/ RollbackStarted(x, y)
  BY <1>3 DEF Finished, RollbackStarted
<1>4. CASE Requeued(x, y, limit)
  BY <1>4 DEF Requeued
<1>5. QED
  BY <1>1, <1>2, <1>3, <1>4 DEF WireChange

LEMMA BudgetStep ==
  ASSUME RecordsOK, \A t \in DOMAIN tasks : Budget(LimitOf(t), tasks[t]), [AnyWireStep]_vars
  PROVE  \A t \in DOMAIN tasks' : Budget(LimitOf(t)', tasks'[t])
<1>1. \A t \in DOMAIN tasks :
        /\ ReleaseOf(t) \in DOMAIN releases /\ LimitOf(t) \in Nat
        /\ tasks[t] \in TaskRecord /\ tasks[t].attempts \in Nat
  BY TaskRelease DEF LimitOf, ReleaseRecord, Policy, TaskRecord
<1>2. ASSUME SamePolicies
      PROVE  \A t \in DOMAIN tasks : LimitOf(t)' = LimitOf(t)
  BY <1>1, <1>2 DEF SamePolicies, LimitOf
<1>3. CASE CreateStep
  <2>0. PICK r \in ReleaseId, request \in Request :
          \E ids \in SUBSET TaskIds(r, request) : CreateWith(r, request, ids)
    BY <1>3 DEF CreateStep
  <2>1. PICK ids \in SUBSET TaskIds(r, request) : CreateWith(r, request, ids)
    BY <2>0
  <2>2. \A t \in DOMAIN tasks : LimitOf(t)' = LimitOf(t) /\ tasks'[t] = tasks[t]
    BY <1>1, <2>1, CreateFacts DEF LimitOf
  <2>3. \A t \in DOMAIN tasks' \ DOMAIN tasks :
          /\ LimitOf(t)' \in Nat
          /\ tasks'[t].status = "queued" /\ tasks'[t].attempts = 0
    BY <2>1, CreateFacts DEF LimitOf
  <2>4. QED
    BY <2>2, <2>3 DEF Budget, Forward
<1>4. CASE MoveStep
  BY <1>2, <1>4, MoveFacts DEF MoveStep
<1>5. CASE QueueStep
  BY <1>2, <1>5, QueueRollbackFacts DEF QueueStep, SameTasks, Budget, Forward
<1>6. CASE ClaimStep
  <2>1. PICK d \in Device, a \in Caller, ttl \in TTLs : LeasesOne(d, a, ttl)
    BY <1>6 DEF ClaimStep
  <2>2. PICK t \in DOMAIN tasks :
          /\ tasks[t].status \in {"queued", "rejected"}
          /\ tasks'[t].status = "leased" /\ tasks'[t].attempts = tasks[t].attempts + 1
          /\ \A u \in DOMAIN tasks \ {t} : tasks'[u] = tasks[u]
    BY <2>1, ClaimFacts
  <2>3. Budget(LimitOf(t), tasks'[t])
    BY <1>1, <2>2 DEF Budget, Forward
  <2>4. SameTasks /\ SamePolicies
    BY <2>1, ClaimFacts
  <2>5. QED
    BY <1>2, <2>2, <2>3, <2>4 DEF SameTasks
<1>7. CASE WireUpdate
  <2>1. PICK t \in DOMAIN tasks, y \in TaskRecord :
          Updates(t, y) /\ WireChange(tasks[t], y, LimitOf(t))
    BY <1>7 DEF WireUpdate
  <2>2. tasks' = [tasks EXCEPT ![t] = y] /\ SamePolicies
    BY <2>1, UpdateFacts DEF Updates, SamePolicies
  <2>3. Budget(LimitOf(t), y)
    BY <1>1, <2>1, ChangeKeepsBudget
  <2>4. QED
    BY <1>2, <2>2, <2>3
<1>8. CASE ReapExpired
  <2>1. SameTasks /\ SamePolicies
    BY <1>8, ReapFacts
  <2>2. ASSUME NEW t \in DOMAIN tasks
        PROVE  Budget(LimitOf(t), tasks'[t])
    BY <1>1, <1>8, ReapFacts DEF Budget, Forward, LeaseFreed
  <2>3. QED
    BY <1>2, <2>1, <2>2 DEF SameTasks
<1>9. CASE QuietStep \/ UNCHANGED vars
  BY <1>9 DEF QuietStep, vars, LimitOf
<1>10. QED
  BY <1>3, <1>4, <1>5, <1>6, <1>7, <1>8, <1>9, WireSteps

(* The retry limit holds through every mix of rejections, expiries and manual *)
(* retries the server and the scheduler can produce.                          *)
THEOREM RetriesBounded == WireSpec => []RetryBudget
<1>1. Init => RetryBudget
  BY DEF Init, RetryBudget, EmptyMap
<1>2. RecordsOK /\ RetryBudget /\ [WireNext]_vars => RetryBudget'
  <2> SUFFICES ASSUME RecordsOK, RetryBudget, [WireNext]_vars PROVE RetryBudget'
    OBVIOUS
  <2>1. \A t \in DOMAIN tasks : Budget(LimitOf(t), tasks[t])
    BY DEF RetryBudget, Budget, LimitOf, Forward
  <2>2. \A t \in DOMAIN tasks' : Budget(LimitOf(t)', tasks'[t])
    BY <2>1, BudgetStep DEF AnyWireStep
  <2>3. QED
    BY <2>2 DEF RetryBudget, Budget, LimitOf, Forward
<1>3. QED
  BY <1>1, <1>2, WireIsSpec, RecordsCorrect, PTL DEF WireSpec

LeaseExact(x) ==
  /\ IsActive(x) <=> x.leaseUntil # ZeroTime
  /\ ~IsActive(x) => x.leaseOwner = NoAgent

LEMMA ChangeKeepsExact ==
  ASSUME NEW x, NEW y, NEW limit, LeaseExact(x), WireChange(x, y, limit)
  PROVE  LeaseExact(y)
<1> USE DEF LeaseExact, IsActive, ActiveStatus, Forward
<1>1. CASE Advanced(x, y)
  BY <1>1 DEF Advanced, SameLease
<1>2. CASE GivenUp(x, y, limit) \/ Finished(x, y)
  BY <1>2 DEF GivenUp, Finished, LeaseFreed
<1>3. CASE Requeued(x, y, limit)
  BY <1>3 DEF Requeued, SameLease
<1>4. CASE RollbackStarted(x, y)
  BY <1>4 DEF RollbackStarted
<1>5. QED
  BY <1>1, <1>2, <1>3, <1>4 DEF WireChange

LEMMA ExactStep ==
  ASSUME RecordsOK, \A t \in DOMAIN tasks : LeaseExact(tasks[t]), [AnyWireStep]_vars
  PROVE  \A t \in DOMAIN tasks' : LeaseExact(tasks'[t])
<1>1. CASE CreateStep
  BY <1>1, CreateFacts DEF CreateStep, LeaseExact, IsActive, ActiveStatus
<1>2. CASE MoveStep \/ QuietStep \/ UNCHANGED vars
  BY <1>2, MoveFacts DEF MoveStep, QuietStep, vars
<1>3. CASE QueueStep
  BY <1>3, QueueRollbackFacts
     DEF QueueStep, SameTasks, LeaseExact, LeaseFreed, IsActive, ActiveStatus
<1>4. CASE ClaimStep
  BY <1>4, ClaimFacts DEF ClaimStep, SameTasks, LeaseExact, IsActive, ActiveStatus
<1>5. CASE WireUpdate
  <2>1. PICK t \in DOMAIN tasks, y \in TaskRecord :
          Updates(t, y) /\ WireChange(tasks[t], y, LimitOf(t))
    BY <1>5 DEF WireUpdate
  <2>2. tasks' = [tasks EXCEPT ![t] = y]
    BY <2>1, UpdateFacts DEF Updates
  <2>3. LeaseExact(y)
    BY <2>1, ChangeKeepsExact
  <2>4. QED
    BY <2>2, <2>3
<1>6. CASE ReapExpired
  BY <1>6, ReapFacts DEF SameTasks, LeaseExact, LeaseFreed, IsActive, ActiveStatus
<1>7. QED
  BY <1>1, <1>2, <1>3, <1>4, <1>5, <1>6, WireSteps

(* On the server a lease ends with the work it was for. *)
THEOREM LeasesEndWithWork == WireSpec => []LeaseIffActive
<1>1. Init => LeaseIffActive
  BY DEF Init, LeaseIffActive, EmptyMap
<1>2. RecordsOK /\ LeaseIffActive /\ [WireNext]_vars => LeaseIffActive'
  <2> SUFFICES ASSUME RecordsOK, LeaseIffActive, [WireNext]_vars PROVE LeaseIffActive'
    OBVIOUS
  <2>1. \A t \in DOMAIN tasks : LeaseExact(tasks[t])
    BY DEF LeaseIffActive, LeaseExact
  <2>2. \A t \in DOMAIN tasks' : LeaseExact(tasks'[t])
    BY <2>1, ExactStep DEF AnyWireStep
  <2>3. QED
    BY <2>2 DEF LeaseIffActive, LeaseExact
<1>3. QED
  BY <1>1, <1>2, WireIsSpec, RecordsCorrect, PTL DEF WireSpec

\* The releases that are not in gone have the total they were completed with.
CountedBut(gone) ==
  \A r \in DOMAIN releases \ gone :
    releases[r].status = "completed"
      => releases[r].completed = Len(releases[r].policy.devices)

(* A completed release of which nothing is in flight is not reconciled again.    *)
LEMMA CountedStep ==
  ASSUME RecordsOK, NEW gone, CountedBut(gone), [AnyWireStep]_vars,
         \A t \in DOMAIN tasks :
           ReleaseOf(t) \notin gone /\ releases[ReleaseOf(t)].status = "completed"
             => tasks[t].status \notin InFlight
  PROVE  \A r \in DOMAIN releases' \ gone :
           releases'[r].status = "completed"
             => releases'[r].completed = Len(releases'[r].policy.devices)
<1> USE DEF CountedBut
<1>1. CASE CreateStep
  <2>0. PICK r \in ReleaseId, request \in Request :
          \E ids \in SUBSET TaskIds(r, request) : CreateWith(r, request, ids)
    BY <1>1 DEF CreateStep
  <2>1. PICK ids \in SUBSET TaskIds(r, request) : CreateWith(r, request, ids)
    BY <2>0
  <2>2. /\ DOMAIN releases' = DOMAIN releases \cup {r}
        /\ releases'[r].status = "queued"
        /\ \A q \in DOMAIN releases : releases'[q] = releases[q]
    BY <2>1, CreateFacts
  <2>3. QED
    BY <2>2
<1>2. CASE MoveStep
  BY <1>2, MoveFacts DEF MoveStep, SamePolicies
<1>3. CASE QueueStep
  BY <1>3, QueueRollbackFacts DEF QueueStep, SamePolicies
<1>4. CASE ClaimStep
  BY <1>4, ClaimFacts DEF ClaimStep, SamePolicies
<1>5. ASSUME NEW t \in DOMAIN tasks, tasks[t].status \in InFlight,
             ReleaseOf(t) \notin gone
      PROVE  releases[ReleaseOf(t)].status # "completed"
  BY <1>5
<1>6. CASE WireUpdate
  <2>1. PICK t \in DOMAIN tasks, y \in TaskRecord :
          /\ Updates(t, y) /\ WireChange(tasks[t], y, LimitOf(t))
          /\ UpdateOnly(t, y) \/ tasks[t].status \in Forward
    BY <1>6 DEF WireUpdate
  <2>2. CASE UpdateOnly(t, y)
    BY <2>2 DEF UpdateOnly
  <2>3. CASE tasks[t].status \in Forward
    <3>1. ReleaseOf(t) \notin gone => releases[ReleaseOf(t)].status # "completed"
      BY <1>5, <2>3 DEF Forward, InFlight, ActiveStatus
    <3>2. SameTasks /\ DOMAIN releases' = DOMAIN releases
      BY <2>1, UpdateFacts DEF Updates, SameTasks
    <3>3. ASSUME NEW r \in DOMAIN releases \ gone, releases'[r] # releases[r],
                 releases'[r].status = "completed"
          PROVE  releases'[r].completed = Len(releases'[r].policy.devices)
      BY <2>1, <3>1, <3>2, <3>3, UpdateFacts, ReconciledFacts DEF Updates, SameTasks
    <3>4. QED
      BY <3>2, <3>3
  <2>4. QED
    BY <2>1, <2>2, <2>3
<1>7. CASE ReapExpired
  <2>1. \A t \in Expired :
          ReleaseOf(t) \notin gone => releases[ReleaseOf(t)].status # "completed"
    BY <1>5 DEF Expired, IsActive, InFlight
  <2>2. SameTasks /\ SamePolicies
    BY <1>7, ReapFacts
  <2>3. ASSUME NEW r \in DOMAIN releases \ gone, releases'[r] # releases[r],
               releases'[r].status = "completed"
        PROVE  releases'[r].completed = Len(releases'[r].policy.devices)
    BY <1>7, <2>1, <2>2, <2>3, ReapFacts, ReconciledFacts DEF SameTasks
  <2>4. QED
    BY <2>2, <2>3 DEF SamePolicies
<1>8. CASE QuietStep \/ UNCHANGED vars
  BY <1>8 DEF QuietStep, vars
<1>9. QED
  BY <1>1, <1>2, <1>3, <1>4, <1>6, <1>7, <1>8, WireSteps

(* The Completed counter of a completed release keeps the total it was completed *)
(* with.                                                                         *)
THEOREM CompletedCounted == WireSpec => []CompletedCountsAll
<1>1. Init => CompletedCountsAll
  BY DEF Init, CompletedCountsAll, EmptyMap
<1>2. RecordsOK /\ TerminalQuiescent /\ CompletedCountsAll /\ [WireNext]_vars
        => CompletedCountsAll'
  <2> SUFFICES ASSUME RecordsOK, TerminalQuiescent, CompletedCountsAll, [WireNext]_vars
               PROVE  CompletedCountsAll'
    OBVIOUS
  <2>1. CountedBut({})
    BY DEF CountedBut, CompletedCountsAll
  <2>2. QED
    BY <2>1, CountedStep DEF AnyWireStep, TerminalQuiescent, TerminalRelease,
                             CompletedCountsAll
<1>3. QED
  BY <1>1, <1>2, WireIsSpec, RecordsCorrect, EndedStaysQuiet, PTL DEF WireSpec
=============================================================================
