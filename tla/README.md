# FleetForge in TLA+

A verification project for FleetForge, the firmware rollout service of this
repository (`src/`). It models the service's state and every operation that
changes it, model-checks small instances with TLC, and proves the safety
properties that hold for every value of the constants with TLAPS.

Line numbers below are those of the files under `src/internal/` unless a path
says otherwise.

## 1. Inventory

| Part | State | Operations | Hard because |
|---|---|---|---|
| `service` (service, dispatch, rollback, reporting, workflow) | maps of releases, devices, tasks; the audit list | create, pause, resume, roll back a release; register a device, heartbeat; claim, start, report, reject, fail, complete, retry a task; renew; reap | late answers after a lease ran out, three ways to retry, reconcile run by every report, rollback overlapping forward work |
| `domain` | none: rules over records | status matrices, lease, retry schedule | several callers assign a status without asking the matrix |
| `scheduler` | run counter | `Run` ticks and calls `ReapExpired`; `BuildPlan` reads | liveness of expired leases; the plan and the dispatcher disagree |
| `store` | log file and snapshot file | append, snapshot, load with truncation | crash between the two files, torn records, refused writes whose error callers drop |
| `recovery`, `Service.Recover` | none | load, replay | errors ignored, full log replayed over a newer snapshot |
| `httpapi` | none | routes requests to the service, one goroutine each | handlers run concurrently; only `ClaimWithTTL` takes `claimMu` |
| `cli`, `cmd/fleetforge` | none | commands, smoke flow, HTTP server | the served process starts no scheduler |
| `audit`, `health`, `service` queries | none | pure summaries of the state | boundary cases of pages and counts |
| `ports`, `events`, `lease`, `backoff`, `config` | id counter | clock, ids, records, settings | `lease` and `backoff` have no caller |

How they interact. A request reaches one `Service` method. It reads the clock,
checks, changes a record through its pointer, and calls `emit`, which appends an
event to the store, applies the event (replacing the record by a decoded copy)
and writes a snapshot. Reports by agents then call `reconcile`, which recounts
the release and may complete it or send it to rollback. The scheduler is one
more caller. At start, `Recover` loads the snapshot and replays the log.

What makes each part correct:

- leases: work in flight always has a deadline; a running lease is not handed to
  somebody else; leases end with the work; expired leases come back;
- retries: no task is attempted more than `retryLimit + 1` times;
- releases: completed means every task completed, rolled back means none is;
  ended releases have nothing in flight; rollback starts at its threshold and is
  not abandoned; the concurrency limit is one;
- store: what an operation acknowledged survives a crash, and a restart never
  moves state back;
- concurrency: claims exclude each other, and a claim no other call ran into is not
  undone by the calls that follow it. (Handlers that overlap on one record can lose
  updates; that their outcome is that of some order is not promised, nor checked.)

`PROJECT.json` lists every hazard at its line, with the properties that watch it
or the reason why none does.

## 2. Modules

| Module | What it is |
|---|---|
| `Lifecycle` | `domain`: the two status matrices, lease operators, retry schedule. No variables. |
| `Service` | The four variables `now`, `releases`, `devices`, `tasks`; one action per exported operation; the specifications; the properties. |
| `TaskLease` | Abstract: a table with at most one lease per task, granted, renewed and ended. `Service` implements it. |
| `DurableStore` | `store/durable.go` under `Service.emit`: the log line by line, the snapshot file, failing writes, crash, load with truncation, recovery. |
| `EventLog` | Abstract: for each record the revision a restart would rebuild and the one acknowledged. `DurableStore` implements it. |
| `CutCalls` | What a call of `Service` leaves in memory when it returns at a failing `emit`. |
| `DurableService` | Extends `CutCalls` with the events a call owes, events the store refuses, and a restart between any two of them. Its log implements `TaskLease` too. |
| `ClaimRace` | The HTTP handlers as concurrent processes over records reached by pointers, with `claimMu`. |
| `MCService`, `MCDurableStore`, `MCDurableService`, `MCClaimRace` | Values of the constants for TLC. |
| `ServiceProofs`, `DurableServiceProofs`, `DurableStoreProofs`, `ClaimRaceProofs` | Theorems and their proofs. |

How they fit. `Service` serialises calls and its `emit` always succeeds.
`DurableStore` looks below `emit` and forgets what a record says; it shows that
files and recovery amount to `EventLog`. `DurableService` puts the calls of
`Service` on such an ideal log and asks what a crash between two events of one
call leaves, and what an event leaves that the store refused. `ClaimRace` takes the
calls apart: what `Service` makes one step is there a lookup, a test, an assignment, a marshal, an append and an apply.

### Correspondence of `Service` to the code

- `releases`, `devices`, `tasks` are the maps of `store.State`; a map's DOMAIN is
  the set of keys that exist. A task is named by its release and its position in
  that release's device list, since `CreateRelease` makes one per entry.
- A release record keeps the creation parameters (`policy`), status, creation time and the two
  counters; a task record keeps status, lease, attempts, next retry and update
  time; a device keeps `online`. Versions, firmware, capabilities, reasons and
  `UpdatedAt` of releases change no decision and are left out. The error text
  matters once: `FailTask` of a failed task with the same text changes nothing,
  which is a stutter, and with another text goes on to the lease test, which is
  the action.
- Every action is a whole call: tests, assignments, emits and the reconcile at
  the end. A call that fails before it has changed anything is not enabled. A
  call that fails after it changed something is modelled with the change:
  `CompleteRollback` when the release refuses its transition, and the panic in
  `ScheduleRetry` on a task nobody ever claimed (`1 << -1`), which the HTTP
  server recovers from and which skips the reconcile.
- `WithStatus`, `Settle`, `RetryAt`, `Renew` are the assignment groups that recur
  in the handlers (status and stamp; the same with the lease dropped; next retry;
  deadline). `UpdateOnly` and `UpdateAndReconcile` are the two shapes a report
  has. `CreateWith`, `LeaseFirst`, `QueueTasks` and `RollBack` are the parts of a call
  that `CutCalls` has without the rest.
- `sort` ties: release ids and equal times leave the order open, so any of the
  first may be chosen.
- `Caller` holds `NoAgent` because a body without an agent decodes to the empty
  string, which `VerifyLease` accepts for a task nobody owns.
- `Tick` is the clock. Deadlines, backoffs and `LeaseTTL` are small multiples of
  one unit.

Four specifications share these actions:

- `Spec`: every exported operation (what Go callers can do);
- `WireSpec`: what the HTTP routes and the scheduler can do;
- `WireLiveSpec`: `WireSpec` with weak fairness of `Tick` and `ReapExpired`;
- `ServedLiveSpec`: what `main` starts: routes and clock, no scheduler, with
  strong fairness of each device's claim.

### Correspondence of `DurableStore` to the code

- A record is its *revision*, a number that grows with each change, as event ids
  and `UpdatedAt` do. A log line has the record, its revision and whether it
  decodes. `open` says that the last line has no newline yet.
- `Written` is what a write leaves: nothing, part of the record, all but the
  newline, or all. With `O_APPEND` the next write continues an open line, which
  then no longer decodes. `CrashTails` and `ErrorTails` say which of these a crash
  and a failed `Write` or `Sync` (`store/durable.go:80-83`) may leave.
- `Change` is the handler before `emit`: most change the record in place first
  (memory is then ahead of the log), `CreateRelease` and `RegisterDevice` do not.
  `AppendEvent`, `AppendFails`, `WriteSnapshot` and `SnapshotFails` are the two
  store calls of `emit`. When `emit` returns nil, `acked` takes the record's revision
  and `stored` collects it: `acked` is the latest change of each record that was
  reported stored, `stored` every one. A failed snapshot leaves the old file, or the
  new one when only the directory sync failed.
- `LoadLive` is `LoadReport` on the running store (`GET /healthz`, `Export`),
  which truncates. `Crash` may come at any stage; `Recover` is
  `Service.Recover`: load, truncate, replay the whole log over the snapshot, and
  rebuild the audit list from the log if there is anything in it.

### Correspondence of `DurableService` to the code

- `Call` is any step of `Service` (`WireCall` any step the routes and the scheduler
  can make), or what `CutCalls` has of it; `todo` names the releases, devices and
  tasks whose events it emits. `LogTask`, `LogRelease` and `LogDevice` write one, in an
  order the code may use: a new release, then its tasks in device order
  (`LoggableTask`); in every other call tasks before releases (`LoggableRelease`:
  `UpdateTask` and `reconcile`, `QueueRollback`, `CompleteRollback`, the reaper,
  claims).
- *Refused events* (`service.go:55-57`). A call may lose events (`EmitsLess`): the
  records are changed in memory and the log stays behind. `UpdateTask` (149),
  `reconcile` (178) and the reaper (`rollback.go:190`) drop the error, so these calls
  can lose any of their events and emit the rest (`DropsErrors`). Every other call
  returns at the first error: it loses the event of the release, which comes last
  (`lost.tasks = {}`), or that of the only task it got to change. What such a return
  leaves undone in memory is in `CutCalls`: the rest of the tasks of a creation, the
  release's transition behind a claim, the reconcile behind a report. `QueueRollback`
  changes its release first and logs it last (`EmitsNoRelease`). A cut call may also
  have its last event in the log, when only the sync or the snapshot failed.
- A later call may emit a record again that it leaves as it is (`Behind`): a reconcile
  always emits the release, a repeated pause or report emits its record. That brings
  the log up to date where an event was lost, or where a rejection panicked and the
  same reject is sent through `UpdateTask`, and changes nothing elsewhere.
- `refused` remembers the releases of which the store refused an event, of the release
  or of one of its tasks; `refusals` counts the calls, for the bound.
- `Restart` is a crash and `Recover` at once; it may come between any two events,
  and calls go on from what it rebuilt. After a crash inside `CreateRelease` a
  release has fewer tasks than devices. So `Service` proves its invariants from
  `RecordsOK`, which such a state satisfies, and not from `TypeOK`, which adds that
  no task is missing.
- A call that panics in `ScheduleRetry` changes memory and owes no event.

### Correspondence of `ClaimRace` to the code

- `heap` holds the records allocated so far, `current` is `State.Tasks`. `apply`
  decodes the event into a new record, so a handler may go on with a pointer to
  an old one.
- A claim locks, picks, tests again in `Task.Lease`, assigns, marshals, appends,
  applies and unlocks. The other calls look the record up and go on the same way
  without a lock. `ClaimRollback` picks and assigns without a second test.
- A client is an agent's name and may send any request for any task: `ack`, `start`,
  `progress`, `reject`, `complete`, `retry`, and `queue-rollback` for the one task of its
  release. `Admits` is the test each handler makes: `start`, `progress` and `reject`
  ask for the owner, `ack` and `complete` for nobody (`service.go:128-144`). A body
  without an agent is left out. `CompleteRollback` has no route.
- `logged` is the last event of each task, which is what a restart rebuilds, and
  `events` counts all of them, for the bound.
- `holders` are the agents that were told they have the task. An agent gives it up by
  sending `reject` or `complete`; a `complete` by anyone ends the holding when it writes
  the record, since the code accepts it. The former holder is not told, and may go on
  sending requests.
- `overlapped` marks the tasks on which some call outside the mutex was under way when
  a claim picked them, and those someone completed while a claim of them was under
  way: there the code promises nothing (two rollback claims can both win; a slow
  `retry` can undo a claim; a claim can answer for a task completed meanwhile).
- Left out: releases, capacity, time. Every lease outlives the run and every
  retry delay is over, as in the served process, which has no reaper.

The definitions marked *Fault* are wrong versions of the definition that
follows each of them. No specification uses them; they show that a property
fails when the code does.

## 3. Runs

All use two TLC workers; the largest takes about two minutes.

| Run | Instance | Checks |
|---|---|---|
| `service_api` | `Spec`; 1 device, 2 interchangeable agents, retry limit 1 (and a refused request with -1), rollback on the first failure with auto on and off; clock to 4, 3 claims of a task | `TypeOK`, `ActiveLeaseHeld`, `TerminalQuiescent`, `NoLeaseTheft`, `ImplementsTaskLease` |
| `service_wire` | `WireLiveSpec`; a release of 2 devices, batch 2, one active, retry limit 1, one failure tolerated; 1 agent, clock to 3, 3 claims of a task | `RetryBudget`, `LeaseIffActive`, `CompletedCountsAll`, `LeasesReclaimed`, `CompletionIsEarned` |
| `durable_store` | `DurableStore`; 2 records, 5 changes; a crash leaves nothing, part or all of a record, a failed write nothing or all | `TypeOK`, `AckedSurvives`, `AuditFaithful`, `ImplementsEventLog` |
| `durable_service` | `DurableSpec`; a release of two tasks (one device named twice), rollback on the first failure, no retries, 2 interchangeable agents, 2 claims of a task, clock to 1, nothing refused | `CompletedStaysQuiet`, `RolledBackStaysClean`, `CompletionLogged` |
| `durable_leases` | `DurableSpec`; a release of one task with one retry, 2 interchangeable agents, 2 claims, clock to 3, nothing refused | `NoDoubleDispatch`, `LogImplementsTaskLease` |
| `store_refuses` | `DurableSpec`; a release of one task without retry, 2 interchangeable agents, 2 claims, clock to 3, events of one call refused | `NoOrphanTask`, `ActiveLeaseHeld` |
| `claim_race` | `ClaimRace`; 1 task, 2 clients, 5 events | `OneHolder`, `HolderRecorded`, `ClaimsReturn` |
| `limit_violated` | `WireSpec` | `ConcurrencyLimit` fails |
| `threshold_violated` | `WireSpec` | `FailureTriggersRollback` fails |
| `reject_not_retried` | `ServedLiveSpec` | `RejectedIsRetried` fails |
| `append_dropped` | `DurableSpec`; as `durable_leases`, clock to 1, events of one call refused | `CompletionStored` fails |
| `restart_regress` | `DurableStore`; a failed write may leave part of a record, a crash all but its newline | `AckedSurvives` fails |

Bounds, and why they are enough.

- *Agents.* No rule compares more than an owner and one other caller: two agents
  in `service_api`. Agents are symmetric there, which is sound for safety; the
  liveness runs use no symmetry. In the two-device runs one agent and `NoAgent`
  are the owner and the stranger.
- *Devices.* One task is enough for lease rules. Two are needed wherever a
  release counts or waits for its tasks, so that one can settle while the other
  is in flight.
- *Time.* A lease is one unit, so that clock 4 holds a claim, an expiry, the
  reaper's backoff and a second claim, by the other agent if it comes first.
  Clock 3 holds claims, expiries and the retries of a release manager, whose
  backoff is nil; the reaper's backoff ends after it.
- *Attempts.* `MaxAttempts` is `retryLimit + 2`, so that a claim beyond the limit
  would happen if the code allowed it (`retryLimit + 1` in `durable_leases`, which asks
  nothing about the limit).
  Rollback claims are counted by the code as attempts too and are cut off by the
  same bound.
- *Store.* Two records, so that a lost event of one leaves the other behind it;
  five changes hold a stored change of each, a failing write, a crash during a
  write, a live load and a second crash during the recovery's first write.
- *Restarts* are not counted: any number may come, and a call can be cut short,
  repeated after the restart and cut short again. `durable_service` asks about
  statuses and the order of events, which the clock does not decide, and stops it at
  1 to afford two tasks; so no lease runs out there, and with `MaxFailed` 0 nobody calls
  `RequestRollback`. `durable_leases` has one task, so that leases can run out, be
  renewed, be reaped and be claimed again around crashes.
- *Refusals.* One call whose events are refused is enough to put memory ahead of the
  log; further calls then work on what it left, emit it again, or lose it in a
  restart. `store_refuses` has the properties that hold whatever is refused. The others
  speak of releases of which nothing was refused, so that in a run with one release a
  refusal would only end their say: `durable_service` and `durable_leases` do without,
  and the theorems have any number of refusals beside any number of releases.
- *Routed calls through crashes.* The routed calls alone have no run with crashes: what `service_wire` checks of them
  without crashes is proved of `DurableWireSpec` as well, but for `CompletionIsEarned`,
  which `CompletionLogged` says of the log.
- *Race.* With one task every pair of calls meets on it. Five events hold a claim, its
  acknowledgement, a `complete` by the other client, a queued rollback and the rollback
  claim by the other client, or a claim, a rejection, a retry and a second claim, each
  with another call beside it. Two clients make two handlers at once; three clients
  were checked with four events.
- *MaxFailed* bounds `RequestRollback`, which increments the counter at each call.
- *Deadlock* is not checked: at the end of the bounded clock, and in a release
  that ended, there is nothing left to do.

*Fairness.* `Tick`: time passes. `ReapExpired`: `Scheduler.Run` calls it at every
tick of its timer, and once a lease has expired it stays so until somebody acts.
`Claim` in `ServedLiveSpec`: agents poll. The counterexample of
`reject_not_retried` needs no unfair agent: the claim is made and refused each
time. In `ClaimRace` every handler's next step is strongly fair: a goroutine that
can run does, and `sync.Mutex` hands itself to a waiter that has starved for a
millisecond; only the lock step can be disabled meanwhile, so weak fairness would
say the same of the others. Requests are not fair: nobody has to send one.

### What the violations say

1. `ConcurrencyLimit` (`scheduler/limits.go:8`): leased tasks are not counted, so
   more tasks than `max-concurrent` are leased at once, though `cli/cli.go:67`
   calls it the maximum of active tasks and `Release.Capacity` counts them.
2. `FailureTriggersRollback` (`service/workflow.go:73`): a rejection past the
   retry limit fails the task without reconcile; the rollback threshold passes
   unnoticed until the next report.
3. `RejectedIsRetried` (`domain/lifecycle.go:38`): a rejected task is eligible but
   `Transition` refuses `rejected -> leased`, so the claim fails each time, and
   the device's other tasks wait behind it. Only a manual retry helps.
4. `CompletionStored` (`service/service.go:149`): `UpdateTask` drops the error of a
   `complete` whose event the store refused and reconciles; the release's event may be
   stored, and the log then says completed without the completed task, against
   `project_design.md:16`. A restart rebuilds a completed release with a task still
   installing. Nothing that relates several records of a release survives such a
   drop, which is why `CompletedStaysQuiet`, `RolledBackStaysClean`, `CompletionLogged`,
   `NoDoubleDispatch` and `LogImplementsTaskLease` leave out the releases in `refused`.
5. `AckedSurvives` with partial records (`store/durable.go:182`): a failed write
   leaves its part in the log, or a crash takes only the newline; the next record
   is glued to it, neither decodes, and the next load cuts off that line and all
   behind it. A restart then replays a log that lacks acknowledged events over a
   snapshot that has them, and the records that still are in the log go back to an
   older revision, against `README.md:13`.

More observations have no property, since they are plain from the lines or the code
promises nothing there: `SetRelease` pauses a release in `rollback-pending` without
asking the matrix (`service/service.go:186`), and a resume then makes it queued;
`main` starts no scheduler (`cmd/fleetforge/main.go:79`), so that the served process
reclaims no expired lease; `complete` settles a task for whoever sends it; no step
ever gives a release the statuses `installing`, `awaiting-confirmation` or `failed`, so that a release all of whose tasks failed
without auto-rollback stays in `preflight`; `CompleteRollback` has no route,
so that a rollback cannot finish over HTTP; a crash between the last
`task.updated` of a release and its `release.updated` leaves a release open whose
tasks are all completed, since only a report would reconcile it; a crash inside
`CreateRelease` leaves a release with fewer tasks than devices, which can never
complete; and a rejection that panics changes a task in memory only, so that a
restart puts it back, even under a release that was rolled back meanwhile (which
is why `DurableService` states quietness for completed releases alone).

## 4. Proofs

### The service (`ServiceProofs`)

For any sets of releases, devices, agents and requests and any durations:

| Theorem | Statement |
|---|---|
| `TypeCorrect` | `Spec => []TypeOK` (in `Spec` every `emit` succeeds; a cut `CreateRelease` leaves fewer tasks) |
| `LeasesHeld` | `Spec => []ActiveLeaseHeld` |
| `LeasesNotStolen` | `Spec => NoLeaseTheft` |
| `EndedStaysQuiet` | `Spec => []TerminalQuiescent` |
| `RolledBackIsClean` | `Spec => []RolledBackClean` |
| `CompletionEarned` | `Spec => CompletionIsEarned` |
| `RetriesBounded` | `WireSpec => []RetryBudget` |
| `LeasesEndWithWork` | `WireSpec => []LeaseIffActive` |
| `CompletedCounted` | `WireSpec => []CompletedCountsAll` |
| `TaskLeaseImplemented` | `Spec => ImplementsTaskLease` |

Assumptions: `BackoffAssumption` (positive time units) and `ServiceAssumption`
(types of the requests, the empty agent is no agent, durations are positive,
`LeaseTTL` is one of them).

The argument:

1. *Rules.* Each helper of `Lifecycle` keeps a task record a task record, and a
   lemma says what it sets and keeps.
2. *Counting.* `CountType`: a count of tasks is a natural number, and when it
   reaches the number of devices, every task is there and counted, because
   `RecordsOK` gives a release at most one task per position. `ReconciledFacts` follows: reconcile
   completes a release only when all of its tasks are completed.
3. *Kinds of step.* `Steps` and `WireSteps` reduce `Next` and `WireNext` to a few
   kinds: a release is created, its status moves, its rollback is queued, a task
   is claimed, a task is changed (by one of the relations in `Change`), a
   rollback is completed, expired leases are reaped, nothing that matters
   happens. Each invariant is then proved once per kind. The calls of `CutCalls` are
   of the same kinds, and the step lemmas cover them (`AnyStep`, `AnyWireStep`).
4. *Strengthening.* `RolledBackClean` is not inductive: a task still installing in
   a rolled-back release could complete. `EndedQuiet` says of each task both that
   it is not in flight when its release has ended and that it is not completed
   when its release is rolled back, and is inductive: no kind of step puts a
   task of an ended release in flight, a release becomes completed only by a reconcile that
   found all of its tasks completed (2), and rolled back only by a
   `CompleteRollback` that found none in flight or completed. `RetryBudget`,
   `LeaseIffActive` and `CompletedCountsAll` are inductive over `RecordsOK`, the last
   one with the quietness of completed releases.
5. *Refinement.* A task's abstract lease is its owner and deadline while it is
   worked on, and none otherwise. Each kind of change grants a lease where there
   was none, renews the holder's, ends it, or keeps it (`LeaseMoves`), and the
   kinds of step combine these over all tasks.

`RetryBudget`, `LeaseIffActive` and `CompletedCountsAll` are stated for `WireSpec`
because Go callers can break them: `UpdateTask` with `reject` (an HTTP reject is
routed to `RejectTask`) keeps the lease and asks no limit, `ReportPreflight`
keeps the lease of a task it fails, and `RequestRollback` increments the counter
by hand.

### The store (`DurableStoreProofs`)

For any set of records and any number of changes:

| Theorem | Statement |
|---|---|
| `StoreTypeCorrect` | `Spec => []TypeOK` |
| `StoredSurvives` | `CleanTails` implies `Spec => []AckedSurvives` |
| `StoreImplementsEventLog` | `CleanTails` implies `Spec => ImplementsEventLog` |
| `AuditIsFaithful` | `CleanTails` implies `Spec => []AuditFaithful` |

`CleanTails` says that a crash leaves no record without its newline and a failing
write no partial record. It is what `durable_store` assumes too, and
`restart_regress` shows that it is needed.

`AckedSurvives` is not inductive. Write `Good` for the decodable prefix of the log.
The invariant `IInv` adds: the log is whole lines, but for one torn line at its end
while the service is down (`LogShape`); neither the snapshot nor memory is ahead of
what `Good` holds, except for the change at work (`LoggedIn`, `Working`); and what
was acknowledged is in `Good` (`AckedStored`). A truncation then removes only the
torn line, and a replay of the whole log over the snapshot gives, for each record
`Good` names, its last revision there. `AuditInv` says that the audit list rises
and holds only revisions of `Good`, and that every revision in `stored` is among them: so a change reported stored is listed although later ones of the same
record were reported after it.

### The service on its log (`DurableServiceProofs`)

For the same constants as `ServiceProofs`, from the same assumptions:

| Theorem | Statement |
|---|---|
| `CompletedQuiet` | `DurableSpec => []CompletedStaysQuiet` |
| `NoTaskOrphaned` | `DurableSpec => []NoOrphanTask` |
| `RecoveredLeasesHeld` | `DurableSpec => []ActiveLeaseHeld` |
| `NotDispatchedTwice` | `DurableSpec => NoDoubleDispatch` |
| `CompletionIsLogged` | `DurableSpec => CompletionLogged` |
| `RolledBackIsCleanDurably` | `DurableSpec => []RolledBackStaysClean` |
| `TaskLeaseLogged` | `DurableSpec => LogImplementsTaskLease` |
| `RetriesBoundedDurably` | `DurableWireSpec => []RetryBudget` |
| `LeasesEndDurably` | `DurableWireSpec => []LeaseIffActive` |
| `CompletedCountedDurably` | `DurableWireSpec =>` always, a completed release outside `refused` counts all of its devices |

Both specifications have any number of refused events, in any calls, as well as any
number of restarts. `NoOrphanTask`, `ActiveLeaseHeld`, `RetryBudget` and
`LeaseIffActive` hold of every release all the same; the others hold of the releases
of which the store refused nothing, and `append_dropped` shows why.

None of these is inductive, because a restart turns the log into memory: whatever is
to hold of memory must hold of every state the log can be in between two events. The
invariant `DurableInv` (theorem `DurableInvariant`) relates the two record by record:

- a record no event is owed for is in both, and the same in both unless its release is
  in `refused` (`ReleasesSynced`, `TasksSynced`), except that a panicking retry schedule may have changed a task
  nobody claimed to `rejected` in memory only (`Undone`);
- a record an event is owed for is one call ahead of the log, and the log can follow
  it: the lease may be granted, renewed by its holder or ended, nothing else
  (`TasksFollow`, from `StepMovesLeases` and `TheftStep` of `ServiceProofs`);
- work in flight has a lease, and what is in flight or completed was claimed, on both
  sides (`TasksFine`), so that an `Undone` task holds no lease and is not completed;
- a release that is completed in memory and not in the log has its tasks completed
  in memory (`CompletionDue`, from `EarnedStep`). `LogRelease` writes it when no task
  is owed any more, and then the log has them too;
- completed releases are quiet: memory's tasks under memory's releases, memory's
  tasks under the log's releases, the log's tasks under the log's releases
  (`AllQuiet`). The fourth pair does not hold: the log's tasks may still be in flight
  under a release memory has just completed.

All that compares memory with the log is claimed of the releases outside `refused`
only; the types, the presence of each release a logged task names, and the leases of
work in flight are claimed of all.

The proof has one lemma per step (`CallKeeps`, `LogTaskKeeps`, `LogReleaseKeeps`,
`LogDeviceKeeps`, `RestartKeeps`); what a call does to memory comes from the step
lemmas of `ServiceProofs`, which assume `RecordsOK` only. `RevertedInv` adds, for
`RolledBackStaysClean`, that the tasks of a rolled-back release are neither completed nor
on their way there, in the same three pairs of memory and log as `AllQuiet`: they
may be on the rollback queue again after a restart, but no call claims a task of a
rolled-back release and a task on that queue can only be rolled back. `WireInv` adds, for the
three wire properties, the retry budget and the extent of the lease of every task, and
the counter of every release outside `refused`, in memory and in the log.

### The handlers (`ClaimRaceProofs`)

For any finite set of tasks and any clients:

| Theorem | Statement |
|---|---|
| `HolderIsRecorded` | `Spec => []HolderRecorded` |
| `HoldersAlone` | `Spec => []OneHolder` |

The invariant `RaceInv` follows the calls. `Shaped`: what a handler knows at each
place, and that a claim past its lock holds the mutex. `Apart`: no record is reached
from two tasks, so that a call on one task cannot touch another. For each task outside
`overlapped` there are two more parts. `CleanTask`: a record that is not at work names no
owner, nor does any record or data a call on the task works with; so a report by a
former agent finds no owner to match and changes nothing while the task waits for
the next claim. `TaskInv`: a claim that picked the task is alone with it until it
assigns the record (`Picked`); from then on (`Assigned`), and while an agent holds it
(`Held`), every call that has a pointer for it either keeps owner and work (an
acknowledgement, a start, progress) or is a `complete` not yet written, and the
record it points to, the data it marshalled and the last event all name that agent
(`Belongs`). Writing a `complete`, whoever sent it, empties `holders` and leaves a clean
record (`TaskComplete`).

### Only model-checked

`LeasesReclaimed` and `ClaimsReturn`, which are liveness properties under fairness,
and the five violations.

## 5. Not modelled, and the plan

Not modelled, and why:

- `MemoryStore`, `FileStore`: constructed by tests only; `main` and the commands use
  `DurableStore`.
- `store/maintenance.go`, `store/journal.go`, `DecodeEvents`, `ExportTo`: they read
  files or count lines, and no state of the service depends on them.
- In `DurableStore`: records of another version, lines over 8 MB, a truncation that
  fails, unreadable files, and two writers of one directory.
- `BuildPlan`, `Release.Capacity`, `lease`, `backoff`, `recovery.Once`,
  `ValidateVersion`, `ValidateDevices`: no caller outside tests.
  `BuildPlan` does not agree with `EligibleTasks` (it admits rollback-pending
  releases and counts leased tasks), which matters once somebody calls it.
- Pages, metrics, health, audit summaries, progress, `recovery.Inspect`: pure readers of
  the maps.
- The first test of `recovery.Check` (`check.go:10`), of empty ids: `CreateRelease`
  accepts an empty device name, so the code's states can fail it. `NoOrphanTask` is the
  second test.
- In `DurableService`: the remains of a refused record in the log, which `DurableStore`
  has, and the event of a new release or device that is whole in the file though its
  `Append` failed (at `Sync`), of which memory knows nothing until a restart.
- `config`: read, validated and discarded by `main`.
- JSON and HTTP encoding, status codes, flag parsing, the smoke script.
- Concurrent handlers over releases: two reconciles, or a claim's release transition
  beside a pause. `ClaimRace` has one record per call.
- Go's map race itself, which ends the process: the crash of the other models.

Plan: `ClaimRace` with a release record beside the tasks, so that a claim's release
transition meets a pause and two reconciles meet each other, and its proofs.
