--------------------------- MODULE DurableService ---------------------------
(****************************************************************************)
(* The service on its event log.  A call changes memory and emits one event *)
(* for each record it changed; a crash may come between any two of them, in *)
(* the middle of a call, and the restart goes on with what the log holds.   *)
(* The log itself is ideal here, as DurableStore shows it to be: an event   *)
(* is in it or not, and a restart rebuilds each record from its last one.   *)
(*                                                                          *)
(* Memory is lost with the crash and calls are serialised, so the moment at *)
(* which a call changes memory does not matter: Call makes the whole change *)
(* and lists the events it owes, LogEvent writes the next of them.          *)
(*                                                                          *)
(* The store may refuse an event (StoreFails).  The record it was to store  *)
(* is changed in memory all the same, and the log stays behind until a      *)
(* later call emits the record again or a restart takes the change back.    *)
(* UpdateTask, reconcile and the reaper drop emit's error and go on; the    *)
(* other calls return, with an event that was refused or with one that is   *)
(* in the log when only the snapshot failed.  A refused event leaves        *)
(* nothing in the log here: the remains of a record are in DurableStore,    *)
(* and the event of a new release or device that is refused yet whole in    *)
(* the file, of which memory would know nothing, is left out.               *)
(****************************************************************************)
EXTENDS CutCalls

CONSTANT MaxRefusals   \* bound: the calls of which the store refuses events

ASSUME RefusalAssumption == MaxRefusals \in Nat

VARIABLES
  logged,   \* releases, devices and tasks a restart now would come up with
  todo,     \* the records whose events the current call has yet to emit
  refusals, \* the number of calls of which the store refused events
  refused   \* history: the releases of which the store ever refused an event

history == <<refusals, refused>>
durableVars == <<now, releases, devices, tasks, logged, todo, history>>

Nothing == [releases |-> {}, devices |-> {}, tasks |-> {}]

DurableInit ==
  /\ Init
  /\ logged = [releases |-> EmptyMap, devices |-> EmptyMap, tasks |-> EmptyMap]
  /\ todo = Nothing
  /\ refusals = 0
  /\ refused = {}

-----------------------------------------------------------------------------
(* Calls and the events they emit *)

\* The keys whose record differs in the maps f and g.
Differing(f, g) == {k \in DOMAIN g : k \notin DOMAIN f \/ f[k] # g[k]}

\* The records a call changes.
Changed == [releases |-> Differing(releases, releases'),
            devices |-> Differing(devices, devices'),
            tasks |-> Differing(tasks, tasks')]

\* The records the log is behind on: an event of theirs was refused, or a rejection
\* panicked, which of the calls that leave the task as it is only another reject
\* would log.
Behind == [releases |-> refused \cap Differing(logged.releases, releases),
           devices |-> Differing(logged.devices, devices),
           tasks |-> {t \in Differing(logged.tasks, tasks) :
                        ReleaseOf(t) \in refused \/ UpdateTaskReject(t)}]

Parts(s) == [releases : SUBSET s.releases, devices : SUBSET s.devices,
             tasks : SUBSET s.tasks]

\* A retry schedule that panics ends the call before its event.
Panics ==
  \E t \in DOMAIN tasks, a \in Caller :
    /\ RetryPanics(tasks[t], releases[ReleaseOf(t)].policy.retryLimit)
    /\ RejectTask(t, a) \/ FailTask(t, a, TRUE)

\* Calls that go on when emit fails, and emit their other events.
DropsErrors ==
  \/ \E t \in DOMAIN tasks : AckTask(t) \/ UpdateTaskReject(t) \/ CompleteTask(t)
  \/ ReapExpired

\* The call emits the events of what it changes but for the lost ones.  It may
\* also emit a record that it leaves as it is, which matters only if the log is
\* behind on it: reconcile, a repeated report, pause or rollback do so.
Emits(lost) ==
  /\ LET changed == Changed IN
     \E again \in Parts(Behind) :
       todo' = [releases |-> (changed.releases \cup again.releases) \ lost.releases,
                devices |-> (changed.devices \cup again.devices) \ lost.devices,
                tasks |-> (changed.tasks \cup again.tasks) \ lost.tasks]
  /\ IF lost = Nothing THEN UNCHANGED history
     ELSE /\ refusals' = refusals + 1
          /\ refused' = refused \cup lost.releases \cup {ReleaseOf(t) : t \in lost.tasks}
  /\ UNCHANGED logged

EmitsAll ==
  IF Panics THEN todo' = Nothing /\ UNCHANGED <<logged, history>> ELSE Emits(Nothing)

\* The store refuses the lost events of a call that has its whole effect or is cut
\* short.  A call that does not drop the error ends with the first of them: that
\* of the release, which comes last, or of the only task changed so far.  A new
\* record without its event is not there at all.
EmitsLess ==
  /\ ~Panics
  /\ DOMAIN releases' = DOMAIN releases /\ DOMAIN devices' = DOMAIN devices
  /\ \E lost \in Parts(Changed) \ {Nothing} :
       /\ \/ DropsErrors
          \/ lost.tasks = {}
          \/ Changed.releases = {} /\ Cardinality(lost.tasks) = 1
       /\ Emits(lost)

\* QueueRollback ends at the event of a task, stored or not; that of the release,
\* which it changed first, is not emitted.
EmitsNoRelease ==
  \E lost \in Parts(Changed) :
    /\ lost.releases = Changed.releases /\ Cardinality(lost.tasks) <= 1
    /\ Emits(lost)

StoreFails == refusals < MaxRefusals

\* A call is also cut short when its event is stored and only the snapshot fails.
Call ==
  /\ todo = Nothing
  /\ \/ Next /\ EmitsAll
     \/ /\ StoreFails
        /\ \/ Next /\ EmitsLess
           \/ CutNext /\ (Emits(Nothing) \/ EmitsLess)
           \/ CutQueueNext /\ EmitsNoRelease

WireCall ==
  /\ todo = Nothing
  /\ \/ WireNext /\ EmitsAll
     \/ /\ StoreFails
        /\ \/ WireNext /\ EmitsLess
           \/ CutWireNext /\ (Emits(Nothing) \/ EmitsLess)
           \/ CutQueueNext /\ EmitsNoRelease

\* Fault: tasks are logged as soon as they are made.
LoggableTaskAnyTime(t) == TRUE

\* CreateRelease logs the release and then its tasks in device order; the other
\* calls log their tasks in any order.
LoggableTask(t) ==
  /\ ReleaseOf(t) \in DOMAIN logged.releases
  /\ \A u \in TasksOf(ReleaseOf(t)) : u[2] < t[2] => u \in DOMAIN logged.tasks

\* Fault: the release may be logged before the tasks that settled it.
LoggableReleaseAnyTime(r) == TRUE

\* A release that is not new comes after the tasks of the call.
LoggableRelease(r) == r \in DOMAIN logged.releases => todo.tasks = {}

LogTask(t) ==
  /\ t \in todo.tasks
  /\ LoggableTask(t)
  /\ logged' = [logged EXCEPT !.tasks = Put(@, t, tasks[t])]
  /\ todo' = [todo EXCEPT !.tasks = @ \ {t}]
  /\ UNCHANGED <<vars, history>>

LogRelease(r) ==
  /\ r \in todo.releases
  /\ LoggableRelease(r)
  /\ logged' = [logged EXCEPT !.releases = Put(@, r, releases[r])]
  /\ todo' = [todo EXCEPT !.releases = @ \ {r}]
  /\ UNCHANGED <<vars, history>>

LogDevice(d) ==
  /\ d \in todo.devices
  /\ logged' = [logged EXCEPT !.devices = Put(@, d, devices[d])]
  /\ todo' = [todo EXCEPT !.devices = @ \ {d}]
  /\ UNCHANGED <<vars, history>>

LogEvent ==
  \/ \E t \in DOMAIN tasks : LogTask(t)
  \/ \E r \in DOMAIN releases : LogRelease(r)
  \/ \E d \in DOMAIN devices : LogDevice(d)

-----------------------------------------------------------------------------
(* Crash and restart *)

\* Fault: a restart puts the work it finds in flight back into the queue.
RestartRequeues ==
  /\ releases' = logged.releases
  /\ devices' = logged.devices
  /\ tasks' = [t \in DOMAIN logged.tasks |->
       IF logged.tasks[t].status = "leased"
       THEN Settle(logged.tasks[t], "queued", now) ELSE logged.tasks[t]]
  /\ todo' = Nothing
  /\ UNCHANGED <<now, logged, history>>

\* Fault: the lease of a task is not among the fields that are stored.
RestartWithoutLeases ==
  /\ releases' = logged.releases
  /\ devices' = logged.devices
  /\ tasks' = [t \in DOMAIN logged.tasks |-> ReleaseLease(logged.tasks[t])]
  /\ todo' = Nothing
  /\ UNCHANGED <<now, logged, history>>

\* Service.Recover.  Nothing of the interrupted call is finished or undone, and
\* the loaded state is not checked.
Restart ==
  /\ releases' = logged.releases
  /\ devices' = logged.devices
  /\ tasks' = logged.tasks
  /\ todo' = Nothing
  /\ UNCHANGED <<now, logged, history>>

DurableNext     == Call \/ LogEvent \/ Restart
DurableWireNext == WireCall \/ LogEvent \/ Restart

DurableSpec     == DurableInit /\ [][DurableNext]_durableVars
DurableWireSpec == DurableInit /\ [][DurableWireNext]_durableVars

-----------------------------------------------------------------------------
(* Properties.  Those that relate several records speak of the releases of     *)
(* which the store refused no event; CompletionStored shows what becomes of the *)
(* others.                                                                     *)

(* A completed release stays quiet through crashes: none of its tasks is in   *)
(* flight again, whichever events of whichever call a crash keeps from the    *)
(* log.  (A rolled-back one may not: a rejection that panics takes an         *)
(* unclaimed task off the rollback queue in memory only, and a restart puts   *)
(* it back.)                                                                  *)
CompletedStaysQuiet ==
  \A t \in DOMAIN tasks :
    /\ ReleaseOf(t) \notin refused
    /\ releases[ReleaseOf(t)].status = "completed"
    => tasks[t].status \notin InFlight

(* A release that was rolled back has no device on the new firmware, through  *)
(* any crash between the events of its rollback: no task of it is completed.  *)
RolledBackStaysClean ==
  \A t \in DOMAIN tasks :
    /\ ReleaseOf(t) \notin refused
    /\ releases[ReleaseOf(t)].status = "rolled-back"
    => tasks[t].status # "completed"

(* A restart does not dispatch work twice: a lease that is on disk and still  *)
(* runs is never replaced there by another agent's, whatever crashes between  *)
(* the claim and the next one.                                                *)
NoDoubleDispatch ==
  [][\A t \in DOMAIN logged.tasks :
       LET task == logged.tasks[t] IN
       /\ ReleaseOf(t) \notin refused
       /\ IsActive(task) /\ ~LeaseExpired(task, now)
       => logged'.tasks[t].leaseOwner \in {task.leaseOwner, NoAgent}]_durableVars

\* The log comes to call r completed without a completed task for each device.
CompletedUnearned(r) ==
  /\ logged.releases[r].status # "completed"
  /\ logged'.releases[r].status = "completed"
  /\ \E t \in TaskIds(r, logged.releases[r].policy) :
       t \notin DOMAIN logged.tasks \/ logged.tasks[t].status # "completed"

(* The log calls a release completed only when it holds a completed task for  *)
(* each of its devices: a release whose creation or completion was cut short  *)
(* by a crash is never rebuilt as completed without the work.                 *)
CompletionLogged ==
  [][\A r \in DOMAIN logged.releases \ refused : ~CompletedUnearned(r)]_durableVars

(* project_design.md: "Every accepted transition is represented by an event   *)
(* and reflected in the snapshot".  So the log would hold the completed tasks *)
(* of every release it calls completed.                                       *)
CompletionStored ==
  [][\A r \in DOMAIN logged.releases : ~CompletedUnearned(r)]_durableVars

(* Whatever moment a restart comes at and whatever the store refused, the     *)
(* state it rebuilds has no task without its release: the second test of      *)
(* recovery.Check.  Its first test, of empty ids, is not claimed:              *)
(* CreateRelease accepts an empty device name.                                *)
NoOrphanTask == \A t \in DOMAIN logged.tasks : ReleaseOf(t) \in DOMAIN logged.releases

LoggedLeaseOn(t) ==
  IF /\ t \in DOMAIN logged.tasks /\ IsActive(logged.tasks[t])
     /\ ReleaseOf(t) \notin refused
  THEN {[holder |-> logged.tasks[t].leaseOwner, until |-> logged.tasks[t].leaseUntil]}
  ELSE {}

LoggedLeaseSpec == INSTANCE TaskLease WITH
  Task <- TaskId, Holder <- Caller, lease <- [t \in TaskId |-> LoggedLeaseOn(t)]

(* The leases on disk, which are all that a restart knows of, keep the         *)
(* promise of TaskLease through crashes at any moment: one that a restart       *)
(* brings back was granted when there was none, and is renewed in time, by its  *)
(* holder alone, before it ends.                                                *)
LogImplementsTaskLease == LoggedLeaseSpec!Spec
=============================================================================
