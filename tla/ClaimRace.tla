----------------------------- MODULE ClaimRace -----------------------------
(***************************************************************************)
(* The HTTP handlers run concurrently on one Service.  Each works on a task *)
(* record it finds in State.Tasks: it keeps the pointer, tests the record,  *)
(* assigns its fields in place, and emits: the record is marshalled, the    *)
(* event appended to the log, and apply puts a new record, decoded from the *)
(* event, in the record's place.  Only claims hold a lock, claimMu.         *)
(*                                                                          *)
(* This is the server main starts, without a reaper, and the routes of it   *)
(* that work on one task; none of them ends a rollback.  Releases, limits   *)
(* and time are left out: every release dispatches, no task runs out of     *)
(* attempts, no lease runs out and every retry delay is over.  A pointer is *)
(* an index into heap.                                                      *)
(***************************************************************************)
EXTENDS Naturals, Sequences, FiniteSets

CONSTANTS
  Task,
  Client,      \* the clients, each with the agent's name it sends
  None,        \* no client; nobody holds the mutex
  NoTask,      \* the task of a claim that has not picked one
  MaxEvents    \* bound: no call starts that would log more events

ASSUME RaceAssumption ==
  /\ IsFiniteSet(Task)
  /\ None \notin Client
  /\ NoTask \notin Task
  /\ MaxEvents \in Nat

VARIABLES
  heap,      \* the task records allocated so far
  current,   \* State.Tasks: the pointer to each task's record
  logged,    \* the last event of each task in events.jsonl: the record that a
             \* restart would bring back
  events,    \* the number of events appended since the tasks were created
  claimMu,   \* the client whose handler holds the mutex, or None
  call,      \* the handler at work for each client
  holders,   \* the agents that were given a task which they have not reported
             \* on and nobody has completed since
  overlapped \* the tasks claimed while another call on them was under way, or
             \* completed while a claim of them was

vars == <<heap, current, logged, events, claimMu, call, holders, overlapped>>

Idle == [op |-> "none", at |-> "idle"]

Init ==
  /\ \E f \in [Task -> 1 .. Cardinality(Task)] :
       /\ \A t, u \in Task : f[t] = f[u] => t = u
       /\ current = f
  /\ heap = [i \in 1 .. Cardinality(Task) |-> [status |-> "queued", owner |-> None]]
  /\ logged = [t \in Task |-> [status |-> "queued", owner |-> None]]
  /\ events = 0
  /\ claimMu = None
  /\ call = [c \in Client |-> Idle]
  /\ holders = [t \in Task |-> {}]
  /\ overlapped = {}

-----------------------------------------------------------------------------
(* What each operation asks of a record and makes of it *)

Claims   == {"claim", "claim-rollback"}
Reports  == {"complete", "reject"}
Requests == Reports \cup {"ack", "start", "progress", "done", "retry", "queue-rollback"}

\* Some operations verify the lease; acknowledging and completing do not name
\* an agent.
Admits(op, c, record) ==
  \/ op = "claim" /\ record.status = "queued"
  \/ op = "ack" /\ record.status = "leased"
  \/ op = "start" /\ record.status = "leased" /\ record.owner = c
  \/ /\ op \in {"progress", "done"}
     /\ record.status \in {"installing", "awaiting-confirmation"} /\ record.owner = c
  \/ op = "complete" /\ record.status \in {"installing", "awaiting-confirmation"}
  \/ op = "reject" /\ record.owner = c
  \/ op = "retry" /\ record.status = "rejected"
  \/ op = "queue-rollback" /\ record.status = "completed"
  \/ op = "claim-rollback" /\ record.status = "rollback-queued"

\* Progress is "done" at 100 percent.
StatusAfter(op, status) ==
  CASE op = "claim" -> "leased"
    [] op \in {"ack", "start"} -> "installing"
    [] op = "progress" -> status
    [] op = "done" -> "awaiting-confirmation"
    [] op = "complete" -> "completed"
    [] op = "reject" -> "rejected"
    [] op = "retry" -> "queued"
    [] op = "queue-rollback" -> "rollback-queued"
    [] op = "claim-rollback" -> "rolling-back"

OwnerAfter(op, c, owner) ==
  IF op \in Claims THEN c
  ELSE IF op \in Reports \cup {"queue-rollback"} THEN None ELSE owner

-----------------------------------------------------------------------------
(* A call, step by step *)

At(c, place) == call[c].at = place

Go(c, place) == call' = [call EXCEPT ![c].at = place]

\* Fault: a claim that finds no work returns without unlocking.
ReturnLocked(c) ==
  /\ call' = [call EXCEPT ![c] = Idle]
  /\ claimMu' = IF claimMu = c /\ call[c].task # NoTask THEN None ELSE claimMu

\* The handler returns; a claim unlocks by defer.
Return(c) ==
  /\ call' = [call EXCEPT ![c] = Idle]
  /\ claimMu' = IF claimMu = c THEN None ELSE claimMu

\* Another call on t is under way that the mutex does not keep apart from c's.
Underway(t, c) ==
  \E d \in Client \ {c} :
    /\ call[d] # Idle /\ call[d].task = t
    /\ ~(call[c].op = "claim" /\ call[d].op = "claim")

\* A claim of t is under way, and has picked it.
Claiming(t) == \E d \in Client : call[d].op \in Claims /\ call[d].task = t

Room == events + Cardinality({c \in Client : call[c] # Idle}) < MaxEvents

Started(c, op, place, t) ==
  call' = [call EXCEPT ![c] = [op |-> op, at |-> place, task |-> t,
                               object |-> 0, data |-> [status |-> "queued", owner |-> None]]]

\* A request that names its task may come from anyone.  An agent that sends a
\* report gives the task up.
Request(c, op, t) ==
  /\ call[c] = Idle /\ Room
  /\ Started(c, op, "lookup", t)
  /\ holders' = IF op \in Reports THEN [holders EXCEPT ![t] = @ \ {c}] ELSE holders
  /\ UNCHANGED <<heap, current, logged, events, claimMu, overlapped>>

RequestClaim(c, op) ==
  /\ call[c] = Idle /\ Room
  /\ Started(c, op, IF op = "claim" THEN "lock" ELSE "pick", NoTask)
  /\ UNCHANGED <<heap, current, logged, events, claimMu, holders, overlapped>>

\* Fault: the mutex is not taken.
LockNotTaken(c) ==
  /\ At(c, "lock")
  /\ Go(c, "pick")
  /\ UNCHANGED <<heap, current, logged, events, claimMu, holders, overlapped>>

Lock(c) ==
  /\ At(c, "lock")
  /\ claimMu = None
  /\ claimMu' = c
  /\ Go(c, "pick")
  /\ UNCHANGED <<heap, current, logged, events, holders, overlapped>>

\* The task is chosen by its status.  Task.Lease tests it again; a rollback
\* claim does not.
Pick(c) ==
  LET found == {t \in Task : Admits(call[c].op, c, heap[current[t]])} IN
  /\ At(c, "pick")
  /\ \/ /\ found = {}
        /\ Return(c)
        /\ UNCHANGED overlapped
     \/ \E t \in found :
          /\ call' = [call EXCEPT ![c].task = t, ![c].object = current[t],
                        ![c].at = IF call[c].op = "claim" THEN "test" ELSE "write"]
          /\ overlapped' = overlapped \cup IF Underway(t, c) THEN {t} ELSE {}
          /\ UNCHANGED claimMu
  /\ UNCHANGED <<heap, current, logged, events, holders>>

Lookup(c) ==
  LET object == current[call[c].task] IN
  /\ At(c, "lookup")
  /\ IF Admits(call[c].op, c, heap[object])
     THEN /\ call' = [call EXCEPT ![c].object = object, ![c].at = "write"]
          /\ UNCHANGED claimMu
     ELSE Return(c)
  /\ UNCHANGED <<heap, current, logged, events, holders, overlapped>>

LeaseTest(c) ==
  /\ At(c, "test")
  /\ IF Admits(call[c].op, c, heap[call[c].object])
     THEN Go(c, "write") /\ UNCHANGED claimMu
     ELSE Return(c)
  /\ UNCHANGED <<heap, current, logged, events, holders, overlapped>>

\* Whoever completes the task ends the work of the agent that has it.
Write(c) ==
  LET t == call[c].task
      ends == call[c].op = "complete" IN
  /\ At(c, "write")
  /\ heap' = [heap EXCEPT ![call[c].object] =
       [status |-> StatusAfter(call[c].op, @.status),
        owner |-> OwnerAfter(call[c].op, c, @.owner)]]
  /\ holders' = IF ends THEN [holders EXCEPT ![t] = {}] ELSE holders
  /\ overlapped' = overlapped \cup IF ends /\ Claiming(t) THEN {t} ELSE {}
  /\ Go(c, "marshal")
  /\ UNCHANGED <<current, logged, events, claimMu>>

Marshal(c) ==
  /\ At(c, "marshal")
  /\ call' = [call EXCEPT ![c].data = heap[call[c].object], ![c].at = "append"]
  /\ UNCHANGED <<heap, current, logged, events, claimMu, holders, overlapped>>

AppendEvent(c) ==
  /\ At(c, "append")
  /\ logged' = [logged EXCEPT ![call[c].task] = call[c].data]
  /\ events' = events + 1
  /\ Go(c, "apply")
  /\ UNCHANGED <<heap, current, claimMu, holders, overlapped>>

\* The answer of a claim makes its client a holder.
Apply(c) ==
  LET t == call[c].task IN
  /\ At(c, "apply")
  /\ heap' = Append(heap, call[c].data)
  /\ current' = [current EXCEPT ![t] = Len(heap')]
  /\ holders' = [holders EXCEPT ![t] = IF call[c].op \in Claims THEN @ \cup {c} ELSE @]
  /\ Return(c)
  /\ UNCHANGED <<logged, events, overlapped>>

Step(c) ==
  Lock(c) \/ Pick(c) \/ Lookup(c) \/ LeaseTest(c) \/ Write(c) \/ Marshal(c)
  \/ AppendEvent(c) \/ Apply(c)

Next ==
  \/ \E c \in Client, t \in Task, op \in Requests : Request(c, op, t)
  \/ \E c \in Client, op \in Claims : RequestClaim(c, op)
  \/ \E c \in Client : Step(c)

\* A goroutine that can go on does, and a Go mutex starves no waiter.  Only a
\* handler that waits for the mutex can be held up, so strong fairness says no
\* more than that.
Spec == Init /\ [][Next]_vars /\ \A c \in Client : SF_vars(Step(c))

-----------------------------------------------------------------------------
(* Properties *)

(* Two agents never hold one task, however their calls interleave with each   *)
(* other and with those of clients that do not have it: a task claimed while  *)
(* no other call on it was under way is not given away again before its agent *)
(* reports or someone completes it.                                           *)
OneHolder == \A t \in Task \ overlapped : Cardinality(holders[t]) <= 1

(* What such an agent was told is what a restart would rebuild and what the   *)
(* handlers see, until it reports or someone completes the task: the task's   *)
(* last event and its record name the holder.                                 *)
HolderRecorded ==
  \A t \in Task \ overlapped : \A a \in holders[t] :
    heap[current[t]].owner = a /\ logged[t].owner = a

(* No claim waits for ever: whoever asks for work gets an answer.             *)
ClaimsReturn == \A c \in Client : call[c].op = "claim" ~> call[c] = Idle
=============================================================================
