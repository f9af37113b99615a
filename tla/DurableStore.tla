---------------------------- MODULE DurableStore ----------------------------
(***************************************************************************)
(* internal/store/durable.go under the one caller it has, Service.emit: an *)
(* event is appended to events.jsonl and synced, applied to the maps in     *)
(* memory, and the maps are written to snapshot.json by rename.  A restart  *)
(* (Service.Recover) loads the snapshot and replays the whole log over it.  *)
(*                                                                          *)
(* A record is its revision: a number no two changes share and later        *)
(* changes have a larger one of, as Event.ID and UpdatedAt are in the code. *)
(* Revision 0 stands for an aggregate that does not exist.  The log is a    *)
(* sequence of lines; a line is valid if it decodes to an event.            *)
(*                                                                          *)
(* Calls are serialised here and each emits one event.  What the callers do *)
(* with emit's error is the matter of CutCalls and DurableService.          *)
(***************************************************************************)
EXTENDS Naturals, Sequences

CONSTANTS
  Aggregate,
  CrashTails,    \* what a crash during the write of a record may leave of it
  ErrorTails,    \* what a write or sync that returns an error may leave of it
  MaxRevision    \* bound: the number of changes made

\* How much of a record reaches the file: all of it but the final newline is
\* "unterminated", and decodes.
Remnant == {"nothing", "part", "unterminated", "all"}

ASSUME StoreAssumption ==
  /\ Aggregate # {}
  /\ CrashTails \subseteq Remnant
  /\ ErrorTails \subseteq Remnant
  /\ MaxRevision \in Nat

VARIABLES
  log,        \* events.jsonl, line by line
  open,       \* the last line of the log has no newline yet
  snapshot,   \* snapshot.json; EmptyState while there is none
  memory,     \* Service.State
  stage,      \* where emit is: "idle", "append", "snapshot"; or "down"
  pending,    \* the event emit is at work on
  revision,   \* the last revision used
  acked,      \* the latest revision of each aggregate whose emit returned nil
  stored      \* history: all revisions whose emit returned nil

vars == <<log, open, snapshot, memory, stage, pending, revision, acked, stored>>

\* Fault: the maps of an empty state are left nil.
EmptyStateNil == [records |-> << >>, audit |-> << >>]

EmptyState == [records |-> [a \in Aggregate |-> 0], audit |-> << >>]

Line(event, valid) ==
  [aggregate |-> event.aggregate, revision |-> event.revision, valid |-> valid]

Init ==
  /\ log = << >>
  /\ open = FALSE
  /\ snapshot = EmptyState
  /\ memory = EmptyState
  /\ stage = "idle"
  /\ pending = [aggregate |-> CHOOSE a \in Aggregate : TRUE, revision |-> 0]
  /\ revision = 0
  /\ acked = [a \in Aggregate |-> 0]
  /\ stored = {}

-----------------------------------------------------------------------------
(* Reading the log *)

FirstInvalid(lines, k) ==
  /\ k \in DOMAIN lines
  /\ ~lines[k].valid
  /\ \A j \in 1 .. k - 1 : lines[j].valid

\* Fault: the last record before a corrupt one is cut off with it.
CutTooMuch(lines) ==
  IF \E k \in DOMAIN lines : FirstInvalid(lines, k)
  THEN LET k == CHOOSE i \in DOMAIN lines : FirstInvalid(lines, i)
       IN  SubSeq(lines, 1, IF k > 1 THEN k - 2 ELSE 0)
  ELSE lines

\* The lines LoadReport returns: it stops at the first that does not decode.
ValidPrefix(lines) ==
  IF \E k \in DOMAIN lines : FirstInvalid(lines, k)
  THEN SubSeq(lines, 1, (CHOOSE k \in DOMAIN lines : FirstInvalid(lines, k)) - 1)
  ELSE lines

LastLine(lines, a, i) ==
  /\ i \in DOMAIN lines
  /\ lines[i].aggregate = a
  /\ \A j \in DOMAIN lines : j > i => lines[j].aggregate # a

\* a's revision after replaying lines over a state where it is old.
Latest(lines, a, old) ==
  IF \E i \in DOMAIN lines : LastLine(lines, a, i)
  THEN lines[CHOOSE i \in DOMAIN lines : LastLine(lines, a, i)].revision
  ELSE old

\* Fault: the audit list of the snapshot is kept and the replay added to it.
RebuiltAuditTwice(snap, lines) ==
  [records |-> [a \in Aggregate |-> Latest(lines, a, snap.records[a])],
   audit |-> snap.audit \o [i \in DOMAIN lines |-> lines[i].revision]]

\* The state after replaying lines over the snapshot snap.  The audit list is
\* dropped if there is anything to replay, and rebuilt from it.
Rebuilt(snap, lines) ==
  [records |-> [a \in Aggregate |-> Latest(lines, a, snap.records[a])],
   audit |-> IF lines = << >> THEN snap.audit
             ELSE [i \in DOMAIN lines |-> lines[i].revision]]

\* What a restart now would come up with.
OnDisk == Rebuilt(snapshot, ValidPrefix(log))

-----------------------------------------------------------------------------
(* Writing the log *)

\* Bytes written behind a line that has no newline become part of that line,
\* which no longer decodes.
Written(event, tail) ==
  /\ log' = IF tail = "nothing" THEN log
            ELSE IF open THEN [log EXCEPT ![Len(log)].valid = FALSE]
            ELSE Append(log, Line(event, tail # "part"))
  /\ open' = IF tail = "nothing" THEN open ELSE tail \in {"part", "unterminated"}

Truncated ==
  /\ log' = ValidPrefix(log)
  /\ open' = (open /\ log' = log)

Applied(state, event) ==
  [records |-> [state.records EXCEPT ![event.aggregate] = event.revision],
   audit |-> Append(state.audit, event.revision)]

-----------------------------------------------------------------------------
(* emit *)

\* A handler changes an aggregate.  Most change an existing record in place,
\* before the event; RegisterDevice and CreateRelease leave it to the event.
Change(a) ==
  /\ stage = "idle" /\ revision < MaxRevision
  /\ revision' = revision + 1
  /\ pending' = [aggregate |-> a, revision |-> revision']
  /\ \/ UNCHANGED memory
     \/ memory.records[a] # 0 /\ memory' = [memory EXCEPT !.records[a] = revision']
  /\ stage' = "append"
  /\ UNCHANGED <<log, open, snapshot, acked, stored>>

AppendEvent ==
  /\ stage = "append"
  /\ Written(pending, "all")
  /\ memory' = Applied(memory, pending)
  /\ stage' = "snapshot"
  /\ UNCHANGED <<snapshot, pending, revision, acked, stored>>

\* Fault: emit drops the error of Append.
AppendFailsUnnoticed ==
  /\ stage = "append"
  /\ \E tail \in ErrorTails : Written(pending, tail)
  /\ acked' = [acked EXCEPT ![pending.aggregate] = pending.revision]
  /\ stored' = stored \cup {pending.revision}
  /\ stage' = "idle"
  /\ UNCHANGED <<snapshot, memory, pending, revision>>

\* emit returns the error; what the handler changed in memory stays.
AppendFails ==
  /\ stage = "append"
  /\ \E tail \in ErrorTails : Written(pending, tail)
  /\ stage' = "idle"
  /\ UNCHANGED <<snapshot, memory, pending, revision, acked, stored>>

WriteSnapshot ==
  /\ stage = "snapshot"
  /\ snapshot' = memory
  /\ acked' = [acked EXCEPT ![pending.aggregate] = pending.revision]
  /\ stored' = stored \cup {pending.revision}
  /\ stage' = "idle"
  /\ UNCHANGED <<log, open, memory, pending, revision>>

\* Up to the rename the old snapshot stays in place; the sync after it can
\* still fail.
SnapshotFails ==
  /\ stage = "snapshot"
  /\ snapshot' \in {snapshot, memory}
  /\ stage' = "idle"
  /\ UNCHANGED <<log, open, memory, pending, revision, acked, stored>>

-----------------------------------------------------------------------------
(* Loading *)

\* Service.RecoveryInfo, behind GET /healthz, and Export load the files of the
\* running store, and truncate its log.
LoadLive ==
  /\ stage # "down"
  /\ Truncated
  /\ UNCHANGED <<snapshot, memory, stage, pending, revision, acked, stored>>

\* A crash cuts short the write of a record or of a snapshot.
Crash ==
  /\ stage # "down"
  /\ stage' = "down"
  /\ memory' = EmptyState
  /\ IF stage = "append"
     THEN \E tail \in CrashTails : Written(pending, tail)
     ELSE UNCHANGED <<log, open>>
  /\ snapshot' \in {snapshot} \cup IF stage = "snapshot" THEN {memory} ELSE {}
  /\ UNCHANGED <<pending, revision, acked, stored>>

Recover ==
  /\ stage = "down"
  /\ Truncated
  /\ memory' = OnDisk
  /\ stage' = "idle"
  /\ UNCHANGED <<snapshot, pending, revision, acked, stored>>

Next ==
  \/ \E a \in Aggregate : Change(a)
  \/ AppendEvent \/ AppendFails \/ WriteSnapshot \/ SnapshotFails
  \/ LoadLive \/ Crash \/ Recover

Spec == Init /\ [][Next]_vars

-----------------------------------------------------------------------------
(* Properties *)

Event == [aggregate : Aggregate, revision : 0 .. revision]
State == [records : [Aggregate -> 0 .. revision], audit : Seq(0 .. revision)]

(* The files and the maps hold records of revisions given out so far.         *)
TypeOK ==
  /\ revision \in 0 .. MaxRevision
  /\ log \in Seq([aggregate : Aggregate, revision : 0 .. revision, valid : BOOLEAN])
  /\ open \in BOOLEAN
  /\ snapshot \in State
  /\ memory \in State
  /\ stage \in {"idle", "append", "snapshot", "down"}
  /\ pending \in Event
  /\ acked \in [Aggregate -> 0 .. revision]
  /\ stored \subseteq 0 .. revision

(* A restart does not move state back: whatever moment it comes at, it        *)
(* rebuilds every change emit reported as stored, or a later one, and while   *)
(* the service runs it shows no older one.                                    *)
AckedSurvives ==
  \A a \in Aggregate :
    /\ acked[a] <= OnDisk.records[a]
    /\ stage # "down" => acked[a] <= memory.records[a]

Increasing(s) == \A i, j \in DOMAIN s : i < j => s[i] < s[j]

(* The audit list names every change that emit ever reported as stored, once  *)
(* and in the order the changes were made, through restarts too; it invents   *)
(* none.                                                                      *)
AuditFaithful ==
  stage # "down" =>
    /\ Increasing(memory.audit)
    /\ \A i \in DOMAIN memory.audit :
         \E k \in DOMAIN log : log[k].revision = memory.audit[i]
    /\ \A n \in stored : \E i \in DOMAIN memory.audit : memory.audit[i] = n

(* The log, the snapshot and the recovery together are the log the service    *)
(* relies on.                                                                 *)
Abstract == INSTANCE EventLog WITH rebuilt <- OnDisk.records, acked <- acked
ImplementsEventLog == Abstract!Spec
=============================================================================
