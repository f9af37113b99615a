-------------------------- MODULE ClaimRaceProofs --------------------------
(***************************************************************************)
(* Proofs about ClaimRace, for any number of tasks and clients.             *)
(*                                                                          *)
(* HolderRecorded is not inductive: it says nothing of the calls under way. *)
(* The invariant here follows a task that is not in overlapped.  No record  *)
(* of it names an owner unless its status is one of work (Clean), so that   *)
(* nobody's report meets it while it waits to be claimed.  A claim has      *)
(* picked and not yet assigned it (Picked), has assigned it and is on its   *)
(* way to the log (Assigned), or its client was answered (Held).  In the    *)
(* last two, whatever call is at work on the task works on a record that    *)
(* names the same client, until a completion is written.                    *)
(***************************************************************************)
EXTENDS ClaimRace, SequenceTheorems, FiniteSetTheorems, TLAPS

-----------------------------------------------------------------------------
(* The inductive invariant *)

Ops == Claims \cup Requests
Work == {"leased", "installing", "awaiting-confirmation", "rolling-back"}
Owner == Client \cup {None}
Status == Work \cup {"queued", "completed", "rejected", "rollback-queued"}
Record == [status : Status, owner : Owner]

\* The operations that leave a task with its owner, and at work.
Keeps == {"ack", "start", "progress", "done"}

\* The places of a handler that has a pointer, and those before and behind the
\* assignment.
Before == {"test", "write"}
Behind == {"marshal", "append", "apply"}

Places == {"lock", "pick", "lookup"} \cup Before \cup Behind

Busy == [op : Ops, at : Places, task : Task \cup {NoTask}, object : Nat, data : Record]

TypeInv ==
  /\ heap \in Seq(Record)
  /\ current \in [Task -> DOMAIN heap]
  /\ logged \in [Task -> Record]
  /\ call \in [Client -> {Idle} \cup Busy]
  /\ holders \in [Task -> SUBSET Client]

\* c's handler has a pointer to a record of task t.
On(c, t) == call[c].at \in Before \cup Behind /\ call[c].task = t

\* What its place says of the handler k of c, when the records are those at dom
\* and mu holds the mutex.
Shaped(c, k, dom, mu) ==
  /\ k.at \in {"lock", "test"} => k.op = "claim"
  /\ k.at = "lookup" => k.op \notin Claims /\ k.task \in Task
  /\ k.at = "pick" => k.op \in Claims
  /\ k.at \in {"lock", "pick"} => k.task = NoTask
  /\ k.at \in Before \cup Behind => k.task \in Task /\ k.object \in dom
  /\ k.op = "claim" /\ k.at # "lock" => mu = c

CallShape == \A c \in Client : Shaped(c, call[c], DOMAIN heap, claimMu)

\* No record is reached from two tasks.
Apart ==
  /\ \A t, u \in Task : t # u => current[t] # current[u]
  /\ \A c \in Client, t, u \in Task :
       On(c, t) /\ t # u => call[c].object # current[u]
  /\ \A c, d \in Client, t, u \in Task :
       On(c, t) /\ On(d, u) /\ t # u => call[c].object # call[d].object

\* Only a task at work has an owner.
Clean(record) == record.owner # None => record.status \in Work

CleanTask(t) ==
  /\ Clean(heap[current[t]])
  /\ \A d \in Client : On(d, t) =>
       /\ Clean(heap[call[d].object])
       /\ call[d].at \in {"append", "apply"} => Clean(call[d].data)
       /\ call[d].op = "retry" /\ call[d].at \in Before => heap[call[d].object].owner = None

Owned(record, a) == record.owner = a /\ record.status \in Work

\* t's record names a, and so does all a call on t reads or has read, up to a
\* completion that is not written yet.
Belongs(t, a) ==
  /\ Owned(heap[current[t]], a)
  /\ \A d \in Client :
       /\ call[d] # Idle /\ call[d].task = t =>
            call[d].op \notin IF d = a THEN Reports ELSE Claims
       /\ On(d, t) =>
            /\ \/ call[d].op \in Keeps
               \/ call[d].op = "complete" /\ call[d].at \in Before
               \/ d = a /\ call[d].op \in Claims /\ call[d].at \in Behind
            /\ Owned(heap[call[d].object], a)
            /\ call[d].at \in {"append", "apply"} => Owned(call[d].data, a)

\* c has picked t and not assigned it yet.
Picked(c, t) ==
  /\ call[c].object = current[t]
  /\ Admits(call[c].op, c, heap[current[t]])
  /\ holders[t] = {}
  /\ \A d \in Client \ {c} :
       call[d] # Idle /\ call[d].task = t => call[d].at = "lookup" /\ call[d].op \notin Claims

Assigned(c, t) ==
  /\ Belongs(t, c)
  /\ holders[t] = {}
  /\ call[c].at = "apply" => logged[t].owner = c

Held(t, a) ==
  /\ Belongs(t, a)
  /\ logged[t].owner = a
  /\ \A d \in Client : On(d, t) => call[d].op \notin Claims

TaskInv(t) ==
  /\ \A c \in Client : On(c, t) /\ call[c].op \in Claims =>
       IF call[c].at \in Before THEN Picked(c, t) ELSE Assigned(c, t)
  /\ \A a \in holders[t] : Held(t, a)

RaceInv ==
  /\ TypeInv /\ CallShape /\ Apart
  /\ \A t \in Task \ overlapped : CleanTask(t) /\ TaskInv(t)

-----------------------------------------------------------------------------
(* What the steps do to the handler that takes them *)

(* The operation of a request changes the record's status and owner to ones   *)
(* of their types.                                                            *)
LEMMA EffectFacts ==
  ASSUME NEW op \in Ops, NEW record \in Record, NEW c \in Client
  PROVE  LET s == StatusAfter(op, record.status)
             o == OwnerAfter(op, c, record.owner) IN
         /\ s \in Status /\ o \in Owner
         /\ op \in Claims => s \in Work /\ o = c
         /\ op \in Keeps => o = record.owner /\ (record.status \in Work => s \in Work)
         /\ op \in Keeps \ {"progress"} => s \in Work
         /\ op = "progress" => s = record.status
         /\ op = "retry" => o = record.owner
         /\ op \in Reports \cup {"queue-rollback"} => o = None
         /\ op \in Claims \cup Keeps \cup {"retry"} \cup Reports \cup {"queue-rollback"}
<1>1. op \in Claims \cup Keeps \cup {"retry"} \cup Reports \cup {"queue-rollback"}
  BY DEF Ops, Requests, Keeps
<1>2. OwnerAfter(op, c, record.owner) \in Owner
  BY DEF OwnerAfter, Record, Owner
<1>3. StatusAfter(op, record.status) \in Status
  BY DEF StatusAfter, Record, Status, Work, Ops, Claims, Requests, Reports
<1>4. op \in Claims \cup (Keeps \ {"progress"}) => StatusAfter(op, record.status) \in Work
  BY DEF StatusAfter, Claims, Keeps, Work
<1>5. op = "progress" => StatusAfter(op, record.status) = record.status
  BY DEF StatusAfter
<1>6. QED
  BY <1>1, <1>2, <1>3, <1>4, <1>5 DEF OwnerAfter, Claims, Reports, Keeps

(* A handler that moves on keeps what it knows.                               *)
LEMMA GoFacts ==
  ASSUME TypeInv, NEW c \in Client, call[c] # Idle, NEW place \in Places, Go(c, place)
  PROVE  /\ call[c] \in Busy
         /\ call' \in [Client -> {Idle} \cup Busy]
         /\ call'[c] = [call[c] EXCEPT !.at = place]
         /\ call'[c] \in Busy
         /\ call'[c].op = call[c].op /\ call'[c].at = place /\ call'[c].task = call[c].task
         /\ call'[c].object = call[c].object /\ call'[c].data = call[c].data
         /\ \A d \in Client \ {c} : call'[d] = call[d]
  BY DEF TypeInv, Go, Busy

(* A handler that returns leaves the other handlers alone.                    *)
LEMMA ReturnFacts ==
  ASSUME TypeInv, NEW c \in Client, Return(c)
  PROVE  /\ call' \in [Client -> {Idle} \cup Busy]
         /\ call'[c] = Idle
         /\ \A d \in Client \ {c} : call'[d] = call[d]
         /\ \A d \in Client \ {c} : claimMu = d => claimMu' = d
  BY DEF TypeInv, Return

(* A new handler has no pointer yet.                                          *)
LEMMA StartFacts ==
  ASSUME TypeInv, NEW c \in Client, NEW op \in Ops, NEW place \in Places,
         NEW t \in Task \cup {NoTask}, Started(c, op, place, t)
  PROVE  /\ call' \in [Client -> {Idle} \cup Busy]
         /\ call'[c] \in Busy
         /\ call'[c].op = op /\ call'[c].at = place /\ call'[c].task = t
         /\ \A d \in Client \ {c} : call'[d] = call[d]
<1> DEFINE k == [op |-> op, at |-> place, task |-> t, object |-> 0,
                   data |-> [status |-> "queued", owner |-> None]]
<1>1. k \in Busy
    <2>1. [status |-> "queued", owner |-> None] \in Record
      BY DEF Record, Status, Owner
    <2>2. QED
      BY <2>1 DEF Busy
<1>2. call' = [call EXCEPT ![c] = k]
    BY DEF Started
<1> HIDE DEF k
<1>3. call'[c] = k /\ \A d \in Client \ {c} : call'[d] = call[d]
    BY <1>2 DEF TypeInv
<1>4. call' \in [Client -> {Idle} \cup Busy]
    BY <1>1, <1>2 DEF TypeInv
<1>5. k.op = op /\ k.at = place /\ k.task = t
    BY DEF k
<1>6. QED
    BY <1>1, <1>3, <1>4, <1>5

-----------------------------------------------------------------------------
(* Types and shapes *)

(* Records, pointers, events and handlers keep their types.                   *)
LEMMA TypeStep ==
  ASSUME TypeInv, CallShape, [Next]_vars
  PROVE  TypeInv'
<1> USE DEF TypeInv
<1>1. ASSUME NEW c \in Client, call[c].at \in Places
      PROVE  call[c] # Idle /\ call[c] \in Busy
  BY <1>1 DEF Idle, Places, Before, Behind
<1>2. ASSUME NEW c \in Client, NEW t \in Task, NEW op \in Requests, Request(c, op, t)
      PROVE  TypeInv'
  <2>1. op \in Ops /\ "lookup" \in Places
    BY <1>2 DEF Ops, Places
  <2>2. call' \in [Client -> {Idle} \cup Busy]
    BY <1>2, <2>1, StartFacts DEF Request
  <2>3. UNCHANGED <<heap, current, logged>> /\ holders' \in [Task -> SUBSET Client]
    BY <1>2 DEF Request
  <2>4. QED
    BY <2>2, <2>3
<1>3. ASSUME NEW a \in Client, NEW op \in Claims, RequestClaim(a, op)
      PROVE  TypeInv'
  <2>1. op \in Ops /\ {"lock", "pick"} \subseteq Places 
    BY <1>3 DEF Ops, Places
  <2>2. PICK place \in Places : Started(a, op, place, NoTask)
    BY <1>3, <2>1 DEF RequestClaim
  <2>3. call' \in [Client -> {Idle} \cup Busy]
    BY <2>1, <2>2, StartFacts
  <2>4. QED
    BY <1>3, <2>3 DEF RequestClaim
<1>4. ASSUME NEW c \in Client, Lock(c) PROVE TypeInv'
  <2>1. call[c] # Idle /\ "pick" \in Places
    BY <1>1, <1>4 DEF Lock, At, Places
  <2>2. call' \in [Client -> {Idle} \cup Busy]
    BY <1>4, <2>1, GoFacts DEF Lock
  <2>3. QED
    BY <1>4, <2>2 DEF Lock
<1>5. ASSUME NEW c \in Client, Pick(c) PROVE TypeInv'
  <2>1. CASE Return(c)
    BY <1>5, <2>1, ReturnFacts DEF Pick
  <2>2. CASE ~Return(c)
    <3>1. PICK t \in Task :
            call' = [call EXCEPT ![c].task = t, ![c].object = current[t],
                        ![c].at = IF call[c].op = "claim" THEN "test" ELSE "write"]
      BY <1>5, <2>2 DEF Pick
    <3>2. call[c] \in Busy
      BY <1>1, <1>5 DEF Pick, At, Places
    <3>3. current[t] \in Nat
      OBVIOUS
    <3>4. call' \in [Client -> {Idle} \cup Busy]
      BY <3>1, <3>2, <3>3 DEF Busy, Places, Before
    <3>5. QED
      BY <1>5, <3>4 DEF Pick
  <2>3. QED
    BY <2>1, <2>2
<1>6. ASSUME NEW c \in Client, Lookup(c) PROVE TypeInv'
  <2>1. CASE Return(c)
    BY <1>6, <2>1, ReturnFacts DEF Lookup
  <2>2. CASE ~Return(c)
    <3>1. call' = [call EXCEPT ![c].object = current[call[c].task], ![c].at = "write"]
      BY <1>6, <2>2 DEF Lookup
    <3>2. call[c] \in Busy /\ call[c].task \in Task
      BY <1>1, <1>6 DEF Lookup, At, Places, CallShape, Shaped
    <3>3. current[call[c].task] \in Nat
      BY <3>2
    <3>4. call' \in [Client -> {Idle} \cup Busy]
      BY <3>1, <3>2, <3>3 DEF Busy, Places, Before
    <3>5. QED
      BY <1>6, <3>4 DEF Lookup
  <2>3. QED
    BY <2>1, <2>2
<1>7. ASSUME NEW c \in Client, LeaseTest(c) PROVE TypeInv'
  <2>1. CASE Return(c)
    BY <1>7, <2>1, ReturnFacts DEF LeaseTest
  <2>2. CASE Go(c, "write")
    <3>1. call[c] # Idle /\ "write" \in Places
      BY <1>1, <1>7 DEF LeaseTest, At, Places, Before
    <3>2. QED
      BY <1>7, <2>2, <3>1, GoFacts DEF LeaseTest
  <2>3. QED
    BY <1>7, <2>1, <2>2 DEF LeaseTest
<1>8. ASSUME NEW c \in Client, Write(c) PROVE TypeInv'
  <2>1. call[c] \in Busy /\ call[c] # Idle /\ "marshal" \in Places
    BY <1>1, <1>8 DEF Write, At, Places, Before, Behind
  <2>2. call' \in [Client -> {Idle} \cup Busy]
    BY <1>8, <2>1, GoFacts DEF Write
  <2>3. call[c].object \in DOMAIN heap /\ call[c].op \in Ops
    BY <1>8, <2>1 DEF Write, At, CallShape, Shaped, Before, Busy
  <2> DEFINE new == [status |-> StatusAfter(call[c].op, heap[call[c].object].status),
                     owner |-> OwnerAfter(call[c].op, c, heap[call[c].object].owner)]
  <2>4. new \in Record
    <3>1. heap[call[c].object] \in Record
      BY <2>3
    <3>2. QED
      BY <2>3, <3>1, EffectFacts DEF Record
  <2>5. heap' = [heap EXCEPT ![call[c].object] = new]
    BY <1>8 DEF Write
  <2> HIDE DEF new
  <2>6. heap' \in Seq(Record) /\ DOMAIN heap' = DOMAIN heap
    BY <2>3, <2>4, <2>5
  <2>7. holders' \in [Task -> SUBSET Client]
    BY <1>8 DEF Write
  <2>8. QED
    BY <1>8, <2>2, <2>6, <2>7 DEF Write
<1>9. ASSUME NEW c \in Client, Marshal(c) PROVE TypeInv'
  <2>1. call[c] \in Busy /\ call[c].object \in DOMAIN heap
    BY <1>1, <1>9 DEF Marshal, At, Places, Behind, CallShape, Shaped
  <2>2. heap[call[c].object] \in Record
    BY <2>1
  <2>3. call' \in [Client -> {Idle} \cup Busy]
    BY <1>9, <2>1, <2>2 DEF Marshal, Busy, Places, Behind
  <2>4. QED
    BY <1>9, <2>3 DEF Marshal
<1>10. ASSUME NEW c \in Client, AppendEvent(c) PROVE TypeInv'
  <2>1. call[c] \in Busy /\ call[c] # Idle /\ "apply" \in Places /\ call[c].task \in Task
    BY <1>1, <1>10 DEF AppendEvent, At, Places, Behind, CallShape, Shaped
  <2>2. call' \in [Client -> {Idle} \cup Busy]
    BY <1>10, <2>1, GoFacts DEF AppendEvent
  <2>3. logged' \in [Task -> Record]
    BY <1>10, <2>1 DEF AppendEvent, Busy
  <2>4. QED
    BY <1>10, <2>2, <2>3 DEF AppendEvent
<1>11. ASSUME NEW c \in Client, Apply(c) PROVE TypeInv'
  <2>1. call[c] \in Busy /\ call[c].task \in Task
    BY <1>1, <1>11 DEF Apply, At, Places, Behind, CallShape, Shaped
  <2>2. call[c].data \in Record
    BY <2>1 DEF Busy
  <2>3. /\ heap' \in Seq(Record) /\ Len(heap') = Len(heap) + 1
        /\ DOMAIN heap \subseteq DOMAIN heap' /\ Len(heap') \in DOMAIN heap'
    BY <1>11, <2>2 DEF Apply
  <2>4. current' \in [Task -> DOMAIN heap']
    BY <1>11, <2>3 DEF Apply
  <2>5. call' \in [Client -> {Idle} \cup Busy]
    BY <1>11, ReturnFacts DEF Apply
  <2>6. holders' \in [Task -> SUBSET Client]
    BY <1>11, <2>1 DEF Apply
  <2>7. QED
    BY <1>11, <2>3, <2>4, <2>5, <2>6 DEF Apply
<1>12. CASE UNCHANGED vars
  BY <1>12 DEF vars
<1>13. QED
  BY <1>2, <1>3, <1>4, <1>5, <1>6, <1>7, <1>8, <1>9, <1>10, <1>11, <1>12 DEF Next, Step

(* A step of c's handler keeps the shapes of the others.                      *)
LEMMA OthersShaped ==
  ASSUME CallShape, NEW c \in Client,
         \A d \in Client \ {c} : call'[d] = call[d] /\ (claimMu = d => claimMu' = d),
         DOMAIN heap \subseteq DOMAIN heap',
         Shaped(c, call'[c], DOMAIN heap', claimMu')
  PROVE  CallShape'
<1>1. ASSUME NEW d \in Client PROVE Shaped(d, call'[d], DOMAIN heap', claimMu')
  <2>1. CASE d = c
    BY <2>1
  <2>2. CASE d # c
    BY <2>2 DEF CallShape, Shaped
  <2>3. QED
    BY <2>1, <2>2
<1>2. QED
  BY <1>1 DEF CallShape

(* An idle handler is nowhere.                                                *)
LEMMA IdleShaped ==
  ASSUME NEW c \in Client, NEW dom, NEW mu
  PROVE  Shaped(c, Idle, dom, mu)
BY DEF Shaped, Idle, Claims, Before, Behind

(* Each handler knows what its place says.                                    *)
LEMMA ShapeStep ==
  ASSUME TypeInv, CallShape, [Next]_vars
  PROVE  CallShape'
<1>1. ASSUME NEW c \in Client, call[c].at \in Places
      PROVE  call[c] # Idle /\ call[c] \in Busy /\ Shaped(c, call[c], DOMAIN heap, claimMu)
  BY <1>1 DEF Idle, Places, Before, Behind, TypeInv, CallShape
<1>2. ASSUME NEW c \in Client, NEW t \in Task, NEW op \in Requests, Request(c, op, t)
      PROVE  CallShape'
  <2>1. op \in Ops /\ "lookup" \in Places /\ op \notin Claims
    BY <1>2 DEF Ops, Places, Requests, Claims, Reports
  <2>2. /\ call'[c].op = op /\ call'[c].at = "lookup" /\ call'[c].task = t
        /\ \A d \in Client \ {c} : call'[d] = call[d]
    BY <1>2, <2>1, StartFacts DEF Request
  <2>3. UNCHANGED <<heap, claimMu>>
    BY <1>2 DEF Request
  <2>4. Shaped(c, call'[c], DOMAIN heap', claimMu')
    BY <2>1, <2>2 DEF Shaped, Claims, Before, Behind
  <2>5. QED
    BY <2>2, <2>3, <2>4, OthersShaped
<1>3. ASSUME NEW a \in Client, NEW op \in Claims, RequestClaim(a, op)
      PROVE  CallShape'
  <2>1. op \in Ops /\ {"lock", "pick"} \subseteq Places 
    BY <1>3 DEF Ops, Places
  <2>2. /\ call'[a].op = op /\ call'[a].at = IF op = "claim" THEN "lock" ELSE "pick"
        /\ call'[a].task = NoTask
        /\ \A d \in Client \ {a} : call'[d] = call[d]
    BY <1>3, <2>1, StartFacts DEF RequestClaim
  <2>3. UNCHANGED <<heap, claimMu>>
    BY <1>3 DEF RequestClaim
  <2>4. Shaped(a, call'[a], DOMAIN heap', claimMu')
    BY <2>1, <2>2 DEF Shaped, Claims, Before, Behind
  <2>5. QED
    BY <2>1, <2>2, <2>3, <2>4, OthersShaped
<1>4. ASSUME NEW c \in Client, Lock(c) PROVE CallShape'
  <2>1. call[c] # Idle /\ "pick" \in Places /\ Shaped(c, call[c], DOMAIN heap, claimMu)
    BY <1>1, <1>4 DEF Lock, At, Places
  <2>2. /\ call'[c].op = call[c].op /\ call'[c].at = "pick" /\ call'[c].task = call[c].task
        /\ \A d \in Client \ {c} : call'[d] = call[d]
    BY <1>4, <2>1, GoFacts DEF Lock
  <2>3. claimMu = None /\ claimMu' = c /\ heap' = heap /\ call[c].at = "lock"
    BY <1>4 DEF Lock, At
  <2>4. Shaped(c, call'[c], DOMAIN heap', claimMu')
    BY <2>1, <2>2, <2>3 DEF Shaped, Claims, Before, Behind
  <2>5. \A d \in Client : claimMu # d
    BY <2>3, RaceAssumption
  <2>6. QED
    BY <2>2, <2>3, <2>4, <2>5, OthersShaped
<1>5. ASSUME NEW c \in Client, Pick(c) PROVE CallShape'
  <2>1. /\ call[c] \in Busy /\ call[c].at = "pick" /\ Shaped(c, call[c], DOMAIN heap, claimMu)
        /\ heap' = heap
    BY <1>1, <1>5 DEF Pick, At, Places
  <2>2. CASE Return(c)
    BY <2>1, <2>2, ReturnFacts, IdleShaped, OthersShaped
  <2>3. CASE ~Return(c)
    <3>1. PICK t \in Task :
            /\ call' = [call EXCEPT ![c].task = t, ![c].object = current[t],
                          ![c].at = IF call[c].op = "claim" THEN "test" ELSE "write"]
            /\ claimMu' = claimMu
      BY <1>5, <2>3 DEF Pick
    <3>2. /\ call'[c].op = call[c].op /\ call'[c].task = t /\ call'[c].object = current[t]
          /\ call'[c].at = IF call[c].op = "claim" THEN "test" ELSE "write"
          /\ \A d \in Client \ {c} : call'[d] = call[d]
      BY <2>1, <3>1 DEF TypeInv, Busy
    <3>3. current[t] \in DOMAIN heap
      BY DEF TypeInv
    <3>4. Shaped(c, call'[c], DOMAIN heap', claimMu')
      BY <2>1, <3>1, <3>2, <3>3 DEF Shaped, Claims, Before, Behind
    <3>5. QED
      BY <2>1, <3>1, <3>2, <3>4, OthersShaped
  <2>4. QED
    BY <2>2, <2>3
<1>6. ASSUME NEW c \in Client, Lookup(c) PROVE CallShape'
  <2>1. /\ call[c] \in Busy /\ call[c].at = "lookup" /\ Shaped(c, call[c], DOMAIN heap, claimMu)
        /\ heap' = heap
    BY <1>1, <1>6 DEF Lookup, At, Places
  <2>2. CASE Return(c)
    BY <2>1, <2>2, ReturnFacts, IdleShaped, OthersShaped
  <2>3. CASE ~Return(c)
    <3>1. /\ call' = [call EXCEPT ![c].object = current[call[c].task], ![c].at = "write"]
          /\ claimMu' = claimMu
      BY <1>6, <2>3 DEF Lookup
    <3>2. /\ call'[c].op = call[c].op /\ call'[c].task = call[c].task
          /\ call'[c].object = current[call[c].task] /\ call'[c].at = "write"
          /\ \A d \in Client \ {c} : call'[d] = call[d]
      BY <2>1, <3>1 DEF TypeInv, Busy
    <3>3. call[c].task \in Task /\ call[c].op \notin Claims
      BY <2>1 DEF Shaped
    <3>4. current[call[c].task] \in DOMAIN heap
      BY <3>3 DEF TypeInv
    <3>5. Shaped(c, call'[c], DOMAIN heap', claimMu')
      BY <2>1, <3>1, <3>2, <3>3, <3>4 DEF Shaped, Claims, Before, Behind
    <3>6. QED
      BY <2>1, <3>1, <3>2, <3>5, OthersShaped
  <2>4. QED
    BY <2>2, <2>3
<1>7. ASSUME NEW c \in Client, NEW place \in Places, Go(c, place), call[c] # Idle,
             call[c].at \in Before \cup Behind, place \in {"write"} \cup Behind,
             claimMu' = claimMu, DOMAIN heap' = DOMAIN heap
      PROVE  CallShape'
  <2>1. /\ call'[c].op = call[c].op /\ call'[c].at = place /\ call'[c].task = call[c].task
        /\ call'[c].object = call[c].object
        /\ \A d \in Client \ {c} : call'[d] = call[d]
    BY <1>7, GoFacts
  <2>2. Shaped(c, call[c], DOMAIN heap, claimMu)
    BY DEF CallShape
  <2>3. Shaped(c, call'[c], DOMAIN heap', claimMu')
    BY <1>7, <2>1, <2>2 DEF Shaped, Claims, Before, Behind
  <2>4. QED
    BY <1>7, <2>1, <2>3, OthersShaped
<1>8. ASSUME NEW c \in Client, LeaseTest(c) PROVE CallShape'
  <2>1. call[c] # Idle /\ call[c].at \in Before \cup Behind /\ heap' = heap
    BY <1>1, <1>8 DEF LeaseTest, At, Places, Before
  <2>2. CASE Return(c)
    BY <2>1, <2>2, ReturnFacts, IdleShaped, OthersShaped
  <2>3. CASE Go(c, "write") /\ claimMu' = claimMu
    BY <1>7, <2>1, <2>3 DEF Places, Before
  <2>4. QED
    BY <1>8, <2>2, <2>3 DEF LeaseTest
<1>9. ASSUME NEW c \in Client, Write(c) PROVE CallShape'
  <2>1. call[c] # Idle /\ call[c].at \in Before \cup Behind /\ DOMAIN heap' = DOMAIN heap
    BY <1>1, <1>9 DEF Write, At, Places, Before, TypeInv
  <2>2. QED
    BY <1>7, <1>9, <2>1 DEF Write, Places, Behind
<1>10. ASSUME NEW c \in Client, Marshal(c) PROVE CallShape'
  <2>1. /\ call[c] \in Busy /\ call[c].at = "marshal" /\ Shaped(c, call[c], DOMAIN heap, claimMu)
        /\ heap' = heap /\ claimMu' = claimMu
    BY <1>1, <1>10 DEF Marshal, At, Places, Behind
  <2>2. /\ call'[c].op = call[c].op /\ call'[c].at = "append" /\ call'[c].task = call[c].task
        /\ call'[c].object = call[c].object
        /\ \A d \in Client \ {c} : call'[d] = call[d]
    BY <1>10, <2>1 DEF Marshal, TypeInv, Busy
  <2>3. Shaped(c, call'[c], DOMAIN heap', claimMu')
    BY <2>1, <2>2 DEF Shaped, Claims, Before, Behind
  <2>4. QED
    BY <2>1, <2>2, <2>3, OthersShaped
<1>11. ASSUME NEW c \in Client, AppendEvent(c) PROVE CallShape'
  <2>1. call[c] # Idle /\ call[c].at \in Before \cup Behind
    BY <1>1, <1>11 DEF AppendEvent, At, Places, Behind
  <2>2. QED
    BY <1>7, <1>11, <2>1 DEF AppendEvent, Places, Behind
<1>12. ASSUME NEW c \in Client, Apply(c) PROVE CallShape'
  <2>1. DOMAIN heap \subseteq DOMAIN heap'
    BY <1>12 DEF Apply, TypeInv
  <2>2. QED
    BY <1>12, <2>1, ReturnFacts, IdleShaped, OthersShaped DEF Apply
<1>13. CASE UNCHANGED vars
  BY <1>13 DEF vars, CallShape
<1>14. QED
  BY <1>2, <1>3, <1>4, <1>5, <1>6, <1>8, <1>9, <1>10, <1>11, <1>12, <1>13 DEF Next, Step

-----------------------------------------------------------------------------
(* No record is reached from two tasks *)

(* A handler at a place is busy and shaped by it.                             *)
LEMMA PlaceFacts ==
  ASSUME TypeInv, CallShape, NEW c \in Client, call[c].at \in Places
  PROVE  call[c] # Idle /\ call[c] \in Busy /\ Shaped(c, call[c], DOMAIN heap, claimMu)
BY DEF Idle, Places, Before, Behind, TypeInv, CallShape

(* A claim that finds work gets the pointer of a task it may have.            *)
LEMMA PickFacts ==
  ASSUME TypeInv, CallShape, NEW c \in Client, Pick(c), ~Return(c)
  PROVE  \E t \in Task :
           /\ call[c].op \in Claims /\ Admits(call[c].op, c, heap[current[t]])
           /\ call'[c].op = call[c].op /\ call'[c].task = t /\ call'[c].object = current[t]
           /\ call'[c].at \in Before
           /\ \A d \in Client \ {c} : call'[d] = call[d]
           /\ overlapped' = overlapped \cup IF Underway(t, c) THEN {t} ELSE {}
<1>1. call[c] \in Busy /\ Shaped(c, call[c], DOMAIN heap, claimMu) /\ call[c].at = "pick"
  BY PlaceFacts DEF Pick, At, Places
<1>2. PICK t \in {t \in Task : Admits(call[c].op, c, heap[current[t]])} :
        /\ call' = [call EXCEPT ![c].task = t, ![c].object = current[t],
                      ![c].at = IF call[c].op = "claim" THEN "test" ELSE "write"]
        /\ overlapped' = overlapped \cup IF Underway(t, c) THEN {t} ELSE {}
  BY DEF Pick
<1>3. /\ call'[c].op = call[c].op /\ call'[c].task = t /\ call'[c].object = current[t]
      /\ call'[c].at \in Before
      /\ \A d \in Client \ {c} : call'[d] = call[d]
  BY <1>1, <1>2 DEF TypeInv, Busy, Before
<1>4. call[c].op \in Claims
  BY <1>1 DEF Shaped
<1>5. QED
  BY <1>2, <1>3, <1>4

(* A request that is admitted gets the pointer of its task.                   *)
LEMMA LookupFacts ==
  ASSUME TypeInv, CallShape, NEW c \in Client, Lookup(c), ~Return(c)
  PROVE  /\ call[c].op \in Ops \ Claims /\ call[c].task \in Task
         /\ call[c] # Idle
         /\ Admits(call[c].op, c, heap[current[call[c].task]])
         /\ call'[c].op = call[c].op /\ call'[c].task = call[c].task
         /\ call'[c].object = current[call[c].task] /\ call'[c].at = "write"
         /\ \A d \in Client \ {c} : call'[d] = call[d]
<1>1. /\ call[c] \in Busy /\ Shaped(c, call[c], DOMAIN heap, claimMu) /\ call[c].at = "lookup"
      /\ call[c] # Idle
  BY PlaceFacts DEF Lookup, At, Places
<1>2. /\ call' = [call EXCEPT ![c].object = current[call[c].task], ![c].at = "write"]
      /\ Admits(call[c].op, c, heap[current[call[c].task]])
  BY DEF Lookup
<1>3. QED
  BY <1>1, <1>2 DEF TypeInv, Busy, Shaped

(* The record as it is now is what the event will carry.                      *)
LEMMA MarshalFacts ==
  ASSUME TypeInv, CallShape, NEW c \in Client, Marshal(c)
  PROVE  /\ call[c].at = "marshal" /\ call[c] # Idle /\ call[c].task \in Task
         /\ call'[c].op = call[c].op /\ call'[c].task = call[c].task
         /\ call'[c].object = call[c].object /\ call'[c].at = "append"
         /\ call'[c].data = heap[call[c].object]
         /\ \A d \in Client \ {c} : call'[d] = call[d]
         /\ UNCHANGED <<heap, current, logged, holders, overlapped>>
<1>1. call[c] \in Busy /\ Shaped(c, call[c], DOMAIN heap, claimMu) /\ call[c].at = "marshal" /\ call[c] # Idle
  BY PlaceFacts DEF Marshal, At, Places, Behind
<1>2. call' = [call EXCEPT ![c].data = heap[call[c].object], ![c].at = "append"]
  BY DEF Marshal
<1>3. QED
  BY <1>1, <1>2 DEF TypeInv, Busy, Shaped, Behind, Marshal

(* A handler that holds a pointer and moves on keeps it.                      *)
LEMMA AdvanceFacts ==
  ASSUME TypeInv, CallShape, NEW c \in Client,
         (LeaseTest(c) /\ ~Return(c)) \/ Write(c) \/ AppendEvent(c)
  PROVE  /\ call[c] # Idle /\ call[c].task \in Task /\ call[c].at \in Before \cup Behind
         /\ call'[c].op = call[c].op /\ call'[c].task = call[c].task
         /\ call'[c].object = call[c].object /\ call'[c].data = call[c].data
         /\ \A d \in Client \ {c} : call'[d] = call[d]
         /\ LeaseTest(c) => call[c].at = "test" /\ call'[c].at = "write"
         /\ Write(c) => call[c].at = "write" /\ call'[c].at = "marshal"
         /\ AppendEvent(c) => call[c].at = "append" /\ call'[c].at = "apply"
<1>1. PICK place \in Places :
        /\ Go(c, place)
        /\ LeaseTest(c) => place = "write"
        /\ Write(c) => place = "marshal"
        /\ AppendEvent(c) => place = "apply"
  <2>1. CASE LeaseTest(c) /\ ~Return(c)
    <3>1. Go(c, "write") /\ ~Write(c) /\ ~AppendEvent(c)
      BY <2>1 DEF LeaseTest, At, Write, AppendEvent
    <3>2. QED
      BY <3>1 DEF Places, Before
  <2>2. CASE Write(c)
    <3>1. Go(c, "marshal") /\ ~LeaseTest(c) /\ ~AppendEvent(c)
      BY <2>2 DEF LeaseTest, At, Write, AppendEvent
    <3>2. QED
      BY <3>1 DEF Places, Behind
  <2>3. CASE AppendEvent(c)
    <3>1. Go(c, "apply") /\ ~LeaseTest(c) /\ ~Write(c)
      BY <2>3 DEF LeaseTest, At, Write, AppendEvent
    <3>2. QED
      BY <3>1 DEF Places, Behind
  <2>4. QED
    BY <2>1, <2>2, <2>3
<1>2. /\ LeaseTest(c) => call[c].at = "test"
      /\ Write(c) => call[c].at = "write"
      /\ AppendEvent(c) => call[c].at = "append"
  BY DEF LeaseTest, Write, AppendEvent, At
<1>3. call[c].at \in Before \cup Behind
  BY <1>2 DEF Before, Behind
<1>4. call[c] # Idle /\ call[c].task \in Task
  BY <1>3, PlaceFacts DEF Places, Shaped
<1>5. QED
  BY <1>1, <1>2, <1>3, <1>4, GoFacts

(* The record of the event takes the place of the task's record, and a claim  *)
(* is answered.                                                               *)
LEMMA ApplyFacts ==
  ASSUME TypeInv, CallShape, NEW c \in Client, Apply(c)
  PROVE  /\ call[c].at = "apply" /\ call[c] # Idle /\ call[c].task \in Task /\ call[c].data \in Record
         /\ call'[c] = Idle
         /\ \A d \in Client \ {c} : call'[d] = call[d]
         /\ \A i \in DOMAIN heap : heap'[i] = heap[i]
         /\ \A t \in Task : current'[t] = IF t = call[c].task THEN Len(heap) + 1 ELSE current[t]
         /\ Len(heap) + 1 \notin DOMAIN heap
         /\ heap'[Len(heap) + 1] = call[c].data
         /\ \A t \in Task : holders'[t] =
              IF t = call[c].task /\ call[c].op \in Claims THEN holders[t] \cup {c} ELSE holders[t]
         /\ UNCHANGED <<logged, overlapped>>
<1>1. call[c] \in Busy /\ Shaped(c, call[c], DOMAIN heap, claimMu) /\ call[c].at = "apply" /\ call[c] # Idle
  BY PlaceFacts DEF Apply, At, Places, Behind
<1>2. call[c].task \in Task /\ call[c].data \in Record
  BY <1>1 DEF Shaped, Busy, Behind
<1>3. heap \in Seq(Record) /\ heap' = Append(heap, call[c].data)
  BY DEF Apply, TypeInv
<1>4. /\ Len(heap') = Len(heap) + 1 /\ heap'[Len(heap) + 1] = call[c].data
      /\ \A i \in DOMAIN heap : heap'[i] = heap[i]
      /\ Len(heap) + 1 \notin DOMAIN heap
  BY <1>2, <1>3
<1>5. \A t \in Task : current'[t] = IF t = call[c].task THEN Len(heap) + 1 ELSE current[t]
  BY <1>4 DEF Apply, TypeInv
<1>6. \A t \in Task : holders'[t] =
              IF t = call[c].task /\ call[c].op \in Claims THEN holders[t] \cup {c} ELSE holders[t]
  BY DEF Apply, TypeInv
<1>7. call'[c] = Idle /\ \A d \in Client \ {c} : call'[d] = call[d]
  BY ReturnFacts DEF Apply
<1>8. QED
  BY <1>1, <1>2, <1>4, <1>5, <1>6, <1>7 DEF Apply

(* A handler that keeps its pointer, or takes that of its task, reaches no    *)
(* record of another task.                                                    *)
LEMMA ApartPointers ==
  ASSUME Apart, NEW c \in Client, \A d \in Client \ {c} : call'[d] = call[d], current' = current,
         \A t \in Task : On(c, t)' =>
            (On(c, t) /\ call'[c].object = call[c].object) \/ call'[c].object = current[t]
  PROVE  Apart'
<1>1. \A t, u \in Task : t # u => current'[t] # current'[u]
  BY DEF Apart
<1>2. \A d \in Client \ {c}, t \in Task : On(d, t)' => On(d, t) /\ call'[d].object = call[d].object
  BY DEF On
<1>3. \A d \in Client, t, u \in Task : On(d, t)' /\ t # u => call'[d].object # current'[u]
  BY <1>2 DEF Apart
<1>4. \A d, e \in Client, t, u \in Task :
        On(d, t)' /\ On(e, u)' /\ t # u => call'[d].object # call'[e].object
  <2> SUFFICES ASSUME NEW d \in Client, NEW e \in Client, NEW t \in Task, NEW u \in Task,
                      On(d, t)', On(e, u)', t # u
               PROVE  call'[d].object # call'[e].object
    OBVIOUS
  <2>1. (On(d, t) /\ call'[d].object = call[d].object) \/ call'[d].object = current[t]
    BY <1>2
  <2>2. (On(e, u) /\ call'[e].object = call[e].object) \/ call'[e].object = current[u]
    BY <1>2
  <2>3. QED
    BY <2>1, <2>2 DEF Apart
<1>5. QED
  BY <1>1, <1>3, <1>4 DEF Apart

(* No step makes two tasks share a record: a new one is made for one task.    *)
LEMMA ApartStep ==
  ASSUME TypeInv, CallShape, Apart, [Next]_vars
  PROVE  Apart'
<1>1. ASSUME NEW c \in Client, \A d \in Client \ {c} : call'[d] = call[d], current' = current,
             call'[c].at \notin Before \cup Behind
      PROVE  Apart'
  BY <1>1, ApartPointers DEF On
<1>2. ASSUME NEW c \in Client, Return(c), current' = current
      PROVE  Apart'
  <2>1. call'[c] = Idle /\ \A d \in Client \ {c} : call'[d] = call[d]
    BY <1>2, ReturnFacts
  <2>2. QED
    BY <1>1, <1>2, <2>1 DEF Idle, Before, Behind
<1>3. ASSUME NEW c \in Client, NEW t \in Task, NEW op \in Requests, Request(c, op, t)
      PROVE  Apart'
  <2>1. op \in Ops /\ "lookup" \in Places
    BY <1>3 DEF Ops, Places
  <2>2. call'[c].at = "lookup" /\ \A d \in Client \ {c} : call'[d] = call[d]
    BY <1>3, <2>1, StartFacts DEF Request
  <2>3. QED
    BY <1>1, <1>3, <2>2 DEF Request, Before, Behind
<1>4. ASSUME NEW a \in Client, NEW op \in Claims, RequestClaim(a, op)
      PROVE  Apart'
  <2>1. op \in Ops /\ {"lock", "pick"} \subseteq Places 
    BY <1>4 DEF Ops, Places
  <2>2. call'[a].at \in {"lock", "pick"} /\ \A d \in Client \ {a} : call'[d] = call[d]
    BY <1>4, <2>1, StartFacts DEF RequestClaim
  <2>3. QED
    BY <1>1, <1>4, <2>1, <2>2 DEF RequestClaim, Before, Behind
<1>5. ASSUME NEW c \in Client, Lock(c) PROVE Apart'
  <2>1. call[c] # Idle /\ "pick" \in Places
    BY <1>5, PlaceFacts DEF Lock, At, Places
  <2>2. call'[c].at = "pick" /\ \A d \in Client \ {c} : call'[d] = call[d]
    BY <1>5, <2>1, GoFacts DEF Lock
  <2>3. QED
    BY <1>1, <1>5, <2>2 DEF Lock, Before, Behind
<1>6. ASSUME NEW c \in Client, Pick(c) PROVE Apart'
  <2>1. CASE ~Return(c)
    <3>1. PICK t \in Task : /\ call'[c].task = t /\ call'[c].object = current[t]
                            /\ \A d \in Client \ {c} : call'[d] = call[d]
      BY <1>6, <2>1, PickFacts
    <3>2. current' = current
      BY <1>6 DEF Pick
    <3>3. \A u \in Task : On(c, u)' => call'[c].object = current[u]
      BY <3>1 DEF On
    <3>4. QED
      BY <3>1, <3>2, <3>3, ApartPointers
  <2>2. QED
    BY <1>2, <1>6, <2>1 DEF Pick
<1>7. ASSUME NEW c \in Client, Lookup(c) PROVE Apart'
  <2>1. CASE ~Return(c)
    BY <1>7, <2>1, LookupFacts, ApartPointers DEF On, Lookup
  <2>2. QED
    BY <1>2, <1>7, <2>1 DEF Lookup
<1>8. ASSUME NEW c \in Client, (LeaseTest(c) /\ ~Return(c)) \/ Write(c) \/ AppendEvent(c)
      PROVE  Apart'
  <2>1. current' = current
    BY <1>8 DEF LeaseTest, Write, AppendEvent
  <2>2. QED
    BY <1>8, <2>1, AdvanceFacts, ApartPointers DEF On
<1>9. ASSUME NEW c \in Client, LeaseTest(c), Return(c) PROVE Apart'
  BY <1>2, <1>9 DEF LeaseTest
<1>10. ASSUME NEW c \in Client, Marshal(c) PROVE Apart'
  BY <1>10, MarshalFacts, ApartPointers DEF On, Behind
<1>11. ASSUME NEW c \in Client, Apply(c) PROVE Apart'
  <2>1. /\ \A t \in Task : current'[t] = IF t = call[c].task THEN Len(heap) + 1 ELSE current[t]
        /\ Len(heap) + 1 \notin DOMAIN heap
        /\ \A d \in Client \ {c} : call'[d] = call[d]
        /\ call'[c] = Idle
    BY <1>11, ApplyFacts
  <2>2. /\ \A t \in Task : current[t] \in DOMAIN heap
        /\ \A d \in Client, t \in Task : On(d, t) => call[d].object \in DOMAIN heap
    BY DEF TypeInv, CallShape, Shaped, On
  <2>3. \A d \in Client, t \in Task : On(d, t)' => d # c /\ On(d, t) /\ call'[d].object = call[d].object
    BY <2>1 DEF On, Idle, Before, Behind
  <2>4. \A t, u \in Task : t # u => current'[t] # current'[u]
    BY <2>1, <2>2 DEF Apart
  <2>5. \A d \in Client, t, u \in Task : On(d, t)' /\ t # u => call'[d].object # current'[u]
    BY <2>1, <2>2, <2>3 DEF Apart
  <2>6. \A d, e \in Client, t, u \in Task :
          On(d, t)' /\ On(e, u)' /\ t # u => call'[d].object # call'[e].object
    BY <2>3 DEF Apart
  <2>7. QED
    BY <2>4, <2>5, <2>6 DEF Apart
<1>12. CASE UNCHANGED vars
  BY <1>12 DEF vars, Apart, On
<1>13. QED
  BY <1>3, <1>4, <1>5, <1>6, <1>7, <1>8, <1>9, <1>10, <1>11, <1>12 DEF Next, Step

-----------------------------------------------------------------------------
(* Only a task at work has an owner *)

(* A step of c's handler that leaves the records of the other calls on t      *)
(* alone.                                                                     *)
LEMMA CleanFrame ==
  ASSUME NEW t \in Task, CleanTask(t), NEW c \in Client,
         \A d \in Client \ {c} : call'[d] = call[d],
         Clean(heap'[current'[t]]),
         \A d \in Client \ {c} : On(d, t) => heap'[call[d].object] = heap[call[d].object],
         On(c, t)' =>
           /\ Clean(heap'[call'[c].object])
           /\ call'[c].at \in {"append", "apply"} => Clean(call'[c].data)
           /\ call'[c].op # "retry" \/ call'[c].at \notin Before \/ heap'[call'[c].object].owner = None
  PROVE  CleanTask(t)'
<1>1. ASSUME NEW d \in Client, On(d, t)'
      PROVE  /\ Clean(heap'[call'[d].object])
             /\ call'[d].at \in {"append", "apply"} => Clean(call'[d].data)
             /\ call'[d].op = "retry" /\ call'[d].at \in Before => heap'[call'[d].object].owner = None
  <2>1. CASE d = c
    BY <1>1, <2>1
  <2>2. CASE d # c
    <3>1. On(d, t) /\ call'[d] = call[d] /\ heap'[call[d].object] = heap[call[d].object]
      BY <1>1, <2>2 DEF On
    <3>2. QED
      BY <3>1 DEF CleanTask, Clean
  <2>3. QED
    BY <2>1, <2>2
<1>2. QED
  BY <1>1 DEF CleanTask, Clean

(* An assignment leaves an owner only to a task at work.  A retry keeps the   *)
(* owner, but it was admitted where there is none, and no claim assigns the   *)
(* record of another call.                                                    *)
LEMMA CleanWrite ==
  ASSUME TypeInv, CallShape, NEW t \in Task, CleanTask(t), TaskInv(t), NEW c \in Client,
         Write(c), call[c].task = t
  PROVE  CleanTask(t)'
<1> DEFINE o == call[c].object
<1>1. /\ call'[c].op = call[c].op /\ call'[c].task = t
      /\ call'[c].object = o /\ call[c].at = "write" /\ call'[c].at = "marshal"
      /\ \A d \in Client \ {c} : call'[d] = call[d]
      /\ current' = current
  BY AdvanceFacts DEF Write
<1>2. On(c, t) /\ o \in DOMAIN heap /\ call[c].op \in Ops /\ heap[o] \in Record
  BY <1>1, PlaceFacts DEF On, Shaped, Before, Places, Busy, TypeInv
<1>3. /\ \A i \in DOMAIN heap : i # o => heap'[i] = heap[i]
      /\ heap'[o].status = StatusAfter(call[c].op, heap[o].status)
      /\ heap'[o].owner = OwnerAfter(call[c].op, c, heap[o].owner)
  BY <1>2 DEF Write, TypeInv
<1>4. /\ Clean(heap[o])
      /\ call[c].op = "retry" => heap[o].owner = None
  BY <1>1, <1>2 DEF CleanTask, Before
<1> HIDE DEF o
<1>5. Clean(heap'[o])
  BY <1>2, <1>3, <1>4, EffectFacts DEF Clean
<1>6. current[t] \in DOMAIN heap /\ \A d \in Client : On(d, t) => call[d].object \in DOMAIN heap
  BY DEF TypeInv, CallShape, Shaped, On
<1>7. Clean(heap'[current'[t]])
  BY <1>1, <1>3, <1>5, <1>6 DEF CleanTask, Clean
<1>8. ASSUME NEW d \in Client, On(d, t)'
      PROVE  /\ Clean(heap'[call'[d].object])
             /\ call'[d].at \in {"append", "apply"} => Clean(call'[d].data)
             /\ call'[d].op = "retry" /\ call'[d].at \in Before => heap'[call'[d].object].owner = None
  <2>1. CASE d = c
    BY <1>1, <1>5, <2>1 DEF Before, o
  <2>2. CASE d # c
    <3>1. On(d, t) /\ call'[d] = call[d] /\ call[d].object \in DOMAIN heap
      BY <1>1, <1>6, <1>8, <2>2 DEF On
    <3>2. CASE call[d].object # o
      BY <1>3, <3>1, <3>2 DEF CleanTask, Clean
    <3>3. CASE call[d].object = o
      <4>1. call[d].op = "retry" /\ call[d].at \in Before => heap[o].owner = None
        BY <3>1, <3>3 DEF CleanTask
      <4>2. call[c].op \notin Claims
        <5>1. call[c].op \in Claims => Picked(c, t)
          BY <1>1, <1>2 DEF TaskInv, Before
        <5>2. call[d] # Idle /\ call[d].task = t /\ call[d].at # "lookup"
          BY <3>1 DEF On, Idle, Before, Behind
        <5>3. QED
          BY <2>2, <5>1, <5>2 DEF Picked
      <4>3. heap[o].owner = None => heap'[o].owner = None
        BY <1>2, <1>3, <4>2, EffectFacts
      <4>4. call'[d].at \in {"append", "apply"} => Clean(call'[d].data)
        BY <3>1 DEF CleanTask
      <4>5. QED
        BY <1>5, <3>1, <3>3, <4>1, <4>3, <4>4
    <3>4. QED
      BY <3>2, <3>3
  <2>3. QED
    BY <2>1, <2>2
<1>9. QED
  BY <1>7, <1>8 DEF CleanTask, Clean

LEMMA CleanStep ==
  ASSUME TypeInv, CallShape, Apart, [Next]_vars,
         NEW t \in Task, CleanTask(t), TaskInv(t)
  PROVE  CleanTask(t)'
<1>1. ASSUME NEW c \in Client, \A d \in Client \ {c} : call'[d] = call[d],
             ~On(c, t)', UNCHANGED <<heap, current>>
      PROVE  CleanTask(t)'
  BY <1>1, CleanFrame DEF CleanTask, Clean
<1>2. ASSUME NEW c \in Client, Return(c), UNCHANGED <<heap, current>>
      PROVE  CleanTask(t)'
  <2>1. call'[c] = Idle /\ \A d \in Client \ {c} : call'[d] = call[d]
    BY <1>2, ReturnFacts
  <2>2. ~On(c, t)'
    BY <2>1 DEF On, Idle, Before, Behind
  <2>3. QED
    BY <1>1, <1>2, <2>1, <2>2
<1>3. ASSUME NEW c \in Client, NEW u \in Task, NEW op \in Requests, Request(c, op, u)
      PROVE  CleanTask(t)'
  <2>1. op \in Ops /\ "lookup" \in Places
    BY <1>3 DEF Ops, Places
  <2>2. call'[c].at = "lookup" /\ \A d \in Client \ {c} : call'[d] = call[d]
    BY <1>3, <2>1, StartFacts DEF Request
  <2>3. QED
    BY <1>1, <1>3, <2>2 DEF Request, On, Before, Behind
<1>4. ASSUME NEW c \in Client, NEW op \in Claims, RequestClaim(c, op)
      PROVE  CleanTask(t)'
  <2>1. op \in Ops /\ {"lock", "pick"} \subseteq Places
    BY <1>4 DEF Ops, Places
  <2>2. call'[c].at \in {"lock", "pick"} /\ \A d \in Client \ {c} : call'[d] = call[d]
    BY <1>4, <2>1, StartFacts DEF RequestClaim
  <2>3. QED
    BY <1>1, <1>4, <2>2 DEF RequestClaim, On, Before, Behind
<1>5. ASSUME NEW c \in Client, Lock(c) PROVE CleanTask(t)'
  <2>1. call[c] # Idle /\ "pick" \in Places
    BY <1>5, PlaceFacts DEF Lock, At, Places
  <2>2. call'[c].at = "pick" /\ \A d \in Client \ {c} : call'[d] = call[d]
    BY <1>5, <2>1, GoFacts DEF Lock
  <2>3. QED
    BY <1>1, <1>5, <2>2 DEF Lock, On, Before, Behind
<1>6. ASSUME NEW c \in Client, Pick(c) PROVE CleanTask(t)'
  <2>1. CASE ~Return(c)
    <3>1. PICK u \in Task :
           /\ call[c].op \in Claims
           /\ call'[c].op = call[c].op /\ call'[c].task = u /\ call'[c].object = current[u]
           /\ call'[c].at \in Before
           /\ \A d \in Client \ {c} : call'[d] = call[d]
      BY <1>6, <2>1, PickFacts
    <3>2. UNCHANGED <<heap, current>>
      BY <1>6 DEF Pick
    <3>3. On(c, t)' => u = t
      BY <3>1 DEF On
    <3>4. QED
      BY <3>1, <3>2, <3>3, CleanFrame DEF CleanTask, Clean, Claims, Before
  <2>2. QED
    BY <1>2, <1>6, <2>1 DEF Pick
<1>7. ASSUME NEW c \in Client, Lookup(c) PROVE CleanTask(t)'
  <2>1. CASE ~Return(c)
    <3>1. /\ Admits(call[c].op, c, heap[current[call[c].task]])
          /\ call'[c].op = call[c].op /\ call'[c].task = call[c].task
          /\ call'[c].object = current[call[c].task] /\ call'[c].at = "write"
          /\ \A d \in Client \ {c} : call'[d] = call[d]
      BY <1>7, <2>1, LookupFacts
    <3>2. UNCHANGED <<heap, current>> /\ (On(c, t)' => call[c].task = t)
      BY <1>7, <3>1 DEF Lookup, On
    <3>3. call[c].task = t /\ call[c].op = "retry" => heap[current[t]].owner = None
      BY <3>1 DEF Admits, CleanTask, Clean, Work
    <3>4. QED
      BY <3>1, <3>2, <3>3, CleanFrame DEF CleanTask, Clean
  <2>2. QED
    BY <1>2, <1>7, <2>1 DEF Lookup
<1>8. ASSUME NEW c \in Client, LeaseTest(c) PROVE CleanTask(t)'
  <2>1. CASE ~Return(c)
    <3>1. /\ call'[c].op = call[c].op /\ call'[c].task = call[c].task
          /\ call'[c].object = call[c].object /\ call[c].at = "test" /\ call'[c].at = "write"
          /\ \A d \in Client \ {c} : call'[d] = call[d]
      BY <1>8, <2>1, AdvanceFacts
    <3>2. UNCHANGED <<heap, current>> /\ (On(c, t)' => On(c, t))
      BY <1>8, <3>1 DEF LeaseTest, On, Before
    <3>3. call[c].op = "claim"
      BY <3>1 DEF CallShape, Shaped
    <3>4. QED
      BY <3>1, <3>2, <3>3, CleanFrame DEF CleanTask, Clean
  <2>2. QED
    BY <1>2, <1>8, <2>1 DEF LeaseTest
<1>9. ASSUME NEW c \in Client, Write(c) PROVE CleanTask(t)'
  <2>1. CASE call[c].task = t
    BY <1>9, <2>1, CleanWrite
  <2>2. CASE call[c].task # t
    <3>1. /\ call[c].task \in Task /\ call'[c].task = call[c].task /\ call[c].at = "write"
          /\ \A d \in Client \ {c} : call'[d] = call[d]
          /\ current' = current
      BY <1>9, AdvanceFacts DEF Write
    <3>2. /\ On(c, call[c].task) /\ call[c].object \in DOMAIN heap
          /\ \A i \in DOMAIN heap : i # call[c].object => heap'[i] = heap[i]
      BY <1>9, <3>1, PlaceFacts DEF Write, On, Before, Places, Shaped, TypeInv
    <3>3. current[t] \in DOMAIN heap /\ \A d \in Client : On(d, t) => call[d].object \in DOMAIN heap
      BY DEF TypeInv, CallShape, Shaped, On
    <3>4. /\ heap'[current[t]] = heap[current[t]]
          /\ \A d \in Client : On(d, t) => heap'[call[d].object] = heap[call[d].object]
      BY <2>2, <3>1, <3>2, <3>3 DEF Apart
    <3>5. QED
      BY <2>2, <3>1, <3>4, CleanFrame DEF CleanTask, Clean, On
  <2>3. QED
    BY <2>1, <2>2
<1>10. ASSUME NEW c \in Client, Marshal(c) PROVE CleanTask(t)'
  <2>1. /\ call[c].at = "marshal" /\ call'[c].task = call[c].task
        /\ call'[c].object = call[c].object /\ call'[c].at = "append"
        /\ call'[c].data = heap[call[c].object]
        /\ \A d \in Client \ {c} : call'[d] = call[d]
        /\ UNCHANGED <<heap, current>>
    BY <1>10, MarshalFacts
  <2>2. On(c, t)' => On(c, t)
    BY <2>1 DEF On, Behind
  <2>3. QED
    BY <2>1, <2>2, CleanFrame DEF CleanTask, Clean, Before
<1>11. ASSUME NEW c \in Client, AppendEvent(c) PROVE CleanTask(t)'
  <2>1. /\ call'[c].task = call[c].task
        /\ call'[c].object = call[c].object /\ call'[c].data = call[c].data
        /\ call[c].at = "append" /\ call'[c].at = "apply"
        /\ \A d \in Client \ {c} : call'[d] = call[d]
    BY <1>11, AdvanceFacts
  <2>2. UNCHANGED <<heap, current>> /\ (On(c, t)' => On(c, t))
    BY <1>11, <2>1 DEF AppendEvent, On, Behind
  <2>3. QED
    BY <2>1, <2>2, CleanFrame DEF CleanTask, Clean, Before
<1>12. ASSUME NEW c \in Client, Apply(c) PROVE CleanTask(t)'
  <2>1. /\ call[c].at = "apply" /\ call[c].task \in Task
        /\ call'[c] = Idle
        /\ \A d \in Client \ {c} : call'[d] = call[d]
        /\ \A i \in DOMAIN heap : heap'[i] = heap[i]
        /\ current'[t] = IF t = call[c].task THEN Len(heap) + 1 ELSE current[t]
        /\ heap'[Len(heap) + 1] = call[c].data
    BY <1>12, ApplyFacts
  <2>2. current[t] \in DOMAIN heap /\ \A d \in Client : On(d, t) => call[d].object \in DOMAIN heap
    BY DEF TypeInv, CallShape, Shaped, On
  <2>3. Clean(heap'[current'[t]])
    BY <2>1, <2>2 DEF CleanTask, Clean, On, Behind
  <2>4. ~On(c, t)'
    BY <2>1 DEF On, Idle, Before, Behind
  <2>5. QED
    BY <2>1, <2>2, <2>3, <2>4, CleanFrame
<1>13. CASE UNCHANGED vars
  BY <1>13 DEF vars, CleanTask, Clean, On
<1>14. QED
  BY <1>3, <1>4, <1>5, <1>6, <1>7, <1>8, <1>9, <1>10, <1>11, <1>12, <1>13 DEF Next, Step

-----------------------------------------------------------------------------
(* What a step leaves of a task's life *)

(* A step of c's handler that leaves task t, or works on another, leaves its  *)
(* invariant alone.                                                           *)
LEMMA TaskFrame ==
  ASSUME TypeInv, NEW t \in Task, TaskInv(t), NEW c \in Client,
         \A d \in Client \ {c} : call'[d] = call[d],
         call'[c] = Idle \/ call'[c].task # t,
         current'[t] = current[t], heap'[current[t]] = heap[current[t]],
         \A d \in Client \ {c} : On(d, t) => heap'[call[d].object] = heap[call[d].object],
         holders'[t] = holders[t], logged'[t] = logged[t]
  PROVE  TaskInv(t)'
<1>1. \A d \in Client : On(d, t)' => d # c /\ On(d, t) /\ call'[d] = call[d]
  BY DEF On, Idle, Before, Behind
<1>2. \A d \in Client : call'[d] # Idle /\ call'[d].task = t => d # c /\ call'[d] = call[d]
  OBVIOUS
<1>3. \A a : Belongs(t, a) => Belongs(t, a)'
  BY <1>1, <1>2 DEF Belongs, Owned
<1>4. ASSUME NEW d \in Client, On(d, t)', call'[d].op \in Claims
      PROVE  IF call'[d].at \in Before THEN Picked(d, t)' ELSE Assigned(d, t)'
  <2>1. d # c /\ On(d, t) /\ call'[d] = call[d]
    BY <1>1, <1>4
  <2>2. IF call[d].at \in Before THEN Picked(d, t) ELSE Assigned(d, t)
    BY <1>4, <2>1 DEF TaskInv
  <2>3. Picked(d, t) => Picked(d, t)'
    BY <1>2, <2>1 DEF Picked, Admits
  <2>4. Assigned(d, t) => Assigned(d, t)'
    BY <1>3, <2>1 DEF Assigned
  <2>5. QED
    BY <2>1, <2>2, <2>3, <2>4
<1>5. ASSUME NEW a \in holders'[t] PROVE Held(t, a)'
  <2>1. Held(t, a)
    BY DEF TaskInv
  <2>2. QED
    BY <1>1, <1>3, <2>1 DEF Held
<1>6. QED
  BY <1>4, <1>5 DEF TaskInv

-----------------------------------------------------------------------------
(* The life of a task, step by step *)

(* A request for a task meets its record only later, whoever sends it; a      *)
(* holder that reports gives the task up.                                     *)
LEMMA TaskRequest ==
  ASSUME NEW t \in Task, TaskInv(t), NEW c \in Client, call[c] = Idle,
         call'[c].at = "lookup", call'[c].task = t, call'[c].op \notin Claims,
         \A d \in Client \ {c} : call'[d] = call[d],
         UNCHANGED <<heap, current, logged>>,
         holders'[t] = IF call'[c].op \in Reports THEN holders[t] \ {c} ELSE holders[t]
  PROVE  TaskInv(t)'
<1>1. \A d \in Client : On(d, t)' => d # c /\ On(d, t) /\ call'[d] = call[d]
  BY DEF On, Before, Behind
<1>2. ASSUME NEW a, Belongs(t, a), a # c \/ call'[c].op \notin Reports
      PROVE  Belongs(t, a)'
  <2>1. \A d \in Client : call'[d] # Idle /\ call'[d].task = t =>
          call'[d].op \notin IF d = a THEN Reports ELSE Claims
    BY <1>2 DEF Belongs
  <2>2. QED
    BY <1>1, <1>2, <2>1 DEF Belongs, Owned
<1>3. ASSUME NEW d \in Client, On(d, t)', call'[d].op \in Claims
      PROVE  IF call'[d].at \in Before THEN Picked(d, t)' ELSE Assigned(d, t)'
  <2>1. d # c /\ On(d, t) /\ call'[d] = call[d]
    BY <1>1, <1>3
  <2>2. IF call[d].at \in Before THEN Picked(d, t) ELSE Assigned(d, t)
    BY <1>3, <2>1 DEF TaskInv
  <2>3. holders[t] = {} => holders'[t] = {}
    OBVIOUS
  <2>4. Picked(d, t) => Picked(d, t)'
    BY <2>1, <2>3 DEF Picked, Admits
  <2>5. Assigned(d, t) => Assigned(d, t)'
    BY <1>2, <2>1, <2>3 DEF Assigned
  <2>6. QED
    BY <2>1, <2>2, <2>4, <2>5
<1>4. ASSUME NEW a \in holders'[t] PROVE Held(t, a)'
  <2>1. a \in holders[t] /\ (a # c \/ call'[c].op \notin Reports)
    BY <1>4
  <2>2. Held(t, a)
    BY <2>1 DEF TaskInv
  <2>3. QED
    BY <1>1, <1>2, <2>1, <2>2 DEF Held
<1>5. QED
  BY <1>3, <1>4 DEF TaskInv

(* No request is admitted while a claim that has picked the task has yet to   *)
(* assign it; while the task is on its way to a client or held, those that    *)
(* leave it with its owner and the completion of it are.                      *)
LEMMA TaskLookup ==
  ASSUME NEW t \in Task, TaskInv(t), CleanTask(t), NEW c \in Client, call[c] # Idle,
         call[c].task = t,
         call[c].op \in Ops \ Claims, Admits(call[c].op, c, heap[current[t]]),
         call'[c].op = call[c].op, call'[c].task = t, call'[c].object = current[t],
         call'[c].at = "write",
         \A d \in Client \ {c} : call'[d] = call[d],
         UNCHANGED <<heap, current, logged, holders>>
  PROVE  TaskInv(t)'
<1>1. \A d \in Client \ {c} : On(d, t)' => On(d, t)
  BY DEF On
<1>2. ASSUME NEW d \in Client \ {c}, On(d, t), call[d].op \in Claims, Picked(d, t)
      PROVE  FALSE
  <2>1. heap[current[t]].status \in {"queued", "rollback-queued"}
    BY <1>2 DEF Picked, Admits, Claims
  <2>2. heap[current[t]].owner # c
    BY <2>1, RaceAssumption DEF CleanTask, Clean, Work
  <2>3. QED
    BY <2>1, <2>2 DEF Admits, Claims
<1>3. ASSUME NEW a, Belongs(t, a) PROVE Belongs(t, a)'
  <2>1. /\ call[c].op \notin IF c = a THEN Reports ELSE Claims
        /\ heap[current[t]].status \in Work /\ heap[current[t]].owner = a
    BY <1>3 DEF Belongs, Owned
  <2>2. call[c].op \in Keeps \cup {"complete"}
    <3>1. call[c].op # "reject"
      BY <2>1 DEF Admits, Reports
    <3>2. QED
      BY <2>1, <3>1 DEF Admits, Work, Ops, Requests, Reports, Keeps
  <2>3. QED
    BY <1>1, <1>3, <2>1, <2>2 DEF Belongs, Owned, Before
<1>4. ASSUME NEW d \in Client, On(d, t)', call'[d].op \in Claims
      PROVE  IF call'[d].at \in Before THEN Picked(d, t)' ELSE Assigned(d, t)'
  <2>1. d # c /\ On(d, t) /\ call'[d] = call[d]
    BY <1>1, <1>4
  <2>2. Assigned(d, t) /\ call[d].at \notin Before
    BY <1>2, <1>4, <2>1 DEF TaskInv
  <2>3. QED
    BY <1>3, <2>1, <2>2 DEF Assigned
<1>5. ASSUME NEW a \in holders'[t] PROVE Held(t, a)'
  <2>1. Held(t, a)
    BY <1>5 DEF TaskInv
  <2>2. QED
    BY <1>1, <1>3, <2>1 DEF Held
<1>6. QED
  BY <1>4, <1>5 DEF TaskInv

(* A claim no other call on the task is under way with has picked it.         *)
LEMMA TaskPick ==
  ASSUME TypeInv, CallShape, NEW t \in Task, TaskInv(t), NEW c \in Client, call[c].at = "pick",
         ~Underway(t, c),
         call[c].op \in Claims, Admits(call[c].op, c, heap[current[t]]),
         call'[c].op = call[c].op, call'[c].task = t, call'[c].object = current[t],
         call'[c].at \in Before,
         \A d \in Client \ {c} : call'[d] = call[d],
         UNCHANGED <<heap, current, logged, holders>>
  PROVE  TaskInv(t)'
<1>1. ASSUME NEW d \in Client \ {c}, call[d] # Idle, call[d].task = t
      PROVE  FALSE
  <2>1. call[c].op = "claim" /\ call[d].op = "claim"
    BY <1>1 DEF Underway
  <2>2. call[d].at # "lock"
    BY <1>1, RaceAssumption DEF CallShape, Shaped
  <2>3. QED
    BY <2>1, <2>2 DEF CallShape, Shaped
<1>2. \A d \in Client : On(d, t)' => d = c
  <2>1. \A d \in Client : On(d, t) => call[d] # Idle
    BY DEF On, Idle, Before, Behind
  <2>2. QED
    BY <1>1, <2>1 DEF On
<1>3. holders[t] = {}
  <2>1. heap[current[t]].status \notin Work
    BY DEF Admits, Claims, Work
  <2>2. QED
    BY <2>1 DEF TaskInv, Held, Belongs, Owned
<1>4. Picked(c, t)'
  BY <1>1, <1>3 DEF Picked, Admits
<1>5. QED
  BY <1>2, <1>3, <1>4 DEF TaskInv

(* A claim that has picked the task is alone with it, and stays so when the   *)
(* lease test passes and when it assigns the record.                          *)
LEMMA TaskClaims ==
  ASSUME NEW t \in Task, TaskInv(t), NEW c \in Client, On(c, t), call[c].op \in Claims,
         call[c].at \in Before,
         call'[c].op = call[c].op, call'[c].task = t, call'[c].object = call[c].object,
         \A d \in Client \ {c} : call'[d] = call[d],
         UNCHANGED <<current, logged, holders>>,
         \/ call'[c].at \in Before /\ heap' = heap
         \/ call'[c].at = "marshal" /\ Owned(heap'[call[c].object], c)
  PROVE  TaskInv(t)'
<1>1. Picked(c, t)
  BY DEF TaskInv
<1>2. \A d \in Client : On(d, t)' => d = c
  BY <1>1 DEF Picked, On, Before, Behind, Idle
<1>3. holders'[t] = {}
  BY <1>1 DEF Picked
<1>4. CASE call'[c].at \in Before /\ heap' = heap
  <2>1. Picked(c, t)'
    BY <1>1, <1>4 DEF Picked, Admits
  <2>2. QED
    BY <1>2, <1>3, <1>4, <2>1 DEF TaskInv
<1>5. CASE call'[c].at = "marshal" /\ Owned(heap'[call[c].object], c)
  <2>1. Belongs(t, c)'
    <3>1. Owned(heap'[current'[t]], c)
      BY <1>1, <1>5 DEF Picked
    <3>2. \A d \in Client : call'[d] # Idle /\ call'[d].task = t =>
            call'[d].op \notin IF d = c THEN Reports ELSE Claims
      BY <1>1 DEF Picked, Claims, Reports
    <3>3. QED
      BY <1>2, <1>5, <3>1, <3>2 DEF Belongs, Behind, Owned
  <2>2. Assigned(c, t)'
    BY <1>3, <1>5, <2>1 DEF Assigned
  <2>3. QED
    BY <1>2, <1>3, <1>5, <2>2 DEF TaskInv, Before
<1>6. QED
  BY <1>4, <1>5

(* A step of a call whose record, reading and event go on naming whom they    *)
(* named.                                                                     *)
LEMMA TaskAdvance ==
  ASSUME NEW t \in Task, TaskInv(t), NEW c \in Client, On(c, t), call[c] # Idle,
         call[c].op \in Claims => call[c].at \in Behind,
         call'[c].op = call[c].op, call'[c].task = t, call'[c].at \in Behind,
         \A d \in Client \ {c} : call'[d] = call[d],
         holders'[t] = holders[t],
         \A a : Belongs(t, a) =>
           /\ Belongs(t, a)'
           /\ logged[t].owner = a \/ call'[c].at = "apply" => logged'[t].owner = a
  PROVE  TaskInv(t)'
<1>1. \A d \in Client : On(d, t)' => On(d, t) /\ call'[d].op = call[d].op
  BY DEF On
<1>2. ASSUME NEW d \in Client, On(d, t)', call'[d].op \in Claims
      PROVE  IF call'[d].at \in Before THEN Picked(d, t)' ELSE Assigned(d, t)'
  <2>1. call[d].at \notin Before
    <3>1. CASE d = c
      BY <1>1, <1>2, <3>1 DEF Before, Behind
    <3>2. CASE d # c
      <4>1. ~Picked(d, t)
        BY <3>2 DEF Picked, On, Before, Behind
      <4>2. QED
        BY <1>1, <1>2, <4>1 DEF TaskInv
    <3>3. QED
      BY <3>1, <3>2
  <2>2. Assigned(d, t)
    BY <1>1, <1>2, <2>1 DEF TaskInv
  <2>3. Assigned(d, t)'
    BY <2>2 DEF Assigned
  <2>4. call'[d].at \notin Before
    BY <2>1 DEF Before, Behind
  <2>5. QED
    BY <2>3, <2>4
<1>3. ASSUME NEW a \in holders'[t] PROVE Held(t, a)'
  <2>1. Held(t, a)
    BY <1>3 DEF TaskInv
  <2>2. QED
    BY <1>1, <2>1 DEF Held
<1>4. QED
  BY <1>2, <1>3 DEF TaskInv

(* Once the completion is written nobody holds the task.                      *)
LEMMA TaskComplete ==
  ASSUME NEW t \in Task, NEW c \in Client, call[c].task = t, call[c].op = "complete",
         call'[c].op = call[c].op,
         \A d \in Client \ {c} : call'[d] = call[d],
         ~Claiming(t), holders'[t] = {}
  PROVE  TaskInv(t)'
<1>1. \A d \in Client : On(d, t)' => call'[d].op \notin Claims
  <2>1. call'[c].op \notin Claims
    BY DEF Claims
  <2>2. QED
    BY <2>1 DEF On, Claiming
<1>2. QED
  BY <1>1 DEF TaskInv

(* The claim that is applied makes its client the holder; any other call      *)
(* brings back a record that names the holder.                                *)
LEMMA TaskApply ==
  ASSUME NEW t \in Task, TaskInv(t), NEW c \in Client, On(c, t), call[c].at = "apply",
         TypeInv, CallShape, Apply(c)
  PROVE  TaskInv(t)'
<1>1. /\ call[c] # Idle /\ call'[c] = Idle
      /\ \A d \in Client \ {c} : call'[d] = call[d]
      /\ \A i \in DOMAIN heap : heap'[i] = heap[i]
      /\ current'[t] = Len(heap) + 1 /\ heap'[Len(heap) + 1] = call[c].data
      /\ holders'[t] = IF call[c].op \in Claims THEN holders[t] \cup {c} ELSE holders[t]
      /\ logged' = logged
  BY ApplyFacts DEF On
<1>2. \A d \in Client : On(d, t)' => d # c /\ On(d, t) /\ call'[d] = call[d]
  BY <1>1 DEF On, Idle, Before, Behind
<1>3. \A d \in Client : call'[d] # Idle /\ call'[d].task = t => d # c /\ call'[d] = call[d]
  BY <1>1
<1>4. \A d \in Client : On(d, t) => call[d].object \in DOMAIN heap
  BY DEF CallShape, Shaped, On
<1>5. ASSUME NEW a, Belongs(t, a) PROVE Belongs(t, a)'
  <2>1. Owned(call[c].data, a)
    BY <1>5 DEF Belongs
  <2>2. Owned(heap'[current'[t]], a)
    BY <1>1, <2>1
  <2>3. \A d \in Client : On(d, t)' => heap'[call'[d].object] = heap[call[d].object]
    BY <1>1, <1>2, <1>4
  <2>4. QED
    BY <1>2, <1>3, <1>5, <2>2, <2>3 DEF Belongs, Owned
<1>6. ASSUME NEW d \in Client, On(d, t), call[d].op \in Claims
      PROVE  call[d].at \notin Before /\ Assigned(d, t)
  <2>1. call[d].at \in Before => ~Picked(d, t)
    BY <1>1 DEF Picked, On, Before, Behind
  <2>2. QED
    BY <1>6, <2>1 DEF TaskInv
<1>7. CASE call[c].op \in Claims
  <2>1. Assigned(c, t)
    BY <1>6, <1>7
  <2>2. Belongs(t, c)' /\ logged'[t].owner = c /\ holders'[t] = {c}
    BY <1>1, <1>5, <1>7, <2>1 DEF Assigned
  <2>3. \A d \in Client : On(d, t)' => call'[d].op \notin Claims
    BY <1>2, <2>1 DEF Assigned, Belongs, Claims, Keeps
  <2>4. Held(t, c)'
    BY <2>2, <2>3 DEF Held
  <2>5. QED
    BY <2>2, <2>3, <2>4 DEF TaskInv
<1>8. CASE call[c].op \notin Claims
  <2>1. ASSUME NEW d \in Client, On(d, t)', call'[d].op \in Claims
        PROVE  IF call'[d].at \in Before THEN Picked(d, t)' ELSE Assigned(d, t)'
    <3>1. On(d, t) /\ call'[d] = call[d]
      BY <1>2, <2>1
    <3>2. call[d].at \notin Before /\ Assigned(d, t)
      BY <1>6, <2>1, <3>1
    <3>3. Assigned(d, t)'
      BY <1>1, <1>5, <1>8, <3>1, <3>2 DEF Assigned
    <3>4. QED
      BY <3>1, <3>2, <3>3
  <2>2. ASSUME NEW a \in holders'[t] PROVE Held(t, a)'
    <3>1. Held(t, a)
      BY <1>1, <1>8, <2>2 DEF TaskInv
    <3>2. QED
      BY <1>1, <1>2, <1>5, <3>1 DEF Held
  <2>3. QED
    BY <2>1, <2>2 DEF TaskInv
<1>9. QED
  BY <1>7, <1>8

(* The invariant of a task no call has overlapped a claim of.                 *)
LEMMA TaskStep ==
  ASSUME TypeInv, CallShape, Apart, [Next]_vars,
         NEW t \in Task, t \notin overlapped => CleanTask(t) /\ TaskInv(t), t \notin overlapped'
  PROVE  TaskInv(t)'
<1>0. overlapped \subseteq overlapped'
  BY DEF Next, Step, Request, RequestClaim, Lock, Pick, Lookup, LeaseTest, Write, Marshal,
         AppendEvent, Apply, vars
<1>1. CleanTask(t) /\ TaskInv(t)
  BY <1>0
<1>2. ASSUME NEW c \in Client, \A d \in Client \ {c} : call'[d] = call[d],
             call'[c] = Idle \/ call'[c].task # t,
             UNCHANGED <<heap, current, logged>>, holders'[t] = holders[t]
      PROVE  TaskInv(t)'
  BY <1>1, <1>2, TaskFrame
<1>3. ASSUME NEW c \in Client, Return(c), UNCHANGED <<heap, current, logged, holders>>
      PROVE  TaskInv(t)'
  BY <1>2, <1>3, ReturnFacts
<1>4. ASSUME NEW c \in Client, NEW u \in Task, NEW op \in Requests, Request(c, op, u)
      PROVE  TaskInv(t)'
  <2>1. op \in Ops /\ "lookup" \in Places /\ op \notin Claims
    BY <1>4 DEF Ops, Places, Requests, Claims, Reports
  <2>2. /\ call'[c].op = op /\ call'[c].at = "lookup" /\ call'[c].task = u
        /\ \A d \in Client \ {c} : call'[d] = call[d]
    BY <1>4, <2>1, StartFacts DEF Request
  <2>3. call[c] = Idle /\ UNCHANGED <<heap, current, logged>>
    BY <1>4 DEF Request
  <2>4. /\ u # t => holders'[t] = holders[t]
        /\ holders'[u] = IF op \in Reports THEN holders[u] \ {c} ELSE holders[u]
    BY <1>4 DEF Request, TypeInv
  <2>5. CASE u = t
    BY <1>1, <2>1, <2>2, <2>3, <2>4, <2>5, TaskRequest
  <2>6. CASE u # t
    BY <1>2, <2>2, <2>3, <2>4, <2>6
  <2>7. QED
    BY <2>5, <2>6
<1>5. ASSUME NEW c \in Client, NEW op \in Claims, RequestClaim(c, op)
      PROVE  TaskInv(t)'
  <2>1. op \in Ops /\ {"lock", "pick"} \subseteq Places
    BY <1>5 DEF Ops, Places
  <2>2. call'[c].task = NoTask /\ \A d \in Client \ {c} : call'[d] = call[d]
    BY <1>5, <2>1, StartFacts DEF RequestClaim
  <2>3. UNCHANGED <<heap, current, logged, holders>>
    BY <1>5 DEF RequestClaim
  <2>4. QED
    BY <1>2, <2>2, <2>3, RaceAssumption
<1>6. ASSUME NEW c \in Client, Lock(c) PROVE TaskInv(t)'
  <2>1. call[c] # Idle /\ "pick" \in Places /\ call[c].task = NoTask
    BY <1>6, PlaceFacts DEF Lock, At, Places, Shaped
  <2>2. call'[c].task = NoTask /\ \A d \in Client \ {c} : call'[d] = call[d]
    BY <1>6, <2>1, GoFacts DEF Lock
  <2>3. UNCHANGED <<heap, current, logged, holders>>
    BY <1>6 DEF Lock
  <2>4. QED
    BY <1>2, <2>2, <2>3, RaceAssumption
<1>7. ASSUME NEW c \in Client, Pick(c) PROVE TaskInv(t)'
  <2>1. UNCHANGED <<heap, current, logged, holders>> /\ call[c].at = "pick"
    BY <1>7 DEF Pick, At
  <2>2. CASE ~Return(c)
    <3>1. PICK u \in Task :
           /\ call[c].op \in Claims /\ Admits(call[c].op, c, heap[current[u]])
           /\ call'[c].op = call[c].op /\ call'[c].task = u /\ call'[c].object = current[u]
           /\ call'[c].at \in Before
           /\ \A d \in Client \ {c} : call'[d] = call[d]
           /\ overlapped' = overlapped \cup IF Underway(u, c) THEN {u} ELSE {}
      BY <1>7, <2>2, PickFacts
    <3>2. CASE u = t
      <4>1. ~Underway(t, c)
        BY <3>1, <3>2
      <4>2. QED
        BY <1>1, <2>1, <3>1, <3>2, <4>1, TaskPick
    <3>3. CASE u # t
      BY <1>2, <2>1, <3>1, <3>3
    <3>4. QED
      BY <3>2, <3>3
  <2>3. CASE Return(c)
    BY <1>3, <2>1, <2>3
  <2>4. QED
    BY <2>2, <2>3
<1>8. ASSUME NEW c \in Client, Lookup(c) PROVE TaskInv(t)'
  <2>1. UNCHANGED <<heap, current, logged, holders>>
    BY <1>8 DEF Lookup
  <2>2. CASE ~Return(c)
    <3>1. CASE call[c].task = t
      BY <1>1, <1>8, <2>1, <2>2, <3>1, LookupFacts, TaskLookup
    <3>2. CASE call[c].task # t
      BY <1>2, <1>8, <2>1, <2>2, <3>2, LookupFacts
    <3>3. QED
      BY <3>1, <3>2
  <2>3. QED
    BY <1>3, <2>1, <2>2
<1>9. ASSUME NEW c \in Client, LeaseTest(c) PROVE TaskInv(t)'
  <2>1. UNCHANGED <<heap, current, logged, holders>>
    BY <1>9 DEF LeaseTest
  <2>2. CASE ~Return(c)
    <3>1. /\ call'[c].op = call[c].op /\ call'[c].task = call[c].task
          /\ call'[c].object = call[c].object /\ call[c].at = "test" /\ call'[c].at = "write"
          /\ \A d \in Client \ {c} : call'[d] = call[d]
      BY <1>9, <2>2, AdvanceFacts
    <3>2. call[c].op \in Claims
      BY <3>1 DEF CallShape, Shaped, Claims
    <3>3. CASE call[c].task = t
      BY <1>1, <2>1, <3>1, <3>2, <3>3, TaskClaims DEF On, Before
    <3>4. CASE call[c].task # t
      BY <1>2, <2>1, <3>1, <3>4
    <3>5. QED
      BY <3>3, <3>4
  <2>3. QED
    BY <1>3, <2>1, <2>2
<1>10. ASSUME NEW c \in Client, Write(c) PROVE TaskInv(t)'
  <2>1. /\ call[c] # Idle /\ call[c].task \in Task
        /\ call'[c].op = call[c].op /\ call'[c].task = call[c].task
        /\ call'[c].object = call[c].object /\ call[c].at = "write" /\ call'[c].at = "marshal"
        /\ \A d \in Client \ {c} : call'[d] = call[d]
    BY <1>10, AdvanceFacts
  <2>2. /\ UNCHANGED <<current, logged>>
        /\ holders' = IF call[c].op = "complete"
                      THEN [holders EXCEPT ![call[c].task] = {}] ELSE holders
        /\ call[c].op = "complete" /\ Claiming(call[c].task) => call[c].task \in overlapped'
    BY <1>10 DEF Write
  <2>3. call[c].object \in DOMAIN heap /\ On(c, call[c].task) /\ call[c].op \in Ops
    BY <2>1, PlaceFacts DEF On, Shaped, Before, Places, Busy
  <2>4. /\ \A i \in DOMAIN heap : i # call[c].object => heap'[i] = heap[i]
        /\ heap[call[c].object] \in Record
        /\ heap'[call[c].object].status = StatusAfter(call[c].op, heap[call[c].object].status)
        /\ heap'[call[c].object].owner = OwnerAfter(call[c].op, c, heap[call[c].object].owner)
    BY <1>10, <2>3 DEF Write, TypeInv
  <2>5. /\ \A u \in Task : current[u] \in DOMAIN heap
        /\ \A d \in Client : On(d, t) => call[d].object \in DOMAIN heap
    BY DEF TypeInv, CallShape, Shaped, On
  <2>6. CASE call[c].task # t
    <3>1. /\ heap'[current[t]] = heap[current[t]]
          /\ \A d \in Client : On(d, t) => heap'[call[d].object] = heap[call[d].object]
      BY <2>1, <2>3, <2>4, <2>5, <2>6 DEF Apart
    <3>2. holders'[t] = holders[t]
      BY <2>2, <2>6 DEF TypeInv
    <3>3. QED
      BY <1>1, <2>1, <2>2, <2>6, <3>1, <3>2, TaskFrame
  <2>7. CASE call[c].task = t /\ call[c].op \in Claims
    <3>1. Owned(heap'[call[c].object], c)
      BY <2>3, <2>4, <2>7, EffectFacts DEF Owned
    <3>2. holders' = holders
      BY <2>2, <2>7 DEF Claims
    <3>3. QED
      BY <1>1, <2>1, <2>2, <2>3, <2>7, <3>1, <3>2, TaskClaims DEF Before
  <2>8. CASE call[c].task = t /\ call[c].op = "complete"
    <3>1. ~Claiming(t) /\ holders'[t] = {}
      BY <2>2, <2>8 DEF TypeInv
    <3>2. QED
      BY <2>1, <2>8, <3>1, TaskComplete
  <2>9. CASE call[c].task = t /\ call[c].op \notin Claims \cup {"complete"}
    <3>1. ASSUME NEW a, Belongs(t, a) PROVE Belongs(t, a)'
      <4>1. call[c].op \in Keeps /\ Owned(heap[call[c].object], a)
        BY <2>3, <2>9, <3>1 DEF Belongs
      <4>2. Owned(heap'[call[c].object], a)
        BY <2>3, <2>4, <4>1, EffectFacts DEF Owned
      <4>3. Owned(heap'[current'[t]], a)
        BY <2>2, <2>4, <2>5, <3>1, <4>2 DEF Belongs, Owned
      <4>4. ASSUME NEW d \in Client, On(d, t)'
            PROVE  Owned(heap'[call'[d].object], a)
        <5>1. On(d, t) /\ call'[d].object = call[d].object
          BY <2>1, <2>3, <2>9, <4>4 DEF On
        <5>2. QED
          BY <2>4, <2>5, <3>1, <4>2, <5>1 DEF Belongs, Owned
      <4>5. ASSUME NEW d \in Client, d # c, On(d, t)'
            PROVE  On(d, t) /\ call'[d] = call[d]
        BY <2>1, <4>5 DEF On
      <4>6. QED
        BY <2>1, <2>9, <3>1, <4>1, <4>3, <4>4, <4>5 DEF Belongs
    <3>2. holders' = holders
      BY <2>2, <2>9
    <3>3. QED
      BY <1>1, <2>1, <2>2, <2>3, <2>9, <3>1, <3>2, TaskAdvance DEF Behind
  <2>10. QED
    BY <2>6, <2>7, <2>8, <2>9
<1>11. ASSUME NEW c \in Client, Marshal(c) PROVE TaskInv(t)'
  <2>1. /\ call[c].at = "marshal" /\ call[c] # Idle /\ call[c].task \in Task
        /\ call'[c].op = call[c].op /\ call'[c].task = call[c].task
        /\ call'[c].object = call[c].object /\ call'[c].at = "append"
        /\ call'[c].data = heap[call[c].object]
        /\ \A d \in Client \ {c} : call'[d] = call[d]
        /\ UNCHANGED <<heap, current, logged, holders, overlapped>>
    BY <1>11, MarshalFacts
  <2>2. CASE call[c].task # t
    BY <1>2, <2>1, <2>2
  <2>3. CASE call[c].task = t
    <3>1. On(c, t)
      BY <2>1, <2>3 DEF On, Behind
    <3>2. ASSUME NEW a, Belongs(t, a) PROVE Belongs(t, a)'
      <4>1. /\ Owned(heap[call[c].object], a)
            /\ call[c].op \in Keeps \/ (c = a /\ call[c].op \in Claims)
        BY <2>1, <3>1, <3>2 DEF Belongs, Before
      <4>2. \A d \in Client : On(d, t)' => On(d, t) /\ call'[d].object = call[d].object
        BY <2>1, <3>1 DEF On
      <4>3. QED
        BY <2>1, <2>3, <3>1, <3>2, <4>1, <4>2 DEF Belongs, Behind, Owned
    <3>3. QED
      BY <1>1, <2>1, <2>3, <3>1, <3>2, TaskAdvance DEF Behind
  <2>4. QED
    BY <2>2, <2>3
<1>12. ASSUME NEW c \in Client, AppendEvent(c) PROVE TaskInv(t)'
  <2>1. /\ call[c] # Idle /\ call[c].task \in Task
        /\ call'[c].op = call[c].op /\ call'[c].task = call[c].task
        /\ call'[c].object = call[c].object /\ call'[c].data = call[c].data
        /\ call[c].at = "append" /\ call'[c].at = "apply"
        /\ \A d \in Client \ {c} : call'[d] = call[d]
    BY <1>12, AdvanceFacts
  <2>2. /\ UNCHANGED <<heap, current, holders>>
        /\ logged'[t] = IF call[c].task = t THEN call[c].data ELSE logged[t]
    BY <1>12, <2>1 DEF AppendEvent, TypeInv
  <2>3. CASE call[c].task # t
    BY <1>1, <2>1, <2>2, <2>3, TaskFrame
  <2>4. CASE call[c].task = t
    <3>1. On(c, t)
      BY <2>1, <2>4 DEF On, Behind
    <3>2. ASSUME NEW a, Belongs(t, a)
          PROVE  Belongs(t, a)' /\ logged'[t].owner = a
      <4>1. /\ Owned(call[c].data, a)
            /\ call[c].op \in Keeps \/ (c = a /\ call[c].op \in Claims)
        BY <2>1, <3>1, <3>2 DEF Belongs, Before
      <4>2. \A d \in Client : On(d, t)' => On(d, t) /\ call'[d].object = call[d].object
        BY <2>1, <3>1 DEF On
      <4>3. Belongs(t, a)'
        BY <2>1, <2>2, <2>4, <3>1, <3>2, <4>1, <4>2 DEF Belongs, Behind, Owned
      <4>4. QED
        BY <2>2, <2>4, <4>1, <4>3 DEF Owned
    <3>3. QED
      BY <1>1, <2>1, <2>2, <2>4, <3>1, <3>2, TaskAdvance DEF Behind
  <2>5. QED
    BY <2>3, <2>4
<1>13. ASSUME NEW c \in Client, Apply(c) PROVE TaskInv(t)'
  <2>1. CASE call[c].task = t
    <3>1. On(c, t) /\ call[c].at = "apply"
      BY <1>13, <2>1, ApplyFacts DEF On, Behind
    <3>2. QED
      BY <1>1, <1>13, <3>1, TaskApply
  <2>2. CASE call[c].task # t
    <3>1. /\ call'[c] = Idle
          /\ \A d \in Client \ {c} : call'[d] = call[d]
          /\ \A i \in DOMAIN heap : heap'[i] = heap[i]
          /\ current'[t] = current[t] /\ holders'[t] = holders[t]
          /\ logged' = logged
      BY <1>13, <2>2, ApplyFacts
    <3>2. /\ current[t] \in DOMAIN heap
          /\ \A d \in Client : On(d, t) => call[d].object \in DOMAIN heap
      BY DEF TypeInv, CallShape, Shaped, On
    <3>3. QED
      BY <1>1, <3>1, <3>2, TaskFrame
  <2>3. QED
    BY <2>1, <2>2
<1>14. CASE UNCHANGED vars
  <2>1. UNCHANGED <<heap, current, logged, call, holders>>
    BY <1>14 DEF vars
  <2>2. QED
    BY <1>1, <2>1 DEF TaskInv, Picked, Assigned, Held, Belongs, Owned, On, Admits
<1>15. QED
  BY <1>4, <1>5, <1>6, <1>7, <1>8, <1>9, <1>10, <1>11, <1>12, <1>13, <1>14 DEF Next, Step

-----------------------------------------------------------------------------
(* The theorems *)

LEMMA InitRace == Init => RaceInv
<1> SUFFICES ASSUME Init PROVE RaceInv
  OBVIOUS
<1>1. Cardinality(Task) \in Nat
  BY RaceAssumption, FS_CardinalityType
<1>2. \A c \in Client : call[c] = Idle
  BY DEF Init
<1>3. TypeInv
  <2> DEFINE new == [status |-> "queued", owner |-> None]
  <2>1. new \in Record
    BY DEF Record, Status, Owner
  <2>2. heap \in Seq(Record) /\ DOMAIN heap = 1 .. Cardinality(Task)
    <3>1. heap = [i \in 1 .. Cardinality(Task) |-> new]
      BY DEF Init
    <3> HIDE DEF new
    <3>2. QED
      BY <1>1, <2>1, <3>1
  <2>3. current \in [Task -> DOMAIN heap]
    BY <2>2 DEF Init
  <2>4. QED
    BY <2>1, <2>2, <2>3 DEF Init, TypeInv
<1>4. CallShape
  BY <1>2, IdleShaped DEF CallShape
<1>5. \A c \in Client, t \in Task : ~On(c, t)
  BY <1>2 DEF On, Idle, Before, Behind
<1>6. Apart
  BY <1>5 DEF Apart, Init
<1>7. ASSUME NEW t \in Task PROVE CleanTask(t)
  <2>1. current[t] \in 1 .. Cardinality(Task)
    BY DEF Init
  <2>2. heap[current[t]].owner = None
    BY <2>1 DEF Init
  <2>3. QED
    BY <1>5, <2>2 DEF CleanTask, Clean
<1>8. \A t \in Task : TaskInv(t)
  BY <1>5 DEF TaskInv, Init
<1>9. QED
  BY <1>3, <1>4, <1>6, <1>7, <1>8 DEF RaceInv

LEMMA StepRace == RaceInv /\ [Next]_vars => RaceInv'
<1> SUFFICES ASSUME RaceInv, [Next]_vars PROVE RaceInv'
  OBVIOUS
<1>1. TypeInv /\ CallShape /\ Apart /\ \A t \in Task \ overlapped : CleanTask(t) /\ TaskInv(t)
  BY DEF RaceInv
<1>2. TypeInv' /\ CallShape' /\ Apart'
  BY <1>1, TypeStep, ShapeStep, ApartStep
<1>3. overlapped \subseteq overlapped'
  BY DEF Next, Step, Request, RequestClaim, Lock, Pick, Lookup, LeaseTest, Write, Marshal,
         AppendEvent, Apply, vars
<1>4. ASSUME NEW t \in Task \ overlapped' PROVE CleanTask(t)' /\ TaskInv(t)'
  BY <1>1, <1>3, <1>4, CleanStep, TaskStep
<1>5. QED
  BY <1>2, <1>4 DEF RaceInv

LEMMA RaceInvHolds == Spec => []RaceInv
BY InitRace, StepRace, PTL DEF Spec

(* What a client was told is what a restart would rebuild and what the        *)
(* handlers see: if no other call on the task was under way when its claim    *)
(* picked it, and nobody completed it before the claim was answered, then     *)
(* whatever calls anyone makes on the task from then on, its last event and   *)
(* its record name that client until it reports or someone completes it.      *)
THEOREM HolderIsRecorded == Spec => []HolderRecorded
<1>1. RaceInv => HolderRecorded
  <2> SUFFICES ASSUME RaceInv, NEW t \in Task \ overlapped, NEW a \in holders[t]
               PROVE  heap[current[t]].owner = a /\ logged[t].owner = a
    BY DEF HolderRecorded
  <2>1. Held(t, a)
    BY DEF RaceInv, TaskInv
  <2>2. QED
    BY <2>1 DEF Held, Belongs, Owned
<1>2. QED
  BY <1>1, RaceInvHolds, PTL

(* No task has two holders: one that is claimed with no other call on it      *)
(* under way is given to nobody else until its client reports or someone      *)
(* completes it, however many calls anyone makes on it meanwhile.             *)
THEOREM HoldersAlone == Spec => []OneHolder
<1>1. RaceInv => OneHolder
  <2> SUFFICES ASSUME RaceInv, NEW t \in Task \ overlapped PROVE Cardinality(holders[t]) <= 1
    BY DEF OneHolder
  <2>1. \A a \in holders[t] : heap[current[t]].owner = a
    BY DEF RaceInv, TaskInv, Held, Belongs, Owned
  <2>2. CASE holders[t] = {}
    BY <2>2, FS_EmptySet
  <2>3. CASE holders[t] # {}
    <3>1. PICK a : holders[t] = {a}
      BY <2>1, <2>3
    <3>2. QED
      BY <3>1, FS_Singleton
  <2>4. QED
    BY <2>2, <2>3
<1>2. QED
  BY <1>1, RaceInvHolds, PTL
=============================================================================
