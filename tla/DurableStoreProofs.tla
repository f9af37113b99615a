------------------------- MODULE DurableStoreProofs -------------------------
(***************************************************************************)
(* Proofs that the store keeps what emit reported as stored, and implements *)
(* EventLog, for every set of aggregates and any number of changes, where   *)
(* no record is left decodable without its newline and a failed write       *)
(* leaves the whole record or nothing.                                      *)
(***************************************************************************)
EXTENDS DurableStore, SequenceTheorems, TLAPS

\* The crashes and write errors after which nothing is glued to the end of a
\* record: a partial record is always the last line when a restart reads it.
CleanTails ==
  /\ CrashTails \subseteq {"nothing", "part", "all"}
  /\ ErrorTails \subseteq {"nothing", "all"}

LogLine == [aggregate : Aggregate, revision : Nat, valid : BOOLEAN]

Whole(lines) == \A i \in DOMAIN lines : lines[i].valid

Present(lines, a) == \E i \in DOMAIN lines : LastLine(lines, a, i)

-----------------------------------------------------------------------------
(* Reading the log *)

LEMMA WholePrefix ==
  ASSUME NEW lines, Whole(lines)
  PROVE  ValidPrefix(lines) = lines
  BY DEF ValidPrefix, FirstInvalid, Whole

(* A line that does not decode, at the end of lines that do, is cut off. *)
LEMMA TornPrefix ==
  ASSUME NEW lines \in Seq(LogLine), Whole(lines), NEW line \in LogLine, ~line.valid
  PROVE  ValidPrefix(Append(lines, line)) = lines
<1> DEFINE torn == Append(lines, line)
           n == Len(lines)
<1>1. /\ n \in Nat /\ Len(torn) = n + 1 /\ DOMAIN torn = 1 .. n + 1
      /\ torn[n + 1] = line /\ \A i \in 1 .. n : torn[i] = lines[i]
  OBVIOUS
<1>2. SubSeq(torn, 1, n) = lines
  OBVIOUS
<1>3. \A i \in 1 .. n : lines[i].valid
  BY DEF Whole
<1> HIDE DEF torn, n
<1>4. \A k : FirstInvalid(torn, k) <=> k = n + 1
  <2>1. FirstInvalid(torn, n + 1)
    BY <1>1, <1>3 DEF FirstInvalid
  <2>2. ASSUME NEW k, FirstInvalid(torn, k) PROVE k = n + 1
    <3>1. k \in 1 .. n + 1 /\ ~torn[k].valid
      BY <1>1, <2>2 DEF FirstInvalid
    <3>2. k \notin 1 .. n
      BY <1>1, <1>3, <3>1
    <3>3. QED
      BY <1>1, <3>1, <3>2
  <2>3. QED
    BY <2>1, <2>2
<1>5. ValidPrefix(torn) = SubSeq(torn, 1, n)
  <2> DEFINE first == CHOOSE k \in DOMAIN torn : FirstInvalid(torn, k)
  <2>1. n + 1 \in DOMAIN torn /\ first = n + 1
    BY <1>1, <1>4
  <2>2. ValidPrefix(torn) = SubSeq(torn, 1, first - 1)
    BY <1>4, <2>1 DEF ValidPrefix
  <2> HIDE DEF first
  <2>3. first - 1 = n
    BY <1>1, <2>1
  <2>4. QED
    BY <2>2, <2>3
<1>6. QED
  BY <1>2, <1>5 DEF torn

(* What one more line does to the revision a replay comes to. *)
LEMMA OneMoreLine ==
  ASSUME NEW lines \in Seq(LogLine), NEW line \in LogLine, NEW a, NEW old
  PROVE  LET longer == Append(lines, line) IN
         /\ Latest(longer, a, old) =
              IF line.aggregate = a THEN line.revision ELSE Latest(lines, a, old)
         /\ Present(lines, a) => Present(longer, a)
         /\ line.aggregate = a => Present(longer, a)
<1> DEFINE longer == Append(lines, line)
           n == Len(lines)
<1>1. /\ n \in Nat /\ DOMAIN lines = 1 .. n /\ DOMAIN longer = 1 .. n + 1
      /\ longer[n + 1] = line /\ \A i \in 1 .. n : longer[i] = lines[i]
  OBVIOUS
<1> HIDE DEF longer, n
<1>2. CASE line.aggregate = a
  <2>1. LastLine(longer, a, n + 1)
    BY <1>1, <1>2 DEF LastLine
  <2>2. \A i : LastLine(longer, a, i) => i = n + 1
    BY <1>1, <1>2 DEF LastLine
  <2>3. (CHOOSE i \in DOMAIN longer : LastLine(longer, a, i)) = n + 1
    BY <1>1, <2>1, <2>2
  <2>4. Present(longer, a)
    BY <1>1, <2>1 DEF Present
  <2>5. Latest(longer, a, old) =
          longer[CHOOSE i \in DOMAIN longer : LastLine(longer, a, i)].revision
    BY <2>4 DEF Latest, Present
  <2>6. Latest(longer, a, old) = line.revision
    BY <1>1, <2>3, <2>5
  <2>7. QED
    BY <1>2, <2>4, <2>6 DEF longer
<1>3. CASE line.aggregate # a
  <2>1. \A i : LastLine(longer, a, i) <=> LastLine(lines, a, i)
    <3>1. ASSUME NEW i, LastLine(longer, a, i) PROVE LastLine(lines, a, i)
      BY <1>1, <1>3, <3>1 DEF LastLine
    <3>2. ASSUME NEW i, LastLine(lines, a, i) PROVE LastLine(longer, a, i)
      BY <1>1, <1>3, <3>2 DEF LastLine
    <3>3. QED
      BY <3>1, <3>2
  <2>2. CASE Present(lines, a)
    <3>1. PICK i \in DOMAIN lines : LastLine(lines, a, i)
      BY <2>2 DEF Present
    <3>2. \A j : LastLine(lines, a, j) => j = i
      BY <1>1, <3>1 DEF LastLine
    <3>3. /\ (CHOOSE j \in DOMAIN lines : LastLine(lines, a, j)) = i
          /\ (CHOOSE j \in DOMAIN longer : LastLine(longer, a, j)) = i
      BY <1>1, <2>1, <3>1, <3>2
    <3>4. longer[i] = lines[i] /\ i \in DOMAIN longer
      BY <1>1
    <3>5. Present(longer, a)
      BY <2>1, <3>1, <3>4 DEF Present
    <3>6. /\ Latest(lines, a, old) = lines[i].revision
          /\ Latest(longer, a, old) = longer[i].revision
      BY <2>2, <3>3, <3>5 DEF Latest, Present
    <3>7. QED
      BY <1>3, <3>4, <3>5, <3>6 DEF longer
  <2>3. CASE ~Present(lines, a)
    <3>1. ~Present(longer, a)
      BY <2>1, <2>3 DEF Present, LastLine
    <3>2. QED
      BY <1>3, <2>3, <3>1 DEF Latest, Present, longer
  <2>4. QED
    BY <2>2, <2>3
<1>4. QED
  BY <1>2, <1>3

LEMMA LatestRange ==
  ASSUME NEW lines \in Seq(LogLine), NEW a, NEW old, NEW S,
         \A i \in DOMAIN lines : lines[i].revision \in S, old \in S
  PROVE  Latest(lines, a, old) \in S
  BY DEF Latest

-----------------------------------------------------------------------------
(* Type correctness *)

LogType(n) == Seq([aggregate : Aggregate, revision : 0 .. n, valid : BOOLEAN])

LEMMA PrefixType ==
  ASSUME NEW S, NEW lines \in Seq(S)
  PROVE  ValidPrefix(lines) \in Seq(S)
<1>1. CASE \E k \in DOMAIN lines : FirstInvalid(lines, k)
  <2> DEFINE first == CHOOSE k \in DOMAIN lines : FirstInvalid(lines, k)
  <2>1. first \in DOMAIN lines /\ ValidPrefix(lines) = SubSeq(lines, 1, first - 1)
    BY <1>1 DEF ValidPrefix
  <2> HIDE DEF first
  <2>2. /\ 1 \in Int /\ first - 1 \in Int
        /\ \A i \in 1 .. first - 1 : lines[i] \in S
    BY <2>1
  <2>3. QED
    BY <2>1, <2>2, SubSeqProperties
<1>2. CASE ~ \E k \in DOMAIN lines : FirstInvalid(lines, k)
  BY <1>2 DEF ValidPrefix
<1>3. QED
  BY <1>1, <1>2

LEMMA RebuiltType ==
  ASSUME NEW n \in Nat, NEW lines \in LogType(n),
         NEW snap \in [records : [Aggregate -> 0 .. n], audit : Seq(0 .. n)]
  PROVE  Rebuilt(snap, lines) \in [records : [Aggregate -> 0 .. n], audit : Seq(0 .. n)]
<1>1. \A i \in DOMAIN lines : lines[i].revision \in 0 .. n
  <2> DEFINE L == [aggregate : Aggregate, revision : 0 .. n, valid : BOOLEAN]
  <2>1. \A line \in L : line.revision \in 0 .. n
    OBVIOUS
  <2>2. lines \in Seq(L)
    BY DEF LogType
  <2> HIDE DEF L
  <2>3. QED
    BY <2>1, <2>2
<1>2. \A a \in Aggregate : Latest(lines, a, snap.records[a]) \in 0 .. n
  BY <1>1 DEF Latest
<1>3. [i \in DOMAIN lines |-> lines[i].revision] \in Seq(0 .. n)
  <2>1. DOMAIN lines = 1 .. Len(lines) /\ Len(lines) \in Nat
    BY DEF LogType
  <2>2. QED
    BY <1>1, <2>1
<1>4. QED
  BY <1>2, <1>3 DEF Rebuilt

LEMMA WriteType ==
  ASSUME TypeOK, NEW tail \in Remnant, Written(pending, tail)
  PROVE  log' \in LogType(revision) /\ open' \in BOOLEAN
<1> DEFINE L == [aggregate : Aggregate, revision : 0 .. revision, valid : BOOLEAN]
           line == Line(pending, tail # "part")
<1>1. log \in Seq(L) /\ pending \in Event /\ revision \in Nat /\ open \in BOOLEAN
  BY DEF TypeOK
<1>2. line \in L
  BY <1>1 DEF Line, Event
<1>3. open' \in BOOLEAN
  <2>1. CASE tail = "nothing"
    BY <1>1, <2>1 DEF Written
  <2>2. CASE tail # "nothing"
    <3>1. open' = (tail \in {"part", "unterminated"})
      BY <2>2 DEF Written
    <3>2. QED
      BY <3>1
  <2>3. QED
    BY <2>1, <2>2
<1> HIDE DEF line
<1>4. CASE tail = "nothing"
  BY <1>1, <1>3, <1>4 DEF Written, LogType
<1>5. CASE tail # "nothing" /\ ~open
  BY <1>1, <1>2, <1>3, <1>5, AppendProperties DEF Written, LogType, line
<1>6. CASE tail # "nothing" /\ open
  <2>1. log' = [log EXCEPT ![Len(log)].valid = FALSE]
    BY <1>6 DEF Written
  <2>2. CASE Len(log) = 0
    <3>1. log = << >>
      BY <1>1, <2>2
    <3>2. log' = << >>
      BY <2>1, <3>1
    <3>3. QED
      BY <1>1, <1>3, <3>2 DEF LogType
  <2>3. CASE Len(log) # 0
    <3> DEFINE torn == [log[Len(log)] EXCEPT !.valid = FALSE]
    <3>1. Len(log) \in 1 .. Len(log) /\ log[Len(log)] \in L
      <4> HIDE DEF L
      <4>1. QED
        BY <1>1, <2>3
    <3>2. torn \in L
      BY <3>1
    <3>3. log' = [log EXCEPT ![Len(log)] = torn]
      BY <2>1
    <3> HIDE DEF torn
    <3>4. log' \in Seq(L)
      BY <1>1, <3>1, <3>2, <3>3, ExceptSeq
    <3>5. QED
      BY <1>3, <3>4 DEF LogType
  <2>4. QED
    BY <2>2, <2>3
<1>7. QED
  BY <1>1, <1>4, <1>5, <1>6

\* What is recorded of revisions up to m is recorded of revisions up to n.
LEMMA TypesGrow ==
  ASSUME NEW m \in Nat, NEW n \in Nat, m <= n
  PROVE  /\ LogType(m) \subseteq LogType(n)
         /\ [records : [Aggregate -> 0 .. m], audit : Seq(0 .. m)]
              \subseteq [records : [Aggregate -> 0 .. n], audit : Seq(0 .. n)]
         /\ [Aggregate -> 0 .. m] \subseteq [Aggregate -> 0 .. n]
<1>1. 0 .. m \subseteq 0 .. n
  OBVIOUS
<1>2. [aggregate : Aggregate, revision : 0 .. m, valid : BOOLEAN]
        \subseteq [aggregate : Aggregate, revision : 0 .. n, valid : BOOLEAN]
  BY <1>1
<1>3. LogType(m) \subseteq LogType(n)
  BY <1>2, SeqMonotonic DEF LogType
<1>4. Seq(0 .. m) \subseteq Seq(0 .. n)
  BY <1>1, SeqMonotonic
<1>5. [Aggregate -> 0 .. m] \subseteq [Aggregate -> 0 .. n]
  BY <1>1
<1>6. QED
  BY <1>3, <1>4, <1>5

LEMMA InitType == Init => TypeOK
<1> SUFFICES ASSUME Init PROVE TypeOK
  OBVIOUS
<1>1. pending \in Event /\ acked \in [Aggregate -> 0 .. revision]
  BY StoreAssumption DEF Init, Event
<1>2. EmptyState \in State
  BY DEF Init, State, EmptyState
<1>3. log \in LogType(revision)
  BY DEF Init, LogType
<1>4. open \in BOOLEAN /\ snapshot \in State /\ memory \in State
  BY <1>2 DEF Init
<1>5. revision \in 0 .. MaxRevision /\ stage \in {"idle", "append", "snapshot", "down"}
  BY StoreAssumption DEF Init
<1>6. stored \subseteq 0 .. revision
  BY DEF Init
<1>7. QED
  BY <1>1, <1>3, <1>4, <1>5, <1>6 DEF TypeOK, LogType

LEMMA StepType == TypeOK /\ [Next]_vars => TypeOK'
<1> SUFFICES ASSUME TypeOK, [Next]_vars PROVE TypeOK'
  OBVIOUS
<1>0. /\ revision \in Nat /\ revision <= MaxRevision /\ log \in LogType(revision)
      /\ CrashTails \subseteq Remnant /\ ErrorTails \subseteq Remnant /\ "all" \in Remnant
      /\ memory \in State /\ snapshot \in State /\ open \in BOOLEAN
      /\ pending \in Event /\ acked \in [Aggregate -> 0 .. revision]
      /\ stored \subseteq 0 .. revision
  BY StoreAssumption DEF TypeOK, LogType, Remnant
<1>1. ASSUME NEW a \in Aggregate, Change(a) PROVE TypeOK'
  <2>1. revision' = revision + 1 /\ revision' \in 0 .. MaxRevision
    BY <1>0, <1>1, StoreAssumption DEF Change
  <2>2. pending' \in Event'
    BY <1>0, <1>1, <2>1 DEF Change, Event
  <2>3. /\ State \subseteq State' /\ LogType(revision) \subseteq LogType(revision')
        /\ [Aggregate -> 0 .. revision] \subseteq [Aggregate -> 0 .. revision']
        /\ 0 .. revision \subseteq 0 .. revision'
    BY <1>0, <2>1, TypesGrow DEF State
  <2>4. memory' \in State'
    <3>1. memory \in State'
      BY <1>0, <2>3
    <3>2. [memory EXCEPT !.records[a] = revision'] \in State'
      <4>1. /\ revision' \in 0 .. revision'
            /\ memory.records \in [Aggregate -> 0 .. revision']
            /\ memory.audit \in Seq(0 .. revision')
        BY <1>0, <2>1, <3>1 DEF State
      <4>2. [memory.records EXCEPT ![a] = revision'] \in [Aggregate -> 0 .. revision']
        BY <4>1
      <4>3. memory = [records |-> memory.records, audit |-> memory.audit]
        BY <3>1 DEF State
      <4>4. [memory EXCEPT !.records[a] = revision'] =
              [records |-> [memory.records EXCEPT ![a] = revision'], audit |-> memory.audit]
        BY <4>3
      <4>5. QED
        BY <4>1, <4>2, <4>4 DEF State
    <3>3. QED
      BY <1>1, <3>1, <3>2 DEF Change
  <2>5. QED
    BY <1>0, <1>1, <2>1, <2>2, <2>3, <2>4 DEF Change, TypeOK, LogType
<1>2. CASE AppendEvent
  <2>1. memory' \in State
    <3>1. /\ memory.records \in [Aggregate -> 0 .. revision]
          /\ memory.audit \in Seq(0 .. revision)
          /\ pending.aggregate \in Aggregate /\ pending.revision \in 0 .. revision
      BY <1>0 DEF State, Event
    <3>2. [memory.records EXCEPT ![pending.aggregate] = pending.revision]
            \in [Aggregate -> 0 .. revision]
      BY <3>1
    <3>3. Append(memory.audit, pending.revision) \in Seq(0 .. revision)
      BY <3>1, AppendProperties
    <3>4. QED
      BY <1>2, <3>2, <3>3 DEF AppendEvent, Applied, State
  <2>2. log' \in LogType(revision) /\ open' \in BOOLEAN
    BY <1>0, <1>2, WriteType DEF AppendEvent
  <2>3. QED
    BY <1>2, <2>1, <2>2 DEF AppendEvent, TypeOK, LogType, State, Event
<1>3. CASE AppendFails
  <2>1. log' \in LogType(revision) /\ open' \in BOOLEAN
    BY <1>0, <1>3, WriteType DEF AppendFails
  <2>2. QED
    BY <1>3, <2>1 DEF AppendFails, TypeOK, LogType, State, Event
<1>4. CASE WriteSnapshot
  <2>1. acked' \in [Aggregate -> 0 .. revision] /\ stored' \subseteq 0 .. revision
    BY <1>0, <1>4 DEF WriteSnapshot, Event
  <2>2. QED
    BY <1>4, <2>1 DEF WriteSnapshot, TypeOK, State, Event
<1>5. CASE SnapshotFails
  BY <1>5 DEF SnapshotFails, TypeOK, State, Event
<1>6. ASSUME Truncated PROVE log' \in LogType(revision) /\ open' \in BOOLEAN
  BY <1>0, <1>6, PrefixType DEF Truncated, LogType
<1>7. CASE LoadLive
  BY <1>6, <1>7 DEF LoadLive, TypeOK, LogType, State, Event
<1>8. CASE Crash
  <2>1. log' \in LogType(revision) /\ open' \in BOOLEAN
    BY <1>0, <1>8, WriteType DEF Crash
  <2>2. snapshot' \in State /\ memory' \in State
    BY <1>0, <1>8 DEF Crash, State, EmptyState
  <2>3. QED
    BY <1>8, <2>1, <2>2 DEF Crash, TypeOK, LogType, State, Event
<1>9. CASE Recover
  <2>1. OnDisk \in State
    BY <1>0, PrefixType, RebuiltType DEF OnDisk, State, LogType
  <2>2. QED
    BY <1>6, <1>9, <2>1 DEF Recover, TypeOK, LogType, State, Event
<1>10. CASE UNCHANGED vars
  BY <1>10 DEF vars, TypeOK, State, Event
<1>11. QED
  BY <1>1, <1>2, <1>3, <1>4, <1>5, <1>7, <1>8, <1>9, <1>10 DEF Next

(* The log, the snapshot and the maps hold records of revisions given out,   *)
(* whatever crashes and failed writes leave behind.                          *)
THEOREM StoreTypeCorrect == Spec => []TypeOK
<1>1. QED
  BY InitType, StepType, PTL DEF Spec

-----------------------------------------------------------------------------
(* The inductive invariant *)

Good == ValidPrefix(log)

\* The revision of a that a replay of lines alone comes to.
Stored(lines, a) == Latest(lines, a, 0)

\* Only a crash leaves a line that does not decode, and it is the last.
LogShape ==
  /\ stage # "down" => ~open
  /\ ~open => Whole(log)
  /\ open => \E lines \in Seq(LogLine), line \in LogLine :
               Whole(lines) /\ ~line.valid /\ log = Append(lines, line)

\* Whatever is in the maps is in the log.
LoggedIn(state, lines) ==
  \A a \in Aggregate : state.records[a] # 0 => Present(lines, a)

Working ==
  /\ stage = "append" =>
       /\ pending.revision = revision /\ revision # 0
       /\ \A i \in DOMAIN log : log[i].revision < revision
  /\ stage = "snapshot" =>
       /\ Stored(Good, pending.aggregate) = pending.revision
       /\ memory.records[pending.aggregate] = pending.revision

AckedStored ==
  \A a \in Aggregate :
    /\ acked[a] <= Stored(Good, a)
    /\ stage # "down" => acked[a] <= memory.records[a]

IInv ==
  /\ TypeOK /\ LogShape
  /\ LoggedIn(snapshot, Good) /\ LoggedIn(memory, Good)
  /\ Working /\ AckedStored

-----------------------------------------------------------------------------
(* What the operations do to the log *)

(* A restart comes up with the log's revisions, whatever snapshot it reads.  *)
LEMMA StoredRecords ==
  ASSUME NEW lines, NEW snap, LoggedIn(snap, lines)
  PROVE  Rebuilt(snap, lines).records = [a \in Aggregate |-> Stored(lines, a)]
<1>1. ASSUME NEW a \in Aggregate
      PROVE  Latest(lines, a, snap.records[a]) = Latest(lines, a, 0)
  <2>1. Present(lines, a) \/ snap.records[a] = 0
    BY DEF LoggedIn
  <2>2. CASE Present(lines, a)
    BY <2>2 DEF Latest, Present
  <2>3. QED
    BY <2>1, <2>2
<1>2. Rebuilt(snap, lines).records = [a \in Aggregate |-> Latest(lines, a, snap.records[a])]
  BY DEF Rebuilt
<1>3. QED
  BY <1>1, <1>2 DEF Stored

LEMMA GoodLines ==
  ASSUME TypeOK, LogShape
  PROVE  /\ Good \in Seq(LogLine) /\ Whole(Good)
         /\ ~open => Good = log
         /\ \A i \in DOMAIN Good : i \in DOMAIN log /\ Good[i] = log[i]
<1>1. log \in Seq(LogLine)
  <2>1. [aggregate : Aggregate, revision : 0 .. revision, valid : BOOLEAN] \subseteq LogLine
    BY DEF LogLine
  <2>2. log \in Seq([aggregate : Aggregate, revision : 0 .. revision, valid : BOOLEAN])
    BY DEF TypeOK
  <2>3. QED
    BY <2>1, <2>2, SeqMonotonic
<1>2. CASE ~open
  BY <1>1, <1>2, WholePrefix DEF LogShape, Good
<1>3. CASE open
  <2>1. PICK lines \in Seq(LogLine), line \in LogLine :
          Whole(lines) /\ ~line.valid /\ log = Append(lines, line)
    BY <1>3 DEF LogShape
  <2>2. Good = lines
    BY <2>1, TornPrefix DEF Good
  <2>3. QED
    BY <1>3, <2>1, <2>2
<1>4. QED
  BY <1>2, <1>3

(* A clean write adds the record to what a replay reads, or changes nothing. *)
LEMMA WriteFacts ==
  ASSUME TypeOK, TypeOK', LogShape, ~open,
         NEW tail \in {"nothing", "part", "all"}, Written(pending, tail)
  PROVE  /\ open' <=> tail = "part"
         /\ ~open' => Whole(log')
         /\ open' => \E lines \in Seq(LogLine), line \in LogLine :
                        Whole(lines) /\ ~line.valid /\ log' = Append(lines, line)
         /\ \/ Good' = Good
            \/ tail = "all" /\ Good' = Append(Good, Line(pending, TRUE))
         /\ tail = "all" => Good' = Append(Good, Line(pending, TRUE))
<1> DEFINE line == Line(pending, tail # "part")
<1>1. log \in Seq(LogLine) /\ Whole(log) /\ Good = log
  BY GoodLines DEF LogShape
<1>2. line \in LogLine /\ line.valid = (tail # "part")
  BY DEF Line, LogLine, TypeOK, Event
<1>3. log' = IF tail = "nothing" THEN log ELSE Append(log, line)
  BY DEF Written
<1>4. open' <=> tail = "part"
  BY DEF Written
<1> HIDE DEF line
<1>5. CASE tail = "nothing"
  BY <1>1, <1>3, <1>4, <1>5 DEF Good
<1>6. CASE tail = "part"
  <2>1. ~line.valid /\ log' = Append(log, line)
    BY <1>2, <1>3, <1>6
  <2>2. ValidPrefix(log') = log
    BY <1>1, <1>2, <2>1, TornPrefix
  <2>3. QED
    BY <1>1, <1>2, <1>4, <1>6, <2>1, <2>2 DEF Good
<1>7. CASE tail = "all"
  <2>1. line.valid /\ log' = Append(log, line)
    BY <1>2, <1>3, <1>7
  <2>2. Whole(log')
    BY <1>1, <1>2, <2>1 DEF Whole
  <2>3. ValidPrefix(log') = log'
    BY <2>2, WholePrefix
  <2>4. line = Line(pending, TRUE)
    BY <1>7 DEF line
  <2>5. QED
    BY <1>1, <1>4, <1>7, <2>1, <2>2, <2>3, <2>4 DEF Good
<1>8. QED
  BY <1>5, <1>6, <1>7

(* A load finds the valid lines and leaves exactly them. *)
LEMMA TruncateFacts ==
  ASSUME TypeOK, LogShape, Truncated
  PROVE  log' = Good /\ Good' = Good /\ ~open' /\ Whole(log')
<1>1. log' = Good /\ Whole(Good)
  BY GoodLines DEF Truncated, Good
<1>2. Good' = Good
  BY <1>1, WholePrefix DEF Good
<1>3. ~open'
  <2>1. CASE ~open
    BY <2>1 DEF Truncated
  <2>2. CASE open
    <3>1. PICK lines \in Seq(LogLine), line \in LogLine :
            Whole(lines) /\ ~line.valid /\ log = Append(lines, line)
      BY <2>2 DEF LogShape
    <3>2. Good = lines /\ Len(log) = Len(lines) + 1 /\ Len(lines) \in Nat
      BY <3>1, TornPrefix DEF Good
    <3>3. log' # log
      BY <1>1, <3>2
    <3>4. QED
      BY <3>3 DEF Truncated
  <2>3. QED
    BY <2>1, <2>2
<1>4. QED
  BY <1>1, <1>2, <1>3

(* A record that reaches the log is newer than all the log knows of its      *)
(* aggregate, and changes nothing else.                                      *)
LEMMA GrowFacts ==
  ASSUME IInv, stage = "append", Good' = Append(Good, Line(pending, TRUE))
  PROVE  /\ pending.aggregate \in Aggregate
         /\ Stored(Good, pending.aggregate) < pending.revision
         /\ \A a \in Aggregate :
              /\ Stored(Good', a) = IF a = pending.aggregate THEN pending.revision ELSE Stored(Good, a)
              /\ Present(Good, a) => Present(Good', a)
         /\ Present(Good', pending.aggregate)
<1> DEFINE line == Line(pending, TRUE)
<1>1. /\ pending.aggregate \in Aggregate /\ pending.revision \in Nat
      /\ revision \in Nat /\ pending.revision = revision /\ revision # 0
      /\ TypeOK /\ LogShape
  BY DEF IInv, TypeOK, Event, Working
<1>2. /\ line \in LogLine /\ line.aggregate = pending.aggregate
      /\ line.revision = pending.revision
  BY <1>1 DEF Line, LogLine
<1>3. Good \in Seq(LogLine)
  BY <1>1, GoodLines
<1>4. \A i \in DOMAIN Good : Good[i].revision \in Nat /\ Good[i].revision < revision
  <2>1. \A x \in LogLine : x.revision \in Nat
    BY DEF LogLine
  <2>2. \A i \in DOMAIN Good : Good[i] \in LogLine
    BY <1>3
  <2>3. \A i \in DOMAIN Good : i \in DOMAIN log /\ Good[i] = log[i]
    BY <1>1, GoodLines
  <2>4. QED
    BY <2>1, <2>2, <2>3 DEF IInv, Working
<1>5. Stored(Good, pending.aggregate) < revision
  <2>1. Stored(Good, pending.aggregate) \in {n \in Nat : n < revision}
    BY <1>1, <1>4 DEF Stored, Latest
  <2>2. QED
    BY <2>1
<1> HIDE DEF line
<1>6. ASSUME NEW a \in Aggregate
      PROVE  /\ Latest(Append(Good, line), a, 0) =
                  IF a = pending.aggregate THEN pending.revision ELSE Latest(Good, a, 0)
             /\ Present(Good, a) => Present(Append(Good, line), a)
             /\ a = pending.aggregate => Present(Append(Good, line), a)
  BY <1>2, <1>3, OneMoreLine
<1>7. Good' = Append(Good, line)
  BY DEF line
<1>8. QED
  BY <1>1, <1>5, <1>6, <1>7 DEF Stored

LEMMA StoredNat ==
  ASSUME TypeOK, LogShape
  PROVE  \A a \in Aggregate : Stored(Good, a) \in Nat
<1>1. Good \in Seq(LogLine)
  BY GoodLines
<1>2. \A i \in DOMAIN Good : Good[i].revision \in Nat
  <2>1. \A x \in LogLine : x.revision \in Nat
    BY DEF LogLine
  <2>2. QED
    BY <1>1, <2>1
<1>3. QED
  BY <1>2 DEF Latest, Stored

-----------------------------------------------------------------------------
(* The invariant is inductive *)

LEMMA InitInv == Init => IInv
<1> SUFFICES ASSUME Init PROVE IInv
  OBVIOUS
<1>1. TypeOK
  BY InitType
<1>2. log = << >> /\ open = FALSE /\ stage = "idle" /\ Whole(log) /\ Good = << >>
  BY WholePrefix DEF Init, Whole, Good
<1>3. LoggedIn(snapshot, Good) /\ LoggedIn(memory, Good)
  BY DEF Init, LoggedIn, EmptyState
<1>4. \A a \in Aggregate : Stored(Good, a) = 0
  BY <1>2 DEF Stored, Latest
<1>5. AckedStored
  <2>1. \A a \in Aggregate : acked[a] = 0 /\ memory.records[a] = 0
    BY DEF Init, EmptyState
  <2>2. ASSUME NEW a \in Aggregate
        PROVE  acked[a] <= Stored(Good, a) /\ acked[a] <= memory.records[a]
    <3>1. acked[a] = 0 /\ memory.records[a] = 0 /\ Stored(Good, a) = 0
      BY <1>4, <2>1
    <3>2. QED
      BY <3>1
  <2>3. QED
    BY <2>2 DEF AckedStored
<1>6. QED
  BY <1>1, <1>2, <1>3, <1>5 DEF IInv, LogShape, Working

LEMMA StepInv ==
  ASSUME CleanTails, IInv, [Next]_vars
  PROVE  IInv'
<1>0. TypeOK'
  BY StepType DEF IInv
<1>1. TypeOK /\ LogShape
  BY DEF IInv
<1>2. /\ revision \in Nat
      /\ memory.records \in [Aggregate -> 0 .. revision]
      /\ acked \in [Aggregate -> 0 .. revision]
      /\ pending.aggregate \in Aggregate /\ pending.revision \in 0 .. revision
  BY <1>1 DEF TypeOK, State, Event
<1>3. \A a \in Aggregate : Stored(Good, a) \in Nat
  BY <1>1, StoredNat
<1>4. ASSUME NEW a \in Aggregate, Change(a) PROVE IInv'
  <2>1. /\ stage = "idle" /\ stage' = "append" /\ UNCHANGED <<log, open, snapshot, acked>>
        /\ revision' = revision + 1 /\ pending'.revision = revision'
    BY <1>4 DEF Change
  <2>2. Good' = Good /\ LogShape' /\ \A b \in Aggregate : Stored(Good', b) = Stored(Good, b)
    BY <1>1, <2>1 DEF Good, LogShape, Stored
  <2>3. \A b \in Aggregate :
          /\ memory'.records[b] >= memory.records[b]
          /\ memory'.records[b] # 0 => memory.records[b] # 0
    <3>1. CASE memory' = memory
      BY <1>2, <3>1
    <3>2. CASE memory.records[a] # 0 /\ memory' = [memory EXCEPT !.records[a] = revision']
      <4>1. memory'.records = [memory.records EXCEPT ![a] = revision']
        BY <1>1, <3>2 DEF TypeOK, State
      <4>2. QED
        BY <1>2, <2>1, <3>2, <4>1
    <3>3. QED
      BY <1>4, <3>1, <3>2 DEF Change
  <2>4. LoggedIn(snapshot', Good') /\ LoggedIn(memory', Good')
    BY <2>1, <2>2, <2>3 DEF IInv, LoggedIn
  <2>5. \A i \in DOMAIN log' : log'[i].revision < revision'
    <3>1. \A i \in DOMAIN log : log[i].revision \in 0 .. revision
      <4> DEFINE L == [aggregate : Aggregate, revision : 0 .. revision, valid : BOOLEAN]
      <4>1. \A x \in L : x.revision \in 0 .. revision
        OBVIOUS
      <4>2. log \in Seq(L)
        BY <1>1 DEF TypeOK
      <4> HIDE DEF L
      <4>3. QED
        BY <4>1, <4>2
    <3>2. QED
      BY <1>2, <2>1, <3>1
  <2>6. Working'
    BY <1>2, <2>1, <2>5 DEF Working
  <2>7. AckedStored'
    <3>1. \A b \in Aggregate : memory'.records[b] \in Nat /\ acked[b] \in Nat
      BY <1>0, <1>2 DEF TypeOK, State
    <3>2. \A b \in Aggregate : acked[b] <= Stored(Good, b) /\ acked[b] <= memory.records[b]
      BY <2>1 DEF IInv, AckedStored
    <3>3. \A b \in Aggregate :
            /\ acked'[b] = acked[b] /\ Stored(Good', b) = Stored(Good, b)
            /\ memory'.records[b] >= memory.records[b] /\ memory.records[b] \in Nat
      BY <1>2, <2>1, <2>2, <2>3
    <3>4. QED
      BY <3>1, <3>2, <3>3 DEF AckedStored
  <2>8. QED
    BY <1>0, <2>2, <2>4, <2>6, <2>7 DEF IInv
<1>5. ASSUME stage = "append", NEW tail \in {"nothing", "part", "all"}, Written(pending, tail)
      PROVE  /\ open' <=> tail = "part"
             /\ stage' = "down" \/ ~open' => LogShape'
             /\ \A a \in Aggregate : Stored(Good', a) \in Nat /\ Stored(Good, a) <= Stored(Good', a)
             /\ \A a \in Aggregate : Present(Good, a) => Present(Good', a)
             /\ tail = "all" => /\ Stored(Good', pending.aggregate) = pending.revision
                                /\ Present(Good', pending.aggregate)
  <2>1. ~open
    BY <1>1, <1>5 DEF LogShape
  <2>2. /\ open' <=> tail = "part"
        /\ ~open' => Whole(log')
        /\ open' => \E lines \in Seq(LogLine), line \in LogLine :
                       Whole(lines) /\ ~line.valid /\ log' = Append(lines, line)
        /\ Good' = Good \/ Good' = Append(Good, Line(pending, TRUE))
        /\ tail = "all" => Good' = Append(Good, Line(pending, TRUE))
    BY <1>0, <1>1, <1>5, <2>1, WriteFacts
  <2>3. stage' = "down" \/ ~open' => LogShape'
    BY <2>2 DEF LogShape
  <2>4. CASE Good' = Append(Good, Line(pending, TRUE))
    <3>1. /\ Stored(Good, pending.aggregate) < pending.revision
          /\ \A a \in Aggregate :
               /\ Stored(Good', a) = IF a = pending.aggregate THEN pending.revision ELSE Stored(Good, a)
               /\ Present(Good, a) => Present(Good', a)
          /\ Present(Good', pending.aggregate)
      BY <1>5, <2>4, GrowFacts
    <3>2. QED
      BY <1>2, <1>3, <2>2, <2>3, <3>1
  <2>5. CASE Good' = Good /\ tail # "all"
    BY <1>3, <2>2, <2>3, <2>5 DEF Stored
  <2>6. QED
    BY <2>2, <2>4, <2>5
<1>6. CASE AppendEvent
  <2>1. /\ stage = "append" /\ stage' = "snapshot" /\ Written(pending, "all")
        /\ UNCHANGED <<snapshot, pending, revision, acked>>
    BY <1>6 DEF AppendEvent
  <2>2. /\ LogShape'
        /\ \A a \in Aggregate : Stored(Good', a) \in Nat /\ Stored(Good, a) <= Stored(Good', a)
        /\ \A a \in Aggregate : Present(Good, a) => Present(Good', a)
        /\ Stored(Good', pending.aggregate) = pending.revision
        /\ Present(Good', pending.aggregate)
    BY <1>5, <2>1
  <2>3. \A a \in Aggregate : memory'.records[a] =
          IF a = pending.aggregate THEN pending.revision ELSE memory.records[a]
    BY <1>2, <1>6 DEF AppendEvent, Applied
  <2>4. LoggedIn(snapshot', Good') /\ LoggedIn(memory', Good')
    BY <2>1, <2>2, <2>3 DEF IInv, LoggedIn
  <2>5. Working'
    BY <1>2, <2>1, <2>2, <2>3 DEF Working, Stored
  <2>6. AckedStored'
    <3>1. pending.revision = revision
      BY <2>1 DEF IInv, Working
    <3>2. \A a \in Aggregate : acked[a] <= Stored(Good, a) /\ acked[a] <= memory.records[a]
      BY <2>1 DEF IInv, AckedStored
    <3>3. QED
      BY <1>2, <1>3, <2>1, <2>2, <2>3, <3>1, <3>2 DEF AckedStored
  <2>7. QED
    BY <1>0, <2>2, <2>4, <2>5, <2>6 DEF IInv
<1>7. CASE AppendFails
  <2>1. PICK tail \in {"nothing", "all"} : Written(pending, tail)
    BY <1>7 DEF AppendFails, CleanTails
  <2>2. /\ stage = "append" /\ stage' = "idle"
        /\ UNCHANGED <<snapshot, memory, pending, revision, acked>>
    BY <1>7 DEF AppendFails
  <2>3. /\ LogShape'
        /\ \A a \in Aggregate : Stored(Good', a) \in Nat /\ Stored(Good, a) <= Stored(Good', a)
        /\ \A a \in Aggregate : Present(Good, a) => Present(Good', a)
    <3>1. tail \in {"nothing", "part", "all"} /\ tail # "part"
      OBVIOUS
    <3>2. QED
      BY <1>5, <2>1, <2>2, <3>1
  <2>4. LoggedIn(snapshot', Good') /\ LoggedIn(memory', Good')
    BY <2>2, <2>3 DEF IInv, LoggedIn
  <2>5. Working'
    BY <2>2 DEF Working
  <2>6. AckedStored'
    BY <1>2, <1>3, <2>2, <2>3 DEF IInv, AckedStored
  <2>7. QED
    BY <1>0, <2>3, <2>4, <2>5, <2>6 DEF IInv
<1>8. CASE WriteSnapshot
  <2>1. /\ stage = "snapshot" /\ stage' = "idle" /\ snapshot' = memory
        /\ acked' = [acked EXCEPT ![pending.aggregate] = pending.revision]
        /\ UNCHANGED <<log, open, memory, pending, revision>>
    BY <1>8 DEF WriteSnapshot
  <2>2. Good' = Good /\ LogShape' /\ Working'
    BY <1>1, <2>1 DEF Good, LogShape, Working
  <2>3. LoggedIn(snapshot', Good') /\ LoggedIn(memory', Good')
    BY <2>1, <2>2 DEF IInv
  <2>4. AckedStored'
    <3>1. /\ Stored(Good, pending.aggregate) = pending.revision
          /\ memory.records[pending.aggregate] = pending.revision
      BY <2>1 DEF IInv, Working
    <3>2. QED
      BY <1>2, <1>3, <2>1, <2>2, <3>1 DEF IInv, AckedStored
  <2>5. QED
    BY <1>0, <2>2, <2>3, <2>4 DEF IInv
<1>9. CASE SnapshotFails
  <2>1. /\ stage = "snapshot" /\ stage' = "idle"
        /\ snapshot' = snapshot \/ snapshot' = memory
        /\ UNCHANGED <<log, open, memory, pending, revision, acked>>
    BY <1>9 DEF SnapshotFails
  <2>2. Good' = Good /\ LogShape' /\ Working'
    BY <1>1, <2>1 DEF Good, LogShape, Working
  <2>3. LoggedIn(snapshot', Good') /\ LoggedIn(memory', Good')
    BY <2>1, <2>2 DEF IInv
  <2>4. QED
    BY <1>0, <2>1, <2>2, <2>3 DEF IInv, AckedStored
<1>10. CASE LoadLive
  <2>1. /\ stage # "down" /\ Truncated
        /\ UNCHANGED <<snapshot, memory, stage, pending, revision, acked>>
    BY <1>10 DEF LoadLive
  <2>2. log' = Good /\ Good' = Good /\ ~open' /\ Whole(log') /\ Good = log
    BY <1>1, <2>1, TruncateFacts, GoodLines DEF LogShape
  <2>3. LogShape' /\ Working'
    BY <2>1, <2>2 DEF IInv, LogShape, Working
  <2>4. QED
    BY <1>0, <2>1, <2>2, <2>3 DEF IInv, AckedStored
<1>11. CASE Crash
  <2>1. /\ stage # "down" /\ stage' = "down" /\ memory' = EmptyState
        /\ snapshot' = snapshot \/ snapshot' = memory
        /\ UNCHANGED <<pending, revision, acked>>
    BY <1>11 DEF Crash
  <2>2. /\ LogShape'
        /\ \A a \in Aggregate : Stored(Good', a) \in Nat /\ Stored(Good, a) <= Stored(Good', a)
        /\ \A a \in Aggregate : Present(Good, a) => Present(Good', a)
    <3>1. CASE stage = "append"
      <4>1. PICK tail \in {"nothing", "part", "all"} : Written(pending, tail)
        BY <1>11, <3>1 DEF Crash, CleanTails
      <4>2. QED
        BY <1>5, <2>1, <3>1, <4>1
    <3>2. CASE stage # "append"
      <4>1. UNCHANGED <<log, open>>
        BY <1>11, <3>2 DEF Crash
      <4>2. Good' = Good /\ LogShape'
        BY <1>1, <2>1, <4>1 DEF Good, LogShape
      <4>3. QED
        BY <1>3, <4>2
    <3>3. QED
      BY <3>1, <3>2
  <2>3. LoggedIn(snapshot', Good') /\ LoggedIn(memory', Good')
    <3>1. \A a \in Aggregate : memory'.records[a] = 0
      BY <2>1 DEF EmptyState
    <3>2. QED
      BY <2>1, <2>2, <3>1 DEF IInv, LoggedIn
  <2>4. Working'
    BY <2>1 DEF Working
  <2>5. AckedStored'
    BY <1>2, <1>3, <2>1, <2>2 DEF IInv, AckedStored
  <2>6. QED
    BY <1>0, <2>2, <2>3, <2>4, <2>5 DEF IInv
<1>12. CASE Recover
  <2>1. /\ stage' = "idle" /\ Truncated /\ memory' = OnDisk
        /\ UNCHANGED <<snapshot, pending, revision, acked>>
    BY <1>12 DEF Recover
  <2>2. log' = Good /\ Good' = Good /\ ~open' /\ Whole(log')
    BY <1>1, <2>1, TruncateFacts
  <2>3. LogShape' /\ Working'
    BY <2>1, <2>2 DEF LogShape, Working
  <2>4. memory'.records = [a \in Aggregate |-> Stored(Good, a)]
    BY <2>1, StoredRecords DEF IInv, OnDisk, Good
  <2>5. \A a \in Aggregate : Stored(Good, a) # 0 => Present(Good, a)
    BY DEF Stored, Latest, Present
  <2>6. LoggedIn(snapshot', Good') /\ LoggedIn(memory', Good')
    BY <2>1, <2>2, <2>4, <2>5 DEF IInv, LoggedIn
  <2>7. AckedStored'
    BY <2>1, <2>2, <2>4 DEF IInv, AckedStored
  <2>8. QED
    BY <1>0, <2>3, <2>6, <2>7 DEF IInv
<1>13. CASE UNCHANGED vars
  <2>1. UNCHANGED <<log, open, snapshot, memory, stage, pending, revision, acked>>
    BY <1>13 DEF vars
  <2>2. Good' = Good /\ LogShape' /\ Working'
    BY <1>1, <2>1 DEF IInv, Good, LogShape, Working
  <2>3. QED
    BY <1>0, <2>1, <2>2 DEF IInv, AckedStored
<1>14. QED
  BY <1>4, <1>6, <1>7, <1>8, <1>9, <1>10, <1>11, <1>12, <1>13 DEF Next

-----------------------------------------------------------------------------
(* The theorems *)

LEMMA InvHolds ==
  ASSUME CleanTails
  PROVE  Spec => []IInv
<1>1. Init => IInv
  BY InitInv
<1>2. IInv /\ [Next]_vars => IInv'
  BY StepInv
<1>3. QED
  BY <1>1, <1>2, PTL DEF Spec

(* What emit reported as stored survives a restart at any moment, and the     *)
(* running service never shows less.                                          *)
THEOREM StoredSurvives ==
  ASSUME CleanTails
  PROVE  Spec => []AckedSurvives
<1>1. IInv => AckedSurvives
  <2> SUFFICES ASSUME IInv PROVE AckedSurvives
    OBVIOUS
  <2>1. OnDisk.records = [a \in Aggregate |-> Stored(Good, a)]
    BY StoredRecords DEF IInv, OnDisk, Good
  <2>2. QED
    BY <2>1 DEF IInv, AckedStored, AckedSurvives
<1>2. QED
  BY <1>1, InvHolds, PTL

(* A step records one newer revision, acknowledges the recorded one, or is    *)
(* not seen.                                                                  *)
LEMMA AbstractStep ==
  ASSUME CleanTails, IInv, IInv', [Next]_vars
  PROVE  [Abstract!Next]_<<OnDisk.records, acked>>
<1>1. /\ OnDisk.records = [a \in Aggregate |-> Stored(Good, a)]
      /\ (OnDisk.records)' = [a \in Aggregate |-> Stored(Good', a)]
  BY StoredRecords DEF IInv, OnDisk, Good
<1>2. CASE Good' = Good /\ acked' = acked
  BY <1>1, <1>2
<1>3. CASE stage = "append" /\ Good' = Append(Good, Line(pending, TRUE)) /\ acked' = acked
  <2>1. /\ pending.aggregate \in Aggregate
        /\ Stored(Good, pending.aggregate) < pending.revision
        /\ \A a \in Aggregate :
             Stored(Good', a) = IF a = pending.aggregate THEN pending.revision
                                ELSE Stored(Good, a)
    BY <1>3, GrowFacts
  <2>2. pending.revision > Stored(Good, pending.aggregate)
    <3>1. Stored(Good, pending.aggregate) \in Nat /\ pending.revision \in Nat
      BY <2>1, StoredNat DEF IInv, TypeOK, Event
    <3>2. QED
      BY <2>1, <3>1
  <2>3. Abstract!Record(pending.aggregate)
    <3>1. (OnDisk.records)'[pending.aggregate] = pending.revision
      BY <1>1, <2>1
    <3>2. (OnDisk.records)'[pending.aggregate] > OnDisk.records[pending.aggregate]
      BY <1>1, <2>1, <2>2, <3>1
    <3>3. (OnDisk.records)' = [OnDisk.records EXCEPT ![pending.aggregate] = pending.revision]
      BY <1>1, <2>1
    <3>4. QED
      BY <1>3, <3>1, <3>2, <3>3 DEF Abstract!Record
  <2>4. QED
    BY <2>1, <2>3 DEF Abstract!Next
<1>4. ASSUME NEW tail \in {"nothing", "part", "all"}, Written(pending, tail),
             stage = "append", acked' = acked
      PROVE  [Abstract!Next]_<<OnDisk.records, acked>>
  <2>1. Good' = Good \/ Good' = Append(Good, Line(pending, TRUE))
    BY <1>4, WriteFacts DEF IInv, LogShape
  <2>2. QED
    BY <1>2, <1>3, <1>4, <2>1
<1>5. CASE AppendEvent
  BY <1>4, <1>5 DEF AppendEvent
<1>6. CASE AppendFails
  <2>1. PICK tail \in {"nothing", "part", "all"} : Written(pending, tail)
    BY <1>6 DEF AppendFails, CleanTails
  <2>2. QED
    BY <1>4, <1>6, <2>1 DEF AppendFails
<1>7. CASE WriteSnapshot
  <2>1. Good' = Good /\ pending.aggregate \in Aggregate
    BY <1>7 DEF WriteSnapshot, Good, IInv, TypeOK, Event
  <2>2. Stored(Good, pending.aggregate) = pending.revision
    BY <1>7 DEF WriteSnapshot, IInv, Working
  <2>3. Abstract!Acknowledge(pending.aggregate)
    BY <1>1, <1>7, <2>1, <2>2 DEF WriteSnapshot, Abstract!Acknowledge
  <2>4. QED
    BY <2>1, <2>3 DEF Abstract!Next
<1>8. CASE Crash
  <2>1. CASE stage = "append"
    <3>1. PICK tail \in {"nothing", "part", "all"} : Written(pending, tail)
      BY <1>8, <2>1 DEF Crash, CleanTails
    <3>2. QED
      BY <1>4, <1>8, <2>1, <3>1 DEF Crash
  <2>2. CASE stage # "append"
    BY <1>2, <1>8, <2>2 DEF Crash, Good
  <2>3. QED
    BY <2>1, <2>2
<1>9. CASE LoadLive \/ Recover
  BY <1>2, <1>9, TruncateFacts DEF LoadLive, Recover, IInv
<1>10. CASE SnapshotFails \/ (\E a \in Aggregate : Change(a)) \/ UNCHANGED vars
  BY <1>2, <1>10 DEF SnapshotFails, Change, vars, Good
<1>11. QED
  BY <1>5, <1>6, <1>7, <1>8, <1>9, <1>10 DEF Next

(* The log, the snapshot, the truncation and the recovery together are the    *)
(* log the service relies on: the store implements EventLog.                  *)
THEOREM StoreImplementsEventLog ==
  ASSUME CleanTails
  PROVE  Spec => ImplementsEventLog
<1>1. Init => Abstract!Init
  <2> SUFFICES ASSUME Init PROVE Abstract!Init
    OBVIOUS
  <2>1. log = << >> /\ ValidPrefix(log) = log
    BY WholePrefix DEF Init, Whole
  <2>2. \A a \in Aggregate : Latest(log, a, 0) = 0
    BY <2>1 DEF Latest
  <2>3. OnDisk.records = [a \in Aggregate |-> 0]
    BY <2>1, <2>2 DEF Init, OnDisk, Rebuilt, EmptyState
  <2>4. QED
    BY <2>3 DEF Init, Abstract!Init
<1>2. IInv /\ IInv' /\ [Next]_vars => [Abstract!Next]_<<OnDisk.records, acked>>
  BY AbstractStep
<1>3. QED
  BY <1>1, <1>2, InvHolds, PTL DEF Spec, ImplementsEventLog, Abstract!Spec

-----------------------------------------------------------------------------
(* The audit list *)

Rising(lines) ==
  \A i, j \in DOMAIN lines : i < j => lines[i].revision < lines[j].revision

InLog(lines, n) == \E k \in DOMAIN lines : lines[k].revision = n
Listed(list, n) == \E i \in DOMAIN list : list[i] = n

\* Every entry of an audit list is the revision of a line.
Backed(list, lines) == \A i \in DOMAIN list : InLog(lines, list[i])

AuditInv ==
  /\ Rising(Good)
  /\ Backed(memory.audit, Good) /\ Backed(snapshot.audit, Good)
  /\ Increasing(memory.audit)
  /\ \A n \in stored :
       /\ InLog(Good, n)
       /\ stage # "down" => Listed(memory.audit, n)
  /\ stage = "snapshot" =>
       InLog(Good, pending.revision) /\ Listed(memory.audit, pending.revision)

(* A record that reaches the log comes after all that is there. *)
LEMMA GrowAudit ==
  ASSUME IInv, AuditInv, stage = "append", Good' = Append(Good, Line(pending, TRUE))
  PROVE  /\ Rising(Good')
         /\ \A n : InLog(Good, n) => InLog(Good', n)
         /\ InLog(Good', pending.revision)
<1> DEFINE line == Line(pending, TRUE)
<1>1. /\ Good \in Seq(LogLine) /\ line \in LogLine /\ line.revision = pending.revision
      /\ pending.revision = revision
  BY GoodLines DEF IInv, TypeOK, Event, Line, LogLine, Working
<1>2. \A i \in DOMAIN Good : Good[i].revision < revision
  BY GoodLines DEF IInv, Working
<1>3. Good' = Append(Good, line)
  OBVIOUS
<1> HIDE DEF line
<1>4. /\ Len(Good) \in Nat /\ DOMAIN Good = 1 .. Len(Good)
      /\ DOMAIN Good' = 1 .. Len(Good) + 1 /\ Good'[Len(Good) + 1] = line
      /\ \A i \in 1 .. Len(Good) : Good'[i] = Good[i]
  <2> DEFINE longer == Append(Good, line)
  <2>1. /\ Len(Good) \in Nat /\ DOMAIN Good = 1 .. Len(Good)
        /\ DOMAIN longer = 1 .. Len(Good) + 1 /\ longer[Len(Good) + 1] = line
        /\ \A i \in 1 .. Len(Good) : longer[i] = Good[i]
    BY <1>1
  <2> HIDE DEF longer
  <2>2. Good' = longer
    BY <1>3 DEF longer
  <2>3. QED
    BY <2>1, <2>2
<1>5. Rising(Good')
  <2> SUFFICES ASSUME NEW i \in 1 .. Len(Good) + 1, NEW j \in 1 .. Len(Good) + 1, i < j
               PROVE  Good'[i].revision < Good'[j].revision
    BY <1>4 DEF Rising
  <2>1. i \in 1 .. Len(Good)
    BY <1>4
  <2>2. CASE j = Len(Good) + 1
    BY <1>1, <1>2, <1>4, <2>1, <2>2
  <2>3. CASE j # Len(Good) + 1
    <3>1. j \in 1 .. Len(Good)
      BY <1>4, <2>3
    <3>2. QED
      BY <1>4, <2>1, <3>1 DEF AuditInv, Rising
  <2>4. QED
    BY <2>2, <2>3
<1>6. ASSUME NEW n, InLog(Good, n) PROVE InLog(Good', n)
  <2>1. PICK k \in 1 .. Len(Good) : Good[k].revision = n
    BY <1>4, <1>6 DEF InLog
  <2>2. k \in DOMAIN Good' /\ Good'[k].revision = n
    BY <1>4, <2>1
  <2>3. QED
    BY <2>2 DEF InLog
<1>7. InLog(Good', pending.revision)
  <2>1. Len(Good) + 1 \in DOMAIN Good'
    BY <1>4
  <2>2. Good'[Len(Good) + 1].revision = pending.revision
    BY <1>1, <1>4
  <2>3. QED
    BY <2>1, <2>2 DEF InLog
<1>8. QED
  BY <1>5, <1>6, <1>7

LEMMA StepAudit ==
  ASSUME CleanTails, IInv, AuditInv, [Next]_vars
  PROVE  AuditInv'
<1>1. /\ TypeOK /\ LogShape /\ pending.aggregate \in Aggregate
      /\ revision \in Nat /\ memory.audit \in Seq(0 .. revision)
  BY DEF IInv, TypeOK, Event, State
<1>2. ASSUME NEW tail \in {"nothing", "part", "all"}, Written(pending, tail),
             stage = "append"
      PROVE  /\ Rising(Good')
             /\ \A n : InLog(Good, n) => InLog(Good', n)
             /\ tail = "all" => InLog(Good', pending.revision)
  <2>1. /\ Good' = Good \/ Good' = Append(Good, Line(pending, TRUE))
        /\ tail = "all" => Good' = Append(Good, Line(pending, TRUE))
    <3>1. TypeOK' /\ ~open
      BY <1>2, StepType DEF IInv, LogShape
    <3>2. QED
      BY <1>1, <1>2, <3>1, WriteFacts
  <2>2. CASE Good' = Append(Good, Line(pending, TRUE))
    BY <1>2, <2>2, GrowAudit
  <2>3. CASE Good' = Good /\ tail # "all"
    BY <2>3 DEF AuditInv
  <2>4. QED
    BY <2>1, <2>2, <2>3
<1>3. CASE AppendEvent
  <2>1. /\ stage = "append" /\ stage' = "snapshot" /\ Written(pending, "all")
        /\ memory'.audit = Append(memory.audit, pending.revision)
        /\ UNCHANGED <<snapshot, pending, revision, stored>>
    BY <1>3 DEF AppendEvent, Applied
  <2>2. /\ Rising(Good')
        /\ \A n : InLog(Good, n) => InLog(Good', n)
        /\ InLog(Good', pending.revision)
    BY <1>2, <2>1
  <2>3. pending.revision = revision /\ \A i \in DOMAIN memory.audit : memory.audit[i] < revision
    <3>1. pending.revision = revision /\ \A i \in DOMAIN Good : Good[i].revision < revision
      BY <2>1, GoodLines DEF IInv, Working
    <3>2. QED
      BY <3>1 DEF AuditInv, Backed, InLog
  <2>4. /\ Len(memory.audit) \in Nat /\ DOMAIN memory.audit = 1 .. Len(memory.audit)
        /\ DOMAIN memory'.audit = 1 .. Len(memory.audit) + 1
        /\ memory'.audit[Len(memory.audit) + 1] = pending.revision
        /\ \A i \in 1 .. Len(memory.audit) : memory'.audit[i] = memory.audit[i]
    BY <1>1, <2>1, <2>3
  <2>5. Increasing(memory'.audit)
    <3> SUFFICES ASSUME NEW i \in 1 .. Len(memory.audit) + 1,
                        NEW j \in 1 .. Len(memory.audit) + 1, i < j
                 PROVE  memory'.audit[i] < memory'.audit[j]
      BY <2>4 DEF Increasing
    <3>1. i \in 1 .. Len(memory.audit)
      BY <2>4
    <3>2. CASE j = Len(memory.audit) + 1
      BY <2>3, <2>4, <3>1, <3>2
    <3>3. CASE j # Len(memory.audit) + 1
      <4>1. j \in 1 .. Len(memory.audit)
        BY <2>4, <3>3
      <4>2. QED
        BY <2>4, <3>1, <4>1 DEF AuditInv, Increasing
    <3>4. QED
      BY <3>2, <3>3
  <2>6. Backed(memory'.audit, Good') /\ Backed(snapshot'.audit, Good')
    <3>1. ASSUME NEW i \in DOMAIN memory'.audit PROVE InLog(Good', memory'.audit[i])
      <4>1. CASE i = Len(memory.audit) + 1
        BY <2>2, <2>4, <4>1
      <4>2. CASE i \in 1 .. Len(memory.audit)
        BY <2>2, <2>4, <4>2 DEF AuditInv, Backed
      <4>3. QED
        BY <2>4, <4>1, <4>2
    <3>2. QED
      BY <2>1, <2>2, <3>1 DEF AuditInv, Backed
  <2>7. /\ \A n : Listed(memory.audit, n) => Listed(memory'.audit, n)
        /\ Listed(memory'.audit, pending.revision)
    <3>1. ASSUME NEW n, Listed(memory.audit, n) PROVE Listed(memory'.audit, n)
      <4>1. PICK i \in 1 .. Len(memory.audit) : memory.audit[i] = n
        BY <2>4, <3>1 DEF Listed
      <4>2. i \in DOMAIN memory'.audit /\ memory'.audit[i] = n
        BY <2>4, <4>1
      <4>3. QED
        BY <4>2 DEF Listed
    <3>2. Len(memory.audit) + 1 \in DOMAIN memory'.audit
      BY <2>4
    <3>3. QED
      BY <2>4, <3>1, <3>2 DEF Listed
  <2>8. QED
    BY <2>1, <2>2, <2>5, <2>6, <2>7 DEF AuditInv
<1>4. CASE AppendFails
  <2>1. PICK tail \in {"nothing", "part", "all"} : Written(pending, tail)
    BY <1>4 DEF AppendFails, CleanTails
  <2>2. /\ stage = "append" /\ stage' = "idle"
        /\ UNCHANGED <<snapshot, memory, pending, revision, stored>>
    BY <1>4 DEF AppendFails
  <2>3. Rising(Good') /\ \A n : InLog(Good, n) => InLog(Good', n)
    BY <1>2, <2>1, <2>2
  <2>4. QED
    BY <2>2, <2>3 DEF AuditInv, Backed
<1>5. CASE Crash
  <2>1. /\ stage # "down" /\ stage' = "down" /\ memory'.audit = << >>
        /\ snapshot' = snapshot \/ snapshot' = memory
        /\ UNCHANGED <<pending, revision, stored>>
    BY <1>5 DEF Crash, EmptyState
  <2>2. Rising(Good') /\ \A n : InLog(Good, n) => InLog(Good', n)
    <3>1. CASE stage = "append"
      <4>1. PICK tail \in {"nothing", "part", "all"} : Written(pending, tail)
        BY <1>5, <3>1 DEF Crash, CleanTails
      <4>2. QED
        BY <1>2, <3>1, <4>1
    <3>2. CASE stage # "append"
      <4>1. Good' = Good
        BY <1>5, <3>2 DEF Crash, Good
      <4>2. QED
        BY <4>1 DEF AuditInv
    <3>3. QED
      BY <3>1, <3>2
  <2>3. Increasing(memory'.audit) /\ Backed(memory'.audit, Good')
    BY <2>1 DEF Increasing, Backed
  <2>4. QED
    BY <2>1, <2>2, <2>3 DEF AuditInv, Backed
<1>6. CASE WriteSnapshot
  <2>1. /\ stage = "snapshot" /\ stage' = "idle" /\ snapshot' = memory
        /\ stored' = stored \cup {pending.revision}
        /\ UNCHANGED <<log, memory, pending, revision>> /\ Good' = Good
    BY <1>6 DEF WriteSnapshot, Good
  <2>2. InLog(Good, pending.revision) /\ Listed(memory.audit, pending.revision)
    BY <2>1 DEF AuditInv
  <2>3. QED
    BY <1>1, <2>1, <2>2 DEF AuditInv
<1>7. CASE Recover
  <2>1. /\ stage' = "idle" /\ memory' = OnDisk /\ Good' = Good
        /\ UNCHANGED <<snapshot, pending, revision, stored>>
    BY <1>1, <1>7, TruncateFacts DEF Recover
  <2>2. memory'.audit = IF Good = << >> THEN snapshot.audit
                        ELSE [i \in DOMAIN Good |-> Good[i].revision]
    BY <2>1 DEF OnDisk, Rebuilt, Good
  <2>3. CASE Good = << >>
    <3>1. DOMAIN Good = {}
      BY <2>3
    <3>2. DOMAIN memory'.audit = {} /\ \A n : ~InLog(Good, n)
      BY <2>2, <2>3, <3>1 DEF AuditInv, Backed, InLog
    <3>3. QED
      BY <2>1, <3>2 DEF AuditInv, Backed, Increasing
  <2>4. CASE Good # << >>
    <3>1. /\ DOMAIN memory'.audit = DOMAIN Good
          /\ \A i \in DOMAIN Good : memory'.audit[i] = Good[i].revision
      BY <2>2, <2>4
    <3>2. Increasing(memory'.audit)
      BY <3>1 DEF Increasing, AuditInv, Rising
    <3>3. Backed(memory'.audit, Good)
      BY <3>1 DEF Backed, InLog
    <3>4. \A n : InLog(Good, n) => Listed(memory'.audit, n)
      BY <3>1 DEF InLog, Listed
    <3>5. QED
      BY <2>1, <3>2, <3>3, <3>4 DEF AuditInv
  <2>5. QED
    BY <2>3, <2>4
<1>8. CASE \E a \in Aggregate : Change(a)
  <2>1. /\ stage' = "append" /\ stage = "idle" /\ UNCHANGED <<snapshot, stored>>
        /\ Good' = Good /\ memory'.audit = memory.audit
    BY <1>1, <1>8 DEF Change, Good, TypeOK, State
  <2>2. QED
    BY <2>1 DEF AuditInv
<1>9. CASE SnapshotFails \/ LoadLive \/ UNCHANGED vars
  <2>1. /\ UNCHANGED <<memory, pending, stored>> /\ Good' = Good
        /\ snapshot' = snapshot \/ snapshot' = memory
        /\ stage' = stage \/ (stage = "snapshot" /\ stage' = "idle")
    BY <1>1, <1>9, TruncateFacts DEF SnapshotFails, LoadLive, vars, Good
  <2>2. QED
    BY <2>1 DEF AuditInv
<1>10. QED
  BY <1>3, <1>4, <1>5, <1>6, <1>7, <1>8, <1>9 DEF Next

(* The audit list names every change that emit ever reported as stored, not   *)
(* only the latest of each aggregate, once and in the order the changes were  *)
(* made, through restarts too; and it names no change the log does not hold.  *)
THEOREM AuditIsFaithful ==
  ASSUME CleanTails
  PROVE  Spec => []AuditFaithful
<1>1. Init => AuditInv
  <2> SUFFICES ASSUME Init PROVE AuditInv
    OBVIOUS
  <2>1. Good = << >>
    BY WholePrefix DEF Init, Whole, Good
  <2>2. memory.audit = << >> /\ snapshot.audit = << >> /\ stage = "idle"
    BY DEF Init, EmptyState
  <2>3. stored = {}
    BY DEF Init
  <2>4. QED
    BY <2>1, <2>2, <2>3 DEF AuditInv, Rising, Backed, Increasing
<1>2. IInv /\ AuditInv /\ [Next]_vars => AuditInv'
  BY StepAudit
<1>3. IInv /\ AuditInv => AuditFaithful
  <2> SUFFICES ASSUME IInv, AuditInv, stage # "down" PROVE AuditFaithful
    BY DEF AuditFaithful
  <2>1. Good = log
    BY GoodLines DEF IInv, LogShape
  <2>2. QED
    BY <2>1 DEF AuditFaithful, AuditInv, Backed, InLog, Listed
<1>4. QED
  BY <1>1, <1>2, <1>3, InvHolds, PTL DEF Spec
=============================================================================
