------------------------------ MODULE EventLog ------------------------------
(***************************************************************************)
(* What the service relies on when it keeps its records in an append-only  *)
(* log: a restart at any moment rebuilds some revision of every aggregate,  *)
(* that revision only moves forward, one event at a time, and a call is     *)
(* acknowledged only when a restart would already rebuild its change.       *)
(* Crashes, recoveries, snapshots and failed calls are invisible.           *)
(***************************************************************************)
EXTENDS Naturals

CONSTANT Aggregate   \* the ids of releases, devices and tasks

VARIABLES
  rebuilt,   \* the revision of each aggregate a restart now would come up with
  acked      \* the latest revision of it whose change was acknowledged

Init ==
  /\ rebuilt = [a \in Aggregate |-> 0]
  /\ acked = [a \in Aggregate |-> 0]

Record(a) ==
  /\ rebuilt'[a] > rebuilt[a]
  /\ rebuilt' = [rebuilt EXCEPT ![a] = rebuilt'[a]]
  /\ UNCHANGED acked

Acknowledge(a) ==
  /\ acked' = [acked EXCEPT ![a] = rebuilt[a]]
  /\ UNCHANGED rebuilt

Next == \E a \in Aggregate : Record(a) \/ Acknowledge(a)

Spec == Init /\ [][Next]_<<rebuilt, acked>>
=============================================================================
