----------------------------- MODULE TaskLease -----------------------------
(***************************************************************************)
(* What the service promises about its tasks: at any time at most one agent *)
(* has a task on lease.  A lease is granted only while there is none, runs   *)
(* into the future when granted or renewed, is renewed only by its holder    *)
(* and only before it has run out, and ends before the task is leased again. *)
(* Dispatch, reports, expiry and rollback are all one of these; one call may *)
(* end the leases of several tasks.                                          *)
(***************************************************************************)
EXTENDS Naturals

CONSTANTS Task, Holder

VARIABLES
  now,     \* the clock
  lease    \* for each task {}, or its one lease: the holder and the deadline

Init == now \in Nat /\ lease = [t \in Task |-> {}]

Runs(granted) ==
  granted.holder \in Holder /\ granted.until \in Nat /\ granted.until > now

Grant(t) ==
  /\ lease[t] = {}
  /\ \E granted \in lease'[t] : Runs(granted) /\ lease'[t] = {granted}

Renew(t) ==
  \E current \in lease[t], granted \in lease'[t] :
    /\ now <= current.until
    /\ Runs(granted) /\ granted.holder = current.holder
    /\ lease'[t] = {granted}

End(t) == lease'[t] = {}

Keep(t) == lease'[t] = lease[t]

Call ==
  /\ \A t \in Task : Grant(t) \/ Renew(t) \/ End(t) \/ Keep(t)
  /\ UNCHANGED now

Clock ==
  /\ now' \in Nat /\ now' > now
  /\ UNCHANGED lease

Next == Call \/ Clock

Spec == Init /\ [][Next]_<<now, lease>>
=============================================================================
