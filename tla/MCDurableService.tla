-------------------------- MODULE MCDurableService --------------------------
(* Instances of DurableService for TLC. *)
EXTENDS DurableService, TLC

CONSTANTS r1, d1, a1, a2

\* A device named twice, so two tasks; the first failure rolls back.
NamedTwice ==
  {[devices |-> <<d1, d1>>, batchSize |-> 2, maxConcurrent |-> 1, retryLimit |-> 0,
    maxFailures |-> 0, auto |-> TRUE]}

\* One task with one retry.
Solo ==
  {[devices |-> <<d1>>, batchSize |-> 1, maxConcurrent |-> 1, retryLimit |-> 1,
    maxFailures |-> 0, auto |-> TRUE]}

\* One task with no retry.
OneShot ==
  {[devices |-> <<d1>>, batchSize |-> 1, maxConcurrent |-> 1, retryLimit |-> 0,
    maxFailures |-> 0, auto |-> TRUE]}

AgentSymmetry == Permutations(Agent)
=============================================================================
