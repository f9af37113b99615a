----------------------------- MODULE MCService -----------------------------
(* Instances of Service for TLC. *)
EXTENDS Service, TLC

CONSTANTS r1, d1, d2, a1, a2

\* One device, one retry; a failure rolls back, or does not.  The negative
\* retry limit is a request CreateRelease refuses.
OneDevice ==
  {[devices |-> <<d1>>, batchSize |-> 1, maxConcurrent |-> 1, retryLimit |-> n,
    maxFailures |-> 0, auto |-> b] : b \in BOOLEAN, n \in {-1, 1}}

\* Two devices, one active at a time, one retry, one failure tolerated.
TwoDevices ==
  {[devices |-> <<d1, d2>>, batchSize |-> 2, maxConcurrent |-> 1, retryLimit |-> 1,
    maxFailures |-> 1, auto |-> TRUE]}

AgentSymmetry == Permutations(Agent)
=============================================================================
