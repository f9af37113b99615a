--------------------------- MODULE MCDurableStore ---------------------------
(* Instances of DurableStore for TLC. *)
EXTENDS DurableStore

CONSTANTS x, y
=============================================================================
