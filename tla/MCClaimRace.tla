---------------------------- MODULE MCClaimRace ----------------------------
(* Instances of ClaimRace for TLC. *)
EXTENDS ClaimRace, TLC

CONSTANTS t1, a1, a2
=============================================================================
