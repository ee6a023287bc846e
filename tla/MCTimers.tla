------------------------------ MODULE MCTimers ------------------------------
(* Instances of TimedEvent for TLC. *)
EXTENDS TimedEvent

CONSTANTS k1, k2
=============================================================================
