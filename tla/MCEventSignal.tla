---------------------------- MODULE MCEventSignal ----------------------------
(* Small instances of EventSignal for TLC. *)
EXTENDS EventSignal

CONSTANTS b1, t1, p1
=============================================================================
