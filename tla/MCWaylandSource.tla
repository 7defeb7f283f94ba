-------------------------- MODULE MCWaylandSource --------------------------
(* Instances of WaylandSource for TLC. *)
EXTENDS WaylandSource

\* A client that sends and a source that works.
Working == {[requests |-> 1, fails |-> FALSE]}
=============================================================================
