---------------------------- MODULE JobOwnership ----------------------------
(***************************************************************************)
(* What the cleanup queue of lifecycle.rs promises of the jobs it accepts,  *)
(* without its lists, threads and channels: a job is cleaned up, its        *)
(* success is reported once and before anything of it is destroyed, it is   *)
(* destroyed only when it has been cleaned up, and its identity stays busy  *)
(* from the hand-over at least until it is destroyed.                      *)
(***************************************************************************)
CONSTANT Jobs

VARIABLES
    accepted,  \* handed over
    done,      \* the cleanup returned Ok
    reported,  \* success was reported
    released,  \* the resources were destroyed
    busy       \* the identity is refused to others

ownershipVars == <<accepted, done, reported, released, busy>>

OwnershipInit ==
    /\ accepted = {} /\ done = {} /\ reported = {} /\ released = {} /\ busy = {}

Accept(j) ==
    /\ j \notin accepted
    /\ accepted' = accepted \cup {j} /\ busy' = busy \cup {j}
    /\ UNCHANGED <<done, reported, released>>

\* However often it failed before.
Finish(j) ==
    /\ j \in accepted \ released
    /\ done' = done \cup {j}
    /\ UNCHANGED <<accepted, reported, released, busy>>

Report(j) ==
    /\ j \in done \ (reported \cup released)
    /\ reported' = reported \cup {j}
    /\ UNCHANGED <<accepted, done, released, busy>>

\* The identity is free with the resources or later, never before them.
Release(j) ==
    /\ j \in done \ released
    /\ released' = released \cup {j}
    /\ busy' \in {busy, busy \ {j}}
    /\ UNCHANGED <<accepted, done, reported>>

Forget(S) ==
    /\ S \subseteq released
    /\ busy' = busy \ S
    /\ UNCHANGED <<accepted, done, reported, released>>

OwnershipNext ==
    \/ \E j \in Jobs : Accept(j) \/ Finish(j) \/ Report(j) \/ Release(j)
    \/ \E S \in SUBSET Jobs : Forget(S)

OwnershipSpec == OwnershipInit /\ [][OwnershipNext]_ownershipVars
=============================================================================
