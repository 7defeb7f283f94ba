------------------------------ MODULE Sessions ------------------------------
(***************************************************************************)
(* The session orchestrator: the message handlers of main.rs that check,   *)
(* launch, cancel and stop application profiles and create and close       *)
(* managed displays, with the resource bundles of session_lifecycle.rs and *)
(* the leases and reservations of profile_activity.rs.                     *)
(*                                                                         *)
(* One handler runs at a time, on the UI thread.  Its workers (profile     *)
(* checks, display starts, container launches) are `tasks': the handler of *)
(* a reply takes the task and chooses what the worker answered, so replies *)
(* arrive in any order and arbitrarily late.  An operation is recognised   *)
(* by its generation.  A cleanup job stands for an entry of CleanupQueue   *)
(* from its enqueue to its destruction; a dead process is one that try_wait*)
(* happens to report when a handler looks.                                 *)
(***************************************************************************)
EXTENDS Integers, FiniteSets

CONSTANTS
    Profiles,    \* saved profile ids
    Versions,    \* contents a profile may be saved with
    IdentOf,     \* [Versions -> Idents]: its runtime and container name
    Wants,       \* [Versions -> {"auto", "default", "named"}]: its display
    SlotOf,      \* [Versions -> Slots]: its dedicated display slot
    Idents,      \* runtime identities
    Slots,       \* the display slots other than the default one
    InitConfigs, \* the profiles that may be saved at startup
    ReadErrors,  \* whether reading the configuration file may fail
    MaxOps,      \* bound: operations and displays users may ask for
    MaxEdits,    \* bound: edits and deletions of profiles
    None

Default == "default"
\* A profile check that finds its profile edited takes one more generation.
MaxGen == MaxOps + MaxEdits
AllSlots == Slots \cup {Default}
Gens == Nat \ {0}

ASSUME SessionsAssumption ==
    /\ IdentOf \in [Versions -> Idents]
    /\ Wants \in [Versions -> {"auto", "default", "named"}]
    /\ SlotOf \in [Versions -> Slots]
    /\ InitConfigs \subseteq [Profiles -> Versions]
    /\ Default \notin Slots
    /\ None \notin Profiles \cup Versions \cup Idents \cup AllSlots
    /\ ReadErrors \in BOOLEAN
    /\ MaxOps \in Nat /\ MaxEdits \in Nat

VARIABLES
    config,      \* the saved profiles
    op,          \* pending_profile_operations
    checks,      \* pending_profile_checks
    validated,   \* validated_launch_checks: the version that was checked
    pendDisplay, \* pending_display_sessions
    pendLaunch,  \* pending_launch_sessions
    workers,     \* pending_launch_workers
    active,      \* active_container_sessions
    managed,     \* managed_displays: the generation of a slot's worker, or 0
    pendManaged, \* pending_managed_displays
    cleanup,     \* lifecycle_cleanup: the jobs not yet destroyed
    identities,  \* IDENTITIES: the owner of a reserved identity
    tasks,       \* workers in flight and messages the UI sent itself
    nextGen,     \* PROFILE_OPERATION_SEQUENCE and DISPLAY_WORKER_SEQUENCE
    edits        \* for MaxEdits

vars == <<config, op, checks, validated, pendDisplay, pendLaunch, workers,
          active, managed, pendManaged, cleanup, identities, tasks, nextGen,
          edits>>

Reservation == [ident : Idents, profile : Profiles, gen : Gens]

Operation == [gen : Gens, ver : Versions, launch : BOOLEAN,
              cancelled : BOOLEAN, res : Reservation \cup {None}]

ActiveSession == [profile : Profiles, gen : Gens, ver : Versions,
                  slot : AllSlots, own : BOOLEAN, stopping : BOOLEAN,
                  res : Reservation \cup {None}]

\* `profile' is the profile of a Session key, `lease' the profile whose activity
\* the bundle retains, `ident' the container it will delete.
Job == [profile : Profiles \cup {None}, slot : AllSlots, gen : Gens,
        lease : Profiles \cup {None}, res : Reservation \cup {None},
        ident : Idents \cup {None}]

Task == [kind : {"check", "resume", "display", "launch", "managed", "stop"},
         profile : Profiles \cup {None}, gen : Nat,
         ver : Versions \cup {None}, slot : AllSlots \cup {None}]

ASSUME NoneAssumption ==
    None \notin Operation \cup Reservation \cup [profile : Profiles, gen : Gens]

Init ==
    /\ config \in InitConfigs
    /\ op = [p \in Profiles |-> None]
    /\ checks = {}
    /\ validated = [p \in Profiles |-> None]
    /\ pendDisplay = [p \in Profiles |-> None]
    /\ pendLaunch = [p \in Profiles |-> None]
    /\ workers = {}
    /\ active = {}
    /\ managed = [s \in Slots |-> 0]
    /\ pendManaged = [s \in Slots |-> 0]
    /\ cleanup = {}
    /\ identities = [i \in Idents |-> None]
    /\ tasks = {}
    /\ nextGen = 1
    /\ edits = 0

-----------------------------------------------------------------------------
(* Reading the state, as the handlers do. *)

\* load_sessions and resolve_session: an unreadable file has no profiles.
Configured(p) == {config[p]} \cup (IF ReadErrors THEN {None} ELSE {})

CurrentOperation(p, gen) == op[p] # None /\ op[p].gen = gen

SessionBusy(p) == \E j \in cleanup : j.profile = p
DisplayBusyIn(jobs, s) == \E j \in jobs : j.slot = s
DisplayBusy(s) == DisplayBusyIn(cleanup, s)

ProfileDisplayPending(s) ==
    \E p \in Profiles : pendDisplay[p] = s \/ pendLaunch[p] = s

ActiveOn(sessions, s) == \E a \in sessions : a.slot = s
ActiveProfile(sessions, p) == \E a \in sessions : a.profile = p

Leased(p) ==
    \/ op[p] # None
    \/ ActiveProfile(active, p)
    \/ \E j \in cleanup : j.lease = p

\* choose_display_assignment.
Assignment(v, defaultInUse) ==
    CASE Wants[v] = "default"                    -> Default
      [] Wants[v] = "auto" /\ ~defaultInUse      -> Default
      [] OTHER                                   -> SlotOf[v]

\* Who uses or is about to use a slot: active sessions and pending launches.
Occupants(sessions) ==
    {<<a.profile, a.slot>> : a \in sessions}
      \cup {<<q, pendDisplay[q]>> : q \in Profiles}
      \cup {<<q, pendLaunch[q]>> : q \in Profiles}

DisplayConflict(p, v, sessions, jobs) ==
    LET others == {o \in Occupants(sessions) : o[1] # p}
        defaultInUse == DisplayBusyIn(jobs, Default)
                          \/ \E o \in others : o[2] = Default
    IN  \E o \in others : o[2] = Assignment(v, defaultInUse)

-----------------------------------------------------------------------------
(* Bundles and reservations. *)

\* reserve_identity, and Drop for RuntimeReservation: only the owner's.
Owner(r) == [profile |-> r.profile, gen |-> r.gen]
Reserve(ids, r) == [ids EXCEPT ![r.ident] = Owner(r)]
Release(ids, r) ==
    IF r # None /\ ids[r.ident] = Owner(r) THEN [ids EXCEPT ![r.ident] = None]
                                           ELSE ids

\* reserve_runtime of an operation: already held, or free and taken now.
\* Mutant: an identity in use is taken all the same.
MayReserveAlways(ids, o) == TRUE
ReservationFor(p, o) == [ident |-> IdentOf[o.ver], profile |-> p, gen |-> o.gen]
MayReserve(ids, o) == o.res # None \/ ids[IdentOf[o.ver]] = None
Reserved(p, o) == [o EXCEPT !.res = IF @ = None THEN ReservationFor(p, o) ELSE @]

\* queue_session_cleanup.  Mutant: the bundle loses the reservation.
SessionJobUnreserved(a) ==
    [profile |-> a.profile, slot |-> a.slot, gen |-> a.gen,
     lease |-> a.profile, res |-> None, ident |-> IdentOf[a.ver]]
SessionJob(a) == [profile |-> a.profile, slot |-> a.slot, gen |-> a.gen,
                  lease |-> a.profile, res |-> a.res, ident |-> IdentOf[a.ver]]

\* queue_display_cleanup, for a display worker that belongs to no session.
DisplayJob(s, gen) == [profile |-> None, slot |-> s, gen |-> gen,
                       lease |-> None, res |-> None, ident |-> None]

LaunchJob(p, s, gen, res, ident) ==
    [profile |-> p, slot |-> s, gen |-> gen, lease |-> p, res |-> res,
     ident |-> ident]

NewTask(kind, p, gen, v, s) ==
    [kind |-> kind, profile |-> p, gen |-> gen, ver |-> v, slot |-> s]

\* The operation leaves pending_profile_operations and is dropped.
DropOperation(p) ==
    /\ op' = [op EXCEPT ![p] = None]
    /\ identities' = IF op[p] = None THEN identities
                                     ELSE Release(identities, op[p].res)

\* ... or moves, with its reservation, into a session or a cleanup job.
MoveOperation(p) == op' = [op EXCEPT ![p] = None] /\ UNCHANGED identities

Clear(f, p) == [f EXCEPT ![p] = None]

DropLaunch(p) == DropOperation(p) /\ validated' = Clear(validated, p)

\* reap_exited_container_sessions, when the sessions X are seen to have exited.
ReapSessions(X) ==
    /\ active' = active \ X
    /\ cleanup' = cleanup \cup {SessionJob(a) : a \in X}

displayVars == <<managed, pendManaged>>
configVars  == <<config, edits>>

-----------------------------------------------------------------------------
(* CheckContainerSession and ContainerSessionChecked. *)

NewOperation(p, v, launch) == [gen |-> nextGen, ver |-> v, launch |-> launch,
                               cancelled |-> FALSE, res |-> None]

CheckContainerSession(p) ==
    \E v \in Configured(p) \ {None} :
      /\ nextGen <= MaxOps
      /\ op[p] = None /\ p \notin checks
      /\ op' = [op EXCEPT ![p] = NewOperation(p, v, FALSE)]
      /\ nextGen' = nextGen + 1
      /\ checks' = checks \cup {p}
      /\ tasks' = tasks \cup {NewTask("check", p, nextGen, v, None)}
      /\ UNCHANGED <<validated, pendDisplay, pendLaunch, workers, active,
                     cleanup, identities, displayVars, configVars>>

\* The profile was edited while it was checked: check again what is saved now.
CheckAgain(p, v, t) ==
    LET free == Release(identities, op[p].res)
        o    == [op[p] EXCEPT !.ver = v, !.res = None, !.gen = nextGen]
    IN  /\ nextGen' = nextGen + 1
        /\ \/ /\ o.launch /\ ~MayReserve(free, o)
              /\ op' = Clear(op, p)
              /\ identities' = free
              /\ checks' = checks \ {p}
              /\ tasks' = tasks \ {t}
           \/ /\ o.launch => MayReserve(free, o)
              /\ op' = [op EXCEPT ![p] = IF o.launch THEN Reserved(p, o) ELSE o]
              /\ identities' = IF o.launch THEN Reserve(free, ReservationFor(p, o))
                                           ELSE free
              /\ tasks' = (tasks \ {t})
                            \cup {NewTask("check", p, nextGen, v, None)}
              /\ UNCHANGED checks

\* The check holds: a launch goes on by a message to self.
Checked(p, t) ==
    /\ checks' = checks \ {p}
    /\ IF op[p].launch
       THEN /\ validated' = [validated EXCEPT ![p] = t.ver]
            /\ tasks' = (tasks \ {t})
                          \cup {NewTask("resume", p, t.gen, None, None)}
            /\ UNCHANGED <<op, identities>>
       ELSE /\ DropOperation(p)
            /\ tasks' = tasks \ {t}
            /\ UNCHANGED validated

ContainerSessionChecked(t) ==
    LET p == t.profile IN
    /\ t \in tasks /\ t.kind = "check"
    /\ \/ /\ ~CurrentOperation(p, t.gen)
          /\ tasks' = tasks \ {t}
          /\ UNCHANGED <<op, identities, checks, validated, nextGen>>
       \/ /\ CurrentOperation(p, t.gen)
          /\ \E v \in Configured(p), ok \in BOOLEAN :
               \/ /\ op[p].cancelled \/ v = None \/ (v = op[p].ver /\ ~ok)
                  /\ DropOperation(p)
                  /\ checks' = checks \ {p}
                  /\ tasks' = tasks \ {t}
                  /\ UNCHANGED <<validated, nextGen>>
               \/ /\ ~op[p].cancelled /\ v \notin {None, op[p].ver}
                  /\ CheckAgain(p, v, t)
                  /\ UNCHANGED validated
               \/ /\ ~op[p].cancelled /\ v = op[p].ver /\ ok
                  /\ Checked(p, t)
                  /\ UNCHANGED nextGen
    /\ UNCHANGED <<pendDisplay, pendLaunch, workers, active, cleanup,
                   displayVars, configVars>>

-----------------------------------------------------------------------------
(* StartContainerSession, sent by the user or by ResumeContainerSession.  The *)
(* sessions that reaping removes are gone from active' and are in cleanup'    *)
(* for the rest of the handler.                                               *)

DefaultInUse ==
    \/ DisplayBusyIn(cleanup', Default)
    \/ \E o \in Occupants(active') : o[2] = Default

\* The slot cannot be used now: the operation is dropped.
SlotRefused(p, v, slot) ==
    \/ DisplayConflict(p, v, active', cleanup')
    \/ DisplayBusyIn(cleanup', slot)
    \/ slot # Default /\ pendManaged[slot] # 0

\* A checked operation takes its slot: on a display there is, or on one to start.
StartOnDisplay(p, o, taken) ==
    LET slot == Assignment(o.ver, DefaultInUse)
        held == Reserve(identities, Reserved(p, o).res)
    IN  \/ /\ SlotRefused(p, o.ver, slot)
           /\ op' = Clear(op, p)
           /\ identities' = Release(held, Reserved(p, o).res)
           /\ validated' = Clear(validated, p)
           /\ tasks' = tasks \ taken
           /\ UNCHANGED <<pendDisplay, pendLaunch>>
        \/ /\ ~SlotRefused(p, o.ver, slot)
           /\ op' = [op EXCEPT ![p] = Reserved(p, o)]
           /\ identities' = held
           /\ IF slot = Default \/ managed[slot] # 0
              THEN /\ validated' = Clear(validated, p)
                   /\ pendLaunch' = [pendLaunch EXCEPT ![p] = slot]
                   /\ tasks' = (tasks \ taken)
                        \cup {NewTask("launch", p, o.gen, validated[p], slot)}
                   /\ UNCHANGED pendDisplay
              ELSE /\ pendDisplay' = [pendDisplay EXCEPT ![p] = slot]
                   /\ tasks' = (tasks \ taken)
                        \cup {NewTask("display", p, o.gen, None, slot)}
                   /\ UNCHANGED <<validated, pendLaunch>>

\* No launch of p is under way: begin one, or go on with the checked one.
StartOperation(p, v, taken) ==
    LET o == IF op[p] = None THEN NewOperation(p, v, TRUE) ELSE op[p]
    IN  /\ IF op[p] = None THEN nextGen <= MaxOps /\ nextGen' = nextGen + 1
                           ELSE UNCHANGED nextGen
        /\ \/ /\ ~MayReserve(identities, o)
              /\ op' = Clear(op, p)
              /\ validated' = Clear(validated, p)
              /\ tasks' = tasks \ taken
              /\ UNCHANGED <<identities, checks, pendDisplay, pendLaunch>>
           \/ /\ MayReserve(identities, o) /\ validated[p] = None
              /\ op' = [op EXCEPT ![p] = Reserved(p, o)]
              /\ identities' = Reserve(identities, Reserved(p, o).res)
              /\ checks' = checks \cup {p}
              /\ tasks' = (tasks \ taken)
                            \cup {NewTask("check", p, o.gen, o.ver, None)}
              /\ UNCHANGED <<validated, pendDisplay, pendLaunch>>
           \/ /\ MayReserve(identities, o) /\ validated[p] # None
              /\ StartOnDisplay(p, o, taken)
              /\ UNCHANGED checks

\* p already runs: a launch that was being prepared is dropped.
StartAlreadyRunning(p, taken) ==
    /\ IF p \in checks THEN UNCHANGED <<op, identities, validated>>
                       ELSE DropLaunch(p)
    /\ tasks' = tasks \ taken
    /\ UNCHANGED <<checks, pendDisplay, pendLaunch, nextGen>>

\* A check is under way: the launch is queued behind it, if p may be reserved.
StartBehindCheck(p, taken) ==
    /\ IF MayReserve(identities, op[p])
       THEN LET o == Reserved(p, op[p])
            IN  /\ op' = [op EXCEPT ![p] = [o EXCEPT !.launch = TRUE]]
                /\ identities' = Reserve(identities, o.res)
       ELSE UNCHANGED <<op, identities>>
    /\ tasks' = tasks \ taken
    /\ UNCHANGED <<checks, validated, pendDisplay, pendLaunch, nextGen>>

StartIgnored(taken) ==
    /\ tasks' = tasks \ taken
    /\ UNCHANGED <<op, identities, checks, validated, pendDisplay, pendLaunch,
                   nextGen>>

\* A cancelled operation, or one whose display or launch worker is at work.
StartMustWait(p) ==
    \/ op[p] # None /\ op[p].cancelled
    \/ pendDisplay[p] # None \/ pendLaunch[p] # None

StartHandler(p, taken) ==
    /\ \E v \in Configured(p) :
         \/ /\ v = None \/ SessionBusy(p)
            /\ StartIgnored(taken)
            /\ UNCHANGED <<active, cleanup>>
         \/ \E X \in SUBSET active :
              /\ v # None /\ ~SessionBusy(p)
              /\ ReapSessions(X)
              /\ \/ /\ ActiveProfile(active', p)
                    /\ StartAlreadyRunning(p, taken)
                 \/ /\ ~ActiveProfile(active', p)
                    /\ IF op[p] # None /\ ~op[p].cancelled /\ p \in checks
                       THEN StartBehindCheck(p, taken)
                       ELSE IF StartMustWait(p)
                            THEN StartIgnored(taken)
                            ELSE StartOperation(p, v, taken)
    /\ UNCHANGED <<workers, displayVars, configVars>>

StartContainerSession(p) == StartHandler(p, {})

ResumeContainerSession(t) ==
    /\ t \in tasks /\ t.kind = "resume"
    /\ IF CurrentOperation(t.profile, t.gen) /\ ~op[t.profile].cancelled
       THEN StartHandler(t.profile, {t})
       ELSE /\ StartIgnored({t})
            /\ UNCHANGED <<active, cleanup, workers, displayVars, configVars>>

-----------------------------------------------------------------------------
(* Replies of display and launch workers. *)

\* The handler abandons the launch: the operation moves into the cleanup job.
AbandonDisplay(p, t, jobs) ==
    /\ cleanup' = jobs \cup {LaunchJob(p, t.slot, t.gen, op[p].res, None)}
    /\ validated' = Clear(validated, p)
    /\ MoveOperation(p)
    /\ tasks' = tasks \ {t}
    /\ UNCHANGED <<pendLaunch, workers>>

LaunchOnWorker(p, t) ==
    /\ workers' = workers \cup {p}
    /\ pendLaunch' = [pendLaunch EXCEPT ![p] = t.slot]
    /\ validated' = Clear(validated, p)
    /\ tasks' = (tasks \ {t})
                  \cup {NewTask("launch", p, t.gen, validated[p], t.slot)}
    /\ UNCHANGED <<op, identities>>

\* Another launch, a managed display or a cleanup came to hold the slot.
SlotTaken(p, s) ==
    \/ DisplayBusy(s)
    \/ \E q \in Profiles \ {p} : pendDisplay[q] = s
    \/ \E q \in Profiles : pendLaunch[q] = s
    \/ pendManaged[s] # 0 \/ managed[s] # 0

DisplayReply(t) == t \in tasks /\ t.kind = "display"
DisplayExpected(t) == /\ CurrentOperation(t.profile, t.gen)
                      /\ pendDisplay[t.profile] = t.slot

DedicatedDisplayStarted(t) ==
    LET p == t.profile IN
    /\ DisplayReply(t)
    /\ IF ~DisplayExpected(t)
       THEN /\ cleanup' = cleanup \cup {DisplayJob(t.slot, t.gen)}
            /\ tasks' = tasks \ {t}
            /\ UNCHANGED <<op, identities, validated, pendDisplay, pendLaunch,
                           workers, active>>
       ELSE /\ pendDisplay' = Clear(pendDisplay, p)
            /\ IF op[p].cancelled \/ SlotTaken(p, t.slot)
               THEN AbandonDisplay(p, t, cleanup) /\ UNCHANGED active
               ELSE \E X \in SUBSET active :
                      LET jobs == cleanup \cup {SessionJob(a) : a \in X} IN
                      /\ active' = active \ X
                      /\ IF \/ ActiveProfile(active', p)
                            \/ ActiveOn(active', t.slot)
                            \/ validated[p] = None
                         THEN AbandonDisplay(p, t, jobs)
                         ELSE LaunchOnWorker(p, t) /\ cleanup' = jobs
    /\ UNCHANGED <<checks, nextGen, displayVars, configVars>>

DedicatedDisplayFailed(t) ==
    LET p == t.profile IN
    /\ DisplayReply(t)
    /\ IF DisplayExpected(t)
       THEN /\ pendDisplay' = Clear(pendDisplay, p)
            /\ DropLaunch(p)
       ELSE UNCHANGED <<op, identities, validated, pendDisplay>>
    /\ tasks' = tasks \ {t}
    /\ UNCHANGED <<checks, pendLaunch, workers, active, cleanup, nextGen,
                   displayVars, configVars>>

LaunchExpected(t) == /\ CurrentOperation(t.profile, t.gen)
                     /\ pendLaunch[t.profile] = t.slot
\* Mutant: a cancellation that came during the launch is overlooked.
NoRollback(p) == FALSE
MustRollBack(p) == op[p].cancelled
Container(t, ok) == IF ok THEN IdentOf[t.ver] ELSE None

\* complete_container_session_launch.
CompleteLaunch(p, t, ok) ==
    LET o == op[p] IN
    \/ /\ ok
       /\ active' = active \cup
            {[profile |-> p, gen |-> o.gen, ver |-> o.ver, slot |-> t.slot,
              own |-> p \in workers, stopping |-> FALSE, res |-> o.res]}
       /\ MoveOperation(p)
       /\ UNCHANGED cleanup
    \/ /\ ~ok /\ p \in workers
       /\ cleanup' = cleanup \cup {LaunchJob(p, t.slot, t.gen, o.res, None)}
       /\ MoveOperation(p)
       /\ UNCHANGED active
    \/ /\ ~ok /\ p \notin workers
       /\ DropOperation(p)
       /\ UNCHANGED <<active, cleanup>>

ContainerSessionLaunchFinished(t, ok) ==
    LET p == t.profile IN
    /\ t \in tasks /\ t.kind = "launch"
    /\ tasks' = tasks \ {t}
    /\ IF ~LaunchExpected(t)
       THEN /\ cleanup' = cleanup \cup
                 {LaunchJob(p, t.slot, t.gen, None, Container(t, ok))}
            /\ UNCHANGED <<op, identities, pendLaunch, workers, active>>
       ELSE /\ pendLaunch' = Clear(pendLaunch, p)
            /\ workers' = workers \ {p}
            /\ IF MustRollBack(p)
               THEN /\ cleanup' = cleanup \cup
                         {LaunchJob(p, t.slot, t.gen, op[p].res, Container(t, ok))}
                    /\ MoveOperation(p)
                    /\ UNCHANGED active
               ELSE CompleteLaunch(p, t, ok)
    /\ UNCHANGED <<checks, validated, pendDisplay, nextGen, displayVars,
                   configVars>>

-----------------------------------------------------------------------------
(* StopContainerSession and ForceStopContainerSession. *)

WorkerPending(p) ==
    p \in checks \/ pendDisplay[p] # None \/ pendLaunch[p] # None

\* request_graceful_container_stop marks the session and signals its processes.
GracefulStop(p) ==
    active' = {IF a.profile = p THEN [a EXCEPT !.stopping = TRUE] ELSE a :
                 a \in active}

StopHandler(p) ==
    /\ IF op[p] = None
       THEN UNCHANGED <<op, identities, validated>>
       ELSE IF WorkerPending(p)
            THEN /\ op' = [op EXCEPT ![p].cancelled = TRUE]
                 /\ UNCHANGED <<identities, validated>>
            ELSE DropLaunch(p)
    /\ GracefulStop(p)
    /\ UNCHANGED <<checks, pendDisplay, pendLaunch, workers, cleanup, nextGen,
                   displayVars, configVars>>

StopContainerSession(p) == StopHandler(p) /\ UNCHANGED tasks

StopRequested(t) ==
    /\ t \in tasks /\ t.kind = "stop"
    /\ StopHandler(t.profile)
    /\ tasks' = tasks \ {t}

ForceStopContainerSession(p) ==
    /\ IF op[p] # None
       THEN /\ tasks' = tasks \cup {NewTask("stop", p, 0, None, None)}
            /\ UNCHANGED <<active, cleanup>>
       ELSE /\ ReapSessions({a \in active : a.profile = p})
            /\ UNCHANGED tasks
    /\ UNCHANGED <<op, identities, checks, validated, pendDisplay, pendLaunch,
                   workers, nextGen, displayVars, configVars>>

-----------------------------------------------------------------------------
(* Managed displays, and the periodic reaping of what exited. *)

sessionVars == <<op, identities, checks, validated, pendDisplay, pendLaunch,
                 workers>>

\* reap_exited_managed_displays, when the workers of the slots D have exited:
\* the sessions they served are force-stopped.  Then the sessions X are reaped.
Reap(D, X) ==
    LET stopped == {a \in active : a.slot \in D} \cup X
    IN  /\ managed' = [s \in Slots |-> IF s \in D THEN 0 ELSE managed[s]]
        /\ active' = active \ stopped
        /\ cleanup' = cleanup \cup {SessionJob(a) : a \in stopped}
                              \cup {DisplayJob(s, managed[s]) : s \in D}

ManagedSlots == {s \in Slots : managed[s] # 0}

Maintenance ==
    \E D \in SUBSET ManagedSlots, X \in SUBSET active :
      /\ Reap(D, X)
      /\ UNCHANGED <<sessionVars, pendManaged, tasks, nextGen, configVars>>

SlotOccupied(s) ==
    \/ DisplayBusyIn(cleanup', s) \/ ProfileDisplayPending(s)
    \/ managed'[s] # 0 \/ ActiveOn(active', s)

CreateManagedDisplay(s) ==
    \E D \in SUBSET ManagedSlots :
      /\ nextGen <= MaxOps
      /\ Reap(D, {})
      /\ IF pendManaged[s] # 0 \/ SlotOccupied(s)
         THEN UNCHANGED <<pendManaged, tasks, nextGen>>
         ELSE /\ pendManaged' = [pendManaged EXCEPT ![s] = nextGen]
              /\ tasks' = tasks \cup {NewTask("managed", None, nextGen, None, s)}
              /\ nextGen' = nextGen + 1
      /\ UNCHANGED <<sessionVars, configVars>>

\* complete_managed_attempt.
AttemptCurrent(t) == pendManaged[t.slot] = t.gen

ManagedDisplayStarted(t) ==
    /\ t \in tasks /\ t.kind = "managed"
    /\ UNCHANGED active
    /\ \/ /\ ~AttemptCurrent(t)
          /\ cleanup' = cleanup \cup {DisplayJob(t.slot, t.gen)}
          /\ UNCHANGED displayVars
       \/ /\ AttemptCurrent(t)
          /\ pendManaged' = [pendManaged EXCEPT ![t.slot] = 0]
          /\ IF \/ DisplayBusy(t.slot) \/ ProfileDisplayPending(t.slot)
                \/ managed[t.slot] # 0 \/ ActiveOn(active, t.slot)
             THEN /\ cleanup' = cleanup \cup {DisplayJob(t.slot, t.gen)}
                  /\ UNCHANGED managed
             ELSE /\ managed' = [managed EXCEPT ![t.slot] = t.gen]
                  /\ UNCHANGED cleanup
    /\ tasks' = tasks \ {t}
    /\ UNCHANGED <<sessionVars, nextGen, configVars>>

ManagedDisplayFailed(t) ==
    /\ t \in tasks /\ t.kind = "managed"
    /\ pendManaged' = IF AttemptCurrent(t)
                      THEN [pendManaged EXCEPT ![t.slot] = 0] ELSE pendManaged
    /\ tasks' = tasks \ {t}
    /\ UNCHANGED <<sessionVars, active, cleanup, managed, nextGen, configVars>>

CloseManagedDisplay(s) ==
    /\ ~DisplayBusy(s) /\ ~ProfileDisplayPending(s) /\ ~ActiveOn(active, s)
    /\ \/ /\ pendManaged[s] # 0
          /\ pendManaged' = [pendManaged EXCEPT ![s] = 0]
          /\ UNCHANGED <<managed, cleanup>>
       \/ /\ pendManaged[s] = 0 /\ managed[s] # 0
          /\ managed' = [managed EXCEPT ![s] = 0]
          /\ cleanup' = cleanup \cup {DisplayJob(s, managed[s])}
          /\ UNCHANGED pendManaged
    /\ UNCHANGED <<sessionVars, active, tasks, nextGen, configVars>>

-----------------------------------------------------------------------------
(* The profile editor, and the end of a cleanup job. *)

otherThanConfig == <<sessionVars, active, displayVars, cleanup, tasks, nextGen>>

\* replace_session: validate_profile_name refuses an identity that another
\* profile is saved with, or that is reserved for another profile.
EditProfile(p, v) ==
    /\ edits < MaxEdits
    /\ config[p] \notin {None, v}
    /\ \A q \in Profiles \ {p} : config[q] # None => IdentOf[config[q]] # IdentOf[v]
    /\ identities[IdentOf[v]] # None => identities[IdentOf[v]].profile = p
    /\ config' = [config EXCEPT ![p] = v]
    /\ edits' = edits + 1
    /\ UNCHANGED otherThanConfig

\* remove_session, under while_inactive.
DeleteProfile(p) ==
    /\ edits < MaxEdits
    /\ config[p] # None /\ ~Leased(p)
    /\ config' = [config EXCEPT ![p] = None]
    /\ edits' = edits + 1
    /\ UNCHANGED otherThanConfig

\* CleanupQueue succeeded with the job and its reaper dropped the bundle.
CleanupDone(j) ==
    /\ j \in cleanup
    /\ cleanup' = cleanup \ {j}
    /\ identities' = Release(identities, j.res)
    /\ UNCHANGED <<op, checks, validated, pendDisplay, pendLaunch, workers,
                   active, displayVars, tasks, nextGen, configVars>>

-----------------------------------------------------------------------------
\* A worker answers.
Reply(t) ==
    \/ ContainerSessionChecked(t)
    \/ DedicatedDisplayStarted(t) \/ DedicatedDisplayFailed(t)
    \/ \E ok \in BOOLEAN : ContainerSessionLaunchFinished(t, ok)
    \/ ManagedDisplayStarted(t) \/ ManagedDisplayFailed(t)

\* A message the UI thread sent to itself is handled.
SelfMessage(t) == ResumeContainerSession(t) \/ StopRequested(t)

UserRequest(p) ==
    \/ CheckContainerSession(p) \/ StartContainerSession(p)
    \/ StopContainerSession(p) \/ ForceStopContainerSession(p)

Next ==
    \/ \E t \in tasks : Reply(t) \/ SelfMessage(t)
    \/ \E p \in Profiles : UserRequest(p)
    \/ \E s \in Slots : CreateManagedDisplay(s) \/ CloseManagedDisplay(s)
    \/ Maintenance
    \/ \E p \in Profiles, v \in Versions : EditProfile(p, v)
    \/ \E p \in Profiles : DeleteProfile(p)
    \/ \E j \in cleanup : CleanupDone(j)

Spec == Init /\ [][Next]_vars

\* Every worker answers (each runs its steps with timeouts and reports either
\* way), the event loop gets to every message, every cleanup succeeds in the end.
Fairness ==
    /\ \A p \in Profiles, g \in 0 .. MaxGen :
         WF_vars(\E t \in tasks : /\ t.profile = p /\ t.gen = g
                                  /\ Reply(t) \/ SelfMessage(t))
    /\ \A g \in 1 .. MaxGen : WF_vars(\E j \in cleanup : j.gen = g /\ CleanupDone(j))

FairSpec == Spec /\ Fairness

-----------------------------------------------------------------------------
(* Properties. *)

\* Every table of the App and every outstanding worker stays in its type.
TypeOK ==
    /\ config \in [Profiles -> Versions \cup {None}]
    /\ op \in [Profiles -> Operation \cup {None}]
    /\ checks \subseteq Profiles
    /\ validated \in [Profiles -> Versions \cup {None}]
    /\ pendDisplay \in [Profiles -> Slots \cup {None}]
    /\ pendLaunch \in [Profiles -> AllSlots \cup {None}]
    /\ workers \subseteq Profiles
    /\ active \subseteq ActiveSession
    /\ managed \in [Slots -> Nat]
    /\ pendManaged \in [Slots -> Nat]
    /\ cleanup \subseteq Job
    /\ identities \in [Idents -> [profile : Profiles, gen : Gens] \cup {None}]
    /\ tasks \subseteq Task
    /\ nextGen \in Gens
    /\ edits \in 0 .. MaxEdits

\* The handlers' maps and the workers at work agree: a pending check, display or
\* launch has exactly its worker in flight, and no worker of a profile answers
\* an operation that has moved on without it.
WorkersTracked ==
    /\ \A t \in tasks :
         /\ t.kind = "check" => CurrentOperation(t.profile, t.gen)
                                  /\ t.profile \in checks
         /\ t.kind = "display" => DisplayExpected(t)
         /\ t.kind = "launch" => LaunchExpected(t)
    /\ \A p \in Profiles :
         LET inFlight(k) == {t \in tasks : t.kind = k /\ t.profile = p} IN
         /\ p \in checks => Cardinality(inFlight("check")) = 1
         /\ pendDisplay[p] # None => Cardinality(inFlight("display")) = 1
         /\ pendLaunch[p] # None => Cardinality(inFlight("launch")) = 1
         /\ p \in workers => pendLaunch[p] # None

\* Two profiles never use, or are about to use, one display slot.
SlotExclusive ==
    /\ \A o1, o2 \in Occupants(active) :
         o1[2] = o2[2] /\ o1[2] # None => o1[1] = o2[1]
    /\ \A a, b \in active : a # b => a.profile # b.profile /\ a.slot # b.slot

\* At most one display worker serves a slot: a managed display, the own worker
\* of a session, or the worker of a launch.
OneDisplayPerSlot ==
    \A s \in Slots :
      Cardinality({a \in active : a.own /\ a.slot = s})
        + Cardinality({p \in workers : pendLaunch[p] = s})
        + (IF managed[s] # 0 THEN 1 ELSE 0) <= 1

\* Whatever may create or still own a container: launches under way, sessions,
\* and cleanups that will delete one.
ContainersOf(i) ==
    {<<"launch", t.gen>> : t \in {u \in tasks : u.kind = "launch"
                                                   /\ IdentOf[u.ver] = i}}
      \cup {<<"session", a.gen>> : a \in {b \in active : IdentOf[b.ver] = i}}
      \cup {<<"cleanup", j.gen>> : j \in {k \in cleanup : k.ident = i}}

\* No container is launched while another instance of its runtime identity is
\* being launched, runs or is being deleted: a cleanup deletes by name.
IdentityExclusive == \A i \in Idents : Cardinality(ContainersOf(i)) <= 1

\* The reservations that operations, sessions and cleanups hold.
Holders == {op[p].res : p \in {q \in Profiles : op[q] # None}}
             \cup {a.res : a \in active} \cup {j.res : j \in cleanup}

\* An identity is reserved exactly as long as something holds its reservation: a
\* RuntimeReservation is never dropped early and never left in the table.
ReservationSound ==
    \A i \in Idents :
      identities[i] # None <=> \E r \in Holders : /\ r # None /\ r.ident = i
                                                  /\ Owner(r) = identities[i]

\* A check is only ever used for the operation and the profile contents it
\* checked.
LaunchChecked ==
    /\ \A p \in Profiles : validated[p] # None =>
         op[p] # None /\ op[p].ver = validated[p] /\ op[p].res # None
    /\ \A t \in tasks : t.kind = "launch" => op[t.profile].ver = t.ver

\* A deleted profile has nothing left that could launch or run it.
DeletedNeverLaunches ==
    \A p \in Profiles : config[p] = None =>
      /\ ~Leased(p) /\ ~WorkerPending(p)
      /\ validated[p] = None
      /\ \A t \in tasks : t.profile = p => t.kind \in {"resume", "stop"}
      /\ \A i \in Idents : identities[i] # None => identities[i].profile # p

\* A launch that was cancelled, at whichever stage, never becomes a session.
CancelledNeverRuns ==
    [][\A p \in Profiles :
         op[p] # None /\ op[p].cancelled =>
           ~\E a \in active' \ active : a.gen = op[p].gen]_vars

\* The lease of a profile is retained by checks, launches, instances and
\* asynchronous cleanup: an operation has a worker or a message that moves it on.
LeaseHasWork ==
    \A p \in Profiles : op[p] # None =>
      \E t \in tasks : /\ t.profile = p /\ t.gen = op[p].gen
                       /\ t.kind \in {"check", "resume", "display", "launch"}

\* A cancelled launch is rolled back and its identity becomes free again.
CancelReleases ==
    \A p \in Profiles, g \in 1 .. MaxGen :
      (CurrentOperation(p, g) /\ op[p].cancelled)
        ~> \A i \in Idents : identities[i] # [profile |-> p, gen |-> g]

\* No display slot, display worker or runtime identity is ever used by two: by sessions that
\* run, by launches on their way and by cleanups that delete by name.
NothingShared ==
    /\ SlotExclusive
    /\ OneDisplayPerSlot
    /\ IdentityExclusive

\* The tables of the App agree with each other and with the workers in flight: an identity is
\* reserved exactly while something holds it, a launch is of what was checked, and nothing of
\* a deleted profile can still be launched.
SessionsInvariant ==
    /\ TypeOK
    /\ WorkersTracked
    /\ ReservationSound
    /\ LaunchChecked
    /\ DeletedNeverLaunches
=============================================================================
