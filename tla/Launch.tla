-------------------------------- MODULE Launch --------------------------------
(***************************************************************************)
(* One profile's container: launch_checked_session, the relay helper an     *)
(* Apple launch starts through waypipe, and the cleanup that kills the      *)
(* processes and deletes the container by its owner label                   *)
(* (container_sessions.rs, container_identity.rs, session_lifecycle.rs).    *)
(*                                                                         *)
(* The runtime daemons keep one container per name; somebody else may       *)
(* create and remove one under this profile's name and switch the Docker    *)
(* context at any time.  A daemon handles a request when it is made, and    *)
(* killing a command that is attached to a container leaves the container.  *)
(***************************************************************************)
EXTENDS Integers, FiniteSets

CONSTANTS
    Runtimes,     \* the runtimes tried: subset of {"apple", "docker", "orb"}
    Endpoints,    \* Docker endpoints; the first context is one of them
    MaxAttempts,  \* bound: launches of the profile
    MaxForeign,   \* bound: containers others create under the name
    MaxLaunchFailures,  \* bound: commands of a cleanup that fail
    NoLaunch

ASSUME LaunchAssumption ==
    /\ Runtimes \subseteq {"apple", "docker", "orb"} /\ Endpoints # {}
    /\ {MaxAttempts, MaxForeign, MaxLaunchFailures} \subseteq Nat

VARIABLES
    runtime,    \* the profile's runtime
    context,    \* the endpoint the Docker command line uses now
    boxes,      \* the container with the profile's name, per endpoint
    launch,     \* the launch and its session: [n, pc, endpoint, waypipe, cli]
    helpers,    \* the relay helper of each attempt: [pc, cli]
    sweep,      \* cleanup_owned_instance under way, per caller: [pc, target]
    freed,      \* attempts whose cleanup reported success
    launchUse   \* bounded inputs used: [foreign, switches, failures, ids]

launchVars == <<runtime, context, boxes, launch, helpers, sweep, freed, launchUse>>

Attempts == 1 .. MaxAttempts
Foreign == 0
Idle == [pc |-> "none", target |-> NoLaunch]
\* The endpoint an attempt works with; only Docker has more than one.
Home == CHOOSE e \in Endpoints : TRUE

LaunchTypeOK ==
    /\ runtime \in Runtimes /\ context \in Endpoints
    /\ \A e \in Endpoints : boxes[e] # NoLaunch =>
         boxes[e].owner \in 0 .. MaxAttempts /\ boxes[e].id \in 1 .. launchUse.ids
    /\ launch.n \in 0 .. MaxAttempts
    /\ launch.pc \in {"idle", "query", "prepare", "spawn", "socket", "running", "kill", "sweep"}
    /\ launch.waypipe \in {"none", "up"} /\ launch.cli \in {"none", "start", "attached"}
    /\ \A a \in Attempts : /\ helpers[a].pc \in {"none", "publish", "ready", "sweep", "stdio", "bridge", "end"}
                           /\ helpers[a].cli \in {"none", "start", "attached"}
                           /\ sweep[a].pc \in {"none", "inspect", "delete"}
    /\ sweep[Foreign].pc \in {"none", "inspect", "delete"}
    /\ freed \subseteq Attempts

LaunchInit ==
    /\ runtime \in Runtimes /\ context = Home
    /\ boxes = [e \in Endpoints |-> NoLaunch]
    /\ launch = [n |-> 0, pc |-> "idle", endpoint |-> Home, waypipe |-> "none", cli |-> "none"]
    /\ helpers = [a \in Attempts |-> [pc |-> "none", cli |-> "none"]]
    /\ sweep = [c \in 0 .. MaxAttempts |-> Idle]
    /\ freed = {}
    /\ launchUse = [foreign |-> 0, switches |-> 0, failures |-> 0, ids |-> 0]

-----------------------------------------------------------------------------
(***************************************************************************)
(* The runtime daemons and other people.                                   *)
(***************************************************************************)

Create(e, owner, running) ==
    /\ boxes[e] = NoLaunch
    /\ boxes' = [boxes EXCEPT ![e] = [owner |-> owner, id |-> launchUse.ids + 1, running |-> running]]
    /\ launchUse' = [launchUse EXCEPT !.ids = @ + 1, !.foreign = @ + (IF owner = Foreign THEN 1 ELSE 0)]

ForeignCreates(e, running) ==
    /\ launchUse.foreign < MaxForeign
    /\ runtime = "docker" \/ e = Home
    /\ Create(e, Foreign, running)
    /\ UNCHANGED <<runtime, context, launch, helpers, sweep, freed>>

\* A container ends, and the daemon removes it; a command attached to it ends with it.
BoxEnds(e) ==
    /\ boxes[e] # NoLaunch
    /\ boxes' = [boxes EXCEPT ![e] = NoLaunch]
    /\ launch' = IF boxes[e].owner = launch.n /\ launch.cli = "attached"
                 THEN [launch EXCEPT !.cli = "none"] ELSE launch
    /\ helpers' = [a \in Attempts |-> IF boxes[e].owner = a /\ helpers[a].cli = "attached"
                                      THEN [helpers[a] EXCEPT !.cli = "none"] ELSE helpers[a]]
    /\ UNCHANGED <<runtime, context, sweep, freed, launchUse>>

SwitchContext(e) ==
    /\ runtime = "docker" /\ e # context /\ launchUse.switches < 1
    /\ context' = e /\ launchUse' = [launchUse EXCEPT !.switches = @ + 1]
    /\ UNCHANGED <<runtime, boxes, launch, helpers, sweep, freed>>

-----------------------------------------------------------------------------
(***************************************************************************)
(* cleanup_owned_instance, called by c: the session (0) or the helper of    *)
(* an attempt.  It ends with "ok", "failed", or goes on to the deletion.    *)
(***************************************************************************)

\* deletion_target: the only container found must carry the attempt's label.
DeletionTarget(token, box) ==
    IF box.owner = token THEN box.id ELSE NoLaunch

Inspect(c, token, e, result) ==
    /\ sweep[c].pc = "inspect"
    /\ LET box == boxes[e]
       IN  \/ /\ runtime = "orb" \/ box = NoLaunch
              /\ result = "ok" /\ sweep' = [sweep EXCEPT ![c] = Idle] /\ UNCHANGED launchUse
           \/ /\ runtime # "orb" /\ box # NoLaunch /\ DeletionTarget(token, box) # NoLaunch
              /\ result = "go" /\ UNCHANGED launchUse
              /\ sweep' = [sweep EXCEPT ![c] = [pc |-> "delete", target |-> DeletionTarget(token, box)]]
           \/ /\ runtime # "orb" /\ box # NoLaunch /\ DeletionTarget(token, box) = NoLaunch
              /\ result = "failed" /\ sweep' = [sweep EXCEPT ![c] = Idle] /\ UNCHANGED launchUse
           \/ /\ runtime # "orb" /\ launchUse.failures < MaxLaunchFailures
              /\ result = "failed" /\ sweep' = [sweep EXCEPT ![c] = Idle]
              /\ launchUse' = [launchUse EXCEPT !.failures = @ + 1]
    /\ UNCHANGED boxes

\* The Apple command names the container, the Docker one its immutable id.
Delete(c, e, result) ==
    /\ sweep[c].pc = "delete"
    /\ sweep' = [sweep EXCEPT ![c] = Idle]
    /\ LET box == boxes[e]
           hit == IF box = NoLaunch THEN FALSE ELSE runtime = "apple" \/ box.id = sweep[c].target
       IN  \/ /\ hit /\ result = "ok"
              /\ boxes' = [boxes EXCEPT ![e] = NoLaunch] /\ UNCHANGED launchUse
           \/ /\ ~hit /\ result = "failed" /\ UNCHANGED <<boxes, launchUse>>
           \/ /\ launchUse.failures < MaxLaunchFailures /\ result = "failed"
              /\ launchUse' = [launchUse EXCEPT !.failures = @ + 1] /\ UNCHANGED boxes

-----------------------------------------------------------------------------
(***************************************************************************)
(* launch_checked_session.                                                 *)
(***************************************************************************)
NoProcesses(l) == [l EXCEPT !.waypipe = "none", !.cli = "none"]
LaunchFailed(l) == [NoProcesses(l) EXCEPT !.pc = "idle"]

\* A fresh owner token, with the Docker endpoint of this moment.
StartAttempt ==
    /\ launch.pc = "idle" /\ launch.n < MaxAttempts
    /\ launch' = [launch EXCEPT !.n = @ + 1, !.pc = "query",
                                !.endpoint = IF runtime = "docker" THEN context ELSE Home]
    /\ UNCHANGED <<runtime, context, boxes, helpers, sweep, freed, launchUse>>

\* runtime_container_is_running: OrbStack is not asked; an error is not an absence.
QueryRunning ==
    /\ launch.pc = "query"
    /\ LET box == boxes[IF runtime = "docker" THEN context ELSE Home]
           runs == IF box = NoLaunch THEN FALSE ELSE runtime # "orb" /\ box.running
       IN  launch' \in {LaunchFailed(launch)} \union
              (IF runs THEN {} ELSE {[launch EXCEPT !.pc = "prepare"]})
    /\ UNCHANGED <<runtime, context, boxes, helpers, sweep, freed, launchUse>>

\* prepare_host_socket, then the waypipe client.
PrepareSocket ==
    /\ launch.pc = "prepare"
    /\ launch' \in {LaunchFailed(launch), [launch EXCEPT !.pc = "spawn"]}
    /\ UNCHANGED <<runtime, context, boxes, helpers, sweep, freed, launchUse>>

SpawnWaypipe ==
    /\ launch.pc = "spawn"
    /\ launch' \in {LaunchFailed(launch),
                    [launch EXCEPT !.waypipe = "up",
                                   !.pc = IF runtime = "apple" THEN "running" ELSE "socket"]}
    /\ UNCHANGED <<runtime, context, boxes, helpers, sweep, freed, launchUse>>

\* wait_for_socket: an exit and the timeout kill waypipe; then the container starts.
WaitForSocket ==
    /\ launch.pc = "socket"
    /\ launch' \in {LaunchFailed(launch), [launch EXCEPT !.pc = "running", !.cli = "start"]}
    /\ UNCHANGED <<runtime, context, boxes, helpers, sweep, freed, launchUse>>

\* docker run: creates the container at the endpoint of the attempt, or ends with an error.
RunContainer ==
    /\ launch.cli = "start"
    /\ \/ /\ Create(launch.endpoint, launch.n, TRUE)
          /\ launch' = [launch EXCEPT !.cli = "attached"]
       \/ /\ launch' = [launch EXCEPT !.cli = "none"] /\ UNCHANGED <<boxes, launchUse>>
    /\ UNCHANGED <<runtime, context, helpers, sweep, freed>>

-----------------------------------------------------------------------------
(***************************************************************************)
(* The relay helper: run_container_relay.                                  *)
(***************************************************************************)
Helper(a, h) == helpers' = [helpers EXCEPT ![a] = h]

\* waypipe starts the helper; its first transport is the published socket when
\* supported, else stdio.  The runtime command starts with it.
StartHelper ==
    /\ runtime = "apple" /\ launch.pc = "running" /\ launch.waypipe = "up"
    /\ helpers[launch.n].pc = "none"
    /\ \E transport \in {"publish", "stdio"} : Helper(launch.n, [pc |-> transport, cli |-> "none"])
    /\ UNCHANGED <<runtime, context, boxes, launch, sweep, freed, launchUse>>

\* container run: spawned by the helper, creates the container or ends.
HelperRuns(a) ==
    /\ helpers[a].pc \in {"publish", "stdio"} /\ helpers[a].cli = "none"
    /\ Helper(a, [pc |-> IF helpers[a].pc = "publish" THEN "ready" ELSE "bridge", cli |-> "start"])
    /\ UNCHANGED <<runtime, context, boxes, launch, sweep, freed, launchUse>>

HelperCreates(a) ==
    /\ helpers[a].cli = "start"
    /\ \/ Create(Home, a, TRUE) /\ Helper(a, [helpers[a] EXCEPT !.cli = "attached"])
       \/ Helper(a, [helpers[a] EXCEPT !.cli = "none"]) /\ UNCHANGED <<boxes, launchUse>>
    /\ UNCHANGED <<runtime, context, launch, sweep, freed>>

\* Readiness, connection and preamble: success needs a live container; a failure
\* kills the command and asks for the cleanup that must precede the stdio fallback.
PublishStarts(a) ==
    /\ helpers[a].pc = "ready"
    /\ \/ /\ helpers[a].cli = "attached"
          /\ Helper(a, [helpers[a] EXCEPT !.pc = "bridge"]) /\ UNCHANGED sweep
       \/ /\ Helper(a, [pc |-> "sweep", cli |-> "none"])
          /\ sweep' = [sweep EXCEPT ![a] = [pc |-> "inspect", target |-> NoLaunch]]
    /\ UNCHANGED <<runtime, context, boxes, launch, freed, launchUse>>

\* cleanup_before_stdio_fallback.
FallbackCleanup(a) ==
    /\ helpers[a].pc = "sweep"
    /\ \E result \in {"ok", "failed", "go"} :
         /\ Inspect(a, a, Home, result) \/ Delete(a, Home, result)
         /\ helpers' = CASE result = "go" -> helpers
                         [] result = "ok" -> [helpers EXCEPT ![a] = [pc |-> "stdio", cli |-> "none"]]
                         [] OTHER -> [helpers EXCEPT ![a].pc = "end"]
    /\ UNCHANGED <<runtime, context, launch, freed>>

\* The relay ends with its container or on a transport error: the command is killed.
HelperEnds(a) ==
    /\ helpers[a].pc = "bridge"
    /\ Helper(a, [pc |-> "end", cli |-> "none"])
    /\ UNCHANGED <<runtime, context, boxes, launch, sweep, freed, launchUse>>

-----------------------------------------------------------------------------
(***************************************************************************)
(* The end of a session: a cancelled launch, a stop, or an exit that the    *)
(* reaper saw.  Waypipe and the container command are killed, then the      *)
(* container is looked for; a failure keeps everything and is retried.      *)
(***************************************************************************)
EndSession ==
    /\ launch.pc = "running"
    /\ launch' = [launch EXCEPT !.pc = "kill"]
    /\ UNCHANGED <<runtime, context, boxes, helpers, sweep, freed, launchUse>>

KillProcesses ==
    /\ launch.pc = "kill"
    /\ launch' = [NoProcesses(launch) EXCEPT !.pc = "sweep"]
    /\ sweep' = [sweep EXCEPT ![Foreign] = [pc |-> "inspect", target |-> NoLaunch]]
    /\ UNCHANGED <<runtime, context, boxes, helpers, freed, launchUse>>

\* Mutated form: the container is looked for at the current context.
SessionCleanupElsewhere ==
    /\ launch.pc = "sweep"
    /\ \E result \in {"ok", "failed", "go"} :
         /\ Inspect(Foreign, launch.n, context, result) \/ Delete(Foreign, context, result)
         /\ launch' = CASE result = "go" -> launch
                        [] result = "ok" -> [launch EXCEPT !.pc = "idle"]
                        [] OTHER -> [launch EXCEPT !.pc = "kill"]
         /\ freed' = IF result = "ok" THEN freed \union {launch.n} ELSE freed
    /\ UNCHANGED <<runtime, context, helpers>>

SessionCleanup ==
    /\ launch.pc = "sweep"
    /\ \E result \in {"ok", "failed", "go"} :
         /\ Inspect(Foreign, launch.n, launch.endpoint, result) \/ Delete(Foreign, launch.endpoint, result)
         /\ launch' = CASE result = "go" -> launch
                        [] result = "ok" -> [launch EXCEPT !.pc = "idle"]
                        [] OTHER -> [launch EXCEPT !.pc = "kill"]
         /\ freed' = IF result = "ok" THEN freed \union {launch.n} ELSE freed
    /\ UNCHANGED <<runtime, context, helpers>>

LaunchNext ==
    \/ \E e \in Endpoints, running \in BOOLEAN : ForeignCreates(e, running)
    \/ \E e \in Endpoints : BoxEnds(e) \/ SwitchContext(e)
    \/ StartAttempt \/ QueryRunning \/ PrepareSocket \/ SpawnWaypipe \/ WaitForSocket
    \/ RunContainer \/ StartHelper
    \/ \E a \in Attempts :
         HelperRuns(a) \/ HelperCreates(a) \/ PublishStarts(a) \/ FallbackCleanup(a) \/ HelperEnds(a)
    \/ EndSession \/ KillProcesses \/ SessionCleanup

LaunchFairness == WF_launchVars(KillProcesses) /\ WF_launchVars(SessionCleanup)
LaunchSpec == LaunchInit /\ [][LaunchNext]_launchVars /\ LaunchFairness

-----------------------------------------------------------------------------
\* A launch that failed left no process and no container of its attempt: every
\* error return of launch_checked_session comes before the container is asked for,
\* or after waypipe was killed.
FailedLaunchLeavesNothing ==
    launch.pc = "idle" /\ launch.n \notin freed =>
       /\ launch.waypipe = "none" /\ launch.cli = "none"
       /\ \A e \in Endpoints : boxes[e] # NoLaunch => launch.n = 0 \/ boxes[e].owner # launch.n

\* The stdio fallback starts only when the container of the failed published
\* transport is gone, so a launch never runs its program twice.
FallbackStartsAlone ==
    \A a \in Attempts : helpers[a].pc = "stdio" => \A e \in Endpoints :
       boxes[e] # NoLaunch => boxes[e].owner # a

\* A cleanup that reported success leaves no container of the attempt at the endpoint
\* it was created at, whatever the current Docker context is; for Apple Container
\* one may appear while the attempt's helper, which is not killed, still runs.
ReleasedMeansGone ==
    \A a \in freed, e \in Endpoints :
       boxes[e] # NoLaunch /\ boxes[e].owner = a =>
          \/ runtime = "orb"
          \/ runtime = "apple" /\ helpers[a].pc # "none"

\* The cleanup of an ended session ends: it is retried until it succeeds, and only a
\* foreign container under the name can make it fail for ever.
CleanupEnds ==
    (launch.pc = "kill") ~> (launch.pc = "idle" \/ \E e \in Endpoints :
                                boxes[e] # NoLaunch /\ boxes[e].owner # launch.n)

\* A launch that failed and a cleanup that succeeded leave nothing behind, and the fallback
\* never runs beside what it replaces.
LaunchInvariant ==
    /\ LaunchTypeOK
    /\ FailedLaunchLeavesNothing
    /\ FallbackStartsAlone
    /\ ReleasedMeansGone
=============================================================================
