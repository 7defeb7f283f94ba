----------------------------- MODULE ImageCheck -----------------------------
(***************************************************************************)
(* check_session and the image probe of container_sessions.rs: checks of    *)
(* several profiles at once, each asking the runtime in turn, and one       *)
(* process-wide lock around the probe container.                           *)
(*                                                                         *)
(* A runtime command answers, or fails (an error, a timeout) without        *)
(* telling anything.  The probe's container belongs to the daemon and can   *)
(* outlive the command that was killed.                                    *)
(***************************************************************************)
EXTENDS Integers, FiniteSets

CONSTANTS
    Checkers,     \* profiles checked at the same time
    CheckRuntimes,\* their runtimes: subset of {"apple", "docker", "orb"}
    NoCheck

ASSUME ImageCheckAssumption ==
    /\ IsFiniteSet(Checkers) /\ CheckRuntimes \subseteq {"apple", "docker", "orb"}
    /\ NoCheck \notin Checkers \union {"ok", "ImageUnavailable", "ImageNotGuiReady"}

VARIABLES
    facts,      \* what is true on this Mac: [image, tools, audio], and the runtime checked
    check,      \* checker -> [pc, report, warned]
    probeLock,  \* PROBE_LOCK: its holder
    vms,        \* checker -> its probe container: "none", "run"
    leaked      \* checkers whose cleanup of the probe container failed

imageCheckVars == <<facts, check, probeLock, vms, leaked>>

ImageCheckInit ==
    /\ facts \in [image : BOOLEAN, tools : BOOLEAN, audio : BOOLEAN, runtime : CheckRuntimes]
    /\ check = [c \in Checkers |-> [pc |-> "idle", report |-> NoCheck, warned |-> FALSE]]
    /\ probeLock = NoCheck /\ leaked = {}
    /\ vms = [c \in Checkers |-> "none"]

-----------------------------------------------------------------------------
Goes(c, pc) == check' = [check EXCEPT ![c].pc = pc]
Report(c, report) == check' = [check EXCEPT ![c] = [@ EXCEPT !.pc = "done", !.report = report]]

\* validate_session, both executables and waypipe's version; then, except for OrbStack
\* (which a question would wake), the Apple service.
CheckStart(c) ==
    /\ check[c].pc = "idle"
    /\ \/ \E report \in {"InvalidSession", "MissingCommand"} : Report(c, report)
       \/ facts.runtime = "apple" /\ Report(c, "RuntimeNotReady")
       \/ facts.runtime = "orb"
          /\ check' = [check EXCEPT ![c] = [@ EXCEPT !.pc = "running", !.warned = TRUE]]
       \/ facts.runtime # "orb" /\ Goes(c, "image")
    /\ UNCHANGED <<facts, probeLock, vms, leaked>>

\* inspect_image: only the runtime's own words make an image missing.
InspectImage(c) ==
    /\ check[c].pc = "image"
    /\ \/ facts.image /\ Goes(c, "lock")
       \/ ~facts.image /\ Report(c, "ImageUnavailable")
       \/ Report(c, "RuntimeNotReady")
    /\ UNCHANGED <<facts, probeLock, vms, leaked>>

\* The lock is tried for six seconds.
TakeProbeLock(c) ==
    /\ check[c].pc = "lock" /\ probeLock = NoCheck
    /\ probeLock' = c /\ Goes(c, "probe")
    /\ UNCHANGED <<facts, vms, leaked>>

ProbeLockTimesOut(c) ==
    /\ check[c].pc = "lock" /\ probeLock # NoCheck
    /\ Report(c, "RuntimeNotReady")
    /\ UNCHANGED <<facts, probeLock, vms, leaked>>

\* The daemon starts the probe container, and removes it when its script ends.
ProbeStarts(c) ==
    /\ check[c].pc = "probe" /\ vms[c] = "none"
    /\ vms' = [vms EXCEPT ![c] = "run"]
    /\ UNCHANGED <<facts, check, probeLock, leaked>>

\* Its output tells the tools, when the script started; audio is only a warning.
ProbeAnswers(c) ==
    /\ check[c].pc = "probe" /\ vms[c] = "run"
    /\ vms' = [vms EXCEPT ![c] = "none"]
    /\ probeLock' = NoCheck
    /\ \/ /\ facts.tools
          /\ check' = [check EXCEPT ![c] = [@ EXCEPT !.pc = "running",
                                            !.warned = facts.runtime = "apple" /\ ~facts.audio]]
       \/ ~facts.tools /\ Report(c, "ImageNotGuiReady")
       \/ Report(c, "RuntimeNotReady")
    /\ UNCHANGED <<facts, leaked>>

\* Mutated form: the lock is released before the cleanup.
ProbeFailsUnlocked(c) ==
    /\ check[c].pc = "probe"
    /\ Goes(c, "inspect") /\ probeLock' = NoCheck
    /\ UNCHANGED <<facts, vms, leaked>>

\* The command fails or runs for sixty seconds: its container is cleaned up.
ProbeFails(c) ==
    /\ check[c].pc = "probe"
    /\ Goes(c, "inspect")
    /\ UNCHANGED <<facts, probeLock, vms, leaked>>

\* cleanup_owned_instance, whose result nobody looks at; the lock goes with the call.
ProbeCleanup(c) ==
    /\ \/ /\ check[c].pc = "inspect" /\ vms[c] = "run"
          /\ Goes(c, "delete") /\ UNCHANGED <<vms, probeLock, leaked>>
       \/ /\ check[c].pc = "inspect" /\ vms[c] = "none"
          /\ Report(c, "RuntimeNotReady") /\ probeLock' = NoCheck /\ UNCHANGED <<vms, leaked>>
       \/ /\ check[c].pc = "delete"
          /\ vms' = [vms EXCEPT ![c] = "none"]
          /\ Report(c, "RuntimeNotReady") /\ probeLock' = NoCheck /\ UNCHANGED leaked
       \/ /\ check[c].pc \in {"inspect", "delete"} /\ vms[c] = "run"
          /\ Report(c, "RuntimeNotReady") /\ probeLock' = NoCheck
          /\ leaked' = leaked \union {c} /\ UNCHANGED vms
    /\ UNCHANGED facts

\* A container left behind ends with its script.
LeakedEnds(c) ==
    /\ c \in leaked /\ vms[c] = "run"
    /\ vms' = [vms EXCEPT ![c] = "none"] /\ leaked' = leaked \ {c}
    /\ UNCHANGED <<facts, check, probeLock>>

\* runtime_container_is_running, then the report.
QueryState(c) ==
    /\ check[c].pc = "running"
    /\ \/ Report(c, "ok")
       \/ facts.runtime # "orb" /\ Report(c, "RuntimeNotReady")
    /\ UNCHANGED <<facts, probeLock, vms, leaked>>

CheckAgain(c) ==
    /\ check[c].pc = "done" /\ c \notin leaked
    /\ check' = [check EXCEPT ![c] = [pc |-> "idle", report |-> NoCheck, warned |-> FALSE]]
    /\ UNCHANGED <<facts, probeLock, vms, leaked>>

CheckStep(c) ==
    \/ InspectImage(c) \/ TakeProbeLock(c) \/ ProbeLockTimesOut(c)
    \/ ProbeFails(c) \/ ProbeAnswers(c) \/ ProbeCleanup(c) \/ QueryState(c)

ImageCheckNext ==
    \E c \in Checkers : CheckStart(c) \/ CheckStep(c) \/ ProbeStarts(c) \/ LeakedEnds(c) \/ CheckAgain(c)

ImageCheckFairness == \A c \in Checkers : WF_imageCheckVars(CheckStep(c))
ImageCheckSpec == ImageCheckInit /\ [][ImageCheckNext]_imageCheckVars /\ ImageCheckFairness

-----------------------------------------------------------------------------
\* A report names a cause only when the runtime established it: an unanswered
\* question is never reported as a missing image or tool, and a passed check has
\* seen both (OrbStack is not asked, and the report says so).
ReportsAreTrue ==
    \A c \in Checkers :
       /\ check[c].report = "ImageUnavailable" => ~facts.image
       /\ check[c].report = "ImageNotGuiReady" => facts.image /\ ~facts.tools
       /\ check[c].report = "ok" =>
            (facts.image /\ facts.tools) \/ (facts.runtime = "orb" /\ check[c].warned)

\* Two probe containers run at once only when the cleanup of one failed: the lock is
\* held until the container is gone or its removal was refused.
ProbesExclude ==
    Cardinality({c \in Checkers : vms[c] = "run"} \ leaked) <= 1

\* Every check ends, also when a probe hangs or the lock is never free in time.
ChecksEnd == \A c \in Checkers : (check[c].pc = "image") ~> (check[c].pc = "done")

\* A report of the image check is true, and the probe containers of two checks exclude each
\* other.
ImageCheckInvariant ==
    /\ ReportsAreTrue
    /\ ProbesExclude
=============================================================================
