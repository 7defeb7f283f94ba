--------------------------- MODULE ResourceProofs ---------------------------
(***************************************************************************)
(* Proofs about what the program runs on the host: a captured runtime      *)
(* command (RuntimeCommand), the image checks and their probe containers   *)
(* (ImageCheck), the latency trace (LatencyTrace), the audio worker        *)
(* (Audio), a profile's container with its relay helpers (Launch) and, at  *)
(* the end, the cleanup queue that takes over what is left (CleanupQueue), *)
(* for any number of checkers, recorders, buffers, endpoints, attempts,    *)
(* profiles and jobs and any limits.                                       *)
(***************************************************************************)
EXTENDS CleanupQueue, RuntimeCommand, ImageCheck, Audio, LatencyTrace, Launch, FiniteSetTheorems, TLAPS

-----------------------------------------------------------------------------
(* RuntimeCommand.                                                         *)

CommandType ==
    /\ leader \in {"none", "run", "exited", "killed", "reaped"} /\ kin \in {"none", "run", "dead"}
    /\ kinPipes \in BOOLEAN /\ wrote \in 0 .. MaxWritten
    /\ cap \in [pc : {"idle", "start", "loop", "drop", "reap", "returned"}, group : BOOLEAN,
                read : 0 .. MaxOutput, eof : BOOLEAN, stdin : 0 .. InputChunks,
                result : {"none", "ok", "timeout", "io"}]

\* Where the call is tells what has become of its child, and once the pipes have ended
\* nobody is left who could write.
CallFollowsChild ==
    /\ cap.pc \in {"start", "loop", "drop"} => leader # "reaped"
    /\ cap.pc \in {"idle", "start", "loop"} => cap.result = "none"
    /\ cap.pc \in {"drop", "reap"} => cap.result \in {"timeout", "io"}
    /\ cap.pc = "returned" => cap.result # "none"
    /\ cap.pc \in {"reap", "returned"} => leader # "run"
    /\ cap.pc \in {"reap", "returned"} /\ cap.result # "ok" => (cap.group => kin # "run")
    /\ cap.eof => cap.read = wrote
    /\ cap.result = "ok" => cap.eof /\ cap.stdin = 0

\* The inductive invariant.
CommandInv == CommandType /\ CallFollowsChild

LEMMA Limits ==
    InputChunks \in Nat /\ MaxOutput \in Nat /\ MaxWritten \in Nat /\ MaxWritten > MaxOutput
BY RuntimeCommandAssumption

LEMMA CommandInit == RuntimeCommandInit => CommandInv
<1> SUFFICES ASSUME RuntimeCommandInit PROVE CommandInv
  OBVIOUS
<1>1. CommandType
  <2>1. 0 \in 0 .. MaxWritten /\ 0 \in 0 .. MaxOutput /\ InputChunks \in 0 .. InputChunks
    BY Limits
  <2> QED
    BY <2>1 DEF RuntimeCommandInit, CommandType
<1>2. CallFollowsChild
  BY DEF RuntimeCommandInit, CallFollowsChild
<1> QED
  BY <1>1, <1>2 DEF CommandInv

LEMMA CommandStep == CommandInv /\ [RuntimeCommandNext]_runtimeCommandVars => CommandInv'
<1> SUFFICES ASSUME CommandInv, [RuntimeCommandNext]_runtimeCommandVars PROVE CommandInv'
  OBVIOUS
<1> USE Limits DEF CommandInv, CommandType, CallFollowsChild, Alive
<1>1. CASE Spawn
  BY <1>1 DEF Spawn
<1>2. ASSUME NEW keeps \in BOOLEAN, LeaderForks(keeps) PROVE CommandInv'
  BY <1>2 DEF LeaderForks
<1>3. CASE GroupWrites
  BY <1>3 DEF GroupWrites
<1>4. CASE LeaderExits
  BY <1>4 DEF LeaderExits
<1>5. CASE KinEnds
  BY <1>5 DEF KinEnds
<1>6. CASE KillTakesEffect
  BY <1>6 DEF KillTakesEffect
<1>7. CASE FindGroup
  <2>1. PICK group \in BOOLEAN : cap' = [cap EXCEPT !.pc = "loop", !.group = group]
    BY <1>7 DEF FindGroup
  <2>2. cap.pc = "start" /\ UNCHANGED <<leader, kin, kinPipes, wrote>>
    BY <1>7 DEF FindGroup
  <2>3. CommandType'
    BY <2>1, <2>2
  <2>4. CallFollowsChild'
    BY <2>1, <2>2
  <2> QED
    BY <2>3, <2>4
<1>8. CASE ReadPipe
  <2>1. CASE cap' = [cap EXCEPT !.read = @ + 1] /\ cap.read < wrote /\ cap.read < MaxOutput
    BY <1>8, <2>1 DEF ReadPipe
  <2>2. CASE Fail("io")
    BY <1>8, <2>2 DEF ReadPipe, Fail
  <2>3. CASE cap' = [cap EXCEPT !.eof = TRUE] /\ cap.read = wrote
    BY <1>8, <2>3 DEF ReadPipe
  <2> QED
    BY <1>8, <2>1, <2>2, <2>3 DEF ReadPipe
<1>9. CASE WriteInput
  <2>1. CASE cap' = [cap EXCEPT !.stdin = @ - 1]
    BY <1>9, <2>1 DEF WriteInput
  <2>2. CASE Fail("io")
    BY <1>9, <2>2 DEF WriteInput, Fail
  <2> QED
    BY <1>9, <2>1, <2>2 DEF WriteInput
<1>10. CASE TryWait
  BY <1>10 DEF TryWait
<1>11. CASE Deadline
  BY <1>11 DEF Deadline, Fail
<1>12. CASE KillGroup
  BY <1>12 DEF KillGroup
<1>13. CASE Reaped
  BY <1>13 DEF Reaped
<1>14. CASE DetachReaper
  BY <1>14 DEF DetachReaper
<1>15. CASE DetachedReaps
  BY <1>15 DEF DetachedReaps
<1>16. CASE UNCHANGED runtimeCommandVars
  BY <1>16 DEF runtimeCommandVars
<1> QED
  BY <1>1, <1>2, <1>3, <1>4, <1>5, <1>6, <1>7, <1>8, <1>9, <1>10, <1>11, <1>12, <1>13, <1>14,
     <1>15, <1>16 DEF RuntimeCommandNext

\* capture and capture_with_input, whatever the command, its descendants and the kernel do: the
\* group is signalled only while its pid is its own, Ok is the whole output, and an error leaves
\* nothing of the group running.
THEOREM CommandIsOwned == RuntimeCommandSpec => []CommandInvariant
<1>1. CommandInv => CommandInvariant
  BY DEF CommandInv, CommandType, CallFollowsChild, CommandInvariant, RuntimeCommandTypeOK,
         SignalsOwnGroup, OkIsWhole, ErrorLeavesNoProcess, Alive
<1> QED
  BY <1>1, CommandInit, CommandStep, PTL DEF RuntimeCommandSpec

-----------------------------------------------------------------------------
(* ImageCheck.                                                             *)

Reports == {"InvalidSession", "MissingCommand", "RuntimeNotReady", "ImageUnavailable",
            "ImageNotGuiReady", "ok", NoCheck}

CheckType ==
    /\ facts \in [image : BOOLEAN, tools : BOOLEAN, audio : BOOLEAN, runtime : CheckRuntimes]
    /\ check \in [Checkers -> [pc : {"idle", "image", "lock", "probe", "inspect", "delete",
                                     "running", "done"},
                               report : Reports, warned : BOOLEAN]]
    /\ probeLock \in Checkers \cup {NoCheck} /\ leaked \subseteq Checkers
    /\ vms \in [Checkers -> {"none", "run"}]

\* The lock is held from the probe to the end of its cleanup, and a probe container runs
\* under the lock unless its cleanup failed, after which its checker rests.
LockCoversProbe ==
    \A c \in Checkers :
       /\ probeLock = c <=> check[c].pc \in {"probe", "inspect", "delete"}
       /\ vms[c] = "run" => probeLock = c \/ c \in leaked
       /\ c \in leaked => check[c].pc = "done"

\* What a check has been told on its way to its report.
CheckKnows ==
    \A c \in Checkers :
       /\ check[c].pc # "done" => check[c].report = NoCheck
       /\ check[c].pc \in {"lock", "probe", "inspect", "delete"} => facts.image
       /\ check[c].pc = "running" =>
            (facts.image /\ facts.tools) \/ (facts.runtime = "orb" /\ check[c].warned)

\* The inductive invariant.
CheckInv == CheckType /\ LockCoversProbe /\ CheckKnows /\ ReportsAreTrue

LEMMA CheckInit == ImageCheckInit => CheckInv
BY ImageCheckAssumption
   DEF ImageCheckInit, CheckInv, CheckType, Reports, LockCoversProbe, CheckKnows, ReportsAreTrue

Phases == {"idle", "image", "lock", "probe", "inspect", "delete", "running", "done"}

\* Only the check c moves.
CheckMoved(c, pc, report, warned) ==
    /\ check' \in [Checkers -> [pc : Phases, report : Reports, warned : BOOLEAN]]
    /\ check'[c].pc = pc /\ check'[c].report = report /\ check'[c].warned = warned
    /\ \A d \in Checkers \ {c} : check'[d] = check[d]

LEMMA GoesMoves ==
  ASSUME CheckType, NEW c \in Checkers, NEW pc \in Phases, Goes(c, pc)
  PROVE  CheckMoved(c, pc, check[c].report, check[c].warned)
BY DEF CheckType, Goes, Phases, CheckMoved

LEMMA ReportMoves ==
  ASSUME CheckType, NEW c \in Checkers, NEW report \in Reports, Report(c, report)
  PROVE  CheckMoved(c, "done", report, check[c].warned)
BY DEF CheckType, Report, Phases, CheckMoved

\* It goes on to ask for the state of the container, with what it knows of the image.
LEMMA RunningMoves ==
  ASSUME CheckType, NEW c \in Checkers, NEW warned \in BOOLEAN,
         check' = [check EXCEPT ![c] = [@ EXCEPT !.pc = "running", !.warned = warned]]
  PROVE  CheckMoved(c, "running", check[c].report, warned)
BY DEF CheckType, Phases, CheckMoved

LEMMA CheckStepKeeps == CheckInv /\ [ImageCheckNext]_imageCheckVars => CheckInv'
<1> SUFFICES ASSUME CheckInv, [ImageCheckNext]_imageCheckVars PROVE CheckInv'
  OBVIOUS
<1> USE ImageCheckAssumption
    DEF CheckInv, LockCoversProbe, CheckKnows, ReportsAreTrue
<1>1. ASSUME NEW c \in Checkers, CheckStart(c) PROVE CheckInv'
  <2>1. UNCHANGED <<facts, probeLock, vms, leaked>> /\ check[c].pc = "idle"
    BY <1>1 DEF CheckStart
  <2>2. ASSUME NEW report \in {"InvalidSession", "MissingCommand", "RuntimeNotReady"},
               Report(c, report)
        PROVE  CheckInv'
    <3>1. report \in Reports
      BY <2>2 DEF Reports
    <3>2. CheckMoved(c, "done", report, check[c].warned)
      BY <2>2, <3>1, ReportMoves
    <3> QED
      BY <2>1, <2>2, <3>2 DEF CheckType, Phases, CheckMoved
  <2>3. CASE facts.runtime = "orb"
             /\ check' = [check EXCEPT ![c] = [@ EXCEPT !.pc = "running", !.warned = TRUE]]
    <3>1. CheckMoved(c, "running", check[c].report, TRUE)
      BY <2>3, RunningMoves
    <3> QED
      BY <2>1, <2>3, <3>1 DEF CheckType, Phases, CheckMoved
  <2>4. CASE Goes(c, "image")
    <3>1. CheckMoved(c, "image", check[c].report, check[c].warned)
      BY <2>4, GoesMoves DEF Phases
    <3> QED
      BY <2>1, <3>1 DEF CheckType, Phases, CheckMoved
  <2> QED
    BY <1>1, <2>2, <2>3, <2>4 DEF CheckStart
<1>2. ASSUME NEW c \in Checkers, InspectImage(c) PROVE CheckInv'
  <2>1. UNCHANGED <<facts, probeLock, vms, leaked>> /\ check[c].pc = "image"
    BY <1>2 DEF InspectImage
  <2>2. CASE facts.image /\ Goes(c, "lock")
    <3>1. CheckMoved(c, "lock", check[c].report, check[c].warned)
      BY <2>2, GoesMoves DEF Phases
    <3> QED
      BY <2>1, <2>2, <3>1 DEF CheckType, Phases, CheckMoved
  <2>3. ASSUME NEW report \in {"ImageUnavailable", "RuntimeNotReady"}, Report(c, report),
               report = "ImageUnavailable" => ~facts.image
        PROVE  CheckInv'
    <3>1. report \in Reports
      BY <2>3 DEF Reports
    <3>2. CheckMoved(c, "done", report, check[c].warned)
      BY <2>3, <3>1, ReportMoves
    <3> QED
      BY <2>1, <2>3, <3>2 DEF CheckType, Phases, CheckMoved
  <2> QED
    BY <1>2, <2>2, <2>3 DEF InspectImage
<1>3. ASSUME NEW c \in Checkers, TakeProbeLock(c) PROVE CheckInv'
  <2>1. CheckMoved(c, "probe", check[c].report, check[c].warned)
    BY <1>3, GoesMoves DEF TakeProbeLock, Phases
  <2>2. /\ check[c].pc = "lock" /\ probeLock = NoCheck /\ probeLock' = c
        /\ UNCHANGED <<facts, vms, leaked>>
    BY <1>3 DEF TakeProbeLock
  <2>3. CheckType' /\ LockCoversProbe'
    BY <2>1, <2>2 DEF CheckType, Phases, CheckMoved
  <2>4. CheckKnows' /\ ReportsAreTrue'
    BY <2>1, <2>2 DEF CheckType, CheckMoved
  <2> QED
    BY <2>3, <2>4
<1>4. ASSUME NEW c \in Checkers, ProbeLockTimesOut(c) PROVE CheckInv'
  <2>1. CheckMoved(c, "done", "RuntimeNotReady", check[c].warned)
    BY <1>4, ReportMoves DEF ProbeLockTimesOut, Reports
  <2> QED
    BY <1>4, <2>1 DEF ProbeLockTimesOut, CheckType, Phases, CheckMoved
<1>5. ASSUME NEW c \in Checkers, ProbeStarts(c) PROVE CheckInv'
  BY <1>5 DEF ProbeStarts, CheckType
<1>6. ASSUME NEW c \in Checkers, ProbeAnswers(c) PROVE CheckInv'
  <2>1. /\ UNCHANGED <<facts, leaked>> /\ check[c].pc = "probe"
        /\ probeLock' = NoCheck /\ vms' = [vms EXCEPT ![c] = "none"]
    BY <1>6 DEF ProbeAnswers
  <2>2. ASSUME NEW report \in {"ImageNotGuiReady", "RuntimeNotReady"}, Report(c, report),
               report = "ImageNotGuiReady" => ~facts.tools
        PROVE  CheckInv'
    <3>1. report \in Reports
      BY <2>2 DEF Reports
    <3>2. CheckMoved(c, "done", report, check[c].warned)
      BY <2>2, <3>1, ReportMoves
    <3>3. /\ vms' \in [Checkers -> {"none", "run"}] /\ vms'[c] = "none"
          /\ \A d \in Checkers \ {c} : vms'[d] = vms[d]
      BY <2>1 DEF CheckType
    <3>4. CheckType'
      BY <2>1, <3>2, <3>3 DEF CheckType, Phases, CheckMoved
    <3>5. LockCoversProbe'
      BY <2>1, <3>2, <3>3 DEF CheckType, Phases, CheckMoved
    <3>6. CheckKnows' /\ ReportsAreTrue'
      BY <2>1, <2>2, <3>2 DEF CheckMoved
    <3> QED
      BY <3>4, <3>5, <3>6
  <2>3. CASE /\ facts.tools
             /\ check' = [check EXCEPT ![c] = [@ EXCEPT !.pc = "running",
                                               !.warned = facts.runtime = "apple" /\ ~facts.audio]]
    <3> DEFINE warned == facts.runtime = "apple" /\ ~facts.audio
    <3>1. warned \in BOOLEAN
      OBVIOUS
    <3>2. check' = [check EXCEPT ![c] = [@ EXCEPT !.pc = "running", !.warned = warned]]
      BY <2>3
    <3> HIDE DEF warned
    <3> QED
      <4>1. CheckMoved(c, "running", check[c].report, warned)
        BY <3>1, <3>2, RunningMoves
      <4> QED
        BY <2>1, <2>3, <4>1 DEF CheckType, Phases, CheckMoved
  <2> QED
    BY <1>6, <2>2, <2>3 DEF ProbeAnswers
<1>7. ASSUME NEW c \in Checkers, ProbeFails(c) PROVE CheckInv'
  <2>1. CheckMoved(c, "inspect", check[c].report, check[c].warned)
    BY <1>7, GoesMoves DEF ProbeFails, Phases
  <2> QED
    BY <1>7, <2>1 DEF ProbeFails, CheckType, Phases, CheckMoved
<1>8. ASSUME NEW c \in Checkers, ProbeCleanup(c) PROVE CheckInv'
  <2>1. facts' = facts /\ check[c].pc \in {"inspect", "delete"}
    BY <1>8 DEF ProbeCleanup
  <2>2. CASE /\ check[c].pc = "inspect" /\ Goes(c, "delete")
             /\ UNCHANGED <<vms, probeLock, leaked>>
    <3>1. CheckMoved(c, "delete", check[c].report, check[c].warned)
      BY <2>2, GoesMoves DEF Phases
    <3> QED
      BY <2>1, <2>2, <3>1 DEF CheckType, Phases, CheckMoved
  <2>3. CASE /\ Report(c, "RuntimeNotReady") /\ probeLock' = NoCheck
             /\ leaked' = leaked /\ vms' = [vms EXCEPT ![c] = "none"]
    <3>1. CheckMoved(c, "done", "RuntimeNotReady", check[c].warned)
      BY <2>3, ReportMoves DEF Reports
    <3>2. /\ vms' \in [Checkers -> {"none", "run"}] /\ vms'[c] = "none"
          /\ \A d \in Checkers \ {c} : vms'[d] = vms[d]
      BY <2>3 DEF CheckType
    <3>3. CheckType'
      BY <2>1, <2>3, <3>1, <3>2 DEF CheckType, Phases, CheckMoved
    <3>4. LockCoversProbe'
      BY <2>1, <2>3, <3>1, <3>2 DEF CheckType, Phases, CheckMoved
    <3>5. CheckKnows' /\ ReportsAreTrue'
      BY <2>1, <2>3, <3>1 DEF CheckMoved
    <3> QED
      BY <3>3, <3>4, <3>5
  <2>4. CASE /\ Report(c, "RuntimeNotReady") /\ probeLock' = NoCheck
             /\ leaked' = leaked \union {c} /\ UNCHANGED vms
    <3>1. CheckMoved(c, "done", "RuntimeNotReady", check[c].warned)
      BY <2>4, ReportMoves DEF Reports
    <3> QED
      BY <2>1, <2>4, <3>1 DEF CheckType, Phases, CheckMoved
  <2>5. vms[c] = "none" /\ UNCHANGED vms => vms' = [vms EXCEPT ![c] = "none"]
    BY DEF CheckType
  <2> QED
    BY <1>8, <2>2, <2>3, <2>4, <2>5 DEF ProbeCleanup
<1>9. ASSUME NEW c \in Checkers, LeakedEnds(c) PROVE CheckInv'
  BY <1>9 DEF LeakedEnds, CheckType
<1>10. ASSUME NEW c \in Checkers, QueryState(c) PROVE CheckInv'
  <2>1. UNCHANGED <<facts, probeLock, vms, leaked>> /\ check[c].pc = "running"
    BY <1>10 DEF QueryState
  <2>2. ASSUME NEW report \in {"ok", "RuntimeNotReady"}, Report(c, report) PROVE CheckInv'
    <3>1. report \in Reports
      BY <2>2 DEF Reports
    <3>2. CheckMoved(c, "done", report, check[c].warned)
      BY <2>2, <3>1, ReportMoves
    <3>3. CheckType' /\ LockCoversProbe'
      BY <2>1, <2>2, <3>1, <3>2 DEF CheckType, Phases, CheckMoved
    <3>4. CheckKnows' /\ ReportsAreTrue'
      BY <2>1, <2>2, <3>2 DEF CheckType, CheckMoved
    <3> QED
      BY <3>3, <3>4
  <2> QED
    BY <1>10, <2>2 DEF QueryState
<1>11. ASSUME NEW c \in Checkers, CheckAgain(c) PROVE CheckInv'
  BY <1>11 DEF CheckAgain, CheckType, Reports
<1>12. CASE UNCHANGED imageCheckVars
  BY <1>12 DEF imageCheckVars, CheckType
<1> QED
  BY <1>1, <1>2, <1>3, <1>4, <1>5, <1>6, <1>7, <1>8, <1>9, <1>10, <1>11, <1>12
     DEF ImageCheckNext, CheckStep

\* check_session and its probes, for any number of profiles checked at once: a report names only
\* what the runtime established, and two probe containers run together only after a failed cleanup.
THEOREM ChecksAreTrue == ImageCheckSpec => []ImageCheckInvariant
<1>1. CheckInv => ImageCheckInvariant
  <2> SUFFICES ASSUME CheckInv PROVE ProbesExclude
    BY DEF CheckInv, ImageCheckInvariant
  <2>1. {c \in Checkers : vms[c] = "run"} \ leaked \subseteq {probeLock}
    BY DEF CheckInv, LockCoversProbe
  <2>2. IsFiniteSet({probeLock}) /\ Cardinality({probeLock}) = 1
    BY FS_Singleton
  <2> QED
    BY <2>1, <2>2, FS_Subset DEF ProbesExclude
<1> QED
  BY <1>1, CheckInit, CheckStepKeeps, PTL DEF ImageCheckSpec

-----------------------------------------------------------------------------
(* LatencyTrace.                                                           *)

\* The recorders of admitted calls.
Recording == {r \in Recorders : recorder[r].pc = "recording"}

\* What the worker has seen stays true to the end of the capture: closed and idle once it
\* drains, the queue empty once it is drained, no handle once it found them all dropped.
DrainedMeansDone ==
    /\ \A r \in Recorders : recorder[r].pc = "cas" => recorder[r].seen # NoTrace
    /\ tracer.pc \in {"drain", "final"} \/ summary # NoTrace =>
         admission.closed /\ Recording = {}
    /\ tracer.pc = "final" \/ summary # NoTrace => traceQueue = 0
    /\ tracer.pc = "final" /\ tracer.gone => Handles = {}
    /\ summary # NoTrace =>
         /\ tracer.pc \in {"closing", "sending", "ended"}
         /\ summary.dropped = losses.dropped /\ summary.rejected = losses.rejected
         /\ summary.known => summary.late = losses.late /\ Handles = {}

\* The count in the admission word is the number of admitted calls.
ActiveCounts == admission.active = Cardinality(Recording)

\* The inductive invariant.
TraceInv == LatencyTraceTypeOK /\ EventsAccounted /\ ActiveCounts /\ DrainedMeansDone

LEMMA RecordersFinite ==
  ASSUME NEW S \in SUBSET Recorders
  PROVE  /\ IsFiniteSet(S) /\ Cardinality(S) \in Nat /\ (Cardinality(S) = 0 <=> S = {})
         /\ \A r \in Recorders \ S : Cardinality(S \cup {r}) = Cardinality(S) + 1
         /\ \A r \in S : Cardinality(S \ {r}) = Cardinality(S) - 1
<1>1. IsFiniteSet(S)
  BY LatencyTraceAssumption, FS_Subset
<1> QED
  BY <1>1, FS_EmptySet, FS_CardinalityType, FS_AddElement, FS_RemoveElement

LEMMA NotRecordingType ==
    NotRecording \in [pc : {"out", "cas", "recording", "gone"},
                      seen : {NoTrace} \union [closed : BOOLEAN, active : Nat], left : 0 .. FanOut]
BY LatencyTraceAssumption DEF NotRecording

\* A capture that has not failed stays accounted for by a step that keeps the difference
\* between what was attempted and what is accounted for.
LEMMA AccountKept ==
  ASSUME LatencyTraceTypeOK, LatencyTraceTypeOK', EventsAccounted, CaptureFailed => CaptureFailed',
         attempted' + received + traceQueue + losses.dropped + losses.rejected
           = attempted + received' + traceQueue' + losses'.dropped + losses'.rejected
  PROVE  EventsAccounted'
<1>1. /\ attempted \in Nat /\ received \in Nat /\ traceQueue \in Nat
      /\ losses.dropped \in Nat /\ losses.rejected \in Nat
      /\ attempted' \in Nat /\ received' \in Nat /\ traceQueue' \in Nat
      /\ losses'.dropped \in Nat /\ losses'.rejected \in Nat /\ TraceCapacity \in Nat
  BY LatencyTraceAssumption DEF LatencyTraceTypeOK
<1> QED
  BY <1>1 DEF EventsAccounted

\* So does one by a step of the worker, which counts nothing.
LEMMA AccountMoved ==
  ASSUME LatencyTraceTypeOK, LatencyTraceTypeOK', EventsAccounted, CaptureFailed => CaptureFailed',
         received' + traceQueue' = received + traceQueue, attempted' = attempted, losses' = losses
  PROVE  EventsAccounted'
<1>1. /\ attempted \in Nat /\ received \in Nat /\ traceQueue \in Nat
      /\ losses.dropped \in Nat /\ losses.rejected \in Nat
      /\ received' \in Nat /\ traceQueue' \in Nat /\ attempted' \in Nat
  BY DEF LatencyTraceTypeOK
<1>2. losses'.dropped = losses.dropped /\ losses'.rejected = losses.rejected
  OBVIOUS
<1>3. attempted + received + traceQueue + losses.dropped + losses.rejected
        = attempted + received' + traceQueue' + losses.dropped + losses.rejected
  <2>1. attempted + received + traceQueue = attempted + (received + traceQueue)
    BY <1>1
  <2>2. attempted + received' + traceQueue' = attempted + (received' + traceQueue')
    BY <1>1
  <2> QED
    BY <2>1, <2>2
<1> QED
  BY <1>2, <1>3, AccountKept

\* The receiver goes with what is queued, and from now on the totals are unconfirmed.
LEMMA AccountLost ==
  ASSUME LatencyTraceTypeOK, EventsAccounted, ~CaptureFailed, CaptureFailed', traceQueue' = 0,
         attempted' = attempted, received' = received, losses' = losses
  PROVE  EventsAccounted'
<1>1. /\ attempted \in Nat /\ received \in Nat /\ traceQueue \in Nat
      /\ losses.dropped \in Nat /\ losses.rejected \in Nat /\ TraceCapacity \in Nat
      /\ traceQueue <= TraceCapacity
  BY LatencyTraceAssumption DEF LatencyTraceTypeOK
<1> QED
  BY <1>1 DEF EventsAccounted

LEMMA TraceInit == LatencyTraceInit => TraceInv
<1> SUFFICES ASSUME LatencyTraceInit PROVE TraceInv
  OBVIOUS
<1> USE LatencyTraceAssumption DEF LatencyTraceInit, NotRecording
<1>1. LatencyTraceTypeOK
  BY DEF LatencyTraceTypeOK
<1>2. EventsAccounted
  BY DEF EventsAccounted, CaptureFailed
<1>3. Recording = {}
  BY DEF Recording
<1>4. ActiveCounts
  BY <1>3, FS_EmptySet DEF ActiveCounts
<1>5. DrainedMeansDone
  BY DEF DrainedMeansDone
<1> QED
  BY <1>1, <1>2, <1>4, <1>5 DEF TraceInv

\* A closed capture admits nobody, and a call keeps what it loaded.
LEMMA RecorderSteps ==
  ASSUME TraceInv, NEW r \in Recorders,
         LoadAdmission(r) \/ RecorderStep(r) \/ DropHandle(r)
  PROVE  TraceInv'
<1> USE LatencyTraceAssumption
<1>0. /\ Recording \in SUBSET Recorders /\ recorder[r] \in [pc : {"out", "cas", "recording", "gone"},
                                 seen : {NoTrace} \union [closed : BOOLEAN, active : Nat],
                                 left : 0 .. FanOut]
      /\ admission \in [closed : BOOLEAN, active : Nat]
  BY DEF Recording, TraceInv, LatencyTraceTypeOK
<1>1. CASE LoadAdmission(r)
  <2>1. Recording' = Recording /\ Handles' = Handles
    BY <1>1 DEF LoadAdmission, NotRecording, Recording, Handles, TraceInv, LatencyTraceTypeOK
  <2>2. LatencyTraceTypeOK'
    <3>1. [NotRecording EXCEPT !.pc = "cas", !.seen = admission]
            \in [pc : {"out", "cas", "recording", "gone"},
                seen : {NoTrace} \union [closed : BOOLEAN, active : Nat], left : 0 .. FanOut]
      BY <1>0, NotRecordingType
    <3>2. calls' \in 0 .. MaxCalls
      BY <1>1 DEF LoadAdmission, TraceInv, LatencyTraceTypeOK
    <3> QED
      BY <1>1, <3>1, <3>2 DEF LoadAdmission, TraceInv, LatencyTraceTypeOK
  <2>3. DrainedMeansDone'
    BY <1>1, <2>1, <1>0 DEF LoadAdmission, NotRecording, DrainedMeansDone, TraceInv, LatencyTraceTypeOK
  <2> QED
    BY <1>1, <2>1, <2>2, <2>3 DEF LoadAdmission, TraceInv, EventsAccounted, CaptureFailed, ActiveCounts
<1>2. CASE EnterRefused(r)
  <2>1. Recording' = Recording /\ Handles' = Handles /\ r \in Handles
    BY <1>2 DEF EnterRefused, NotRecording, Recording, Handles, TraceInv, LatencyTraceTypeOK
  <2>2. LatencyTraceTypeOK'
    BY <1>2 DEF EnterRefused, NotRecording, TraceInv, LatencyTraceTypeOK
  <2>3. DrainedMeansDone'
    BY <1>2, <2>1 DEF EnterRefused, NotRecording, DrainedMeansDone, TraceInv, LatencyTraceTypeOK
  <2>4. EventsAccounted'
    BY <1>2 DEF EnterRefused, TraceInv, EventsAccounted, CaptureFailed, LatencyTraceTypeOK
  <2> QED
    BY <1>2, <2>1, <2>2, <2>3, <2>4 DEF EnterRefused, TraceInv, ActiveCounts
<1>3. CASE CompareExchange(r)
  <2>1. CASE admission = recorder[r].seen
    <3>1. /\ admission' = [admission EXCEPT !.active = @ + 1] /\ ~admission.closed
          /\ recorder[r].pc = "cas"
          /\ UNCHANGED <<traceQueue, losses, tracer, received, summary, completion, finisher, attempted, calls>>
      BY <1>3, <2>1 DEF CompareExchange
    <3>2. PICK n \in 1 .. FanOut : 
             recorder' = [recorder EXCEPT ![r] = [NotRecording EXCEPT !.pc = "recording", !.left = n]]
      BY <1>3, <2>1 DEF CompareExchange
    <3>3. Recording' = Recording \cup {r} /\ Handles' = Handles /\ r \notin Recording
      BY <3>1, <3>2 DEF NotRecording, Recording, Handles, TraceInv, LatencyTraceTypeOK
    <3>4. ActiveCounts'
      BY <3>1, <3>3, <1>0, RecordersFinite DEF TraceInv, ActiveCounts
    <3>5. LatencyTraceTypeOK'
      <4>1. [NotRecording EXCEPT !.pc = "recording", !.left = n]
              \in [pc : {"out", "cas", "recording", "gone"},
                  seen : {NoTrace} \union [closed : BOOLEAN, active : Nat], left : 0 .. FanOut]
        <5>1. n \in 0 .. FanOut
          BY LatencyTraceAssumption
        <5> QED
          BY <5>1, NotRecordingType
      <4> QED
        BY <3>1, <3>2, <4>1 DEF TraceInv, LatencyTraceTypeOK
    <3>6. DrainedMeansDone'
      BY <3>1, <3>2, <3>3 DEF NotRecording, TraceInv, LatencyTraceTypeOK, DrainedMeansDone
    <3> QED
      BY <3>1, <3>4, <3>5, <3>6 DEF TraceInv, EventsAccounted, CaptureFailed
  <2>2. CASE admission # recorder[r].seen
    <3>1. /\ recorder' = [recorder EXCEPT ![r].seen = admission]
          /\ UNCHANGED <<admission, traceQueue, losses, tracer, received, summary, completion, finisher, attempted, calls>>
      BY <1>3, <2>2 DEF CompareExchange
    <3>2. Recording' = Recording /\ Handles' = Handles
      BY <3>1 DEF Recording, Handles, TraceInv, LatencyTraceTypeOK
    <3>3. LatencyTraceTypeOK'
      BY <3>1 DEF TraceInv, LatencyTraceTypeOK
    <3>4. DrainedMeansDone'
      BY <3>1, <3>2, <1>0 DEF TraceInv, LatencyTraceTypeOK, DrainedMeansDone
    <3> QED
      BY <3>1, <3>2, <3>3, <3>4 DEF TraceInv, EventsAccounted, CaptureFailed, ActiveCounts
  <2> QED
    BY <2>1, <2>2
<1>4. CASE EnqueueEvent(r)
  <2>1. Recording' = Recording /\ Handles' = Handles /\ r \in Recording
    BY <1>4 DEF EnqueueEvent, Recording, Handles, TraceInv, LatencyTraceTypeOK
  <2>2. /\ recorder' \in [Recorders -> [pc : {"out", "cas", "recording", "gone"},
                                 seen : {NoTrace} \union [closed : BOOLEAN, active : Nat],
                                 left : 0 .. FanOut]]
        /\ \A s \in Recorders : recorder'[s].pc = recorder[s].pc /\ recorder'[s].seen = recorder[s].seen
    BY <1>4 DEF EnqueueEvent, TraceInv, LatencyTraceTypeOK
  <2>3. /\ UNCHANGED <<admission, tracer, received, summary, completion, finisher, calls>>
        /\ attempted' = attempted + 1
    BY <1>4 DEF EnqueueEvent
  <2>4. CASE losses' = [losses EXCEPT !.rejected = @ + 1] /\ UNCHANGED traceQueue
    <3>1. LatencyTraceTypeOK' /\ ActiveCounts' /\ DrainedMeansDone'
      BY <2>1, <2>2, <2>3, <2>4
         DEF TraceInv, LatencyTraceTypeOK, ActiveCounts, DrainedMeansDone
    <3>2. attempted' + received + traceQueue + losses.dropped + losses.rejected
            = attempted + received' + traceQueue' + losses'.dropped + losses'.rejected
      BY <2>3, <2>4 DEF TraceInv, LatencyTraceTypeOK
    <3>3. EventsAccounted'
      BY <2>3, <3>1, <3>2, AccountKept DEF TraceInv, CaptureFailed
    <3> QED
      BY <3>1, <3>3 DEF TraceInv
  <2>5. CASE losses' = [losses EXCEPT !.dropped = @ + 1] /\ UNCHANGED traceQueue
    <3>1. LatencyTraceTypeOK' /\ ActiveCounts' /\ DrainedMeansDone'
      BY <2>1, <2>2, <2>3, <2>5
         DEF TraceInv, LatencyTraceTypeOK, ActiveCounts, DrainedMeansDone
    <3>2. attempted' + received + traceQueue + losses.dropped + losses.rejected
            = attempted + received' + traceQueue' + losses'.dropped + losses'.rejected
      BY <2>3, <2>5 DEF TraceInv, LatencyTraceTypeOK
    <3>3. EventsAccounted'
      BY <2>3, <3>1, <3>2, AccountKept DEF TraceInv, CaptureFailed
    <3> QED
      BY <3>1, <3>3 DEF TraceInv
  <2>6. CASE ReceiverOpen /\ traceQueue < TraceCapacity /\ traceQueue' = traceQueue + 1 /\ UNCHANGED losses
    <3>1. LatencyTraceTypeOK' /\ ActiveCounts' /\ DrainedMeansDone'
      BY <2>1, <2>2, <2>3, <2>6
         DEF TraceInv, LatencyTraceTypeOK, ActiveCounts, DrainedMeansDone, ReceiverOpen
    <3>2. attempted' + received + traceQueue + losses.dropped + losses.rejected
            = attempted + received' + traceQueue' + losses'.dropped + losses'.rejected
      BY <2>3, <2>6 DEF TraceInv, LatencyTraceTypeOK
    <3>3. EventsAccounted'
      BY <2>3, <3>1, <3>2, AccountKept DEF TraceInv, CaptureFailed
    <3> QED
      BY <3>1, <3>3 DEF TraceInv
  <2> QED
    BY <1>4, <2>4, <2>5, <2>6 DEF EnqueueEvent
<1>5. CASE LeaveRecording(r)
  <2>1. Recording' = Recording \ {r} /\ Handles' = Handles /\ r \in Recording
    BY <1>5 DEF LeaveRecording, NotRecording, Recording, Handles, TraceInv, LatencyTraceTypeOK
  <2>2. admission' = [admission EXCEPT !.active = @ - 1] /\ admission.active = Cardinality(Recording)
    BY <1>5 DEF LeaveRecording, TraceInv, ActiveCounts
  <2>3. /\ Cardinality(Recording') = Cardinality(Recording) - 1
        /\ Cardinality(Recording') \in Nat /\ Cardinality(Recording) \in Nat
    BY <2>1, <1>0, RecordersFinite, Recording' \in SUBSET Recorders
  <2>4. ActiveCounts' /\ admission' \in [closed : BOOLEAN, active : Nat]
    BY <2>2, <2>3, <1>0 DEF ActiveCounts
  <2>5. LatencyTraceTypeOK'
    BY <1>5, <2>4 DEF LeaveRecording, NotRecording, TraceInv, LatencyTraceTypeOK
  <2>6. DrainedMeansDone'
    BY <1>5, <2>1, <2>2 DEF LeaveRecording, NotRecording, TraceInv, LatencyTraceTypeOK, DrainedMeansDone
  <2> QED
    BY <1>5, <2>4, <2>5, <2>6 DEF LeaveRecording, TraceInv, EventsAccounted, CaptureFailed
<1>6. CASE DropHandle(r)
  <2>1. Recording' = Recording /\ Handles' \subseteq Handles
    BY <1>6 DEF DropHandle, Recording, Handles, TraceInv, LatencyTraceTypeOK
  <2>2. LatencyTraceTypeOK'
    BY <1>6 DEF DropHandle, TraceInv, LatencyTraceTypeOK
  <2>3. DrainedMeansDone'
    BY <1>6, <2>1 DEF DropHandle, DrainedMeansDone, TraceInv, LatencyTraceTypeOK
  <2> QED
    BY <1>6, <2>1, <2>2, <2>3 DEF DropHandle, TraceInv, EventsAccounted, CaptureFailed, ActiveCounts
<1> QED
  BY <1>1, <1>2, <1>3, <1>4, <1>5, <1>6 DEF RecorderStep

\* The worker and the exiting loop never touch a recorder.
LEMMA WorkerSteps ==
  ASSUME TraceInv, 
         TracerStep \/ SinkFails \/ SinkHangs \/ WorkerPanics \/ FinishTimeout \/ FinishReturns
  PROVE  TraceInv'
<1>0. /\ recorder' = recorder /\ losses' = losses /\ attempted' = attempted /\ calls' = calls
      /\ Recording' = Recording /\ Handles' = Handles
  BY DEF TracerStep, LookAtAdmission, TakeEvent, CaptureDrained, ReceiveNothing, EventWritten, FinalStats,
         CloseOnExit, SendResult, SinkFails, SinkHangs, WorkerPanics, FinishTimeout, FinishReturns,
         Recording, Handles
<1>1. Recording \in SUBSET Recorders
  BY DEF Recording
<1>a. LatencyTraceTypeOK /\ EventsAccounted /\ ActiveCounts /\ DrainedMeansDone
  BY DEF TraceInv
<1> USE LatencyTraceAssumption, <1>0, <1>a DEF TracerAt, CloseCapture
<1> DEFINE Good == LatencyTraceTypeOK' /\ ActiveCounts' /\ DrainedMeansDone'
<1>k. ASSUME Good, CaptureFailed => CaptureFailed', received' + traceQueue' = received + traceQueue
      PROVE  TraceInv'
  <2>1. EventsAccounted'
    BY <1>k, AccountMoved
  <2> QED
    BY <1>k, <2>1 DEF TraceInv
<1>2. CASE LookAtAdmission
  <2>1. /\ tracer.pc = "top"
        /\ UNCHANGED <<admission, traceQueue, received, summary, completion, finisher>>
    BY <1>2 DEF LookAtAdmission
  <2>2. \E pc \in {"drain", "receive"} :
          /\ tracer' = [tracer EXCEPT !.pc = pc]
          /\ pc = "drain" => admission.closed /\ admission.active = 0
    BY <1>2 DEF LookAtAdmission
  <2>3. admission.active = Cardinality(Recording) /\ (admission.active = 0 => Recording = {})
    BY <1>1, RecordersFinite DEF ActiveCounts
  <2>4. Good
    BY <2>1, <2>2, <2>3 DEF LatencyTraceTypeOK, ActiveCounts, DrainedMeansDone
  <2> QED
    BY <2>1, <2>2, <2>4, <1>k DEF CaptureFailed
<1>3. CASE TakeEvent
  <2>1. /\ traceQueue > 0 /\ traceQueue' = traceQueue - 1 /\ received' = received + 1
        /\ UNCHANGED <<admission, summary, completion, finisher>>
    BY <1>3 DEF TakeEvent
  <2>2. /\ tracer.pc \in {"drain", "receive"} /\ tracer' = [tracer EXCEPT !.pc = "write"]
    BY <1>3 DEF TakeEvent
  <2>3. LatencyTraceTypeOK' /\ ActiveCounts'
    BY <2>1, <2>2 DEF LatencyTraceTypeOK, ActiveCounts
  <2>4. DrainedMeansDone'
    BY <2>1, <2>2 DEF LatencyTraceTypeOK, DrainedMeansDone
  <2>5. (CaptureFailed => CaptureFailed') /\ received' + traceQueue' = received + traceQueue
    <3>1. received \in Nat /\ traceQueue \in Nat
      BY DEF LatencyTraceTypeOK
    <3>2. received' + traceQueue' = received + traceQueue
      BY <2>1, <3>1
    <3>3. tracer.pc # "panicked" /\ tracer.pc \notin {"closing", "sending", "ended"}
      BY <2>2
    <3> QED
      BY <3>2, <3>3 DEF CaptureFailed
  <2> QED
    BY <2>3, <2>4, <2>5, <1>k
<1>4. CASE CaptureDrained
  <2>1. Good
    BY <1>4 DEF CaptureDrained, LatencyTraceTypeOK, ActiveCounts, DrainedMeansDone
  <2>2. (CaptureFailed => CaptureFailed') /\ received' + traceQueue' = received + traceQueue
    BY <1>4 DEF CaptureDrained, CaptureFailed
  <2> QED
    BY <2>1, <2>2, <1>k
<1>5. CASE ReceiveNothing
  <2>1. Good
    BY <1>5 DEF ReceiveNothing, LatencyTraceTypeOK, ActiveCounts, DrainedMeansDone
  <2>2. (CaptureFailed => CaptureFailed') /\ received' + traceQueue' = received + traceQueue
    BY <1>5 DEF ReceiveNothing, CaptureFailed
  <2> QED
    BY <2>1, <2>2, <1>k
<1>6. CASE EventWritten
  <2>1. Good
    BY <1>6 DEF EventWritten, LatencyTraceTypeOK, ActiveCounts, DrainedMeansDone
  <2>2. (CaptureFailed => CaptureFailed') /\ received' + traceQueue' = received + traceQueue
    BY <1>6 DEF EventWritten, CaptureFailed
  <2> QED
    BY <2>1, <2>2, <1>k
<1>7. CASE FinalStats
  <2>1. Good
    BY <1>7 DEF FinalStats, LatencyTraceTypeOK, ActiveCounts, DrainedMeansDone
  <2>2. (CaptureFailed => CaptureFailed') /\ received' + traceQueue' = received + traceQueue
    BY <1>7 DEF FinalStats, CaptureFailed
  <2> QED
    BY <2>1, <2>2, <1>k
<1>8. CASE CloseOnExit
  <2>1. Good
    BY <1>8 DEF CloseOnExit, LatencyTraceTypeOK, ActiveCounts, DrainedMeansDone
  <2>2. (CaptureFailed => CaptureFailed') /\ received' + traceQueue' = received + traceQueue
    BY <1>8 DEF CloseOnExit, CaptureFailed
  <2> QED
    BY <2>1, <2>2, <1>k
<1>9. CASE SendResult
  <2>1. Good
    BY <1>9 DEF SendResult, LatencyTraceTypeOK, ActiveCounts, DrainedMeansDone
  <2>2. (CaptureFailed => CaptureFailed') /\ received' + traceQueue' = received + traceQueue
    BY <1>9 DEF SendResult, CaptureFailed
  <2> QED
    BY <2>1, <2>2, <1>k
<1>10. CASE SinkFails
  <2>1. Good
    BY <1>10 DEF SinkFails, LatencyTraceTypeOK, ActiveCounts, DrainedMeansDone
  <2>2. ~CaptureFailed /\ CaptureFailed' /\ traceQueue' = 0 /\ received' = received
    BY <1>10 DEF SinkFails, CaptureFailed, DrainedMeansDone, LatencyTraceTypeOK
  <2> QED
    BY <2>1, <2>2, AccountLost DEF TraceInv
<1>11. CASE SinkHangs
  <2>1. Good
    BY <1>11 DEF SinkHangs, LatencyTraceTypeOK, ActiveCounts, DrainedMeansDone
  <2>2. (CaptureFailed => CaptureFailed') /\ received' + traceQueue' = received + traceQueue
    BY <1>11 DEF SinkHangs, CaptureFailed
  <2> QED
    BY <2>1, <2>2, <1>k
<1>12. CASE WorkerPanics
  <2>1. Good
    <3>1. /\ admission' \in [closed : BOOLEAN, active : Nat] /\ admission'.closed
          /\ admission'.active = admission.active
      BY <1>12 DEF WorkerPanics, LatencyTraceTypeOK
    <3>2. /\ tracer.pc = "write" /\ tracer' = [tracer EXCEPT !.pc = "panicked"] /\ traceQueue' = 0
          /\ completion' = "disconnected" /\ UNCHANGED <<received, summary, finisher>>
      BY <1>12 DEF WorkerPanics
    <3>3. LatencyTraceTypeOK' /\ ActiveCounts'
      BY <3>1, <3>2 DEF LatencyTraceTypeOK, ActiveCounts
    <3>4. DrainedMeansDone'
      BY <3>1, <3>2 DEF LatencyTraceTypeOK, DrainedMeansDone
    <3> QED
      BY <3>3, <3>4
  <2>2. ~CaptureFailed /\ CaptureFailed' /\ traceQueue' = 0 /\ received' = received
    BY <1>12 DEF WorkerPanics, CaptureFailed, DrainedMeansDone, LatencyTraceTypeOK
  <2> QED
    BY <2>1, <2>2, AccountLost DEF TraceInv
<1>13. CASE FinishTimeout
  <2>1. /\ admission' \in [closed : BOOLEAN, active : Nat] /\ admission'.closed
        /\ admission'.active = admission.active
    BY <1>13 DEF FinishTimeout, LatencyTraceTypeOK
  <2>2. /\ finisher' = "waiting"
        /\ UNCHANGED <<traceQueue, tracer, received, summary, completion>>
    BY <1>13 DEF FinishTimeout
  <2>3. LatencyTraceTypeOK' /\ ActiveCounts'
    BY <2>1, <2>2 DEF LatencyTraceTypeOK, ActiveCounts
  <2>4. DrainedMeansDone'
    BY <2>1, <2>2 DEF LatencyTraceTypeOK, DrainedMeansDone
  <2> QED
    BY <2>2, <2>3, <2>4, <1>k DEF CaptureFailed
<1>14. CASE FinishReturns
  <2>1. Good
    BY <1>14 DEF FinishReturns, LatencyTraceTypeOK, ActiveCounts, DrainedMeansDone
  <2>2. (CaptureFailed => CaptureFailed') /\ received' + traceQueue' = received + traceQueue
    BY <1>14 DEF FinishReturns, CaptureFailed
  <2> QED
    BY <2>1, <2>2, <1>k
<1> QED
  BY <1>2, <1>3, <1>4, <1>5, <1>6, <1>7, <1>8, <1>9, <1>10, <1>11, <1>12, <1>13, <1>14 DEF TracerStep

LEMMA TraceStep == TraceInv /\ [LatencyTraceNext]_traceVars => TraceInv'
<1> SUFFICES ASSUME TraceInv, [LatencyTraceNext]_traceVars PROVE TraceInv'
  OBVIOUS
<1>1. CASE UNCHANGED traceVars
  BY <1>1 DEF traceVars, TraceInv, LatencyTraceTypeOK, EventsAccounted, CaptureFailed, ActiveCounts, DrainedMeansDone,
              Recording, Handles
<1> QED
  BY <1>1, RecorderSteps, WorkerSteps DEF LatencyTraceNext

\* write_trace_to and the recording calls, for any number of threads and any capacity: every
\* event of an admitted call is accounted for unless the sink fails or the worker panics (then at
\* most one full queue is lost without being counted), and a summary is whole and final.
THEOREM TraceIsAccounted == LatencyTraceSpec => []TraceInvariant
<1>1. TraceInv => TraceInvariant
  <2> SUFFICES ASSUME TraceInv PROVE TraceInvariant
    OBVIOUS
  <2>1. SummaryIsFinal
    <3> SUFFICES ASSUME summary # NoTrace
                 PROVE  /\ admission.active = 0 /\ traceQueue = 0
                        /\ attempted = received + summary.dropped + summary.rejected
                        /\ \A r \in Recorders : recorder[r].pc # "recording"
      BY DEF SummaryIsFinal
    <3>1. Recording = {} /\ Cardinality({}) = 0
      BY FS_EmptySet DEF TraceInv, DrainedMeansDone
    <3>2. admission.active = 0 /\ \A r \in Recorders : recorder[r].pc # "recording"
      BY <3>1 DEF TraceInv, ActiveCounts, Recording
    <3> QED
      BY <3>2 DEF TraceInv, DrainedMeansDone, EventsAccounted, CaptureFailed, LatencyTraceTypeOK
  <2>2. KnownMeansKnown
    BY DEF TraceInv, DrainedMeansDone, KnownMeansKnown
  <2> QED
    BY <2>1, <2>2 DEF TraceInv, TraceInvariant
<1> QED
  BY <1>1, TraceInit, TraceStep, PTL DEF LatencyTraceSpec

-----------------------------------------------------------------------------
(* Audio.                                                                  *)

AudioPlaces == {"none", "warmup", "connect", "prime", "play", "fill", "failing", "end"}

AudioType ==
    /\ audio \in [n : Nat, pc : AudioPlaces, stop : BOOLEAN, hand : AudioBuffers \cup {NoAudio},
                  left : SUBSET AudioBuffers]
    /\ buffers \in [AudioBuffers -> {"own", "queued", "done"}]
    /\ played \in Seq(AudioBuffers)
    /\ audioQueue \in {"none", "made", "started"}
    /\ audioOwner \in {"none", "running", "joining", "cleared"}

\* The channel names every buffer CoreAudio is done with, once.
PlayedAreDone ==
    /\ \A i \in 1 .. Len(played) : buffers[played[i]] = "done"
    /\ \A b \in AudioBuffers : buffers[b] = "done" => \E i \in 1 .. Len(played) : played[i] = b
    /\ \A i, k \in 1 .. Len(played) : played[i] = played[k] => i = k

\* Where the worker is tells the state of the queue and whose the buffers are.
WorkerOwns ==
    /\ audio.pc \in {"none", "warmup", "connect", "failing", "end"} =>
         audioQueue = "none" /\ played = <<>> /\ \A b \in AudioBuffers : buffers[b] = "own"
    /\ audio.pc = "prime" =>
         /\ audioQueue = "made" /\ played = <<>>
         /\ \A b \in AudioBuffers : buffers[b] = "own" <=> b \in audio.left
    /\ audio.pc \in {"play", "fill"} => audioQueue = "started"
    /\ audio.pc = "play" => \A b \in AudioBuffers : buffers[b] # "own"
    /\ audio.pc = "fill" =>
         audio.hand # NoAudio /\ \A b \in AudioBuffers : buffers[b] = "own" <=> b = audio.hand
    /\ audio.pc # "fill" => audio.hand = NoAudio
    /\ audioOwner \in {"none", "cleared"} => audio.pc \in {"none", "end"} /\ audioStatus = NoAudio

\* The inductive invariant.
AudioInv == AudioType /\ PlayedAreDone /\ WorkerOwns

LEMMA AudioInitInv == AudioInit => AudioInv
BY AudioAssumption DEF AudioInit, AudioInv, AudioType, AudioPlaces, PlayedAreDone, WorkerOwns

\* Disposing of the queue gives every buffer back.
LEMMA DisposeGivesBack ==
  ASSUME AudioInv, Dispose, 
         audio' \in [n : Nat, pc : AudioPlaces, stop : BOOLEAN, hand : AudioBuffers \cup {NoAudio},
                     left : SUBSET AudioBuffers],
         audio'.pc \in {"failing", "end"}, audio'.hand = NoAudio,
         audioOwner' = audioOwner, audioOwner \in {"running", "joining"}
  PROVE  AudioInv'
BY DEF AudioInv, Dispose, AudioType, AudioPlaces, PlayedAreDone, WorkerOwns

\* Taking the oldest buffer out of the channel, and adding one CoreAudio has played.
LEMMA TakeOldest ==
  ASSUME PlayedAreDone, AudioType, played # <<>>, played' = Tail(played),
         buffers' = [buffers EXCEPT ![Head(played)] = "own"]
  PROVE  /\ PlayedAreDone' /\ played' \in Seq(AudioBuffers) /\ Head(played) \in AudioBuffers
         /\ buffers[Head(played)] = "done"
<1>1. /\ Head(played) = played[1] /\ Len(played) \in Nat \ {0}
      /\ Len(Tail(played)) = Len(played) - 1 /\ played[1] \in AudioBuffers
      /\ \A i \in 1 .. Len(played) - 1 : Tail(played)[i] = played[i + 1]
  BY DEF AudioType
<1>2. Tail(played) \in Seq(AudioBuffers)
  BY DEF AudioType
<1>3. \A i \in 1 .. Len(played) : played[i] \in AudioBuffers
  BY DEF AudioType
<1>4. \A i \in 1 .. Len(played) - 1 : i + 1 \in 1 .. Len(played) /\ i + 1 # 1
  BY <1>1
<1>5. 1 \in 1 .. Len(played)
  BY <1>1
<1>6. \A i \in 1 .. Len(played) - 1 : played[i + 1] # played[1]
  BY <1>4, <1>5 DEF PlayedAreDone
<1>7. \A i \in 1 .. Len(played') : buffers'[played'[i]] = "done"
  BY <1>1, <1>3, <1>4, <1>6 DEF PlayedAreDone, AudioType
<1>8. ASSUME NEW b \in AudioBuffers, buffers'[b] = "done"
      PROVE  \E i \in 1 .. Len(played') : played'[i] = b
  <2>1. b # played[1] /\ buffers[b] = "done"
    BY <1>1, <1>8 DEF AudioType
  <2>2. PICK k \in 1 .. Len(played) : played[k] = b
    BY <2>1 DEF PlayedAreDone
  <2>3. k - 1 \in 1 .. Len(played) - 1 /\ (k - 1) + 1 = k
    BY <1>1, <2>1, <2>2
  <2> QED
    BY <1>1, <2>2, <2>3
<1>9. \A i, k \in 1 .. Len(played') : played'[i] = played'[k] => i = k
  <2> SUFFICES ASSUME NEW i \in 1 .. Len(played) - 1, NEW k \in 1 .. Len(played) - 1,
                      played[i + 1] = played[k + 1]
               PROVE  i = k
    BY <1>1
  <2>1. i + 1 = k + 1
    BY <1>4 DEF PlayedAreDone
  <2> QED
    BY <2>1
<1> QED
  BY <1>1, <1>2, <1>5, <1>7, <1>8, <1>9 DEF PlayedAreDone

LEMMA AddPlayed ==
  ASSUME PlayedAreDone, AudioType, NEW b \in AudioBuffers, buffers[b] = "queued",
         played' = Append(played, b), buffers' = [buffers EXCEPT ![b] = "done"]
  PROVE  PlayedAreDone' /\ played' \in Seq(AudioBuffers)
<1>1. /\ Len(played') = Len(played) + 1 /\ Len(played) \in Nat
      /\ played'[Len(played) + 1] = b /\ played' \in Seq(AudioBuffers)
      /\ \A i \in 1 .. Len(played) : played'[i] = played[i]
  BY DEF AudioType
<1>2. \A i \in 1 .. Len(played) : played[i] # b /\ played[i] \in AudioBuffers
  BY DEF PlayedAreDone, AudioType
<1>3. \A i \in 1 .. Len(played) + 1 : i \in 1 .. Len(played) \/ i = Len(played) + 1
  BY <1>1
<1>4. \A i \in 1 .. Len(played) : i \in 1 .. Len(played) + 1
  BY <1>1
<1>5. Len(played) + 1 \in 1 .. Len(played) + 1
  BY <1>1
<1>6. \A i \in 1 .. Len(played') : buffers'[played'[i]] = "done"
  BY <1>1, <1>2, <1>3 DEF PlayedAreDone, AudioType
<1>7. \A c \in AudioBuffers : buffers'[c] = "done" => \E i \in 1 .. Len(played') : played'[i] = c
  BY <1>1, <1>4, <1>5 DEF PlayedAreDone, AudioType
<1>8. \A i, k \in 1 .. Len(played') : played'[i] = played'[k] => i = k
  BY <1>1, <1>2, <1>3 DEF PlayedAreDone
<1> QED
  BY <1>1, <1>6, <1>7, <1>8 DEF PlayedAreDone

LEMMA AudioStep == AudioInv /\ [AudioNext]_audioVars => AudioInv'
<1> SUFFICES ASSUME AudioInv, [AudioNext]_audioVars PROVE AudioInv'
  OBVIOUS
<1> DEFINE T == [n : Nat, pc : AudioPlaces, stop : BOOLEAN, hand : AudioBuffers \cup {NoAudio},
                 left : SUBSET AudioBuffers]
<1>0. /\ audio \in T /\ Ended \in T /\ Ended.pc = "end" /\ Ended.hand = NoAudio
      /\ AudioType /\ PlayedAreDone /\ WorkerOwns
  BY DEF AudioInv, AudioType, AudioPlaces, Ended
<1>a. /\ audio.pc = "end" => audioOwner \in {"running", "joining", "none", "cleared"}
      /\ audio.pc \notin {"none", "end"} => audioOwner \in {"running", "joining"}
  BY <1>0 DEF WorkerOwns, AudioType
<1> USE AudioAssumption DEF AudioInv
<1>1. CASE StartAudio
  BY <1>0, <1>1 DEF StartAudio, AudioType, AudioPlaces, PlayedAreDone, WorkerOwns
<1>2. CASE RequestStop
  <2>1. /\ audio' = [audio EXCEPT !.stop = TRUE] /\ audioOwner' = "joining"
        /\ UNCHANGED <<buffers, played, audioQueue, audioStatus>>
    BY <1>2 DEF RequestStop
  <2>2. AudioType'
    BY <1>0, <2>1 DEF AudioType
  <2>3. PlayedAreDone'
    BY <1>0, <2>1 DEF PlayedAreDone
  <2>4. WorkerOwns'
    BY <1>0, <2>1 DEF WorkerOwns
  <2> QED
    BY <2>2, <2>3, <2>4
<1>3. CASE JoinAndClear
  BY <1>0, <1>3 DEF JoinAndClear, AudioType, AudioPlaces, PlayedAreDone, WorkerOwns
<1>4. CASE Warmup
  <2>1. CASE audio' = Ended
    BY <1>0, <1>a, <1>4, <2>1 DEF Warmup, Keep, AudioType, PlayedAreDone, WorkerOwns
  <2>2. CASE audio' = [audio EXCEPT !.pc = "connect"]
    BY <1>0, <1>a, <1>4, <2>2 DEF Warmup, Keep, AudioType, AudioPlaces, PlayedAreDone, WorkerOwns
  <2> QED
    BY <1>4, <2>1, <2>2 DEF Warmup
<1>5. CASE Connect
  <2>0. audio.pc = "connect" /\ audioOwner' = audioOwner
    BY <1>5 DEF Connect
  <2>1. CASE audio' = Ended /\ Keep
    BY <1>0, <1>a, <2>0, <2>1 DEF Keep, AudioType, PlayedAreDone, WorkerOwns
  <2>2. CASE /\ audio' = [audio EXCEPT !.pc = "prime", !.left = AudioBuffers]
             /\ audioQueue' = "made" /\ UNCHANGED <<buffers, played>>
    <3>1. AudioType'
      BY <1>0, <1>a, <2>0, <2>2 DEF AudioType, AudioPlaces
    <3>2. PlayedAreDone'
      BY <1>0, <2>2 DEF PlayedAreDone
    <3>3. WorkerOwns'
      BY <1>0, <1>a, <2>0, <2>2 DEF WorkerOwns
    <3> QED
      BY <3>1, <3>2, <3>3
  <2>3. CASE audio' = [audio EXCEPT !.pc = "failing"] /\ Keep
    BY <1>0, <1>a, <2>0, <2>3 DEF Keep, AudioType, AudioPlaces, PlayedAreDone, WorkerOwns
  <2> QED
    BY <1>5, <2>1, <2>2, <2>3 DEF Connect
<1>6. ASSUME NEW b \in AudioBuffers, NEW r \in FillResults, Prime(b, r) PROVE AudioInv'
  <2>0. /\ audio.pc = "prime" /\ audioOwner' = audioOwner /\ b \in audio.left
        /\ audioStatus' = audioStatus
    BY <1>6 DEF Prime
  <2>1. CASE r = "filled"
    BY <1>0, <1>6, <1>a, <2>0, <2>1 DEF Prime, AudioType, AudioPlaces, PlayedAreDone, WorkerOwns
  <2>2. CASE r = "empty"
    BY <1>0, <1>6, <1>a, <2>0, <2>2, DisposeGivesBack DEF Prime
  <2>3. CASE r = "failed"
    <3>1. /\ Dispose /\ audio' = [audio EXCEPT !.pc = "failing", !.left = {}]
          /\ audio.hand = NoAudio
      BY <1>0, <1>6, <2>0, <2>3 DEF Prime, WorkerOwns
    <3>2. audio' \in T /\ audio'.pc = "failing" /\ audio'.hand = NoAudio
      BY <1>0, <3>1 DEF AudioPlaces
    <3> QED
      BY <1>a, <2>0, <3>1, <3>2, DisposeGivesBack
  <2> QED
    BY <1>6, <2>1, <2>2, <2>3 DEF FillResults
<1>7. CASE StartQueue
  <2>0. audio.pc = "prime" /\ audioOwner' = audioOwner /\ audio.left = {}
    BY <1>7 DEF StartQueue
  <2>1. CASE /\ audioQueue' = "started" /\ audio' = [audio EXCEPT !.pc = "play"]
             /\ UNCHANGED <<buffers, played>>
    BY <1>0, <1>a, <2>0, <2>1 DEF AudioType, AudioPlaces, PlayedAreDone, WorkerOwns
  <2>2. CASE audio' = [audio EXCEPT !.pc = "failing"] /\ Dispose
    <3>1. audio' \in T /\ audio'.pc = "failing" /\ audio'.hand = NoAudio
      BY <1>0, <2>0, <2>2 DEF AudioPlaces, WorkerOwns
    <3> QED
      BY <1>a, <2>0, <2>2, <3>1, DisposeGivesBack
  <2> QED
    BY <1>7, <2>1, <2>2 DEF StartQueue
<1>8. CASE NextBuffer
  <2>0. audio.pc = "play" /\ UNCHANGED <<audioStatus, audioOwner>>
    BY <1>8 DEF NextBuffer
  <2>1. CASE audio' = Ended /\ Dispose
    BY <1>0, <1>a, <2>0, <2>1, DisposeGivesBack
  <2>2. CASE /\ played # <<>> /\ played' = Tail(played)
             /\ audio' = [audio EXCEPT !.pc = "fill", !.hand = Head(played)]
             /\ buffers' = [buffers EXCEPT ![Head(played)] = "own"]
             /\ UNCHANGED audioQueue
    <3>1. /\ PlayedAreDone' /\ played' \in Seq(AudioBuffers) /\ Head(played) \in AudioBuffers
          /\ buffers[Head(played)] = "done"
      BY <1>0, <2>2, TakeOldest
    <3>2. AudioType'
      BY <1>0, <2>0, <2>2, <3>1 DEF AudioType, AudioPlaces
    <3>3. WorkerOwns'
      BY <1>0, <1>a, <2>0, <2>2, <3>1 DEF AudioType, AudioPlaces, WorkerOwns
    <3> QED
      BY <3>1, <3>2, <3>3
  <2> QED
    BY <1>8, <2>1, <2>2 DEF NextBuffer
<1>9. ASSUME NEW r \in FillResults, Refill(r) PROVE AudioInv'
  <2>0. audio.pc = "fill" /\ audioOwner' = audioOwner /\ audio.hand \in AudioBuffers
    BY <1>0, <1>9 DEF Refill, WorkerOwns, AudioType
  <2>1. CASE r = "filled"
    <3>1. /\ buffers' = [buffers EXCEPT ![audio.hand] = "queued"]
          /\ audio' = [audio EXCEPT !.pc = "play", !.hand = NoAudio]
          /\ UNCHANGED <<played, audioQueue>>
      BY <1>9, <2>1 DEF Refill
    <3>2. AudioType'
      BY <1>0, <2>0, <3>1 DEF AudioType, AudioPlaces
    <3>3. PlayedAreDone'
      BY <1>0, <2>0, <3>1 DEF AudioType, PlayedAreDone, WorkerOwns
    <3>4. WorkerOwns'
      BY <1>0, <1>a, <2>0, <3>1 DEF AudioType, AudioPlaces, WorkerOwns
    <3> QED
      BY <3>2, <3>3, <3>4
  <2>2. CASE r = "empty"
    BY <1>0, <1>9, <1>a, <2>0, <2>2, DisposeGivesBack DEF Refill
  <2>3. CASE r = "failed"
    <3>1. Dispose /\ audio' = [audio EXCEPT !.pc = "failing", !.hand = NoAudio]
      BY <1>9, <2>3 DEF Refill
    <3>2. audio' \in T /\ audio'.pc = "failing" /\ audio'.hand = NoAudio
      BY <1>0, <3>1 DEF AudioPlaces
    <3> QED
      BY <1>a, <2>0, <3>1, <3>2, DisposeGivesBack
  <2> QED
    BY <1>9, <2>1, <2>2, <2>3 DEF FillResults
<1>10. CASE ReportError
  BY <1>0, <1>a, <1>10 DEF ReportError, Keep, AudioType, PlayedAreDone, WorkerOwns
<1>11. ASSUME NEW b \in AudioBuffers, BufferPlayed(b) PROVE AudioInv'
  <2>1. PlayedAreDone' /\ played' \in Seq(AudioBuffers)
    BY <1>0, <1>11, AddPlayed DEF BufferPlayed
  <2>2. AudioType'
    BY <1>0, <1>11, <2>1 DEF BufferPlayed, AudioType
  <2>3. WorkerOwns'
    BY <1>0, <1>11 DEF BufferPlayed, AudioType, AudioPlaces, WorkerOwns
  <2> QED
    BY <2>1, <2>2, <2>3
<1>12. CASE UNCHANGED audioVars
  BY <1>0, <1>12 DEF audioVars, AudioType, PlayedAreDone, WorkerOwns
<1> QED
  BY <1>1, <1>2, <1>3, <1>4, <1>5, <1>6, <1>7, <1>8, <1>9, <1>10, <1>11, <1>12
     DEF AudioNext, AudioThread

\* The worker of audio.rs, for any number of buffers and workers: the thread never writes a buffer
\* CoreAudio may be playing and loses none, and a stopped worker leaves no status and no queue.
THEOREM AudioIsAccounted == AudioSpec => []AudioInvariant
<1>1. AudioInv => AudioInvariant
  <2> SUFFICES ASSUME AudioInv PROVE AudioInvariant
    OBVIOUS
  <2>0. /\ \A i \in 1 .. Len(played) : played[i] \in AudioBuffers
        /\ Len(played) \in Nat /\ played \in [1 .. Len(played) -> AudioBuffers]
    BY DEF AudioInv, AudioType
  <2>1. {b \in AudioBuffers : buffers[b] = "done"} = {played[i] : i \in 1 .. Len(played)}
    BY <2>0 DEF AudioInv, PlayedAreDone
  <2>2. Cardinality({played[i] : i \in 1 .. Len(played)}) = Len(played)
    <3> DEFINE S == 1 .. Len(played)
               P == {played[i] : i \in S}
    <3>1. IsFiniteSet(S) /\ Cardinality(S) = Len(played)
      BY <2>0, FS_Interval
    <3>2. [i \in S |-> played[i]] \in Bijection(S, P)
      BY <2>0 DEF AudioInv, PlayedAreDone, Bijection, Injection, Surjection, IsInjective
    <3>3. ExistsBijection(S, P)
      BY <3>2 DEF ExistsBijection
    <3> HIDE DEF S, P
    <3>4. Cardinality(S) = Cardinality(P)
      BY <3>1, <3>3, FS_Bijection
    <3> QED
      BY <3>1, <3>4 DEF S, P
  <2>3. BuffersAccounted
    BY <2>1, <2>2, AudioAssumption DEF AudioInv, WorkerOwns, AudioType, BuffersAccounted
  <2>4. StoppedHasNoStatus
    BY DEF AudioInv, WorkerOwns, StoppedHasNoStatus
  <2> QED
    BY <2>3, <2>4 DEF AudioInvariant
<1> QED
  BY <1>1, AudioInitInv, AudioStep, PTL DEF AudioSpec

-----------------------------------------------------------------------------
(* Launch.                                                                 *)

Box == [owner : 0 .. MaxAttempts, id : Nat, running : BOOLEAN]
LaunchRecord == [n : 0 .. MaxAttempts, endpoint : Endpoints,
                 pc : {"idle", "query", "prepare", "spawn", "socket", "running", "kill", "sweep"},
                 waypipe : {"none", "up"}, cli : {"none", "start", "attached"}]
HelperRecord == [pc : {"none", "publish", "ready", "sweep", "stdio", "bridge", "end"},
                 cli : {"none", "start", "attached"}]
SweepRecord == [pc : {"none", "inspect", "delete"}, target : Nat \union {NoLaunch}]
UseRecord == [foreign : Nat, switches : Nat, failures : Nat, ids : Nat]
LaunchTypes ==
    /\ runtime \in Runtimes /\ context \in Endpoints
    /\ boxes \in [Endpoints -> Box \union {NoLaunch}]
    /\ launch \in LaunchRecord
    /\ helpers \in [Attempts -> HelperRecord]
    /\ sweep \in [0 .. MaxAttempts -> SweepRecord]
    /\ freed \subseteq Attempts
    /\ launchUse \in UseRecord
    /\ \A e \in Endpoints : boxes[e] # NoLaunch => boxes[e].id \in 1 .. launchUse.ids

\* The part of an attempt in which a container of it may be.
WithBox == {"running", "kill", "sweep"}

\* Which process runs when, and what a later attempt finds.
AttemptKept ==
    /\ launch.pc # "idle" => launch.n > 0 /\ launch.n \notin freed
    /\ launch.cli # "none" => launch.pc \in {"running", "kill"} /\ runtime # "apple"
    /\ launch.waypipe # "none" => launch.pc \in {"socket", "running", "kill"}
    /\ launch.pc = "socket" => runtime # "apple"
    /\ runtime # "docker" => launch.endpoint = Home
    /\ \A a \in freed : a <= launch.n

\* A helper belongs to a launch of Apple Container that got as far as its processes, and has a
\* command only while it starts the container or serves it.
HelpersKept ==
    \A a \in Attempts :
        /\ helpers[a].pc # "none" => /\ runtime = "apple" /\ a <= launch.n
                                     /\ a = launch.n => launch.pc \in WithBox \/ a \in freed
        /\ helpers[a].pc \notin {"ready", "bridge"} => helpers[a].cli = "none"

\* Where a container of an attempt is.
PlacesKept ==
    \A e \in Endpoints : boxes[e] # NoLaunch /\ boxes[e].owner # Foreign =>
        LET a == boxes[e].owner
        IN  /\ a <= launch.n
            /\ a = launch.n => launch.pc \in WithBox \/ a \in freed
            /\ runtime = "apple" => e = Home /\ helpers[a].pc \notin {"none", "stdio"}
            /\ runtime = "docker" => e = launch.endpoint /\ a = launch.n /\ launch.pc \in WithBox

LaunchInv == LaunchTypes /\ AttemptKept /\ HelpersKept /\ PlacesKept

LEMMA HomeIsEndpoint == Home \in Endpoints
  BY LaunchAssumption DEF Home

\* The fields of what a step makes of the launch, of a helper, and of the inputs used.
LEMMA PhaseMoved ==
  ASSUME NEW pc \in {"idle", "query", "prepare", "spawn", "socket", "running", "kill", "sweep"},
         launch \in LaunchRecord, launch' = [launch EXCEPT !.pc = pc]
  PROVE  /\ launch' \in LaunchRecord /\ launch'.n = launch.n /\ launch'.endpoint = launch.endpoint
         /\ launch'.pc = pc /\ launch'.waypipe = launch.waypipe /\ launch'.cli = launch.cli
BY DEF LaunchRecord

LEMMA LaunchFields ==
  ASSUME NEW l \in LaunchRecord
  PROVE  /\ l.n \in 0 .. MaxAttempts /\ l.endpoint \in Endpoints
         /\ l.pc \in {"idle", "query", "prepare", "spawn", "socket", "running", "kill", "sweep"}
         /\ l.waypipe \in {"none", "up"} /\ l.cli \in {"none", "start", "attached"}
         /\ \A pc \in {"idle", "query", "prepare", "spawn", "socket", "running", "kill", "sweep"} :
              LET k == [l EXCEPT !.pc = pc]
              IN  k \in LaunchRecord /\ k.n = l.n /\ k.endpoint = l.endpoint /\ k.pc = pc
                  /\ k.waypipe = l.waypipe /\ k.cli = l.cli
         /\ \A cli \in {"none", "start", "attached"} :
              LET k == [l EXCEPT !.cli = cli]
              IN  k \in LaunchRecord /\ k.n = l.n /\ k.endpoint = l.endpoint /\ k.pc = l.pc
                  /\ k.waypipe = l.waypipe /\ k.cli = cli
         /\ LET k == NoProcesses(l)
            IN  k \in LaunchRecord /\ k.n = l.n /\ k.endpoint = l.endpoint /\ k.pc = l.pc
                /\ k.waypipe = "none" /\ k.cli = "none"
  BY DEF LaunchRecord, NoProcesses

LEMMA ContainerFields ==
  ASSUME NEW l \in LaunchRecord, NEW k, k = [l EXCEPT !.pc = "running", !.cli = "start"]
  PROVE  /\ k \in LaunchRecord /\ k.n = l.n /\ k.endpoint = l.endpoint /\ k.pc = "running"
         /\ k.waypipe = l.waypipe /\ k.cli = "start"
  BY DEF LaunchRecord

LEMMA EndedFields ==
  ASSUME NEW l \in LaunchRecord, NEW pc \in {"idle", "sweep"}, NEW k, k = [NoProcesses(l) EXCEPT !.pc = pc]
  PROVE  /\ k \in LaunchRecord /\ k.n = l.n /\ k.endpoint = l.endpoint /\ k.pc = pc
         /\ k.waypipe = "none" /\ k.cli = "none"
<1> DEFINE m == NoProcesses(l)
<1>1. /\ m \in LaunchRecord /\ m.n = l.n /\ m.endpoint = l.endpoint /\ m.waypipe = "none" /\ m.cli = "none"
  BY LaunchFields
<1>2. k = [m EXCEPT !.pc = pc]
  OBVIOUS
<1> HIDE DEF m
<1> QED
  BY <1>1, <1>2 DEF LaunchRecord

LEMMA LaunchInitInv == LaunchInit => LaunchInv
<1> SUFFICES ASSUME LaunchInit PROVE LaunchInv
  OBVIOUS
<1>1. launch \in LaunchRecord /\ launch.pc = "idle" /\ launch.n = 0 /\ launch.endpoint = Home
      /\ launch.waypipe = "none" /\ launch.cli = "none"
  BY HomeIsEndpoint, LaunchAssumption DEF LaunchInit, LaunchRecord
<1>2. LaunchTypes
  BY <1>1, HomeIsEndpoint, LaunchAssumption DEF LaunchInit, LaunchTypes, HelperRecord, SweepRecord, UseRecord, Idle
<1> QED
  BY <1>1, <1>2 DEF LaunchInit, LaunchInv, AttemptKept, HelpersKept, PlacesKept

\* A new container, and what it leaves of the others.
LEMMA CreateFields ==
  ASSUME LaunchTypes, NEW e \in Endpoints, NEW who \in 0 .. MaxAttempts, NEW up \in BOOLEAN,
         Create(e, who, up)
  PROVE  /\ boxes' \in [Endpoints -> Box \union {NoLaunch}] /\ launchUse' \in UseRecord
         /\ \A d \in Endpoints : boxes'[d] # NoLaunch => boxes'[d].id \in 1 .. launchUse'.ids
         /\ boxes'[e].owner = who /\ \A d \in Endpoints : d # e => boxes'[d] = boxes[d]
<1> DEFINE box == [owner |-> who, id |-> launchUse.ids + 1, running |-> up]
<1>1. /\ launchUse \in UseRecord /\ launchUse.ids \in Nat /\ launchUse.foreign \in Nat
      /\ boxes \in [Endpoints -> Box \union {NoLaunch}]
  BY DEF LaunchTypes, UseRecord
<1>2. box \in Box /\ box.owner = who /\ box.id = launchUse.ids + 1
  BY <1>1 DEF Box
<1>3. boxes' = [boxes EXCEPT ![e] = box]
  BY DEF Create
<1>4. launchUse' \in UseRecord /\ launchUse'.ids = launchUse.ids + 1
  <2> DEFINE more == IF who = Foreign THEN 1 ELSE 0
  <2>1. launchUse.ids + 1 \in Nat /\ launchUse.foreign + more \in Nat
    BY <1>1
  <2>2. launchUse' = [launchUse EXCEPT !.ids = @ + 1, !.foreign = @ + more]
    BY DEF Create
  <2> HIDE DEF more
  <2> QED
    BY <1>1, <2>1, <2>2 DEF UseRecord
<1> HIDE DEF box
<1>5. \A d \in Endpoints : boxes'[d] = IF d = e THEN box ELSE boxes[d]
  BY <1>1, <1>3
<1>6. \A d \in Endpoints : boxes'[d] # NoLaunch => boxes'[d].id \in 1 .. launchUse'.ids
  <2>1. \A d \in Endpoints : boxes[d] # NoLaunch => boxes[d].id \in 1 .. launchUse.ids
    BY DEF LaunchTypes
  <2> QED
    BY <1>1, <1>2, <1>4, <1>5, <2>1
<1> QED
  BY <1>1, <1>2, <1>3, <1>4, <1>5, <1>6

\* What a helper becomes.
LEMMA HelperFields ==
  ASSUME LaunchTypes, NEW a \in Attempts, NEW h \in HelperRecord, Helper(a, h)
  PROVE  /\ helpers' \in [Attempts -> HelperRecord] /\ helpers'[a] = h
         /\ \A b \in Attempts : b # a => helpers'[b] = helpers[b]
  BY DEF LaunchTypes, Helper

\* A step of the launch that touches nothing else and stays in front of, or behind, its containers.
LEMMA LaunchMoves ==
  ASSUME LaunchInv, launch' \in LaunchRecord, launch'.n = launch.n, launch'.endpoint = launch.endpoint,
         UNCHANGED <<runtime, context, boxes, helpers, freed, launchUse>>,
         sweep' \in [0 .. MaxAttempts -> SweepRecord],
         launch.pc \in WithBox <=> launch'.pc \in WithBox, launch.pc # "idle",
         launch'.cli # "none" => launch'.pc \in {"running", "kill"} /\ runtime # "apple",
         launch'.waypipe # "none" => launch'.pc \in {"running", "kill"}, launch'.pc # "socket"
  PROVE  LaunchInv'
<1>1. LaunchTypes'
  BY DEF LaunchInv, LaunchTypes
<1>2. AttemptKept'
  BY DEF LaunchInv, AttemptKept
<1>3. HelpersKept'
  BY DEF LaunchInv, HelpersKept
<1>4. PlacesKept'
  BY DEF LaunchInv, PlacesKept
<1> QED
  BY <1>1, <1>2, <1>3, <1>4 DEF LaunchInv

LEMMA LaunchStep == LaunchInv /\ [LaunchNext]_launchVars => LaunchInv'
<1> SUFFICES ASSUME LaunchInv, [LaunchNext]_launchVars PROVE LaunchInv'
  OBVIOUS
<1> USE HomeIsEndpoint DEF LaunchInv
<1>0. MaxAttempts \in Nat /\ Attempts = 1 .. MaxAttempts /\ Runtimes \subseteq {"apple", "docker", "orb"}
      /\ Foreign = 0 /\ 0 \in 0 .. MaxAttempts /\ launch \in LaunchRecord
  BY LaunchAssumption DEF Attempts, Foreign, LaunchTypes
<1>f. /\ launch.n \in 0 .. MaxAttempts /\ launch.endpoint \in Endpoints
      /\ launch.pc \in {"idle", "query", "prepare", "spawn", "socket", "running", "kill", "sweep"}
      /\ launch.waypipe \in {"none", "up"} /\ launch.cli \in {"none", "start", "attached"}
  BY <1>0, LaunchFields
<1>h. \A a \in Attempts : /\ helpers[a] \in HelperRecord
                          /\ helpers[a].pc \in {"none", "publish", "ready", "sweep", "stdio", "bridge", "end"}
                          /\ helpers[a].cli \in {"none", "start", "attached"}
  BY DEF LaunchTypes, HelperRecord
<1>b. \A e \in Endpoints : boxes[e] # NoLaunch => boxes[e].owner \in 0 .. MaxAttempts
  BY DEF LaunchTypes, Box
<1>1. ASSUME NEW e \in Endpoints, NEW up \in BOOLEAN, ForeignCreates(e, up)
      PROVE  LaunchInv'
  <2>1. /\ boxes' \in [Endpoints -> Box \union {NoLaunch}] /\ launchUse' \in UseRecord
        /\ \A d \in Endpoints : boxes'[d] # NoLaunch => boxes'[d].id \in 1 .. launchUse'.ids
        /\ boxes'[e].owner = Foreign /\ \A d \in Endpoints : d # e => boxes'[d] = boxes[d]
    BY <1>0, <1>1, CreateFields DEF ForeignCreates
  <2>2. UNCHANGED <<runtime, context, launch, helpers, sweep, freed>>
    BY <1>1 DEF ForeignCreates
  <2>3. LaunchTypes' /\ AttemptKept' /\ HelpersKept'
    BY <2>1, <2>2 DEF LaunchTypes, AttemptKept, HelpersKept
  <2>4. PlacesKept'
    BY <2>1, <2>2 DEF PlacesKept
  <2> QED
    BY <2>3, <2>4
<1>2. ASSUME NEW e \in Endpoints, BoxEnds(e)
      PROVE  LaunchInv'
  <2>1. /\ launch' \in LaunchRecord /\ launch'.n = launch.n /\ launch'.endpoint = launch.endpoint
        /\ launch'.pc = launch.pc /\ launch'.waypipe = launch.waypipe /\ launch'.cli \in {launch.cli, "none"}
    <3> DEFINE k == [launch EXCEPT !.cli = "none"]
    <3>1. launch' \in {k, launch}
      BY <1>2 DEF BoxEnds
    <3>2. /\ k \in LaunchRecord /\ k.n = launch.n /\ k.endpoint = launch.endpoint /\ k.pc = launch.pc
          /\ k.waypipe = launch.waypipe /\ k.cli = "none"
      BY <1>0 DEF LaunchRecord
    <3> HIDE DEF k
    <3> QED
      BY <1>0, <3>1, <3>2
  <2>2. /\ helpers' \in [Attempts -> HelperRecord]
        /\ \A a \in Attempts : helpers'[a].pc = helpers[a].pc /\ helpers'[a].cli \in {helpers[a].cli, "none"}
    <3>1. \A h \in HelperRecord : LET k == [h EXCEPT !.cli = "none"]
                                  IN  k \in HelperRecord /\ k.pc = h.pc /\ k.cli = "none"
      BY DEF HelperRecord
    <3> QED
      BY <1>2, <1>h, <3>1 DEF BoxEnds
  <2>3. /\ boxes' \in [Endpoints -> Box \union {NoLaunch}]
        /\ \A d \in Endpoints : boxes'[d] \in {boxes[d], NoLaunch}
    BY <1>2 DEF BoxEnds, LaunchTypes
  <2>4. UNCHANGED <<runtime, context, sweep, freed, launchUse>>
    BY <1>2 DEF BoxEnds
  <2>5. LaunchTypes'
    BY <2>1, <2>2, <2>3, <2>4 DEF LaunchTypes
  <2>6. AttemptKept'
    BY <2>1, <2>4 DEF AttemptKept
  <2>7. HelpersKept'
    BY <2>1, <2>2, <2>4 DEF HelpersKept
  <2>8. PlacesKept'
    BY <1>0, <1>b, <2>1, <2>2, <2>3, <2>4 DEF PlacesKept
  <2> QED
    BY <2>5, <2>6, <2>7, <2>8
<1>3. ASSUME NEW e \in Endpoints, SwitchContext(e)
      PROVE  LaunchInv'
  <2>1. launchUse' \in UseRecord /\ launchUse'.ids = launchUse.ids
    BY <1>3 DEF SwitchContext, LaunchTypes, UseRecord
  <2> QED
    BY <1>3, <2>1 DEF SwitchContext, LaunchTypes, AttemptKept, HelpersKept, PlacesKept
<1>4. CASE StartAttempt
  <2>0. launch.n + 1 \in 0 .. MaxAttempts /\ launch.n < MaxAttempts /\ launch.n \in Nat
    BY <1>0, <1>4, <1>f DEF StartAttempt
  <2>1. /\ launch' \in LaunchRecord /\ launch'.n = launch.n + 1 /\ launch'.pc = "query"
        /\ launch'.waypipe = launch.waypipe /\ launch'.cli = launch.cli
        /\ launch'.endpoint = IF runtime = "docker" THEN context ELSE Home
    <3> DEFINE e == IF runtime = "docker" THEN context ELSE Home
    <3>1. e \in Endpoints
      BY DEF LaunchTypes
    <3>2. launch' = [launch EXCEPT !.n = launch.n + 1, !.pc = "query", !.endpoint = e]
      BY <1>4 DEF StartAttempt
    <3> HIDE DEF e
    <3>3. /\ launch' \in LaunchRecord /\ launch'.n = launch.n + 1 /\ launch'.endpoint = e /\ launch'.pc = "query"
          /\ launch'.waypipe = launch.waypipe /\ launch'.cli = launch.cli
      BY <1>0, <2>0, <3>1, <3>2 DEF LaunchRecord
    <3> QED
      BY <3>3 DEF e
  <2>2. launch.pc = "idle" /\ UNCHANGED <<runtime, context, boxes, helpers, sweep, freed, launchUse>>
    BY <1>4 DEF StartAttempt
  <2>3. LaunchTypes'
    BY <2>1, <2>2 DEF LaunchTypes
  <2>4. AttemptKept'
    <3>1. \A a \in freed : a <= launch.n /\ a \in Int
      BY <1>0 DEF AttemptKept, LaunchTypes
    <3>2. \A a \in freed : a <= launch.n + 1 /\ a # launch.n + 1
      BY <2>0, <3>1
    <3>3. launch.n + 1 > 0
      BY <2>0
    <3> QED
      BY <2>1, <2>2, <3>2, <3>3 DEF AttemptKept
  <2>5. HelpersKept'
    BY <1>0, <1>f, <2>0, <2>1, <2>2 DEF HelpersKept
  <2>6. PlacesKept'
    BY <1>0, <1>b, <1>f, <2>0, <2>1, <2>2 DEF PlacesKept, WithBox
  <2> QED
    BY <2>3, <2>4, <2>5, <2>6
<1>5. CASE QueryRunning \/ PrepareSocket \/ SpawnWaypipe \/ WaitForSocket
  <2>1. /\ launch.pc \in {"query", "prepare", "spawn", "socket"}
        /\ UNCHANGED <<runtime, context, boxes, helpers, sweep, freed, launchUse>>
    BY <1>5 DEF QueryRunning, PrepareSocket, SpawnWaypipe, WaitForSocket
  <2>2. /\ launch' \in LaunchRecord /\ launch'.n = launch.n /\ launch'.endpoint = launch.endpoint
        /\ launch'.pc \in {"idle", "prepare", "spawn", "socket", "running"}
        /\ launch'.cli # "none" => launch'.pc = "running" /\ launch.pc = "socket"
        /\ launch'.waypipe # "none" => launch'.pc \in {"socket", "running"}
        /\ launch'.pc = "idle" => launch'.waypipe = "none" /\ launch'.cli = "none"
        /\ launch'.pc = "socket" => runtime # "apple"
    <3>0. (launch.cli = "none" \/ launch.pc \in {"running", "kill"})
          /\ (launch.waypipe = "none" \/ launch.pc \in {"socket", "running", "kill"})
      BY DEF AttemptKept
    <3>1. CASE launch' = LaunchFailed(launch)
      <4>1. launch' = [NoProcesses(launch) EXCEPT !.pc = "idle"]
        BY <3>1 DEF LaunchFailed
      <4> QED
        BY <1>0, <4>1, EndedFields
    <3>2. CASE launch.pc = "query" /\ launch' = [launch EXCEPT !.pc = "prepare"]
      <4>1. /\ launch' \in LaunchRecord /\ launch'.n = launch.n /\ launch'.endpoint = launch.endpoint
            /\ launch'.pc = "prepare" /\ launch'.waypipe = launch.waypipe /\ launch'.cli = launch.cli
        BY <1>0, <3>2, PhaseMoved
      <4>2. launch.pc = "query"
        BY <3>2
      <4>3. launch.cli = "none" /\ launch.waypipe = "none"
        BY <3>0, <4>2
      <4> QED
        BY <4>1, <4>2, <4>3
    <3>3. CASE launch.pc = "prepare" /\ launch' = [launch EXCEPT !.pc = "spawn"]
      <4>1. /\ launch' \in LaunchRecord /\ launch'.n = launch.n /\ launch'.endpoint = launch.endpoint
            /\ launch'.pc = "spawn" /\ launch'.waypipe = launch.waypipe /\ launch'.cli = launch.cli
        BY <1>0, <3>3, PhaseMoved
      <4>2. launch.pc = "prepare"
        BY <3>3
      <4>3. launch.cli = "none" /\ launch.waypipe = "none"
        BY <3>0, <4>2
      <4> QED
        BY <4>1, <4>2, <4>3
    <3>4. CASE /\ launch.pc = "spawn"
               /\ launch' = [launch EXCEPT !.waypipe = "up", !.pc = IF runtime = "apple" THEN "running" ELSE "socket"]
      <4> DEFINE pc == IF runtime = "apple" THEN "running" ELSE "socket"
      <4>1. launch' = [launch EXCEPT !.waypipe = "up", !.pc = pc] /\ pc \in {"socket", "running"}
        BY <3>4
      <4>2. pc = "socket" => runtime # "apple"
        OBVIOUS
      <4> HIDE DEF pc
      <4> QED
        BY <1>0, <3>0, <3>4, <4>1, <4>2 DEF LaunchRecord
    <3>5. CASE launch.pc = "socket" /\ launch' = [launch EXCEPT !.pc = "running", !.cli = "start"]
      BY <1>0, <3>0, <3>5, ContainerFields
    <3> QED
      BY <1>5, <3>1, <3>2, <3>3, <3>4, <3>5 DEF QueryRunning, PrepareSocket, SpawnWaypipe, WaitForSocket
  <2>3. LaunchTypes'
    BY <2>1, <2>2 DEF LaunchTypes
  <2>4. AttemptKept'
    BY <2>1, <2>2 DEF AttemptKept
  <2>5. HelpersKept'
    BY <2>1, <2>2 DEF HelpersKept, WithBox, AttemptKept
  <2>6. PlacesKept'
    BY <2>1, <2>2 DEF PlacesKept, WithBox, AttemptKept
  <2> QED
    BY <2>3, <2>4, <2>5, <2>6
<1>6. CASE RunContainer
  <2>1. /\ launch.cli = "start" /\ launch.pc \in {"running", "kill"} /\ runtime # "apple" /\ launch.n > 0
        /\ launch.n \notin freed
    BY <1>6 DEF RunContainer, AttemptKept
  <2>2. /\ launch' \in LaunchRecord /\ launch'.n = launch.n /\ launch'.endpoint = launch.endpoint
        /\ launch'.pc = launch.pc /\ launch'.waypipe = launch.waypipe
    <3>1. PICK cli \in {"attached", "none"} : launch' = [launch EXCEPT !.cli = cli]
      BY <1>6 DEF RunContainer
    <3> QED
      BY <1>0, <3>1 DEF LaunchRecord
  <2>3. UNCHANGED <<runtime, context, helpers, sweep, freed>>
    BY <1>6 DEF RunContainer
  <2>4. AttemptKept' /\ HelpersKept'
    BY <2>1, <2>2, <2>3 DEF AttemptKept, HelpersKept
  <2>5. CASE Create(launch.endpoint, launch.n, TRUE)
    <3>1. /\ boxes' \in [Endpoints -> Box \union {NoLaunch}] /\ launchUse' \in UseRecord
          /\ \A d \in Endpoints : boxes'[d] # NoLaunch => boxes'[d].id \in 1 .. launchUse'.ids
          /\ boxes'[launch.endpoint].owner = launch.n
          /\ \A d \in Endpoints : d # launch.endpoint => boxes'[d] = boxes[d]
      BY <1>f, <2>5, CreateFields
    <3>2. LaunchTypes'
      BY <2>2, <2>3, <3>1 DEF LaunchTypes
    <3>3. PlacesKept'
      BY <1>f, <2>1, <2>2, <2>3, <3>1 DEF PlacesKept, WithBox
    <3> QED
      BY <2>4, <3>2, <3>3
  <2>6. CASE UNCHANGED <<boxes, launchUse>>
    <3>1. LaunchTypes' /\ PlacesKept'
      BY <2>2, <2>3, <2>6 DEF LaunchTypes, PlacesKept
    <3> QED
      BY <2>4, <3>1
  <2> QED
    BY <1>6, <2>5, <2>6 DEF RunContainer
<1>7. CASE StartHelper
  <2>1. /\ runtime = "apple" /\ launch.pc = "running" /\ helpers[launch.n].pc = "none"
        /\ UNCHANGED <<runtime, context, boxes, launch, sweep, freed, launchUse>>
    BY <1>7 DEF StartHelper
  <2>2. launch.n \in Attempts
    <3>1. launch.n > 0
      BY <2>1 DEF AttemptKept
    <3> QED
      BY <1>0, <1>f, <3>1
  <2>3. PICK transport \in {"publish", "stdio"} : Helper(launch.n, [pc |-> transport, cli |-> "none"])
    BY <1>7 DEF StartHelper
  <2>4. /\ helpers' \in [Attempts -> HelperRecord] /\ helpers'[launch.n].cli = "none"
        /\ helpers'[launch.n].pc \in {"publish", "stdio"}
        /\ \A b \in Attempts : b # launch.n => helpers'[b] = helpers[b]
    <3>1. [pc |-> transport, cli |-> "none"] \in HelperRecord
      BY DEF HelperRecord
    <3> QED
      BY <2>2, <2>3, <3>1, HelperFields
  <2>5. LaunchTypes' /\ AttemptKept'
    BY <2>1, <2>4 DEF LaunchTypes, AttemptKept
  <2>6. HelpersKept'
    BY <1>f, <2>1, <2>4 DEF HelpersKept, WithBox
  <2>7. PlacesKept'
    <3>1. \A e \in Endpoints : boxes[e] # NoLaunch /\ boxes[e].owner # Foreign => boxes[e].owner # launch.n
      BY <2>1 DEF PlacesKept
    <3>2. \A e \in Endpoints : boxes[e] # NoLaunch /\ boxes[e].owner # Foreign => boxes[e].owner \in Attempts
      BY <1>0, <1>b
    <3> QED
      BY <2>1, <2>4, <3>1, <3>2 DEF PlacesKept
  <2> QED
    BY <2>5, <2>6, <2>7
<1>o. \A e \in Endpoints : boxes[e] # NoLaunch /\ boxes[e].owner # Foreign => boxes[e].owner \in Attempts
  BY <1>0, <1>b
\* A helper that runs, and takes no step into the states that exclude a container or a command.
<1>8. ASSUME NEW a \in Attempts, NEW h \in HelperRecord, Helper(a, h), helpers[a].pc # "none",
             h.pc \notin {"none", "stdio"}, h.pc \notin {"ready", "bridge"} => h.cli = "none",
             UNCHANGED <<runtime, context, boxes, launch, freed, launchUse>>,
             sweep' \in [0 .. MaxAttempts -> SweepRecord]
      PROVE  LaunchInv'
  <2>1. /\ helpers' \in [Attempts -> HelperRecord] /\ helpers'[a] = h
        /\ \A b \in Attempts : b # a => helpers'[b] = helpers[b]
    BY <1>8, HelperFields
  <2>2. LaunchTypes' /\ AttemptKept'
    BY <1>8, <2>1 DEF LaunchTypes, AttemptKept
  <2>3. HelpersKept'
    BY <1>8, <2>1 DEF HelpersKept
  <2>4. PlacesKept'
    BY <1>8, <1>o, <2>1 DEF PlacesKept
  <2> QED
    BY <2>2, <2>3, <2>4
<1>9. ASSUME NEW a \in Attempts, HelperRuns(a) \/ HelperEnds(a)
      PROVE  LaunchInv'
  <2>1. UNCHANGED <<runtime, context, boxes, launch, freed, launchUse>> /\ sweep' \in [0 .. MaxAttempts -> SweepRecord]
    BY <1>9 DEF HelperRuns, HelperEnds, LaunchTypes
  <2>2. helpers[a].pc # "none"
    BY <1>9 DEF HelperRuns, HelperEnds
  <2>3. PICK h \in {[pc |-> "ready", cli |-> "start"], [pc |-> "bridge", cli |-> "start"], [pc |-> "end", cli |-> "none"]} :
          Helper(a, h)
    BY <1>9 DEF HelperRuns, HelperEnds
  <2>4. h \in HelperRecord /\ h.pc \notin {"none", "stdio"} /\ (h.pc \notin {"ready", "bridge"} => h.cli = "none")
    BY DEF HelperRecord
  <2> QED
    BY <1>8, <2>1, <2>2, <2>3, <2>4
<1>10. ASSUME NEW a \in Attempts, PublishStarts(a)
       PROVE  LaunchInv'
  <2>1. UNCHANGED <<runtime, context, boxes, launch, freed, launchUse>> /\ helpers[a].pc = "ready"
    BY <1>10 DEF PublishStarts
  <2>2. sweep' \in [0 .. MaxAttempts -> SweepRecord]
    <3>1. [pc |-> "inspect", target |-> NoLaunch] \in SweepRecord
      BY DEF SweepRecord
    <3> QED
      BY <1>0, <1>10, <3>1 DEF PublishStarts, LaunchTypes
  <2>3. CASE Helper(a, [helpers[a] EXCEPT !.pc = "bridge"])
    <3> DEFINE h == [helpers[a] EXCEPT !.pc = "bridge"]
    <3>1. h \in HelperRecord /\ h.pc = "bridge"
      BY <1>h DEF HelperRecord
    <3> QED
      BY <1>8, <2>1, <2>2, <2>3, <3>1
  <2>4. CASE Helper(a, [pc |-> "sweep", cli |-> "none"])
    <3>1. [pc |-> "sweep", cli |-> "none"] \in HelperRecord
      BY DEF HelperRecord
    <3> QED
      BY <1>8, <2>1, <2>2, <2>4, <3>1
  <2> QED
    BY <1>10, <2>3, <2>4 DEF PublishStarts
<1>11. ASSUME NEW a \in Attempts, HelperCreates(a)
       PROVE  LaunchInv'
  <2>1. /\ helpers[a].cli = "start" /\ UNCHANGED <<runtime, context, launch, sweep, freed>>
    BY <1>11 DEF HelperCreates
  <2>2. /\ helpers[a].pc \in {"ready", "bridge"} /\ runtime = "apple" /\ a <= launch.n
        /\ a = launch.n => launch.pc \in WithBox \/ a \in freed
    BY <2>1 DEF HelpersKept
  <2>3. ASSUME NEW cli \in {"attached", "none"}
        PROVE  LET k == [helpers[a] EXCEPT !.cli = cli] IN k \in HelperRecord /\ k.pc = helpers[a].pc /\ k.cli = cli
    BY <1>h DEF HelperRecord
  <2>4. CASE Create(Home, a, TRUE) /\ Helper(a, [helpers[a] EXCEPT !.cli = "attached"])
    <3> DEFINE h == [helpers[a] EXCEPT !.cli = "attached"]
    <3>0. h \in HelperRecord /\ h.pc = helpers[a].pc
      BY <2>3
    <3>e. Helper(a, h)
      BY <2>4
    <3> HIDE DEF h
    <3>1. /\ helpers' \in [Attempts -> HelperRecord] /\ helpers'[a] = h
          /\ \A b \in Attempts : b # a => helpers'[b] = helpers[b]
      BY <3>0, <3>e, HelperFields
    <3>2. /\ boxes' \in [Endpoints -> Box \union {NoLaunch}] /\ launchUse' \in UseRecord
          /\ \A d \in Endpoints : boxes'[d] # NoLaunch => boxes'[d].id \in 1 .. launchUse'.ids
          /\ boxes'[Home].owner = a /\ \A d \in Endpoints : d # Home => boxes'[d] = boxes[d]
      <4>1. a \in 0 .. MaxAttempts
        BY <1>0
      <4> QED
        BY <2>4, <4>1, CreateFields
    <3>3. LaunchTypes' /\ AttemptKept'
      BY <2>1, <3>1, <3>2 DEF LaunchTypes, AttemptKept
    <3>4. HelpersKept'
      BY <2>1, <2>2, <3>0, <3>1 DEF HelpersKept
    <3>5. PlacesKept'
      BY <1>o, <2>1, <2>2, <3>0, <3>1, <3>2 DEF PlacesKept
    <3> QED
      BY <3>3, <3>4, <3>5
  <2>5. CASE Helper(a, [helpers[a] EXCEPT !.cli = "none"]) /\ UNCHANGED <<boxes, launchUse>>
    <3> DEFINE h == [helpers[a] EXCEPT !.cli = "none"]
    <3>0. h \in HelperRecord /\ h.pc = helpers[a].pc
      BY <2>3
    <3>1. sweep' \in [0 .. MaxAttempts -> SweepRecord]
      BY <2>1 DEF LaunchTypes
    <3>e. Helper(a, h)
      BY <2>5
    <3> HIDE DEF h
    <3> QED
      BY <1>8, <2>1, <2>2, <2>5, <3>0, <3>1, <3>e
  <2> QED
    BY <1>11, <2>4, <2>5 DEF HelperCreates
\* One command of a cleanup: at most the container looked for goes, and "ok" means it is gone.
<1>12. ASSUME NEW c \in 0 .. MaxAttempts, NEW token \in 0 .. MaxAttempts, NEW e \in Endpoints,
              NEW result \in {"ok", "failed", "go"}, Inspect(c, token, e, result) \/ Delete(c, e, result)
       PROVE  /\ sweep' \in [0 .. MaxAttempts -> SweepRecord]
              /\ launchUse' \in UseRecord /\ launchUse'.ids = launchUse.ids
              /\ boxes' \in [Endpoints -> Box \union {NoLaunch}]
              /\ \A d \in Endpoints : boxes'[d] \in {boxes[d], NoLaunch}
              /\ result = "ok" => runtime = "orb" \/ boxes'[e] = NoLaunch
  <2>1. sweep' \in [0 .. MaxAttempts -> SweepRecord]
    <3>1. Idle \in SweepRecord
      BY DEF Idle, SweepRecord
    <3>2. boxes[e] # NoLaunch => boxes[e].id \in Nat
      BY DEF LaunchTypes, Box
    <3>3. ASSUME NEW id \in Nat PROVE [pc |-> "delete", target |-> id] \in SweepRecord
      BY DEF SweepRecord
    <3>4. PICK s \in SweepRecord : sweep' = [sweep EXCEPT ![c] = s]
      BY <1>12, <3>1, <3>2, <3>3 DEF Inspect, Delete, DeletionTarget
    <3> QED
      BY <3>4 DEF LaunchTypes
  <2>2. launchUse' \in UseRecord /\ launchUse'.ids = launchUse.ids
    <3>1. launchUse' = launchUse \/ launchUse' = [launchUse EXCEPT !.failures = @ + 1]
      BY <1>12 DEF Inspect, Delete
    <3> QED
      BY <3>1 DEF LaunchTypes, UseRecord
  <2>3. boxes' = boxes \/ boxes' = [boxes EXCEPT ![e] = NoLaunch]
    BY <1>12 DEF Inspect, Delete
  <2>4. /\ boxes' \in [Endpoints -> Box \union {NoLaunch}]
        /\ \A d \in Endpoints : boxes'[d] \in {boxes[d], NoLaunch}
    BY <2>3 DEF LaunchTypes
  <2>5. ASSUME result = "ok" PROVE runtime = "orb" \/ boxes'[e] = NoLaunch
    <3>1. CASE Inspect(c, token, e, result)
      BY <2>5, <3>1 DEF Inspect
    <3>2. CASE Delete(c, e, result)
      <4>1. boxes' = [boxes EXCEPT ![e] = NoLaunch] /\ boxes \in [Endpoints -> Box \union {NoLaunch}]
        BY <2>5, <3>2 DEF Delete, LaunchTypes
      <4> QED
        BY <4>1
    <3> QED
      BY <1>12, <3>1, <3>2
  <2> QED
    BY <2>1, <2>2, <2>4, <2>5
<1>13. ASSUME NEW a \in Attempts, FallbackCleanup(a)
       PROVE  LaunchInv'
  <2>1. PICK result \in {"ok", "failed", "go"} :
         /\ Inspect(a, a, Home, result) \/ Delete(a, Home, result)
         /\ helpers' = CASE result = "go" -> helpers
                         [] result = "ok" -> [helpers EXCEPT ![a] = [pc |-> "stdio", cli |-> "none"]]
                         [] OTHER -> [helpers EXCEPT ![a].pc = "end"]
    BY <1>13 DEF FallbackCleanup
  <2>2. /\ sweep' \in [0 .. MaxAttempts -> SweepRecord]
        /\ launchUse' \in UseRecord /\ launchUse'.ids = launchUse.ids
        /\ boxes' \in [Endpoints -> Box \union {NoLaunch}]
        /\ \A d \in Endpoints : boxes'[d] \in {boxes[d], NoLaunch}
        /\ result = "ok" => runtime = "orb" \/ boxes'[Home] = NoLaunch
    <3>1. a \in 0 .. MaxAttempts
      BY <1>0
    <3> QED
      BY <1>12, <2>1, <3>1
  <2>3. helpers[a].pc = "sweep" /\ UNCHANGED <<runtime, context, launch, freed>>
    BY <1>13 DEF FallbackCleanup
  <2>4. /\ runtime = "apple" /\ helpers[a].cli = "none"
        /\ a <= launch.n /\ (a = launch.n => launch.pc \in WithBox \/ a \in freed)
    BY <2>3 DEF HelpersKept
  <2>5. /\ helpers' \in [Attempts -> HelperRecord]
        /\ \A b \in Attempts : b # a => helpers'[b] = helpers[b]
        /\ helpers'[a].pc \in {"sweep", "stdio", "end"} /\ helpers'[a].cli = "none"
        /\ helpers'[a].pc = "stdio" => result = "ok"
    <3>0. helpers \in [Attempts -> HelperRecord]
      BY DEF LaunchTypes
    <3>1. CASE result = "go"
      BY <2>1, <2>3, <2>4, <3>0, <3>1
    <3>2. CASE result = "ok"
      <4> DEFINE h == [pc |-> "stdio", cli |-> "none"]
      <4>1. h \in HelperRecord /\ h.pc = "stdio" /\ h.cli = "none"
        BY DEF HelperRecord
      <4>2. helpers' = [helpers EXCEPT ![a] = h]
        BY <2>1, <3>2
      <4> HIDE DEF h
      <4> QED
        BY <3>0, <3>2, <4>1, <4>2
    <3>3. CASE result = "failed"
      <4> DEFINE h == [helpers[a] EXCEPT !.pc = "end"]
      <4>1. h \in HelperRecord /\ h.pc = "end" /\ h.cli = "none"
        BY <1>h, <2>4 DEF HelperRecord
      <4>2. helpers' = [helpers EXCEPT ![a] = h]
        BY <2>1, <3>3
      <4> HIDE DEF h
      <4> QED
        BY <3>0, <3>3, <4>1, <4>2
    <3> QED
      BY <3>1, <3>2, <3>3
  <2>6. LaunchTypes' /\ AttemptKept'
    <3>1. \A d \in Endpoints : boxes'[d] # NoLaunch => boxes'[d].id \in 1 .. launchUse'.ids
      BY <2>2 DEF LaunchTypes
    <3> QED
      BY <2>2, <2>3, <2>5, <3>1 DEF LaunchTypes, AttemptKept
  <2>7. HelpersKept'
    BY <2>3, <2>4, <2>5 DEF HelpersKept
  <2>8. PlacesKept'
    <3>1. ASSUME NEW e \in Endpoints, boxes'[e] # NoLaunch, boxes'[e].owner # Foreign
          PROVE  boxes'[e] = boxes[e] /\ boxes[e].owner \in Attempts /\ e = Home
                 /\ helpers[boxes[e].owner].pc \notin {"none", "stdio"}
      BY <1>o, <2>2, <2>4, <3>1 DEF PlacesKept
    <3>2. ASSUME NEW e \in Endpoints, boxes'[e] # NoLaunch, boxes'[e].owner # Foreign
          PROVE  helpers'[boxes'[e].owner].pc \notin {"none", "stdio"}
      <4>1. boxes'[e] = boxes[e] /\ boxes[e].owner \in Attempts /\ e = Home
            /\ helpers[boxes[e].owner].pc \notin {"none", "stdio"}
        BY <3>1, <3>2
      <4>2. result # "ok"
        BY <2>2, <2>4, <3>2, <4>1
      <4> QED
        BY <2>5, <4>1, <4>2
    <3> QED
      BY <2>3, <2>4, <3>1, <3>2 DEF PlacesKept
  <2> QED
    BY <2>6, <2>7, <2>8
<1>14. CASE EndSession
  <2>1. /\ launch' \in LaunchRecord /\ launch'.n = launch.n /\ launch'.endpoint = launch.endpoint
        /\ launch'.pc = "kill" /\ launch'.waypipe = launch.waypipe /\ launch'.cli = launch.cli
    BY <1>0, <1>14 DEF EndSession, LaunchRecord
  <2>2. /\ launch.pc = "running" /\ UNCHANGED <<runtime, context, boxes, helpers, freed, launchUse>>
        /\ sweep' \in [0 .. MaxAttempts -> SweepRecord]
    BY <1>14 DEF EndSession, LaunchTypes
  <2> QED
    BY <2>1, <2>2, LaunchMoves DEF WithBox, AttemptKept
<1>15. CASE KillProcesses
  <2>1. /\ launch' \in LaunchRecord /\ launch'.n = launch.n /\ launch'.endpoint = launch.endpoint
        /\ launch'.pc = "sweep" /\ launch'.waypipe = "none" /\ launch'.cli = "none"
    <3>1. launch' = [NoProcesses(launch) EXCEPT !.pc = "sweep"]
      BY <1>15 DEF KillProcesses
    <3> QED
      BY <1>0, <3>1, EndedFields
  <2>2. /\ launch.pc = "kill" /\ UNCHANGED <<runtime, context, boxes, helpers, freed, launchUse>>
        /\ sweep' \in [0 .. MaxAttempts -> SweepRecord]
    <3>1. [pc |-> "inspect", target |-> NoLaunch] \in SweepRecord
      BY DEF SweepRecord
    <3> QED
      BY <1>0, <1>15, <3>1 DEF KillProcesses, LaunchTypes
  <2> QED
    BY <2>1, <2>2, LaunchMoves DEF WithBox
<1>16. CASE SessionCleanup
  <2>1. PICK result \in {"ok", "failed", "go"} :
         /\ Inspect(Foreign, launch.n, launch.endpoint, result) \/ Delete(Foreign, launch.endpoint, result)
         /\ launch' = CASE result = "go" -> launch
                        [] result = "ok" -> [launch EXCEPT !.pc = "idle"]
                        [] OTHER -> [launch EXCEPT !.pc = "kill"]
         /\ freed' = IF result = "ok" THEN freed \union {launch.n} ELSE freed
    BY <1>16 DEF SessionCleanup
  <2>2. /\ sweep' \in [0 .. MaxAttempts -> SweepRecord]
        /\ launchUse' \in UseRecord /\ launchUse'.ids = launchUse.ids
        /\ boxes' \in [Endpoints -> Box \union {NoLaunch}]
        /\ \A d \in Endpoints : boxes'[d] \in {boxes[d], NoLaunch}
        /\ result = "ok" => runtime = "orb" \/ boxes'[launch.endpoint] = NoLaunch
    <3>1. Foreign \in 0 .. MaxAttempts
      BY <1>0
    <3> QED
      BY <1>f, <1>12, <2>1, <3>1
  <2>3. /\ launch.pc = "sweep" /\ UNCHANGED <<runtime, context, helpers>>
        /\ launch.n > 0 /\ launch.n \notin freed /\ launch.cli = "none" /\ launch.waypipe = "none"
    BY <1>f, <1>16 DEF SessionCleanup, AttemptKept
  <2>4. launch.n \in Attempts
    BY <1>0, <1>f, <2>3
  <2>5. /\ launch' \in LaunchRecord /\ launch'.n = launch.n /\ launch'.endpoint = launch.endpoint
        /\ launch'.waypipe = "none" /\ launch'.cli = "none"
        /\ launch'.pc \in {"sweep", "idle", "kill"} /\ (launch'.pc = "idle" <=> result = "ok")
    <3>1. PICK pc \in {"sweep", "idle", "kill"} : launch' = [launch EXCEPT !.pc = pc] /\ (pc = "idle" <=> result = "ok")
      <4>1. launch = [launch EXCEPT !.pc = "sweep"]
        BY <1>0, <2>3 DEF LaunchRecord
      <4> QED
        BY <2>1, <4>1
    <3> QED
      BY <1>0, <2>3, <3>1 DEF LaunchRecord
  <2>6. LaunchTypes'
    <3>1. \A d \in Endpoints : boxes'[d] # NoLaunch => boxes'[d].id \in 1 .. launchUse'.ids
      BY <2>2 DEF LaunchTypes
    <3>2. freed' \subseteq Attempts
      BY <2>1, <2>4 DEF LaunchTypes
    <3> QED
      BY <2>2, <2>3, <2>5, <3>1, <3>2 DEF LaunchTypes
  <2>7. AttemptKept'
    <3>1. launch'.pc # "idle" => freed' = freed
      BY <2>1, <2>5
    <3>2. \A a \in freed' : a <= launch.n
      BY <1>f, <2>1 DEF AttemptKept
    <3> QED
      BY <2>3, <2>5, <3>1, <3>2 DEF AttemptKept
  <2>8. HelpersKept'
    <3>1. launch'.pc \in WithBox \/ launch.n \in freed'
      BY <2>1, <2>5 DEF WithBox
    <3> QED
      BY <2>3, <2>5, <3>1 DEF HelpersKept
  <2>9. PlacesKept'
    <3>1. launch'.pc \in WithBox \/ launch.n \in freed'
      BY <2>1, <2>5 DEF WithBox
    <3>2. ASSUME NEW e \in Endpoints, boxes'[e] # NoLaunch, boxes'[e].owner # Foreign, runtime = "docker"
          PROVE  e = launch.endpoint /\ boxes[e].owner = launch.n /\ launch'.pc \in WithBox
      <4>1. boxes'[e] = boxes[e] /\ e = launch.endpoint /\ boxes[e].owner = launch.n
        BY <2>2, <3>2 DEF PlacesKept
      <4>2. result # "ok"
        BY <2>2, <3>2, <4>1
      <4> QED
        BY <2>5, <4>1, <4>2 DEF WithBox
    <3>3. \A d \in Endpoints : boxes'[d] # NoLaunch => boxes'[d] = boxes[d]
      BY <2>2
    <3> QED
      BY <2>3, <2>5, <3>1, <3>2, <3>3 DEF PlacesKept
  <2> QED
    BY <2>6, <2>7, <2>8, <2>9
<1>17. CASE UNCHANGED launchVars
  BY <1>17 DEF launchVars, LaunchTypes, AttemptKept, HelpersKept, PlacesKept
<1> QED
  BY <1>1, <1>2, <1>3, <1>4, <1>5, <1>6, <1>7, <1>9, <1>10, <1>11, <1>13, <1>14, <1>15, <1>16, <1>17 DEF LaunchNext

\* launch_checked_session, run_container_relay and the cleanup, for any endpoints, attempts,
\* failures and containers of others: a launch that failed and a cleanup that succeeded leave no
\* container of the attempt, and the stdio fallback never runs beside what it replaces.
THEOREM LaunchesLeaveNothing == LaunchSpec => []LaunchInvariant
<1>1. LaunchInv => LaunchInvariant
  <2> SUFFICES ASSUME LaunchInv PROVE LaunchInvariant
    OBVIOUS
  <2> USE DEF LaunchInv
  <2>0. MaxAttempts \in Nat /\ Attempts = 1 .. MaxAttempts /\ Foreign = 0 /\ launch \in LaunchRecord
        /\ \A e \in Endpoints : boxes[e] # NoLaunch => boxes[e].owner \in 0 .. MaxAttempts
    BY LaunchAssumption DEF Attempts, Foreign, LaunchTypes, Box
  <2>1. LaunchTypeOK
    <3>1. /\ launch.n \in 0 .. MaxAttempts
          /\ launch.pc \in {"idle", "query", "prepare", "spawn", "socket", "running", "kill", "sweep"}
          /\ launch.waypipe \in {"none", "up"} /\ launch.cli \in {"none", "start", "attached"}
      BY <2>0 DEF LaunchRecord
    <3>2. \A c \in 0 .. MaxAttempts : sweep[c].pc \in {"none", "inspect", "delete"}
      BY DEF LaunchTypes, SweepRecord
    <3>3. \A a \in Attempts : /\ helpers[a].pc \in {"none", "publish", "ready", "sweep", "stdio", "bridge", "end"}
                              /\ helpers[a].cli \in {"none", "start", "attached"}
      BY DEF LaunchTypes, HelperRecord
    <3>4. Foreign \in 0 .. MaxAttempts /\ Attempts \subseteq 0 .. MaxAttempts
      BY <2>0
    <3> QED
      BY <2>0, <3>1, <3>2, <3>3, <3>4 DEF LaunchTypes, LaunchTypeOK
  <2>2. FailedLaunchLeavesNothing
    BY <2>0 DEF AttemptKept, PlacesKept, FailedLaunchLeavesNothing, WithBox
  <2>3. FallbackStartsAlone
    <3> SUFFICES ASSUME NEW a \in Attempts, helpers[a].pc = "stdio", NEW e \in Endpoints,
                        boxes[e] # NoLaunch, boxes[e].owner = a
                 PROVE  FALSE
      BY DEF FallbackStartsAlone
    <3>1. runtime = "apple" /\ a # Foreign
      BY <2>0 DEF HelpersKept
    <3> QED
      BY <3>1 DEF PlacesKept
  <2>4. ReleasedMeansGone
    <3> SUFFICES ASSUME NEW a \in freed, NEW e \in Endpoints, boxes[e] # NoLaunch, boxes[e].owner = a
                 PROVE  runtime = "orb" \/ (runtime = "apple" /\ helpers[a].pc # "none")
      BY DEF ReleasedMeansGone
    <3>1. a # Foreign /\ runtime \in {"apple", "docker", "orb"}
      BY <2>0, LaunchAssumption DEF LaunchTypes
    <3>2. runtime # "docker"
      BY <3>1 DEF PlacesKept, AttemptKept, WithBox
    <3> QED
      BY <3>1, <3>2 DEF PlacesKept
  <2> QED
    BY <2>1, <2>2, <2>3, <2>4 DEF LaunchInvariant
<1> QED
  BY <1>1, LaunchInitInv, LaunchStep, PTL DEF LaunchSpec

-----------------------------------------------------------------------------
(* CleanupQueue.                                                           *)

\* Where the entry's reference is: exactly one of the queue's lists, the
\* reaper's inbox and the reaper's hands.
OnePlace ==
    /\ pending \cap running = {}
    /\ (inbox \cup taken) \cap (pending \cup running) = {}
    /\ acked \cap (inbox \cup taken) = {}
    /\ inbox \cap taken = {}
    /\ reaper # "items" => taken = {}

\* A job in the reaper's hands, or acknowledged, still has its key in
\* `disposing', and everything owned was handed over.
DisposalsKeyed ==
    /\ inbox \cup taken \cup acked \subseteq disposing
    /\ Owned \subseteq enqueued
    /\ disposing \cap (pending \cup running) = {}

\* A worker thread that has not sent its outcome serves a running entry, and an
\* outcome of Ok tells the truth.
WorkersServe ==
    /\ \A j \in Jobs : worker[j] \in {"cleanup", "unwind", "send"} => j \in running
    /\ \A j \in Jobs : outcome[j] # "empty" => j \in running
    /\ \A j \in Jobs : outcome[j] = "ok" => j \in cleaned
    /\ \A j \in Jobs : outcome[j] # "empty" => worker[j] \in {"wake", "none"}

\* Success is reported only for jobs that were cleaned and left the queue.
CompletionFinal ==
    /\ completed \subseteq cleaned
    /\ cleaned \subseteq enqueued
    /\ completed \cap (pending \cup running) = {}

\* The inductive invariant.
CleanupInv ==
    /\ TypeOK
    /\ OnePlace
    /\ DisposalsKeyed
    /\ WorkersServe
    /\ CompletionFinal
    /\ OwnershipRetained
    /\ Cardinality(running) <= MaxRunning

-----------------------------------------------------------------------------

\* The running entries are finitely many.
LEMMA RunningFinite ==
    ASSUME TypeOK
    PROVE  IsFiniteSet(running) /\ Cardinality(running) \in Nat
BY CleanupAssumption, FS_Subset, FS_CardinalityType DEF TypeOK

\* An empty queue satisfies everything.
LEMMA CleanupInit == Init => CleanupInv
<1> SUFFICES ASSUME Init PROVE CleanupInv
  OBVIOUS
<1>1. Cardinality(running) <= MaxRunning
  BY FS_EmptySet, CleanupAssumption DEF Init
<1>2. TypeOK
  <2>1. 0 \in 0 .. MaxReaperFailures
    BY CleanupAssumption
  <2> QED
    BY <2>1 DEF Init, TypeOK
<1> QED
  BY <1>1, <1>2
     DEF Init, CleanupInv, OnePlace, DisposalsKeyed, Owned, WorkersServe,
         CompletionFinal, OwnershipRetained

\* Every step of the owner, of a worker and of the reaper preserves it.
LEMMA CleanupStep == CleanupInv /\ [Next]_vars => CleanupInv'
<1> SUFFICES ASSUME CleanupInv, [Next]_vars PROVE CleanupInv'
  OBVIOUS
<1> USE DEF CleanupInv
<1>f. IsFiniteSet(running) /\ Cardinality(running) \in Nat
  BY RunningFinite
<1>1. ASSUME NEW j \in Jobs, Enqueue(j) PROVE CleanupInv'
  <2>1. TypeOK'
    BY <1>1, CleanupAssumption DEF Enqueue, workerVars, reaperVars, TypeOK
  <2>2. OnePlace' /\ DisposalsKeyed'
    BY <1>1
       DEF Enqueue, workerVars, reaperVars, TypeOK, OnePlace, DisposalsKeyed,
           WorkersServe, Owned
  <2>3. WorkersServe'
    BY <1>1 DEF Enqueue, workerVars, reaperVars, TypeOK, WorkersServe, OnePlace
  <2>4. CompletionFinal' /\ OwnershipRetained'
    BY <1>1
       DEF Enqueue, workerVars, reaperVars, TypeOK, CompletionFinal,
           OwnershipRetained, WorkersServe, OnePlace, DisposalsKeyed, Owned
  <2>5. Cardinality(running') <= MaxRunning
    BY <1>1 DEF Enqueue, workerVars, reaperVars
  <2> QED
    BY <2>1, <2>2, <2>3, <2>4, <2>5
<1>2. ASSUME UiEvent PROVE CleanupInv'
  <2>1. TypeOK'
    BY <1>2, CleanupAssumption DEF UiEvent, workerVars, TypeOK
  <2>2. OnePlace' /\ DisposalsKeyed'
    BY <1>2
       DEF UiEvent, workerVars, TypeOK, OnePlace, DisposalsKeyed, WorkersServe,
           Owned
  <2>3. WorkersServe'
    BY <1>2 DEF UiEvent, workerVars, TypeOK, WorkersServe, OnePlace
  <2>4. CompletionFinal' /\ OwnershipRetained'
    BY <1>2
       DEF UiEvent, workerVars, TypeOK, CompletionFinal, OwnershipRetained,
           WorkersServe, OnePlace, DisposalsKeyed, Owned
  <2>5. Cardinality(running') <= MaxRunning
    BY <1>2 DEF UiEvent, workerVars
  <2> QED
    BY <2>1, <2>2, <2>3, <2>4, <2>5
<1>3. ASSUME NEW j \in Jobs, ScanEmpty(j) PROVE CleanupInv'
  <2>1. TypeOK'
    BY <1>3, CleanupAssumption DEF ScanEmpty, workerVars, reaperVars, TypeOK
  <2>2. OnePlace' /\ DisposalsKeyed'
    BY <1>3
       DEF ScanEmpty, workerVars, reaperVars, TypeOK, OnePlace, DisposalsKeyed,
           WorkersServe, Owned
  <2>3. WorkersServe'
    BY <1>3
       DEF ScanEmpty, workerVars, reaperVars, TypeOK, WorkersServe, OnePlace
  <2>4. CompletionFinal' /\ OwnershipRetained'
    BY <1>3
       DEF ScanEmpty, workerVars, reaperVars, TypeOK, CompletionFinal,
           OwnershipRetained, WorkersServe, OnePlace, DisposalsKeyed, Owned
  <2>5. Cardinality(running') <= MaxRunning
    BY <1>3 DEF ScanEmpty, workerVars, reaperVars
  <2> QED
    BY <2>1, <2>2, <2>3, <2>4, <2>5
<1>4. ASSUME NEW j \in Jobs, ScanErr(j) PROVE CleanupInv'
  <2>1. TypeOK'
    BY <1>4, CleanupAssumption DEF ScanErr, Unscan, Retry, reaperVars, TypeOK
  <2>2. OnePlace' /\ DisposalsKeyed'
    BY <1>4
       DEF ScanErr, Unscan, Retry, reaperVars, TypeOK, OnePlace, DisposalsKeyed,
           WorkersServe, Owned
  <2>3. WorkersServe'
    BY <1>4
       DEF ScanErr, Unscan, Retry, reaperVars, TypeOK, WorkersServe, OnePlace
  <2>4. CompletionFinal' /\ OwnershipRetained'
    BY <1>4
       DEF ScanErr, Unscan, Retry, reaperVars, TypeOK, CompletionFinal,
           OwnershipRetained, WorkersServe, OnePlace, DisposalsKeyed, Owned
  <2>5. Cardinality(running') <= MaxRunning
    <3>1. j \in running /\ running' = running \ {j}
      BY <1>4 DEF ScanErr, Unscan, TypeOK
    <3>2. Cardinality(running') = Cardinality(running) - 1
      BY <1>f, <3>1, FS_RemoveElement
    <3> QED
      BY <1>f, <3>2, CleanupAssumption
  <2> QED
    BY <2>1, <2>2, <2>3, <2>4, <2>5
<1>5. ASSUME NEW j \in Jobs, ScanOkUi(j) PROVE CleanupInv'
  <2>1. TypeOK'
    BY <1>5, CleanupAssumption DEF ScanOkUi, Unscan, Retire, TypeOK
  <2>2. OnePlace' /\ DisposalsKeyed'
    BY <1>5
       DEF ScanOkUi, Unscan, Retire, TypeOK, OnePlace, DisposalsKeyed,
           WorkersServe, Owned
  <2>3. WorkersServe'
    BY <1>5 DEF ScanOkUi, Unscan, Retire, TypeOK, WorkersServe, OnePlace
  <2>4. CompletionFinal' /\ OwnershipRetained'
    BY <1>5
       DEF ScanOkUi, Unscan, Retire, TypeOK, CompletionFinal, OwnershipRetained,
           WorkersServe, OnePlace, DisposalsKeyed, Owned
  <2>5. Cardinality(running') <= MaxRunning
    <3>1. j \in running /\ running' = running \ {j}
      BY <1>5 DEF ScanOkUi, Unscan, TypeOK
    <3>2. Cardinality(running') = Cardinality(running) - 1
      BY <1>f, <3>1, FS_RemoveElement
    <3> QED
      BY <1>f, <3>2, CleanupAssumption
  <2> QED
    BY <2>1, <2>2, <2>3, <2>4, <2>5
<1>6. ASSUME NEW j \in Jobs, ScanOkReaper(j) PROVE CleanupInv'
  <2>1. TypeOK'
    BY <1>6, CleanupAssumption DEF ScanOkReaper, Unscan, reaperVars, TypeOK
  <2>2. OnePlace' /\ DisposalsKeyed'
    BY <1>6
       DEF ScanOkReaper, Unscan, reaperVars, TypeOK, OnePlace, DisposalsKeyed,
           WorkersServe, Owned
  <2>3. WorkersServe'
    BY <1>6 DEF ScanOkReaper, Unscan, reaperVars, TypeOK, WorkersServe, OnePlace
  <2>4. CompletionFinal' /\ OwnershipRetained'
    BY <1>6
       DEF ScanOkReaper, Unscan, reaperVars, TypeOK, CompletionFinal,
           OwnershipRetained, WorkersServe, OnePlace, DisposalsKeyed, Owned
  <2>5. Cardinality(running') <= MaxRunning
    <3>1. j \in running /\ running' = running \ {j}
      BY <1>6 DEF ScanOkReaper, Unscan, TypeOK
    <3>2. Cardinality(running') = Cardinality(running) - 1
      BY <1>f, <3>1, FS_RemoveElement
    <3> QED
      BY <1>f, <3>2, CleanupAssumption
  <2> QED
    BY <2>1, <2>2, <2>3, <2>4, <2>5
<1>7. ASSUME EndScan PROVE CleanupInv'
  <2>1. TypeOK'
    BY <1>7, CleanupAssumption DEF EndScan, workerVars, reaperVars, TypeOK
  <2>2. OnePlace' /\ DisposalsKeyed'
    BY <1>7
       DEF EndScan, workerVars, reaperVars, TypeOK, OnePlace, DisposalsKeyed,
           WorkersServe, Owned
  <2>3. WorkersServe'
    BY <1>7 DEF EndScan, workerVars, reaperVars, TypeOK, WorkersServe, OnePlace
  <2>4. CompletionFinal' /\ OwnershipRetained'
    BY <1>7
       DEF EndScan, workerVars, reaperVars, TypeOK, CompletionFinal,
           OwnershipRetained, WorkersServe, OnePlace, DisposalsKeyed, Owned
  <2>5. Cardinality(running') <= MaxRunning
    BY <1>7 DEF EndScan, workerVars, reaperVars
  <2> QED
    BY <2>1, <2>2, <2>3, <2>4, <2>5
<1>8. ASSUME NEW j \in Jobs, PumpSpawn(j) PROVE CleanupInv'
  <2>1. TypeOK'
    BY <1>8, CleanupAssumption DEF PumpSpawn, MayStart, reaperVars, TypeOK
  <2>2. OnePlace' /\ DisposalsKeyed'
    BY <1>8
       DEF PumpSpawn, MayStart, reaperVars, TypeOK, OnePlace, DisposalsKeyed,
           WorkersServe, Owned
  <2>3. WorkersServe'
    BY <1>8 DEF PumpSpawn, MayStart, reaperVars, TypeOK, WorkersServe, OnePlace
  <2>4. CompletionFinal' /\ OwnershipRetained'
    BY <1>8
       DEF PumpSpawn, MayStart, reaperVars, TypeOK, CompletionFinal,
           OwnershipRetained, WorkersServe, OnePlace, DisposalsKeyed, Owned
  <2>5. Cardinality(running') <= MaxRunning
    <3>1. /\ Cardinality(running) < MaxRunning
          /\ j \notin running /\ running' = running \cup {j}
      BY <1>8 DEF PumpSpawn, MayStart, TypeOK, OnePlace
    <3>2. Cardinality(running') = Cardinality(running) + 1
      BY <1>f, <3>1, FS_AddElement
    <3> QED
      BY <1>f, <3>1, <3>2, CleanupAssumption
  <2> QED
    BY <2>1, <2>2, <2>3, <2>4, <2>5
<1>9. ASSUME NEW j \in Jobs, PumpSpawnFails(j) PROVE CleanupInv'
  <2>1. TypeOK'
    BY <1>9, CleanupAssumption
       DEF PumpSpawnFails, MayStart, Retry, reaperVars, TypeOK
  <2>2. OnePlace' /\ DisposalsKeyed'
    BY <1>9
       DEF PumpSpawnFails, MayStart, Retry, reaperVars, TypeOK, OnePlace,
           DisposalsKeyed, WorkersServe, Owned
  <2>3. WorkersServe'
    BY <1>9
       DEF PumpSpawnFails, MayStart, Retry, reaperVars, TypeOK, WorkersServe,
           OnePlace
  <2>4. CompletionFinal' /\ OwnershipRetained'
    BY <1>9
       DEF PumpSpawnFails, MayStart, Retry, reaperVars, TypeOK, CompletionFinal,
           OwnershipRetained, WorkersServe, OnePlace, DisposalsKeyed, Owned
  <2>5. Cardinality(running') <= MaxRunning
    BY <1>9 DEF PumpSpawnFails, MayStart, Retry, reaperVars
  <2> QED
    BY <2>1, <2>2, <2>3, <2>4, <2>5
<1>10. ASSUME EndPump PROVE CleanupInv'
  <2>1. TypeOK'
    BY <1>10, CleanupAssumption DEF EndPump, workerVars, reaperVars, TypeOK
  <2>2. OnePlace' /\ DisposalsKeyed'
    BY <1>10
       DEF EndPump, workerVars, reaperVars, TypeOK, OnePlace, DisposalsKeyed,
           WorkersServe, Owned
  <2>3. WorkersServe'
    BY <1>10 DEF EndPump, workerVars, reaperVars, TypeOK, WorkersServe, OnePlace
  <2>4. CompletionFinal' /\ OwnershipRetained'
    BY <1>10
       DEF EndPump, workerVars, reaperVars, TypeOK, CompletionFinal,
           OwnershipRetained, WorkersServe, OnePlace, DisposalsKeyed, Owned
  <2>5. Cardinality(running') <= MaxRunning
    BY <1>10 DEF EndPump, workerVars, reaperVars
  <2> QED
    BY <2>1, <2>2, <2>3, <2>4, <2>5
<1>11. ASSUME NEW j \in Jobs, BackoffElapses(j) PROVE CleanupInv'
  <2>1. TypeOK'
    BY <1>11, CleanupAssumption
       DEF BackoffElapses, workerVars, reaperVars, TypeOK
  <2>2. OnePlace' /\ DisposalsKeyed'
    BY <1>11
       DEF BackoffElapses, workerVars, reaperVars, TypeOK, OnePlace,
           DisposalsKeyed, WorkersServe, Owned
  <2>3. WorkersServe'
    BY <1>11
       DEF BackoffElapses, workerVars, reaperVars, TypeOK, WorkersServe,
           OnePlace
  <2>4. CompletionFinal' /\ OwnershipRetained'
    BY <1>11
       DEF BackoffElapses, workerVars, reaperVars, TypeOK, CompletionFinal,
           OwnershipRetained, WorkersServe, OnePlace, DisposalsKeyed, Owned
  <2>5. Cardinality(running') <= MaxRunning
    BY <1>11 DEF BackoffElapses, workerVars, reaperVars
  <2> QED
    BY <2>1, <2>2, <2>3, <2>4, <2>5
<1>12. ASSUME DropQueue PROVE CleanupInv'
  <2>1. TypeOK'
    BY <1>12, CleanupAssumption DEF DropQueue, Retire, workerVars, TypeOK
  <2>2. OnePlace' /\ DisposalsKeyed'
    BY <1>12
       DEF DropQueue, Retire, workerVars, TypeOK, OnePlace, DisposalsKeyed,
           WorkersServe, Owned
  <2>3. WorkersServe'
    BY <1>12 DEF DropQueue, Retire, workerVars, TypeOK, WorkersServe, OnePlace
  <2>4. CompletionFinal' /\ OwnershipRetained'
    BY <1>12
       DEF DropQueue, Retire, workerVars, TypeOK, CompletionFinal,
           OwnershipRetained, WorkersServe, OnePlace, DisposalsKeyed, Owned
  <2>5. Cardinality(running') <= MaxRunning
    BY <1>12 DEF DropQueue, Retire, workerVars
  <2> QED
    BY <2>1, <2>2, <2>3, <2>4, <2>5
<1>13. ASSUME NEW j \in Jobs, CleanupOk(j) PROVE CleanupInv'
  <2>1. TypeOK'
    BY <1>13, CleanupAssumption DEF CleanupOk, queueVars, reaperVars, TypeOK
  <2>2. OnePlace' /\ DisposalsKeyed'
    BY <1>13
       DEF CleanupOk, queueVars, reaperVars, TypeOK, OnePlace, DisposalsKeyed,
           WorkersServe, Owned
  <2>3. WorkersServe'
    BY <1>13
       DEF CleanupOk, queueVars, reaperVars, TypeOK, WorkersServe, OnePlace
  <2>4. CompletionFinal' /\ OwnershipRetained'
    BY <1>13
       DEF CleanupOk, queueVars, reaperVars, TypeOK, CompletionFinal,
           OwnershipRetained, WorkersServe, OnePlace, DisposalsKeyed, Owned
  <2>5. Cardinality(running') <= MaxRunning
    BY <1>13 DEF CleanupOk, queueVars, reaperVars
  <2> QED
    BY <2>1, <2>2, <2>3, <2>4, <2>5
<1>14. ASSUME NEW j \in Jobs, CleanupErr(j) PROVE CleanupInv'
  <2>1. TypeOK'
    BY <1>14, CleanupAssumption DEF CleanupErr, queueVars, reaperVars, TypeOK
  <2>2. OnePlace' /\ DisposalsKeyed'
    BY <1>14
       DEF CleanupErr, queueVars, reaperVars, TypeOK, OnePlace, DisposalsKeyed,
           WorkersServe, Owned
  <2>3. WorkersServe'
    BY <1>14
       DEF CleanupErr, queueVars, reaperVars, TypeOK, WorkersServe, OnePlace
  <2>4. CompletionFinal' /\ OwnershipRetained'
    BY <1>14
       DEF CleanupErr, queueVars, reaperVars, TypeOK, CompletionFinal,
           OwnershipRetained, WorkersServe, OnePlace, DisposalsKeyed, Owned
  <2>5. Cardinality(running') <= MaxRunning
    BY <1>14 DEF CleanupErr, queueVars, reaperVars
  <2> QED
    BY <2>1, <2>2, <2>3, <2>4, <2>5
<1>15. ASSUME NEW j \in Jobs, DropClone(j) PROVE CleanupInv'
  <2>1. TypeOK'
    BY <1>15, CleanupAssumption DEF DropClone, queueVars, reaperVars, TypeOK
  <2>2. OnePlace' /\ DisposalsKeyed'
    BY <1>15
       DEF DropClone, queueVars, reaperVars, TypeOK, OnePlace, DisposalsKeyed,
           WorkersServe, Owned
  <2>3. WorkersServe'
    BY <1>15
       DEF DropClone, queueVars, reaperVars, TypeOK, WorkersServe, OnePlace
  <2>4. CompletionFinal' /\ OwnershipRetained'
    BY <1>15
       DEF DropClone, queueVars, reaperVars, TypeOK, CompletionFinal,
           OwnershipRetained, WorkersServe, OnePlace, DisposalsKeyed, Owned
  <2>5. Cardinality(running') <= MaxRunning
    BY <1>15 DEF DropClone, queueVars, reaperVars
  <2> QED
    BY <2>1, <2>2, <2>3, <2>4, <2>5
<1>16. ASSUME NEW j \in Jobs, SendOutcome(j) PROVE CleanupInv'
  <2>1. TypeOK'
    BY <1>16, CleanupAssumption DEF SendOutcome, queueVars, reaperVars, TypeOK
  <2>2. OnePlace' /\ DisposalsKeyed'
    BY <1>16
       DEF SendOutcome, queueVars, reaperVars, TypeOK, OnePlace, DisposalsKeyed,
           WorkersServe, Owned
  <2>3. WorkersServe'
    BY <1>16
       DEF SendOutcome, queueVars, reaperVars, TypeOK, WorkersServe, OnePlace
  <2>4. CompletionFinal' /\ OwnershipRetained'
    BY <1>16
       DEF SendOutcome, queueVars, reaperVars, TypeOK, CompletionFinal,
           OwnershipRetained, WorkersServe, OnePlace, DisposalsKeyed, Owned
  <2>5. Cardinality(running') <= MaxRunning
    BY <1>16 DEF SendOutcome, queueVars, reaperVars
  <2> QED
    BY <2>1, <2>2, <2>3, <2>4, <2>5
<1>17. ASSUME NEW j \in Jobs, WorkerWakes(j) PROVE CleanupInv'
  <2>1. TypeOK'
    BY <1>17, CleanupAssumption DEF WorkerWakes, queueVars, reaperVars, TypeOK
  <2>2. OnePlace' /\ DisposalsKeyed'
    BY <1>17
       DEF WorkerWakes, queueVars, reaperVars, TypeOK, OnePlace, DisposalsKeyed,
           WorkersServe, Owned
  <2>3. WorkersServe'
    BY <1>17
       DEF WorkerWakes, queueVars, reaperVars, TypeOK, WorkersServe, OnePlace
  <2>4. CompletionFinal' /\ OwnershipRetained'
    BY <1>17
       DEF WorkerWakes, queueVars, reaperVars, TypeOK, CompletionFinal,
           OwnershipRetained, WorkersServe, OnePlace, DisposalsKeyed, Owned
  <2>5. Cardinality(running') <= MaxRunning
    BY <1>17 DEF WorkerWakes, queueVars, reaperVars
  <2> QED
    BY <2>1, <2>2, <2>3, <2>4, <2>5
<1>18. ASSUME ReaperTake PROVE CleanupInv'
  <2>1. TypeOK'
    BY <1>18, CleanupAssumption DEF ReaperTake, workerVars, TypeOK
  <2>2. OnePlace' /\ DisposalsKeyed'
    BY <1>18
       DEF ReaperTake, workerVars, TypeOK, OnePlace, DisposalsKeyed,
           WorkersServe, Owned
  <2>3. WorkersServe'
    BY <1>18 DEF ReaperTake, workerVars, TypeOK, WorkersServe, OnePlace
  <2>4. CompletionFinal' /\ OwnershipRetained'
    BY <1>18
       DEF ReaperTake, workerVars, TypeOK, CompletionFinal, OwnershipRetained,
           WorkersServe, OnePlace, DisposalsKeyed, Owned
  <2>5. Cardinality(running') <= MaxRunning
    BY <1>18 DEF ReaperTake, workerVars
  <2> QED
    BY <2>1, <2>2, <2>3, <2>4, <2>5
<1>19. ASSUME NEW j \in Jobs, ReaperDispose(j) PROVE CleanupInv'
  <2>1. TypeOK'
    BY <1>19, CleanupAssumption DEF ReaperDispose, queueVars, workerVars, TypeOK
  <2>2. OnePlace' /\ DisposalsKeyed'
    BY <1>19
       DEF ReaperDispose, queueVars, workerVars, TypeOK, OnePlace,
           DisposalsKeyed, WorkersServe, Owned
  <2>3. WorkersServe'
    BY <1>19
       DEF ReaperDispose, queueVars, workerVars, TypeOK, WorkersServe, OnePlace
  <2>4. CompletionFinal' /\ OwnershipRetained'
    BY <1>19
       DEF ReaperDispose, queueVars, workerVars, TypeOK, CompletionFinal,
           OwnershipRetained, WorkersServe, OnePlace, DisposalsKeyed, Owned
  <2>5. Cardinality(running') <= MaxRunning
    BY <1>19 DEF ReaperDispose, queueVars, workerVars
  <2> QED
    BY <2>1, <2>2, <2>3, <2>4, <2>5
<1>20. ASSUME ReaperPoll PROVE CleanupInv'
  <2>1. TypeOK'
    BY <1>20, CleanupAssumption DEF ReaperPoll, workerVars, TypeOK
  <2>2. OnePlace' /\ DisposalsKeyed'
    BY <1>20
       DEF ReaperPoll, workerVars, TypeOK, OnePlace, DisposalsKeyed,
           WorkersServe, Owned
  <2>3. WorkersServe'
    BY <1>20 DEF ReaperPoll, workerVars, TypeOK, WorkersServe, OnePlace
  <2>4. CompletionFinal' /\ OwnershipRetained'
    BY <1>20
       DEF ReaperPoll, workerVars, TypeOK, CompletionFinal, OwnershipRetained,
           WorkersServe, OnePlace, DisposalsKeyed, Owned
  <2>5. Cardinality(running') <= MaxRunning
    BY <1>20 DEF ReaperPoll, workerVars
  <2> QED
    BY <2>1, <2>2, <2>3, <2>4, <2>5
<1>21. ASSUME ReaperNoQueue PROVE CleanupInv'
  <2>1. TypeOK'
    BY <1>21, CleanupAssumption DEF ReaperNoQueue, queueVars, workerVars, TypeOK
  <2>2. OnePlace' /\ DisposalsKeyed'
    BY <1>21
       DEF ReaperNoQueue, queueVars, workerVars, TypeOK, OnePlace,
           DisposalsKeyed, WorkersServe, Owned
  <2>3. WorkersServe'
    BY <1>21
       DEF ReaperNoQueue, queueVars, workerVars, TypeOK, WorkersServe, OnePlace
  <2>4. CompletionFinal' /\ OwnershipRetained'
    BY <1>21
       DEF ReaperNoQueue, queueVars, workerVars, TypeOK, CompletionFinal,
           OwnershipRetained, WorkersServe, OnePlace, DisposalsKeyed, Owned
  <2>5. Cardinality(running') <= MaxRunning
    BY <1>21 DEF ReaperNoQueue, queueVars, workerVars
  <2> QED
    BY <2>1, <2>2, <2>3, <2>4, <2>5
<1>22. ASSUME ReaperRest PROVE CleanupInv'
  <2>1. TypeOK'
    BY <1>22, CleanupAssumption DEF ReaperRest, workerVars, TypeOK
  <2>2. OnePlace' /\ DisposalsKeyed'
    BY <1>22
       DEF ReaperRest, workerVars, TypeOK, OnePlace, DisposalsKeyed,
           WorkersServe, Owned
  <2>3. WorkersServe'
    BY <1>22 DEF ReaperRest, workerVars, TypeOK, WorkersServe, OnePlace
  <2>4. CompletionFinal' /\ OwnershipRetained'
    BY <1>22
       DEF ReaperRest, workerVars, TypeOK, CompletionFinal, OwnershipRetained,
           WorkersServe, OnePlace, DisposalsKeyed, Owned
  <2>5. Cardinality(running') <= MaxRunning
    BY <1>22 DEF ReaperRest, workerVars
  <2> QED
    BY <2>1, <2>2, <2>3, <2>4, <2>5
<1>23. ASSUME ReaperWakes PROVE CleanupInv'
  <2>1. TypeOK'
    BY <1>23, CleanupAssumption DEF ReaperWakes, queueVars, workerVars, TypeOK
  <2>2. OnePlace' /\ DisposalsKeyed'
    BY <1>23
       DEF ReaperWakes, queueVars, workerVars, TypeOK, OnePlace, DisposalsKeyed,
           WorkersServe, Owned
  <2>3. WorkersServe'
    BY <1>23
       DEF ReaperWakes, queueVars, workerVars, TypeOK, WorkersServe, OnePlace
  <2>4. CompletionFinal' /\ OwnershipRetained'
    BY <1>23
       DEF ReaperWakes, queueVars, workerVars, TypeOK, CompletionFinal,
           OwnershipRetained, WorkersServe, OnePlace, DisposalsKeyed, Owned
  <2>5. Cardinality(running') <= MaxRunning
    BY <1>23 DEF ReaperWakes, queueVars, workerVars
  <2> QED
    BY <2>1, <2>2, <2>3, <2>4, <2>5
<1>24. ASSUME UNCHANGED vars PROVE CleanupInv'
  <2>1. TypeOK'
    BY <1>24, CleanupAssumption DEF vars, TypeOK
  <2>2. OnePlace' /\ DisposalsKeyed'
    BY <1>24 DEF vars, TypeOK, OnePlace, DisposalsKeyed, WorkersServe, Owned
  <2>3. WorkersServe'
    BY <1>24 DEF vars, TypeOK, WorkersServe, OnePlace
  <2>4. CompletionFinal' /\ OwnershipRetained'
    BY <1>24
       DEF vars, TypeOK, CompletionFinal, OwnershipRetained, WorkersServe,
           OnePlace, DisposalsKeyed, Owned
  <2>5. Cardinality(running') <= MaxRunning
    BY <1>24 DEF vars
  <2> QED
    BY <2>1, <2>2, <2>3, <2>4, <2>5
<1> QED
  BY <1>1, <1>2, <1>3, <1>4, <1>5, <1>6, <1>7, <1>8, <1>9, <1>10, <1>11, <1>12,
     <1>13, <1>14, <1>15, <1>16, <1>17, <1>18, <1>19, <1>20, <1>21, <1>22, <1>23, <1>24
     DEF Next, QueueStep, WorkerStep, ReaperStep

\* A job with any reference left is in one of the lists keys() reads.
LEMMA LiveIsOwned ==
    ASSUME CleanupInv, NEW j \in Jobs, Live(j)
    PROVE  j \in Owned
BY DEF CleanupInv, Live, WorkerHolds, WorkersServe, DisposalsKeyed, Owned

\* A job stays in the queue until its cleanup returned Ok (retry(), Drop).
THEOREM OwnershipNeverLost == Spec => []OwnershipRetained
<1>1. CleanupInv => OwnershipRetained
  BY DEF CleanupInv
<1> QED
  BY <1>1, CleanupInit, CleanupStep, PTL DEF Spec

\* session_busy and display_busy answer true until the resources are destroyed.
THEOREM KeysBusyUntilReleased == Spec => []BusyUntilReleased
<1>1. CleanupInv => BusyUntilReleased
  <2> SUFFICES ASSUME CleanupInv, NEW j \in enqueued, Live(j)
               PROVE  /\ SessionBusy(KeyOf[j].profile)
                      /\ DisplayBusy(KeyOf[j].slot)
    BY DEF BusyUntilReleased
  <2>1. j \in Owned
    BY LiveIsOwned DEF CleanupInv, TypeOK
  <2> QED
    BY <2>1 DEF SessionBusy, DisplayBusy
<1> QED
  BY <1>1, CleanupInit, CleanupStep, PTL DEF Spec

\* What the two together say of a job: it is kept, and its keys are busy.
THEOREM QueueIsKept == Spec => []QueueInvariant
BY OwnershipNeverLost, KeysBusyUntilReleased, PTL DEF QueueInvariant

\* No more than MaxRunning cleanup threads hold a job at any time (pump()).
THEOREM CleanupsStayBounded == Spec => []CleanupsBounded
<1>1. CleanupInv => CleanupsBounded
  <2> SUFFICES ASSUME CleanupInv PROVE CleanupsBounded
    OBVIOUS
  <2> DEFINE holders == {j \in Jobs : WorkerHolds(j)}
  <2>1. holders \subseteq running
    BY DEF CleanupInv, WorkersServe, WorkerHolds
  <2>2. IsFiniteSet(running) /\ Cardinality(running) \in Nat
    BY RunningFinite DEF CleanupInv
  <2>3. /\ Cardinality(holders) <= Cardinality(running)
        /\ IsFiniteSet(holders)
    BY <2>1, <2>2, FS_Subset
  <2>4. Cardinality(holders) \in Nat
    BY <2>3, FS_CardinalityType
  <2> HIDE DEF holders
  <2>5. Cardinality(holders) <= MaxRunning
    BY <2>2, <2>3, <2>4, CleanupAssumption DEF CleanupInv
  <2> QED
    BY <2>5 DEF holders, CleanupsBounded
<1> QED
  BY <1>1, CleanupInit, CleanupStep, PTL DEF Spec

\* The last reference to a job is dropped by the reaper, never by the UI thread
\* or by a worker ("never on AppKit").
THEOREM OnlyReaperDestroys == Spec => DestroyedByReaper
<1>1. ASSUME CleanupInv, [Next]_vars, NEW j \in Jobs, Live(j), ~Live(j)',
             owner # "reaper"
      PROVE  j \in taken
  <2> USE DEF Live, WorkerHolds
  <2>1. ASSUME NEW k \in Jobs, WorkerStep(k) PROVE j \in taken
    BY <1>1, <2>1
       DEF WorkerStep, CleanupOk, CleanupErr, DropClone, SendOutcome,
           WorkerWakes, queueVars, reaperVars, CleanupInv, TypeOK, WorkersServe
  <2>2. ASSUME NEW k \in Jobs,
               Enqueue(k) \/ BackoffElapses(k) \/ ScanEmpty(k)
        PROVE  j \in taken
    BY <1>1, <2>2
       DEF Enqueue, BackoffElapses, ScanEmpty, workerVars, reaperVars
  <2>3. ASSUME NEW k \in Jobs, ScanErr(k) \/ ScanOkUi(k) PROVE j \in taken
    BY <1>1, <2>3 DEF ScanErr, ScanOkUi, Unscan, Retry, reaperVars
  <2>4. ASSUME NEW k \in Jobs, PumpSpawn(k) \/ PumpSpawnFails(k)
        PROVE  j \in taken
    BY <1>1, <2>4
       DEF PumpSpawn, PumpSpawnFails, Retry, reaperVars, CleanupInv, TypeOK
  <2>5. ASSUME NEW k \in Jobs, ReaperDispose(k) PROVE j \in taken
    BY <1>1, <2>5 DEF ReaperDispose, queueVars, workerVars
  <2>6. CASE UiEvent \/ EndScan \/ EndPump \/ DropQueue
    BY <1>1, <2>6
       DEF UiEvent, EndScan, EndPump, DropQueue, workerVars, reaperVars
  <2>7. CASE ReaperTake \/ ReaperPoll \/ ReaperNoQueue \/ ReaperRest \/ ReaperWakes
    BY <1>1, <2>7
       DEF ReaperTake, ReaperPoll, ReaperNoQueue, ReaperRest, ReaperWakes,
           queueVars, workerVars, reaperVars
  <2>8. CASE UNCHANGED vars
    BY <1>1, <2>8 DEF vars
  <2>9. ~ \E k \in Jobs : ScanOkReaper(k)
    BY <1>1 DEF ScanOkReaper
  <2> QED
    BY <1>1, <2>1, <2>2, <2>3, <2>4, <2>5, <2>6, <2>7, <2>8, <2>9
       DEF Next, QueueStep, ReaperStep
<1>2. CleanupInv /\ [Next]_vars =>
         [\A j \in Jobs :
            Live(j) /\ ~Live(j)' => owner = "reaper" \/ j \in taken]_vars
  BY <1>1
<1> QED
  BY <1>2, CleanupInit, CleanupStep, PTL DEF Spec, DestroyedByReaper

\* complete(Ok) is called at most once per job, and only after its cleanup.
THEOREM CompletionReportedOnce == Spec => CompletedOnce
<1>1. CleanupInv /\ [Next]_vars =>
         [\A j \in Jobs : ScanOkUi(j) => j \in cleaned \ completed]_vars
  BY DEF CleanupInv, TypeOK, WorkersServe, CompletionFinal, ScanOkUi
<1> QED
  BY <1>1, CleanupInit, CleanupStep, PTL DEF Spec, CompletedOnce

-----------------------------------------------------------------------------
(* The refinement of JobOwnership.                                         *)

\* What is on its way out was cleaned up, and is a job that was handed over.
LEMMA DisposedWereCleaned ==
    ASSUME CleanupInv
    PROVE  disposing \subseteq cleaned /\ Owned \subseteq enqueued /\ enqueued \subseteq Jobs
BY DEF CleanupInv, TypeOK, OwnershipRetained, DisposalsKeyed, Owned

\* A step that changes none of the histories, the keys and the references is a stutter.
LEMMA QuietStep ==
    ASSUME UNCHANGED <<enqueued, cleaned, completed>>, Owned' = Owned,
           \A j \in Jobs : Live(j)' <=> Live(j), enqueued \subseteq Jobs
    PROVE  UNCHANGED Ownership!ownershipVars
BY DEF Ownership!ownershipVars

LEMMA OwnershipStep ==
    CleanupInv /\ [Next]_vars => [Ownership!OwnershipNext]_(Ownership!ownershipVars)
<1> SUFFICES ASSUME CleanupInv, [Next]_vars
             PROVE  [Ownership!OwnershipNext]_(Ownership!ownershipVars)
  OBVIOUS
<1> DEFINE Released == {j \in enqueued : ~Live(j)}
<1>0. /\ disposing \subseteq cleaned /\ Owned \subseteq enqueued /\ enqueued \subseteq Jobs
      /\ \A j \in Jobs : Live(j) => j \in Owned
  BY DisposedWereCleaned, LiveIsOwned
<1>1. ASSUME NEW j \in Jobs, Enqueue(j) PROVE Ownership!Accept(j)
  <2>1. Owned' = Owned \cup {j} /\ enqueued' = enqueued \cup {j} /\ j \notin enqueued
    BY <1>1 DEF Enqueue, Owned
  <2>2. Live(j)' /\ \A k \in Jobs \ {j} : Live(k)' <=> Live(k)
    BY <1>1 DEF Enqueue, workerVars, reaperVars, Live, WorkerHolds
  <2>3. Released' = Released
    BY <1>0, <2>1, <2>2
  <2> QED
    BY <1>1, <2>1, <2>3 DEF Enqueue, workerVars, Ownership!Accept
<1>2. ASSUME NEW j \in Jobs, CleanupOk(j) PROVE Ownership!Finish(j)
  <2>1. j \in running /\ Live(j)
    BY <1>2 DEF CleanupOk, CleanupInv, WorkersServe, Live
  <2>2. j \in enqueued \ Released
    BY <1>0, <2>1 DEF Owned
  <2>3. Owned' = Owned /\ \A k \in Jobs : Live(k)' <=> Live(k)
    BY <1>2 DEF CleanupOk, queueVars, reaperVars, Owned, Live, WorkerHolds, CleanupInv, TypeOK
  <2>4. Released' = Released
    BY <1>0, <1>2, <2>3 DEF CleanupOk
  <2> QED
    BY <1>2, <2>2, <2>3, <2>4 DEF CleanupOk, Ownership!Finish
<1>3. ASSUME NEW j \in Jobs, ScanOkUi(j) PROVE Ownership!Report(j)
  <2>1. j \in running /\ j \in cleaned /\ j \notin completed /\ j \in enqueued
    BY <1>3 DEF ScanOkUi, CleanupInv, TypeOK, WorkersServe, CompletionFinal
  <2>2. j \notin Released
    BY <2>1 DEF Live
  <2>3. Owned' = Owned /\ \A k \in Jobs : Live(k)' <=> Live(k)
    BY <1>3, <2>1 DEF ScanOkUi, Unscan, Owned, Live, WorkerHolds
  <2>4. Released' = Released
    BY <1>0, <1>3, <2>3 DEF ScanOkUi
  <2> QED
    BY <1>3, <2>1, <2>2, <2>3, <2>4 DEF ScanOkUi, Ownership!Report
<1>4. ASSUME NEW j \in Jobs, ScanOkReaper(j) PROVE Ownership!Release(j)
  <2>1. j \in running /\ j \in cleaned /\ j \in enqueued /\ Live(j)
    BY <1>4 DEF ScanOkReaper, CleanupInv, TypeOK, WorkersServe, CompletionFinal, Live
  <2>2. /\ j \notin pending \cup disposing \cup inbox \cup taken
        /\ worker[j] \in {"wake", "none"} /\ running' = running \ {j}
    BY <1>4, <2>1 DEF ScanOkReaper, Unscan, CleanupInv, OnePlace, DisposalsKeyed, WorkersServe
  <2>3. Owned' = Owned \ {j} /\ ~Live(j)' /\ \A k \in Jobs \ {j} : Live(k)' <=> Live(k)
    BY <1>4, <2>1, <2>2 DEF ScanOkReaper, reaperVars, Owned, Live, WorkerHolds
  <2>4. Released' = Released \cup {j} /\ j \notin Released
    BY <1>0, <1>4, <2>1, <2>3 DEF ScanOkReaper
  <2> QED
    BY <1>4, <2>1, <2>3, <2>4 DEF ScanOkReaper, Ownership!Release
<1>5. ASSUME NEW j \in Jobs, ReaperDispose(j) PROVE Ownership!Release(j)
  <2>1. j \in taken /\ j \in disposing /\ j \in cleaned /\ j \in enqueued /\ Live(j)
    BY <1>0, <1>5 DEF ReaperDispose, CleanupInv, DisposalsKeyed, Owned, Live
  <2>2. j \notin pending \cup running \cup inbox /\ worker[j] \notin {"cleanup", "unwind"}
    BY <2>1 DEF CleanupInv, OnePlace, WorkersServe
  <2>3. Owned' = Owned /\ ~Live(j)' /\ \A k \in Jobs \ {j} : Live(k)' <=> Live(k)
    BY <1>5, <2>2 DEF ReaperDispose, queueVars, workerVars, Owned, Live, WorkerHolds
  <2>4. Released' = Released \cup {j} /\ j \notin Released
    BY <1>0, <1>5, <2>1, <2>3 DEF ReaperDispose
  <2> QED
    BY <1>5, <2>1, <2>3, <2>4 DEF ReaperDispose, workerVars, Ownership!Release
<1>6. CASE UiEvent \/ ReaperPoll
  <2> DEFINE S == disposing \cap acked
  <2>1. S \cap (pending \cup running \cup inbox \cup taken) = {} /\ S \subseteq enqueued
    BY <1>0 DEF CleanupInv, OnePlace, DisposalsKeyed, Owned
  <2>2. \A j \in S : ~Live(j)
    BY <1>0, <2>1 DEF CleanupInv, WorkersServe, Live, WorkerHolds
  <2>3. Owned' = Owned \ S /\ \A k \in Jobs : Live(k)' <=> Live(k)
    BY <1>6, <2>1 DEF UiEvent, ReaperPoll, workerVars, Owned, Live, WorkerHolds
  <2>4. Released' = Released /\ S \subseteq Released /\ S \in SUBSET Jobs
    BY <1>0, <1>6, <2>1, <2>2, <2>3 DEF UiEvent, ReaperPoll
  <2>5. Ownership!Forget(S)
    BY <1>6, <2>3, <2>4 DEF UiEvent, ReaperPoll, workerVars, Ownership!Forget
  <2> QED
    BY <2>4, <2>5 DEF Ownership!OwnershipNext
<1>7. ASSUME NEW j \in Jobs, ScanErr(j) \/ ScanEmpty(j) \/ PumpSpawn(j) \/ PumpSpawnFails(j)
                             \/ BackoffElapses(j)
      PROVE  UNCHANGED Ownership!ownershipVars
  <2>1. UNCHANGED <<enqueued, cleaned, completed>>
    BY <1>7 DEF ScanErr, ScanEmpty, PumpSpawn, PumpSpawnFails, BackoffElapses, workerVars
  <2>2. Owned' = Owned
    BY <1>7
       DEF ScanErr, ScanEmpty, PumpSpawn, PumpSpawnFails, BackoffElapses, Unscan, Retry, Owned,
           CleanupInv, TypeOK
  <2>3. \A k \in Jobs : Live(k)' <=> Live(k)
    BY <1>7
       DEF ScanErr, ScanEmpty, PumpSpawn, PumpSpawnFails, BackoffElapses, Unscan, Retry,
           workerVars, reaperVars, Live, WorkerHolds, CleanupInv, TypeOK
  <2> QED
    BY <1>0, <2>1, <2>2, <2>3, QuietStep
<1>8. ASSUME NEW j \in Jobs, CleanupErr(j) \/ DropClone(j) \/ SendOutcome(j) \/ WorkerWakes(j)
      PROVE  UNCHANGED Ownership!ownershipVars
  <2>1. UNCHANGED <<enqueued, cleaned, completed>> /\ Owned' = Owned
    BY <1>8 DEF CleanupErr, DropClone, SendOutcome, WorkerWakes, queueVars, Owned
  <2>2. \A k \in Jobs : Live(k)' <=> Live(k)
    BY <1>8
       DEF CleanupErr, DropClone, SendOutcome, WorkerWakes, queueVars, reaperVars, Live,
           WorkerHolds, CleanupInv, TypeOK, WorkersServe
  <2> QED
    BY <1>0, <2>1, <2>2, QuietStep
<1>9. CASE EndScan \/ EndPump \/ DropQueue \/ ReaperTake \/ ReaperNoQueue \/ ReaperRest
           \/ ReaperWakes \/ UNCHANGED vars
  <2>1. UNCHANGED <<enqueued, cleaned, completed>> /\ Owned' = Owned
    BY <1>9 DEF EndScan, EndPump, DropQueue, ReaperTake, ReaperNoQueue, ReaperRest, ReaperWakes,
                queueVars, workerVars, vars, Owned
  <2>2. \A k \in Jobs : Live(k)' <=> Live(k)
    BY <1>9 DEF EndScan, EndPump, DropQueue, ReaperTake, ReaperNoQueue, ReaperRest, ReaperWakes,
                queueVars, workerVars, reaperVars, vars, Live, WorkerHolds, CleanupInv, OnePlace
  <2> QED
    BY <1>0, <2>1, <2>2, QuietStep
<1> QED
  BY <1>1, <1>2, <1>3, <1>4, <1>5, <1>6, <1>7, <1>8, <1>9
     DEF Next, QueueStep, WorkerStep, ReaperStep, Ownership!OwnershipNext

\* The queue, its workers and the reaper implement the ownership the module promises
\* (enqueue(), poll(), Drop and the reaper's loop together).
THEOREM QueueImplementsOwnership == Spec => JobsKept
<1>1. Init => Ownership!OwnershipInit
  BY DEF Init, Owned, Ownership!OwnershipInit
<1>2. Spec => Ownership!OwnershipSpec
  BY <1>1, CleanupInit, CleanupStep, OwnershipStep, PTL DEF Spec, Ownership!OwnershipSpec
<1> QED
  BY <1>2, CompletionReportedOnce, OnlyReaperDestroys DEF JobsKept
=============================================================================
