----------------------------- MODULE MCResources -----------------------------
(***************************************************************************)
(* What the program starts on the host and has to give back, one part at a *)
(* time: the cleanup queue, a launch with its helpers and containers, a    *)
(* captured runtime command, the image checks, the audio worker, the       *)
(* latency trace and the helpers of research_mcp.  The other parts keep    *)
(* their initial state.                                                    *)
(***************************************************************************)
EXTENDS CleanupQueue, Launch, RuntimeCommand, ImageCheck, Audio, LatencyTrace,
        ResearchMcp, TLC

CONSTANTS j1, j2, p1, s1, s2

VARIABLE part

\* A session on s1 and a second bundle of the same profile on s2.
MCKeyOf == (j1 :> [profile |-> p1, slot |-> s1]) @@ (j2 :> [profile |-> p1, slot |-> s2])

\* A helper is launched, and stopped.
Say(kind) == <<[kind |-> kind, profile |-> NoChild]>>
Call(kind, p) == <<[kind |-> kind, profile |-> p]>>
Silence == <<>>
MCConversations ==
    {Silence} \union {<<Say("initialize"), Say("initialized"), Call("launch", g), Call("stop", g)>> : g \in Gui}

NoFacts == [image |-> TRUE, tools |-> TRUE, audio |-> TRUE, runtime |-> "apple"]
MCInit ==
    /\ part \in {"cleanup", "launch", "command", "check", "audio", "trace", "research"}
    /\ Init /\ LaunchInit /\ RuntimeCommandInit /\ ImageCheckInit /\ AudioInit
    /\ LatencyTraceInit /\ ResearchInit
    /\ part # "launch" => runtime = "apple"
    /\ part # "check" => facts = NoFacts
    /\ session.enabled /\ (part = "research" <=> client.said # Silence)

MCNext ==
    \/ /\ part = "cleanup" /\ Next
       /\ UNCHANGED <<part, launchVars, runtimeCommandVars, imageCheckVars, audioVars,
                       traceVars, researchVars>>
    \/ /\ part = "launch" /\ LaunchNext
       /\ UNCHANGED <<part, vars, runtimeCommandVars, imageCheckVars, audioVars,
                       traceVars, researchVars>>
    \/ /\ part = "command" /\ RuntimeCommandNext
       /\ UNCHANGED <<part, vars, launchVars, imageCheckVars, audioVars,
                       traceVars, researchVars>>
    \/ /\ part = "check" /\ ImageCheckNext
       /\ UNCHANGED <<part, vars, launchVars, runtimeCommandVars, audioVars,
                       traceVars, researchVars>>
    \/ /\ part = "audio" /\ AudioNext
       /\ UNCHANGED <<part, vars, launchVars, runtimeCommandVars, imageCheckVars,
                       traceVars, researchVars>>
    \/ /\ part = "trace" /\ LatencyTraceNext
       /\ UNCHANGED <<part, vars, launchVars, runtimeCommandVars, imageCheckVars,
                       audioVars, researchVars>>
    \/ /\ part = "research" /\ ResearchNext
       /\ UNCHANGED <<part, vars, launchVars, runtimeCommandVars, imageCheckVars,
                       audioVars, traceVars>>

\* The fairness of the parts, each asked for only where the part is explored.
MCFairness ==
    /\ WF_vars(part = "cleanup" /\ UiPoll) /\ WF_vars(part = "cleanup" /\ QueueStep)
    /\ WF_vars(part = "cleanup" /\ ReaperStep)
    /\ \A j \in Jobs : /\ WF_vars(part = "cleanup" /\ WorkerStep(j))
                      /\ WF_vars(part = "cleanup" /\ BackoffElapses(j))
    /\ WF_launchVars(part = "launch" /\ KillProcesses)
    /\ WF_launchVars(part = "launch" /\ SessionCleanup)
    /\ WF_runtimeCommandVars(part = "command" /\ FindGroup)
    /\ WF_runtimeCommandVars(part = "command" /\ Deadline)
    /\ WF_runtimeCommandVars(part = "command" /\ KillGroup)
    /\ WF_runtimeCommandVars(part = "command" /\ (TryWait \/ Reaped \/ DetachReaper))
    /\ WF_runtimeCommandVars(part = "command" /\ KillTakesEffect)
    /\ WF_runtimeCommandVars(part = "command" /\ DetachedReaps)
    /\ \A c \in Checkers : WF_imageCheckVars(part = "check" /\ CheckStep(c))
    /\ WF_audioVars(part = "audio" /\ AudioThread) /\ WF_audioVars(part = "audio" /\ JoinAndClear)
    /\ \A r \in Recorders : WF_traceVars(part = "trace" /\ RecorderStep(r))
    /\ WF_traceVars(part = "trace" /\ TracerStep) /\ WF_traceVars(part = "trace" /\ FinishReturns)
    /\ WF_researchVars(part = "research" /\ ServerStep)
    /\ WF_researchVars(part = "research" /\ VerifyEnds) /\ WF_researchVars(part = "research" /\ Time)

MCSpec ==
    /\ MCInit
    /\ [][MCNext]_<<part, vars, launchVars, runtimeCommandVars, imageCheckVars, audioVars,
                  traceVars, researchVars>>
    /\ MCFairness

\* What the program started on the host ends: a job is released, a cleanup, a captured command,
\* a check, an audio worker, a trace and a helper end, and none holds up who waits for it.
HostWorkEnds ==
    /\ EventuallyReleased /\ CleanupEnds /\ CaptureEnds /\ ChecksEnd /\ AudioStops
    /\ TraceCaptureEnds /\ FinishEnds /\ ServeLive
==============================================================================
