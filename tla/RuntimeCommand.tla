---------------------------- MODULE RuntimeCommand ----------------------------
(***************************************************************************)
(* runtime_commands.rs: a runtime command run with a deadline.  The command *)
(* leads a process group of its own, may leave a descendant that keeps its  *)
(* pipes, may not read its input and may write without end.  Bytes are      *)
(* counted in chunks.                                                      *)
(***************************************************************************)
EXTENDS Integers

CONSTANTS
    InputChunks,   \* what capture_with_input has to write (0: capture)
    MaxOutput,     \* MAX_OUTPUT_BYTES, in chunks
    MaxWritten     \* bound: chunks the command writes, above MaxOutput

ASSUME RuntimeCommandAssumption ==
    {InputChunks, MaxOutput, MaxWritten} \subseteq Nat /\ MaxWritten > MaxOutput

VARIABLES
    leader,    \* the child: "run", "exited", "killed" (dying in the kernel), "reaped"
    kin,       \* a descendant: "none", "run", "dead"
    kinPipes,  \* the descendant still holds the output pipes
    wrote,     \* chunks the group wrote
    cap        \* capture_child_inner: [pc, group, read, eof, stdin, result]

runtimeCommandVars == <<leader, kin, kinPipes, wrote, cap>>

Alive(p) == p = "run"

RuntimeCommandTypeOK ==
    /\ leader \in {"none", "run", "exited", "killed", "reaped"} /\ kin \in {"none", "run", "dead"}
    /\ kinPipes \in BOOLEAN /\ wrote \in 0 .. MaxWritten
    /\ cap.pc \in {"idle", "start", "loop", "drop", "reap", "returned"} /\ cap.group \in BOOLEAN
    /\ cap.read \in 0 .. MaxOutput
    /\ cap.stdin \in 0 .. InputChunks /\ cap.eof \in BOOLEAN
    /\ cap.result \in {"none", "ok", "timeout", "io"}

RuntimeCommandInit ==
    /\ leader = "none" /\ kin = "none" /\ kinPipes = FALSE /\ wrote = 0
    /\ cap = [pc |-> "idle", group |-> FALSE, read |-> 0, eof |-> FALSE, stdin |-> InputChunks,
              result |-> "none"]

-----------------------------------------------------------------------------
(***************************************************************************)
(* The group.                                                              *)
(***************************************************************************)
\* capture and capture_with_input: the child leads a process group of its own.
Spawn ==
    /\ cap.pc = "idle"
    /\ leader' = "run" /\ cap' = [cap EXCEPT !.pc = "start"]
    /\ UNCHANGED <<kin, kinPipes, wrote>>

LeaderForks(keeps) ==
    /\ Alive(leader) /\ kin = "none"
    /\ kin' = "run" /\ kinPipes' = keeps
    /\ UNCHANGED <<leader, wrote, cap>>

GroupWrites ==
    /\ Alive(leader) \/ (Alive(kin) /\ kinPipes)
    /\ wrote < MaxWritten /\ ~cap.eof
    /\ wrote' = wrote + 1
    /\ UNCHANGED <<leader, kin, kinPipes, cap>>

LeaderExits ==
    /\ Alive(leader) /\ leader' = "exited"
    /\ UNCHANGED <<kin, kinPipes, wrote, cap>>

KinEnds ==
    /\ Alive(kin) /\ kin' = "dead" /\ kinPipes' = FALSE
    /\ UNCHANGED <<leader, wrote, cap>>

\* A killed child leaves the kernel when it can.
KillTakesEffect ==
    /\ leader = "killed" /\ leader' = "exited"
    /\ UNCHANGED <<kin, kinPipes, wrote, cap>>

-----------------------------------------------------------------------------
(***************************************************************************)
(* The poll loop.                                                          *)
(***************************************************************************)
Fail(result) == cap' = [cap EXCEPT !.pc = "drop", !.result = result]

\* getpgid, asked once; macOS does not answer for a child that has already exited.
FindGroup ==
    /\ cap.pc = "start"
    /\ \E group \in IF Alive(leader) THEN {TRUE} ELSE BOOLEAN :
         cap' = [cap EXCEPT !.pc = "loop", !.group = group]
    /\ UNCHANGED <<leader, kin, kinPipes, wrote>>

\* read_pipe: a chunk, the end of the pipes, or more than the limit.
ReadPipe ==
    /\ cap.pc = "loop" /\ ~cap.eof
    /\ \/ /\ cap.read < wrote /\ cap.read < MaxOutput
          /\ cap' = [cap EXCEPT !.read = @ + 1]
       \/ /\ cap.read < wrote /\ cap.read = MaxOutput /\ Fail("io")
       \/ /\ cap.read = wrote /\ ~Alive(leader) /\ ~kinPipes
          /\ cap' = [cap EXCEPT !.eof = TRUE]
    /\ UNCHANGED <<leader, kin, kinPipes, wrote>>

\* The input is written as the child takes it; a closed pipe is an error.
WriteInput ==
    /\ cap.pc = "loop" /\ cap.stdin > 0
    /\ IF Alive(leader) THEN cap' = [cap EXCEPT !.stdin = @ - 1] ELSE Fail("io")
    /\ UNCHANGED <<leader, kin, kinPipes, wrote>>

\* Only after every pipe has ended is the child reaped.
TryWait ==
    /\ cap.pc = "loop" /\ cap.eof /\ cap.stdin = 0 /\ leader = "exited"
    /\ leader' = "reaped" /\ cap' = [cap EXCEPT !.pc = "returned", !.result = "ok"]
    /\ UNCHANGED <<kin, kinPipes, wrote>>

Deadline ==
    /\ cap.pc = "loop" /\ ~(cap.eof /\ cap.stdin = 0 /\ leader = "exited")
    /\ Fail("timeout")
    /\ UNCHANGED <<leader, kin, kinPipes, wrote>>

\* Mutated form: only the child is killed.
KillGroupLeader ==
    /\ cap.pc = "drop"
    /\ cap' = [cap EXCEPT !.pc = "reap"]
    /\ leader' = IF Alive(leader) THEN "killed" ELSE leader
    /\ kin' = kin
    /\ kinPipes' = kinPipes
    /\ UNCHANGED wrote

\* OwnedChild::drop: SIGKILL to the group, then a short wait for the child.
KillGroup ==
    /\ cap.pc = "drop"
    /\ cap' = [cap EXCEPT !.pc = "reap"]
    /\ leader' = IF Alive(leader) THEN "killed" ELSE leader
    /\ kin' = IF cap.group /\ Alive(kin) THEN "dead" ELSE kin
    /\ kinPipes' = (kinPipes /\ ~cap.group)
    /\ UNCHANGED wrote

\* 200 ms of try_wait; then a detached thread waits on.
Reaped ==
    /\ cap.pc = "reap" /\ leader = "exited"
    /\ leader' = "reaped" /\ cap' = [cap EXCEPT !.pc = "returned"]
    /\ UNCHANGED <<kin, kinPipes, wrote>>
DetachReaper ==
    /\ cap.pc = "reap" /\ leader # "exited"
    /\ cap' = [cap EXCEPT !.pc = "returned"]
    /\ UNCHANGED <<leader, kin, kinPipes, wrote>>
DetachedReaps ==
    /\ cap.pc = "returned" /\ leader = "exited"
    /\ leader' = "reaped"
    /\ UNCHANGED <<kin, kinPipes, wrote, cap>>

RuntimeCommandNext ==
    \/ Spawn \/ \E keeps \in BOOLEAN : LeaderForks(keeps)
    \/ GroupWrites \/ LeaderExits \/ KinEnds \/ KillTakesEffect
    \/ FindGroup \/ ReadPipe \/ WriteInput \/ TryWait \/ Deadline \/ KillGroup
    \/ Reaped \/ DetachReaper \/ DetachedReaps

\* The deadline passes, the caller runs, and the kernel ends what was killed.
RuntimeCommandFairness ==
    /\ WF_runtimeCommandVars(FindGroup) /\ WF_runtimeCommandVars(Deadline) /\ WF_runtimeCommandVars(KillGroup)
    /\ WF_runtimeCommandVars(TryWait \/ Reaped \/ DetachReaper)
    /\ WF_runtimeCommandVars(KillTakesEffect) /\ WF_runtimeCommandVars(DetachedReaps)

RuntimeCommandSpec ==
    RuntimeCommandInit /\ [][RuntimeCommandNext]_runtimeCommandVars /\ RuntimeCommandFairness

-----------------------------------------------------------------------------
\* The group is signalled only while its leader's pid cannot have been given to
\* another process: the child is not reaped before the drop has killed the group.
SignalsOwnGroup == cap.pc \in {"start", "loop", "drop"} => leader # "reaped"

\* After an error return nothing of the command's group goes on: neither the child nor
\* a descendant that outlived it, unless the child was gone before its group was asked.
ErrorLeavesNoProcess ==
    cap.pc = "returned" /\ cap.result # "ok" => ~Alive(leader) /\ (cap.group => ~Alive(kin))

\* A result that is Ok holds all the output of every process that had the pipes.
OkIsWhole ==
    cap.result = "ok" => cap.read = wrote /\ cap.stdin = 0

\* The caller returns whatever the command does, and the child is reaped in the end.
CaptureEnds == cap.pc = "start" ~> cap.pc = "returned" /\ leader = "reaped"

\* A captured command never signals a group that is not its own, never reports half an output as
\* a whole one, and leaves nothing of the group running after an error.
CommandInvariant ==
    /\ RuntimeCommandTypeOK
    /\ SignalsOwnGroup
    /\ OkIsWhole
    /\ ErrorLeavesNoProcess
=============================================================================
