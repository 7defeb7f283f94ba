---------------------------- MODULE PanelSessions ----------------------------
(***************************************************************************)
(* What the control panel shows of one application profile and of one       *)
(* managed display, next to what the event loop does with them.             *)
(*                                                                         *)
(* container_mode.rs keeps its own copies: the state of the session, the    *)
(* launch and stop tasks, the active instances, the profiles that can be    *)
(* stopped, the display rows.  Clicks write some of them at once and send a *)
(* message; the loop (main.rs, session_lifecycle.rs) writes them again as   *)
(* the message, its worker and its cleanup get somewhere.  A click falls    *)
(* between two batches of messages, on what the last one left.              *)
(*                                                                         *)
(* One profile and one display slot; with target = "slot" the profile asks  *)
(* for that very slot by name.  Worker results belong to the current        *)
(* operation (Sessions models the generations).                             *)
(***************************************************************************)
EXTENDS Integers, Sequences, FiniteSets

CONSTANTS
    MaxClicks,    \* bound: clicks, control commands and edits
    MaxInbox,     \* bound: messages of the panel under way
    NoState, NoOp

VARIABLES
    target,       \* where the profile's application goes: "own" display or the managed "slot"
    saved,        \* the profile is in the configuration file
    shown,        \* SESSION_STATES: [instance, force], or NoState
    task,         \* OPERATION_TASKS: "launch", "stop" -> none, active, done
    asked,        \* AUTO_VALIDATION_REQUESTED
    list,         \* ACTIVE_SESSIONS and STOPPABLE_PROFILES: [active, stoppable]
    op,           \* the pending operation: [stage, launch, cancelled, edited, resume], or NoOp
    program,          \* the active session: none, running, stopping, offered (a forced stop)
    jobs,         \* cleanup jobs of the profile: exited, stopped, cancelled, failed
    slot,         \* the managed display: [pending, window, jobs, lost]; window 0 when there is none
    row,          \* its rows in the panel: [pending, closing, window]
    inbox,        \* messages of the panel and the control API
    batch,        \* none, or in a batch that has (dirty) or has not (clean) changed ownership
    clicks,       \* [all, windows]
    known         \* cases the README lists: "stale" (a check found the application in an outdated list),
                  \* "blocked" (a stop met the operation of a blocked launch during a cleanup)

panelVars == <<target, saved, shown, task, asked, list, op, program, jobs, slot, row, inbox, batch,
               clicks, known>>

Instances == {"None", "Starting", "Running", "Stopping", "Exited", "Failed"}
Busy == {"Starting", "Running", "Stopping"}
Stages == {"check", "checked", "display", "launch"}
Shown == [instance : Instances, force : BOOLEAN]
Operations == [stage : Stages, launch : BOOLEAN, cancelled : BOOLEAN, edited : BOOLEAN, resume : BOOLEAN]

ASSUME PanelSessionsAssumption ==
    /\ MaxClicks \in Nat /\ MaxInbox \in Nat
    /\ NoState \notin Shown /\ NoOp \notin Operations

PanelSessionsTypeOK ==
    /\ target \in {"own", "slot"} /\ saved \in BOOLEAN /\ asked \in BOOLEAN /\ known \subseteq {"stale", "blocked"}
    /\ shown \in {NoState} \union Shown
    /\ task \in [{"launch", "stop"} -> {"none", "active", "done"}]
    /\ list \in [active : BOOLEAN, stoppable : {"no", "active", "pending"}]
    /\ op \in {NoOp} \union Operations
    /\ program \in {"none", "running", "stopping", "offered"}
    /\ jobs \subseteq {"exited", "stopped", "cancelled", "rolledback", "failed"}
    /\ slot.jobs \subseteq {"told", "silent"} /\ slot.pending \in BOOLEAN /\ slot.lost \in 0 .. MaxClicks
    /\ row.pending \in BOOLEAN /\ row.closing \in BOOLEAN
    /\ {slot.window, row.window} \subseteq 0 .. MaxClicks
    /\ Len(inbox) <= MaxInbox /\ batch \in {"none", "clean", "dirty"}

PanelSessionsInit ==
    /\ target \in {"own", "slot"} /\ saved = TRUE
    /\ shown = NoState /\ task = [t \in {"launch", "stop"} |-> "none"] /\ asked = FALSE
    /\ list = [active |-> FALSE, stoppable |-> "no"]
    /\ op = NoOp /\ program = "none" /\ jobs = {}
    /\ slot = [pending |-> FALSE, window |-> 0, jobs |-> {}, lost |-> 0]
    /\ row = [pending |-> FALSE, closing |-> FALSE, window |-> 0]
    /\ inbox = <<>> /\ batch = "none" /\ clicks = [all |-> 0, windows |-> 0] /\ known = {}

-----------------------------------------------------------------------------
\* set_session_state.
Labelled(state, instance) ==
    [instance |-> instance, force |-> instance = "Stopping" /\ state # NoState /\ state.force]
Show(instance) == shown' = Labelled(shown, instance)

\* update_operation_task_step and finish_operation_task find the latest task of a key, if any.
Move(status, state) == IF status = "none" THEN "none" ELSE state
Finish(t) == task' = [task EXCEPT ![t] = Move(@, "done")]

\* record_launch_progress, as a state and as the tasks.
Progressed == IF shown = NoState THEN NoState ELSE [instance |-> "Starting", force |-> FALSE]

\* The list of sync_stoppable_profiles: sorted by profile, the active instance first.
Stoppable(o, a) == IF a # "none" THEN "active" ELSE IF o # NoOp THEN "pending" ELSE "no"

-----------------------------------------------------------------------------
\* The panel and the control API.
Click(message) ==
    /\ batch = "none" /\ clicks.all < MaxClicks /\ Len(inbox) < MaxInbox
    /\ clicks' = [clicks EXCEPT !.all = @ + 1]
    /\ inbox' = IF message = "nothing" THEN inbox ELSE Append(inbox, message)
    /\ UNCHANGED <<target, op, program, jobs, slot, list, batch, known>>

\* launchContainerSession; only this profile is there to conflict with.
ClickLaunch ==
    /\ saved
    /\ Show("Starting") /\ task' = [task EXCEPT !["launch"] = "active"]
    /\ Click("start") /\ UNCHANGED <<saved, asked, row>>

\* checkContainerSession.
ClickCheck ==
    /\ saved
    /\ Show("Starting") /\ Click("check") /\ UNCHANGED <<saved, task, asked, row>>

\* The commands of the control API and of the menu write nothing of the panel.
Command ==
    /\ \E message \in {"start", "check", "stop"} : Click(message)
    /\ UNCHANGED <<saved, shown, task, asked, row>>

\* remember_stop_request behind owned_stop_id.
ClickStop ==
    /\ list.stoppable # "no"
    /\ Show("Stopping") /\ task' = [task EXCEPT !["stop"] = "active"]
    /\ \/ Click("stop")                               \* stopContainerSession, releaseDisplayAttachment
       \/ Click(IF list.stoppable = "pending" THEN "stop" ELSE "force")
       \/ list.active /\ Click("force")               \* stopAppleContainerSystem
    /\ UNCHANGED <<saved, asked, row>>

\* openContainerTerminal.
ClickTerminal == saved /\ Click("terminal") /\ UNCHANGED <<saved, shown, task, asked, row>>

\* schedule_automatic_profile_validation, while the panel is drawn.
AutoValidate ==
    /\ saved /\ shown = NoState /\ ~asked
    /\ asked' = TRUE /\ Click("check") /\ UNCHANGED <<saved, shown, task, row>>

\* The edit dialog, and changeContainerSessionPresentation when nothing runs: replace_session and
\* invalidate_profile_validation.
EditProfile ==
    /\ batch = "none" /\ saved /\ clicks.all < MaxClicks
    /\ clicks' = [clicks EXCEPT !.all = @ + 1]
    /\ shown' = NoState /\ asked' = FALSE
    /\ op' = IF op = NoOp THEN NoOp ELSE [op EXCEPT !.edited = TRUE]
    /\ UNCHANGED <<target, saved, task, list, program, jobs, slot, row, inbox, batch, known>>

\* delete_container_session: not while anything of the profile is active or shown so.
DeleteProfile ==
    /\ saved /\ ~list.active /\ (shown # NoState => shown.instance \notin Busy)
    /\ op = NoOp /\ program = "none" /\ jobs = {}         \* remove_session: no ProfileActivity
    /\ saved' = FALSE /\ shown' = NoState /\ asked' = FALSE
    /\ Click("nothing") /\ UNCHANGED <<task, row>>

\* Another process removes it from the file.
ProfileVanishes == Click("nothing") /\ saved /\ saved' = FALSE /\ UNCHANGED <<shown, task, asked, row>>

\* closeManagedDisplay, confirmed; display-close writes no row.
ClickClose ==
    /\ \/ row.window # 0 /\ row' = [row EXCEPT !.closing = TRUE]
       \/ UNCHANGED row
    /\ Click("close") /\ UNCHANGED <<saved, shown, task, asked>>

\* show_create_managed_display_dialog, newDisplayWindow, display-create.
ClickCreate == Click("create") /\ UNCHANGED <<saved, shown, task, asked, row>>

Clicks ==
    \/ ClickLaunch \/ ClickCheck \/ Command \/ ClickStop \/ ClickTerminal \/ AutoValidate
    \/ EditProfile \/ DeleteProfile \/ ProfileVanishes \/ ClickClose \/ ClickCreate

-----------------------------------------------------------------------------
\* reap_exited_container_sessions: the process is there, has exited, or has outlived its stop.
Reaps ==
    {[program |-> program, jobs |-> jobs, shown |-> shown]}
    \union (IF program = "none" THEN {}
            ELSE {[program |-> "none", shown |-> shown,
                   jobs |-> jobs \union {IF program = "running" THEN "exited" ELSE "stopped"}]})
    \union (IF program # "stopping" THEN {}
            ELSE {[program |-> "offered", jobs |-> jobs,
                   shown |-> IF shown = NoState THEN NoState ELSE [shown EXCEPT !.force = TRUE]]})

\* session_busy, display_busy, profile_display_pending of the slot.
SlotBusy == slot.jobs # {} \/ (target = "slot" /\ jobs # {})
SlotPending == target = "slot" /\ op # NoOp /\ op.stage \in {"display", "launch"}
WorkerPending == op.stage # "checked"
\* record_launch_blocked and record_launch_cancelled.
Blocked == Labelled(shown, "None")
BlockedTask == [task EXCEPT !["launch"] = Move(@, "done")]

CancelledTask == [task EXCEPT !["launch"] = Move(@, "done"),
                              !["stop"] = IF @ = "active" THEN "done" ELSE @]

-----------------------------------------------------------------------------
Dirty == batch # "none" /\ batch' = "dirty"
Receive(message) == inbox # <<>> /\ Head(inbox) = message /\ inbox' = Tail(inbox)

Operation(launch) ==
    [stage |-> "check", launch |-> launch, cancelled |-> FALSE, edited |-> FALSE, resume |-> FALSE]

\* CheckContainerSession.
Check ==
    /\ Dirty /\ Receive("check")
    /\ op' = IF op = NoOp /\ saved THEN Operation(FALSE) ELSE op
    /\ UNCHANGED <<target, saved, shown, task, asked, list, program, jobs, slot, row, clicks, known>>

\* StartContainerSession for the operation o, once no cleanup holds the profile, the exited sessions
\* are reaped and none is active.
StartOnto(o, tasks, state) ==
    LET starting == IF state = NoState THEN NoState ELSE [instance |-> "Starting", force |-> FALSE]
        Refused  == shown' = Labelled(state, "None") /\ task' = [tasks EXCEPT !["launch"] = "done"]
        Goes     == shown' = starting /\ task' = tasks
    IN
    IF o = NoOp THEN
        \/ op' = NoOp /\ Refused                       \* another profile has the identity
        \/ op' = Operation(TRUE) /\ shown' = state /\ task' = tasks
    ELSE IF o.cancelled THEN op' = o /\ Refused
    ELSE IF o.stage = "check" THEN
        \/ ~o.launch /\ op' = o /\ Refused
        \/ op' = [o EXCEPT !.launch = TRUE] /\ Goes
    ELSE IF o.stage # "checked" THEN op' = o /\ shown' = state /\ task' = tasks
    ELSE
        \/ /\ target = "slot" => SlotBusy \/ slot.pending    \* used, closing or starting
           /\ op' = NoOp /\ Refused
        \/ /\ target = "slot" => ~SlotBusy /\ ~slot.pending
           /\ \E stage \in {"display", "launch"} :
                 /\ target = "slot" => (stage = "launch" <=> slot.window # 0)
                 /\ op' = [o EXCEPT !.stage = stage]
           /\ Goes

StartFound(o, tasks, r) ==
    /\ program' = r.program /\ jobs' = r.jobs /\ list' = [list EXCEPT !.active = r.program # "none"]
    /\ IF r.program = "none" THEN StartOnto(o, tasks, r.shown)
       ELSE /\ op' = IF o # NoOp /\ o.stage # "check" THEN NoOp ELSE o
            /\ shown' = Labelled(r.shown, "Running")
            /\ task' = [tasks EXCEPT !["launch"] = "done"]

\* The user's, or the one the loop sent itself when the check was done.
StartFor(o) ==
    /\ Dirty
    /\ IF ~saved THEN op' = o /\ UNCHANGED <<shown, task, program, jobs, list>>
       ELSE LET tasks == [task EXCEPT !["launch"] = "active"]
            IN  IF jobs # {}
                THEN /\ op' = o /\ shown' = Blocked /\ task' = [tasks EXCEPT !["launch"] = "done"]
                     /\ UNCHANGED <<program, jobs, list>>
                ELSE \E r \in Reaps : StartFound(o, tasks, r)
    /\ UNCHANGED <<target, saved, asked, slot, row, clicks, known>>
Start == Receive("start") /\ StartFor(op)

ResumeContainerSession ==
    /\ op # NoOp /\ op.resume
    /\ IF op.cancelled
       THEN /\ op' = [op EXCEPT !.resume = FALSE]
            /\ batch # "none" /\ UNCHANGED <<target, saved, shown, task, asked, list, program, jobs, slot, row,
                                             batch, clicks, known>>
       ELSE StartFor([op EXCEPT !.resume = FALSE])
    /\ UNCHANGED inbox

\* ContainerSessionChecked.
CheckedCancelled ==
    /\ op.cancelled
    /\ op' = NoOp /\ Show("Exited") /\ task' = CancelledTask /\ UNCHANGED <<asked, known>>

CheckedWithoutProfile ==
    /\ ~op.cancelled /\ ~saved
    /\ op' = NoOp /\ UNCHANGED <<shown, task, asked, known>>

CheckedEdited ==
    /\ ~op.cancelled /\ saved /\ op.edited
    /\ \/ op' = [op EXCEPT !.edited = FALSE] /\ UNCHANGED <<shown, task>>
       \/ op.launch /\ op' = NoOp /\ shown' = Blocked /\ task' = BlockedTask
    /\ UNCHANGED <<asked, known>>

\* record_check_success takes the instance for tracked from the panel's own list.
CheckedWell ==
    /\ ~op.cancelled /\ saved /\ ~op.edited
    /\ asked' = FALSE
    /\ \E running \in BOOLEAN :
         LET found == running /\ list.active
         IN  /\ shown' = IF op.launch THEN [instance |-> "Starting", force |-> FALSE]
                         ELSE Labelled(shown, IF found THEN "Running" ELSE "None")
             /\ known' = known \union {k \in {"stale"} : found /\ program = "none" /\ ~op.launch}
    /\ IF op.launch THEN /\ op' = [op EXCEPT !.stage = "checked", !.resume = TRUE]
                         /\ task' = [task EXCEPT !["launch"] = Move(@, "active")]
                    ELSE op' = NoOp /\ UNCHANGED task

CheckedBadly ==
    /\ ~op.cancelled /\ saved /\ ~op.edited
    /\ asked' = FALSE /\ op' = NoOp
    /\ IF op.launch THEN Show("Failed") /\ task' = BlockedTask
                    ELSE Show("None") /\ UNCHANGED task
    /\ UNCHANGED known

Checked ==
    /\ Dirty /\ op # NoOp /\ op.stage = "check"
    /\ CheckedCancelled \/ CheckedWithoutProfile \/ CheckedEdited \/ CheckedWell \/ CheckedBadly
    /\ UNCHANGED <<target, saved, list, program, jobs, slot, row, inbox, clicks>>

-----------------------------------------------------------------------------
\* DedicatedDisplayStarted.
DisplayStarted ==
    /\ Dirty /\ op # NoOp /\ op.stage = "display"
    /\ IF op.cancelled
       THEN /\ op' = NoOp /\ jobs' = jobs \union {"cancelled"} /\ UNCHANGED <<shown, task>>
       ELSE IF target = "slot" /\ (SlotBusy \/ slot.pending \/ slot.window # 0)
       THEN /\ op' = NoOp /\ jobs' = jobs \union {"rolledback"}
            /\ shown' = Blocked /\ task' = BlockedTask
       ELSE op' = [op EXCEPT !.stage = "launch"] /\ UNCHANGED <<jobs, shown, task>>
    /\ UNCHANGED <<target, saved, asked, list, program, slot, row, inbox, clicks, known>>

\* Mutated form: the failure of the display is only logged.
DisplayFailedQuietly ==
    /\ Dirty /\ op # NoOp /\ op.stage = "display"
    /\ op' = NoOp
    /\ IF op.cancelled THEN Show("Exited") /\ task' = CancelledTask
                       ELSE UNCHANGED shown /\ task' = BlockedTask
    /\ UNCHANGED <<target, saved, asked, list, program, jobs, slot, row, inbox, clicks, known>>

\* DedicatedDisplayFailed.
DisplayFailed ==
    /\ Dirty /\ op # NoOp /\ op.stage = "display"
    /\ op' = NoOp
    /\ IF op.cancelled THEN Show("Exited") /\ task' = CancelledTask
                       ELSE shown' = Blocked /\ task' = BlockedTask
    /\ UNCHANGED <<target, saved, asked, list, program, jobs, slot, row, inbox, clicks, known>>

\* ContainerSessionLaunchProgress.
Progress ==
    /\ batch # "none" /\ op # NoOp /\ op.stage = "launch" /\ ~op.cancelled
    /\ shown' = Progressed /\ task' = [task EXCEPT !["launch"] = Move(@, "active")]
    /\ UNCHANGED <<target, saved, asked, list, op, program, jobs, slot, row, inbox, batch, clicks, known>>

\* ContainerSessionLaunchFinished and complete_container_session_launch.
LaunchFinished ==
    /\ Dirty /\ op # NoOp /\ op.stage = "launch"
    /\ op' = NoOp
    /\ \/ /\ op.cancelled
          /\ jobs' = jobs \union {"cancelled"} /\ UNCHANGED <<shown, task, program, list>>
       \/ /\ ~op.cancelled
          /\ program' = "running" /\ list' = [list EXCEPT !.active = TRUE]
          /\ Show("Running") /\ Finish("launch") /\ UNCHANGED jobs
       \/ /\ ~op.cancelled
          /\ jobs' \in {jobs} \union (IF target = "slot" /\ slot.window # 0 THEN {}
                                      ELSE {jobs \union {"failed"}})
          /\ Show("Failed") /\ Finish("launch") /\ UNCHANGED <<program, list>>
    /\ UNCHANGED <<target, saved, asked, slot, row, inbox, clicks, known>>

\* StopContainerSession; request_graceful_container_stop may fail to signal a process.
Stop ==
    /\ Dirty /\ Receive("stop")
    /\ LET tasks == [task EXCEPT !["stop"] = "active"]
           none  == program = "none"
       IN  /\ op' = IF op # NoOp /\ WorkerPending THEN [op EXCEPT !.cancelled = TRUE] ELSE NoOp
           /\ program' = IF program = "running" THEN "stopping" ELSE program
           /\ known' = known \union {k \in {"blocked"} : op # NoOp /\ none /\ ~WorkerPending /\ jobs # {}}
           /\ \/ /\ op # NoOp /\ none /\ (WorkerPending \/ jobs # {})
                 /\ Show("Stopping") /\ task' = [tasks EXCEPT !["launch"] = Move(@, "active")]
              \/ /\ op # NoOp /\ none /\ ~(WorkerPending \/ jobs # {})
                 /\ Show("Exited") /\ task' = [tasks EXCEPT !["launch"] = Move(@, "done"), !["stop"] = "done"]
              \/ ~none /\ task' = tasks /\ UNCHANGED shown
              \/ /\ program = "running" \/ (none /\ op = NoOp)
                 /\ Show("Failed") /\ task' = [tasks EXCEPT !["stop"] = "done"]
    /\ UNCHANGED <<target, saved, asked, list, jobs, slot, row, clicks>>

\* ForceStopContainerSession; over a pending operation it becomes a stop, sent again.
ForceStop ==
    /\ Dirty /\ inbox # <<>> /\ Head(inbox) = "force"
    /\ IF op # NoOp
       THEN inbox' = Append(Tail(inbox), "stop") /\ UNCHANGED <<shown, task, list, program, jobs>>
       ELSE /\ inbox' = Tail(inbox)
            /\ IF program = "none"
               THEN Show("Failed") /\ Finish("stop") /\ UNCHANGED <<list, program, jobs>>
               ELSE /\ program' = "none" /\ jobs' = jobs \union {"stopped"}
                    /\ list' = [list EXCEPT !.active = FALSE]
                    /\ task' = [task EXCEPT !["stop"] = Move(@, "active")] /\ UNCHANGED shown
    /\ UNCHANGED <<target, saved, asked, op, slot, row, clicks, known>>

\* OpenContainerTerminal.
OpenTerminal ==
    /\ batch # "none" /\ Receive("terminal")
    /\ \/ program # "none" /\ UNCHANGED shown
       \/ Show("Failed")
    /\ UNCHANGED <<target, saved, task, asked, list, op, program, jobs, slot, row, batch, clicks, known>>

-----------------------------------------------------------------------------
\* record_managed_display_failure and record_managed_display_exit forget both rows of the slot.
NoRows == row' = [row EXCEPT !.pending = FALSE, !.closing = FALSE]

\* record_managed_displays, called for the window w: only a changed list touches the rows.
Synced(w) ==
    IF w = row.window THEN row
    ELSE [window |-> w, pending |-> row.pending /\ w = 0, closing |-> row.closing /\ w # 0]

\* reap_exited_managed_displays: the window is there, or is gone with the session on it.
DisplayReaps ==
    {[slot |-> slot, program |-> program, jobs |-> jobs]}
    \union (IF slot.window = 0 THEN {}
            ELSE {[slot |-> [slot EXCEPT !.window = 0, !.jobs = @ \union {"told"}],
                   program |-> IF target = "slot" THEN "none" ELSE program,
                   jobs |-> IF target = "slot" /\ program # "none" THEN jobs \union {"stopped"} ELSE jobs]})

\* CreateManagedDisplay; it reaps displays but leaves the list of active sessions as it was.
CreateManagedDisplay ==
    /\ Dirty /\ Receive("create")
    /\ \E r \in DisplayReaps :
         /\ program' = r.program /\ jobs' = r.jobs
         /\ IF \/ r.slot.pending \/ r.slot.window # 0 \/ r.slot.jobs # {} \/ SlotPending
               \/ target = "slot" /\ (r.jobs # {} \/ r.program # "none")
            THEN slot' = r.slot /\ NoRows
            ELSE slot' = [r.slot EXCEPT !.pending = TRUE] /\ row' = [row EXCEPT !.pending = TRUE]
    /\ UNCHANGED <<target, saved, shown, task, asked, list, op, clicks, known>>

Quiet == batch # "none" /\ UNCHANGED <<target, saved, shown, task, asked, list, op, program, jobs, batch, known>>

\* ManagedDisplayStarted and ManagedDisplayFailed of the attempt under way.
ManagedDisplayStarted ==
    /\ Quiet /\ slot.pending
    /\ IF SlotBusy \/ SlotPending \/ slot.window # 0 \/ (target = "slot" /\ program # "none")
       THEN /\ slot' = [slot EXCEPT !.pending = FALSE, !.jobs = @ \union {"silent"}]
            /\ NoRows /\ UNCHANGED clicks
       ELSE /\ clicks' = [clicks EXCEPT !.windows = @ + 1]
            /\ slot' = [slot EXCEPT !.pending = FALSE, !.window = clicks'.windows]
            /\ row' = Synced(clicks'.windows)
    /\ UNCHANGED inbox

ManagedDisplayFailed ==
    /\ Quiet /\ slot.pending
    /\ slot' = [slot EXCEPT !.pending = FALSE] /\ NoRows /\ UNCHANGED <<inbox, clicks>>

\* The same of an attempt that a close has cancelled.
LostDisplayStarted ==
    /\ Quiet /\ slot.lost > 0
    /\ slot' \in {[slot EXCEPT !.lost = @ - 1, !.jobs = @ \union j] : j \in {{}, {"silent"}}}
    /\ UNCHANGED <<row, inbox, clicks>>

\* CloseManagedDisplay.
CloseManagedDisplay ==
    /\ Quiet /\ Receive("close")
    /\ IF SlotBusy \/ SlotPending \/ (target = "slot" /\ program # "none") \/ (~slot.pending /\ slot.window = 0)
       THEN UNCHANGED slot /\ NoRows
       ELSE IF slot.pending
       THEN slot' = [slot EXCEPT !.pending = FALSE, !.lost = @ + 1] /\ NoRows
       ELSE slot' = [slot EXCEPT !.window = 0, !.jobs = @ \union {"told"}] /\ row' = Synced(0)
    /\ UNCHANGED clicks

-----------------------------------------------------------------------------
\* LifecycleCleanupReady: complete_session_cleanup, complete_launch_cleanup and complete_display_cleanup
\* of a job that is done.
JobDone(job) ==
    /\ batch # "none" /\ job \in jobs
    /\ jobs' = jobs \ {job}
    /\ \/ job \in {"exited", "stopped"} /\ Show("Exited") /\ Finish("stop")
       \/ job = "cancelled" /\ Show("Exited") /\ task' = CancelledTask
       \/ job \in {"rolledback", "failed"} /\ UNCHANGED <<shown, task>>
    /\ UNCHANGED <<target, saved, asked, list, op, program, slot, row, inbox, batch, clicks, known>>

\* A job that failed is kept, and tried again.
JobFailed ==
    /\ batch # "none" /\ jobs # {}
    /\ Show("Failed") /\ Finish("stop")
    /\ UNCHANGED <<target, saved, asked, list, op, program, jobs, slot, row, inbox, batch, clicks, known>>

SlotJobEnds ==
    /\ Quiet
    /\ \/ "told" \in slot.jobs /\ NoRows /\ slot' \in {slot, [slot EXCEPT !.jobs = @ \ {"told"}]}
       \/ "silent" \in slot.jobs /\ UNCHANGED row /\ slot' = [slot EXCEPT !.jobs = @ \ {"silent"}]
    /\ UNCHANGED <<inbox, clicks>>

-----------------------------------------------------------------------------
BeginBatch == batch = "none" /\ batch' = "clean" /\ UNCHANGED <<target, saved, shown, task, asked, list,
                  op, program, jobs, slot, row, inbox, clicks, known>>

\* sync_stoppable_profiles once after the batch.
EndBatch ==
    /\ batch # "none" /\ batch' = "none"
    /\ list' = IF batch = "dirty" THEN [list EXCEPT !.stoppable = Stoppable(op, program)] ELSE list
    /\ UNCHANGED <<target, saved, shown, task, asked, op, program, jobs, slot, row, inbox, clicks, known>>

\* The periodic maintenance: both reaps, each with its list, and the list of profiles to stop when
\* an active session is gone.
Maintenance ==
    /\ batch = "none"
    /\ \E d \in DisplayReaps : \E r \in Reaps :
         /\ slot' = d.slot /\ row' = Synced(d.slot.window)
         /\ IF d.program = program THEN program' = r.program /\ jobs' = r.jobs /\ shown' = r.shown
                           ELSE program' = d.program /\ jobs' = d.jobs /\ UNCHANGED shown
         /\ list' = [active |-> program' # "none",
                     stoppable |-> IF (program' = "none") # (program = "none") THEN Stoppable(op, program')
                                   ELSE list.stoppable]
    /\ UNCHANGED <<target, saved, task, asked, op, inbox, batch, clicks, known>>

Handlers ==
    \/ Check \/ Start \/ ResumeContainerSession \/ Checked \/ DisplayStarted \/ DisplayFailed \/ Progress
    \/ LaunchFinished \/ Stop \/ ForceStop \/ OpenTerminal \/ CreateManagedDisplay
    \/ ManagedDisplayStarted \/ ManagedDisplayFailed \/ LostDisplayStarted \/ CloseManagedDisplay
    \/ \E job \in jobs : JobDone(job)
    \/ JobFailed \/ SlotJobEnds

PanelSessionsNext == Clicks \/ BeginBatch \/ Handlers \/ EndBatch \/ Maintenance
PanelSessionsSpec == PanelSessionsInit /\ [][PanelSessionsNext]_panelVars

-----------------------------------------------------------------------------
Under(messages) == \E i \in 1 .. Len(inbox) : inbox[i] \in messages

(***************************************************************************)
(* A session the panel shows as starting, running, stopping or open to a   *)
(* forced stop is one the program still has to do with: a pending          *)
(* operation, an active session, a cleanup, or a request under way.        *)
(* Otherwise its buttons stay locked until the program is started again.   *)
(***************************************************************************)
BusyIsBacked ==
    saved /\ "stale" \notin known /\ shown # NoState /\ (shown.instance \in Busy \/ shown.force)
        => op # NoOp \/ program # "none" \/ jobs # {} \/ Under({"start", "check", "stop", "force"})

(***************************************************************************)
(* A launch or stop task the panel shows as running will be ended by        *)
(* something: every early return of the handlers finishes the task it has   *)
(* found or has started.                                                   *)
(***************************************************************************)
TasksAreBacked ==
    /\ saved /\ "blocked" \notin known /\ task["launch"] = "active"
           => \/ op # NoOp /\ (op.launch \/ op.cancelled)
              \/ "cancelled" \in jobs \/ Under({"start"})
    /\ task["stop"] = "active"
           => \/ op # NoOp /\ op.cancelled
              \/ program \in {"stopping", "offered"} \/ jobs # {} \/ Under({"stop", "force"})

(***************************************************************************)
(* A profile marked as asked for its validation and still without a state  *)
(* is being validated: no edit and no launch in between leaves a profile    *)
(* that the panel never validates again.                                   *)
(***************************************************************************)
AskedIsBacked ==
    saved /\ asked /\ shown = NoState => op # NoOp \/ "cancelled" \in jobs \/ Under({"check"})

(***************************************************************************)
(* What the panel lets the user stop, and as what, is what the loop has,    *)
(* whenever a click can fall: every handler that changes a pending          *)
(* operation or the active sessions is followed by a new list.              *)
(***************************************************************************)
StoppableCurrent == batch = "none" => list.stoppable = Stoppable(op, program)

(***************************************************************************)
(* A display row shown as starting has its attempt, and one shown as        *)
(* closing has its request under way: failures, cancelled starts and        *)
(* windows that die in between clear the row.                               *)
(***************************************************************************)
DisplaysBacked ==
    /\ row.pending => slot.pending
    /\ row.closing => Under({"close"})

\* What the panel shows of a session and of a display has something behind it that will end it.
PanelInvariant ==
    /\ PanelSessionsTypeOK
    /\ BusyIsBacked
    /\ TasksAreBacked
    /\ AskedIsBacked
    /\ StoppableCurrent
    /\ DisplaysBacked
=============================================================================
