----------------------------- MODULE RuntimeTasks -----------------------------
(***************************************************************************)
(* The background commands of the control panel: pulls, builds, imports    *)
(* and deletions of images, volumes, container and runtime-system actions, *)
(* logins, context switches and container details (main.rs), the lossy     *)
(* diagnostics lane they log through (process_output.rs), and the task     *)
(* store, busy flag, runtime states and details the panel keeps of them    *)
(* (container_mode.rs).                                                    *)
(*                                                                         *)
(* A command runs in a thread of its own.  A streamed one spawns a child   *)
(* whose output a reader thread forwards line by line, without the waiting *)
(* thread ever joining the reader; a captured one collects everything      *)
(* first.  Both end by sending one Finished message, which waits for room  *)
(* in the channel; a log line never waits and is dropped when the budget   *)
(* or the channel is full.  The standard output and error of a child are   *)
(* one pipe here, with one reader.                                         *)
(***************************************************************************)
EXTENDS Naturals, Sequences, FiniteSets

CONSTANTS
  Threads,        \* the command threads that may be started
  Scripts,        \* what the user may ask for: functions from threads to requests
                  \* [kind, runtime, name]
  MaxLines,       \* lines a child prints
  MaxQueuedLines, \* MAX_QUEUED_LINES: log permits outstanding at once
  MaxPending,     \* MAX_PENDING_WORKER_MESSAGES
  MaxRecreated,   \* containers that get deleted and created again by others
  NoTask          \* no thread, no selection, no target

ASSUME RuntimeTasksAssumption ==
  /\ MaxLines \in Nat /\ MaxRecreated \in Nat
  /\ MaxQueuedLines \in Nat \ {0} /\ MaxPending \in Nat \ {0}

VARIABLES
  script,    \* the requests of this behaviour
  receiving, \* whether the event loop receives in it, or hangs
  thread,    \* thread[t]: the request, its step, the child and the reader
  usage,     \* Budget: permits of log lines not yet dropped
  queue,     \* the messages on their way to the event loop
  taskList,  \* OPERATION_TASKS of the panel, the latest last
  busy,      \* IMAGE_TASK_ACTIVE and IMAGE_TASK_DETAIL
  configuring, \* PENDING_PULL_SESSION: pulls whose image gets a session
  health,    \* RUNTIME_SYSTEM_STATES
  chosen,    \* SELECTED_RUNTIME_CONTAINER
  details,   \* RUNTIME_CONTAINER_DETAILS: whose details are shown
  asked,     \* RefreshRuntimeContainerDetails messages on their way
  alive,     \* external: the incarnation behind each container name
  touched,   \* which incarnation an action meant and which it reached
  late       \* keys whose task a log line reopened after its end
workVars == <<thread, usage, queue, taskList, busy, configuring, health, chosen, details, asked,
              alive, touched, late>>
taskVars == <<script, receiving, workVars>>
panelVars == <<taskList, busy, configuring, health, chosen, details, asked, late>>
laneVars == <<usage, queue>>

AllRequests == {script[t] : t \in Threads}
Names == {r.name : r \in UNION {{f[t] : t \in Threads} : f \in Scripts}}
PanelRuntimes == {"apple", "docker", "orb"}

(***************************************************************************)
(* Requests.  A thread has a program: "stream" is a child whose output     *)
(* readers forward while it runs, "capture" one whose output is collected  *)
(* first, "gather" a captured command whose failure is only noted, and     *)
(* "settle" the polling for the state a command should have brought about. *)
(***************************************************************************)
ResourceKinds == {"pull", "load", "build", "imageDelete", "volumeCreate", "volumeDelete"}
ImageKinds == {"pull", "load", "build", "imageDelete"}
ContainerKinds == {"start", "stop", "delete", "restart"}
SystemKinds == {"system start", "system stop"}
RuntimeKinds == SystemKinds \cup {"systemStart"}

\* runtime_task_key and resource_task_key
Key(r) == IF r.kind \in RuntimeKinds THEN <<"runtime", r.runtime, NoTask>>
          ELSE <<r.kind, r.runtime, r.name>>

Unstarted == [pc |-> "unused", req |-> NoTask, target |-> NoTask, todo |-> <<>>, lines |-> 0,
              pipe |-> 0, child |-> "none", reader |-> "none", ok |-> FALSE]

RuntimeTasksInit ==
  /\ script \in Scripts /\ receiving \in BOOLEAN
  /\ thread = [t \in Threads |-> Unstarted]
  /\ usage = 0 /\ queue = <<>> /\ taskList = <<>> /\ asked = {} /\ late = {} /\ touched = {}
  /\ busy = [task |-> NoTask, detail |-> FALSE]
  /\ configuring = <<>>
  /\ health = [r \in PanelRuntimes |-> "Unknown"]
  /\ chosen = NoTask /\ details = NoTask
  /\ alive = [n \in Names |-> 0]

(***************************************************************************)
(* The panel's task store                                                  *)
(***************************************************************************)
TaskActive(task) == task.status \in {"Queued", "Running"}
LatestTask(store, key) ==
  LET at == {i \in 1..Len(store) : store[i].key = key}
  IN  IF at = {} THEN 0 ELSE CHOOSE i \in at : \A j \in at : j <= i

\* A new task replaces the active ones of its key.
StartOperationTask(store, key, steps) ==
  Append(SelectSeq(store, LAMBDA o : o.key # key \/ ~TaskActive(o)),
         [key |-> key, status |-> "Queued", steps |-> [n \in 1..steps |-> "Pending"]])

\* The step runs and the ones before it are over: the latest task of the key
\* runs again, whatever it was.
UpdateOperationTaskStep(store, key, step) ==
  LET i == LatestTask(store, key)
      Updated(n, s) == IF n = step THEN "Running"
                       ELSE IF n < step /\ s \in {"Pending", "Running"} THEN "Completed" ELSE s
  IN  IF i = 0 THEN store
      ELSE [store EXCEPT ![i].status = "Running",
                         ![i].steps = [n \in DOMAIN @ |-> Updated(n, @[n])]]

FinishOperationTask(store, key, ok) ==
  LET i == LatestTask(store, key)
      Ended(s) == IF ok THEN (IF s = "Failed" THEN s ELSE "Completed")
                  ELSE IF s = "Running" THEN "Failed" ELSE s
  IN  IF i = 0 THEN store
      ELSE [store EXCEPT ![i].status = IF ok THEN "Completed" ELSE "Failed",
                         ![i].steps = [n \in DOMAIN @ |-> Ended(@[n])]]

\* set_image_task_active, clear_image_task_active, set_image_task_detail
SetImageTaskActive(r) == busy' = [task |-> Key(r), detail |-> FALSE]
ClearImageTaskActive == busy' = [task |-> NoTask, detail |-> FALSE]
SetImageTaskDetail == busy' = [busy EXCEPT !.detail = TRUE]
SetRuntimeSystemState(runtime, status) == health' = [health EXCEPT ![runtime] = status]

\* The start, the running second step, and the end of a resource's task
StartTask(r) ==
  /\ taskList' = UpdateOperationTaskStep(StartOperationTask(taskList, Key(r), 3), Key(r), 2)
  /\ late' = late \ {Key(r)}
TaskRuns(r) ==
  LET i == LatestTask(taskList, Key(r)) IN
  /\ taskList' = UpdateOperationTaskStep(taskList, Key(r), 2)
  /\ late' = IF i > 0 /\ ~TaskActive(taskList[i]) THEN late \cup {Key(r)} ELSE late
TaskEnds(r, ok) ==
  /\ taskList' = FinishOperationTask(taskList, Key(r), ok)
  /\ late' = late \ {Key(r)}

\* A runtime's task has two steps and its state follows the command.
StartRuntimeTask(r, status) ==
  /\ taskList' = UpdateOperationTaskStep(StartOperationTask(taskList, Key(r), 2), Key(r), 1)
  /\ late' = late \ {Key(r)}
  /\ SetRuntimeSystemState(r.runtime, status)

(***************************************************************************)
(* What the panel records of each operation (container_mode.rs): its       *)
(* start, a line of its log, its end                                       *)
(***************************************************************************)
RecordImagePullStarted(r) ==
  /\ StartTask(r) /\ SetImageTaskActive(r)
  /\ configuring' = IF r.configure THEN Append(configuring, Key(r)) ELSE configuring
  /\ UNCHANGED health
\* A line of no text is only an activity.
RecordImagePullLog(r) ==
  /\ \/ TaskRuns(r) /\ SetImageTaskDetail
     \/ UNCHANGED <<taskList, late, busy>>
  /\ UNCHANGED <<configuring, health>>
\* The first session waiting for this image is configured, when the pull succeeded.
RecordImagePullFinished(r, ok) ==
  LET waiting == {i \in 1..Len(configuring) : configuring[i] = Key(r)} IN
  /\ TaskEnds(r, ok) /\ ClearImageTaskActive
  /\ configuring' = IF waiting = {} THEN configuring
                    ELSE LET first == CHOOSE i \in waiting : \A j \in waiting : i <= j
                         IN  [i \in 1..(Len(configuring) - 1) |->
                                configuring[IF i < first THEN i ELSE i + 1]]
  /\ UNCHANGED health

RecordImageLoadStarted(r) ==
  StartTask(r) /\ SetImageTaskActive(r) /\ UNCHANGED <<configuring, health>>
RecordImageLoadLog(r) == TaskRuns(r) /\ UNCHANGED <<busy, configuring, health>>
RecordImageLoadFinished(r, ok) ==
  TaskEnds(r, ok) /\ ClearImageTaskActive /\ UNCHANGED <<configuring, health>>

RecordImageBuildStarted(r) ==
  StartTask(r) /\ SetImageTaskActive(r) /\ UNCHANGED <<configuring, health>>
RecordImageBuildLog(r) == TaskRuns(r) /\ UNCHANGED <<busy, configuring, health>>

RecordImageBuildFinished(r, ok) ==
  TaskEnds(r, ok) /\ ClearImageTaskActive /\ UNCHANGED <<configuring, health>>

RecordImageDeleteStarted(r) ==
  StartTask(r) /\ SetImageTaskActive(r) /\ UNCHANGED <<configuring, health>>
RecordImageDeleteLog(r) == TaskRuns(r) /\ UNCHANGED <<busy, configuring, health>>
RecordImageDeleteFinished(r, ok) ==
  TaskEnds(r, ok) /\ ClearImageTaskActive /\ UNCHANGED <<configuring, health>>

RecordVolumeDeleteStarted(r) == StartTask(r) /\ UNCHANGED <<busy, configuring, health>>
RecordVolumeDeleteLog(r) == TaskRuns(r) /\ UNCHANGED <<busy, configuring, health>>
RecordVolumeDeleteFinished(r, ok) == TaskEnds(r, ok) /\ UNCHANGED <<busy, configuring, health>>

RecordVolumeCreateStarted(r) == StartTask(r) /\ UNCHANGED <<busy, configuring, health>>
RecordVolumeCreateLog(r) == TaskRuns(r) /\ UNCHANGED <<busy, configuring, health>>
RecordVolumeCreateFinished(r, ok) == TaskEnds(r, ok) /\ UNCHANGED <<busy, configuring, health>>

RecordStorageGrowthBlocked ==
  ClearImageTaskActive /\ UNCHANGED <<taskList, late, configuring, health>>

RecordAppleContainerSystemStartStarted(r) ==
  StartRuntimeTask(r, "Starting") /\ UNCHANGED <<busy, configuring>>
RecordAppleContainerSystemStartFinished(r, ok) ==
  /\ TaskEnds(r, ok) /\ SetRuntimeSystemState(r.runtime, IF ok THEN "Ready" ELSE "Failed")
  /\ UNCHANGED <<busy, configuring>>

\* Only start and stop have a task; a login, a machine and a context are just logged.
RecordRuntimeSystemActionStarted(r) ==
  /\ IF r.kind \in SystemKinds
     THEN StartRuntimeTask(r, IF r.kind = "system start" THEN "Starting" ELSE "Stopping")
     ELSE UNCHANGED <<taskList, late, health>>
  /\ UNCHANGED <<busy, configuring>>
RecordRuntimeSystemActionFinished(r, ok) ==
  /\ IF r.kind \in SystemKinds
     THEN /\ TaskEnds(r, ok)
          /\ SetRuntimeSystemState(r.runtime, IF ~ok THEN "Failed"
               ELSE IF r.kind = "system start" THEN "Ready" ELSE "Unavailable")
     ELSE UNCHANGED <<taskList, late, health>>
  /\ UNCHANGED <<busy, configuring>>

NothingRecorded == UNCHANGED <<taskList, late, busy, configuring, health>>

\* A finished action on the selected container reloads its details, one that
\* was deleted is no longer selected.
RecordRuntimeContainerActionFinished(r, ok) ==
  LET matches == chosen # NoTask /\ chosen.runtime = r.runtime /\ chosen.name = r.name
      gone == matches /\ ok /\ r.kind = "delete"
  IN
  /\ chosen' = IF gone THEN NoTask ELSE chosen
  /\ details' = IF matches THEN NoTask ELSE details
  /\ asked' = IF matches /\ ~gone THEN asked \cup {chosen} ELSE asked

\* An answer about a container that is no longer selected is ignored.
RecordRuntimeContainerDetailsLoaded(r) ==
  /\ details' = IF chosen = r THEN r ELSE details
  /\ UNCHANGED <<chosen, asked>>

(***************************************************************************)
(* What each operation's thread runs (main.rs)                             *)
(***************************************************************************)
RunThread(t, r, target, program) ==
  /\ thread[t].pc = "unused"
  /\ thread' = [thread EXCEPT ![t] = [Unstarted EXCEPT !.pc = "lookup", !.req = r,
                                                       !.target = target, !.todo = program]]
  /\ UNCHANGED queue

\* unpinned_resource_delete_error: the loop answers itself, and never waits for room.
RefuseAtOnce(t, r) ==
  /\ thread[t].pc = "unused"
  /\ thread' = [thread EXCEPT ![t] = [Unstarted EXCEPT !.pc = "done", !.req = r]]
  /\ queue' = Append(queue, [what |-> "refused", of |-> t])

SpawnImagePull(t, r) == RunThread(t, r, NoTask, <<"stream">>)
SpawnRegistryLogin(t, r) == RunThread(t, r, NoTask, <<"capture">>)
SpawnImageLoad(t, r) == RunThread(t, r, NoTask, <<"stream">>)
SpawnImageBuild(t, r) == RunThread(t, r, NoTask, <<"stream">>)
SpawnAppleContainerSystemStart(t, r) == RunThread(t, r, NoTask, <<"stream">>)
SpawnImageDelete(t, r) ==
  IF r.runtime = "apple" THEN RunThread(t, r, NoTask, <<"stream">>) ELSE RefuseAtOnce(t, r)
SpawnVolumeDelete(t, r) ==
  IF r.runtime = "apple" THEN RunThread(t, r, NoTask, <<"stream">>) ELSE RefuseAtOnce(t, r)
SpawnVolumeCreate(t, r) == RunThread(t, r, NoTask, <<"stream">>)
\* An OrbStack start or stop is over when the state is observed.
SpawnRuntimeSystemAction(t, r) ==
  RunThread(t, r, NoTask, IF r.runtime = "orb" THEN <<"capture", "settle">> ELSE <<"capture">>)
SpawnRuntimeMachineAction(t, r) ==
  RunThread(t, r, NoTask, IF r.runtime = "orb" THEN <<"capture">> ELSE <<>>)
SpawnDockerContextSwitch(t, r) == RunThread(t, r, NoTask, <<"capture">>)
SpawnRuntimeContainerDetails(t, r) == RunThread(t, r, NoTask, <<"gather", "gather", "gather">>)

\* A Docker container is acted on through its captured endpoint and id only.
SpawnCapturedDockerAction(t, r, target) ==
  RunThread(t, r, target, IF target = NoTask THEN <<>> ELSE <<"capture">>)
SpawnAppleRuntimeContainerRestart(t, r) == RunThread(t, r, NoTask, <<"capture", "capture">>)
SpawnRuntimeContainerAction(t, r, target) ==
  IF r.runtime # "apple" THEN SpawnCapturedDockerAction(t, r, target)
  ELSE IF r.kind = "restart" THEN SpawnAppleRuntimeContainerRestart(t, r)
  ELSE RunThread(t, r, NoTask, <<"stream">>)

\* The target of a Docker action is the incarnation its row was built from,
\* or nothing when the endpoint or the id could not be captured.
DockerTargets(r) == IF r.runtime = "apple" THEN {NoTask} ELSE {alive[r.name], NoTask}

(***************************************************************************)
(* Requests reach the event loop, which records the start and spawns       *)
(***************************************************************************)
\* ensure_storage_growth_allowed: too little room on the disk
StorageGrowthBlocked(t) ==
  thread[t].pc = "unused" /\ RecordStorageGrowthBlocked /\ UNCHANGED <<thread, queue>>

PullContainerImage(t, r) ==
  /\ r.kind = "pull"
  /\ (RecordImagePullStarted(r) /\ SpawnImagePull(t, r)) \/ StorageGrowthBlocked(t)
LoadContainerImage(t, r) ==
  /\ r.kind = "load"
  /\ (RecordImageLoadStarted(r) /\ SpawnImageLoad(t, r)) \/ StorageGrowthBlocked(t)
BuildContainerImage(t, r) ==
  /\ r.kind = "build"
  /\ (RecordImageBuildStarted(r) /\ SpawnImageBuild(t, r)) \/ StorageGrowthBlocked(t)
LoginContainerRegistry(t, r) ==
  r.kind = "login" /\ RecordRuntimeSystemActionStarted(r) /\ SpawnRegistryLogin(t, r)
StartAppleContainerSystem(t, r) ==
  /\ r.kind = "systemStart"
  /\ RecordAppleContainerSystemStartStarted(r) /\ SpawnAppleContainerSystemStart(t, r)
DeleteContainerImage(t, r) ==
  r.kind = "imageDelete" /\ RecordImageDeleteStarted(r) /\ SpawnImageDelete(t, r)
DeleteContainerVolume(t, r) ==
  r.kind = "volumeDelete" /\ RecordVolumeDeleteStarted(r) /\ SpawnVolumeDelete(t, r)
CreateContainerVolume(t, r) ==
  r.kind = "volumeCreate" /\ RecordVolumeCreateStarted(r) /\ SpawnVolumeCreate(t, r)
ActOnRuntimeContainer(t, r) ==
  /\ r.kind \in ContainerKinds /\ NothingRecorded
  /\ \E target \in DockerTargets(r) : SpawnRuntimeContainerAction(t, r, target)
RuntimeMachineAction(t, r) ==
  r.kind = "machine" /\ RecordRuntimeSystemActionStarted(r) /\ SpawnRuntimeMachineAction(t, r)
RuntimeSystemAction(t, r) ==
  r.kind \in SystemKinds /\ RecordRuntimeSystemActionStarted(r) /\ SpawnRuntimeSystemAction(t, r)
UseDockerContext(t, r) ==
  r.kind = "contextUse" /\ RecordRuntimeSystemActionStarted(r) /\ SpawnDockerContextSwitch(t, r)

RequestCommand(t, r) ==
  /\ \/ PullContainerImage(t, r) \/ LoadContainerImage(t, r) \/ BuildContainerImage(t, r)
     \/ LoginContainerRegistry(t, r) \/ StartAppleContainerSystem(t, r)
     \/ DeleteContainerImage(t, r) \/ DeleteContainerVolume(t, r) \/ CreateContainerVolume(t, r)
     \/ ActOnRuntimeContainer(t, r) \/ RuntimeMachineAction(t, r)
     \/ RuntimeSystemAction(t, r) \/ UseDockerContext(t, r)
  /\ UNCHANGED <<usage, chosen, details, asked, alive, touched>>

SelectRuntimeContainer(r) ==
  /\ r.kind = "details" /\ chosen # r
  /\ chosen' = r /\ details' = NoTask /\ asked' = asked \cup {r}
  /\ NothingRecorded /\ UNCHANGED <<thread, laneVars, alive, touched>>

\* The request for details reaches the event loop, which spawns the thread.
RefreshRuntimeContainerDetails(t, r) ==
  /\ r \in asked
  /\ asked' = asked \ {r}
  /\ SpawnRuntimeContainerDetails(t, r)
  /\ NothingRecorded /\ UNCHANGED <<usage, chosen, details, alive, touched>>

CloseRuntimeContainerDetails ==
  /\ chosen # NoTask
  /\ chosen' = NoTask /\ details' = NoTask
  /\ NothingRecorded /\ UNCHANGED <<thread, laneVars, asked, alive, touched>>

(***************************************************************************)
(* Command threads                                                         *)
(***************************************************************************)
\* The next step of the program, or the end of it
Proceed(th, ok, todo) ==
  IF todo = <<>> THEN [th EXCEPT !.pc = "finish", !.ok = ok, !.todo = <<>>]
  ELSE IF Head(todo) = "stream"
       THEN [th EXCEPT !.pc = "wait", !.child = "running", !.reader = "reading", !.todo = <<>>]
       ELSE [th EXCEPT !.pc = Head(todo), !.ok = ok, !.todo = Tail(todo)]

\* A refused action, a missing command or a failed spawn ends the thread.
LookUpCommand(t) ==
  LET th == thread[t] IN
  /\ th.pc = "lookup"
  /\ \/ thread' = [thread EXCEPT ![t] = Proceed(th, FALSE, <<>>)]
     \/ th.todo # <<>> /\ thread' = [thread EXCEPT ![t] = Proceed(th, TRUE, th.todo)]
  /\ UNCHANGED <<laneVars, panelVars, alive, touched>>

\* Mutated form: the container is reached by its name.
ReachedByName(th) == alive[th.req.name]

\* external: a container command reaches the id it names, or whichever
\* container has the name now.
Reached(th) == IF th.target # NoTask THEN th.target ELSE alive[th.req.name]
ActsOnContainer(t) ==
  LET th == thread[t]
  IN  touched' = IF th.req.kind \notin ContainerKinds THEN touched
                 ELSE touched \cup {[runtime |-> th.req.runtime, meant |-> th.target,
                                     hit |-> Reached(th)]}

\* external: the child prints; a full pipe blocks it until the reader reads.
ChildPrints(t) ==
  LET th == thread[t] IN
  /\ th.child = "running" /\ th.lines < MaxLines
  /\ thread' = [thread EXCEPT ![t].lines = @ + 1, ![t].pipe = 1,
                              ![t].child = IF th.pipe = 1 THEN "blocked" ELSE @]
  /\ UNCHANGED <<laneVars, panelVars, alive, touched>>

ChildExits(t) ==
  /\ thread[t].child = "running"
  /\ \E ok \in BOOLEAN : thread' = [thread EXCEPT ![t].child = "exited", ![t].ok = ok]
  /\ ActsOnContainer(t)
  /\ UNCHANGED <<laneVars, panelVars, alive>>

\* child.wait: the reader is not joined.
WaitReturns(t) ==
  /\ thread[t].pc = "wait" /\ thread[t].child = "exited"
  /\ thread' = [thread EXCEPT ![t].pc = "finish"]
  /\ UNCHANGED <<laneVars, panelVars, alive, touched>>

(***************************************************************************)
(* The lossy lane                                                          *)
(***************************************************************************)

\* reserve and try_send: without a permit the line is dropped, and a full
\* channel drops the line and its permit.
SendLog(t) ==
  LET sent == usage < MaxQueuedLines /\ Len(queue) < MaxPending
  IN  /\ usage' = IF sent THEN usage + 1 ELSE usage
      /\ queue' = IF sent THEN Append(queue, [what |-> "log", of |-> t]) ELSE queue

ReaderForwards(t) ==
  /\ thread[t].reader = "reading" /\ thread[t].pipe = 1
  /\ SendLog(t)
  /\ thread' = [thread EXCEPT
       ![t] = IF @.child = "blocked" THEN [@ EXCEPT !.child = "running"]
              ELSE [@ EXCEPT !.pipe = 0]]
  /\ UNCHANGED <<panelVars, alive, touched>>

ReaderEnds(t) ==
  LET th == thread[t] IN
  /\ th.reader = "reading" /\ th.child = "exited" /\ th.pipe = 0
  /\ thread' = [thread EXCEPT ![t].reader = "none"]
  /\ UNCHANGED <<laneVars, panelVars, alive, touched>>

(***************************************************************************)
(* Captured commands                                                       *)
(***************************************************************************)
\* The output is forwarded before the next phase or the end; a failed phase
\* is the last one.
CommandCaptured(t) ==
  LET th == thread[t] IN
  /\ th.pc = "capture"
  /\ \E ok \in BOOLEAN, prints \in BOOLEAN :
       /\ IF prints THEN SendLog(t) ELSE UNCHANGED laneVars
       /\ thread' = [thread EXCEPT ![t] = Proceed(th, ok, IF ok THEN th.todo ELSE <<>>)]
  /\ ActsOnContainer(t)
  /\ UNCHANGED <<panelVars, alive>>

\* runtime_detail_output: a failed command leaves an error and the next one runs.
GatherDetails(t) ==
  LET th == thread[t] IN
  /\ th.pc = "gather"
  /\ \E ok \in BOOLEAN : thread' = [thread EXCEPT ![t] = Proceed(th, th.ok /\ ok, th.todo)]
  /\ UNCHANGED <<laneVars, panelVars, alive, touched>>

WaitForOrbstackState(t) ==
  /\ thread[t].pc = "settle"
  /\ \E ok \in BOOLEAN : thread' = [thread EXCEPT ![t] = Proceed(@, ok, <<>>)]
  /\ UNCHANGED <<laneVars, panelVars, alive, touched>>

\* send: a Finished message waits for room, it is never dropped.
SendFinished(t) ==
  /\ thread[t].pc = "finish" /\ Len(queue) < MaxPending
  /\ UNCHANGED usage
  /\ queue' = Append(queue, [what |-> "finished", of |-> t])
  /\ thread' = [thread EXCEPT ![t].pc = "done"]
  /\ UNCHANGED <<panelVars, alive, touched>>

(***************************************************************************)
(* The event loop records what arrives                                     *)
(***************************************************************************)
\* The log of a system start, of a container and of a runtime action is only shown.
RecordLog(r) ==
  \/ r.kind = "pull" /\ RecordImagePullLog(r)
  \/ r.kind = "load" /\ RecordImageLoadLog(r)
  \/ r.kind = "build" /\ RecordImageBuildLog(r)
  \/ r.kind = "imageDelete" /\ RecordImageDeleteLog(r)
  \/ r.kind = "volumeDelete" /\ RecordVolumeDeleteLog(r)
  \/ r.kind = "volumeCreate" /\ RecordVolumeCreateLog(r)
  \/ r.kind \notin ResourceKinds /\ NothingRecorded

RecordFinished(r, ok) ==
  \/ /\ \/ r.kind = "pull" /\ RecordImagePullFinished(r, ok)
        \/ r.kind = "load" /\ RecordImageLoadFinished(r, ok)
        \/ r.kind = "build" /\ RecordImageBuildFinished(r, ok)
        \/ r.kind = "imageDelete" /\ RecordImageDeleteFinished(r, ok)
        \/ r.kind = "volumeDelete" /\ RecordVolumeDeleteFinished(r, ok)
        \/ r.kind = "volumeCreate" /\ RecordVolumeCreateFinished(r, ok)
        \/ r.kind = "systemStart" /\ RecordAppleContainerSystemStartFinished(r, ok)
        \/ /\ r.kind \in SystemKinds \cup {"login", "machine", "contextUse"}
           /\ RecordRuntimeSystemActionFinished(r, ok)
     /\ UNCHANGED <<chosen, details, asked>>
  \/ r.kind \in ContainerKinds /\ RecordRuntimeContainerActionFinished(r, ok) /\ NothingRecorded
  \/ r.kind = "details" /\ RecordRuntimeContainerDetailsLoaded(r) /\ NothingRecorded

\* What a thread that is over leaves behind.
Retired(th, t) ==
  IF th.pc = "done" /\ th.reader = "none" /\ ~\E i \in 2..Len(queue) : queue[i].of = t
  THEN [Unstarted EXCEPT !.pc = "done", !.child = th.child] ELSE th

\* The permit of a log line lives until its message is dropped.
ReceiveMessage ==
  /\ receiving /\ queue # <<>>
  /\ LET m == Head(queue) IN
       IF m.what = "log" THEN RecordLog(thread[m.of].req) /\ UNCHANGED <<chosen, details, asked>>
       ELSE RecordFinished(thread[m.of].req, thread[m.of].ok)
  /\ usage' = IF Head(queue).what = "log" THEN usage - 1 ELSE usage
  /\ queue' = Tail(queue)
  /\ thread' = [t \in Threads |-> Retired(thread[t], t)]
  /\ UNCHANGED <<alive, touched>>

\* external: somebody deletes the container and creates one of the same name.
Recreated(n) ==
  /\ alive[n] < MaxRecreated
  /\ \E t \in Threads : script[t].kind \in ContainerKinds
  /\ alive' = [alive EXCEPT ![n] = @ + 1]
  /\ UNCHANGED <<thread, laneVars, panelVars, touched>>

ThreadStep(t) ==
  \/ LookUpCommand(t) \/ WaitReturns(t) \/ CommandCaptured(t) \/ GatherDetails(t)
  \/ WaitForOrbstackState(t) \/ SendFinished(t)
ReaderStep(t) == ReaderForwards(t) \/ ReaderEnds(t)

RuntimeTasksNext ==
  /\ \/ \E t \in Threads :
          \/ RequestCommand(t, script[t])
          \/ SelectRuntimeContainer(script[t]) \/ RefreshRuntimeContainerDetails(t, script[t])
          \/ ThreadStep(t) \/ ReaderStep(t)
          \/ ChildPrints(t) \/ ChildExits(t)
     \/ CloseRuntimeContainerDetails
     \/ ReceiveMessage
     \/ \E n \in Names : Recreated(n)
  /\ UNCHANGED <<script, receiving>>

(***************************************************************************)
(* Threads are scheduled and a command that is not blocked on its output   *)
(* ends (a captured one has a deadline).  The event loop receives unless   *)
(* it hangs, and then nothing may depend on it but the panel itself.       *)
(***************************************************************************)
RuntimeTasksFairness ==
  /\ \A t \in Threads : /\ WF_workVars(ThreadStep(t)) /\ WF_workVars(ReaderStep(t))
                        /\ WF_workVars(ChildExits(t))
  /\ WF_workVars(ReceiveMessage)
RuntimeTasksSpec == RuntimeTasksInit /\ [][RuntimeTasksNext]_taskVars /\ RuntimeTasksFairness

(***************************************************************************)
(* Properties                                                              *)
(***************************************************************************)
Unfinished(t) == /\ thread[t].pc # "unused"
                 /\ \/ thread[t].pc # "done"
                    \/ \E i \in 1..Len(queue) : queue[i].what # "log" /\ queue[i].of = t
WorkOn(P(_)) == \E t \in Threads : Unfinished(t) /\ P(thread[t].req)

RuntimeTasksTypeOK ==
  /\ \A t \in Threads :
       /\ thread[t].pc \in {"unused", "lookup", "wait", "capture", "gather", "settle",
                           "finish", "done"}
       /\ thread[t].req \in {script[t], NoTask}
       /\ thread[t].child \in {"none", "running", "blocked", "exited"}
       /\ thread[t].reader \in {"none", "reading"}
       /\ thread[t].lines \in 0..MaxLines /\ thread[t].pipe \in 0..1
  /\ Cardinality({i \in 1..Len(queue) : queue[i].what # "refused"}) <= MaxPending
  /\ \A i \in 1..Len(queue) : queue[i].of \in Threads
  /\ \A i \in 1..Len(taskList) : /\ taskList[i].status \in {"Running", "Completed", "Failed"}
                              /\ Len(taskList[i].steps) \in 2..3
  /\ \A r \in PanelRuntimes :
       health[r] \in {"Unknown", "Starting", "Stopping", "Ready", "Unavailable", "Failed"}
  /\ chosen \in AllRequests \cup {NoTask} /\ asked \subseteq AllRequests

\* The permits of process_output::Budget are exactly the log lines in the
\* channel: a line dropped because the channel was full, or recorded by the
\* panel, gives its permit back, and the next noisy child is still heard.
LogBudgetBalances ==
  /\ usage = Cardinality({i \in 1..Len(queue) : queue[i].what = "log"})
  /\ usage <= MaxQueuedLines

\* A Docker container action reaches only the incarnation its row was built
\* from, although the name may belong to another container by the time the
\* command runs (DockerDeleteTarget; Apple actions go by name).
ActionReachesMeant == \A x \in touched : x.runtime = "docker" => x.hit = x.meant

\* The panel shows a task as active only while its command still has to
\* report, or after a line that its reader forwarded behind the end reopened
\* it; and never two of one key.
NoForgottenTask ==
  \A i \in 1..Len(taskList) : TaskActive(taskList[i]) =>
    /\ i = LatestTask(taskList, taskList[i].key)
    /\ \/ taskList[i].key \in late
       \/ WorkOn(LAMBDA r : Key(r) = taskList[i].key)

\* The image busy banner is up only while an image command still has to
\* report, a session waits to be configured only while a pull of its image
\* does, and a runtime is starting or stopping only while a command on it
\* does: no failed lookup, refusal or lost line leaves the panel stuck.
BusyMeansWork ==
  /\ busy.task # NoTask => WorkOn(LAMBDA r : r.kind \in ImageKinds)
  /\ \A i \in 1..Len(configuring) : WorkOn(LAMBDA r : Key(r) = configuring[i])
  /\ \A rt \in PanelRuntimes : health[rt] \in {"Starting", "Stopping"} =>
       WorkOn(LAMBDA r : r.kind \in RuntimeKinds /\ r.runtime = rt)

\* The details the panel shows are those of the container that is selected,
\* however late an earlier selection's answer arrives.
DetailsOfSelected == details # NoTask => details = chosen

\* A child never hangs on its output: its readers drain it even while the
\* event loop receives nothing and the budget is spent; and when the loop
\* does receive, every command gets its end reported.
CommandsEnd ==
  \A t \in Threads :
    thread[t].pc # "unused" ~> /\ thread[t].child \notin {"running", "blocked"}
                               /\ receiving => ~Unfinished(t)

\* The panel shows of a runtime command what is so: no task, banner or detail outlives what it
\* is about, the log budget counts the lines in the channel, and an action reaches the
\* container its row was built from.
TasksInvariant ==
    /\ RuntimeTasksTypeOK
    /\ LogBudgetBalances
    /\ ActionReachesMeant
    /\ NoForgottenTask
    /\ BusyMeansWork
    /\ DetailsOfSelected
===============================================================================
