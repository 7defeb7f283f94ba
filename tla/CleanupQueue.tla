---------------------------- MODULE CleanupQueue ----------------------------
(***************************************************************************)
(* lifecycle.rs: the bounded queue that releases processes, containers and *)
(* leases in the background, with its worker threads and the process-wide  *)
(* reaper.  A job owns resources; `cleanup' may fail or panic and is then  *)
(* retried after a backoff; the resources are destroyed only when the last *)
(* reference to the job goes.  That reference count is modelled: the entry *)
(* (in the queue, then in the reaper's hands) holds one, the worker thread *)
(* that runs the cleanup holds another.                                    *)
(*                                                                         *)
(* poll() is a sequence of steps of the thread that owns the queue (the UI *)
(* thread, or the reaper after Drop), interleaved with the workers: each   *)
(* try_recv of an outcome and each spawn is a step.  Which ready entry     *)
(* pump takes first is left open, and so is the order of `running'.        *)
(***************************************************************************)
EXTENDS Integers, FiniteSets

CONSTANTS
    Jobs,             \* bundles handed to enqueue
    Profiles, Slots,  \* profile ids and display slots
    KeyOf,            \* [Jobs -> Key]
    None,             \* the absent profile or slot of a Key
    MaxRunning,       \* the 2 concurrent cleanup workers
    MaxFailures,      \* bound: how often one job may fail
    MaxReaperFailures \* bound: how often the reaper thread may not start

\* Key::Session(profile, slot), Key::Display(slot), Key::Abandoned.
Key == [profile : Profiles \cup {None}, slot : Slots \cup {None}]

ASSUME CleanupAssumption ==
    /\ IsFiniteSet(Jobs)
    /\ KeyOf \in [Jobs -> Key]
    /\ None \notin Profiles \cup Slots
    /\ MaxRunning \in Nat \ {0}
    /\ MaxFailures \in Nat
    /\ MaxReaperFailures \in Nat

VARIABLES
    owner,      \* who owns the QueueState: "ui", "handoff" (in the inbox),
                \* "reaper", "none"
    phase,      \* where poll() or enqueue() of the owner is
    pending,    \* QueueState.pending
    ready,      \* the pending entries whose ready_at has come
    running,    \* QueueState.running
    toScan,     \* the running entries that poll() has yet to look at
    disposing,  \* QueueState.disposing
    outcome,    \* the one-place channel from a worker to the queue
    worker,     \* the worker thread of a job
    failures,   \* Entry.failures
    cleaned,    \* history: the jobs whose cleanup returned Ok
    completed,  \* history: the jobs whose complete(Ok) was called
    inbox,      \* Reaper.inbox, its Retired::Job items
    taken,      \* the items the reaper took and has not dropped yet
    acked,      \* the `done' messages not yet received by retain()
    reaper,     \* where the reaper thread is
    noReaper,   \* how often the reaper could not be started
    woken,      \* the UI loop was woken since its last poll
    enqueued    \* history: the jobs that were handed over

queueVars == <<owner, phase, pending, ready, running, toScan, disposing>>
workerVars == <<outcome, worker, failures, cleaned>>
reaperVars == <<inbox, taken, acked, reaper, noReaper>>
vars == <<owner, phase, pending, ready, running, toScan, disposing, outcome,
          worker, failures, cleaned, completed, inbox, taken, acked, reaper,
          noReaper, woken, enqueued>>

Init ==
    /\ owner = "ui"
    /\ phase = "idle"
    /\ pending = {} /\ ready = {} /\ running = {} /\ toScan = {}
    /\ disposing = {}
    /\ outcome = [j \in Jobs |-> "empty"]
    /\ worker = [j \in Jobs |-> "none"]
    /\ failures = [j \in Jobs |-> 0]
    /\ cleaned = {} /\ completed = {}
    /\ inbox = {} /\ taken = {} /\ acked = {}
    /\ reaper = "absent"
    /\ noReaper = 0
    /\ woken = FALSE
    /\ enqueued = {}

-----------------------------------------------------------------------------
(* The queue's view of itself. *)

\* keys(): pending, running and disposing.
Owned == pending \cup running \cup disposing

SessionBusy(p) == \E j \in Owned : KeyOf[j].profile = p
DisplayBusy(s) == \E j \in Owned : KeyOf[j].slot = s

QueueEmpty == Owned = {}

\* next_wakeup is Some and due: a retry waits for no worker's wake.
TimerDue == Cardinality(running) < MaxRunning /\ ready # {}

\* The worker thread holds its own reference until drop(owned).
WorkerHolds(j) == worker[j] \in {"cleanup", "unwind"}

\* Some reference to the job is left, so its resources are not destroyed.
Live(j) == WorkerHolds(j) \/ j \in pending \cup running \cup inbox \cup taken

-----------------------------------------------------------------------------
(* Operations of the owner of the queue. *)

\* enqueue(): push_back, then pump().
Enqueue(j) ==
    /\ owner = "ui" /\ phase = "idle"
    /\ j \notin enqueued
    /\ enqueued' = enqueued \cup {j}
    /\ pending' = pending \cup {j}
    /\ ready' = ready \cup {j}
    /\ phase' = "pump"
    /\ UNCHANGED <<owner, running, toScan, disposing, workerVars, completed,
                   reaperVars, woken>>

\* poll() begins, on any event of the loop: retain() drops the acknowledged
\* disposals.
UiEvent ==
    /\ owner = "ui" /\ phase = "idle"
    /\ disposing' = disposing \ acked
    /\ acked' = {}
    /\ toScan' = running
    /\ phase' = "scan"
    /\ woken' = FALSE
    /\ UNCHANGED <<owner, pending, ready, running, workerVars, completed, inbox,
                   taken, reaper, noReaper, enqueued>>

\* The loop surely has an event when it was woken or when next_wakeup is due.
UiPoll == (woken \/ TimerDue) /\ UiEvent

ScanEmpty(j) ==
    /\ phase = "scan" /\ j \in toScan
    /\ outcome[j] = "empty"
    /\ toScan' = toScan \ {j}
    /\ UNCHANGED <<owner, phase, pending, ready, running, disposing, workerVars,
                   completed, reaperVars, woken, enqueued>>

Unscan(j) ==
    /\ toScan' = toScan \ {j}
    /\ running' = running \ {j}
    /\ outcome' = [outcome EXCEPT ![j] = "empty"]

\* retry(): the entry goes back to pending with a backoff.
Retry(j) ==
    /\ pending' = pending \cup {j}
    /\ failures' = [failures EXCEPT ![j] = @ + 1]

ScanErr(j) ==
    /\ phase = "scan" /\ j \in toScan
    /\ outcome[j] = "err"
    /\ Unscan(j)
    /\ Retry(j)
    /\ UNCHANGED <<owner, phase, ready, disposing, worker, cleaned, completed,
                   reaperVars, woken, enqueued>>

\* retire(): the item is pushed and the reaper notified, or started; when its
\* thread does not start the inbox keeps the item.
Retire ==
    IF reaper = "absent"
    THEN \/ reaper' = "top" /\ UNCHANGED noReaper
         \/ /\ noReaper < MaxReaperFailures
            /\ noReaper' = noReaper + 1
            /\ UNCHANGED reaper
    ELSE /\ reaper' = IF reaper \in {"timed", "parked"} THEN "top" ELSE reaper
         /\ UNCHANGED noReaper

\* Mutated forms: the identity is released before the job is destroyed; the job
\* is destroyed by the UI thread; a completed entry is queued again.
ScanOkUiFreesKey(j) ==
    /\ owner = "ui"
    /\ phase = "scan" /\ j \in toScan
    /\ outcome[j] = "ok"
    /\ Unscan(j)
    /\ completed' = completed \cup {j}
    /\ inbox' = inbox \cup {j}
    /\ Retire
    /\ UNCHANGED <<owner, phase, pending, ready, disposing, worker, failures,
                   cleaned, taken, acked, woken, enqueued>>

ScanOkUiRetries(j) ==
    /\ owner = "ui"
    /\ phase = "scan" /\ j \in toScan
    /\ outcome[j] = "ok"
    /\ Unscan(j)
    /\ Retry(j)
    /\ completed' = completed \cup {j}
    /\ UNCHANGED <<owner, phase, ready, disposing, worker, cleaned, reaperVars,
                   woken, enqueued>>

\* The outcome is Ok and the UI owns the queue: complete(Ok) runs here, and the
\* job goes to the reaper while its key stays in `disposing'.
ScanOkUi(j) ==
    /\ owner = "ui"
    /\ phase = "scan" /\ j \in toScan
    /\ outcome[j] = "ok"
    /\ Unscan(j)
    /\ completed' = completed \cup {j}
    /\ disposing' = disposing \cup {j}
    /\ inbox' = inbox \cup {j}
    /\ Retire
    /\ UNCHANGED <<owner, phase, pending, ready, worker, failures, cleaned,
                   taken, acked, woken, enqueued>>

\* poll(false) on the reaper: the job is dropped at once, without a callback.
ScanOkReaper(j) ==
    /\ owner = "reaper"
    /\ phase = "scan" /\ j \in toScan
    /\ outcome[j] = "ok"
    /\ Unscan(j)
    /\ UNCHANGED <<owner, phase, pending, ready, disposing, worker, failures,
                   cleaned, completed, reaperVars, woken, enqueued>>

EndScan ==
    /\ phase = "scan" /\ toScan = {}
    /\ phase' = "pump"
    /\ UNCHANGED <<owner, pending, ready, running, toScan, disposing,
                   workerVars, completed, reaperVars, woken, enqueued>>

MayStart == Cardinality(running) < MaxRunning

\* One worker thread is started for a ready entry ...
PumpSpawn(j) ==
    /\ phase = "pump"
    /\ MayStart
    /\ j \in ready
    /\ pending' = pending \ {j}
    /\ ready' = ready \ {j}
    /\ running' = running \cup {j}
    /\ worker' = [worker EXCEPT ![j] = "cleanup"]
    /\ UNCHANGED <<owner, phase, toScan, disposing, outcome, failures, cleaned,
                   completed, reaperVars, woken, enqueued>>

\* ... or cannot be: the entry is retried and pump() gives up.
PumpSpawnFails(j) ==
    /\ phase = "pump"
    /\ MayStart
    /\ j \in ready
    /\ failures[j] < MaxFailures
    /\ Retry(j)
    /\ ready' = ready \ {j}
    /\ phase' = "idle"
    /\ UNCHANGED <<owner, running, toScan, disposing, outcome, worker, cleaned,
                   completed, reaperVars, woken, enqueued>>

EndPump ==
    /\ phase = "pump"
    /\ ~MayStart \/ ready = {}
    /\ phase' = "idle"
    /\ UNCHANGED <<owner, pending, ready, running, toScan, disposing,
                   workerVars, completed, reaperVars, woken, enqueued>>

\* The backoff of a failed entry is over.
BackoffElapses(j) ==
    /\ j \in pending \ ready
    /\ ready' = ready \cup {j}
    /\ UNCHANGED <<owner, phase, pending, running, toScan, disposing,
                   workerVars, completed, reaperVars, woken, enqueued>>

\* Drop for CleanupQueue, after finish() returned true or gave up.
DropQueue ==
    /\ owner = "ui" /\ phase = "idle"
    /\ IF QueueEmpty
       THEN owner' = "none" /\ UNCHANGED <<reaper, noReaper>>
       ELSE owner' = "handoff" /\ Retire
    /\ UNCHANGED <<phase, pending, ready, running, toScan, disposing,
                   workerVars, completed, inbox, taken, acked, woken, enqueued>>

-----------------------------------------------------------------------------
(* A cleanup worker thread. *)

\* job.cleanup() returns Ok ...
CleanupOk(j) ==
    /\ worker[j] = "cleanup"
    /\ cleaned' = cleaned \cup {j}
    /\ worker' = [worker EXCEPT ![j] = "unwind"]
    /\ UNCHANGED <<queueVars, outcome, failures, completed, reaperVars, woken,
                   enqueued>>

\* ... or an error, or panics inside catch_unwind.
CleanupErr(j) ==
    /\ worker[j] = "cleanup"
    /\ failures[j] < MaxFailures
    /\ worker' = [worker EXCEPT ![j] = "unwind"]
    /\ UNCHANGED <<queueVars, outcome, failures, cleaned, completed, reaperVars,
                   woken, enqueued>>

\* drop(job); drop(owned): the worker's reference goes before it sends.
DropClone(j) ==
    /\ worker[j] = "unwind"
    /\ worker' = [worker EXCEPT ![j] = "send"]
    /\ UNCHANGED <<queueVars, outcome, failures, cleaned, completed, reaperVars,
                   woken, enqueued>>

SendOutcome(j) ==
    /\ worker[j] = "send"
    /\ outcome' = [outcome EXCEPT ![j] = IF j \in cleaned THEN "ok" ELSE "err"]
    /\ worker' = [worker EXCEPT ![j] = "wake"]
    /\ UNCHANGED <<queueVars, failures, cleaned, completed, reaperVars, woken,
                   enqueued>>

\* wake(): the waker of the UI loop.  A worker that the reaper started notifies
\* the reaper, which polls every 50 ms while anything runs and needs no wake.
WorkerWakes(j) ==
    /\ worker[j] = "wake"
    /\ worker' = [worker EXCEPT ![j] = "none"]
    /\ woken' = TRUE
    /\ UNCHANGED <<queueVars, outcome, failures, cleaned, completed, reaperVars,
                   enqueued>>

-----------------------------------------------------------------------------
(* The reaper thread. *)

ReaperTake ==
    /\ reaper = "top"
    /\ taken' = inbox
    /\ inbox' = {}
    /\ owner' = IF owner = "handoff" THEN "reaper" ELSE owner
    /\ reaper' = "items"
    /\ UNCHANGED <<phase, pending, ready, running, toScan, disposing,
                   workerVars, completed, acked, noReaper, woken, enqueued>>

\* drop(job); done.send(()); wake().
ReaperDispose(j) ==
    /\ reaper = "items" /\ j \in taken
    /\ taken' = taken \ {j}
    /\ acked' = acked \cup {j}
    /\ woken' = TRUE
    /\ UNCHANGED <<queueVars, workerVars, completed, inbox, reaper, noReaper,
                   enqueued>>

\* queues.retain_mut(): the abandoned queue, if there is one, is polled once.
ReaperPoll ==
    /\ reaper = "items" /\ taken = {}
    /\ owner = "reaper"
    /\ phase = "idle"
    /\ disposing' = disposing \ acked
    /\ acked' = {}
    /\ toScan' = running
    /\ phase' = "scan"
    /\ reaper' = "queues"
    /\ UNCHANGED <<owner, pending, ready, running, workerVars, completed, inbox,
                   taken, noReaper, woken, enqueued>>

ReaperNoQueue ==
    /\ reaper = "items" /\ taken = {}
    /\ owner # "reaper"
    /\ reaper' = "queues"
    /\ UNCHANGED <<queueVars, workerVars, completed, inbox, taken, acked,
                   noReaper, woken, enqueued>>

ReaperRest ==
    /\ reaper = "queues"
    /\ owner = "reaper" => phase = "idle"
    /\ owner' = IF owner = "reaper" /\ QueueEmpty THEN "none" ELSE owner
    /\ reaper' = CASE inbox # {} \/ owner = "handoff" -> "top"
                   [] inbox = {} /\ owner = "reaper" /\ ~QueueEmpty -> "timed"
                   [] OTHER -> "parked"
    /\ UNCHANGED <<phase, pending, ready, running, toScan, disposing,
                   workerVars, completed, inbox, taken, acked, noReaper, woken,
                   enqueued>>

ReaperWakes ==
    /\ reaper = "timed"
    /\ running # {} \/ disposing # {} \/ ready # {}
    /\ reaper' = "top"
    /\ UNCHANGED <<queueVars, workerVars, completed, inbox, taken, acked,
                   noReaper, woken, enqueued>>

-----------------------------------------------------------------------------

\* A step of poll() or enqueue() on the thread that owns the queue.
QueueStep ==
    \/ \E j \in Jobs : \/ ScanEmpty(j) \/ ScanErr(j) \/ ScanOkUi(j)
                       \/ ScanOkReaper(j) \/ PumpSpawn(j)
    \/ EndScan \/ EndPump

WorkerStep(j) ==
    \/ CleanupOk(j) \/ CleanupErr(j) \/ DropClone(j) \/ SendOutcome(j)
    \/ WorkerWakes(j)

ReaperStep ==
    \/ ReaperTake \/ ReaperPoll \/ ReaperNoQueue \/ ReaperRest \/ ReaperWakes
    \/ \E j \in Jobs : ReaperDispose(j)

Next ==
    \/ \E j \in Jobs : \/ Enqueue(j) \/ PumpSpawnFails(j) \/ BackoffElapses(j)
                       \/ WorkerStep(j)
    \/ UiEvent \/ DropQueue \/ QueueStep \/ ReaperStep

\* The owner finishes the operation it is in, threads run, backoffs elapse, and
\* the loop has an event once it is woken or its timer is due.  Nothing else is
\* assumed to poll, to be enqueued or to drop the queue.
Fairness ==
    /\ WF_vars(UiPoll) /\ WF_vars(QueueStep) /\ WF_vars(ReaperStep)
    /\ \A j \in Jobs : WF_vars(WorkerStep(j)) /\ WF_vars(BackoffElapses(j))

Spec == Init /\ [][Next]_vars
FairSpec == Spec /\ Fairness

-----------------------------------------------------------------------------
(* Properties. *)

\* Every queue index, worker and reaper place stays in its type.
TypeOK ==
    /\ owner \in {"ui", "handoff", "reaper", "none"}
    /\ phase \in {"idle", "scan", "pump"}
    /\ pending \subseteq Jobs /\ ready \subseteq pending
    /\ running \subseteq Jobs /\ toScan \subseteq running
    /\ disposing \subseteq Jobs
    /\ outcome \in [Jobs -> {"empty", "ok", "err"}]
    /\ worker \in [Jobs -> {"none", "cleanup", "unwind", "send", "wake"}]
    /\ failures \in [Jobs -> Nat]
    /\ cleaned \subseteq Jobs /\ completed \subseteq Jobs
    /\ inbox \subseteq Jobs /\ taken \subseteq Jobs /\ acked \subseteq Jobs
    /\ reaper \in {"absent", "top", "items", "queues", "timed", "parked"}
    /\ noReaper \in 0 .. MaxReaperFailures
    /\ woken \in BOOLEAN
    /\ enqueued \subseteq Jobs

\* "Failure is not drain": until its cleanup has returned Ok, a job that was
\* handed over stays an entry of the queue, whatever fails, panics or is handed
\* to the reaper.
OwnershipRetained == enqueued \ cleaned \subseteq pending \cup running

\* While anything of a job is alive, on whatever thread, its profile and its
\* display slot answer busy, so no new session can be given them.
BusyUntilReleased ==
    \A j \in enqueued : Live(j) =>
        /\ KeyOf[j].profile # None => SessionBusy(KeyOf[j].profile)
        /\ KeyOf[j].slot # None => DisplayBusy(KeyOf[j].slot)

\* What the queue answers for as long as it owns a job (lifecycle.rs keys and retry).
QueueInvariant == OwnershipRetained /\ BusyUntilReleased

\* At most two cleanups run at once, counting the threads and not the entries.
CleanupsBounded == Cardinality({j \in Jobs : WorkerHolds(j)}) <= MaxRunning

\* Destruction never happens on the UI thread: the last reference to a job is
\* dropped by the reaper.
DestroyedByReaper ==
    [][\A j \in Jobs :
          Live(j) /\ ~Live(j)' => owner = "reaper" \/ j \in taken]_vars

\* The completion callback reports success once per job, after the cleanup.
CompletedOnce ==
    [][\A j \in Jobs : ScanOkUi(j) => j \in cleaned \ completed]_vars

\* The queue implements the ownership it promises: a job is accepted, cleaned up,
\* reported and released in that order, and its key is busy until it is released.
Ownership ==
    INSTANCE JobOwnership
    WITH accepted <- enqueued, done <- cleaned, reported <- completed,
         released <- {j \in enqueued : ~Live(j)}, busy <- Owned

\* What the lists, workers, channels and the reaper do to a job is what JobOwnership
\* allows, its success is reported once, and it is destroyed off the UI thread.
JobsKept ==
    /\ Ownership!OwnershipSpec
    /\ CompletedOnce
    /\ DestroyedByReaper

\* Every job is released in the end and frees its keys, with or without the UI:
\* no completion, retry or disposal waits for a wake that never comes.  The one
\* way out is a reaper thread that could not be started: what it was to destroy
\* stays in the inbox until another retirement starts it.
EventuallyReleased ==
    \A j \in Jobs :
        j \in enqueued ~> \/ ~Live(j) /\ j \notin Owned
                          \/ reaper = "absent" /\ (j \in inbox \/ owner = "handoff")

=============================================================================
