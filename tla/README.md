# Cocoa-Way in TLA+

Cocoa-Way is a Wayland compositor for macOS that also manages Linux GUI
applications in containers. One process has a native event loop (the UI thread),
short-lived worker threads that start and stop child processes, threads that watch
sockets, GPU completion callbacks and a local control service; beside it run a few
small programs of their own. This directory models who owns a process, a display
slot, an identity, a texture or a byte at every moment, who wakes whom, what becomes
of all of it on failure and at exit, and proves the parts that matter most.

All paths are relative to the repository's `src/` directory of Rust files unless they
say otherwise: `main.rs` is the file whose first line is the crate's.

## 1. The system

| Component | State it keeps | What happens to it | What makes it correct |
| --- | --- | --- | --- |
| Event channel (`event_loop_signal.rs`, `event_turn.rs`) | credits, `notification`, `disconnected`, the queue | sends with three ways of waiting, turns of the loop, drop of the receiver | no message without a wake, no credit lost or given back twice, workers bounded, turns end |
| Cleanup queue (`lifecycle.rs`) | pending, running, disposing entries, outcomes, the reaper's inbox | enqueue, poll, retry, workers, drop | owned until cleaned, busy until destroyed, reported once, never destroyed by the UI thread |
| Sessions and displays (`main.rs`, `session_lifecycle.rs`, `profile_activity.rs`) | active sessions, operations, pending displays and launches, managed displays, identities, leases | check, start, stop, worker replies, reaping, edits | slots, displays and identities are exclusive; a late reply is cleaned up; a cancelled launch never runs |
| Launch and containers (`container_sessions.rs`, `container_identity.rs`) | the attempt, its helper and container | launch, fallback, cleanup by owner label | a failed launch leaves nothing, only own containers are deleted |
| Image checks (`container_sessions.rs`) | the questions of a check, the probe lock and container | ask, probe, clean up | a report says what was established; probes exclude each other |
| Runtime commands (`runtime_commands.rs`) | process group, pipes, deadline | capture with limits, kill, bounded reap | only the own group is signalled; an error leaves nothing running |
| Shutdown (`shutdown.rs`, `lifecycle_producers.rs`, `main.rs`) | leases, the channel, pending maps, remainders | close, drain, retain, finish, rollback | nothing is lost with the channel; a reported success is one; the exit ends |
| Wayland source (`wayland_source.rs`, the patched `common_poll.rs` of wayland-backend) | `armed`, `stopping`, output interest, rotation | watch, accept, dispatch, flush, rearm, fail, stop | no readiness lost, one wake per arm, monitors kept |
| Rendering (`texture_lifetime.rs`, `render_budget.rs`, `metal_renderer.rs`) | frame gate, texture versions, budget, waiters | prepare, upload, submit, complete, retire, wake | no texture in use is written or freed, the budget balances, nobody waits for nothing |
| Clipboard (`clipboard_transfer.rs`, `state.rs`) | host snapshot, conversion, held requests, guest reader, transfer budget | copy, convert, paste, read, install | no stale image, nothing offered that the pasteboard does not hold but for an unconfirmed write, every held paste is answered, slots and bytes come back |
| Container relay (`apple_container_transport.rs`, the guest programs in `container_sessions.rs`) | streams, queues, deadlines at both ends | open, data, close, hang up | both byte streams arrive whole and in order, headers never idle |
| Tasks (`main.rs`, `process_output.rs`, `container_mode.rs`) | threads, log budget, task records | streamed and captured actions | the action reaches what was meant, a task never stays without work |
| Control service (`control_api.rs`, `control_client.rs`, two clients) | permits, requests, the UI's queue, the socket's path | read, resolve, queue, answer; probe, unlink, bind | what was accepted was queued and what was refused was not; a launch begins the profile that was asked for; a live socket is kept |
| Profile file (`profile_config.rs`) | the file, its lock | transactions, an editor | no committed change is lost, ids are unique |
| Input (`pointer_input.rs`, `native_cursor.rs`, `main.rs`) | focus, pressed keys, grabs, locks, the native cursor | native events of several windows | nothing stays pressed, the right window gets it, the cursor comes back |
| Panel (`container_mode.rs`, `displays.rs`) | states, tasks and rows of sessions and displays | clicks, messages, reaping | what is shown as busy has somebody at work on it |
| Audio (`audio.rs`) | worker, stop flag, buffers, status | connect, fill, hand back, stop | a buffer has one owner; a stopped session has no status |
| Latency trace (`latency_trace.rs`) | admission word, queue, writer, summary | record, close, drain, publish, fail | unless the capture fails every event is accounted for, the summary is final |
| Research MCP (`research_mcp/`) | one poll loop, a session, helpers, verification | requests, stop, signals, end of input | only verified helpers run, no request is lost or overtaken, a grace is given |
| Presentation (`state.rs`, `presentation.rs`, `layout.rs`, `desktop_background.rs`, `main.rs`) | roles, scene, popups, tiles, messages to the loop, native windows | create, destroy, commit, configure, close, resize, draw | every toplevel has its window, popups stay on the role they were opened on, a picture is current or a redraw is owed |
| Frame pacing, connections, drawing, views, diagnostics | see `PROJECT.json` | | not modelled |

How they interact. Every worker thread answers through the event channel; the UI
thread drains it within a budget in each native event and handles the messages. A
handler starts workers, moves what it owns into the cleanup queue or publishes a
session. Cleanup threads wake the UI through the same channel; the readiness thread,
the clipboard worker and the GPU completions wake the loop through the same proxy. The
control service and the panel only send messages. At exit the loop closes the
producers, drains what they sent, hands everything to the cleanup queue, and the queue
to the reaper.

What is hard here: lock-free flags between senders and the loop; replies of attempts
that have been cancelled or superseded; a process whose only owner is a message;
cleanups that fail, panic or hang; files, contexts and containers that others change
while an operation that has read them is under way; queues that are full in both
directions; an exit in the middle of anything. The hazards in `PROJECT.json` give the
line at which each of these bites and the properties that would catch it.

## 2. Modules and their correspondence to the code

`PROJECT.json` maps every definition to the lines it stands for. An operator that a
comment calls a mutant or a mutated form is a plausible bug, used to show that a
property can fail; no next-state relation uses it.

**`EventSignal`** has one process per sending thread and one for the event loop. `pc`
walks through `send_admitted` and `send_reserved`. What runs under the `admission`
mutex is one step (`Admit`, `HintCheck`, `Acknowledge`); the raw send, the swap of the
flag and the wake are steps of their own, and so are the two halves of `finish_turn`.
`Blocking`, `Timed` and `Polling` workers are the three ways the code sends (`send`,
`send_timeout`, and the loop of `try_send` and `wait_for_capacity`). The UI thread
sends without a bound from inside a handler. Deadlines and spurious wake-ups of the
condition variable are actions.

**`CleanupQueue`** has the lists (`pending`, `ready`, `running`, `disposing`), one
`worker` per job, and the reaper with its inbox. `poll` is not atomic: each scanned
entry and each started worker is a step, since workers publish outcomes meanwhile.
`DropQueue` hands the lists to the reaper, which goes on without callbacks.
**`JobOwnership`** is what the queue promises, without lists and threads: a job is
accepted, finished, reported once, released after it was finished, and its identity is
busy until then at least. `CleanupQueue` implements it under the mapping written in
`Ownership == INSTANCE JobOwnership WITH ...`: released are the accepted jobs to which
no reference is left.

**`Sessions`** has the handlers of the message loop, one action each, with everything
they call: reaping inside a start, the reservation, the spawned worker, the cleanup
that is queued. A worker is a `task` that will answer, in any order and arbitrarily
late; a message the UI sends to itself is a task as well. Profiles are configured by
versions (an identity, a wanted display and a slot); an edit replaces a version at any
time. Cleanups are those of `CleanupQueue` reduced to their end, as `JobOwnership`
allows.

**`Launch`**, **`ImageCheck`**, **`RuntimeCommand`** are what such a worker does
outside the loop: the attempts of one launch with its helper and the containers of two
runtimes that somebody else uses too; the questions of a check and the probe container
behind its lock; one child process with pipes, limits and a deadline.

**`Shutdown`** follows each process or container a worker may produce through the
places that can own it: its thread, the channel, the UI's maps, a cleanup job, a
rollback, the remainders. The LoopExiting handler is modelled round by round, message
by message.

**`WaylandSource`** has the readiness thread, the event loop and the clients. Every
atomic access, every critical section on `OutputInterest` and the poll are steps. The
loop's side is the order of `main.rs`: take a failure, dispatch within the budget,
flush, update the interest, rearm in AboutToWait only. `ServeClient` is
`dispatch_events_for_with_budget` with its read buffer: requests that were read and not
dispatched are invisible to the queue descriptor.

**`Rendering`** draws windows of one surface each. What runs on the UI thread is one
step up to the submission; a completion runs beside it and takes its steps one by one
(publish, release the gate, wake, prune). Bytes are counted in units of the budget.

**`Clipboard`** has the pasteboard, which other applications change at any time, the
conversion worker, paste requests, the reader of guest selections and its
installation, and the two bounds on transfers. The UI thread's calls are taken apart where
another application, or a sender, can come in between: `InstallCheck`, `InstallClear`,
`InstallSet` and `InstallCount` are the calls of `install_guest_clipboard` and
`write_to_pasteboard`, where the write may fail and `setString`'s result is ignored;
`PollResults`, one `ReserveSlot` and `ReserveBytes` for each held descriptor, and
`StartNextImage` are `poll_host_clipboard_results`, whose descriptors go to senders through
`TransferBudget`. `clip.pc` is the place in such a call.

**`Relay`** has both pumps and the two lanes between them; a header is one unit and a
payload another, each event of a poll is an action followed by the pass the pump makes
before it polls again. The two guest programs differ in who opens a stream. Payloads
are numbered, so that loss, duplication and reordering all show.

**`RuntimeTasks`**, **`Control`**, **`PanelSessions`** are the three ways a user asks
for something. `RuntimeTasks` has the threads with their children and readers, the
lossy log lane and the task records; `Control` a handler thread per connection and the
time it has, in which what is answered at once from the panel is one `Snapshot`, and the
two reads of the configuration a queued launch makes in the loop (`PerformMessage` compares
the signature, `BeginLaunch` begins what a second `load_sessions` finds under the id);
`PanelSessions` the panel's own copies of what the loop does with one
profile and one slot.

**`ControlSocket`**, **`ProfileConfig`** are shared between processes: a socket path
that is probed, unlinked and bound in three steps without a lock, and a file that is
read, compared and renamed under a lock the editor does not take.

**`Input`** has native focus events in either order, keys, one button, gestures, locks
and the cursor, for windows that hide, close or lose the focus. **`Audio`** and
**`LatencyTrace`** each have one worker, its environment and its end; an error or a panic
of the trace's worker (`SinkFails`, `WorkerPanics`) drops the receiver and with it the queue.

**`ResearchMcp`** is the one loop of `transport.rs` (tick, frame, poll) with a helper per
profile. What the client says is a conversation: a sequence of messages whose tokens are
requests, bytes that are none, and the ends of lines; the pipe cuts it anywhere. The gate
of the session (`initialize`, then `initialized`), the pipe and the verification of the
kit, with a tick of the helpers before each read, are modelled. That nothing comes between
the last recheck of the kit and `exec` is the code's own stated assumption, and
`cleanup_failed` stands for every end of a helper that is not clean. The build without
Unix signals is not modelled.

**`Presentation`** has the roles a client creates, destroys and creates again on its
surfaces, the scene, the channel of messages to the loop, and the native windows. Its
abstractions: a surface stands for its tree of subsurfaces; positions have one dimension,
in which 1 is the 100 pixels of the narrowest tile; a destructor calls its handler at once;
clients keep to xdg-shell (one role object on a surface at a time, popups only on surfaces
that are shown and never below themselves) and a popup acknowledges its last configure.
Sending frame callbacks may make a clean window due again. Every native window has textures
of its own. Focus and drags are in `Input`; uploads, frame callbacks and the readiness of a
renderer in `Rendering`; decorations, titles, moving and minimizing are left out.

The `MC*` modules give constants their values, and compose independent components: the
variable `part` says which one a behaviour explores, the others keep their initial
state. That is a way to check several components in one run and hides nothing, since
the composed modules share no state.

External behaviour (marked external in the map): winit delivers posted events,
deadlines and native events, and AboutToWait after the posted ones; Metal calls the
completion of a submitted frame once; container daemons and CoreAudio answer or fail;
smithay's seat and constraints; Wayland clients, guest programs, editors and other
processes do as they like.

## 3. Runs

| Run | Instance | Shows |
| --- | --- | --- |
| `signal_flood` | a blocking and a timed sender that repeat, 1 credit, 1 message a turn, 2 UI sends | `CreditsBalance`, `NoLostWakeup`, `WorkerFloodBounded`; `LoopLive`: a queued message is received and every turn ends |
| `signal_held` | one worker of each kind, 2 credits | `HeldWorkerReturns`: no worker is held for ever |
| `sessions_safety` | 2 profiles of one identity, the default display and 1 slot, 4 versions, 3 operations, 1 edit; 2 toplevels and 2 popups, in three parts | `NothingShared` (slots, displays, identities), `SessionsInvariant` (workers tracked, reservations sound, what launches was checked), `CancelledNeverRuns`; `PresentationInvariant` |
| `sessions_lease` | 1 profile, 3 operations, 1 edit | `LeaseHasWork` is violated: the finding below |
| `shutdown_exit` | a shared launch, a dedicated one, a managed display, room for 2 messages, 2 per drain | `NothingLost`, `ReservedUntilReleased`, `ExitEnds` |
| `rendering` | 2 windows, 2 frames in flight, images of 1, 3 and 5 units, 4 units of budget, 1 failure | `RenderingInvariant`, `NobodyStranded`, `CommitsServed` |
| `transport` | a Wayland client with 2 requests; 2 relay streams and either guest program, queues of 1; an MCP server with a GUI helper and a self-test, 4 conversations, a pipe of 3 tokens, 1 edit of the kit | `SourceInvariant`, `StreamsIntact`, `RelayProgress`, `ResearchInvariant`, `GraceGiven` |
| `wayland_live` | a client that writes for ever, budget and quantum 1 | `LoopServesClients` |
| `clients` | a source that fails or is stopped; 2 copies (a TIFF, a text with a TIFF or with a PNG), 1 selection, 2 pastes, 1 transfer, room for the bytes of an image and not for those of a text | `SourceEnds`, `ClipboardInvariant`, `HeldRequestsEnd` |
| `panel` | 2 profiles whose operations are cancelled, files that cannot be read; 13 pairs of runtime commands; 2 control connections in 7 pairs of requests, 1 permit, room for 1 request, 1 edit between 5 contents of the profile file | `TasksInvariant`, `ControlInvariant`; `AskedEnds`: a cancelled launch gives its identity back, a command reports, a request is answered in time |
| `resources` | 2 jobs, 1 cleanup thread; 2 attempts of a launch on 3 runtimes; 1 command; 2 checks; 2 audio workers; 2 recorders; 1 helper | `QueueInvariant`, `JobsKept` (the refinement of `JobOwnership`), `LaunchInvariant`, `CommandInvariant`, `ImageCheckInvariant`, `AudioInvariant`, `TraceInvariant`, `HostWorkEnds` |
| `host` | 2 surfaces, 1 key, locks that last, one-shot locks in rootless mode and confinement on the desktop; 2 writers, 2 names, 3 transactions, 1 edit; 3 processes for one socket; 4 clicks | `InputInvariant`, `InputSteps`, `ProfilesInvariant`, `LiveSocketKept`, `PanelInvariant` |

The three parts of `Presentation` are: `popups` (one toplevel that is created once, and
popups that are created twice over it), `states` (a toplevel without popups whose window the
user, the system and the client change, with 2 events), and `tiles` (two toplevels that share
the desktop, its resizing and drags). One of each would not end in minutes; what the parts
leave out of each other is a state change of a window while popups come and go.
`sessions_safety` is symmetric in the two profiles: every other constant is a function of
versions and not of profiles, and the initial configuration gives both the same one. Since
`NothingShared`, `SessionsInvariant` and `CancelledNeverRuns` are also proved, that instance
is there to catch a wrong model early and can stay small.

Why the bounds are enough. Two contenders and one place fewer than they need are what
every race here is between: the last credit, the last worker, one slot, one identity,
one permit, the last byte. (`WaylandSource` has one client beside the two threads; two
exceed what TLC finishes in minutes.) `MaxPending`, `MaxAdmitted`, `Capacity`,
`DrainMax`, `TurnBudget`, `Quantum`, `MaxRunning`, `QueueRoom` and the relay's limits
stand for much larger numbers and are chosen so that they are exceeded. `MaxOps` = 3
lets a profile be started, cancelled and started again while the first attempt's reply
is still to come; `MaxEdits` = 1 puts an edit or a deletion at any point of that.
`UiBurst`, `MaxFailures`, `MaxLaunchFailures`, `MaxReaperFailures`, `MaxNoise`,
`MaxForeign`, `MaxRecreated`, `MaxClicks`, `MaxRoles`, `MaxEvents`, `MaxEditsOfKit` and the
like only cap how often the environment acts; `MaxInbox`, `PipeRoom` and `MaxFrame` how much
is under way; `Places`, `Views`, `Conversations`, `Loads` and `Scripts` what it may ask for.
`HeldWorkerReturns` has more credits than timed senders: with one credit that two senders
race for TLC finds a worker that always loses it, which the 256 credits of the code and its
few workers exclude.
`Input` is explored by use (typing, locking, pointing, gestures): all that happens to
keys, locks, buttons or gestures, with what the others do to the focus.

The deadlock check is off where the system may stop: a program that has exited, an
empty queue, clients that do nothing. `signal_flood` has it on.

### Fairness

`EventSignal`: threads that can run do, deadlines pass. The 2 ms budget of a turn is
taken one statement before its first test, so a turn that always expires before it
admits a message is excluded (strong fairness of `TryRecv`). Native input does not
keep winit from ever delivering posted events or AboutToWait (strong fairness of their
dispatch). Nothing is assumed of native events or of an exit.

`CleanupQueue`: the owner finishes what it is in, cleanup threads and the reaper run,
backoffs elapse, and the loop polls once it was woken or its timer is due. A cleanup
fails at most `MaxFailures` times; one that fails for ever is never released, which is
the point of `OwnershipRetained`, a part of `QueueInvariant`.

`Sessions`: workers answer, messages are handled and cleanups end. `Shutdown`: only the
exiting thread is sure to go on, and its deadline passes. `WaylandSource`: both threads
run, posted events and AboutToWait are delivered, a dispatch turn is not always out of
time before its first request, and the zero-timeout query of the queue descriptor is
not interrupted every time. `Rendering`: windows commit finitely often, and the system
goes on while anything in it can. `Clipboard`, `RuntimeTasks`, `Control`, `Audio`,
`LatencyTrace`: the program's own threads run, children exit once nothing holds them
up, clocks pass; nothing is assumed of users, clients and guests. `ResearchMcp`: its
loop runs, a helper's file is finite, and clocks pass every deadline. `Launch`,
`ImageCheck`, `RuntimeCommand`: the steps of the program are taken, and a killed
process dies.

## 4. What is proved

The proofs hold for every value of the constants that satisfies the named assumptions
of the modules: any number of workers, jobs, credits, processes, clients, profiles, slots,
writers, checks, recorders and buffers. TLC checks each property, and the parts of its
inductive invariant, on the runs above before the proof relies on it. Each theorem has the
same shape: an invariant in named parts, one lemma per part and group of actions that shows
the part is kept, and a last lemma that gathers them under `[Next]_vars`.

`EventSignalProofs` has two components. For the channel: `SignalTypeCorrect`,
`CreditsAlwaysBalance`, `WakeupNeverLost`, `WorkersStayBounded`. The inductive invariant is
`TypeOK`, `CreditsBalance` and two facts: a set notification flag has a wake on its way or a
turn to come (`FlagHasWake`), and a loop that sleeps with credits taken and no deadline has a
sender that has not decided about its wake (`SleepHasSender`). `NoLostWakeup` alone is not
inductive, since it speaks of the queue and `finish_turn` looks at credits: the balance of
credits is what connects them. The bound on workers needs one more: what workers have queued
or reserved never exceeds the capacity, which admission tests before it takes a credit.
For the panel, which hears of all else through that channel: `PanelShowsWhatEnds`. What is
shown as busy must be kept true by every handler, so `PanelInv` says which work stands behind
it (`BusyKept`, `LaunchKept`, `StopKept`), that a launch is alone with its profile
(`LaunchAlone`), that the panel's list is that of the loop but for the moments a history
variable names (`ListCurrent`), and that every window attempt was counted by a click
(`Counted`). Only cleanups that tell the panel of their end may be what it waits for, which
the proof made explicit.

`ResourceProofs`, which has the proofs about six components. For the cleanup queue:
`QueueIsKept` with its parts `OwnershipNeverLost`,
`KeysBusyUntilReleased`, `CleanupsStayBounded`; `OnlyReaperDestroys`,
`CompletionReportedOnce`, and the refinement `QueueImplementsOwnership`. The inductive
invariant says that an entry's reference is in exactly one place (`OnePlace`), that what the
reaper holds or has acknowledged still has its key (`DisposalsKeyed`), that a worker without
an outcome serves a running entry and an `Ok` is true (`WorkersServe`), and that a reported
completion is final (`CompletionFinal`). The refinement shows that each step is a step of
`JobOwnership` or a stutter: most only move a reference (`QuietStep`), and what is released
had been cleaned (`DisposedWereCleaned`).

`SessionsProofs`: `NothingIsShared`, `SessionsAreKept`, `CancelledIsNotRun`, for any number of
profiles, versions, slots and operations. The invariant has four parts. The
`Ledger` says who holds a generation, an operation, a session or a cleanup job and never two,
and that an identity is reserved for exactly the holder that names it; `Tracked` gives each
profile a row of the handlers' maps and says which worker in flight the row stands for, so
that a late reply is recognised; `Apart` says that no slot is used, or about to be, by two;
and `Gone` that a deleted profile has nothing left. None is inductive alone: a reply is
accepted because it is tracked, what it brings is published under the reservation of the
ledger, and on a slot that `Apart` has kept free for it. Assumed are `SessionsAssumption` and
`NoneAssumption` (the value for "none" is no record).

`ShutdownProofs`: `NoReplyLost`, `ReservedToTheEnd`. The invariant counts leases against the
threads that hold them (`LeasesCount`), names for each state of a thread the places its
resource may be in (`PlaceOfThread`), keeps replies true (`RepliesSound`), has a display
precede its container (`DisplayFirst`), has an operation go where the
resources of its attempt go (`OperationsBound`), and says at each phase of the
exit what is closed or drained (`Phases`). The final drain is complete because it takes as
many messages as the channel can hold: `Capacity <= DrainMax`, both 256 in the code, is an
assumption the proof needs.

`ClientsProofs` has two components. `NoReadinessLost` (`WaylandSource`, any finite set of
clients): what is ready is either known to a thread that will serve it, in an event that is
posted, or something the next poll reports. The parts are the types (`Typed`), where each
client is between its connection and its removal (`ClientsApart`), the monitors (`MonitorsKept`), where the one event is
(`EventPlace`), what a poll must include (`PollsWhatItMust`), that a wake follows
(`WakeComes`, `WakesCounted`), the output interest (`OutputTold`), the rotation
(`RotationKept`) and the failure (`FailureTold`). `PasteboardIsShown` (`Clipboard`): what a
guest is offered is what the pasteboard has (`Coherent`) or, after an installation its
pasteboard did not confirm, the guest's own contents. To keep that, the conversions there are
when the count is read must be older than it (`JobsBefore`), since one that came later would
be merged into what was cached; what an installation has written so far is kept at each of
its calls (`InstallKept`). A held request has its job (`HasJob`) and is of the copy that the
running poll found (`HeldKept`). Permits and bytes are counted by their holders
(`PermitsKept`), and every paste asks for one slot at most (`SlotsAsked`), so that a sender
that is asked for is there.

`TransportProofs`: `ServerLosesNothing`, `GraceIsGiven` (`ResearchMcp`). The invariant has the
helpers (`ChildrenKept`), the loop (`LoopKept`), the launch that is being verified
(`VerifiedKept`), the stream of tokens between the client's message and its answer
(`StreamKept`), and their order (`OrderKept`, `Staged`): ids grow along the way from the
answers given to the bytes not yet sent, so nothing is lost, doubled or overtaken.

`HostProofs`: `LiveSocketIsKept`, `ProfilesAreKept`, `ControlTellsTheTruth`. `ProfilesAreKept`
needs that a writer past its read holds the lock, that what it is about to write was made from
the text it has read, that the ids it gave out are below the next one and not in use, and that
a migration gives fresh ids to a finite set of profiles. `ControlTellsTheTruth` counts permits
by handlers (`PermitsCounted`), says for each step of a handler what it may still promise and
by when (`Timely`, `Told`, `Entitled`), and follows a request through the queue into what the
loop does with it: what was posted (`PostedAsAsked`), what the first read found
(`ActingAsChecked`) and what was begun (`LaunchAsAsked`), which differs from what was checked
only by an edit between the two reads. It assumes `SignatureAssumption`: a
profile's signature is its whole text, so that equal signatures have equal names.

`ResourceProofs` also has `CommandIsOwned`, `ChecksAreTrue`, `TraceIsAccounted`,
`AudioIsAccounted` and `LaunchesLeaveNothing`. Each adds what its component knows at each program counter. That of
the trace also counts: admitted calls are the recorders inside one (`ActiveCounts`), and a
drained queue stays empty (`DrainedMeansDone`). That of a launch says what an attempt has
started (`AttemptKept`), which helpers there are (`HelpersKept`), and that containers are in
one place and told apart from those of others by their owner (`PlacesKept`).

`RelayProofs`: `StreamsAreIntact`, `RelayNeverIdles`. Every frame has a key in its stream: an
OPEN is 0, a payload its number, a CLOSE comes last. The queue of a connection, the frame in
hand, the lane and the output of the sender are read as one sequence per direction
(`UpOf`, `DownOf`), and `RelayInv` says that the keys of each stream rise along it and are what
was sent and has not arrived (`UpWhole`, `DownWhole`). A step takes a frame from the beginning,
adds one at the end or moves one along, so a few lemmas about `Keys` and `Rising` carry every
action, and `StreamsIntact` needs no induction over filtered sequences. Beside it stand which streams the two ends have open (`Agreed`), that ids the guest has
not given out occur nowhere (`Fresh`), what a pass leaves behind (`HostSettled`,
`GuestSettled`), and the limits and ages of what is held (`HostHeld`, `GuestHeld`), from which
`RelayProgress` follows: a poll that could outlive a deadline would need an entry older than
the one at the head of its queue. Assumed are `RelayAssumption` (the limits are positive, an
output holds more than a header) and `NoRelayAssumption` (the value for "none" is no frame and
no connection).

Only model-checked:

* Liveness (every `~>` and `<>[]` property, and the fairness it needs) is out of the prover's
  reach.
* `RenderingInvariant` speaks of sums over sets of textures: recursive definitions over data of
  any size, for which the prover has no induction.
* `NobodyStranded`, `TasksInvariant`, `InputInvariant`, `InputSteps` and
  `PresentationInvariant` have no proof.

## 5. Finding

`sessions_lease`: `profile_activity.rs:65` documents the profile lease as "retained by
checks, launches, instances and asynchronous cleanup". TLC finds a lease that none of
them retains. A profile is edited to a new identity while its session runs; the session
exits; a start through the control API reaps it into the cleanup queue, reserves the
new identity and starts a check; when the check resumes the start, the early return for
a profile whose cleanup is still under way (`main.rs:4820`) leaves the operation with
its lease and its reservation and no work. A later start takes it up and a stop removes
it; until then the profile cannot be deleted and its identity cannot be used.

## 6. What the models leave out, and what they take as it is

* `EventSignal`: the raw-channel constructors without a bound, used by tests only.
* `RuntimeTasks`: the cap of 100 remembered tasks. Reader threads are not joined before
  `Finished` is sent, so a late line reopens a finished task; the properties say so.
* `Rendering`: one surface per window; `PrepareError::Busy` cannot be reached there.
* `ControlSocket`: no lock covers two starts, so two that overlap may unlink each
  other's socket; `LiveSocketKept` excepts exactly that.
* `Input`: winit reports motion before a click. A press where no surface is under the
  pointer of a window that then vanishes leaves a click grab until the next click, and
  `cancel_pointer_gesture` does not cancel swipes. Bounds: `Uses`, one button.
* `Clipboard`: the comment at `state.rs:1256` ("must not replace a newer guest selection or
  host copy") holds at the check; a copy between it and `clearContents` is replaced, and
  `CacheCoherent` does not claim otherwise. A write that fails unnoticed, or is overtaken
  before its count is read, leaves the guest's contents cached and offered for what the
  pasteboard does not hold until the next copy: the exception `unconfirmed`. Sizes are two
  (a text 2 units, an image 1), and payloads above the limit of one transfer are left out.
* `Control`: nothing keeps the file from changing between the check of a queued launch and
  the start's own read; then the same profile is begun as the edit left it, which
  `LaunchAsAsked` says.
* `LatencyTrace`: a sink may hang; the capture then has no summary. An error or a panic
  leaves totals and persistence unconfirmed, as the module's documentation says: the events
  in the queue, one queue at most, are lost uncounted, and no summary is published.
* `PanelSessions`: two situations are excepted by the history variable `known`, and
  both can be reached. A check that succeeds after CreateManagedDisplay reaped a display
  reads active sessions that were not synchronised yet and shows Running with nothing
  behind it; and a start that reaps an exited session while a check is pending leaves an
  operation whose launch task a later stop marks as running again. Not modelled: other
  profiles' conflicts, the record of auto-numbered displays, redraw throttling.
* `ResearchMcp`: a signal between the loop's check and a poll without a timeout is noticed
  at the next input, when no helper is left for it to stop.
* `Presentation`: a request to maximize that comes while the window is being changed is put
  off, and `StatesTold` excepts it.
* `Shutdown` and `Sessions` meet in one place: what `Sessions` calls a task is a lease
  with its reply in `Shutdown`.
* Memory ordering is taken as sequentially consistent: the channel uses `SeqCst`, and
  the other flags are single words read with acquire and written with release, or
  guarded by a mutex.

Not modelled: AppKit views and localisation; Metal commands and pixel geometry
(floating point); the vendored smithay and winit; command lines of container runtimes
and their output; diagnostics and reports. `PROJECT.json` lists every part with its
reason.

## 7. What is left

Proofs about `Presentation` and `Input`, whose invariants relate several windows at once;
models of frame pacing (the demand states of the display link) and of the
classic connections.
