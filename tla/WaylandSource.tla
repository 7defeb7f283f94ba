--------------------------- MODULE WaylandSource ---------------------------
(***************************************************************************)
(* The readiness thread of wayland_source.rs and the event loop it wakes.  *)
(*                                                                         *)
(* The thread polls its control socket, the listener, the display's queue  *)
(* descriptor and the sockets of clients whose output is blocked.  It      *)
(* accepts clients, and wakes the event loop once per arm: it stays        *)
(* disarmed until the loop has dispatched, flushed and rearmed.  The loop  *)
(* dispatches requests within a budget (the patched dispatcher of          *)
(* wayland-backend), flushes the clients and tells the thread which of     *)
(* them are blocked.                                                       *)
(*                                                                         *)
(* Clients connect, write requests, stop and go on reading and hang up as  *)
(* they like.  Every atomic access and every critical section is a step.   *)
(***************************************************************************)
EXTENDS Integers, Sequences, FiniteSets

CONSTANTS
    Clients,
    MaxAccepts,   \* MAX_ACCEPTS_PER_PASS
    TurnBudget,   \* requests one dispatch turn serves
    Quantum,      \* requests it serves of one client before it rotates
    Loads,        \* bounds: [requests: of a client in flight, fails: the source,
                  \* a dispatch or the user may end the loop]
    None

ASSUME SourceAssumption ==
    /\ MaxAccepts \in Nat \ {0}
    /\ TurnBudget \in Nat \ {0}
    /\ Quantum \in Nat \ {0}
    /\ Loads \subseteq [requests : Nat, fails : BOOLEAN]
    /\ IsFiniteSet(Clients) /\ None \notin Clients

VARIABLES
    load,       \* the member of Loads this behaviour is under; it never changes
    backlog,    \* clients connected to the listening socket
    hung,       \* clients that closed their end
    inSocket,   \* requests in a client's socket
    full,       \* clients that do not read: a write to them would block
    backend,    \* clients registered with the display backend
    buffered,   \* requests the backend has read and not dispatched
    pending,    \* pending_clients, the dispatcher's rotation
    unflushed,  \* clients with events to be written
    monitored,  \* OutputInterest::clients
    blocked,    \* OutputInterest::blocked
    armed,      \* the thread may wake the loop
    control,    \* the control socket holds a byte
    stopping,   \* SourceStatus::stopping
    failure,    \* FailureState: none, message, taken
    th,         \* what the thread does next
    seen,       \* its reading of armed
    watched,    \* its snapshot of the blocked clients
    revents,    \* what its poll returned
    accepts,    \* clients accepted in this pass
    hand,       \* the client being accepted
    loop,       \* what the event loop does next
    event,      \* the event being handled
    proxy,      \* posted user events
    deadline,   \* the wait ends by itself
    budget,     \* requests the dispatch turn may still serve
    active,     \* clients seen by flush_wayland_output
    failed,     \* those of them whose flush would block
    removed     \* set_output_interest: monitors to drop

clientVars == <<backlog, hung, full>>
dispatchVars == <<backend, inSocket, buffered, pending, unflushed>>
interestVars == <<monitored, blocked>>
statusVars == <<stopping, failure>>
threadVars == <<th, seen, watched, revents, accepts, hand>>
loopVars == <<loop, event, deadline, budget, active, failed, removed>>
vars == <<clientVars, dispatchVars, interestVars, armed, control, statusVars,
          threadVars, loopVars, proxy>>

NoEvents == [control |-> FALSE, listener |-> FALSE, display |-> FALSE,
             output |-> {}]

Init ==
    /\ load \in Loads
    /\ backlog = {} /\ hung = {} /\ full = {}
    /\ inSocket = [c \in Clients |-> 0]
    /\ buffered = [c \in Clients |-> 0]
    /\ backend = {} /\ unflushed = {}
    /\ pending = << >>
    /\ monitored = {} /\ blocked = {}
    /\ armed = TRUE
    /\ control = FALSE
    /\ stopping = FALSE
    /\ failure = "none"
    /\ th = "top"
    /\ seen = FALSE
    /\ watched = {}
    /\ revents = NoEvents
    /\ accepts = 0
    /\ hand = None
    /\ loop = "asleep"
    /\ event = "none"
    /\ proxy = 0
    /\ deadline = TRUE      \* the loop starts with a turn
    /\ budget = 0
    /\ active = {} /\ failed = {} /\ removed = {}

-----------------------------------------------------------------------------
(* The clients. *)

Connected(c) == c \in backlog \cup backend \/ hand = c

Connect(c) ==
    /\ ~Connected(c) /\ c \notin hung /\ loop # "gone"
    /\ backlog' = backlog \cup {c}
    /\ UNCHANGED <<hung, full, dispatchVars, interestVars, armed, control,
                   statusVars, threadVars, loopVars, proxy>>

WriteRequest(c) ==
    /\ Connected(c) /\ c \notin hung
    /\ inSocket[c] + buffered[c] < load.requests
    /\ inSocket' = [inSocket EXCEPT ![c] = @ + 1]
    /\ UNCHANGED <<backlog, hung, full, backend, buffered, pending, unflushed,
                   interestVars, armed, control, statusVars, threadVars,
                   loopVars, proxy>>

\* The client stops reading and its socket fills, or it reads again.
Reading(c) ==
    /\ c \in backend \ hung
    /\ full' = IF c \in full THEN full \ {c} ELSE full \cup {c}
    /\ UNCHANGED <<backlog, hung, dispatchVars, interestVars, armed,
                   control, statusVars, threadVars, loopVars, proxy>>

HangUp(c) ==
    /\ Connected(c) /\ c \notin hung
    /\ hung' = hung \cup {c}
    /\ full' = full \ {c}
    /\ UNCHANGED <<backlog, dispatchVars, interestVars, armed, control,
                   statusVars, threadVars, loopVars, proxy>>

-----------------------------------------------------------------------------
(* The readiness thread. *)

Thread(from, to) == th = from /\ th' = to

\* The queue descriptor of the backend: a registered socket is readable.
DisplayReadable == \E c \in backend : inSocket[c] > 0 \/ c \in hung

WatchLoop ==
    /\ th = "top"
    /\ th' = IF stopping THEN "dead" ELSE IF armed THEN "snapshot" ELSE "poll"
    /\ seen' = (armed /\ ~stopping)
    /\ UNCHANGED <<clientVars, dispatchVars, interestVars, armed, control,
                   statusVars, watched, revents, accepts, hand, loopVars, proxy>>

\* Under the lock of OutputInterest.
SnapshotInterest ==
    /\ Thread("snapshot", "poll")
    /\ watched' = blocked \cap monitored
    /\ UNCHANGED <<clientVars, dispatchVars, interestVars, armed, control,
                   statusVars, seen, revents, accepts, hand, loopVars, proxy>>

PollEvents == [control  |-> control,
               listener |-> backlog # {},
               display  |-> seen /\ DisplayReadable,
               output   |-> watched \ full]

PollReturns ==
    /\ Thread("poll", "polled")
    /\ PollEvents # NoEvents
    /\ revents' = PollEvents
    /\ seen' = FALSE
    /\ watched' = {}
    /\ UNCHANGED <<clientVars, dispatchVars, interestVars, armed, control,
                   statusVars, accepts, hand, loopVars, proxy>>

\* retry_interrupted: an interrupted call is retried unless the source stops.
Interrupted ==
    /\ Thread("poll", "dead")
    /\ stopping
    /\ UNCHANGED <<clientVars, dispatchVars, interestVars, armed, control,
                   statusVars, seen, watched, revents, accepts, hand, loopVars,
                   proxy>>

\* The poll or an accept fails for good.
SourceFails ==
    /\ load.fails /\ ~stopping
    /\ th = "poll" \/ (th = "accept" /\ accepts < MaxAccepts)
    /\ th' = "fail"
    /\ UNCHANGED <<clientVars, dispatchVars, interestVars, armed, control,
                   statusVars, seen, watched, revents, accepts, hand, loopVars,
                   proxy>>

\* record_failure, then fail wakes the loop whether armed or not.
RecordFailure ==
    /\ th = "fail"
    /\ IF stopping \/ failure # "none"
       THEN th' = "dead" /\ UNCHANGED failure
       ELSE th' = "failwake" /\ failure' = "message"
    /\ UNCHANGED <<clientVars, dispatchVars, interestVars, armed, control,
                   stopping, seen, watched, revents, accepts, hand, loopVars,
                   proxy>>

\* Mutant: the failure is left for the next event to find.
FailureWakeLost ==
    /\ Thread("failwake", "dead")
    /\ UNCHANGED <<clientVars, dispatchVars, interestVars, armed, control,
                   statusVars, seen, watched, revents, accepts, hand, loopVars,
                   proxy>>
FailureWake ==
    /\ Thread("failwake", "dead")
    /\ proxy' = proxy + 1
    /\ UNCHANGED <<clientVars, dispatchVars, interestVars, armed, control,
                   statusVars, seen, watched, revents, accepts, hand, loopVars>>

\* stopping is tested before and after the control socket is emptied.
DrainControl ==
    /\ th = "polled"
    /\ th' = IF stopping THEN "dead" ELSE "drained"
    /\ control' = IF ~stopping /\ revents.control THEN FALSE ELSE control
    /\ UNCHANGED <<clientVars, dispatchVars, interestVars, armed, statusVars,
                   seen, watched, revents, accepts, hand, loopVars, proxy>>

AfterDrain ==
    /\ th = "drained"
    /\ th' = IF stopping THEN "dead"
             ELSE IF revents.listener THEN "accept" ELSE "test"
    /\ UNCHANGED <<clientVars, dispatchVars, interestVars, armed, control,
                   statusVars, seen, watched, revents, accepts, hand, loopVars,
                   proxy>>

\* listener.accept and insert_client ...
AcceptClient ==
    /\ Thread("accept", "monitor")
    /\ ~stopping /\ accepts < MaxAccepts
    /\ \E c \in backlog :
         /\ backlog' = backlog \ {c}
         /\ backend' = backend \cup {c}
         /\ hand' = c
    /\ UNCHANGED <<hung, full, inSocket, buffered, pending, unflushed,
                   interestVars, armed, control, statusVars, seen, watched,
                   revents, accepts, loopVars, proxy>>

\* ... then its monitoring socket, under the lock of OutputInterest.
MonitorClient ==
    /\ Thread("monitor", "accept")
    /\ monitored' = monitored \cup {hand}
    /\ hand' = None
    /\ accepts' = accepts + 1
    /\ UNCHANGED <<clientVars, dispatchVars, blocked, armed, control,
                   statusVars, seen, watched, revents, loopVars, proxy>>

AcceptsDone ==
    /\ Thread("accept", "test")
    /\ accepts = MaxAccepts \/ (backlog = {} /\ ~stopping)
    /\ accepts' = 0
    /\ UNCHANGED <<clientVars, dispatchVars, interestVars, armed, control,
                   statusVars, seen, watched, revents, hand, loopVars, proxy>>

\* retry_interrupted tests stopping before every accept.
StopAccepting ==
    /\ Thread("accept", "dead")
    /\ stopping /\ accepts < MaxAccepts
    /\ UNCHANGED <<clientVars, dispatchVars, interestVars, armed, control,
                   statusVars, seen, watched, revents, accepts, hand, loopVars,
                   proxy>>

Ready == \/ revents.display \/ revents.listener
         \/ revents.output \cap blocked \cap monitored # {}

TestReady ==
    /\ th = "test"
    /\ th' = IF Ready /\ ~stopping THEN "swap" ELSE "top"
    /\ revents' = NoEvents
    /\ UNCHANGED <<clientVars, dispatchVars, interestVars, armed, control,
                   statusVars, seen, watched, accepts, hand, loopVars, proxy>>

Disarm ==
    /\ th = "swap"
    /\ th' = IF armed THEN "wake" ELSE "top"
    /\ armed' = FALSE
    /\ UNCHANGED <<clientVars, dispatchVars, interestVars, control, statusVars,
                   seen, watched, revents, accepts, hand, loopVars, proxy>>

\* The loop outlives the thread it joins, so the proxy takes the event.
WakeLoop ==
    /\ Thread("wake", "top")
    /\ proxy' = proxy + 1
    /\ UNCHANGED <<clientVars, dispatchVars, interestVars, armed, control,
                   statusVars, seen, watched, revents, accepts, hand, loopVars>>

-----------------------------------------------------------------------------
(* The event loop. *)

Loop(from, to) == loop = from /\ loop' = to

EndWait ==
    /\ Loop("asleep", "events")
    /\ deadline' = FALSE
    /\ UNCHANGED <<clientVars, dispatchVars, interestVars, armed, control,
                   statusVars, threadVars, event, budget, active, failed,
                   removed, proxy>>
Awake == (proxy > 0 \/ deadline) /\ EndWait
NativeEvent == EndWait

\* Every event first looks for a failure of the source, and exits the loop on one.
Handle(e) ==
    /\ loop = "events"
    /\ IF failure = "message"
       THEN loop' = "exiting" /\ failure' = "taken"
       ELSE /\ loop' = IF e = "input" THEN "flush" ELSE "queue"
            /\ UNCHANGED failure
    /\ event' = IF loop' = "exiting" THEN "none" ELSE e
    /\ budget' = IF loop' = "queue" THEN TurnBudget ELSE 0
    /\ UNCHANGED <<clientVars, dispatchVars, interestVars, armed, control,
                   stopping, threadVars, deadline, active, failed, removed>>

HandleUser == proxy > 0 /\ Handle("user") /\ proxy' = proxy - 1
HandleRedraw == Handle("redraw") /\ UNCHANGED proxy
HandleInput == Handle("input") /\ UNCHANGED proxy
HandleAboutToWait == proxy = 0 /\ Handle("about") /\ UNCHANGED proxy

\* queue_ready_clients: the readable clients that are not in the rotation yet join
\* it, in any order; an interrupted call adds none.
Readable == {c \in backend : inSocket[c] > 0 \/ c \in hung}
InRotation == {pending[i] : i \in DOMAIN pending}
Orders(S) == {s \in [1 .. Cardinality(S) -> S] :
                \A i, j \in DOMAIN s : s[i] = s[j] => i = j}
Joining == Readable \ InRotation

QueueReadyClients ==
    /\ Loop("queue", "dispatch")
    /\ \E s \in Orders(Joining) \cup {<< >>} : pending' = pending \o s
    /\ UNCHANGED <<clientVars, backend, inSocket, buffered, unflushed,
                   interestVars, armed, control, statusVars, threadVars, event,
                   deadline, budget, active, failed, removed, proxy>>

Smaller(m, n) == IF m < n THEN m ELSE n

\* A client that used up its quantum keeps its turn in the rotation: its requests
\* may all be buffered, out of sight of the queue descriptor.
\* Mutant: it is left to the queue descriptor.
RotationForgets(c, yields) == Tail(pending)
Rotation(c, yields) == IF yields THEN Append(Tail(pending), c) ELSE Tail(pending)

\* dispatch_events_for_with_budget, for the client whose turn it is: it yields
\* with its quantum or the time spent (late), and else ends with its requests.
\* A read moves all of the socket into the buffer and happens when the buffer is
\* empty; a client that hung up is unregistered then; a request may be answered.
ServeClient(late) ==
    /\ Loop("dispatch", "queue")
    /\ budget > 0 /\ pending # << >>
    /\ LET c     == Head(pending)
           held  == buffered[c] + inSocket[c]
           quota == Smaller(Quantum, budget)
           most  == Smaller(quota, held)
       IN  \E n \in IF late THEN 0 .. most ELSE {most} :
           LET yields == late \/ n = quota
               reads  == n > buffered[c] \/ ~yields
               gone   == IF yields THEN {} ELSE {c} \cap hung
           IN  /\ inSocket' = IF reads THEN [inSocket EXCEPT ![c] = 0] ELSE inSocket
               /\ buffered' = [buffered EXCEPT ![c] = (IF reads THEN held ELSE @) - n]
               /\ budget' = IF late THEN 0 ELSE budget - n
               /\ pending' = Rotation(c, yields)
               /\ backend' = backend \ gone
               /\ \E answered \in BOOLEAN :
                    unflushed' = (IF answered /\ n > 0 THEN unflushed \cup {c}
                                                       ELSE unflushed) \ gone
    /\ UNCHANGED <<clientVars, interestVars, armed, control, statusVars,
                   threadVars, event, deadline, active, failed, removed, proxy>>

\* The rotation is empty, or the budget of requests or of time is spent; only
\* AboutToWait keeps the answer whether a client still has its turn to come.
EndDispatch ==
    /\ Loop("dispatch", "flush")
    /\ deadline' = (event = "about" /\ pending # << >>)
    /\ budget' = 0
    /\ UNCHANGED <<clientVars, dispatchVars, interestVars, armed, control,
                   statusVars, threadVars, event, active, failed, removed, proxy>>

\* dispatch_wayland_turn fails, or the user quits: the loop exits.
ExitLoop ==
    /\ load.fails
    /\ loop \in {"events", "dispatch"}
    /\ loop' = "exiting"
    /\ event' = "none" /\ budget' = 0
    /\ UNCHANGED <<clientVars, dispatchVars, interestVars, armed, control,
                   statusVars, threadVars, deadline, active, failed, removed,
                   proxy>>

\* flush_wayland_output.  Input, frame callbacks and the cursor's make events.
MakesOutput == event \in {"redraw", "input", "cursor"}
FlushClients ==
    /\ Loop("flush", "interest")
    /\ \E out \in (IF MakesOutput THEN SUBSET backend ELSE {{}}) :
         /\ failed' = (unflushed \cup out) \cap full
         /\ unflushed' = (unflushed \cup out) \cap full
    /\ active' = backend
    /\ UNCHANGED <<clientVars, backend, inSocket, buffered, pending,
                   interestVars, armed, control, statusVars, threadVars, event,
                   deadline, budget, removed, proxy>>

\* set_output_interest: the monitors of clients the caller did not see ...
FindRemoved ==
    /\ loop = "interest"
    /\ loop' = IF monitored \subseteq active THEN "update" ELSE "recheck"
    /\ removed' = monitored \ active
    /\ active' = {}
    /\ UNCHANGED <<clientVars, dispatchVars, interestVars, armed, control,
                   statusVars, threadVars, event, deadline, budget, failed, proxy>>

StillRegistered == removed \ backend
RecheckRemoved ==
    /\ Loop("recheck", "update")
    /\ removed' = StillRegistered
    /\ UNCHANGED <<clientVars, dispatchVars, interestVars, armed, control,
                   statusVars, threadVars, event, deadline, budget, active,
                   failed, proxy>>

InterestChanged == monitored \cap removed # {} \/ blocked # failed
UpdateInterest ==
    /\ loop = "update"
    /\ loop' = IF InterestChanged THEN "notify" ELSE "flushed"
    /\ monitored' = monitored \ removed
    /\ blocked' = failed
    /\ failed' = {} /\ removed' = {}
    /\ UNCHANGED <<clientVars, dispatchVars, armed, control, statusVars,
                   threadVars, event, deadline, budget, active, proxy>>

NotifyInterest ==
    /\ Loop("notify", "flushed")
    /\ control' = TRUE
    /\ UNCHANGED <<clientVars, dispatchVars, interestVars, armed, statusVars,
                   threadVars, event, deadline, budget, active, failed, removed,
                   proxy>>

\* What follows the flush of an event; only AboutToWait rearms the source.
AfterFlush == CASE event = "about"  -> "rearm"
                [] event = "cursor" -> "asleep"
                [] OTHER            -> "events"
EventDone ==
    /\ Loop("flushed", AfterFlush)
    /\ event' = "none"
    /\ UNCHANGED <<clientVars, dispatchVars, interestVars, armed, control,
                   statusVars, threadVars, deadline, budget, active, failed,
                   removed, proxy>>

\* Mutant: the thread is left to notice the flag.
RearmSilently ==
    /\ Loop("rearm", "rearmed")
    /\ armed' = TRUE
    /\ UNCHANGED <<clientVars, dispatchVars, interestVars, control, statusVars,
                   threadVars, event, deadline, budget, active, failed, removed,
                   proxy>>
Rearm ==
    /\ loop = "rearm"
    /\ loop' = IF armed THEN "rearmed" ELSE "notifyarm"
    /\ armed' = TRUE
    /\ UNCHANGED <<clientVars, dispatchVars, interestVars, control, statusVars,
                   threadVars, event, deadline, budget, active, failed, removed,
                   proxy>>

NotifyRearm ==
    /\ Loop("notifyarm", "rearmed")
    /\ control' = TRUE
    /\ UNCHANGED <<clientVars, dispatchVars, interestVars, armed, statusVars,
                   threadVars, event, deadline, budget, active, failed, removed,
                   proxy>>

\* The rest of AboutToWait: due cursor callbacks are sent and flushed.
EndTurn ==
    /\ loop = "rearmed"
    /\ \/ loop' = "asleep" /\ UNCHANGED event
       \/ loop' = "flush" /\ event' = "cursor"
    /\ UNCHANGED <<clientVars, dispatchVars, interestVars, armed, control,
                   statusVars, threadVars, deadline, budget, active, failed,
                   removed, proxy>>

\* stop: the flag, then the control byte, then the join.
StopFlag ==
    /\ Loop("exiting", "stopping")
    /\ stopping' = TRUE
    /\ UNCHANGED <<clientVars, dispatchVars, interestVars, armed, control,
                   failure, threadVars, event, deadline, budget, active, failed,
                   removed, proxy>>

StopNotify ==
    /\ Loop("stopping", "joining")
    /\ control' = TRUE
    /\ UNCHANGED <<clientVars, dispatchVars, interestVars, armed, statusVars,
                   threadVars, event, deadline, budget, active, failed, removed,
                   proxy>>

Join ==
    /\ Loop("joining", "gone")
    /\ th = "dead"
    /\ monitored' = {} /\ blocked' = {}
    /\ UNCHANGED <<clientVars, dispatchVars, armed, control, statusVars,
                   threadVars, event, deadline, budget, active, failed, removed,
                   proxy>>

-----------------------------------------------------------------------------
ClientStep(c) == Connect(c) \/ WriteRequest(c) \/ Reading(c) \/ HangUp(c)

ThreadStep ==
    \/ WatchLoop \/ SnapshotInterest \/ PollReturns \/ RecordFailure
    \/ FailureWake \/ DrainControl \/ AfterDrain \/ AcceptClient
    \/ MonitorClient \/ AcceptsDone \/ StopAccepting \/ TestReady \/ Disarm \/ WakeLoop

\* A posted event and AboutToWait get their turn among the native events.
LoopStep ==
    \/ Awake \/ QueueReadyClients \/ EndDispatch \/ FlushClients
    \/ \E late \in BOOLEAN : ServeClient(late)
    \/ FindRemoved \/ RecheckRemoved \/ UpdateInterest \/ NotifyInterest
    \/ EventDone \/ Rearm \/ NotifyRearm \/ EndTurn
    \/ StopFlag \/ StopNotify \/ Join
NativeStep == NativeEvent \/ HandleRedraw \/ HandleInput

Next ==
    \/ \E c \in Clients : ClientStep(c)
    \/ ThreadStep \/ Interrupted \/ SourceFails
    \/ LoopStep \/ NativeStep \/ HandleUser \/ HandleAboutToWait \/ ExitLoop

Spec == Init /\ [][Next /\ UNCHANGED load]_<<load, vars>>

\* Both threads run; winit delivers posted events and ends its turns, and a
\* dispatch turn with time to spare serves somebody.
Fairness ==
    /\ WF_vars(ThreadStep)
    /\ WF_vars(LoopStep)
    /\ SF_vars(HandleUser)
    /\ SF_vars(HandleAboutToWait)
    /\ SF_vars(ServeClient(FALSE))
    /\ SF_vars(QueueReadyClients /\ Readable \subseteq InRotation')

FairSpec == Spec /\ Fairness

-----------------------------------------------------------------------------
(* Properties. *)

\* Every variable of the thread, the source and the loop stays in its type; a
\* rotation never holds a client twice.
TypeOK ==
    /\ backlog \subseteq Clients /\ hung \subseteq Clients /\ full \subseteq Clients
    /\ inSocket \in [Clients -> 0 .. load.requests]
    /\ buffered \in [Clients -> 0 .. load.requests]
    /\ backend \subseteq Clients
    /\ pending \in Seq(backend)
    /\ \A i, j \in DOMAIN pending : pending[i] = pending[j] => i = j
    /\ unflushed \subseteq backend
    /\ monitored \subseteq Clients /\ blocked \subseteq Clients
    /\ armed \in BOOLEAN /\ control \in BOOLEAN /\ stopping \in BOOLEAN
    /\ failure \in {"none", "message", "taken"}
    /\ th \in {"top", "snapshot", "poll", "polled", "drained", "accept", "monitor",
               "test", "swap", "wake", "fail", "failwake", "dead"}
    /\ seen \in BOOLEAN /\ watched \subseteq Clients
    /\ revents \in [control : BOOLEAN, listener : BOOLEAN, display : BOOLEAN,
                    output : SUBSET Clients]
    /\ accepts \in 0 .. MaxAccepts
    /\ hand \in Clients \cup {None}
    /\ loop \in {"asleep", "events", "queue", "dispatch", "flush", "interest",
                 "recheck", "update", "notify", "flushed", "rearm", "notifyarm",
                 "rearmed", "exiting", "stopping", "joining", "gone"}
    /\ event \in {"none", "user", "redraw", "input", "about", "cursor"}
    /\ proxy \in Nat /\ deadline \in BOOLEAN
    /\ budget \in 0 .. TurnBudget
    /\ active \subseteq Clients /\ failed \subseteq Clients
    /\ removed \subseteq Clients

\* Nobody will move: the loop sleeps without a wake to come and the thread is in
\* a poll that nothing ends, or has ended.
Quiet == /\ loop = "asleep" /\ proxy = 0 /\ ~deadline
         /\ th = "dead" \/ (th = "poll" /\ PollEvents = NoEvents)

\* No readiness is lost: when nobody will move, every connection is accepted,
\* every request dispatched, every hangup noticed, every event written that the
\* client has room for, and the thread is not dead behind the loop's back.
NoLostReadiness ==
    Quiet => /\ th # "dead"
             /\ backlog = {}
             /\ \A c \in backend : inSocket[c] + buffered[c] = 0 /\ c \notin hung
             /\ unflushed \subseteq full

\* The monitoring socket of a registered client is never dropped, though the
\* clients set_output_interest was given may predate an accept.
MonitorsKept == loop # "gone" => backend \subseteq monitored \cup {hand}

\* The thread posts one wake per arm, and one for its failure: they never pile up.
\* A turn may find the late wake of the arm before the last, the wake of the last
\* one and, before it ends, that of its own.
WakesBounded == proxy <= 3 + (IF failure = "none" THEN 0 ELSE 1)

\* The loop gets back to sleep, however busy the clients are.
TurnEnds == (loop = "events") ~> (loop \in {"asleep", "exiting"})

\* A request is dispatched.
RequestServed ==
    \A c \in Clients :
      (inSocket[c] + buffered[c] > 0) ~> (inSocket[c] + buffered[c] = 0 \/ loop = "gone")

\* An event the client has room for is written.
OutputServed ==
    \A c \in Clients :
      (c \in unflushed \ full) ~> (c \notin unflushed \/ c \in full \/ loop = "gone")

\* A failure of the source ends the loop, and stopping the source ends: the join
\* of the thread does not hang.
FailureEnds == (failure = "message" \/ loop = "exiting") ~> (loop = "gone")

\* The thread and the loop hand the readiness to each other without losing any of it, without
\* dropping the monitor of a client and without flooding the loop with wakes.
SourceInvariant ==
    /\ TypeOK
    /\ NoLostReadiness
    /\ MonitorsKept
    /\ WakesBounded

\* The loop gets back to sleep however busy the clients are, and serves every request.
LoopServesClients ==
    /\ TurnEnds
    /\ RequestServed

\* What the client has room for is written, and a source that fails or is stopped ends.
SourceEnds ==
    /\ FailureEnds
    /\ OutputServed
=============================================================================
