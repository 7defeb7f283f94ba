------------------------------ MODULE Shutdown ------------------------------
(***************************************************************************)
(* Shutting down while workers are still producing processes: the leases   *)
(* of lifecycle_producers.rs, send_resource_message and the LoopExiting    *)
(* handler of main.rs, the draining of late replies in shutdown.rs and the *)
(* rollback of undeliverable ones in session_lifecycle.rs.                 *)
(*                                                                         *)
(* What is produced (a display worker process, a launched container) is a  *)
(* resource that is in exactly one place at a time.  The handlers that run *)
(* before the exit are those of Sessions, reduced to where they put the    *)
(* resource; a cleanup job is one of CleanupQueue, reduced to its end.     *)
(***************************************************************************)
EXTENDS Integers, Sequences, FiniteSets

CONSTANTS
    Shared,     \* attempts that launch on a display there is
    Dedicated,  \* attempts that start a display of their own first
    Managed,    \* managed displays being created
    Capacity,   \* MAX_PENDING_WORKER_MESSAGES
    DrainMax,   \* the 256 messages drain_owned_results takes in one call
    MinRounds,  \* how many calls the 60 seconds allow at least
    MaxNoise,   \* bound: messages that own nothing
    NoResult

Attempted == Shared \cup Dedicated       \* attempts with an operation

\* A resource, named after the attempt and what its worker produces.
Displays   == (Dedicated \cup Managed) \X {"display"}
Containers == Attempted \X {"container"}
Resources  == Displays \cup Containers
Of(a) == {r \in Resources : r[1] = a}

ASSUME ShutdownAssumption ==
    /\ Shared \cap Dedicated = {} /\ Managed \cap Attempted = {}
    /\ IsFiniteSet(Attempted \cup Managed)
    /\ Capacity \in Nat \ {0} /\ DrainMax \in Nat \ {0}
    /\ Capacity <= DrainMax      \* both are 256
    /\ MinRounds \in Nat /\ MaxNoise \in Nat
    /\ NoResult \notin [resource : Resources, ok : BOOLEAN]

VARIABLES
    closing,   \* State.closing of the producers
    leases,    \* State.active
    thread,    \* [Resources -> ThreadState]: the worker that produces it
    place,     \* [Resources -> Place]
    operation, \* [Attempted -> Place]: the operation, with its reservation
    queue,     \* the event channel: replies, and NoResult for what owns nothing
    loop,      \* where the native loop is
    idle,      \* producers_idle_before_drain
    drained,   \* messages taken by the current drain_owned_results
    rounds,    \* calls of drain_owned_results, up to MinRounds
    retained,  \* the Remainders job: "none", "pending", "done"
    finished,  \* what CleanupQueue::finish answered
    noise      \* for MaxNoise

loopVars == <<loop, idle, drained, rounds, retained, finished>>
shutdownVars == <<closing, leases, thread, place, operation, queue, noise, loopVars>>

ThreadState == {"none", "begun", "working", "sending", "sent", "rollback", "ended"}
\* "ui" is a session, a managed display, or an entry of a pending map.
Place == {"none", "thread", "queue", "ui", "job", "rollback", "remainder",
          "released", "lost"}
LoopState == {"running", "round", "drain", "test", "finish", "gone"}

\* A reply carries its resource, or reports a failure.
Message == [resource : Resources, ok : BOOLEAN] \cup {NoResult}

ShutdownInit ==
    /\ closing = FALSE
    /\ leases = 0
    /\ thread = [r \in Resources |-> "none"]
    /\ place = [r \in Resources |-> "none"]
    /\ operation = [p \in Attempted |-> "none"]
    /\ queue = << >>
    /\ loop = "running"
    /\ idle = FALSE
    /\ drained = 0 /\ rounds = 0
    /\ retained = "none"
    /\ finished = FALSE
    /\ noise = 0

Put(rs, where) == [r \in Resources |-> IF r \in rs THEN where ELSE place[r]]
PutOperation(p, where) == [q \in Attempted |-> IF q = p THEN where ELSE operation[q]]
Goto(r, state) == thread' = [thread EXCEPT ![r] = state]

-----------------------------------------------------------------------------
(* Producers: the threads of spawn_display_worker_async,                      *)
(* spawn_managed_display_worker_async and spawn_container_session_on_display. *)

\* begin(): refused once the producers are closing.
Begin(r) ==
    /\ ~closing
    /\ leases' = leases + 1
    /\ Goto(r, "begun")

\* A handler spawns the worker of an attempt's first stage.
StartAttempt(r) ==
    /\ loop = "running"
    /\ thread[r] = "none"
    /\ r[1] \in Dedicated => r \in Displays
    /\ Begin(r)
    /\ operation' = PutOperation(r[1], "ui")
    /\ UNCHANGED <<closing, place, queue, noise, loopVars>>

\* A thread ends and drops its lease.
End(r) == leases' = leases - 1 /\ Goto(r, "ended")

\* The thread starts; closing() makes it return at once.
ThreadStarts(r) ==
    /\ thread[r] = "begun"
    /\ IF closing THEN End(r) ELSE Goto(r, "working") /\ UNCHANGED leases
    /\ UNCHANGED <<closing, place, operation, queue, noise, loopVars>>

\* The work ends with a resource, or with an error that owns nothing.
WorkDone(r, ok) ==
    /\ thread[r] = "working"
    /\ Goto(r, "sending")
    /\ place' = IF ok THEN Put({r}, "thread") ELSE place
    /\ UNCHANGED <<closing, leases, operation, queue, noise, loopVars>>

\* One round of send_resource_message: admit() decides under the lock that
\* close() takes.  Mutant: the reply is sent without asking.
AdmittedUnchecked == TRUE
Admitted == ~closing

SendReply(r) ==
    /\ thread[r] = "sending"
    /\ loop # "gone" /\ Admitted
    /\ Len(queue) < Capacity
    /\ queue' = Append(queue, [resource |-> r, ok |-> place[r] = "thread"])
    /\ place' = IF place[r] = "thread" THEN Put({r}, "queue") ELSE place
    /\ Goto(r, "sent")
    /\ UNCHANGED <<closing, leases, operation, noise, loopVars>>

\* The reply is refused: the worker rolls back what it produced and keeps its
\* lease while it does.
SendRefused(r) ==
    /\ thread[r] = "sending"
    /\ loop = "gone" \/ ~Admitted
    /\ IF place[r] = "thread" THEN place' = Put({r}, "rollback") /\ Goto(r, "rollback")
                              ELSE Goto(r, "sent") /\ UNCHANGED place
    /\ UNCHANGED <<closing, leases, operation, queue, noise, loopVars>>

ThreadEnds(r) ==
    /\ thread[r] = "sent"
    /\ End(r)
    /\ UNCHANGED <<closing, place, operation, queue, noise, loopVars>>

RolledBack(r) ==
    /\ thread[r] = "rollback"
    /\ place' = Put({r}, "released")
    /\ End(r)
    /\ UNCHANGED <<closing, operation, queue, noise, loopVars>>

\* Log readers and the UI send messages that own no process; the UI's are not
\* held to the capacity.
SendNoise ==
    /\ loop # "gone"
    /\ noise < MaxNoise
    /\ noise' = noise + 1
    /\ queue' = Append(queue, NoResult)
    /\ UNCHANGED <<closing, leases, thread, place, operation, loopVars>>

-----------------------------------------------------------------------------
(* The message loop before the exit. *)

OwnedByUi(p) == {r \in Of(p) : place[r] = "ui"}

\* queue_launch_cleanup and queue_session_cleanup: a job takes the operation or
\* session of p with all that the UI owns of it; a managed display has none.
MoveToJob(a, rs) ==
    /\ place' = Put(rs \cup OwnedByUi(a), "job")
    /\ operation' = PutOperation(a, "job")

\* A failed worker: the operation goes, into a cleanup job if it was cancelled
\* or has a display to clean up.
HandleFailure(a) ==
    /\ \/ MoveToJob(a, {})
       \/ /\ OwnedByUi(a) = {}
          /\ operation' = PutOperation(a, "released")
          /\ UNCHANGED place
    /\ UNCHANGED <<leases, thread>>

\* A cancelled or superseded attempt.
HandleUnwanted(r) == MoveToJob(r[1], {r}) /\ UNCHANGED <<leases, thread>>

\* A managed display or a container that runs from now on; a dedicated display
\* waits in pending_launch_workers while its container is launched.
HandleWanted(r) ==
    /\ place' = Put({r}, "ui")
    /\ IF r[1] \in Dedicated /\ r \in Displays
       THEN Begin(<<r[1], "container">>)
       ELSE UNCHANGED <<leases, thread>>
    /\ UNCHANGED operation

HandleMessage ==
    /\ loop = "running" /\ queue # << >>
    /\ queue' = Tail(queue)
    /\ LET m == Head(queue)
       IN  \/ m = NoResult /\ UNCHANGED <<leases, thread, place, operation>>
           \/ m # NoResult /\ ~m.ok /\ HandleFailure(m.resource[1])
           \/ m # NoResult /\ m.ok /\ HandleUnwanted(m.resource)
           \/ m # NoResult /\ m.ok /\ HandleWanted(m.resource)
    /\ UNCHANGED <<closing, noise, loopVars>>

-----------------------------------------------------------------------------
(* LoopExiting. *)

\* A session is what owns a container; its operation became the session's.
Sessions == {p \in Attempted : place[<<p, "container">>] = "ui"}

\* close(), and everything that runs is queued for cleanup.
LoopExiting ==
    /\ loop = "running"
    /\ closing' = TRUE
    /\ place' = Put(UNION {OwnedByUi(a) : a \in Sessions \cup Managed}, "job")
    /\ operation' = [p \in Attempted |-> IF p \in Sessions THEN "job" ELSE operation[p]]
    /\ loop' = "round"
    /\ UNCHANGED <<leases, thread, queue, idle, drained, rounds, retained,
                   finished, noise>>

\* The producers are counted before the queue is drained.
StartRound ==
    /\ loop = "round"
    /\ idle' = (leases = 0)
    /\ drained' = 0
    /\ loop' = "drain"
    /\ UNCHANGED <<closing, leases, thread, place, operation, queue, rounds,
                   retained, finished, noise>>

\* drain_owned_results: a reply that owns a process, and any end of a launch,
\* goes into a cleanup job together with its operation; the rest is dropped.
OwnsProcess(m) == m # NoResult /\ (m.ok \/ m.resource \in Containers)

DrainOne ==
    /\ loop = "drain" /\ drained < DrainMax /\ queue # << >>
    /\ queue' = Tail(queue)
    /\ drained' = drained + 1
    /\ LET m == Head(queue)
       IN  IF OwnsProcess(m)
           THEN MoveToJob(m.resource[1], IF m.ok THEN {m.resource} ELSE {})
           ELSE UNCHANGED <<place, operation>>
    /\ UNCHANGED <<closing, leases, thread, loop, idle, rounds, retained,
                   finished, noise>>

EndDrain ==
    /\ loop = "drain"
    /\ drained = DrainMax \/ queue = << >>
    /\ loop' = "test"
    /\ rounds' = IF rounds < MinRounds THEN rounds + 1 ELSE rounds
    /\ UNCHANGED <<closing, leases, thread, place, operation, queue, idle,
                   drained, retained, finished, noise>>

\* producers_idle_before_drain && drained == 0.
Quiet == idle /\ drained = 0

NextRound ==
    /\ loop = "test" /\ ~Quiet
    /\ loop' = "round"
    /\ UNCHANGED <<closing, leases, thread, place, operation, queue, idle,
                   drained, rounds, retained, finished, noise>>

\* The loop may end: all is quiet, or the deadline has passed.  Mutant: no
\* deadline.
MayEndNever == Quiet
MayEnd == Quiet \/ rounds = MinRounds

\* retain_remainders: the operations and pending launch workers that are left.
RetainRemainders ==
    /\ loop = "test" /\ MayEnd
    /\ place' = Put({r \in Resources : place[r] = "ui"}, "remainder")
    /\ operation' = [p \in Attempted |-> IF operation[p] = "ui" THEN "remainder"
                                                               ELSE operation[p]]
    /\ retained' = "pending"
    /\ loop' = "finish"
    /\ UNCHANGED <<closing, leases, thread, queue, idle, drained, rounds,
                   finished, noise>>

CleanupEmpty ==
    /\ \A r \in Resources : place[r] # "job"
    /\ \A p \in Attempted : operation[p] # "job"
    /\ retained # "pending"

Finish(done) ==
    /\ loop = "finish"
    /\ done => CleanupEmpty
    /\ finished' = done
    /\ loop' = "gone"
    /\ queue' = << >>
    /\ place' = Put({r \in Resources : place[r] = "queue"}, "lost")
    /\ UNCHANGED <<closing, leases, thread, operation, idle, drained, rounds,
                   retained, noise>>

-----------------------------------------------------------------------------
(* Cleanup jobs, which may take any time. *)

Unjob(where) == IF where = "job" THEN "released" ELSE where

JobDone(a) ==
    /\ \/ \E r \in Of(a) : place[r] = "job"
       \/ a \in Attempted /\ operation[a] = "job"
    /\ place' = [r \in Resources |-> IF r[1] = a THEN Unjob(place[r]) ELSE place[r]]
    /\ operation' = [p \in Attempted |-> IF p = a THEN Unjob(operation[p])
                                                 ELSE operation[p]]
    /\ UNCHANGED <<closing, leases, thread, queue, noise, loopVars>>

\* The cleanup of the remainders fails, and is retried, as long as a producer
\* may be rolling back.  Mutant: it does not ask.
NoProducerUnchecked == TRUE
NoProducer == leases = 0

RemaindersDone ==
    /\ retained = "pending" /\ NoProducer
    /\ retained' = "done"
    /\ place' = Put({r \in Resources : place[r] = "remainder"}, "released")
    /\ operation' = [p \in Attempted |-> IF operation[p] = "remainder"
                                        THEN "released" ELSE operation[p]]
    /\ UNCHANGED <<closing, leases, thread, queue, loop, idle, drained, rounds,
                   finished, noise>>

-----------------------------------------------------------------------------

Producer(r) ==
    \/ ThreadStarts(r) \/ (\E ok \in BOOLEAN : WorkDone(r, ok))
    \/ SendReply(r) \/ SendRefused(r) \/ ThreadEnds(r) \/ RolledBack(r)

ExitStep ==
    \/ StartRound \/ DrainOne \/ EndDrain \/ NextRound \/ RetainRemainders
    \/ \E done \in BOOLEAN : Finish(done)

ShutdownNext ==
    \/ \E r \in Resources : StartAttempt(r) \/ Producer(r)
    \/ SendNoise \/ HandleMessage
    \/ LoopExiting \/ ExitStep
    \/ \E a \in Attempted \cup Managed : JobDone(a)
    \/ RemaindersDone

ShutdownSpec == ShutdownInit /\ [][ShutdownNext]_shutdownVars

\* Only the exiting thread is sure to go on: a worker or a cleanup may hang.
\* Once its deadline has passed a round is the last one.
ShutdownFairness == WF_shutdownVars(ExitStep) /\ SF_shutdownVars(RetainRemainders)
ShutdownFairSpec == ShutdownSpec /\ ShutdownFairness

-----------------------------------------------------------------------------
(* Properties. *)

\* Every step keeps the state in its types; a lease is never dropped twice.
ShutdownTypeOK ==
    /\ closing \in BOOLEAN
    /\ leases \in Nat
    /\ thread \in [Resources -> ThreadState]
    /\ place \in [Resources -> Place]
    /\ operation \in [Attempted -> Place]
    /\ queue \in Seq(Message)
    /\ loop \in LoopState
    /\ idle \in BOOLEAN
    /\ drained \in 0 .. DrainMax /\ rounds \in 0 .. MinRounds
    /\ retained \in {"none", "pending", "done"}
    /\ finished \in BOOLEAN
    /\ noise \in 0 .. MaxNoise

\* No process or container is lost with the channel: the receiver never goes
\* while a reply that owns one is queued, whatever was queued before it and
\* whenever the worker sent it.
NothingLost == \A r \in Resources : place[r] # "lost"

\* Something of the attempt exists, or its worker may still create it.
Alive(r) == \/ place[r] \in {"thread", "queue", "ui", "job", "rollback", "remainder"}
            \/ thread[r] \in {"begun", "working"}

\* The identity of an attempt stays reserved while anything of it exists or may
\* still be created: in a worker, in the channel, in a session, in a job, in a
\* rollback that the UI does not know of.
ReservedWhileAlive ==
    \A p \in Attempted : (\E r \in Of(p) : Alive(r)) =>
      operation[p] \in {"ui", "job", "remainder"}

\* A shutdown that reports success has released everything, the rollbacks of
\* workers whose replies it never saw included.
SuccessMeansReleased ==
    loop = "gone" /\ finished =>
      /\ \A r \in Resources : place[r] \in {"none", "released"}
      /\ \A p \in Attempted : operation[p] \in {"none", "released"}

\* The exit ends although workers and cleanups may hang.
ExitEnds == closing ~> loop = "gone"

\* Every identity stays reserved while anything of it exists, and a shutdown that reports
\* success has released everything (Remainders::retain, finish_shutdown).
ReservedUntilReleased ==
    /\ ShutdownTypeOK
    /\ ReservedWhileAlive
    /\ SuccessMeansReleased
=============================================================================
