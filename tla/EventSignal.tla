----------------------------- MODULE EventSignal -----------------------------
(***************************************************************************)
(* The channel into the compositor's event loop: event_loop_signal.rs (an  *)
(* mpsc sender that counts credits, bounds background workers and wakes    *)
(* the native loop) with the consumer's side of it, the message loop and   *)
(* AboutToWait of main.rs under the ControlWorkBudget of event_turn.rs.    *)
(*                                                                         *)
(* A sender is a thread whose `pc' walks through send_admitted and         *)
(* send_reserved.  Everything a thread does while it holds the `admission' *)
(* mutex touches `messages' once, so a critical section is one step; the   *)
(* raw send, the swap of `notification' and the wake are steps of their    *)
(* own, because nothing orders them against the loop's finish_turn.        *)
(***************************************************************************)
EXTENDS Integers, Sequences, FiniteSets

CONSTANTS
    Blocking,    \* workers that call `send': they wait without a deadline
    Timed,       \* workers that call `send_timeout'
    Polling,     \* workers that loop over `try_send' and `wait_for_capacity'
    Repeating,   \* the workers that send again after each result
    MaxPending,  \* MAX_PENDING_WORKER_MESSAGES
    MaxAdmitted, \* the 64 messages a ControlWorkBudget admits in one event
    UiBurst      \* bound: how many messages the UI thread itself sends

UI == "ui"       \* the UI thread in its role of a sender
Workers == Blocking \cup Timed \cup Polling
Senders == Workers \cup {UI}

ASSUME SignalAssumption ==
    /\ MaxPending \in Nat \ {0}
    /\ MaxAdmitted \in Nat \ {0}
    /\ UiBurst \in Nat
    /\ IsFiniteSet(Workers)
    /\ UI \notin Workers
    /\ Repeating \subseteq Workers

VARIABLES
    messages,     \* PendingWake.messages: credits taken and not yet given back
    notification, \* PendingWake.notification: a wake was requested in this turn
    disconnected, \* PendingWake.disconnected
    queue,        \* the raw mpsc queue, as the senders of its messages; what is
                  \* left in it when the raw receiver goes is destroyed unread
    rawDropped,   \* the raw mpsc receiver is gone
    proxy,        \* user events posted to the native loop, not yet dispatched
    deadline,     \* the control flow is WaitUntil(+1 ms) rather than Wait
    pc,           \* [Senders -> SendState]
    late,         \* the timed workers whose deadline has passed
    loop,         \* where the event loop is
    event,        \* the event being handled
    budget,       \* messages the current ControlWorkBudget still admits
    uiSent        \* messages the UI thread has sent, for UiBurst

sendVars == <<pc, late>>
loopVars == <<loop, event, budget, uiSent>>
vars == <<messages, notification, disconnected, queue, rawDropped, proxy,
          deadline, pc, late, loop, event, budget, uiSent>>

SendState == {"idle", "admit", "waiting", "hint", "hinting", "reserved",
              "queued", "wake", "returned"}
LoopState == {"asleep", "events", "drain", "received", "handle", "store",
              "load", "exiting", "dropping", "gone"}

\* Credits that stand for no queued message: a sender between its reservation
\* and the raw send, and the loop between try_recv and message_received.
InHand == {t \in Senders : pc[t] = "reserved"}
Unacknowledged == IF loop = "received" THEN 1 ELSE 0

Init ==
    /\ messages = 0
    /\ notification = FALSE
    /\ disconnected = FALSE
    /\ queue = << >>
    /\ rawDropped = FALSE
    /\ proxy = 0
    /\ deadline = FALSE
    /\ pc = [t \in Senders |-> "idle"]
    /\ late = {}
    /\ loop = "asleep"
    /\ event = "none"
    /\ budget = 0
    /\ uiSent = 0

-----------------------------------------------------------------------------
(* The condition variable `received'. *)

IsWaiting(state) == state \in {"waiting", "hinting"}

\* wait and wait_timeout return to the loop of send_admitted; wait_timeout_while
\* evaluates its predicate again before it returns.
Resumed(state) == IF state = "hinting" THEN "hint" ELSE "admit"

\* notify_one: some waiter resumes, if there is one.
NotifyOne(states) ==
    LET waiters == {t \in Workers : IsWaiting(states[t])}
    IN  IF waiters = {} THEN {states}
        ELSE {[states EXCEPT ![t] = Resumed(states[t])] : t \in waiters}

NotifyAll(states) ==
    [t \in Senders |-> IF IsWaiting(states[t]) THEN Resumed(states[t])
                                              ELSE states[t]]

\* message_received, by a thread whose own step leaves the send states `states'.
MessageReceived(states) ==
    /\ messages' = messages - 1
    /\ pc' \in NotifyOne(states)

-----------------------------------------------------------------------------
(* Senders. *)

Goto(t, state) == pc' = [pc EXCEPT ![t] = state]

StartSend(w) ==
    /\ pc[w] = "idle" \/ (pc[w] = "returned" /\ w \in Repeating)
    /\ Goto(w, "admit")
    /\ late' = late \ {w}
    /\ UNCHANGED <<messages, notification, disconnected, queue, rawDropped,
                   proxy, deadline, loopVars>>

\* The deadline of send_timeout passes while the worker is held up.
DeadlinePasses(w) ==
    /\ w \in Timed \ late
    /\ pc[w] \in {"admit", "waiting"}
    /\ late' = late \cup {w}
    /\ UNCHANGED <<messages, notification, disconnected, queue, rawDropped,
                   proxy, deadline, pc, loopVars>>

\* Mutated form: one credit too many.
HasCreditOffByOne == messages <= MaxPending

HasCredit == messages < MaxPending

\* One round of send_admitted under the admission lock.
Admit(w) ==
    /\ pc[w] = "admit"
    /\ \/ /\ disconnected \/ w \in late
          /\ Goto(w, "returned")
          /\ UNCHANGED messages
       \/ /\ ~disconnected /\ w \notin late
          /\ HasCredit
          /\ messages' = messages + 1
          /\ Goto(w, "reserved")
       \/ /\ ~disconnected /\ w \notin late
          /\ ~HasCredit
          /\ Goto(w, IF w \in Polling THEN "hint" ELSE "waiting")
          /\ UNCHANGED messages
    /\ UNCHANGED <<notification, disconnected, queue, rawDropped, proxy,
                   deadline, late, loopVars>>

\* wait_for_capacity evaluates its predicate under the lock.
HintCheck(w) ==
    /\ pc[w] = "hint"
    /\ Goto(w, IF ~disconnected /\ ~HasCredit THEN "hinting" ELSE "admit")
    /\ UNCHANGED <<messages, notification, disconnected, queue, rawDropped,
                   proxy, deadline, late, loopVars>>

\* wait_timeout returns at the deadline, wait_for_capacity after its 100 ms.
WaitTimesOut(w) ==
    /\ pc[w] = "hinting" \/ (pc[w] = "waiting" /\ w \in late)
    /\ Goto(w, "admit")
    /\ UNCHANGED <<messages, notification, disconnected, queue, rawDropped,
                   proxy, deadline, late, loopVars>>

\* A condition variable may wake a waiter that nobody notified.
SpuriousWake(w) ==
    /\ IsWaiting(pc[w])
    /\ Goto(w, Resumed(pc[w]))
    /\ UNCHANGED <<messages, notification, disconnected, queue, rawDropped,
                   proxy, deadline, late, loopVars>>

\* send on the UI thread: a message handler queues more work without waiting.
UiSend ==
    /\ loop = "handle"
    /\ pc[UI] = "idle"
    /\ uiSent < UiBurst
    /\ uiSent' = uiSent + 1
    /\ messages' = messages + 1
    /\ Goto(UI, "reserved")
    /\ UNCHANGED <<notification, disconnected, queue, rawDropped, proxy,
                   deadline, late, loop, event, budget>>

\* Where a sender goes when its call is over.
Finished(t) == IF t = UI THEN "idle" ELSE "returned"

\* send_reserved, its raw send: refused once the raw receiver is gone, and the
\* credit is then given back.
RawSend(t) ==
    /\ pc[t] = "reserved"
    /\ ~rawDropped
    /\ queue' = Append(queue, t)
    /\ Goto(t, "queued")
    /\ UNCHANGED <<messages, notification, disconnected, rawDropped, proxy,
                   deadline, late, loopVars>>

\* The mutated form forgets the message_received of the error path.
RawSendRefusedKeepsCredit(t) ==
    /\ pc[t] = "reserved"
    /\ rawDropped
    /\ Goto(t, Finished(t))
    /\ UNCHANGED <<messages, notification, disconnected, queue, rawDropped,
                   proxy, deadline, late, loopVars>>

RawSendRefused(t) ==
    /\ pc[t] = "reserved"
    /\ rawDropped
    /\ MessageReceived([pc EXCEPT ![t] = Finished(t)])
    /\ UNCHANGED <<notification, disconnected, queue, rawDropped, proxy,
                   deadline, late, loopVars>>

\* notification.swap(true): only the first sender of a turn wakes the loop.
SwapNotification(t) ==
    /\ pc[t] = "queued"
    /\ notification' = TRUE
    /\ Goto(t, IF notification THEN Finished(t) ELSE "wake")
    /\ UNCHANGED <<messages, disconnected, queue, rawDropped, proxy, deadline,
                   late, loopVars>>

\* (self.wake)(): proxy.send_event; once the loop is gone the event is refused.
Wake(t) ==
    /\ pc[t] = "wake"
    /\ proxy' = IF loop = "gone" THEN proxy ELSE proxy + 1
    /\ Goto(t, Finished(t))
    /\ UNCHANGED <<messages, notification, disconnected, queue, rawDropped,
                   deadline, late, loopVars>>

-----------------------------------------------------------------------------
(* The event loop. *)

\* The native loop returns from its wait: for a posted user event, for the
\* deadline of WaitUntil, or for an event of the window system.  A deadline only
\* serves the wait it was set for: AboutToWait sets the next control flow.
EndWait ==
    /\ loop = "asleep"
    /\ loop' = "events"
    /\ deadline' = FALSE
    /\ UNCHANGED <<messages, notification, disconnected, queue, rawDropped,
                   proxy, sendVars, event, budget, uiSent>>

Awake == (proxy > 0 \/ deadline) /\ EndWait
NativeEvent == EndWait

\* ControlWorkBudget::new: an input event admits no control work.
BudgetOf(e) == IF e = "input" THEN 0 ELSE MaxAdmitted

Dispatch(e) ==
    /\ loop = "events"
    /\ loop' = "drain"
    /\ event' = e
    /\ budget' = BudgetOf(e)
    /\ UNCHANGED <<messages, notification, disconnected, queue, rawDropped,
                   deadline, sendVars, uiSent>>

DispatchUser == proxy > 0 /\ Dispatch("user") /\ proxy' = proxy - 1
DispatchInput == Dispatch("input") /\ UNCHANGED proxy

\* Winit delivers AboutToWait once it has found no more user events; one posted
\* after that makes the next wait return at once.
DispatchAboutToWait == proxy = 0 /\ Dispatch("about") /\ UNCHANGED proxy

\* A handler leaves through target.exit(), and LoopExiting is delivered.
DispatchLoopExiting == Dispatch("exit") /\ UNCHANGED proxy

\* The mutated form does not count the messages it admits.
TryRecvUncounted ==
    /\ loop = "drain"
    /\ budget > 0
    /\ queue # << >>
    /\ queue' = Tail(queue)
    /\ loop' = "received"
    /\ UNCHANGED <<messages, notification, disconnected, rawDropped, proxy,
                   deadline, sendVars, event, budget, uiSent>>

\* loop_receiver.try_recv() under message_budget.admit().
TryRecv ==
    /\ loop = "drain"
    /\ budget > 0
    /\ queue # << >>
    /\ queue' = Tail(queue)
    /\ budget' = budget - 1
    /\ loop' = "received"
    /\ UNCHANGED <<messages, notification, disconnected, rawDropped, proxy,
                   deadline, sendVars, event, uiSent>>

\* container_event_signal.message_received().
Acknowledge ==
    /\ loop = "received"
    /\ MessageReceived(pc)
    /\ loop' = "handle"
    /\ UNCHANGED <<notification, disconnected, queue, rawDropped, proxy,
                   deadline, late, event, budget, uiSent>>

\* The handler of the message ends; its own sends are over by then.
Handled ==
    /\ loop = "handle"
    /\ pc[UI] = "idle"
    /\ loop' = "drain"
    /\ UNCHANGED <<messages, notification, disconnected, queue, rawDropped,
                   proxy, deadline, sendVars, event, budget, uiSent>>

\* The message loop ends: nothing admitted, nothing queued, or its 2 ms spent.
\* What follows depends on the event; LoopExiting ends in the receiver's drop.
EndDrain ==
    /\ loop = "drain"
    /\ loop' = CASE event = "about" -> "store"
                 [] event = "exit"  -> "exiting"
                 [] OTHER           -> "events"
    /\ event' = "none"
    /\ budget' = 0
    /\ UNCHANGED <<messages, notification, disconnected, queue, rawDropped,
                   proxy, deadline, sendVars, uiSent>>

\* finish_turn: the flag is cleared before the credits are read.
FinishTurnStore ==
    /\ loop = "store"
    /\ notification' = FALSE
    /\ loop' = "load"
    /\ UNCHANGED <<messages, disconnected, queue, rawDropped, proxy, deadline,
                   sendVars, event, budget, uiSent>>

\* The mutated form trusts the wake flag instead of counting credits.
FinishTurnLoadTrustsFlag ==
    /\ loop = "load"
    /\ deadline' = (notification /\ messages # 0)
    /\ loop' = "asleep"
    /\ UNCHANGED <<messages, notification, disconnected, queue, rawDropped,
                   proxy, sendVars, event, budget, uiSent>>

FinishTurnLoad ==
    /\ loop = "load"
    /\ deadline' = (messages # 0)
    /\ loop' = "asleep"
    /\ UNCHANGED <<messages, notification, disconnected, queue, rawDropped,
                   proxy, sendVars, event, budget, uiSent>>

\* Receiver::drop, then the drop of the raw receiver it owns.
DropReceiverSilently ==
    /\ loop = "exiting"
    /\ disconnected' = TRUE
    /\ loop' = "dropping"
    /\ UNCHANGED <<messages, notification, queue, rawDropped, proxy, deadline,
                   pc, late, event, budget, uiSent>>

DropReceiver ==
    /\ loop = "exiting"
    /\ disconnected' = TRUE
    /\ pc' = NotifyAll(pc)
    /\ loop' = "dropping"
    /\ UNCHANGED <<messages, notification, queue, rawDropped, proxy, deadline,
                   late, event, budget, uiSent>>

DropRawReceiver ==
    /\ loop = "dropping"
    /\ rawDropped' = TRUE
    /\ loop' = "gone"
    /\ UNCHANGED <<messages, notification, disconnected, queue, proxy, deadline,
                   sendVars, event, budget, uiSent>>

-----------------------------------------------------------------------------

WorkerStep(w) ==
    \/ StartSend(w) \/ Admit(w) \/ HintCheck(w) \/ WaitTimesOut(w)

SenderStep(t) ==
    \/ RawSend(t) \/ RawSendRefused(t) \/ SwapNotification(t) \/ Wake(t)

LoopStep ==
    \/ Awake \/ DispatchUser \/ DispatchAboutToWait \/ TryRecv \/ Acknowledge
    \/ Handled \/ EndDrain \/ FinishTurnStore \/ FinishTurnLoad
    \/ DropReceiver \/ DropRawReceiver

Next ==
    \/ \E w \in Workers : WorkerStep(w) \/ DeadlinePasses(w) \/ SpuriousWake(w)
    \/ \E t \in Senders : SenderStep(t)
    \/ UiSend \/ NativeEvent \/ DispatchInput \/ DispatchLoopExiting
    \/ LoopStep

\* Threads that can run do run, and deadlines pass.  The 2 ms budget is taken
\* one statement before its first test, so a turn that always expires before it
\* admits a message is excluded (the strong fairness of TryRecv); native input
\* does not keep winit from ever delivering its user events or AboutToWait (the
\* other two).  Nothing is assumed of native events or of an exit.
Fairness ==
    /\ \A w \in Workers : WF_vars(WorkerStep(w)) /\ WF_vars(DeadlinePasses(w))
    /\ \A t \in Senders : WF_vars(SenderStep(t))
    /\ WF_vars(LoopStep)
    /\ SF_vars(TryRecv)
    /\ SF_vars(DispatchUser)
    /\ SF_vars(DispatchAboutToWait)

Spec == Init /\ [][Next]_vars
FairSpec == Spec /\ Fairness

-----------------------------------------------------------------------------
(* Properties. *)

\* Every send, queue and loop state stays in its type, no counter goes negative
\* and the budget never exceeds the largest drain_budget grants.
TypeOK ==
    /\ messages \in Nat
    /\ notification \in BOOLEAN
    /\ disconnected \in BOOLEAN
    /\ queue \in Seq(Senders)
    /\ rawDropped \in BOOLEAN
    /\ proxy \in Nat
    /\ deadline \in BOOLEAN
    /\ pc \in [Senders -> SendState]
    /\ late \subseteq Workers
    /\ loop \in LoopState
    /\ event \in {"none", "user", "input", "about", "exit"}
    /\ budget \in 0 .. MaxAdmitted
    /\ uiSent \in 0 .. UiBurst

\* Every credit of `messages' is accounted for: a queued message, a sender on
\* its way to the raw send, or a message received and not yet acknowledged.  So
\* message_received never runs without a credit (its `expect' cannot fail), and
\* neither a timeout nor a disconnected send leaks one.
CreditsBalance ==
    messages = Len(queue) + Cardinality(InHand) + Unacknowledged

\* The loop never sleeps over a queued message: a user event is posted, the
\* 1 ms continuation is armed, or a sender is about to post the event.
NoLostWakeup ==
    loop = "asleep" /\ queue # << >> =>
        \/ proxy > 0
        \/ deadline
        \/ \E t \in Senders : pc[t] = "wake"
        \/ ~notification /\ \E t \in Senders : pc[t] = "queued"

\* Workers alone never hold more than MAX_PENDING_WORKER_MESSAGES credits,
\* whatever the UI lane adds on top.
WorkerFloodBounded ==
    Cardinality({i \in DOMAIN queue : queue[i] \in Workers})
        + Cardinality(InHand \ {UI}) <= MaxPending

\* A queued message is followed by a receive, unless the loop is exiting.
QueueServed ==
    (queue # << >>) ~> (loop \in {"received", "exiting", "dropping", "gone"})

\* The user events and the message loop of a turn end: the loop reaches its
\* next wait, or exits, however many workers keep sending.
TurnEnds == (loop = "events") ~> (loop \in {"asleep", "exiting"})

\* A worker held up for capacity gets out: with its credit, with a timeout, or
\* disconnected; a notification swallowed by a caller that has timed out is
\* followed by another one.
HeldWorkerReturns ==
    \A w \in Workers : IsWaiting(pc[w]) ~> pc[w] = "returned"

\* The loop neither leaves a queued message behind nor is kept from its native events by
\* workers that go on sending (MessageTurn::new, try_user_message).
LoopLive ==
    /\ QueueServed
    /\ TurnEnds
=============================================================================
