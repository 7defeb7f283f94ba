---------------------------- MODULE ClientsProofs ----------------------------
(***************************************************************************)
(* Proofs about what the Wayland clients depend on, for any clients and    *)
(* any bounds: the readiness thread and the loop lose no readiness         *)
(* (WaylandSource), and what a client pastes is what was copied            *)
(* (Clipboard).                                                            *)
(***************************************************************************)
EXTENDS WaylandSource, Clipboard, FiniteSetTheorems, SequenceTheorems, TLAPS

\* The types of what no step computes with.
PlainTypes ==
    /\ backlog \subseteq Clients /\ hung \subseteq Clients /\ full \subseteq Clients
    /\ backend \subseteq Clients
    /\ monitored \subseteq Clients /\ blocked \subseteq Clients
    /\ failure \in {"none", "message", "taken"}
    /\ th \in {"top", "snapshot", "poll", "polled", "drained", "accept", "monitor",
               "test", "swap", "wake", "fail", "failwake", "dead"}
    /\ watched \subseteq Clients
    /\ accepts \in 0 .. MaxAccepts
    /\ hand \in Clients \cup {None}
    /\ loop \in {"asleep", "events", "queue", "dispatch", "flush", "interest",
                 "recheck", "update", "notify", "flushed", "rearm", "notifyarm",
                 "rearmed", "exiting", "stopping", "joining", "gone"}
    /\ event \in {"none", "user", "redraw", "input", "about", "cursor"}
    /\ proxy \in Nat
    /\ active \subseteq Clients /\ failed \subseteq Clients
    /\ removed \subseteq Clients

Flags ==
    /\ armed \in BOOLEAN /\ control \in BOOLEAN /\ stopping \in BOOLEAN
    /\ seen \in BOOLEAN /\ deadline \in BOOLEAN

Events == revents \in [control : BOOLEAN, listener : BOOLEAN, display : BOOLEAN,
                       output : SUBSET Clients]

\* What a client has under way never exceeds what it may have.
InFlight == \A c \in Clients : inSocket[c] + buffered[c] <= load.requests

\* The requests under way, and the dispatcher's rotation.
RequestTypes ==
    /\ inSocket \in [Clients -> Nat] /\ buffered \in [Clients -> Nat]
    /\ InFlight
    /\ load \in Loads
    /\ budget \in 0 .. TurnBudget

Rotating ==
    /\ pending \in Seq(backend)
    /\ \A i, j \in DOMAIN pending : pending[i] = pending[j] => i = j
    /\ unflushed \subseteq backend

Typed == PlainTypes /\ Flags /\ Events /\ RequestTypes /\ Rotating

\* The client being accepted, and those that were: a monitored client that left
\* the backend has hung up and does not come back.
ClientsApart ==
    /\ hand # None <=> th = "monitor"
    /\ th = "monitor" => accepts < MaxAccepts
    /\ backlog \cap (backend \cup monitored \cup {hand}) = {}
    /\ (monitored \cup {hand}) \ (backend \cup {None}) \subseteq hung
    /\ loop \in {"recheck", "update"} => removed \subseteq monitored
    /\ loop = "update" => removed \cap backend = {}

\* Where an event may be handled.
Flushing == {"flush", "interest", "recheck", "update", "notify", "flushed"}
EventPlace ==
    /\ event = "cursor" => loop \in Flushing
    /\ loop \in {"queue", "dispatch"} => event \in {"user", "redraw", "about"}
    /\ loop \in {"asleep", "events", "rearm", "notifyarm", "rearmed", "exiting"} => event = "none"

\* A thread in its poll polls what it must, or will be woken to look again.
PollsWhatItMust ==
    /\ th = "snapshot" => seen
    /\ th = "poll" /\ armed /\ ~seen => control \/ loop = "notifyarm"
    /\ th = "poll" /\ seen /\ ~control /\ loop # "notify" => watched = blocked \cap monitored

\* A disarmed thread has woken the loop, or the turn will rearm it.
Rearmed == loop \in {"notifyarm", "rearmed", "asleep"} \/ event = "cursor"
WakeComes == ~armed /\ Rearmed => th = "wake" \/ proxy > 0

\* What the clients had no room for is what the thread is told to watch.
OutputTold ==
    /\ loop \in {"interest", "recheck", "update"} => unflushed \subseteq failed
    /\ loop \in {"notify", "flushed", "rearm", "notifyarm", "rearmed", "asleep"} =>
         unflushed \subseteq blocked

\* A client with buffered requests has its turn to come, and the loop comes back.
AfterDispatch == \/ loop \in {"rearm", "notifyarm", "rearmed", "asleep"}
                 \/ loop \in Flushing /\ event \in {"about", "cursor"}
RotationKept ==
    /\ \A c \in Clients : buffered[c] > 0 => c \in InRotation
    /\ AfterDispatch => pending = << >> \/ deadline

\* A thread that ended was stopped or has told the loop why.
Exiting == {"exiting", "stopping", "joining", "gone"}
FailureTold ==
    /\ stopping => loop \in Exiting \ {"exiting"}
    /\ failure = "message" => th = "failwake" \/ proxy > 0
    /\ failure = "taken" => loop \in Exiting
    /\ th = "failwake" => failure # "none"
    /\ th = "dead" => stopping \/ failure # "none"

\* The wakes posted, and those that may be without another rearm.
Posts == proxy + (IF th \in {"wake", "failwake"} THEN 1 ELSE 0) + (IF armed THEN 1 ELSE 0)
Failed == IF failure = "none" THEN 0 ELSE 1
WakesCounted ==
    /\ Posts <= 3 + Failed
    /\ event = "about" \/ loop = "rearm" => Posts <= 2 + Failed

IInv ==
    /\ Typed
    /\ ClientsApart
    /\ MonitorsKept
    /\ EventPlace
    /\ PollsWhatItMust
    /\ WakeComes
    /\ OutputTold
    /\ RotationKept
    /\ FailureTold
    /\ WakesCounted

-----------------------------------------------------------------------------
(* Types. *)

LEMMA PlainTypesStep ==
  ASSUME PlainTypes, ClientsApart, Next
  PROVE  PlainTypes'
<1> USE SourceAssumption DEF PlainTypes, clientVars, dispatchVars, interestVars, statusVars,
        threadVars, loopVars, Thread, Loop
<1>1. ASSUME NEW c \in Clients, ClientStep(c)
      PROVE  PlainTypes'
  BY <1>1 DEF ClientStep, Connect, WriteRequest, Reading, HangUp
<1>2. CASE WatchLoop \/ SnapshotInterest \/ RecordFailure \/ FailureWake
  BY <1>2 DEF WatchLoop, SnapshotInterest, RecordFailure, FailureWake
<1>3. CASE PollReturns
  BY <1>3 DEF PollReturns, PollEvents
<1>4. CASE DrainControl
  BY <1>4 DEF DrainControl
<1>5. CASE AfterDrain \/ Interrupted \/ SourceFails
  BY <1>5 DEF AfterDrain, Interrupted, SourceFails
<1>6. CASE AcceptClient \/ MonitorClient \/ AcceptsDone \/ StopAccepting
  BY <1>6 DEF AcceptClient, MonitorClient, AcceptsDone, StopAccepting, ClientsApart
<1>7. CASE TestReady \/ Disarm \/ WakeLoop
  BY <1>7 DEF TestReady, Disarm, WakeLoop
<1>8. CASE HandleUser \/ HandleRedraw \/ HandleInput \/ HandleAboutToWait
  BY <1>8 DEF HandleUser, HandleRedraw, HandleInput, HandleAboutToWait, Handle
<1>9. CASE EndWait \/ QueueReadyClients \/ EndDispatch \/ ExitLoop
  BY <1>9 DEF EndWait, QueueReadyClients, EndDispatch, ExitLoop
<1>10. ASSUME NEW late \in BOOLEAN, ServeClient(late)
      PROVE  PlainTypes'
  BY <1>10 DEF ServeClient
<1>11. CASE \/ FlushClients \/ FindRemoved \/ RecheckRemoved \/ UpdateInterest
           \/ NotifyInterest
  BY <1>11 DEF FlushClients, FindRemoved, RecheckRemoved, UpdateInterest, NotifyInterest,
               StillRegistered
<1>12. CASE EventDone \/ Rearm \/ NotifyRearm \/ EndTurn
  BY <1>12 DEF EventDone, Rearm, NotifyRearm, EndTurn, AfterFlush
<1>13. CASE StopFlag \/ StopNotify \/ Join
  BY <1>13 DEF StopFlag, StopNotify, Join
<1> QED
  BY <1>1, <1>2, <1>3, <1>4, <1>5, <1>6, <1>7, <1>8, <1>9, <1>10, <1>11, <1>12, <1>13
     DEF Next, ThreadStep, LoopStep, NativeStep, Awake, NativeEvent

\* Boolean variables.
LEMMA FlagsStep ==
  ASSUME Flags, Next
  PROVE  Flags'
<1> USE DEF Flags, clientVars, dispatchVars, interestVars, statusVars, threadVars, loopVars
<1>1. ASSUME NEW c \in Clients, ClientStep(c)
      PROVE  Flags'
  BY <1>1, Zenon DEF ClientStep, Connect, WriteRequest, Reading, HangUp
<1>2. CASE WatchLoop \/ SnapshotInterest \/ RecordFailure \/ FailureWake
  BY <1>2, Zenon DEF WatchLoop, SnapshotInterest, RecordFailure, FailureWake
<1>3. CASE PollReturns
  BY <1>3, Zenon DEF PollReturns
<1>4. CASE DrainControl
  BY <1>4, Zenon DEF DrainControl
<1>5. CASE AfterDrain \/ Interrupted \/ SourceFails
  BY <1>5, Zenon DEF AfterDrain, Interrupted, SourceFails
<1>6. CASE AcceptClient \/ MonitorClient \/ AcceptsDone \/ StopAccepting
  BY <1>6, Zenon DEF AcceptClient, MonitorClient, AcceptsDone, StopAccepting
<1>7. CASE TestReady \/ Disarm \/ WakeLoop
  BY <1>7, Zenon DEF TestReady, Disarm, WakeLoop
<1>8. CASE HandleUser \/ HandleRedraw \/ HandleInput \/ HandleAboutToWait
  BY <1>8, Zenon DEF HandleUser, HandleRedraw, HandleInput, HandleAboutToWait, Handle
<1>9. CASE EndWait \/ QueueReadyClients \/ EndDispatch \/ ExitLoop
  BY <1>9, Zenon DEF EndWait, QueueReadyClients, EndDispatch, ExitLoop
<1>10. ASSUME NEW late \in BOOLEAN, ServeClient(late)
      PROVE  Flags'
  BY <1>10, Zenon DEF ServeClient
<1>11. CASE \/ FlushClients \/ FindRemoved \/ RecheckRemoved \/ UpdateInterest
           \/ NotifyInterest
  BY <1>11, Zenon DEF FlushClients, FindRemoved, RecheckRemoved, UpdateInterest, NotifyInterest
<1>12. CASE EventDone \/ Rearm \/ NotifyRearm \/ EndTurn
  BY <1>12, Zenon DEF EventDone, Rearm, NotifyRearm, EndTurn
<1>13. CASE StopFlag \/ StopNotify \/ Join
  BY <1>13, Zenon DEF StopFlag, StopNotify, Join
<1> QED
  BY <1>1, <1>2, <1>3, <1>4, <1>5, <1>6, <1>7, <1>8, <1>9, <1>10, <1>11, <1>12, <1>13
     DEF Next, ThreadStep, LoopStep, NativeStep, Awake, NativeEvent

LEMMA EventsStep ==
  ASSUME Events, PlainTypes, Flags, Next
  PROVE  Events'
<1> USE DEF Events, PlainTypes, clientVars, dispatchVars, interestVars, statusVars, threadVars,
        loopVars
<1>1. ASSUME NEW c \in Clients, ClientStep(c)
      PROVE  Events'
  BY <1>1 DEF ClientStep, Connect, WriteRequest, Reading, HangUp
<1>2. CASE WatchLoop \/ SnapshotInterest \/ RecordFailure \/ FailureWake
  BY <1>2 DEF WatchLoop, SnapshotInterest, RecordFailure, FailureWake
<1>3. CASE PollReturns
  <2>1. control \in BOOLEAN /\ (backlog # {}) \in BOOLEAN /\ watched \ full \subseteq Clients
    BY DEF Flags
  <2>2. (seen /\ DisplayReadable) \in BOOLEAN
    BY Zenon
  <2>3. revents' = PollEvents
    BY <1>3 DEF PollReturns
  <2> QED  BY <2>1, <2>2, <2>3, Zenon DEF PollEvents
<1>4. CASE DrainControl
  BY <1>4 DEF DrainControl
<1>5. CASE AfterDrain \/ Interrupted \/ SourceFails
  BY <1>5 DEF AfterDrain, Interrupted, SourceFails
<1>6. CASE AcceptClient \/ MonitorClient \/ AcceptsDone \/ StopAccepting
  BY <1>6 DEF AcceptClient, MonitorClient, AcceptsDone, StopAccepting
<1>7. CASE TestReady \/ Disarm \/ WakeLoop
  <2>1. NoEvents \in [control : BOOLEAN, listener : BOOLEAN, display : BOOLEAN,
                       output : SUBSET Clients]
    BY Zenon DEF NoEvents
  <2>2. revents' \in {revents, NoEvents}
    BY <1>7 DEF TestReady, Disarm, WakeLoop
  <2> QED  BY <2>1, <2>2
<1>8. CASE HandleUser \/ HandleRedraw \/ HandleInput \/ HandleAboutToWait
  BY <1>8 DEF HandleUser, HandleRedraw, HandleInput, HandleAboutToWait, Handle
<1>9. CASE EndWait \/ QueueReadyClients \/ EndDispatch \/ ExitLoop
  BY <1>9 DEF EndWait, QueueReadyClients, EndDispatch, ExitLoop
<1>10. ASSUME NEW late \in BOOLEAN, ServeClient(late)
      PROVE  Events'
  BY <1>10 DEF ServeClient
<1>11. CASE \/ FlushClients \/ FindRemoved \/ RecheckRemoved \/ UpdateInterest
           \/ NotifyInterest
  BY <1>11 DEF FlushClients, FindRemoved, RecheckRemoved, UpdateInterest, NotifyInterest
<1>12. CASE EventDone \/ Rearm \/ NotifyRearm \/ EndTurn
  BY <1>12 DEF EventDone, Rearm, NotifyRearm, EndTurn
<1>13. CASE StopFlag \/ StopNotify \/ Join
  BY <1>13 DEF StopFlag, StopNotify, Join
<1> QED
  BY <1>1, <1>2, <1>3, <1>4, <1>5, <1>6, <1>7, <1>8, <1>9, <1>10, <1>11, <1>12, <1>13
     DEF Next, ThreadStep, LoopStep, NativeStep, Awake, NativeEvent

-----------------------------------------------------------------------------
(* The rotation of the dispatcher. *)

\* The client whose turn it is keeps its turn, or has no request left.
LEMMA ServedClient ==
  ASSUME PlainTypes, RequestTypes, Rotating, NEW late \in BOOLEAN, ServeClient(late)
  PROVE  \E c \in Clients :
           /\ pending # << >> /\ c = Head(pending)
           /\ inSocket' \in [Clients -> Nat] /\ buffered' \in [Clients -> Nat]
           /\ inSocket'[c] + buffered'[c] <= inSocket[c] + buffered[c]
           /\ \A d \in Clients \ {c} : inSocket'[d] = inSocket[d] /\ buffered'[d] = buffered[d]
           /\ \/ pending' = Append(Tail(pending), c) /\ backend' = backend
              \/ /\ pending' = Tail(pending) /\ buffered'[c] = 0
                 /\ backend' = backend \ ({c} \cap hung)
           /\ unflushed' \subseteq backend'
           /\ budget' \in 0 .. TurnBudget
<1> DEFINE c     == Head(pending)
           readable == buffered[c] + inSocket[c]
           quota == Smaller(Quantum, budget)
           most == Smaller(quota, readable)
<1>1. pending # << >> /\ budget > 0 /\ budget \in Nat /\ c \in backend /\ c \in Clients
  BY DEF ServeClient, RequestTypes, Rotating, PlainTypes
<1>2. /\ buffered[c] \in Nat /\ inSocket[c] \in Nat /\ readable \in Nat
      /\ quota \in Nat /\ quota > 0 /\ quota <= budget /\ most \in Nat /\ most <= quota
      /\ most <= readable /\ (most = quota \/ most = readable)
  BY <1>1, SourceAssumption DEF RequestTypes, Smaller
<1>3. PICK n \in IF late THEN 0 .. most ELSE {most} :
        LET yields == late \/ n = quota
            reads  == n > buffered[c] \/ ~yields
            gone   == IF yields THEN {} ELSE {c} \cap hung
        IN  /\ inSocket' = IF reads THEN [inSocket EXCEPT ![c] = 0] ELSE inSocket
            /\ buffered' = [buffered EXCEPT ![c] = (IF reads THEN readable ELSE @) - n]
            /\ budget' = IF late THEN 0 ELSE budget - n
            /\ pending' = Rotation(c, yields)
            /\ backend' = backend \ gone
            /\ \E answered \in BOOLEAN :
                 unflushed' = (IF answered /\ n > 0 THEN unflushed \cup {c}
                                                    ELSE unflushed) \ gone
  BY DEF ServeClient
<1> DEFINE yields == late \/ n = quota
           reads  == n > buffered[c] \/ ~yields
           gone   == IF yields THEN {} ELSE {c} \cap hung
<1>4. n \in Nat /\ n <= most /\ (~yields => n = readable)
  BY <1>2, <1>3
<1>5. /\ inSocket' = IF reads THEN [inSocket EXCEPT ![c] = 0] ELSE inSocket
      /\ buffered' = [buffered EXCEPT ![c] = (IF reads THEN readable ELSE @) - n]
      /\ budget' = IF late THEN 0 ELSE budget - n
      /\ pending' = Rotation(c, yields)
      /\ backend' = backend \ gone
      /\ unflushed' \subseteq (unflushed \cup {c}) \ gone
  BY <1>3
<1> HIDE DEF c, readable, quota, most
<1>6. /\ inSocket' \in [Clients -> Nat] /\ buffered' \in [Clients -> Nat]
      /\ inSocket'[c] + buffered'[c] <= inSocket[c] + buffered[c]
      /\ \A d \in Clients \ {c} : inSocket'[d] = inSocket[d] /\ buffered'[d] = buffered[d]
  <2>1. (IF reads THEN readable ELSE buffered[c]) - n \in Nat
    BY <1>2, <1>4
  <2>2. inSocket' \in [Clients -> Nat] /\ buffered' \in [Clients -> Nat]
    BY <1>1, <1>5, <2>1 DEF RequestTypes
  <2>3. CASE reads
    BY <1>1, <1>2, <1>4, <1>5, <2>3 DEF RequestTypes, readable
  <2>4. CASE ~reads
    BY <1>1, <1>2, <1>4, <1>5, <2>4 DEF RequestTypes
  <2> QED  BY <2>2, <2>3, <2>4
<1>7. yields => pending' = Append(Tail(pending), c) /\ backend' = backend
  BY <1>5 DEF Rotation
<1>8. ~yields => /\ pending' = Tail(pending) /\ buffered'[c] = 0
                 /\ backend' = backend \ ({c} \cap hung)
  <2> SUFFICES ASSUME ~yields
               PROVE  /\ pending' = Tail(pending) /\ buffered'[c] = 0
                      /\ backend' = backend \ ({c} \cap hung)
    OBVIOUS
  <2>1. reads /\ n = readable
    BY <1>4
  <2>2. buffered' = [buffered EXCEPT ![c] = readable - n] /\ readable - n = 0
    BY <1>2, <1>5, <2>1
  <2> QED  BY <1>1, <1>5, <2>2 DEF Rotation, RequestTypes
<1>9. unflushed' \subseteq backend'
  BY <1>1, <1>5 DEF Rotating
<1>10. budget' \in 0 .. TurnBudget
  <2>1. budget' = 0 \/ budget' = budget - n
    BY <1>5
  <2>2. n <= budget /\ budget <= TurnBudget /\ TurnBudget \in Nat
    BY <1>1, <1>2, <1>4, SourceAssumption DEF RequestTypes
  <2> QED  BY <1>1, <1>4, <2>1, <2>2
<1> QED  BY <1>1, <1>6, <1>7, <1>8, <1>9, <1>10 DEF c

Distinct(r) == \A i, j \in DOMAIN r : r[i] = r[j] => i = j
Held(r) == {r[i] : i \in DOMAIN r}

\* Taking the head of a rotation off, or behind the others.
LEMMA RotationTurned ==
  ASSUME NEW S, NEW r \in Seq(S), r # << >>, Distinct(r)
  PROVE  /\ Head(r) \in S
         /\ Tail(r) \in Seq(S \ {Head(r)}) /\ Distinct(Tail(r))
         /\ Held(r) \subseteq Held(Tail(r)) \cup {Head(r)}
         /\ Append(Tail(r), Head(r)) \in Seq(S) /\ Append(Tail(r), Head(r)) # << >>
         /\ Distinct(Append(Tail(r), Head(r)))
         /\ Held(r) \subseteq Held(Append(Tail(r), Head(r)))
<1> USE DEF Distinct, Held
<1> DEFINE t == Tail(r)
           n == Len(r)
           a == Append(t, Head(r))
<1>1. /\ n \in Nat \ {0} /\ DOMAIN r = 1 .. n /\ Head(r) = r[1] /\ r[1] \in S
      /\ t \in Seq(S) /\ Len(t) = n - 1 /\ DOMAIN t = 1 .. n - 1
      /\ \A i \in 1 .. n - 1 : t[i] = r[i + 1]
      /\ a \in Seq(S) /\ a # << >> /\ DOMAIN a = 1 .. n /\ a[n] = r[1]
      /\ \A i \in 1 .. n - 1 : a[i] = r[i + 1]
  <2>1. /\ n \in Nat \ {0} /\ DOMAIN r = 1 .. n /\ Head(r) = r[1] /\ r[1] \in S
        /\ t \in Seq(S) /\ Len(t) = n - 1
        /\ \A i \in 1 .. n - 1 : t[i] = r[i + 1]
    OBVIOUS
  <2> HIDE DEF t, n
  <2>2. DOMAIN t = 1 .. n - 1
    BY <2>1
  <2>3. /\ a \in Seq(S) /\ Len(a) = n /\ a[n] = r[1]
        /\ \A i \in 1 .. n - 1 : a[i] = t[i]
    BY <2>1
  <2> HIDE DEF a
  <2>4. DOMAIN a = 1 .. n /\ a # << >>
    BY <2>1, <2>3
  <2> QED  BY <2>1, <2>2, <2>3, <2>4
<1> HIDE DEF t, n, a
<1>2. \A i, j \in DOMAIN t : t[i] = t[j] => i = j
  <2> SUFFICES ASSUME NEW i \in 1 .. n - 1, NEW j \in 1 .. n - 1, t[i] = t[j]
               PROVE  i = j
    BY <1>1
  <2>1. i + 1 \in 1 .. n /\ j + 1 \in 1 .. n /\ r[i + 1] = r[j + 1]
    BY <1>1
  <2>2. i + 1 = j + 1
    BY <1>1, <2>1
  <2> QED  BY <2>2
<1>3. \A i \in DOMAIN t : t[i] # Head(r)
  <2> SUFFICES ASSUME NEW i \in 1 .. n - 1, t[i] = r[1]
               PROVE  FALSE
    BY <1>1
  <2>1. i + 1 \in 1 .. n /\ 1 \in 1 .. n /\ r[i + 1] = r[1]
    BY <1>1
  <2>2. i + 1 = 1
    BY <1>1, <2>1
  <2> QED  BY <2>2
<1>4. t \in Seq(S \ {Head(r)})
  <2>1. \A i \in 1 .. n - 1 : t[i] \in S
    BY <1>1
  <2>2. Len(t) = n - 1 /\ n - 1 \in Nat /\ t = [i \in 1 .. n - 1 |-> t[i]]
    BY <1>1
  <2>3. t \in [1 .. n - 1 -> S \ {Head(r)}]
    BY <1>1, <1>3, <2>1, <2>2
  <2> QED  BY <2>2, <2>3
<1>5. \A i \in DOMAIN r : r[i] = Head(r) \/ \E j \in DOMAIN t : t[j] = r[i]
  <2> SUFFICES ASSUME NEW i \in 1 .. n, i # 1
               PROVE  i - 1 \in DOMAIN t /\ t[i - 1] = r[i]
    BY <1>1
  <2> QED  BY <1>1
<1>6. \A i, j \in DOMAIN a : a[i] = a[j] => i = j
  <2> SUFFICES ASSUME NEW i \in 1 .. n, NEW j \in 1 .. n, a[i] = a[j]
               PROVE  i = j
    BY <1>1
  <2> DEFINE from(k) == IF k = n THEN 1 ELSE k + 1
  <2>1. from(i) \in 1 .. n /\ from(j) \in 1 .. n /\ r[from(i)] = r[from(j)]
    BY <1>1
  <2>2. from(i) = from(j)
    BY <1>1, <2>1
  <2> QED  BY <1>1, <2>2
<1>7. \A i \in DOMAIN r : \E j \in DOMAIN a : a[j] = r[i]
  <2> SUFFICES ASSUME NEW i \in 1 .. n
               PROVE  \E j \in 1 .. n : a[j] = r[i]
    BY <1>1
  <2>1. CASE i = 1
    BY <1>1, <2>1
  <2>2. CASE i # 1
    <3>1. i - 1 \in 1 .. n - 1 /\ i - 1 \in 1 .. n /\ (i - 1) + 1 = i
      BY <1>1, <2>2
    <3>2. a[i - 1] = r[i]
      BY <1>1, <3>1
    <3> QED  BY <3>1, <3>2
  <2> QED  BY <2>1, <2>2
<1> QED  BY <1>1, <1>2, <1>3, <1>4, <1>5, <1>6, <1>7 DEF t, a

\* Clients that were in no rotation join one.
LEMMA RotationJoined ==
  ASSUME NEW S, NEW r \in Seq(S), NEW q \in Seq(S), Distinct(r), Distinct(q),
         Held(r) \cap Held(q) = {}
  PROVE  r \o q \in Seq(S) /\ Distinct(r \o q) /\ Held(r) \subseteq Held(r \o q)
<1> USE DEF Distinct, Held
<1> DEFINE n == Len(r)
           m == Len(q)
           u == r \o q
<1>1. /\ n \in Nat /\ m \in Nat /\ DOMAIN r = 1 .. n /\ DOMAIN q = 1 .. m
      /\ u \in Seq(S) /\ DOMAIN u = 1 .. n + m
      /\ \A i \in 1 .. n : u[i] = r[i]
      /\ \A i \in 1 .. n + m : i \notin 1 .. n => i - n \in 1 .. m /\ u[i] = q[i - n]
  <2>1. /\ n \in Nat /\ m \in Nat /\ DOMAIN r = 1 .. n /\ DOMAIN q = 1 .. m
        /\ u \in Seq(S) /\ Len(u) = n + m
        /\ \A i \in 1 .. n + m : u[i] = IF i <= n THEN r[i] ELSE q[i - n]
    OBVIOUS
  <2> HIDE DEF n, m, u
  <2>2. DOMAIN u = 1 .. n + m
    BY <2>1
  <2>3. \A i \in 1 .. n : i \in 1 .. n + m /\ i <= n
    BY <2>1
  <2>4. \A i \in 1 .. n + m : i \notin 1 .. n => i - n \in 1 .. m /\ ~(i <= n)
    BY <2>1
  <2> QED  BY <2>1, <2>2, <2>3, <2>4
<1> HIDE DEF n, m, u
<1>2. \A i, j \in DOMAIN u : u[i] = u[j] => i = j
  <2> SUFFICES ASSUME NEW i \in 1 .. n + m, NEW j \in 1 .. n + m, u[i] = u[j]
               PROVE  i = j
    BY <1>1
  <2>1. CASE i \in 1 .. n /\ j \in 1 .. n
    BY <1>1, <2>1
  <2>2. CASE i \notin 1 .. n /\ j \notin 1 .. n
    <3>1. i - n \in DOMAIN q /\ j - n \in DOMAIN q /\ q[i - n] = q[j - n]
      BY <1>1, <2>2
    <3>2. i - n = j - n
      BY <3>1
    <3> QED  BY <1>1, <3>2
  <2>3. CASE i \in 1 .. n /\ j \notin 1 .. n
    <3>1. i \in DOMAIN r /\ j - n \in DOMAIN q /\ r[i] = q[j - n]
      BY <1>1, <2>3
    <3> QED  BY <3>1
  <2>4. CASE i \notin 1 .. n /\ j \in 1 .. n
    <3>1. j \in DOMAIN r /\ i - n \in DOMAIN q /\ r[j] = q[i - n]
      BY <1>1, <2>4
    <3> QED  BY <3>1
  <2> QED  BY <2>1, <2>2, <2>3, <2>4
<1>3. \A i \in DOMAIN r : i \in DOMAIN u /\ u[i] = r[i]
  BY <1>1
<1> QED  BY <1>1, <1>2, <1>3 DEF u

\* The requests of a client and the budget of a turn stay within their bounds.
LEMMA RequestTypesStep ==
  ASSUME PlainTypes, RequestTypes, Rotating, Next, load' = load
  PROVE  RequestTypes'
<1> USE SourceAssumption DEF RequestTypes, InFlight, PlainTypes, clientVars, dispatchVars,
        interestVars, statusVars, threadVars, loopVars, Thread, Loop
<1>1. ASSUME NEW c \in Clients, ClientStep(c)
      PROVE  RequestTypes'
  BY <1>1 DEF ClientStep, Connect, WriteRequest, Reading, HangUp
<1>2. CASE WatchLoop \/ SnapshotInterest \/ RecordFailure \/ FailureWake
  BY <1>2 DEF WatchLoop, SnapshotInterest, RecordFailure, FailureWake
<1>3. CASE PollReturns
  BY <1>3 DEF PollReturns
<1>4. CASE DrainControl
  BY <1>4 DEF DrainControl
<1>5. CASE AfterDrain \/ Interrupted \/ SourceFails
  BY <1>5 DEF AfterDrain, Interrupted, SourceFails
<1>6. CASE AcceptClient \/ MonitorClient \/ AcceptsDone \/ StopAccepting
  BY <1>6 DEF AcceptClient, MonitorClient, AcceptsDone, StopAccepting
<1>7. CASE TestReady \/ Disarm \/ WakeLoop
  BY <1>7 DEF TestReady, Disarm, WakeLoop
<1>8. CASE HandleUser \/ HandleRedraw \/ HandleInput \/ HandleAboutToWait
  BY <1>8 DEF HandleUser, HandleRedraw, HandleInput, HandleAboutToWait, Handle
<1>9. CASE EndWait \/ QueueReadyClients \/ EndDispatch \/ ExitLoop
  BY <1>9 DEF EndWait, QueueReadyClients, EndDispatch, ExitLoop
<1>10. ASSUME NEW late \in BOOLEAN, ServeClient(late)
      PROVE  RequestTypes'
  <2>1. PICK c \in Clients :
           /\ inSocket' \in [Clients -> Nat] /\ buffered' \in [Clients -> Nat]
           /\ inSocket'[c] + buffered'[c] <= inSocket[c] + buffered[c]
           /\ \A d \in Clients \ {c} : inSocket'[d] = inSocket[d] /\ buffered'[d] = buffered[d]
           /\ budget' \in 0 .. TurnBudget
    BY <1>10, ServedClient
  <2>2. \A d \in Clients : inSocket'[d] + buffered'[d] <= load.requests
    BY <2>1
  <2> QED  BY <2>1, <2>2
<1>11. CASE \/ FlushClients \/ FindRemoved \/ RecheckRemoved \/ UpdateInterest
           \/ NotifyInterest
  BY <1>11 DEF FlushClients, FindRemoved, RecheckRemoved, UpdateInterest, NotifyInterest
<1>12. CASE EventDone \/ Rearm \/ NotifyRearm \/ EndTurn
  BY <1>12 DEF EventDone, Rearm, NotifyRearm, EndTurn
<1>13. CASE StopFlag \/ StopNotify \/ Join
  BY <1>13 DEF StopFlag, StopNotify, Join
<1> QED
  BY <1>1, <1>2, <1>3, <1>4, <1>5, <1>6, <1>7, <1>8, <1>9, <1>10, <1>11, <1>12, <1>13
     DEF Next, ThreadStep, LoopStep, NativeStep, Awake, NativeEvent


RotationStays ==
    UNCHANGED <<pending, unflushed>> /\ backend \subseteq backend'

LEMMA RotationTouched ==
  ASSUME Next
  PROVE  \/ RotationStays \/ QueueReadyClients \/ FlushClients
         \/ \E late \in BOOLEAN : ServeClient(late)
<1> USE DEF RotationStays, clientVars, dispatchVars, interestVars, statusVars, threadVars,
        loopVars
<1>1. ASSUME NEW c \in Clients, ClientStep(c)
      PROVE  RotationStays
  BY <1>1 DEF ClientStep, Connect, WriteRequest, Reading, HangUp
<1>2. CASE WatchLoop \/ SnapshotInterest \/ RecordFailure \/ FailureWake
  BY <1>2 DEF WatchLoop, SnapshotInterest, RecordFailure, FailureWake
<1>3. CASE PollReturns
  BY <1>3 DEF PollReturns
<1>4. CASE DrainControl
  BY <1>4 DEF DrainControl
<1>5. CASE AfterDrain \/ Interrupted \/ SourceFails
  BY <1>5 DEF AfterDrain, Interrupted, SourceFails
<1>6. CASE AcceptClient \/ MonitorClient \/ AcceptsDone \/ StopAccepting
  BY <1>6 DEF AcceptClient, MonitorClient, AcceptsDone, StopAccepting
<1>7. CASE TestReady \/ Disarm \/ WakeLoop
  BY <1>7 DEF TestReady, Disarm, WakeLoop
<1>8. CASE HandleUser \/ HandleRedraw \/ HandleInput \/ HandleAboutToWait
  BY <1>8 DEF HandleUser, HandleRedraw, HandleInput, HandleAboutToWait, Handle
<1>9. CASE EndWait \/ EndDispatch \/ ExitLoop
  BY <1>9 DEF EndWait, EndDispatch, ExitLoop
<1>10. CASE FindRemoved \/ RecheckRemoved \/ UpdateInterest \/ NotifyInterest
  BY <1>10 DEF FindRemoved, RecheckRemoved, UpdateInterest, NotifyInterest
<1>11. CASE EventDone \/ Rearm \/ NotifyRearm \/ EndTurn
  BY <1>11 DEF EventDone, Rearm, NotifyRearm, EndTurn
<1>12. CASE StopFlag \/ StopNotify \/ Join
  BY <1>12 DEF StopFlag, StopNotify, Join
<1> QED
  BY <1>1, <1>2, <1>3, <1>4, <1>5, <1>6, <1>7, <1>8, <1>9, <1>10, <1>11, <1>12
     DEF Next, ClientStep, ThreadStep, LoopStep, NativeStep, Awake, NativeEvent

LEMMA RotatingStep ==
  ASSUME PlainTypes, RequestTypes, Rotating, Next
  PROVE  Rotating' /\ \A c \in InRotation : c \in InRotation' \/ buffered'[c] = 0
<1> USE DEF clientVars, dispatchVars, interestVars, statusVars, threadVars, loopVars
<1>0. /\ pending \in Seq(backend) /\ Distinct(pending) /\ unflushed \subseteq backend
      /\ InRotation = Held(pending)
      /\ (Rotating <=> pending \in Seq(backend) /\ Distinct(pending) /\ unflushed \subseteq backend)'
      /\ (InRotation = Held(pending))'
  BY DEF Rotating, Distinct, InRotation, Held
<1>1. CASE QueueReadyClients
  <2>1. backend' = backend /\ unflushed' = unflushed
    BY <1>1 DEF QueueReadyClients
  <2>2. PICK q \in Orders(Joining) \cup {<< >>} : pending' = pending \o q
    BY <1>1 DEF QueueReadyClients
  <2>3. Joining \subseteq backend /\ Joining \cap InRotation = {} /\ IsFiniteSet(Joining)
    BY SourceAssumption, FS_Subset DEF Joining, Readable, PlainTypes
  <2>4. Cardinality(Joining) \in Nat
    BY <2>3, FS_CardinalityType
  <2>5. /\ q \in Seq(Joining)
        /\ Distinct(q)
    <3>1. CASE q \in Orders(Joining)
      <4>1. q \in [1 .. Cardinality(Joining) -> Joining]
        BY <3>1 DEF Orders
      <4>2. q \in Seq(Joining)
        BY <2>4, <4>1
      <4> QED  BY <3>1, <4>2 DEF Orders, Distinct
    <3>2. CASE q = << >>
      BY <3>2 DEF Distinct
    <3> QED  BY <2>2, <3>1, <3>2
  <2>6. q \in Seq(backend) /\ Held(pending) \cap Held(q) = {}
    BY <1>0, <2>3, <2>5 DEF Held
  <2>7. /\ pending \o q \in Seq(backend) /\ Distinct(pending \o q)
        /\ Held(pending) \subseteq Held(pending \o q)
    BY <1>0, <2>5, <2>6, RotationJoined
  <2> QED  BY <1>0, <2>1, <2>2, <2>7
<1>2. ASSUME NEW late \in BOOLEAN, ServeClient(late)
      PROVE  Rotating' /\ \A c \in InRotation : c \in InRotation' \/ buffered'[c] = 0
  <2>1. PICK c \in Clients :
           /\ pending # << >> /\ c = Head(pending)
           /\ \/ pending' = Append(Tail(pending), c) /\ backend' = backend
              \/ /\ pending' = Tail(pending) /\ buffered'[c] = 0
                 /\ backend' = backend \ ({c} \cap hung)
           /\ unflushed' \subseteq backend'
    BY <1>2, ServedClient
  <2>2. CASE pending' = Append(Tail(pending), c) /\ backend' = backend
    <3>1. /\ pending' \in Seq(backend) /\ Distinct(pending')
          /\ Held(pending) \subseteq Held(pending')
      BY <1>0, <2>1, <2>2, RotationTurned
    <3> QED  BY <1>0, <2>1, <2>2, <3>1
  <2>3. CASE pending' = Tail(pending) /\ buffered'[c] = 0 /\ backend' = backend \ ({c} \cap hung)
    <3>1. /\ pending' \in Seq(backend \ {c}) /\ Distinct(pending')
          /\ Held(pending) \subseteq Held(pending') \cup {c}
      BY <1>0, <2>1, <2>3, RotationTurned
    <3>2. pending' \in Seq(backend')
      BY <2>3, <3>1
    <3> QED  BY <1>0, <2>1, <2>3, <3>1, <3>2
  <2> QED  BY <2>1, <2>2, <2>3
<1>3. CASE FlushClients
  <2>1. UNCHANGED <<pending, backend>> /\ unflushed' \subseteq backend
    BY <1>0, <1>3 DEF FlushClients
  <2> QED  BY <1>0, <2>1
<1>4. CASE RotationStays
  <2>1. pending \in Seq(backend')
    BY <1>0, <1>4 DEF RotationStays
  <2> QED  BY <1>0, <1>4, <2>1 DEF RotationStays
<1> QED  BY <1>1, <1>2, <1>3, <1>4, RotationTouched

BufferedStays ==
    UNCHANGED buffered

LEMMA BufferedTouched ==
  ASSUME Next
  PROVE  \/ BufferedStays
         \/ \E late \in BOOLEAN : ServeClient(late)
<1> USE DEF BufferedStays, clientVars, dispatchVars, interestVars, statusVars, threadVars,
        loopVars
<1>1. ASSUME NEW c \in Clients, ClientStep(c)
      PROVE  BufferedStays
  BY <1>1 DEF ClientStep, Connect, WriteRequest, Reading, HangUp
<1>2. CASE WatchLoop \/ SnapshotInterest \/ RecordFailure \/ FailureWake
  BY <1>2 DEF WatchLoop, SnapshotInterest, RecordFailure, FailureWake
<1>3. CASE PollReturns
  BY <1>3 DEF PollReturns
<1>4. CASE DrainControl
  BY <1>4 DEF DrainControl
<1>5. CASE AfterDrain \/ Interrupted \/ SourceFails
  BY <1>5 DEF AfterDrain, Interrupted, SourceFails
<1>6. CASE AcceptClient \/ MonitorClient \/ AcceptsDone \/ StopAccepting
  BY <1>6 DEF AcceptClient, MonitorClient, AcceptsDone, StopAccepting
<1>7. CASE TestReady \/ Disarm \/ WakeLoop
  BY <1>7 DEF TestReady, Disarm, WakeLoop
<1>8. CASE HandleUser \/ HandleRedraw \/ HandleInput \/ HandleAboutToWait
  BY <1>8 DEF HandleUser, HandleRedraw, HandleInput, HandleAboutToWait, Handle
<1>9. CASE EndWait \/ QueueReadyClients \/ EndDispatch \/ ExitLoop
  BY <1>9 DEF EndWait, QueueReadyClients, EndDispatch, ExitLoop
<1>10. CASE \/ FlushClients \/ FindRemoved \/ RecheckRemoved \/ UpdateInterest
           \/ NotifyInterest
  BY <1>10 DEF FlushClients, FindRemoved, RecheckRemoved, UpdateInterest, NotifyInterest
<1>11. CASE EventDone \/ Rearm \/ NotifyRearm \/ EndTurn
  BY <1>11 DEF EventDone, Rearm, NotifyRearm, EndTurn
<1>12. CASE StopFlag \/ StopNotify \/ Join
  BY <1>12 DEF StopFlag, StopNotify, Join
<1> QED
  BY <1>1, <1>2, <1>3, <1>4, <1>5, <1>6, <1>7, <1>8, <1>9, <1>10, <1>11, <1>12
     DEF Next, ClientStep, ThreadStep, LoopStep, NativeStep, Awake, NativeEvent

\* A client with buffered requests keeps its turn ...
LEMMA BufferedStep ==
  ASSUME PlainTypes, RequestTypes, Rotating, Next,
         \A c \in Clients : buffered[c] > 0 => c \in InRotation
  PROVE  \A c \in Clients : buffered'[c] > 0 => c \in InRotation'
<1>1. \A c \in InRotation : c \in InRotation' \/ buffered'[c] = 0
  BY RotatingStep
<1>2. CASE BufferedStays
  BY <1>1, <1>2 DEF BufferedStays
<1>3. ASSUME NEW late \in BOOLEAN, ServeClient(late)
      PROVE  \A c \in Clients : buffered'[c] > 0 => c \in InRotation'
  <2>1. PICK c \in Clients : /\ pending # << >> /\ c = Head(pending)
                             /\ \A d \in Clients \ {c} : buffered'[d] = buffered[d]
    BY <1>3, ServedClient
  <2>2. c \in InRotation
    <3>1. pending \in Seq(backend)
      BY DEF Rotating
    <3>2. Head(pending) = pending[1] /\ 1 \in DOMAIN pending
      BY <2>1, <3>1
    <3> QED  BY <2>1, <3>2 DEF InRotation
  <2> QED  BY <1>1, <2>1, <2>2
<1> QED  BY <1>2, <1>3, BufferedTouched

\* ... and the loop comes back to it.
LEMMA DispatchStep ==
  ASSUME PlainTypes, EventPlace, AfterDispatch => pending = << >> \/ deadline, Next
  PROVE  (AfterDispatch => pending = << >> \/ deadline)'
<1> USE DEF AfterDispatch, Flushing, EventPlace, clientVars, dispatchVars, interestVars,
        statusVars, threadVars, loopVars, Thread, Loop
<1>1. ASSUME NEW c \in Clients, ClientStep(c)
      PROVE  (AfterDispatch => pending = << >> \/ deadline)'
  BY <1>1 DEF ClientStep, Connect, WriteRequest, Reading, HangUp
<1>2. CASE WatchLoop \/ SnapshotInterest \/ RecordFailure \/ FailureWake
  BY <1>2 DEF WatchLoop, SnapshotInterest, RecordFailure, FailureWake
<1>3. CASE PollReturns
  BY <1>3 DEF PollReturns
<1>4. CASE DrainControl
  BY <1>4 DEF DrainControl
<1>5. CASE AfterDrain \/ Interrupted \/ SourceFails
  BY <1>5 DEF AfterDrain, Interrupted, SourceFails
<1>6. CASE AcceptClient \/ MonitorClient \/ AcceptsDone \/ StopAccepting
  BY <1>6 DEF AcceptClient, MonitorClient, AcceptsDone, StopAccepting
<1>7. CASE TestReady \/ Disarm \/ WakeLoop
  BY <1>7 DEF TestReady, Disarm, WakeLoop
<1>8. CASE HandleUser \/ HandleRedraw \/ HandleInput \/ HandleAboutToWait
  BY <1>8 DEF HandleUser, HandleRedraw, HandleInput, HandleAboutToWait, Handle
<1>9. CASE EndWait \/ QueueReadyClients \/ EndDispatch \/ ExitLoop
  BY <1>9 DEF EndWait, QueueReadyClients, EndDispatch, ExitLoop
<1>10. ASSUME NEW late \in BOOLEAN, ServeClient(late)
      PROVE  (AfterDispatch => pending = << >> \/ deadline)'
  BY <1>10 DEF ServeClient
<1>11. CASE \/ FlushClients \/ FindRemoved \/ RecheckRemoved \/ UpdateInterest
           \/ NotifyInterest
  BY <1>11 DEF FlushClients, FindRemoved, RecheckRemoved, UpdateInterest, NotifyInterest
<1>12. CASE EventDone \/ Rearm \/ NotifyRearm \/ EndTurn
  BY <1>12 DEF EventDone, Rearm, NotifyRearm, EndTurn, AfterFlush
<1>13. CASE StopFlag \/ StopNotify \/ Join
  BY <1>13 DEF StopFlag, StopNotify, Join
<1> QED
  BY <1>1, <1>2, <1>3, <1>4, <1>5, <1>6, <1>7, <1>8, <1>9, <1>10, <1>11, <1>12, <1>13
     DEF Next, ThreadStep, LoopStep, NativeStep, Awake, NativeEvent

-----------------------------------------------------------------------------
(* The clients, the thread and the loop. *)

\* A client is accepted once, and comes back under no other name.
LEMMA ClientsApartStep ==
  ASSUME PlainTypes, RequestTypes, Rotating, MonitorsKept, ClientsApart, Next
  PROVE  ClientsApart'
<1> USE SourceAssumption DEF PlainTypes, ClientsApart, clientVars, dispatchVars, interestVars,
        statusVars, threadVars, loopVars, Thread, Loop
<1>1. ASSUME NEW c \in Clients, ClientStep(c)
      PROVE  ClientsApart'
  BY <1>1 DEF ClientStep, Connect, WriteRequest, Reading, HangUp, Connected
<1>2. CASE WatchLoop \/ SnapshotInterest \/ RecordFailure \/ FailureWake
  BY <1>2 DEF WatchLoop, SnapshotInterest, RecordFailure, FailureWake
<1>3. CASE PollReturns
  BY <1>3 DEF PollReturns
<1>4. CASE DrainControl
  BY <1>4 DEF DrainControl
<1>5. CASE AfterDrain \/ Interrupted \/ SourceFails
  BY <1>5 DEF AfterDrain, Interrupted, SourceFails
<1>6. CASE AcceptClient \/ MonitorClient \/ AcceptsDone \/ StopAccepting
  BY <1>6 DEF AcceptClient, MonitorClient, AcceptsDone, StopAccepting
<1>7. CASE TestReady \/ Disarm \/ WakeLoop
  BY <1>7 DEF TestReady, Disarm, WakeLoop
<1>8. CASE HandleUser \/ HandleRedraw \/ HandleInput \/ HandleAboutToWait
  BY <1>8 DEF HandleUser, HandleRedraw, HandleInput, HandleAboutToWait, Handle
<1>9. CASE EndWait \/ QueueReadyClients \/ EndDispatch \/ ExitLoop
  BY <1>9 DEF EndWait, QueueReadyClients, EndDispatch, ExitLoop
<1>10. ASSUME NEW late \in BOOLEAN, ServeClient(late)
      PROVE  ClientsApart'
  <2>1. PICK c \in Clients : backend' = backend \/ backend' = backend \ ({c} \cap hung)
    BY <1>10, ServedClient
  <2> QED  BY <1>10, <2>1 DEF ServeClient
<1>11. CASE \/ FlushClients \/ FindRemoved \/ RecheckRemoved \/ UpdateInterest
           \/ NotifyInterest
  BY <1>11 DEF FlushClients, FindRemoved, RecheckRemoved, UpdateInterest, NotifyInterest,
               StillRegistered
<1>12. CASE EventDone \/ Rearm \/ NotifyRearm \/ EndTurn
  BY <1>12 DEF EventDone, Rearm, NotifyRearm, EndTurn, AfterFlush
<1>13. CASE StopFlag \/ StopNotify \/ Join
  BY <1>13 DEF StopFlag, StopNotify, Join
<1> QED
  BY <1>1, <1>2, <1>3, <1>4, <1>5, <1>6, <1>7, <1>8, <1>9, <1>10, <1>11, <1>12, <1>13
     DEF Next, ThreadStep, LoopStep, NativeStep, Awake, NativeEvent

LEMMA MonitorsKeptStep ==
  ASSUME PlainTypes, RequestTypes, Rotating, MonitorsKept, ClientsApart, Next
  PROVE  MonitorsKept'
<1> USE SourceAssumption DEF PlainTypes, MonitorsKept, clientVars, dispatchVars, interestVars,
        statusVars, threadVars, loopVars, Thread, Loop
<1>1. ASSUME NEW c \in Clients, ClientStep(c)
      PROVE  MonitorsKept'
  BY <1>1 DEF ClientStep, Connect, WriteRequest, Reading, HangUp
<1>2. CASE WatchLoop \/ SnapshotInterest \/ RecordFailure \/ FailureWake
  BY <1>2 DEF WatchLoop, SnapshotInterest, RecordFailure, FailureWake
<1>3. CASE PollReturns
  BY <1>3 DEF PollReturns
<1>4. CASE DrainControl
  BY <1>4 DEF DrainControl
<1>5. CASE AfterDrain \/ Interrupted \/ SourceFails
  BY <1>5 DEF AfterDrain, Interrupted, SourceFails
<1>6. CASE AcceptClient \/ MonitorClient \/ AcceptsDone \/ StopAccepting
  BY <1>6 DEF AcceptClient, MonitorClient, AcceptsDone, StopAccepting, ClientsApart
<1>7. CASE TestReady \/ Disarm \/ WakeLoop
  BY <1>7 DEF TestReady, Disarm, WakeLoop
<1>8. CASE HandleUser \/ HandleRedraw \/ HandleInput \/ HandleAboutToWait
  BY <1>8 DEF HandleUser, HandleRedraw, HandleInput, HandleAboutToWait, Handle
<1>9. CASE EndWait \/ QueueReadyClients \/ EndDispatch \/ ExitLoop
  BY <1>9 DEF EndWait, QueueReadyClients, EndDispatch, ExitLoop
<1>10. ASSUME NEW late \in BOOLEAN, ServeClient(late)
      PROVE  MonitorsKept'
  <2>1. PICK c \in Clients : backend' = backend \/ backend' = backend \ ({c} \cap hung)
    BY <1>10, ServedClient
  <2> QED  BY <1>10, <2>1 DEF ServeClient
<1>11. CASE \/ FlushClients \/ FindRemoved \/ RecheckRemoved \/ UpdateInterest
           \/ NotifyInterest
  BY <1>11 DEF FlushClients, FindRemoved, RecheckRemoved, UpdateInterest, NotifyInterest,
               StillRegistered, ClientsApart
<1>12. CASE EventDone \/ Rearm \/ NotifyRearm \/ EndTurn
  BY <1>12 DEF EventDone, Rearm, NotifyRearm, EndTurn, AfterFlush
<1>13. CASE StopFlag \/ StopNotify \/ Join
  BY <1>13 DEF StopFlag, StopNotify, Join
<1> QED
  BY <1>1, <1>2, <1>3, <1>4, <1>5, <1>6, <1>7, <1>8, <1>9, <1>10, <1>11, <1>12, <1>13
     DEF Next, ThreadStep, LoopStep, NativeStep, Awake, NativeEvent

LEMMA EventPlaceStep ==
  ASSUME PlainTypes, EventPlace, Next
  PROVE  EventPlace'
<1> USE DEF PlainTypes, EventPlace, Flushing, clientVars, dispatchVars, interestVars, statusVars,
        threadVars, loopVars, Thread, Loop
<1>1. ASSUME NEW c \in Clients, ClientStep(c)
      PROVE  EventPlace'
  BY <1>1 DEF ClientStep, Connect, WriteRequest, Reading, HangUp
<1>2. CASE WatchLoop \/ SnapshotInterest \/ RecordFailure \/ FailureWake
  BY <1>2 DEF WatchLoop, SnapshotInterest, RecordFailure, FailureWake
<1>3. CASE PollReturns
  BY <1>3 DEF PollReturns
<1>4. CASE DrainControl
  BY <1>4 DEF DrainControl
<1>5. CASE AfterDrain \/ Interrupted \/ SourceFails
  BY <1>5 DEF AfterDrain, Interrupted, SourceFails
<1>6. CASE AcceptClient \/ MonitorClient \/ AcceptsDone \/ StopAccepting
  BY <1>6 DEF AcceptClient, MonitorClient, AcceptsDone, StopAccepting
<1>7. CASE TestReady \/ Disarm \/ WakeLoop
  BY <1>7 DEF TestReady, Disarm, WakeLoop
<1>8. CASE HandleUser \/ HandleRedraw \/ HandleInput \/ HandleAboutToWait
  BY <1>8 DEF HandleUser, HandleRedraw, HandleInput, HandleAboutToWait, Handle
<1>9. CASE EndWait \/ QueueReadyClients \/ EndDispatch \/ ExitLoop
  BY <1>9 DEF EndWait, QueueReadyClients, EndDispatch, ExitLoop
<1>10. ASSUME NEW late \in BOOLEAN, ServeClient(late)
      PROVE  EventPlace'
  BY <1>10 DEF ServeClient
<1>11. CASE \/ FlushClients \/ FindRemoved \/ RecheckRemoved \/ UpdateInterest
           \/ NotifyInterest
  BY <1>11 DEF FlushClients, FindRemoved, RecheckRemoved, UpdateInterest, NotifyInterest
<1>12. CASE EventDone \/ Rearm \/ NotifyRearm \/ EndTurn
  BY <1>12 DEF EventDone, Rearm, NotifyRearm, EndTurn, AfterFlush
<1>13. CASE StopFlag \/ StopNotify \/ Join
  BY <1>13 DEF StopFlag, StopNotify, Join
<1> QED
  BY <1>1, <1>2, <1>3, <1>4, <1>5, <1>6, <1>7, <1>8, <1>9, <1>10, <1>11, <1>12, <1>13
     DEF Next, ThreadStep, LoopStep, NativeStep, Awake, NativeEvent

LEMMA PollsWhatItMustStep ==
  ASSUME PlainTypes, ClientsApart, FailureTold, PollsWhatItMust, Next
  PROVE  PollsWhatItMust'
<1> USE DEF PlainTypes, PollsWhatItMust, clientVars, dispatchVars, interestVars, statusVars,
        threadVars, loopVars, Thread, Loop
<1>1. ASSUME NEW c \in Clients, ClientStep(c)
      PROVE  PollsWhatItMust'
  BY <1>1 DEF ClientStep, Connect, WriteRequest, Reading, HangUp
<1>2. CASE WatchLoop \/ SnapshotInterest \/ RecordFailure \/ FailureWake
  <2>1. CASE WatchLoop
    <3>1. th' = "snapshot" => seen'
      BY <2>1, Zenon DEF WatchLoop
    <3>2. th' = "poll" => ~seen' /\ ~armed'
      BY <2>1, Zenon DEF WatchLoop
    <3> QED  BY <3>1, <3>2
  <2>2. CASE SnapshotInterest
    BY <2>2 DEF SnapshotInterest
  <2>3. CASE RecordFailure \/ FailureWake
    BY <2>3 DEF RecordFailure, FailureWake
  <2> QED  BY <1>2, <2>1, <2>2, <2>3
<1>3. CASE PollReturns
  BY <1>3 DEF PollReturns
<1>4. CASE DrainControl
  BY <1>4 DEF DrainControl
<1>5. CASE AfterDrain \/ Interrupted \/ SourceFails
  BY <1>5 DEF AfterDrain, Interrupted, SourceFails
<1>6. CASE AcceptClient \/ MonitorClient \/ AcceptsDone \/ StopAccepting
  BY <1>6 DEF AcceptClient, MonitorClient, AcceptsDone, StopAccepting, ClientsApart
<1>7. CASE TestReady \/ Disarm \/ WakeLoop
  BY <1>7 DEF TestReady, Disarm, WakeLoop
<1>8. CASE HandleUser \/ HandleRedraw \/ HandleInput \/ HandleAboutToWait
  BY <1>8 DEF HandleUser, HandleRedraw, HandleInput, HandleAboutToWait, Handle
<1>9. CASE EndWait \/ QueueReadyClients \/ EndDispatch \/ ExitLoop
  BY <1>9 DEF EndWait, QueueReadyClients, EndDispatch, ExitLoop
<1>10. ASSUME NEW late \in BOOLEAN, ServeClient(late)
      PROVE  PollsWhatItMust'
  BY <1>10 DEF ServeClient
<1>11. CASE \/ FlushClients \/ FindRemoved \/ RecheckRemoved \/ UpdateInterest
           \/ NotifyInterest
  BY <1>11 DEF FlushClients, FindRemoved, RecheckRemoved, UpdateInterest, NotifyInterest,
               InterestChanged
<1>12. CASE EventDone \/ Rearm \/ NotifyRearm \/ EndTurn
  BY <1>12 DEF EventDone, Rearm, NotifyRearm, EndTurn, AfterFlush
<1>13. CASE StopFlag \/ StopNotify \/ Join
  BY <1>13 DEF StopFlag, StopNotify, Join
<1> QED
  BY <1>1, <1>2, <1>3, <1>4, <1>5, <1>6, <1>7, <1>8, <1>9, <1>10, <1>11, <1>12, <1>13
     DEF Next, ThreadStep, LoopStep, NativeStep, Awake, NativeEvent

LEMMA WakeComesStep ==
  ASSUME PlainTypes, EventPlace, WakeComes, FailureTold, Next
  PROVE  WakeComes'
<1> USE DEF PlainTypes, EventPlace, Flushing, WakeComes, Rearmed, clientVars, dispatchVars,
        interestVars, statusVars, threadVars, loopVars, Thread, Loop
<1>1. ASSUME NEW c \in Clients, ClientStep(c)
      PROVE  WakeComes'
  BY <1>1 DEF ClientStep, Connect, WriteRequest, Reading, HangUp
<1>2. CASE WatchLoop \/ SnapshotInterest \/ RecordFailure \/ FailureWake
  BY <1>2 DEF WatchLoop, SnapshotInterest, RecordFailure, FailureWake
<1>3. CASE PollReturns
  BY <1>3 DEF PollReturns
<1>4. CASE DrainControl
  BY <1>4 DEF DrainControl
<1>5. CASE AfterDrain \/ Interrupted \/ SourceFails
  BY <1>5 DEF AfterDrain, Interrupted, SourceFails
<1>6. CASE AcceptClient \/ MonitorClient \/ AcceptsDone \/ StopAccepting
  BY <1>6 DEF AcceptClient, MonitorClient, AcceptsDone, StopAccepting
<1>7. CASE TestReady \/ Disarm \/ WakeLoop
  BY <1>7 DEF TestReady, Disarm, WakeLoop
<1>8. CASE HandleUser \/ HandleRedraw \/ HandleInput \/ HandleAboutToWait
  BY <1>8 DEF HandleUser, HandleRedraw, HandleInput, HandleAboutToWait, Handle
<1>9. CASE EndWait \/ QueueReadyClients \/ EndDispatch \/ ExitLoop
  BY <1>9 DEF EndWait, QueueReadyClients, EndDispatch, ExitLoop
<1>10. ASSUME NEW late \in BOOLEAN, ServeClient(late)
      PROVE  WakeComes'
  BY <1>10 DEF ServeClient
<1>11. CASE \/ FlushClients \/ FindRemoved \/ RecheckRemoved \/ UpdateInterest
           \/ NotifyInterest
  BY <1>11 DEF FlushClients, FindRemoved, RecheckRemoved, UpdateInterest, NotifyInterest
<1>12. CASE EventDone \/ Rearm \/ NotifyRearm \/ EndTurn
  BY <1>12 DEF EventDone, Rearm, NotifyRearm, EndTurn, AfterFlush
<1>13. CASE StopFlag \/ StopNotify \/ Join
  BY <1>13 DEF StopFlag, StopNotify, Join
<1> QED
  BY <1>1, <1>2, <1>3, <1>4, <1>5, <1>6, <1>7, <1>8, <1>9, <1>10, <1>11, <1>12, <1>13
     DEF Next, ThreadStep, LoopStep, NativeStep, Awake, NativeEvent

LEMMA OutputToldStep ==
  ASSUME PlainTypes, EventPlace, OutputTold, Next
  PROVE  OutputTold'
<1> USE DEF PlainTypes, EventPlace, OutputTold, clientVars, dispatchVars, interestVars,
        statusVars, threadVars, loopVars, Thread, Loop
<1>1. ASSUME NEW c \in Clients, ClientStep(c)
      PROVE  OutputTold'
  BY <1>1 DEF ClientStep, Connect, WriteRequest, Reading, HangUp
<1>2. CASE WatchLoop \/ SnapshotInterest \/ RecordFailure \/ FailureWake
  BY <1>2 DEF WatchLoop, SnapshotInterest, RecordFailure, FailureWake
<1>3. CASE PollReturns
  BY <1>3 DEF PollReturns
<1>4. CASE DrainControl
  BY <1>4 DEF DrainControl
<1>5. CASE AfterDrain \/ Interrupted \/ SourceFails
  BY <1>5 DEF AfterDrain, Interrupted, SourceFails
<1>6. CASE AcceptClient \/ MonitorClient \/ AcceptsDone \/ StopAccepting
  BY <1>6 DEF AcceptClient, MonitorClient, AcceptsDone, StopAccepting
<1>7. CASE TestReady \/ Disarm \/ WakeLoop
  BY <1>7 DEF TestReady, Disarm, WakeLoop
<1>8. CASE HandleUser \/ HandleRedraw \/ HandleInput \/ HandleAboutToWait
  BY <1>8 DEF HandleUser, HandleRedraw, HandleInput, HandleAboutToWait, Handle
<1>9. CASE EndWait \/ QueueReadyClients \/ EndDispatch \/ ExitLoop
  BY <1>9 DEF EndWait, QueueReadyClients, EndDispatch, ExitLoop
<1>10. ASSUME NEW late \in BOOLEAN, ServeClient(late)
      PROVE  OutputTold'
  BY <1>10 DEF ServeClient
<1>11. CASE \/ FlushClients \/ FindRemoved \/ RecheckRemoved \/ UpdateInterest
           \/ NotifyInterest
  BY <1>11 DEF FlushClients, FindRemoved, RecheckRemoved, UpdateInterest, NotifyInterest,
               InterestChanged
<1>12. CASE EventDone \/ Rearm \/ NotifyRearm \/ EndTurn
  BY <1>12 DEF EventDone, Rearm, NotifyRearm, EndTurn, AfterFlush
<1>13. CASE StopFlag \/ StopNotify \/ Join
  BY <1>13 DEF StopFlag, StopNotify, Join
<1> QED
  BY <1>1, <1>2, <1>3, <1>4, <1>5, <1>6, <1>7, <1>8, <1>9, <1>10, <1>11, <1>12, <1>13
     DEF Next, ThreadStep, LoopStep, NativeStep, Awake, NativeEvent

LEMMA FailureToldStep ==
  ASSUME PlainTypes, EventPlace, FailureTold, Next
  PROVE  FailureTold'
<1> USE DEF PlainTypes, EventPlace, FailureTold, Exiting, clientVars, dispatchVars, interestVars,
        statusVars, threadVars, loopVars, Thread, Loop
<1>1. ASSUME NEW c \in Clients, ClientStep(c)
      PROVE  FailureTold'
  BY <1>1 DEF ClientStep, Connect, WriteRequest, Reading, HangUp
<1>2. CASE WatchLoop \/ SnapshotInterest \/ RecordFailure \/ FailureWake
  BY <1>2 DEF WatchLoop, SnapshotInterest, RecordFailure, FailureWake
<1>3. CASE PollReturns
  BY <1>3 DEF PollReturns
<1>4. CASE DrainControl
  BY <1>4 DEF DrainControl
<1>5. CASE AfterDrain \/ Interrupted \/ SourceFails
  BY <1>5 DEF AfterDrain, Interrupted, SourceFails
<1>6. CASE AcceptClient \/ MonitorClient \/ AcceptsDone \/ StopAccepting
  BY <1>6 DEF AcceptClient, MonitorClient, AcceptsDone, StopAccepting
<1>7. CASE TestReady \/ Disarm \/ WakeLoop
  BY <1>7 DEF TestReady, Disarm, WakeLoop
<1>8. CASE HandleUser \/ HandleRedraw \/ HandleInput \/ HandleAboutToWait
  BY <1>8 DEF HandleUser, HandleRedraw, HandleInput, HandleAboutToWait, Handle
<1>9. CASE EndWait \/ QueueReadyClients \/ EndDispatch \/ ExitLoop
  BY <1>9 DEF EndWait, QueueReadyClients, EndDispatch, ExitLoop
<1>10. ASSUME NEW late \in BOOLEAN, ServeClient(late)
      PROVE  FailureTold'
  BY <1>10 DEF ServeClient
<1>11. CASE \/ FlushClients \/ FindRemoved \/ RecheckRemoved \/ UpdateInterest
           \/ NotifyInterest
  BY <1>11 DEF FlushClients, FindRemoved, RecheckRemoved, UpdateInterest, NotifyInterest
<1>12. CASE EventDone \/ Rearm \/ NotifyRearm \/ EndTurn
  BY <1>12 DEF EventDone, Rearm, NotifyRearm, EndTurn, AfterFlush
<1>13. CASE StopFlag \/ StopNotify \/ Join
  BY <1>13 DEF StopFlag, StopNotify, Join
<1> QED
  BY <1>1, <1>2, <1>3, <1>4, <1>5, <1>6, <1>7, <1>8, <1>9, <1>10, <1>11, <1>12, <1>13
     DEF Next, ThreadStep, LoopStep, NativeStep, Awake, NativeEvent

LEMMA WakesCountedStep ==
  ASSUME PlainTypes, EventPlace, FailureTold, WakesCounted, Next
  PROVE  WakesCounted'
<1> USE DEF PlainTypes, EventPlace, FailureTold, WakesCounted, Posts, Failed, Flushing,
        clientVars, dispatchVars, interestVars, statusVars, threadVars, loopVars, Thread,
        Loop
<1>1. ASSUME NEW c \in Clients, ClientStep(c)
      PROVE  WakesCounted'
  BY <1>1 DEF ClientStep, Connect, WriteRequest, Reading, HangUp
<1>2. CASE WatchLoop \/ SnapshotInterest \/ RecordFailure \/ FailureWake
  BY <1>2 DEF WatchLoop, SnapshotInterest, RecordFailure, FailureWake
<1>3. CASE PollReturns
  BY <1>3 DEF PollReturns
<1>4. CASE DrainControl
  BY <1>4 DEF DrainControl
<1>5. CASE AfterDrain \/ Interrupted \/ SourceFails
  BY <1>5 DEF AfterDrain, Interrupted, SourceFails
<1>6. CASE AcceptClient \/ MonitorClient \/ AcceptsDone \/ StopAccepting
  BY <1>6 DEF AcceptClient, MonitorClient, AcceptsDone, StopAccepting
<1>7. CASE TestReady \/ Disarm \/ WakeLoop
  BY <1>7 DEF TestReady, Disarm, WakeLoop
<1>8. CASE HandleUser \/ HandleRedraw \/ HandleInput \/ HandleAboutToWait
  BY <1>8 DEF HandleUser, HandleRedraw, HandleInput, HandleAboutToWait, Handle
<1>9. CASE EndWait \/ QueueReadyClients \/ EndDispatch \/ ExitLoop
  BY <1>9 DEF EndWait, QueueReadyClients, EndDispatch, ExitLoop
<1>10. ASSUME NEW late \in BOOLEAN, ServeClient(late)
      PROVE  WakesCounted'
  BY <1>10 DEF ServeClient
<1>11. CASE \/ FlushClients \/ FindRemoved \/ RecheckRemoved \/ UpdateInterest
           \/ NotifyInterest
  BY <1>11 DEF FlushClients, FindRemoved, RecheckRemoved, UpdateInterest, NotifyInterest
<1>12. CASE EventDone \/ Rearm \/ NotifyRearm \/ EndTurn
  BY <1>12 DEF EventDone, Rearm, NotifyRearm, EndTurn, AfterFlush
<1>13. CASE StopFlag \/ StopNotify \/ Join
  BY <1>13 DEF StopFlag, StopNotify, Join
<1> QED
  BY <1>1, <1>2, <1>3, <1>4, <1>5, <1>6, <1>7, <1>8, <1>9, <1>10, <1>11, <1>12, <1>13
     DEF Next, ThreadStep, LoopStep, NativeStep, Awake, NativeEvent

-----------------------------------------------------------------------------
(* The invariant. *)

LEMMA IInvInit ==
  ASSUME Init
  PROVE  IInv
<1> USE SourceAssumption DEF Init
<1>1. PlainTypes
  BY DEF PlainTypes
<1>2. Flags
  BY Zenon DEF Flags
<1>3. Events
  BY Zenon DEF Events, NoEvents
<1>4. RequestTypes /\ Rotating
  <2>1. load.requests \in Nat
    OBVIOUS
  <2> QED  BY <2>1 DEF RequestTypes, InFlight, Rotating
<1>5. ClientsApart /\ MonitorsKept /\ EventPlace
  BY DEF ClientsApart, MonitorsKept, EventPlace, Flushing
<1>6. PollsWhatItMust /\ WakeComes /\ OutputTold
  BY DEF PollsWhatItMust, WakeComes, Rearmed, OutputTold
<1>7. RotationKept /\ FailureTold
  BY DEF RotationKept, AfterDispatch, FailureTold, Exiting, Flushing
<1>8. WakesCounted
  BY DEF WakesCounted, Posts, Failed
<1> QED
  BY <1>1, <1>2, <1>3, <1>4, <1>5, <1>6, <1>7, <1>8 DEF IInv, Typed

LEMMA IInvStep ==
  ASSUME IInv, Next, load' = load
  PROVE  IInv'
<1> USE DEF IInv, Typed
<1>1. PlainTypes' /\ Flags' /\ Events'
  BY PlainTypesStep, FlagsStep, EventsStep
<1>2. RequestTypes' /\ Rotating'
  BY RequestTypesStep, RotatingStep
<1>3. ClientsApart' /\ MonitorsKept' /\ EventPlace'
  BY ClientsApartStep, MonitorsKeptStep, EventPlaceStep
<1>4. PollsWhatItMust' /\ WakeComes' /\ OutputTold'
  BY PollsWhatItMustStep, WakeComesStep, OutputToldStep
<1>5. RotationKept'
  BY BufferedStep, DispatchStep DEF RotationKept
<1>6. FailureTold' /\ WakesCounted'
  BY FailureToldStep, WakesCountedStep
<1> QED
  BY <1>1, <1>2, <1>3, <1>4, <1>5, <1>6

LEMMA IInvStutter ==
  ASSUME IInv, UNCHANGED <<load, vars>>
  PROVE  IInv'
<1> USE DEF IInv, Typed, vars, clientVars, dispatchVars, interestVars, statusVars, threadVars,
        loopVars
<1>1. PlainTypes' /\ RequestTypes' /\ Rotating'
  BY DEF PlainTypes, RequestTypes, InFlight, Rotating
<1>2. Flags' /\ Events'
  BY DEF Flags, Events
<1>3. ClientsApart' /\ MonitorsKept' /\ EventPlace'
  BY DEF ClientsApart, MonitorsKept, EventPlace
<1>4. PollsWhatItMust' /\ WakeComes' /\ OutputTold'
  BY DEF PollsWhatItMust, WakeComes, Rearmed, OutputTold
<1>5. RotationKept'
  BY DEF RotationKept, AfterDispatch, InRotation
<1>6. FailureTold' /\ WakesCounted'
  BY DEF FailureTold, WakesCounted, Posts, Failed
<1> QED
  BY <1>1, <1>2, <1>3, <1>4, <1>5, <1>6

\* What a client has read and unread fits what it may have in flight.
LEMMA TypeCorrect ==
  ASSUME Typed
  PROVE  TypeOK
<1>1. inSocket \in [Clients -> 0 .. load.requests] /\ buffered \in [Clients -> 0 .. load.requests]
  <2>1. load.requests \in Nat
    BY SourceAssumption DEF Typed, RequestTypes
  <2>2. \A c \in Clients : /\ inSocket[c] \in 0 .. load.requests
                          /\ buffered[c] \in 0 .. load.requests
    BY <2>1 DEF Typed, RequestTypes, InFlight
  <2> QED  BY <2>2 DEF Typed, RequestTypes
<1>2. Events /\ Flags /\ PlainTypes /\ Rotating /\ budget \in 0 .. TurnBudget
  BY DEF Typed, RequestTypes
<1> QED
  BY <1>1, <1>2, Zenon DEF TypeOK, Events, Flags, PlainTypes, Rotating

\* A loop asleep has armed the thread, and a thread in its poll then polls all there is.
LEMMA QuietThread ==
  ASSUME IInv, Quiet
  PROVE  /\ th = "poll" /\ seen /\ backlog = {} /\ ~DisplayReadable
         /\ blocked \cap monitored \subseteq full
<1> USE DEF IInv, Typed
<1>1. loop = "asleep" /\ proxy = 0 /\ ~deadline
  BY DEF Quiet
<1>2. th # "dead"
  BY <1>1 DEF FailureTold, Exiting, PlainTypes
<1>3. th = "poll" /\ PollEvents = NoEvents
  BY <1>2 DEF Quiet
<1>4. ~control /\ backlog = {} /\ ~(seen /\ DisplayReadable) /\ watched \ full = {}
  <2>1. PollEvents.control = NoEvents.control /\ PollEvents.listener = NoEvents.listener
        /\ PollEvents.display = NoEvents.display /\ PollEvents.output = NoEvents.output
    BY <1>3
  <2> QED  BY <2>1, Zenon DEF PollEvents, NoEvents
<1>5. armed
  BY <1>1, <1>3 DEF WakeComes, Rearmed
<1>6. seen
  BY <1>1, <1>3, <1>4, <1>5 DEF PollsWhatItMust
<1>7. watched = blocked \cap monitored
  BY <1>1, <1>3, <1>4, <1>6 DEF PollsWhatItMust
<1> QED
  BY <1>3, <1>4, <1>6, <1>7

LEMMA ReadinessKept ==
  ASSUME IInv
  PROVE  NoLostReadiness
<1> SUFFICES ASSUME Quiet
             PROVE  /\ th # "dead"
                    /\ backlog = {}
                    /\ \A c \in backend : inSocket[c] + buffered[c] = 0 /\ c \notin hung
                    /\ unflushed \subseteq full
  BY DEF NoLostReadiness
<1> USE DEF IInv, Typed
<1>1. /\ th = "poll" /\ seen /\ backlog = {} /\ ~DisplayReadable
      /\ blocked \cap monitored \subseteq full
  BY QuietThread
<1>2. loop = "asleep" /\ ~deadline
  BY DEF Quiet
<1>3. ASSUME NEW c \in backend
      PROVE  inSocket[c] + buffered[c] = 0 /\ c \notin hung
  <2>1. c \in Clients /\ inSocket[c] \in Nat /\ buffered[c] \in Nat
    BY DEF PlainTypes, RequestTypes
  <2>2. inSocket[c] = 0 /\ c \notin hung
    BY <1>1, <2>1 DEF DisplayReadable
  <2>3. pending = << >>
    BY <1>2 DEF RotationKept, AfterDispatch
  <2>4. buffered[c] = 0
    BY <2>1, <2>3 DEF RotationKept, InRotation
  <2> QED  BY <2>1, <2>2, <2>4
<1>4. unflushed \subseteq full
  <2>1. unflushed \subseteq blocked
    BY <1>2 DEF OutputTold
  <2>2. unflushed \subseteq monitored
    BY <1>1, <1>2, SourceAssumption DEF Rotating, MonitorsKept, ClientsApart, PlainTypes
  <2> QED  BY <1>1, <2>1, <2>2
<1> QED
  BY <1>1, <1>3, <1>4

LEMMA WakesStayBounded ==
  ASSUME IInv
  PROVE  WakesBounded
BY DEF IInv, Typed, PlainTypes, WakesCounted, Posts, Failed, WakesBounded

\* The hand-off of wayland_source.rs is sound for any clients, budgets and loads: when the loop
\* sleeps with no wake to come and the thread is in a poll that nothing ends, every connection is
\* accepted, every request dispatched, every hangup noticed and every writable event written; no
\* monitor of a client is dropped and the wakes posted stay bounded.
THEOREM NoReadinessLost == Spec => []SourceInvariant
<1>1. Init => IInv
  BY IInvInit
<1>2. IInv /\ [Next /\ UNCHANGED load]_<<load, vars>> => IInv'
  BY IInvStep, IInvStutter
<1>3. IInv => SourceInvariant
  BY TypeCorrect, ReadinessKept, WakesStayBounded DEF SourceInvariant, IInv
<1> QED
  BY <1>1, <1>2, <1>3, PTL DEF Spec

-----------------------------------------------------------------------------
(* Clipboard.                                                              *)

Tokens == [generation : Nat, count : Int]
MaybeToken == Tokens \union {NoClip}
ClipTexts == {NoClip, "host text", "guest text"}
ClipImages == Int \union {NoClip}
GuestMessages == [at : {"reading", "sent"}, token : Tokens, mime : {"text", "image"}]
ImageResults == [token : Tokens, image : ClipImages]
PasteboardRecord == [count : Nat, text : ClipTexts, image : ClipImages, form : {"none", "png", "tiff", "bad"}]
ClipPlaces == {"idle", "poll", "deliver", "start", "reserve", "clear", "set", "count"}
ClipArgs == {NoClip, "text", "image"} \union GuestMessages
ClipRecord == [pc : ClipPlaces, count : Int, text : ClipTexts, image : ClipImages,
               textOnly : BOOLEAN, generation : Nat, guestMime : {NoClip, "text", "image"},
               offer : MaybeToken, arg : ClipArgs, due : 0 .. MaxTransfers + 1,
               live : Nat \union {NoClip}, unconfirmed : BOOLEAN]
JobRecord == [pending : MaybeToken, inFlight : MaybeToken, worker : {"none", "idle", "busy", "dead"},
              result : ImageResults \union {NoClip}]
HeldRecord == [token : MaybeToken, fds : 0 .. MaxTransfers]
PermitRecord == [phase : {"free", "counted", "running", "returning"}, bytes : 0 .. 2]
BudgetRecord == [active : 0 .. MaxTransfers, bytes : 0 .. MaxTotalBytes]
ClipUseRecord == [copies : Nat, selections : Nat, pastes : 0 .. MaxPastes, deaths : {0, 1}]

\* A clipboard state c shows what the pasteboard holds, if it is of the same copy, or was cached
\* by an installation the pasteboard did not confirm.
Shown(c) ==
    /\ c.text = pasteboard.text
    /\ c.image \in {NoClip, pasteboard.image}
    /\ pasteboard.form = "png" => c.image = pasteboard.image
GuestsOwn(c) == (c.text = "guest text" /\ c.image = NoClip) \/ (c.text = NoClip /\ c.image = 0)
Coherent(c) ==
    /\ c.count <= pasteboard.count
    /\ c.count = pasteboard.count => Shown(c) \/ (c.unconfirmed /\ GuestsOwn(c))

\* A conversion is one of a TIFF of its token's copy.
OfCopy(t) ==
    t # NoClip => /\ t.count <= pasteboard.count
                  /\ t.count = pasteboard.count => pasteboard.form = "tiff" /\ pasteboard.image = t.count
JobSound(j) ==
    /\ OfCopy(j.pending) /\ OfCopy(j.inFlight)
    /\ j.worker = "busy" => j.inFlight # NoClip
    /\ j.result # NoClip => /\ j.inFlight # NoClip /\ j.worker # "busy"
                            /\ j.result.token = j.inFlight
                            /\ j.result.image \in {NoClip, j.inFlight.count}
HasJob(h, j) == h.token # NoClip => h.token \in {j.pending, j.inFlight}

\* The conversions there are were asked for before the copy of change count n, so none is merged
\* into what an installation cached under n.
JobsBefore(j, n) == \A t \in {j.pending, j.inFlight} : t # NoClip => t.count < n

\* An installation writes to the copy it cleared the pasteboard for, or not at all.
Written(m) == pasteboard.text = GuestText(m) /\ pasteboard.image = GuestImage(m)
InstallKept(c, j) ==
    /\ c.pc \in {"clear", "set", "count"} => c.arg \in GuestMessages
    /\ c.pc = "set" => c.live \in Nat /\ c.live <= pasteboard.count /\ c.count < pasteboard.count
    /\ c.pc \in {"set", "count"} => JobsBefore(j, pasteboard.count)
    /\ c.pc = "count" /\ c.live # NoClip =>
         c.live <= pasteboard.count /\ (c.live = pasteboard.count => Written(c.arg))
    /\ c.unconfirmed => JobsBefore(j, c.count)

\* Within a poll, the requests still held are of the copy the poll found.
HeldKept(c, h) == c.pc \in {"deliver", "start"} /\ h.token # NoClip => IsCurrentAt(h.token, c, c.live)

ClipTypes ==
    /\ pasteboard \in PasteboardRecord /\ clip \in ClipRecord /\ imageJob \in JobRecord
    /\ held \in HeldRecord /\ guest \subseteq GuestMessages
ClipKept ==
    /\ pasteboard.form = "tiff" => pasteboard.image = pasteboard.count
    /\ Coherent(clip) /\ JobSound(imageJob) /\ HasJob(held, imageJob)
    /\ InstallKept(clip, imageJob) /\ HeldKept(clip, held)

PermitTypes ==
    /\ senders \in [SenderIds -> PermitRecord] /\ transfer \in BudgetRecord /\ clipUse \in ClipUseRecord
\* Every paste asks for a slot once: while it is held, while it is due, or as the permit counted
\* for it.  So a sender that is asked for is there.
Reserving == \E s \in SenderIds : senders[s].phase = "counted"
SlotsAsked == transfer.active + held.fds + clip.due
PermitsKept ==
    /\ TransferBudgetBalances
    /\ \A s \in SenderIds : senders[s].phase # "running" => senders[s].bytes = 0
    /\ \A s, t \in SenderIds : senders[s].phase = "counted" /\ senders[t].phase = "counted" => s = t
    /\ clip.pc \in {"deliver", "reserve"} => clip.due >= 1
    /\ SlotsAsked <= clipUse.pastes + 1
    /\ ~Reserving => SlotsAsked <= clipUse.pastes

ClipInv == ClipTypes /\ ClipKept /\ PermitTypes /\ PermitsKept

-----------------------------------------------------------------------------
LEMMA PublishFields ==
  ASSUME NEW c \in ClipRecord, NEW h
  PROVE  LET d == Publish(c, h)
         IN  /\ d \in ClipRecord /\ d.pc = c.pc /\ d.arg = c.arg /\ d.count = c.count /\ d.text = c.text
             /\ d.image = c.image /\ d.generation = c.generation /\ d.due = c.due /\ d.live = c.live
             /\ d.unconfirmed = c.unconfirmed
<1>1. Token(c.generation, c.count) \in Tokens
  BY DEF Token, Tokens, ClipRecord
<1>2. PICK o \in MaybeToken : Publish(c, h) = [c EXCEPT !.offer = o]
  BY <1>1 DEF Publish, MaybeToken
<1> QED
  BY <1>2 DEF ClipRecord

LEMMA StartedFields ==
  ASSUME NEW j \in JobRecord, JobSound(j), NEW ok \in BOOLEAN
  PROVE  LET k == Started(j, ok)
         IN  /\ k \in JobRecord /\ JobSound(k)
             /\ k.inFlight = j.inFlight \/ (j.inFlight = NoClip /\ k.inFlight = j.pending)
             /\ k.pending = j.pending \/ (k.pending = NoClip /\ (StartFailed(j, ok) \/ k.inFlight = j.pending))
<1>1. CASE j.inFlight # NoClip \/ j.pending = NoClip
  BY <1>1 DEF Started
<1>2. CASE ~(j.inFlight # NoClip \/ j.pending = NoClip) /\ (j.worker = "dead" \/ (j.worker = "none" /\ ~ok))
  <2>1. Started(j, ok) = [j EXCEPT !.pending = NoClip, !.worker = "none"]
    BY <1>2 DEF Started
  <2> DEFINE k == [j EXCEPT !.pending = NoClip, !.worker = "none"]
  <2>2. /\ k \in JobRecord /\ k.pending = NoClip /\ k.worker = "none" /\ k.inFlight = j.inFlight
        /\ k.result = j.result
    BY DEF JobRecord, MaybeToken
  <2> HIDE DEF k
  <2> QED
    BY <1>2, <2>1, <2>2 DEF JobSound, OfCopy, StartFailed, k
<1>3. CASE ~(j.inFlight # NoClip \/ j.pending = NoClip) /\ ~(j.worker = "dead" \/ (j.worker = "none" /\ ~ok))
  <2>1. Started(j, ok) = [j EXCEPT !.pending = NoClip, !.inFlight = j.pending, !.worker = "busy"]
    BY <1>3 DEF Started
  <2> DEFINE k == [j EXCEPT !.pending = NoClip, !.inFlight = j.pending, !.worker = "busy"]
  <2>2. /\ k \in JobRecord /\ k.pending = NoClip /\ k.worker = "busy" /\ k.inFlight = j.pending
        /\ k.result = j.result
    BY DEF JobRecord, MaybeToken
  <2>3. k = Started(j, ok)
    BY <2>1
  <2> HIDE DEF k
  <2>4. JobSound(k) /\ k.inFlight # NoClip
    BY <1>3, <2>2 DEF JobSound, OfCopy
  <2> QED
    BY <1>3, <2>2, <2>3, <2>4
<1> QED
  BY <1>1, <1>2, <1>3

LEMMA ClipBounds == MaxTransfers \in Nat /\ MaxTotalBytes \in Nat /\ MaxPastes \in Nat
BY ClipboardAssumption

LEMMA NoHeldFields == NoHeld \in HeldRecord /\ NoHeld.token = NoClip /\ NoHeld.fds = 0 /\ \A j : HasJob(NoHeld, j)
BY ClipBounds DEF NoHeld, HeldRecord, MaybeToken, HasJob

LEMMA ClipCounters ==
  ASSUME ClipTypes
  PROVE  /\ clip.due \in Nat /\ held.fds \in Nat /\ held.fds \in 0 .. MaxTransfers /\ clip.count \in Int
         /\ pasteboard.count \in Nat
<1>1. clip.due \in 0 .. MaxTransfers + 1 /\ held.fds \in 0 .. MaxTransfers
  BY DEF ClipTypes, ClipRecord, HeldRecord
<1>2. clip.count \in Int /\ pasteboard.count \in Nat
  BY DEF ClipTypes, ClipRecord, PasteboardRecord
<1> QED
  BY <1>1, <1>2, ClipBounds

\* What a poll receives: the completion of the conversion in flight, which is then over.
LEMMA PollReceives ==
  ASSUME imageJob \in JobRecord, JobSound(imageJob), Finished(imageJob)
  PROVE  LET j == Received(imageJob)
             done == Completion(imageJob)
         IN  /\ j \in JobRecord /\ JobSound(j) /\ j.pending = imageJob.pending /\ j.inFlight = NoClip
             /\ imageJob.inFlight # NoClip /\ imageJob.inFlight \in Tokens /\ done.token = imageJob.inFlight
             /\ done.image \in {NoClip, imageJob.inFlight.count} /\ done.image \in ClipImages
<1> DEFINE worker == IF imageJob.result = NoClip THEN "none" ELSE imageJob.worker
           k == [imageJob EXCEPT !.inFlight = NoClip, !.result = NoClip, !.worker = worker]
           done == Completion(imageJob)
<1>1. /\ imageJob.inFlight # NoClip /\ imageJob.inFlight \in Tokens /\ done.token = imageJob.inFlight
      /\ done.image \in {NoClip, imageJob.inFlight.count} /\ done.image \in ClipImages
  BY DEF Finished, Completion, JobSound, JobRecord, MaybeToken, ClipImages, Tokens
<1>2. worker \in {"none", "idle", "dead"}
  BY DEF JobSound, JobRecord
<1>3. Received(imageJob) = k
  BY DEF Received
<1> HIDE DEF worker, done
<1>4. /\ k \in JobRecord /\ k.pending = imageJob.pending /\ k.inFlight = NoClip /\ k.result = NoClip
      /\ k.worker = worker
  BY <1>2 DEF JobRecord, MaybeToken
<1> HIDE DEF k
<1>5. JobSound(k)
  BY <1>2, <1>4 DEF JobSound, OfCopy
<1> QED
  BY <1>1, <1>3, <1>4, <1>5 DEF done

\* poll_host_clipboard_results, up to the descriptors it took.
LEMMA PollResultsKeeps ==
  ASSUME ClipTypes, ClipKept, PollResults
  PROVE  /\ ClipTypes' /\ ClipKept' /\ clip'.pc # "reserve"
         /\ clip'.pc = "deliver" => clip'.due >= 1
         /\ held'.fds + clip'.due <= held.fds + clip.due
<1>t. /\ clip \in ClipRecord /\ imageJob \in JobRecord /\ held \in HeldRecord /\ pasteboard \in PasteboardRecord
      /\ clip.due \in Nat /\ held.fds \in 0 .. MaxTransfers /\ MaxTransfers \in Nat /\ held.token \in MaybeToken
      /\ pasteboard.count \in Nat /\ clip.count \in Int
  BY ClipCounters, ClipBounds DEF ClipTypes, HeldRecord
<1>k. /\ Coherent(clip) /\ JobSound(imageJob) /\ HasJob(held, imageJob) /\ InstallKept(clip, imageJob)
  BY DEF ClipKept
<1>p. clip.pc \in {"poll", "idle"} /\ UNCHANGED <<pasteboard, guest>>
  BY DEF PollResults
<1>1. CASE ~HasImageWork(imageJob)
  <2>1. clip' = [clip EXCEPT !.pc = "idle"] /\ held' = held /\ imageJob' = imageJob
    BY <1>1 DEF PollResults, HasImageWork, Finished
  <2>2. /\ clip' \in ClipRecord /\ clip'.pc = "idle" /\ clip'.count = clip.count /\ clip'.text = clip.text
        /\ clip'.image = clip.image /\ clip'.due = clip.due /\ clip'.unconfirmed = clip.unconfirmed
    BY <1>t, <2>1 DEF ClipRecord, ClipPlaces
  <2>3. Coherent(clip)' /\ InstallKept(clip, imageJob)' /\ HeldKept(clip, held)'
    BY <1>p, <1>k, <2>1, <2>2 DEF Coherent, Shown, GuestsOwn, InstallKept, HeldKept, JobsBefore
  <2> QED
    BY <1>p, <1>t, <2>1, <2>2, <2>3 DEF ClipTypes, ClipKept, JobSound, OfCopy, HasJob
<1>2. CASE HasImageWork(imageJob)
  <2> DEFINE h1 == DropStaleRequests(clip, held)
             done == Completion(imageJob)
             got == Finished(imageJob)
             fresh == got /\ IsCurrent(done.token, clip)
             taken == got /\ h1.token = done.token
             h2 == IF taken THEN NoHeld ELSE h1
             c1 == IF fresh THEN [clip EXCEPT !.image = done.image] ELSE clip
             c2 == IF fresh /\ done.image = NoClip THEN Publish(c1, h2) ELSE c1
             n == IF fresh /\ done.image # NoClip /\ taken THEN h1.fds ELSE 0
             rest == IF n > 0 THEN "deliver" ELSE IF imageJob.pending # NoClip THEN "start" ELSE "idle"
             live == IF rest = "idle" THEN NoClip ELSE pasteboard.count
             arg == IF n > 0 THEN "image" ELSE c2.arg
             j == IF got THEN Received(imageJob) ELSE imageJob
  <2>1. /\ imageJob' = j /\ held' = h2
        /\ clip' = [c2 EXCEPT !.pc = rest, !.due = n, !.arg = arg, !.live = live]
    BY <1>2 DEF PollResults
  <2>2. /\ h1 \in HeldRecord /\ HasJob(h1, imageJob) /\ h1.fds \in 0 .. held.fds /\ h1.fds \in 0 .. MaxTransfers
        /\ h1.token # NoClip => IsCurrent(h1.token, clip)
    BY <1>t, <1>k, NoHeldFields DEF DropStaleRequests, HasJob
  <2>3. got => /\ imageJob.inFlight # NoClip /\ imageJob.inFlight \in Tokens /\ done.token = imageJob.inFlight
               /\ done.image \in {NoClip, imageJob.inFlight.count} /\ done.image \in ClipImages
    BY <1>t, <1>k, PollReceives
  <2>4. /\ j \in JobRecord /\ JobSound(j) /\ j.pending = imageJob.pending
        /\ j.inFlight = IF got THEN NoClip ELSE imageJob.inFlight
    <3>1. CASE got
      BY <1>t, <1>k, <3>1, PollReceives
    <3>2. CASE ~got
      BY <1>t, <1>k, <3>2
    <3> QED
      BY <3>1, <3>2
  <2> HIDE DEF h1, got, done, j
  <2>5. /\ h2 \in HeldRecord /\ HasJob(h2, j) /\ (h2.token # NoClip => IsCurrent(h2.token, clip))
        /\ n \in 0 .. MaxTransfers + 1 /\ h2.fds + n <= held.fds /\ h2.fds \in Nat
    <3>1. CASE taken
      BY <1>t, <2>2, <2>4, <3>1, NoHeldFields
    <3>2. CASE ~taken
      BY <1>t, <2>2, <2>3, <2>4, <3>2 DEF HasJob
    <3> QED
      BY <3>1, <3>2
  <2>6. /\ c1 \in ClipRecord /\ c1.pc = clip.pc /\ c1.count = clip.count /\ c1.text = clip.text
        /\ c1.generation = clip.generation /\ (c1.image = clip.image \/ (fresh /\ c1.image = done.image))
        /\ c1.unconfirmed = clip.unconfirmed
    BY <1>t, <2>3 DEF ClipRecord
  <2>7. Coherent(c1)
    <3>1. CASE c1.image = clip.image
      BY <1>k, <2>6, <3>1 DEF Coherent, Shown, GuestsOwn
    <3>2. CASE fresh /\ c1.image = done.image
      <4>1. OfCopy(imageJob.inFlight) /\ imageJob.inFlight.count = pasteboard.count /\ imageJob.inFlight.count = clip.count
        BY <1>k, <2>3, <3>2 DEF IsCurrent, IsCurrentAt, JobSound
      <4>2. pasteboard.form = "tiff" /\ pasteboard.image = imageJob.inFlight.count
        BY <2>3, <3>2, <4>1 DEF OfCopy
      <4>3. ~clip.unconfirmed
        BY <1>t, <1>k, <2>3, <3>2, <4>1 DEF InstallKept, JobsBefore
      <4>4. Shown(clip) /\ clip.count <= pasteboard.count
        BY <1>k, <4>1, <4>3 DEF Coherent
      <4> QED
        BY <2>3, <2>6, <3>2, <4>2, <4>4 DEF Coherent, Shown
    <3> QED
      BY <2>6, <3>1, <3>2
  <2> HIDE DEF h2, c1, fresh, taken
  <2>8. /\ c2 \in ClipRecord /\ c2.pc = clip.pc /\ c2.count = clip.count /\ c2.generation = clip.generation
        /\ c2.text = c1.text /\ c2.image = c1.image /\ c2.unconfirmed = clip.unconfirmed
    BY <2>6, PublishFields
  <2> HIDE DEF c2, n
  <2>9. /\ rest \in {"deliver", "start", "idle"} /\ (rest = "deliver" <=> n > 0)
        /\ live \in Nat \union {NoClip} /\ arg \in ClipArgs /\ (rest # "idle" => live = pasteboard.count)
    BY <1>t, <2>8 DEF ClipArgs, ClipRecord
  <2> HIDE DEF rest, live, arg
  <2>10. /\ clip' \in ClipRecord /\ clip'.pc = rest /\ clip'.due = n /\ clip'.live = live
         /\ clip'.count = clip.count /\ clip'.generation = clip.generation
         /\ clip'.text = c1.text /\ clip'.image = c1.image /\ clip'.unconfirmed = clip.unconfirmed
    <3>1. rest \in ClipPlaces
      BY <2>9 DEF ClipPlaces
    <3> QED
      BY <2>1, <2>5, <2>8, <2>9, <3>1 DEF ClipRecord
  <2>11. Coherent(clip)'
    BY <1>p, <2>6, <2>7, <2>10 DEF Coherent, Shown, GuestsOwn
  <2>12. InstallKept(clip, imageJob)'
    BY <1>k, <2>1, <2>4, <2>9, <2>10 DEF InstallKept, JobsBefore
  <2>13. HeldKept(clip, held)'
    BY <2>1, <2>5, <2>9, <2>10 DEF HeldKept, IsCurrent, IsCurrentAt
  <2>14. JobSound(imageJob)' /\ HasJob(held, imageJob)'
    BY <1>p, <2>1, <2>4, <2>5 DEF JobSound, OfCopy, HasJob
  <2>15. held'.fds + clip'.due <= held.fds + clip.due
    BY <1>t, <2>1, <2>5, <2>10
  <2>16. ClipTypes'
    BY <1>p, <1>t, <2>1, <2>4, <2>5, <2>10 DEF ClipTypes
  <2> QED
    <3>1. clip'.pc # "reserve" /\ (clip'.pc = "deliver" => clip'.due >= 1)
      BY <2>5, <2>9, <2>10
    <3>2. ClipKept'
      BY <1>p, <2>11, <2>12, <2>13, <2>14 DEF ClipKept
    <3> QED
      BY <2>15, <2>16, <3>1, <3>2
<1> QED
  BY <1>1, <1>2

\* The pending conversion started by the rest of the poll, or dropped.
LEMMA StartNextImageKeeps ==
  ASSUME ClipTypes, ClipKept, NEW ok \in BOOLEAN, StartNextImage(ok)
  PROVE  /\ ClipTypes' /\ ClipKept' /\ clip'.pc = "idle"
         /\ held'.fds + clip'.due <= held.fds + clip.due
<1> DEFINE stale == imageJob.pending # NoClip /\ ~IsCurrentAt(imageJob.pending, clip, clip.live)
           j == IF stale THEN [imageJob EXCEPT !.pending = NoClip] ELSE imageJob
           unstarted == StartFailed(j, ok)
           k == Started(j, ok)
           h == IF unstarted /\ held.token = j.pending THEN NoHeld ELSE held
           c == IF unstarted THEN Publish(clip, h) ELSE clip
<1>t. /\ clip \in ClipRecord /\ imageJob \in JobRecord /\ held \in HeldRecord
      /\ clip.due \in Nat /\ held.fds \in Nat /\ clip.count \in Int
  BY ClipCounters DEF ClipTypes
<1>k. /\ Coherent(clip) /\ JobSound(imageJob) /\ HasJob(held, imageJob) /\ InstallKept(clip, imageJob)
      /\ HeldKept(clip, held)
  BY DEF ClipKept
<1>1. /\ clip.pc = "start" /\ imageJob' = k /\ held' = h /\ clip' = [c EXCEPT !.pc = "idle", !.live = NoClip]
      /\ UNCHANGED <<pasteboard, guest>>
  BY DEF StartNextImage
<1>2. /\ j \in JobRecord /\ j.inFlight = imageJob.inFlight /\ j.worker = imageJob.worker
      /\ j.result = imageJob.result /\ j.pending = IF stale THEN NoClip ELSE imageJob.pending
  BY <1>t DEF JobRecord, MaybeToken
<1> HIDE DEF j
<1>3. JobSound(j) /\ HasJob(held, j)
  <2>1. JobSound(j)
    BY <1>k, <1>2 DEF JobSound, OfCopy
  <2>2. held.token # NoClip => IsCurrentAt(held.token, clip, clip.live)
    BY <1>k, <1>1 DEF HeldKept
  <2> QED
    BY <1>k, <1>2, <2>1, <2>2 DEF HasJob
<1>4. /\ k \in JobRecord /\ JobSound(k)
      /\ k.inFlight = j.inFlight \/ (j.inFlight = NoClip /\ k.inFlight = j.pending)
      /\ k.pending = j.pending \/ (k.pending = NoClip /\ (unstarted \/ k.inFlight = j.pending))
      /\ unstarted => j.inFlight = NoClip
  <2>1. unstarted => j.inFlight = NoClip
    BY DEF StartFailed
  <2> QED
    BY <1>2, <1>3, <2>1, StartedFields
<1> HIDE DEF k, unstarted, stale
<1>5. h \in HeldRecord /\ HasJob(h, k) /\ h.fds \in 0 .. held.fds
  BY <1>t, <1>3, <1>4, NoHeldFields DEF HasJob
<1> HIDE DEF h
<1>6. /\ c \in ClipRecord /\ c.count = clip.count /\ c.text = clip.text
      /\ c.image = clip.image /\ c.due = clip.due /\ c.unconfirmed = clip.unconfirmed
  BY <1>t, PublishFields
<1> HIDE DEF c
<1>7. /\ clip' \in ClipRecord /\ clip'.pc = "idle" /\ clip'.count = clip.count /\ clip'.text = clip.text
      /\ clip'.image = clip.image /\ clip'.due = clip.due /\ clip'.unconfirmed = clip.unconfirmed
  BY <1>1, <1>6 DEF ClipRecord, ClipPlaces
<1>8. Coherent(clip)' /\ HeldKept(clip, held)'
  BY <1>k, <1>1, <1>7 DEF Coherent, Shown, GuestsOwn, HeldKept
<1>9. InstallKept(clip, imageJob)'
  BY <1>k, <1>1, <1>2, <1>4, <1>7 DEF InstallKept, JobsBefore
<1>10. JobSound(imageJob)' /\ HasJob(held, imageJob)'
  BY <1>1, <1>4, <1>5 DEF JobSound, OfCopy, HasJob
<1>11. held'.fds + clip'.due <= held.fds + clip.due
  BY <1>t, <1>1, <1>5, <1>7
<1> QED
  BY <1>1, <1>4, <1>5, <1>7, <1>8, <1>9, <1>10, <1>11 DEF ClipTypes, ClipKept

\* A snapshot replaces everything, and is followed by a poll.
LEMMA RefreshKeeps ==
  ASSUME ClipTypes, ClipKept, RefreshClipboard
  PROVE  ClipTypes' /\ ClipKept' /\ clip'.pc = "poll" /\ clip'.due = clip.due /\ held'.fds = 0
<1> DEFINE t == Token(clip.generation + 1, pasteboard.count)
           tiff == pasteboard.form = "tiff"
           wanted == IF tiff THEN t ELSE NoClip
           h == [token |-> wanted, fds |-> 0]
           png == IF pasteboard.form = "png" THEN pasteboard.image ELSE NoClip
           generation == clip.generation + 1
           only == pasteboard.form = "none"
           n == pasteboard.count
           text == pasteboard.text
           c == [clip EXCEPT !.generation = generation, !.guestMime = NoClip, !.count = n, !.text = text,
                   !.image = png, !.unconfirmed = FALSE, !.textOnly = only, !.pc = "poll"]
<1>p. /\ n \in Nat /\ n \in Int /\ text \in ClipTexts /\ pasteboard.image \in ClipImages
      /\ clip \in ClipRecord /\ clip.generation \in Nat
  BY DEF ClipTypes, PasteboardRecord, ClipRecord
<1>1. /\ clip' = Publish(c, h) /\ held' = h /\ imageJob' = [imageJob EXCEPT !.pending = wanted]
      /\ UNCHANGED <<pasteboard, guest>>
  BY DEF RefreshClipboard
<1>2. wanted \in MaybeToken /\ OfCopy(wanted)
  <2>1. t \in Tokens /\ t.count = pasteboard.count
    BY <1>p DEF Tokens, Token
  <2> QED
    BY <1>p, <2>1 DEF MaybeToken, OfCopy, ClipKept
<1>3. png \in ClipImages /\ png \in {NoClip, pasteboard.image} /\ (pasteboard.form = "png" => png = pasteboard.image)
  BY <1>p DEF ClipImages
<1>4. generation \in Nat /\ only \in BOOLEAN
  BY <1>p
<1>5. n = pasteboard.count /\ text = pasteboard.text
  OBVIOUS
<1> HIDE DEF t, tiff, wanted, png, generation, only, n, text
<1>6. h \in HeldRecord /\ h.token = wanted /\ h.fds = 0
  BY <1>2, ClipBounds DEF HeldRecord
<1>7. /\ c \in ClipRecord /\ c.pc = "poll" /\ c.count = n /\ c.text = text /\ c.image = png
      /\ c.due = clip.due /\ c.unconfirmed = FALSE
  <2>1. "poll" \in ClipPlaces /\ NoClip \in {NoClip, "text", "image"} /\ FALSE \in BOOLEAN
    BY DEF ClipPlaces
  <2>2. c \in ClipRecord
    BY <1>p, <1>3, <1>4, <2>1 DEF ClipRecord
  <2>3. c.pc = "poll" /\ c.count = n /\ c.due = clip.due
    BY <1>p DEF ClipRecord
  <2>4. c.text = text /\ c.image = png /\ c.unconfirmed = FALSE
    BY <1>p DEF ClipRecord
  <2> QED
    BY <2>2, <2>3, <2>4
<1> HIDE DEF c, h
<1>8. /\ clip' \in ClipRecord /\ clip'.pc = "poll" /\ clip'.count = n /\ clip'.text = text /\ clip'.image = png
      /\ clip'.due = clip.due /\ clip'.unconfirmed = FALSE
  BY <1>1, <1>7, PublishFields
<1>9. /\ imageJob' \in JobRecord /\ imageJob'.pending = wanted /\ imageJob'.inFlight = imageJob.inFlight
      /\ imageJob'.worker = imageJob.worker /\ imageJob'.result = imageJob.result
  BY <1>1, <1>2 DEF ClipTypes, JobRecord
<1>10. Coherent(clip)' /\ InstallKept(clip, imageJob)' /\ HeldKept(clip, held)'
  BY <1>p, <1>1, <1>3, <1>5, <1>8 DEF Coherent, Shown, InstallKept, HeldKept
<1>11. JobSound(imageJob)' /\ HasJob(held, imageJob)'
  BY <1>1, <1>2, <1>6, <1>9 DEF ClipKept, JobSound, OfCopy, HasJob
<1> QED
  BY <1>1, <1>6, <1>8, <1>9, <1>10, <1>11 DEF ClipTypes, ClipKept

LEMMA ClipInitInv == ClipboardInit => ClipInv
<1> SUFFICES ASSUME ClipboardInit PROVE ClipInv
  OBVIOUS
<1>1. ClipTypes
  <2>1. pasteboard \in PasteboardRecord
    BY DEF ClipboardInit, PasteboardRecord, ClipTexts, ClipImages
  <2>2. clip \in ClipRecord
    <3>1. 0 \in 0 .. MaxTransfers + 1
      BY ClipBounds
    <3> QED
      BY <3>1 DEF ClipboardInit, ClipRecord, ClipTexts, ClipImages, ClipPlaces, ClipArgs, MaybeToken
  <2>3. imageJob \in JobRecord
    BY DEF ClipboardInit, JobRecord, MaybeToken
  <2>4. held \in HeldRecord
    BY ClipBounds DEF ClipboardInit, HeldRecord, MaybeToken
  <2> QED
    BY <2>1, <2>2, <2>3, <2>4 DEF ClipboardInit, ClipTypes
<1>2. ClipKept
  BY DEF ClipboardInit, ClipKept, Coherent, JobSound, OfCopy, HasJob, InstallKept, HeldKept
<1>3. PermitTypes
  BY ClipBounds DEF ClipboardInit, PermitTypes, PermitRecord, BudgetRecord, ClipUseRecord
<1>4. PermitsKept
  <2>1. /\ {s \in SenderIds : senders[s].phase # "free"} = {}
        /\ {s \in SenderIds : senders[s].bytes >= 1} = {} /\ {s \in SenderIds : senders[s].bytes >= 2} = {}
    BY DEF ClipboardInit
  <2>2. TransferBudgetBalances
    <3>1. Cardinality({}) = 0
      BY FS_EmptySet
    <3>2. transfer.active = 0 /\ transfer.bytes = 0
      BY DEF ClipboardInit
    <3> QED
      BY <2>1, <3>1, <3>2 DEF TransferBudgetBalances
  <2> QED
    BY <2>2 DEF ClipboardInit, PermitsKept, SlotsAsked
<1> QED
  BY <1>1, <1>2, <1>3, <1>4 DEF ClipInv

\* A later copy leaves nothing of this count: what was cached and asked for is of an older one.
LEMMA CopyOvertakes ==
  ASSUME ClipTypes, ClipKept, UNCHANGED imageJob,
         pasteboard' \in PasteboardRecord, pasteboard'.count = pasteboard.count + 1
  PROVE  /\ JobSound(imageJob)' /\ JobsBefore(imageJob, pasteboard'.count)
         /\ clip.count <= pasteboard'.count /\ clip.count < pasteboard'.count
<1>1. pasteboard.count \in Nat /\ clip.count \in Int /\ clip.count <= pasteboard.count
  BY ClipCounters DEF ClipKept, Coherent
<1>2. ASSUME NEW t \in MaybeToken, OfCopy(t)
      PROVE  OfCopy(t)' /\ (t # NoClip => t.count < pasteboard'.count)
  <2>1. CASE t = NoClip
    BY <2>1 DEF OfCopy
  <2>2. CASE t \in Tokens /\ t # NoClip
    <3>1. t.count \in Int /\ t.count <= pasteboard.count
      BY <1>2, <2>2 DEF OfCopy, Tokens
    <3>2. t.count < pasteboard'.count /\ t.count <= pasteboard'.count /\ t.count # pasteboard'.count
      BY <1>1, <3>1
    <3> QED
      BY <3>2 DEF OfCopy
  <2> QED
    BY <2>1, <2>2 DEF MaybeToken
<1>3. imageJob.pending \in MaybeToken /\ imageJob.inFlight \in MaybeToken
  BY DEF ClipTypes, JobRecord
<1>4. /\ OfCopy(imageJob.pending)' /\ OfCopy(imageJob.inFlight)' /\ JobsBefore(imageJob, pasteboard'.count)
  <2>1. OfCopy(imageJob.pending) /\ OfCopy(imageJob.inFlight)
    BY DEF ClipKept, JobSound
  <2>2. /\ OfCopy(imageJob.pending)' /\ (imageJob.pending # NoClip => imageJob.pending.count < pasteboard'.count)
        /\ OfCopy(imageJob.inFlight)' /\ (imageJob.inFlight # NoClip => imageJob.inFlight.count < pasteboard'.count)
    BY <1>2, <1>3, <2>1 DEF OfCopy
  <2> QED
    BY <2>2 DEF JobsBefore
<1>5. JobSound(imageJob)'
  BY <1>4 DEF ClipKept, JobSound
<1> QED
  BY <1>1, <1>4, <1>5

\* A step that leaves the pasteboard and what is cached of it alone.
LEMMA CacheUntouched ==
  ASSUME ClipTypes, ClipKept, UNCHANGED pasteboard, clip' \in ClipRecord, clip'.count = clip.count,
         clip'.text = clip.text, clip'.image = clip.image, clip'.unconfirmed = clip.unconfirmed
  PROVE  /\ Coherent(clip)' /\ (pasteboard.form = "tiff" => pasteboard.image = pasteboard.count)'
         /\ imageJob' = imageJob => JobSound(imageJob)'
BY DEF ClipKept, Coherent, Shown, GuestsOwn, JobSound, OfCopy

LEMMA ClipUntouched ==
  ASSUME ClipKept, UNCHANGED <<pasteboard, clip, imageJob, held>>
  PROVE  ClipKept'
<1>1. Coherent(clip)' /\ HasJob(held, imageJob)' /\ HeldKept(clip, held)'
  BY DEF ClipKept, Coherent, Shown, GuestsOwn, HasJob, HeldKept, IsCurrentAt
<1>2. JobSound(imageJob)'
  BY DEF ClipKept, JobSound, OfCopy
<1>3. InstallKept(clip, imageJob)'
  BY DEF ClipKept, InstallKept, JobsBefore, Written
<1> QED
  BY <1>1, <1>2, <1>3 DEF ClipKept

\* An installation: checked, written and cached by calls of their own.
LEMMA InstallCheckKeeps ==
  ASSUME ClipTypes, ClipKept, NEW m \in guest, InstallCheck(m)
  PROVE  /\ ClipTypes' /\ ClipKept' /\ clip'.due = clip.due /\ clip'.pc \in {"idle", "clear"}
         /\ held'.fds <= held.fds
<1>1. /\ clip.pc = "idle" /\ guest' \subseteq guest /\ UNCHANGED pasteboard /\ m \in GuestMessages
      /\ \/ imageJob' = [imageJob EXCEPT !.pending = NoClip] /\ held' = NoHeld
         \/ UNCHANGED <<imageJob, held>>
      /\ clip' = clip \/ clip' = [clip EXCEPT !.pc = "clear", !.arg = m]
  BY DEF InstallCheck, ClipTypes
<1>2. /\ clip' \in ClipRecord /\ clip'.count = clip.count /\ clip'.text = clip.text /\ clip'.image = clip.image
      /\ clip'.unconfirmed = clip.unconfirmed /\ clip'.pc \in {"idle", "clear"} /\ clip'.due = clip.due
      /\ clip'.pc = "clear" => clip'.arg \in GuestMessages
  BY <1>1 DEF ClipTypes, ClipRecord, ClipPlaces, ClipArgs
<1>3. /\ imageJob' \in JobRecord /\ imageJob'.inFlight = imageJob.inFlight /\ imageJob'.worker = imageJob.worker
      /\ imageJob'.result = imageJob.result /\ imageJob'.pending \in {NoClip, imageJob.pending}
  BY <1>1 DEF ClipTypes, JobRecord, MaybeToken
<1>4. JobSound(imageJob)' /\ (clip.unconfirmed => JobsBefore(imageJob, clip.count)')
  <2>1. JobSound(imageJob) /\ (clip.unconfirmed => JobsBefore(imageJob, clip.count))
    BY DEF ClipKept, InstallKept
  <2> QED
    BY <1>1, <1>2, <1>3, <2>1 DEF JobSound, OfCopy, JobsBefore
<1>5. InstallKept(clip, imageJob)' /\ HeldKept(clip, held)'
  BY <1>1, <1>2, <1>4 DEF InstallKept, HeldKept, JobsBefore
<1>6. held' \in HeldRecord /\ held'.fds <= held.fds /\ HasJob(held, imageJob)'
  BY <1>1, ClipCounters, NoHeldFields DEF ClipTypes, ClipKept, HasJob
<1>7. ClipTypes'
  BY <1>1, <1>2, <1>3, <1>6 DEF ClipTypes
<1> QED
  BY <1>2, <1>1, <1>4, <1>5, <1>6, <1>7, CacheUntouched DEF ClipKept

LEMMA InstallClearKeeps ==
  ASSUME ClipTypes, ClipKept, InstallClear
  PROVE  ClipTypes' /\ ClipKept' /\ clip'.due = clip.due /\ clip'.pc = "set" /\ held' = held
<1> DEFINE n == pasteboard.count + 1
<1>1. /\ pasteboard' = [count |-> n, text |-> NoClip, image |-> NoClip, form |-> "none"]
      /\ clip' = [clip EXCEPT !.pc = "set", !.live = n] /\ UNCHANGED <<imageJob, held, guest>> /\ clip.pc = "clear"
  BY DEF InstallClear
<1>2. n \in Nat /\ n = pasteboard.count + 1
  BY ClipCounters
<1> HIDE DEF n
<1>3. pasteboard' \in PasteboardRecord /\ pasteboard'.count = n /\ pasteboard'.form = "none"
  BY <1>1, <1>2 DEF PasteboardRecord, ClipTexts, ClipImages
<1>4. /\ clip' \in ClipRecord /\ clip'.pc = "set" /\ clip'.live = n /\ clip'.count = clip.count
      /\ clip'.arg = clip.arg /\ clip'.unconfirmed = clip.unconfirmed /\ clip'.due = clip.due
  BY <1>1, <1>2 DEF ClipTypes, ClipRecord, ClipPlaces
<1>5. JobSound(imageJob)' /\ JobsBefore(imageJob, n) /\ clip.count < n /\ clip.count <= n /\ clip.count # n
  <2>1. JobSound(imageJob)' /\ JobsBefore(imageJob, n) /\ clip.count < n /\ clip.count <= n
    BY <1>1, <1>2, <1>3, CopyOvertakes
  <2> QED
    BY <1>2, <2>1, ClipCounters
<1>6. Coherent(clip)' /\ HeldKept(clip, held)'
  BY <1>3, <1>4, <1>5 DEF Coherent, HeldKept
<1>7. InstallKept(clip, imageJob)'
  <2>1. /\ clip.arg \in GuestMessages /\ (clip.unconfirmed => JobsBefore(imageJob, clip.count))
    BY <1>1 DEF ClipKept, InstallKept
  <2>2. n <= n
    BY <1>2
  <2> QED
    BY <1>1, <1>2, <1>3, <1>4, <1>5, <2>1, <2>2 DEF InstallKept, JobsBefore
<1> QED
  BY <1>1, <1>3, <1>4, <1>5, <1>6, <1>7 DEF ClipTypes, ClipKept, HasJob

LEMMA InstallSetKeeps ==
  ASSUME ClipTypes, ClipKept, NEW ok \in BOOLEAN, InstallSet(ok)
  PROVE  ClipTypes' /\ ClipKept' /\ clip'.due = clip.due /\ clip'.pc \in {"idle", "count"} /\ held' = held
<1> DEFINE m == clip.arg
           text == GuestText(m)
           image == GuestImage(m)
           form == IF m.mime = "image" THEN "png" ELSE "none"
           live == IF ok THEN clip.live ELSE NoClip
<1>1. /\ clip.pc = "set" /\ UNCHANGED <<imageJob, held, guest>> /\ (ok => pasteboard.count = clip.live)
      /\ pasteboard' = IF ok THEN [pasteboard EXCEPT !.text = text, !.image = image, !.form = form] ELSE pasteboard
      /\ \/ ~ok /\ clip' = [clip EXCEPT !.pc = "idle", !.arg = NoClip, !.live = NoClip]
         \/ clip' = [clip EXCEPT !.pc = "count", !.live = live]
  BY DEF InstallSet
<1>2. /\ m \in GuestMessages /\ clip.live \in Nat /\ clip.live <= pasteboard.count /\ clip.count < pasteboard.count
      /\ JobsBefore(imageJob, pasteboard.count) /\ (clip.unconfirmed => JobsBefore(imageJob, clip.count))
      /\ JobSound(imageJob)
  BY <1>1 DEF ClipKept, InstallKept
<1>3. text \in ClipTexts /\ image \in ClipImages /\ form \in {"png", "none"} /\ live \in Nat \union {NoClip}
      /\ (live # NoClip => ok /\ live = clip.live)
  BY <1>2 DEF GuestText, GuestImage, ClipTexts, ClipImages
<1> HIDE DEF form, live
<1>4. /\ pasteboard' \in PasteboardRecord /\ pasteboard'.count = pasteboard.count
      /\ ok => pasteboard'.text = GuestText(m) /\ pasteboard'.image = GuestImage(m) /\ pasteboard'.form # "tiff"
      /\ ~ok => pasteboard' = pasteboard
  BY <1>1, <1>3 DEF ClipTypes, PasteboardRecord
<1>5. /\ clip' \in ClipRecord /\ clip'.count = clip.count /\ clip'.unconfirmed = clip.unconfirmed
      /\ clip'.due = clip.due /\ clip'.pc \in {"idle", "count"}
      /\ clip'.pc = "count" => clip'.arg = m /\ clip'.live = live
  BY <1>1, <1>3 DEF ClipTypes, ClipRecord, ClipPlaces, ClipArgs
<1>6. JobSound(imageJob)'
  <2>1. \A t : OfCopy(t) /\ (t # NoClip => t.count < pasteboard.count) /\ t \in MaybeToken => OfCopy(t)'
    <3>1. \A t \in Tokens : t.count < pasteboard.count => t.count # pasteboard.count
      BY ClipCounters DEF Tokens
    <3> QED
      BY <1>4, <3>1 DEF OfCopy, MaybeToken
  <2>2. imageJob.pending \in MaybeToken /\ imageJob.inFlight \in MaybeToken
    BY DEF ClipTypes, JobRecord
  <2>3. OfCopy(imageJob.pending)' /\ OfCopy(imageJob.inFlight)'
    BY <1>1, <1>2, <2>1, <2>2 DEF JobSound, JobsBefore, OfCopy
  <2> QED
    BY <1>1, <1>2, <2>3 DEF JobSound
<1>7. Coherent(clip)' /\ HeldKept(clip, held)'
  <2>1. clip.count <= pasteboard.count /\ clip.count # pasteboard.count
    BY <1>2, ClipCounters
  <2> QED
    BY <1>4, <1>5, <2>1 DEF Coherent, HeldKept
<1>8. InstallKept(clip, imageJob)'
  BY <1>1, <1>2, <1>3, <1>4, <1>5 DEF InstallKept, JobsBefore, Written
<1>9. (pasteboard.form = "tiff" => pasteboard.image = pasteboard.count)'
  BY <1>4 DEF ClipKept
<1> QED
  BY <1>1, <1>4, <1>5, <1>6, <1>7, <1>8, <1>9 DEF ClipTypes, ClipKept, HasJob

LEMMA InstallCountKeeps ==
  ASSUME ClipTypes, ClipKept, InstallCount
  PROVE  ClipTypes' /\ ClipKept' /\ clip'.due = clip.due /\ clip'.pc = "idle" /\ held' = held
<1> DEFINE m == clip.arg
           n == pasteboard.count
           text == GuestText(m)
           image == GuestImage(m)
           only == m.mime = "text"
           doubt == clip.live # n
           offer == Token(m.token.generation, n)
<1>1. /\ clip.pc = "count" /\ UNCHANGED <<pasteboard, imageJob, held, guest>>
      /\ clip' = [clip EXCEPT !.pc = "idle", !.arg = NoClip, !.live = NoClip, !.count = n, !.text = text,
                     !.image = image, !.textOnly = only, !.unconfirmed = doubt, !.offer = offer]
  BY DEF InstallCount
<1>2. n \in Nat /\ n \in Int /\ n = pasteboard.count
  BY ClipCounters
<1>3. /\ m \in GuestMessages /\ JobsBefore(imageJob, n)
      /\ ~doubt => pasteboard.text = text /\ pasteboard.image = image
  <2>1. m \in GuestMessages /\ JobsBefore(imageJob, n)
    BY <1>1 DEF ClipKept, InstallKept
  <2>2. ~doubt => clip.live # NoClip /\ clip.live = pasteboard.count
    BY <1>2, ClipboardAssumption
  <2> QED
    BY <1>1, <2>1, <2>2 DEF ClipKept, InstallKept, Written
<1>4. /\ text \in ClipTexts /\ image \in ClipImages /\ only \in BOOLEAN /\ doubt \in BOOLEAN /\ offer \in MaybeToken
      /\ (text = "guest text" /\ image = NoClip) \/ (text = NoClip /\ image = 0)
  <2>1. m.mime \in {"text", "image"}
    BY <1>3 DEF GuestMessages
  <2>2. /\ text \in ClipTexts /\ image \in ClipImages
        /\ (text = "guest text" /\ image = NoClip) \/ (text = NoClip /\ image = 0)
    <3>1. CASE m.mime = "text"
      BY <3>1 DEF GuestText, GuestImage, ClipTexts, ClipImages
    <3>2. CASE m.mime = "image"
      <4>1. text = NoClip /\ image = 0
        BY <3>2 DEF GuestText, GuestImage
      <4> QED
        BY <4>1 DEF ClipTexts, ClipImages
    <3> QED
      BY <2>1, <3>1, <3>2
  <2>3. offer \in MaybeToken
    BY <1>2, <1>3 DEF Token, MaybeToken, Tokens, GuestMessages
  <2>4. only \in BOOLEAN /\ doubt \in BOOLEAN
    OBVIOUS
  <2> QED
    BY <2>2, <2>3, <2>4
<1> HIDE DEF m, n, text, image, only, doubt, offer
<1>5. /\ clip' \in ClipRecord /\ clip'.pc = "idle" /\ clip'.count = n /\ clip'.text = text
      /\ clip'.image = image /\ clip'.unconfirmed = doubt /\ clip'.due = clip.due
  <2>1. "idle" \in ClipPlaces /\ NoClip \in ClipArgs /\ NoClip \in Nat \union {NoClip}
    BY DEF ClipPlaces, ClipArgs
  <2>2. clip \in ClipRecord
    BY DEF ClipTypes
  <2>3. clip' \in ClipRecord
    BY <1>1, <1>2, <1>4, <2>1, <2>2 DEF ClipRecord
  <2>4. clip'.pc = "idle" /\ clip'.count = n /\ clip'.text = text
    BY <1>1, <2>2 DEF ClipRecord
  <2>5. clip'.image = image /\ clip'.unconfirmed = doubt /\ clip'.due = clip.due
    BY <1>1, <2>2 DEF ClipRecord
  <2> QED
    BY <2>3, <2>4, <2>5
<1>6. Coherent(clip)'
  <2>1. clip'.count = pasteboard'.count /\ clip'.count <= pasteboard'.count
    BY <1>1, <1>2, <1>5
  <2>2. doubt => GuestsOwn(clip)'
    BY <1>4, <1>5 DEF GuestsOwn
  <2>3. ~doubt => Shown(clip)'
    BY <1>1, <1>3, <1>5 DEF Shown
  <2> QED
    BY <1>4, <1>5, <2>1, <2>2, <2>3 DEF Coherent
<1>7. InstallKept(clip, imageJob)' /\ HeldKept(clip, held)'
  BY <1>1, <1>2, <1>3, <1>5 DEF InstallKept, JobsBefore, HeldKept
<1> QED
  BY <1>1, <1>5, <1>6, <1>7 DEF ClipTypes, ClipKept, JobSound, OfCopy, HasJob

\* send_host_clipboard_payload for one descriptor.
LEMMA HandedFields ==
  ASSUME NEW c \in ClipRecord
  PROVE  LET d == Handed(c)
         IN  /\ d \in ClipRecord /\ d.count = c.count /\ d.text = c.text /\ d.image = c.image
             /\ d.generation = c.generation /\ d.live = c.live /\ d.unconfirmed = c.unconfirmed
             /\ IF c.due > 1 THEN d.due = c.due - 1 /\ d.pc = c.pc
                ELSE d.due = 0 /\ d.pc = IF c.pc = "deliver" THEN "start" ELSE "idle"
<1> DEFINE rest == IF c.pc = "deliver" THEN "start" ELSE "idle"
           due == c.due - 1
<1>1. c.due \in 0 .. MaxTransfers + 1 /\ 0 \in 0 .. MaxTransfers + 1 /\ (c.due > 1 => due \in 0 .. MaxTransfers + 1)
  BY ClipBounds DEF ClipRecord
<1>2. rest \in ClipPlaces /\ NoClip \in ClipArgs
  BY DEF ClipPlaces, ClipArgs
<1>3. Handed(c) = IF c.due > 1 THEN [c EXCEPT !.due = due]
                  ELSE [c EXCEPT !.due = 0, !.arg = NoClip, !.pc = rest]
  BY DEF Handed
<1> HIDE DEF due, rest
<1>4. CASE c.due > 1
  <2>1. Handed(c) = [c EXCEPT !.due = due]
    BY <1>3, <1>4
  <2>2. LET d == [c EXCEPT !.due = due]
        IN  /\ d \in ClipRecord /\ d.count = c.count /\ d.text = c.text /\ d.image = c.image
            /\ d.generation = c.generation /\ d.live = c.live /\ d.unconfirmed = c.unconfirmed
            /\ d.due = due /\ d.pc = c.pc
    BY <1>1, <1>4 DEF ClipRecord
  <2> QED
    BY <1>4, <2>1, <2>2 DEF due
<1>5. CASE ~(c.due > 1)
  <2>1. Handed(c) = [c EXCEPT !.due = 0, !.arg = NoClip, !.pc = rest]
    BY <1>3, <1>5
  <2>2. LET d == [c EXCEPT !.due = 0, !.arg = NoClip, !.pc = rest]
        IN  /\ d \in ClipRecord /\ d.count = c.count /\ d.text = c.text /\ d.image = c.image
            /\ d.generation = c.generation /\ d.live = c.live /\ d.unconfirmed = c.unconfirmed
            /\ d.due = 0 /\ d.pc = rest
    BY <1>1, <1>2 DEF ClipRecord
  <2> QED
    BY <1>5, <2>1, <2>2 DEF rest
<1> QED
  BY <1>4, <1>5

\* The steps of the pasteboard, the conversion and the selections.
LEMMA ClipKeptStep ==
  ASSUME ClipInv, ClipboardNext
  PROVE  ClipTypes' /\ ClipKept'
<1> USE DEF ClipInv
<1>c. clip.count \in Int /\ clip.generation \in Nat /\ clip \in ClipRecord /\ pasteboard.count \in Nat
  BY DEF ClipTypes, ClipRecord, PasteboardRecord
\* Another application's copy.
<1>1. ASSUME NEW copy \in HostContents, HostCopies(copy)
      PROVE  ClipTypes' /\ ClipKept'
  <2> DEFINE n == pasteboard.count + 1
             image == IF copy.form = "none" THEN NoClip ELSE n
  <2>1. /\ pasteboard' = [count |-> n, text |-> copy.text, form |-> copy.form, image |-> image]
        /\ UNCHANGED <<clip, imageJob, held, guest>>
    BY <1>1 DEF HostCopies
  <2>2. n \in Nat /\ n = pasteboard.count + 1 /\ image \in ClipImages /\ (copy.form = "tiff" => image = n)
    BY <1>c DEF ClipImages
  <2>3. copy.form \in {"none", "png", "tiff", "bad"} /\ copy.text \in ClipTexts
    BY ClipboardAssumption DEF ClipTexts
  <2> HIDE DEF n, image
  <2>4. /\ pasteboard' \in PasteboardRecord /\ pasteboard'.count = n
        /\ (pasteboard.form = "tiff" => pasteboard.image = pasteboard.count)'
    BY <2>1, <2>2, <2>3 DEF PasteboardRecord
  <2>5. JobSound(imageJob)' /\ JobsBefore(imageJob, n) /\ clip.count <= n /\ clip.count < n
    BY <2>1, <2>2, <2>4, CopyOvertakes
  <2>6. Coherent(clip)' /\ HasJob(held, imageJob)' /\ HeldKept(clip, held)'
    <3>1. clip.count # n
      BY <1>c, <2>2, <2>5
    <3> QED
      BY <2>1, <2>4, <2>5, <3>1 DEF ClipKept, Coherent, HasJob, HeldKept, IsCurrentAt
  <2>7. InstallKept(clip, imageJob)'
    <3>1. \A k \in Nat : k <= pasteboard.count => k <= n /\ k # n
      BY <1>c, <2>2
    <3>2. clip.live # NoClip => clip.live \in Nat
      BY <1>c DEF ClipRecord
    <3>3. InstallKept(clip, imageJob)
      BY DEF ClipKept
    <3> QED
      BY <2>1, <2>4, <2>5, <3>1, <3>2, <3>3 DEF InstallKept, JobsBefore
  <2> QED
    BY <2>1, <2>4, <2>5, <2>6, <2>7 DEF ClipTypes, ClipKept
<1>2. CASE PollResults
  BY <1>2, PollResultsKeeps
<1>3. ASSUME NEW ok \in BOOLEAN, StartNextImage(ok)
      PROVE  ClipTypes' /\ ClipKept'
  BY <1>3, StartNextImageKeeps
<1>4. CASE RefreshClipboard
  BY <1>4, RefreshKeeps
\* The conversion thread.
<1>5. ASSUME NEW ok \in BOOLEAN, ConvertImage(ok)
      PROVE  ClipTypes' /\ ClipKept'
  <2> DEFINE image == IF ok THEN imageJob.inFlight.count ELSE NoClip
             result == [token |-> imageJob.inFlight, image |-> image]
  <2>1. /\ imageJob.worker = "busy" /\ imageJob.result = NoClip /\ UNCHANGED <<pasteboard, clip, held, guest>>
        /\ imageJob' = [imageJob EXCEPT !.worker = "idle", !.result = result]
    BY <1>5 DEF ConvertImage
  <2>2. imageJob.inFlight \in Tokens /\ imageJob.inFlight # NoClip
    BY <2>1 DEF ClipTypes, ClipKept, JobSound, JobRecord, MaybeToken
  <2>3. image \in {NoClip, imageJob.inFlight.count} /\ image \in ClipImages
    BY <2>2 DEF ClipImages, Tokens
  <2> HIDE DEF image
  <2>4. result \in ImageResults /\ result.token = imageJob.inFlight /\ result.image = image
    BY <2>2, <2>3 DEF ImageResults
  <2> HIDE DEF result
  <2>5. /\ imageJob' \in JobRecord /\ imageJob'.pending = imageJob.pending /\ imageJob'.inFlight = imageJob.inFlight
        /\ imageJob'.worker = "idle" /\ imageJob'.result = result
    BY <2>1, <2>4 DEF ClipTypes, JobRecord
  <2>6. JobSound(imageJob)' /\ HasJob(held, imageJob)' /\ InstallKept(clip, imageJob)'
    BY <2>1, <2>2, <2>3, <2>4, <2>5
       DEF ClipKept, JobSound, OfCopy, HasJob, InstallKept, JobsBefore, Written
  <2> QED
    BY <2>1, <2>5, <2>6 DEF ClipTypes, ClipKept, Coherent, Shown, GuestsOwn, HeldKept, IsCurrentAt
<1>6. CASE ImageWorkerDies
  <2>1. /\ imageJob.worker = "busy" /\ UNCHANGED <<pasteboard, clip, held, guest>>
        /\ imageJob' = [imageJob EXCEPT !.worker = "dead"]
    BY <1>6 DEF ImageWorkerDies
  <2>2. /\ imageJob' \in JobRecord /\ imageJob'.pending = imageJob.pending /\ imageJob'.inFlight = imageJob.inFlight
        /\ imageJob'.worker = "dead" /\ imageJob'.result = imageJob.result
    BY <2>1 DEF ClipTypes, JobRecord
  <2>3. JobSound(imageJob)' /\ HasJob(held, imageJob)' /\ InstallKept(clip, imageJob)'
    BY <2>1, <2>2 DEF ClipKept, JobSound, OfCopy, HasJob, InstallKept, JobsBefore, Written
  <2> QED
    BY <2>1, <2>2, <2>3 DEF ClipTypes, ClipKept, Coherent, Shown, GuestsOwn, HeldKept, IsCurrentAt
\* A guest selection: made, read, checked and written.
<1>7. ASSUME NEW mime \in {NoClip, "text", "image"}, NewSelection(mime)
      PROVE  ClipTypes' /\ ClipKept'
  <2> DEFINE generation == clip.generation + 1
  <2>1. /\ imageJob' = [imageJob EXCEPT !.pending = NoClip] /\ held' = NoHeld /\ UNCHANGED <<pasteboard, guest>>
        /\ clip' = [clip EXCEPT !.generation = generation, !.guestMime = mime, !.offer = NoClip] /\ clip.pc = "idle"
    BY <1>7 DEF NewSelection
  <2>2. generation \in Nat /\ NoClip \in MaybeToken
    BY <1>c DEF MaybeToken
  <2> HIDE DEF generation
  <2>3. /\ clip' \in ClipRecord /\ clip'.pc = "idle" /\ clip'.count = clip.count /\ clip'.text = clip.text
        /\ clip'.image = clip.image /\ clip'.unconfirmed = clip.unconfirmed
    BY <1>c, <2>1, <2>2 DEF ClipRecord
  <2>4. /\ imageJob' \in JobRecord /\ imageJob'.pending = NoClip /\ imageJob'.inFlight = imageJob.inFlight
        /\ imageJob'.worker = imageJob.worker /\ imageJob'.result = imageJob.result
    BY <2>1, <2>2 DEF ClipTypes, JobRecord
  <2>5. JobSound(imageJob)' /\ InstallKept(clip, imageJob)' /\ HeldKept(clip, held)'
    BY <2>1, <2>3, <2>4 DEF ClipKept, JobSound, OfCopy, InstallKept, JobsBefore, HeldKept
  <2>6. Coherent(clip)' /\ (pasteboard.form = "tiff" => pasteboard.image = pasteboard.count)'
    BY <2>1, <2>3, CacheUntouched
  <2> QED
    BY <2>1, <2>3, <2>4, <2>5, <2>6, NoHeldFields DEF ClipTypes, ClipKept
<1>8. ASSUME NEW ok \in BOOLEAN, RequestGuest(ok)
      PROVE  ClipTypes' /\ ClipKept'
  <2> DEFINE m == [at |-> "reading", mime |-> clip.guestMime, token |-> Token(clip.generation, pasteboard.count)]
  <2>1. /\ clip' = [clip EXCEPT !.guestMime = NoClip] /\ clip.pc = "idle" /\ clip.guestMime # NoClip
        /\ guest' \in {guest, guest \union {m}} /\ UNCHANGED <<pasteboard, imageJob, held>>
    BY <1>8 DEF RequestGuest
  <2>2. m \in GuestMessages
    <3>1. clip.guestMime \in {"text", "image"} /\ pasteboard.count \in Int
      BY <1>c, <2>1 DEF ClipRecord
    <3> QED
      BY <1>c, <3>1 DEF GuestMessages, Tokens, Token
  <2> HIDE DEF m
  <2>3. guest' \subseteq GuestMessages
    BY <2>1, <2>2 DEF ClipTypes
  <2>4. /\ clip' \in ClipRecord /\ clip'.pc = "idle" /\ clip'.count = clip.count /\ clip'.text = clip.text
        /\ clip'.image = clip.image /\ clip'.unconfirmed = clip.unconfirmed
    BY <1>c, <2>1 DEF ClipRecord
  <2>5. InstallKept(clip, imageJob)' /\ HeldKept(clip, held)' /\ HasJob(held, imageJob)'
    BY <2>1, <2>4 DEF ClipKept, InstallKept, JobsBefore, HeldKept, HasJob
  <2> QED
    BY <2>1, <2>3, <2>4, <2>5, CacheUntouched DEF ClipTypes, ClipKept
<1>9. ASSUME NEW ok \in BOOLEAN, NEW g \in guest, GuestReaderEnds(g, ok)
      PROVE  ClipTypes' /\ ClipKept'
  <2>1. UNCHANGED <<pasteboard, clip, imageJob, held>> /\ guest' \subseteq guest \union {[g EXCEPT !.at = "sent"]}
    BY <1>9 DEF GuestReaderEnds
  <2>2. [g EXCEPT !.at = "sent"] \in GuestMessages
    BY DEF ClipTypes, GuestMessages
  <2>3. ClipTypes'
    BY <2>1, <2>2 DEF ClipTypes
  <2> QED
    BY <2>1, <2>3, ClipUntouched
<1>10. ASSUME NEW m \in guest, InstallCheck(m)
       PROVE  ClipTypes' /\ ClipKept'
  BY <1>10, InstallCheckKeeps
<1>11. ASSUME NEW ok \in BOOLEAN, InstallSet(ok)
       PROVE  ClipTypes' /\ ClipKept'
  BY <1>11, InstallSetKeeps
<1>12. CASE InstallClear \/ InstallCount
  BY <1>12, InstallClearKeeps, InstallCountKeeps
\* Pastes, and the slots and bytes they take.
<1>13. ASSUME NEW mime \in {"text", "image"}, Pastes(mime)
       PROVE  ClipTypes' /\ ClipKept'
  <2>1. /\ clip.pc = "idle" /\ UNCHANGED <<pasteboard, imageJob, guest>>
        /\ held' = held \/ (held.fds < MaxTransfers /\ held' = [held EXCEPT !.fds = @ + 1])
        /\ clip' = clip \/ clip' = [clip EXCEPT !.pc = "reserve", !.arg = mime, !.due = 1]
    BY <1>13 DEF Pastes
  <2>2. "reserve" \in ClipPlaces /\ mime \in ClipArgs /\ 1 \in 0 .. MaxTransfers + 1
    BY ClipBounds DEF ClipPlaces, ClipArgs
  <2>3. /\ clip' \in ClipRecord /\ clip'.count = clip.count /\ clip'.text = clip.text /\ clip'.image = clip.image
        /\ clip'.pc \in {"idle", "reserve"} /\ clip'.unconfirmed = clip.unconfirmed
    BY <1>c, <2>1, <2>2 DEF ClipRecord
  <2>4. held' \in HeldRecord /\ held'.token = held.token
    <3>1. held.fds < MaxTransfers => held.fds + 1 \in 0 .. MaxTransfers
      BY ClipCounters, ClipBounds
    <3> QED
      BY <2>1, <3>1 DEF ClipTypes, HeldRecord
  <2>5. InstallKept(clip, imageJob)' /\ HeldKept(clip, held)' /\ HasJob(held, imageJob)'
    BY <2>1, <2>3, <2>4 DEF ClipKept, InstallKept, JobsBefore, HeldKept, HasJob
  <2> QED
    BY <2>1, <2>3, <2>4, <2>5, CacheUntouched DEF ClipTypes, ClipKept
<1>14. CASE ReserveSlot \/ \E s \in SenderIds : ReserveBytes(s)
  <2>1. UNCHANGED <<pasteboard, imageJob, held, guest>> /\ clip.pc \in {"reserve", "deliver"}
        /\ (clip' = clip \/ clip' = Handed(clip))
    BY <1>14 DEF ReserveSlot, ReserveBytes
  <2>2. /\ clip' \in ClipRecord /\ clip'.count = clip.count /\ clip'.text = clip.text /\ clip'.image = clip.image
        /\ clip'.unconfirmed = clip.unconfirmed /\ clip'.generation = clip.generation /\ clip'.live = clip.live
        /\ clip'.pc = clip.pc \/ clip'.pc = IF clip.pc = "deliver" THEN "start" ELSE "idle"
    BY <1>c, <2>1, HandedFields
  <2>3. InstallKept(clip, imageJob)' /\ HasJob(held, imageJob)'
    BY <2>1, <2>2 DEF ClipKept, InstallKept, JobsBefore, HasJob
  <2>4. HeldKept(clip, held)'
    BY <2>1, <2>2 DEF ClipKept, HeldKept, IsCurrentAt
  <2> QED
    BY <2>1, <2>2, <2>3, <2>4, CacheUntouched DEF ClipTypes, ClipKept
<1>15. CASE \E s \in SenderIds : DropPermitBytes(s) \/ DropPermitSlot(s)
  <2>1. UNCHANGED <<pasteboard, imageJob, held, guest, clip>>
    BY <1>15 DEF DropPermitBytes, DropPermitSlot
  <2> QED
    BY <2>1, ClipUntouched DEF ClipTypes
<1> QED
  BY <1>1, <1>2, <1>3, <1>4, <1>5, <1>6, <1>7, <1>8, <1>9, <1>10, <1>11, <1>12, <1>13, <1>14, <1>15
     DEF ClipboardNext

\* Two subsets that agree but for one element.
LEMMA MovedElement ==
  ASSUME NEW S, IsFiniteSet(S), NEW s \in S, NEW P, P \subseteq S, NEW Q, Q \subseteq S,
         \A t \in S : t # s => (t \in P <=> t \in Q)
  PROVE  /\ Cardinality(P) \in Nat /\ Cardinality(Q) \in Nat
         /\ s \in P /\ s \in Q => Cardinality(Q) = Cardinality(P)
         /\ s \notin P /\ s \notin Q => Cardinality(Q) = Cardinality(P)
         /\ s \in P /\ s \notin Q => Cardinality(Q) = Cardinality(P) - 1
         /\ s \notin P /\ s \in Q => Cardinality(Q) = Cardinality(P) + 1
<1>1. IsFiniteSet(P) /\ IsFiniteSet(Q)
  BY FS_Subset
<1>2. Cardinality(P) \in Nat /\ Cardinality(Q) \in Nat
  BY <1>1, FS_CardinalityType
<1>3. (s \in P <=> s \in Q) => Q = P
  OBVIOUS
<1>4. s \in P /\ s \notin Q => Q = P \ {s}
  OBVIOUS
<1>5. s \notin P /\ s \in Q => Q = P \union {s}
  OBVIOUS
<1>6. /\ Cardinality(P \union {s}) = IF s \in P THEN Cardinality(P) ELSE Cardinality(P) + 1
      /\ Cardinality(P \ {s}) = IF s \in P THEN Cardinality(P) - 1 ELSE Cardinality(P)
  BY <1>1, FS_AddElement, FS_RemoveElement
<1> QED
  BY <1>2, <1>3, <1>4, <1>5, <1>6

LEMMA SendersFinite == IsFiniteSet(SenderIds) /\ Cardinality(SenderIds) = MaxPastes /\ MaxPastes \in Nat
<1>1. MaxPastes \in Nat
  BY ClipboardAssumption
<1> QED
  BY <1>1, FS_Interval DEF SenderIds

\* The budget follows a permit that changes.
LEMMA BudgetFollows ==
  ASSUME PermitTypes, TransferBudgetBalances, NEW s \in SenderIds, NEW r \in PermitRecord,
         senders' = [senders EXCEPT ![s] = r],
         (senders[s].phase = "free" <=> r.phase = "free") => transfer'.active = transfer.active,
         senders[s].phase = "free" /\ r.phase # "free" => transfer'.active = transfer.active + 1,
         senders[s].phase # "free" /\ r.phase = "free" => transfer'.active = transfer.active - 1,
         transfer'.bytes = transfer.bytes + r.bytes - senders[s].bytes
  PROVE  /\ TransferBudgetBalances' /\ senders' \in [SenderIds -> PermitRecord]
         /\ transfer.active \in Nat /\ transfer'.active \in Nat /\ transfer'.bytes \in Nat
<1> DEFINE A == {t \in SenderIds : senders[t].phase # "free"}
           B == {t \in SenderIds : senders[t].bytes >= 1}
           C == {t \in SenderIds : senders[t].bytes >= 2}
           D == {t \in SenderIds : senders'[t].phase # "free"}
           E == {t \in SenderIds : senders'[t].bytes >= 1}
           F == {t \in SenderIds : senders'[t].bytes >= 2}
<1>1. /\ senders' \in [SenderIds -> PermitRecord] /\ senders'[s] = r
      /\ \A t \in SenderIds : t # s => senders'[t] = senders[t]
  BY DEF PermitTypes
<1>2. senders[s].bytes \in 0 .. 2 /\ r.bytes \in 0 .. 2
  BY DEF PermitTypes, PermitRecord
<1>3. /\ s \in A <=> senders[s].phase # "free"
      /\ s \in D <=> r.phase # "free"
      /\ s \in B <=> senders[s].bytes >= 1
      /\ s \in C <=> senders[s].bytes >= 2
      /\ s \in E <=> r.bytes >= 1
      /\ s \in F <=> r.bytes >= 2
  BY <1>1
<1>4. /\ \A t \in SenderIds : t # s => (t \in A <=> t \in D)
      /\ \A t \in SenderIds : t # s => (t \in B <=> t \in E)
      /\ \A t \in SenderIds : t # s => (t \in C <=> t \in F)
  BY <1>1
<1>5. A \subseteq SenderIds /\ B \subseteq SenderIds /\ C \subseteq SenderIds
      /\ D \subseteq SenderIds /\ E \subseteq SenderIds /\ F \subseteq SenderIds
  OBVIOUS
<1>6. transfer.active = Cardinality(A) /\ transfer.bytes = Cardinality(B) + Cardinality(C)
  BY DEF TransferBudgetBalances
<1> HIDE DEF A, B, C, D, E, F
<1>7. /\ Cardinality(A) \in Nat /\ Cardinality(D) \in Nat
      /\ (s \in A <=> s \in D) => Cardinality(D) = Cardinality(A)
      /\ s \in A /\ s \notin D => Cardinality(D) = Cardinality(A) - 1
      /\ s \notin A /\ s \in D => Cardinality(D) = Cardinality(A) + 1
  BY <1>4, <1>5, SendersFinite, MovedElement
<1>8. /\ Cardinality(B) \in Nat /\ Cardinality(E) \in Nat
      /\ (s \in B <=> s \in E) => Cardinality(E) = Cardinality(B)
      /\ s \in B /\ s \notin E => Cardinality(E) = Cardinality(B) - 1
      /\ s \notin B /\ s \in E => Cardinality(E) = Cardinality(B) + 1
  BY <1>4, <1>5, SendersFinite, MovedElement
<1>9. /\ Cardinality(C) \in Nat /\ Cardinality(F) \in Nat
      /\ (s \in C <=> s \in F) => Cardinality(F) = Cardinality(C)
      /\ s \in C /\ s \notin F => Cardinality(F) = Cardinality(C) - 1
      /\ s \notin C /\ s \in F => Cardinality(F) = Cardinality(C) + 1
  BY <1>4, <1>5, SendersFinite, MovedElement
<1>10. transfer'.active = Cardinality(D)
  BY <1>3, <1>6, <1>7
<1>11. transfer'.bytes = Cardinality(E) + Cardinality(F)
  <2> DEFINE x == senders[s].bytes
             y == r.bytes
  <2>1. x \in {0, 1, 2} /\ y \in {0, 1, 2} /\ (s \in B <=> x >= 1) /\ (s \in C <=> x >= 2)
        /\ (s \in E <=> y >= 1) /\ (s \in F <=> y >= 2) /\ transfer'.bytes = Cardinality(B) + Cardinality(C) + y - x
    BY <1>2, <1>3, <1>6
  <2> HIDE DEF x, y
  <2> QED
    BY <1>8, <1>9, <2>1
<1> QED
  BY <1>1, <1>6, <1>7, <1>8, <1>9, <1>10, <1>11 DEF A, B, C, D, E, F, TransferBudgetBalances

\* While a descriptor is due to a sender there is a free one.
LEMMA FreeSenderThere ==
  ASSUME ClipTypes, PermitTypes, PermitsKept, clip.pc \in {"deliver", "reserve"}, ~Reserving
  PROVE  FreeSender \in SenderIds /\ senders[FreeSender].phase = "free"
<1> DEFINE A == {s \in SenderIds : senders[s].phase # "free"}
<1>1. Cardinality(A) < MaxPastes
  <2>1. transfer.active = Cardinality(A) /\ SlotsAsked <= clipUse.pastes /\ clip.due >= 1
    BY DEF PermitsKept, TransferBudgetBalances
  <2>2. clipUse.pastes \in 0 .. MaxPastes /\ transfer.active \in 0 .. MaxTransfers
    BY DEF PermitTypes, ClipUseRecord, BudgetRecord
  <2> QED
    BY <2>1, <2>2, ClipCounters, ClipBounds DEF SlotsAsked
<1>2. A # SenderIds
  BY <1>1, SendersFinite
<1>3. \E s \in SenderIds : senders[s].phase = "free"
  BY <1>2
<1> QED
  BY <1>3 DEF FreeSender

\* A step that takes and returns no slot, and asks for none but with a paste.
LEMMA PermitsUntouched ==
  ASSUME ClipInv, UNCHANGED <<senders, transfer>>, clipUse' \in ClipUseRecord,
         clip'.pc \in {"deliver", "reserve"} => clip'.due >= 1,
         SlotsAsked' - clipUse'.pastes <= SlotsAsked - clipUse.pastes, SlotsAsked' \in Int
  PROVE  PermitTypes' /\ PermitsKept'
<1>1. TransferBudgetBalances' /\ (Reserving' <=> Reserving)
  BY DEF ClipInv, PermitsKept, TransferBudgetBalances, Reserving
<1>2. SlotsAsked \in Int /\ clipUse.pastes \in Int /\ clipUse'.pastes \in Int
  BY ClipCounters DEF ClipInv, PermitTypes, ClipUseRecord, BudgetRecord, SlotsAsked
<1>3. SlotsAsked' <= clipUse'.pastes + 1 /\ (~Reserving' => SlotsAsked' <= clipUse'.pastes)
  <2>1. SlotsAsked <= clipUse.pastes + 1 /\ (~Reserving => SlotsAsked <= clipUse.pastes)
    BY DEF ClipInv, PermitsKept
  <2> QED
    BY <1>1, <1>2, <2>1
<1> QED
  BY <1>1, <1>3 DEF ClipInv, PermitTypes, PermitsKept

\* The steps that are not about slots.
LEMMA PermitsAside ==
  ASSUME ClipInv, UNCHANGED <<senders, transfer>>, clipUse' \in ClipUseRecord, clipUse'.pastes = clipUse.pastes,
         ClipTypes', held'.fds + clip'.due <= held.fds + clip.due,
         clip'.pc \in {"deliver", "reserve"} => clip'.due >= 1
  PROVE  PermitTypes' /\ PermitsKept'
<1>1. /\ held.fds \in Nat /\ clip.due \in Nat /\ transfer.active \in Nat /\ clipUse.pastes \in Nat
  BY ClipCounters DEF ClipInv, PermitTypes, ClipUseRecord, BudgetRecord
<1>2. held'.fds \in Nat /\ clip'.due \in Nat
  <2>1. clip'.due \in 0 .. MaxTransfers + 1 /\ held'.fds \in 0 .. MaxTransfers
    BY DEF ClipTypes, ClipRecord, HeldRecord
  <2> QED
    BY <2>1, ClipBounds
<1>3. SlotsAsked' - clipUse'.pastes <= SlotsAsked - clipUse.pastes /\ SlotsAsked' \in Int
  BY <1>1, <1>2 DEF SlotsAsked
<1> QED
  BY <1>3, PermitsUntouched

LEMMA PermitsStep ==
  ASSUME ClipInv, ClipboardNext
  PROVE  PermitTypes' /\ PermitsKept'
<1> USE DEF ClipInv
<1>t. /\ transfer \in BudgetRecord /\ transfer.active \in 0 .. MaxTransfers /\ transfer.bytes \in 0 .. MaxTotalBytes
      /\ clipUse.pastes \in 0 .. MaxPastes /\ clipUse \in ClipUseRecord /\ clip \in ClipRecord
      /\ MaxTransfers \in Nat /\ MaxTotalBytes \in Nat /\ MaxPastes \in Nat
      /\ held.fds \in Nat /\ clip.due \in Nat
  BY ClipBounds, ClipCounters DEF PermitTypes, BudgetRecord, ClipUseRecord, ClipTypes
<1>s. \A s \in SenderIds : /\ senders[s] \in PermitRecord /\ senders[s].bytes \in 0 .. 2
                           /\ senders[s].phase \in {"free", "counted", "running", "returning"}
  BY DEF PermitTypes, PermitRecord
<1>k. ClipTypes' /\ (clip.pc \in {"deliver", "reserve"} => clip.due >= 1) /\ held.fds + clip.due <= held.fds + clip.due
  BY <1>t, ClipKeptStep DEF PermitsKept
<1>1. ASSUME NEW copy \in HostContents, HostCopies(copy)
      PROVE  PermitTypes' /\ PermitsKept'
  <2>1. clipUse' \in ClipUseRecord /\ clipUse'.pastes = clipUse.pastes /\ UNCHANGED <<clip, held, senders, transfer>>
    BY <1>t, <1>1 DEF HostCopies, ClipUseRecord
  <2> QED
    BY <1>k, <2>1, PermitsAside
<1>2. CASE PollResults
  <2>1. /\ clip'.pc # "reserve" /\ (clip'.pc = "deliver" => clip'.due >= 1)
        /\ held'.fds + clip'.due <= held.fds + clip.due
    BY <1>2, PollResultsKeeps
  <2>2. UNCHANGED <<senders, transfer, clipUse>>
    BY <1>2 DEF PollResults
  <2> QED
    BY <1>t, <1>k, <2>1, <2>2, PermitsAside
<1>3. ASSUME NEW ok \in BOOLEAN, StartNextImage(ok)
      PROVE  PermitTypes' /\ PermitsKept'
  <2>1. clip'.pc = "idle" /\ held'.fds + clip'.due <= held.fds + clip.due
    BY <1>3, StartNextImageKeeps
  <2>2. UNCHANGED <<senders, transfer, clipUse>>
    BY <1>3 DEF StartNextImage
  <2> QED
    BY <1>t, <1>k, <2>1, <2>2, PermitsAside
<1>4. CASE RefreshClipboard
  <2>1. clip'.pc = "poll" /\ clip'.due = clip.due /\ held'.fds = 0
    BY <1>4, RefreshKeeps
  <2>2. UNCHANGED <<senders, transfer, clipUse>> /\ held'.fds + clip'.due <= held.fds + clip.due
    BY <1>t, <1>4, <2>1 DEF RefreshClipboard
  <2> QED
    BY <1>t, <1>k, <2>1, <2>2, PermitsAside
<1>5. CASE ImageWorkerDies
  <2>1. clipUse' \in ClipUseRecord /\ clipUse'.pastes = clipUse.pastes /\ UNCHANGED <<clip, held, senders, transfer>>
    BY <1>t, <1>5 DEF ImageWorkerDies, ClipUseRecord
  <2> QED
    BY <1>k, <2>1, PermitsAside
<1>6. ASSUME NEW mime, NewSelection(mime)
      PROVE  PermitTypes' /\ PermitsKept'
  <2>1. clipUse' \in ClipUseRecord /\ clipUse'.pastes = clipUse.pastes /\ UNCHANGED <<senders, transfer>>
    BY <1>t, <1>6 DEF NewSelection, ClipUseRecord
  <2>2. clip'.pc = "idle" /\ clip'.due = clip.due /\ held'.fds = 0
    BY <1>6, NoHeldFields DEF NewSelection, ClipTypes, ClipRecord
  <2>3. held'.fds + clip'.due <= held.fds + clip.due
    BY <1>t, <2>2
  <2> QED
    BY <1>k, <2>1, <2>2, <2>3, PermitsAside
<1>7. ASSUME NEW ok \in BOOLEAN, ConvertImage(ok) \/ RequestGuest(ok) \/ \E g \in guest : GuestReaderEnds(g, ok)
      PROVE  PermitTypes' /\ PermitsKept'
  <2>1. UNCHANGED <<senders, transfer, clipUse, held>>
    BY <1>7 DEF ConvertImage, RequestGuest, GuestReaderEnds
  <2>2. clip'.pc = clip.pc /\ clip'.due = clip.due
    BY <1>7 DEF ConvertImage, RequestGuest, GuestReaderEnds, ClipTypes, ClipRecord
  <2> QED
    BY <1>t, <1>k, <2>1, <2>2, PermitsAside
<1>8. ASSUME NEW m \in guest, InstallCheck(m)
      PROVE  PermitTypes' /\ PermitsKept'
  <2>1. UNCHANGED <<senders, transfer, clipUse>>
    BY <1>8 DEF InstallCheck
  <2>2. clip'.pc \in {"idle", "clear"} /\ clip'.due = clip.due /\ held'.fds <= held.fds
    BY <1>8, InstallCheckKeeps
  <2>3. held'.fds + clip'.due <= held.fds + clip.due
    <3>1. held'.fds \in 0 .. MaxTransfers
      BY <1>k DEF ClipTypes, HeldRecord
    <3> QED
      BY <1>t, <2>2, <3>1
  <2> QED
    BY <1>t, <1>k, <2>1, <2>2, <2>3, PermitsAside
<1>9. CASE InstallClear \/ InstallCount \/ \E ok \in BOOLEAN : InstallSet(ok)
  <2>1. UNCHANGED <<senders, transfer, clipUse>>
    BY <1>9 DEF InstallClear, InstallCount, InstallSet
  <2>2. clip'.pc \in {"set", "idle", "count"} /\ clip'.due = clip.due /\ held' = held
    BY <1>9, InstallClearKeeps, InstallSetKeeps, InstallCountKeeps
  <2> QED
    BY <1>t, <1>k, <2>1, <2>2, PermitsAside
\* A paste is held, or due to a sender.
<1>10. ASSUME NEW mime, Pastes(mime)
       PROVE  PermitTypes' /\ PermitsKept'
  <2>1. /\ UNCHANGED <<senders, transfer>> /\ clipUse' \in ClipUseRecord /\ clipUse'.pastes = clipUse.pastes + 1
        /\ clip.pc = "idle"
    BY <1>t, <1>10 DEF Pastes, ClipUseRecord
  <2>2. \/ clip' = clip /\ held' = held
        \/ clip' = clip /\ held' = [held EXCEPT !.fds = @ + 1]
        \/ clip' = [clip EXCEPT !.pc = "reserve", !.arg = mime, !.due = 1] /\ held' = held
    BY <1>10 DEF Pastes
  <2>3. clip'.due \in Nat /\ held'.fds \in Nat /\ clip'.due + held'.fds <= clip.due + held.fds + 1
        /\ (clip'.pc \in {"deliver", "reserve"} => clip'.due >= 1)
    <3>1. CASE clip' = clip
      <4>1. held'.fds = held.fds \/ held'.fds = held.fds + 1
        BY <2>2, <3>1 DEF ClipTypes, HeldRecord
      <4> QED
        BY <1>t, <2>1, <3>1, <4>1
    <3>2. CASE clip' = [clip EXCEPT !.pc = "reserve", !.arg = mime, !.due = 1] /\ held' = held
      <4>1. clip'.due = 1
        BY <1>t, <3>2 DEF ClipRecord
      <4> QED
        BY <1>t, <3>2, <4>1
    <3> QED
      BY <2>2, <3>1, <3>2
  <2>4. SlotsAsked' - clipUse'.pastes <= SlotsAsked - clipUse.pastes /\ SlotsAsked' \in Int
    BY <1>t, <2>1, <2>3 DEF SlotsAsked
  <2> QED
    BY <2>1, <2>3, <2>4, PermitsUntouched
<1>11. CASE ReserveSlot
  <2>1. clip.pc \in {"deliver", "reserve"} /\ ~Reserving /\ UNCHANGED <<clipUse, held>> /\ clip.due >= 1
        /\ SlotsAsked <= clipUse.pastes
    BY <1>11 DEF ReserveSlot, PermitsKept, Reserving
  <2>2. CASE transfer.active + 1 <= MaxTransfers
    <3> DEFINE s == FreeSender
               r == [senders[s] EXCEPT !.phase = "counted"]
    <3>1. s \in SenderIds /\ senders[s].phase = "free" /\ senders[s].bytes = 0
      BY <2>1, FreeSenderThere DEF PermitsKept
    <3>2. /\ transfer' = [transfer EXCEPT !.active = @ + 1] /\ senders' = [senders EXCEPT ![s] = r] /\ clip' = clip
      BY <1>11, <2>2 DEF ReserveSlot
    <3> HIDE DEF s
    <3>3. r \in PermitRecord /\ r.phase = "counted" /\ r.bytes = 0
      BY <1>s, <3>1 DEF PermitRecord
    <3> HIDE DEF r
    <3>4. transfer' \in BudgetRecord /\ transfer'.active = transfer.active + 1 /\ transfer'.bytes = transfer.bytes
      BY <1>t, <2>2, <3>2 DEF BudgetRecord
    <3>n. transfer'.bytes = transfer.bytes + r.bytes - senders[s].bytes
      BY <1>t, <3>1, <3>3, <3>4
    <3>5. TransferBudgetBalances' /\ senders' \in [SenderIds -> PermitRecord]
      BY <3>1, <3>2, <3>3, <3>4, <3>n, BudgetFollows DEF PermitsKept
    <3>6. SlotsAsked' <= clipUse'.pastes + 1
      BY <1>t, <2>1, <3>2, <3>4 DEF SlotsAsked
    <3>7. senders'[s] = r /\ \A t \in SenderIds : t # s => senders'[t] = senders[t]
      BY <3>1, <3>2 DEF PermitTypes
    <3>8. Reserving' /\ \A t \in SenderIds : senders'[t].phase = "counted" => t = s
      BY <2>1, <3>1, <3>3, <3>7 DEF Reserving
    <3>9. \A t \in SenderIds : senders'[t].phase # "running" => senders'[t].bytes = 0
      BY <3>3, <3>7 DEF PermitsKept
    <3> QED
      BY <2>1, <3>2, <3>4, <3>5, <3>6, <3>8, <3>9 DEF PermitTypes, PermitsKept
  <2>3. CASE ~(transfer.active + 1 <= MaxTransfers)
    <3>1. clip' = Handed(clip) /\ UNCHANGED <<transfer, senders>>
      BY <1>11, <2>3 DEF ReserveSlot
    <3>2. clip'.due = clip.due - 1 /\ (clip'.pc \in {"deliver", "reserve"} => clip'.due >= 1)
      BY <1>t, <2>1, <3>1, HandedFields
    <3>3. held'.fds + clip'.due <= held.fds + clip.due
      BY <1>t, <2>1, <3>2
    <3> QED
      BY <1>t, <1>k, <2>1, <3>1, <3>2, <3>3, PermitsAside
  <2> QED
    BY <2>2, <2>3
\* What a permit becomes afterwards: it asks for no slot any more.
<1>12. ASSUME NEW s \in SenderIds, NEW r \in PermitRecord, senders[s].phase # "free", r.phase # "counted",
              r.phase # "running" => r.bytes = 0,
              senders' = [senders EXCEPT ![s] = r], UNCHANGED <<clipUse, held>>, transfer' \in BudgetRecord,
              r.phase # "free" => transfer'.active = transfer.active,
              r.phase = "free" => transfer'.active = transfer.active - 1,
              transfer'.bytes = transfer.bytes + r.bytes - senders[s].bytes,
              clip'.pc \in {"deliver", "reserve"} => clip'.due >= 1,
              clip'.due = IF senders[s].phase = "counted" THEN clip.due - 1 ELSE clip.due
       PROVE  PermitTypes' /\ PermitsKept'
  <2>1. TransferBudgetBalances' /\ senders' \in [SenderIds -> PermitRecord]
    BY <1>12, BudgetFollows DEF PermitsKept
  <2>2. senders'[s] = r /\ \A t \in SenderIds : t # s => senders'[t] = senders[t]
    BY <1>12 DEF PermitTypes
  <2>3. /\ \A t \in SenderIds : senders'[t].phase # "running" => senders'[t].bytes = 0
        /\ \A t, u \in SenderIds : senders'[t].phase = "counted" /\ senders'[u].phase = "counted" => t = u
    BY <1>12, <2>2 DEF PermitsKept
  <2>4. /\ Reserving' => Reserving
        /\ senders[s].phase # "counted" => (Reserving => Reserving')
        /\ senders[s].phase = "counted" => Reserving
    BY <1>12, <2>2 DEF Reserving
  <2>5. /\ SlotsAsked' <= clipUse'.pastes + 1
        /\ ~Reserving' => SlotsAsked' <= clipUse'.pastes
    <3>1. SlotsAsked <= clipUse.pastes + 1 /\ (~Reserving => SlotsAsked <= clipUse.pastes)
      BY DEF PermitsKept
    <3>2. transfer'.active = transfer.active \/ transfer'.active = transfer.active - 1
      BY <1>12
    <3>3. SlotsAsked \in Int /\ SlotsAsked' \in Int /\ SlotsAsked' <= SlotsAsked
          /\ (senders[s].phase = "counted" => SlotsAsked' <= SlotsAsked - 1)
      BY <1>t, <1>12, <3>2 DEF SlotsAsked
    <3> QED
      BY <1>t, <1>12, <2>4, <3>1, <3>3
  <2> QED
    BY <1>12, <2>1, <2>3, <2>5 DEF PermitTypes, PermitsKept
<1>13. ASSUME NEW s \in SenderIds, ReserveBytes(s)
       PROVE  PermitTypes' /\ PermitsKept'
  <2> DEFINE n == TransferBytes(clip.arg)
  <2>1. /\ senders[s].phase = "counted" /\ UNCHANGED <<clipUse, held>> /\ clip' = Handed(clip)
        /\ senders[s].bytes = 0 /\ clip.due >= 1
    BY <1>13 DEF ReserveBytes, PermitsKept
  <2>2. clip'.due = clip.due - 1 /\ (clip'.pc \in {"deliver", "reserve"} => clip'.due >= 1)
    BY <1>t, <2>1, HandedFields
  <2>3. n \in {1, 2}
    BY DEF TransferBytes
  <2>4. CASE transfer.bytes + n <= MaxTotalBytes
    <3> DEFINE r == [phase |-> "running", bytes |-> n]
    <3>1. /\ transfer' = [transfer EXCEPT !.bytes = @ + n] /\ senders' = [senders EXCEPT ![s] = r]
      BY <1>13, <2>4 DEF ReserveBytes
    <3> HIDE DEF n
    <3>2. r \in PermitRecord /\ r.phase = "running" /\ r.bytes = n
      BY <2>3 DEF PermitRecord
    <3> HIDE DEF r
    <3>3. transfer' \in BudgetRecord /\ transfer'.active = transfer.active /\ transfer'.bytes = transfer.bytes + n
      BY <1>t, <2>3, <2>4, <3>1 DEF BudgetRecord
    <3>4. transfer.bytes + n = transfer.bytes + n - 0
      BY <1>t, <2>3
    <3> QED
      BY <1>12, <2>1, <2>2, <3>1, <3>2, <3>3, <3>4
  <2>5. CASE ~(transfer.bytes + n <= MaxTotalBytes)
    <3> DEFINE r == [senders[s] EXCEPT !.phase = "free"]
    <3>1. /\ transfer' = [transfer EXCEPT !.active = @ - 1] /\ senders' = [senders EXCEPT ![s] = r]
      BY <1>13, <2>5 DEF ReserveBytes
    <3>2. r \in PermitRecord /\ r.phase = "free" /\ r.bytes = 0
      BY <1>s, <2>1 DEF PermitRecord
    <3> HIDE DEF r
    <3>3. transfer'.active = transfer.active - 1 /\ transfer'.bytes = transfer.bytes
      BY <1>t, <3>1 DEF BudgetRecord
    <3>4. transfer.bytes = transfer.bytes + 0 - 0
      BY <1>t
    <3>5. transfer'.active \in Nat
      BY <2>1, <3>1, <3>2, <3>3, <3>4, BudgetFollows DEF PermitsKept
    <3>6. transfer' \in BudgetRecord
      BY <1>t, <3>1, <3>3, <3>5 DEF BudgetRecord
    <3> QED
      BY <1>12, <2>1, <2>2, <3>1, <3>2, <3>3, <3>4, <3>6
  <2> QED
    BY <2>4, <2>5
<1>14. ASSUME NEW s \in SenderIds, DropPermitBytes(s)
       PROVE  PermitTypes' /\ PermitsKept'
  <2> DEFINE r == [phase |-> "returning", bytes |-> 0]
  <2>1. /\ senders[s].phase = "running" /\ UNCHANGED <<clip, clipUse, held>>
        /\ transfer' = [transfer EXCEPT !.bytes = @ - senders[s].bytes] /\ senders' = [senders EXCEPT ![s] = r]
    BY <1>14 DEF DropPermitBytes
  <2>2. r \in PermitRecord /\ r.phase = "returning" /\ r.bytes = 0
    BY DEF PermitRecord
  <2> HIDE DEF r
  <2>3. transfer'.active = transfer.active /\ transfer'.bytes = transfer.bytes - senders[s].bytes
    BY <1>t, <2>1 DEF BudgetRecord
  <2>4. transfer.bytes - senders[s].bytes = transfer.bytes + 0 - senders[s].bytes
    BY <1>t, <1>s
  <2>5. transfer'.bytes \in Nat
    BY <2>1, <2>2, <2>3, <2>4, BudgetFollows DEF PermitsKept
  <2>6. transfer' \in BudgetRecord
    <3>1. transfer'.bytes \in 0 .. MaxTotalBytes
      BY <1>t, <1>s, <2>3, <2>5
    <3> QED
      BY <1>t, <2>1, <2>3, <3>1 DEF BudgetRecord
  <2> QED
    BY <1>k, <1>12, <2>1, <2>2, <2>3, <2>4, <2>6
<1>15. ASSUME NEW s \in SenderIds, DropPermitSlot(s)
       PROVE  PermitTypes' /\ PermitsKept'
  <2> DEFINE r == [senders[s] EXCEPT !.phase = "free"]
  <2>1. /\ senders[s].phase = "returning" /\ UNCHANGED <<clip, clipUse, held>> /\ senders[s].bytes = 0
        /\ transfer' = [transfer EXCEPT !.active = @ - 1] /\ senders' = [senders EXCEPT ![s] = r]
    BY <1>15 DEF DropPermitSlot, PermitsKept
  <2>2. r \in PermitRecord /\ r.phase = "free" /\ r.bytes = 0
    BY <1>s, <2>1 DEF PermitRecord
  <2> HIDE DEF r
  <2>3. transfer'.active = transfer.active - 1 /\ transfer'.bytes = transfer.bytes
    BY <1>t, <2>1 DEF BudgetRecord
  <2>4. transfer.bytes = transfer.bytes + 0 - 0
    BY <1>t
  <2>5. transfer'.active \in Nat
    BY <2>1, <2>2, <2>3, <2>4, BudgetFollows DEF PermitsKept
  <2>6. transfer' \in BudgetRecord
    BY <1>t, <2>1, <2>3, <2>5 DEF BudgetRecord
  <2> QED
    BY <1>k, <1>12, <2>1, <2>2, <2>3, <2>4, <2>6
<1> QED
  BY <1>1, <1>2, <1>3, <1>4, <1>5, <1>6, <1>7, <1>8, <1>9, <1>10, <1>11, <1>13, <1>14, <1>15 DEF ClipboardNext

\* refresh_host_clipboard, poll_host_clipboard_results, install_guest_clipboard, send_selection and
\* TransferBudget, for any copies, selections and pastes, in any order with the calls of an
\* installation: what clients are offered under the pasteboard's change count is what it holds, or
\* the guest's own contents after a write that failed unnoticed or was overtaken by another copy,
\* never a mixture; a held paste has the conversion it waits for; and the budget is that of the
\* permits that live.
THEOREM PasteboardIsShown == ClipboardSpec => []ClipboardInvariant
<1>1. ClipInv /\ [ClipboardNext]_clipboardVars => ClipInv'
  <2>1. CASE ClipboardNext
    BY <2>1, ClipKeptStep, PermitsStep DEF ClipInv
  <2>2. ASSUME ClipInv, UNCHANGED clipboardVars PROVE ClipInv'
    <3>1. TransferBudgetBalances' /\ PermitTypes'
      BY <2>2 DEF clipboardVars, ClipInv, PermitTypes, PermitsKept, TransferBudgetBalances
    <3>2. PermitsKept'
      BY <2>2, <3>1 DEF clipboardVars, ClipInv, PermitsKept, Reserving, SlotsAsked
    <3>3. ClipKept'
      BY <2>2, ClipUntouched DEF clipboardVars, ClipInv
    <3> QED
      BY <2>2, <3>1, <3>2, <3>3 DEF clipboardVars, ClipInv, ClipTypes
  <2> QED
    BY <2>1, <2>2
<1>2. ClipInv => ClipboardInvariant
  <2> SUFFICES ASSUME ClipInv PROVE ClipboardInvariant
    OBVIOUS
  <2> USE DEF ClipInv
  <2>1. ClipboardTypeOK
    <3>1. /\ pasteboard.form \in {"none", "png", "tiff", "bad"} /\ clip.pc \in ClipPlaces
          /\ clip.due \in 0 .. MaxTransfers + 1 /\ clip.live \in Nat \cup {NoClip} /\ clip.unconfirmed \in BOOLEAN
          /\ imageJob.worker \in {"none", "idle", "busy", "dead"} /\ held.fds \in 0 .. MaxTransfers
      BY DEF ClipTypes, PasteboardRecord, ClipRecord, JobRecord, HeldRecord
    <3>2. \A g \in guest : g.at \in {"reading", "sent"} /\ g.mime \in {"text", "image"}
      BY DEF ClipTypes, GuestMessages
    <3> QED
      BY <3>1, <3>2 DEF ClipboardTypeOK, ClipPlaces, PermitTypes, PermitRecord, BudgetRecord
  <2>2. CacheCoherent /\ HeldRequestHasJob
    BY DEF ClipKept, Coherent, Shown, GuestsOwn, HasJob, CacheCoherent, HeldRequestHasJob
  <2>3. TransferBudgetBalances
    BY DEF PermitsKept
  <2> QED
    BY <2>1, <2>2, <2>3 DEF ClipboardInvariant
<1> QED
  BY <1>1, <1>2, ClipInitInv, PTL DEF ClipboardSpec
=============================================================================
