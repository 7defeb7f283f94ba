--------------------------- MODULE ShutdownProofs ---------------------------
(***************************************************************************)
(* Proofs about Shutdown, for any attempts, managed displays and bounds:   *)
(* no process is lost with the event channel, and every identity stays     *)
(* reserved until what it stands for is released.                          *)
(***************************************************************************)
EXTENDS Shutdown, FiniteSetTheorems, TLAPS

\* The threads that hold a lease, and those that have yet to report.
Holding   == {"begun", "working", "sending", "sent", "rollback"}
Unsettled == {"begun", "working", "sending", "rollback"}
Leased == {r \in Resources : thread[r] \in Holding}

\* The replies on their way, by their position in the channel.
Replies   == {i \in 1 .. Len(queue) : queue[i] # NoResult}
Queued(r) == \E i \in Replies : queue[i].resource = r

OperationPlace == {"none", "ui", "job", "remainder", "released"}

Types == ShutdownTypeOK /\ operation \in [Attempted -> OperationPlace]

LeasesCount == leases = Cardinality(Leased)

\* Where a resource is follows what its thread does.
PlaceOfThread(r) ==
    /\ place[r] = "thread" => thread[r] = "sending"
    /\ place[r] = "rollback" <=> thread[r] = "rollback"
    /\ thread[r] \in {"none", "begun", "working"} => place[r] = "none"
    /\ thread[r] = "sending" => place[r] \in {"none", "thread"}
    /\ place[r] = "queue" => Queued(r)
    /\ place[r] # "lost"

\* A worker reports once, and its reply carries what is in the channel.
ReplyOfThread(i) ==
    LET r == queue[i].resource
    IN  /\ thread[r] \in {"sent", "ended"}
        /\ place[r] = IF queue[i].ok THEN "queue" ELSE "none"

\* The drain that follows close() reaches every reply: none is further back
\* than the messages of one call.
ReplyReached(i) ==
    /\ i <= Capacity
    /\ loop = "drain" => i + drained <= DrainMax
    /\ loop \notin {"test", "finish", "gone"}

RepliesSound ==
    /\ \A i \in Replies : ReplyOfThread(i) /\ ReplyReached(i)
    /\ \A i, j \in Replies : queue[i].resource = queue[j].resource => i = j

\* The container of a dedicated attempt starts after its display was reported.
DisplayFirst ==
    \A a \in Dedicated :
      thread[<<a, "container">>] # "none" =>
        thread[<<a, "display">>] \in {"sent", "ended"} /\ ~Queued(<<a, "display">>)

\* An operation goes where the resources of its attempt go.
Bound(p, r) ==
    /\ place[r] \in {"ui", "job", "remainder"} => operation[p] = place[r]
    /\ thread[r] \in Unsettled \/ Queued(r) => operation[p] \in {"ui", "remainder"}

OperationsBound == \A p \in Attempted : \A r \in Of(p) : Bound(p, r)

\* What the exit has come to.
Retained == loop \in {"finish", "gone"}
Phases ==
    /\ closing <=> loop # "running"
    /\ retained = "none" <=> ~Retained
    /\ Retained => /\ \A r \in Resources : place[r] # "ui"
                   /\ \A p \in Attempted : operation[p] # "ui"
    /\ retained # "pending" => /\ \A r \in Resources : place[r] # "remainder"
                               /\ \A p \in Attempted : operation[p] # "remainder"
    /\ retained = "done" => leases = 0
    /\ finished => /\ loop = "gone" /\ retained = "done"
                   /\ \A r \in Resources : place[r] # "job"
                   /\ \A p \in Attempted : operation[p] # "job"

IInv ==
    /\ Types
    /\ LeasesCount
    /\ \A r \in Resources : PlaceOfThread(r)
    /\ RepliesSound
    /\ DisplayFirst
    /\ OperationsBound
    /\ Phases

-----------------------------------------------------------------------------
(* Resources and the channel. *)

\* A resource is the display or the container of its attempt.
LEMMA ResourceNames ==
    /\ \A r \in Resources :
         /\ r[1] \in Attempted \cup Managed
         /\ r \in Of(r[1])
         /\ r[1] \in Shared => r = <<r[1], "container">>
         /\ r[1] \in Dedicated => r = <<r[1], "display">> \/ r = <<r[1], "container">>
         /\ r[1] \in Dedicated => (r \in Displays <=> r = <<r[1], "display">>)
         /\ r[1] \in Managed => r = <<r[1], "display">> /\ r \notin Containers
         /\ r[1] \in Managed => r[1] \notin Attempted
    /\ \A p \in Attempted : <<p, "container">> \in Of(p)
    /\ \A a \in Dedicated : <<a, "display">> \in Of(a) /\ a \in Attempted
    /\ \A a : \A r \in Of(a) : r \in Resources /\ r[1] = a
    /\ \A a : <<a, "display">> # <<a, "container">>
  BY ShutdownAssumption DEF Resources, Displays, Containers, Of, Attempted

LEMMA FewResources == IsFiniteSet(Resources)
<1>1. IsFiniteSet(Dedicated \cup Managed) /\ IsFiniteSet(Attempted)
  BY ShutdownAssumption, FS_Subset DEF Attempted
<1>2. IsFiniteSet({"display"}) /\ IsFiniteSet({"container"})
  BY FS_Singleton
<1>3. IsFiniteSet(Displays) /\ IsFiniteSet(Containers)
  BY <1>1, <1>2, FS_Product DEF Displays, Containers
<1> QED  BY <1>3, FS_Union DEF Resources

LEMMA MessageParts ==
    /\ \A m \in Message : m # NoResult => m.resource \in Resources /\ m.ok \in BOOLEAN
    /\ \A r \in Resources : \A b \in BOOLEAN :
         [resource |-> r, ok |-> b] \in Message /\ [resource |-> r, ok |-> b] # NoResult
  BY ShutdownAssumption DEF Message

\* Whose reply is next.
Heads(r) == queue # << >> /\ Head(queue) # NoResult /\ Head(queue).resource = r

\* As long as the channel does not change, its replies stay what they are.
LEMMA RepliesKept ==
  ASSUME queue' = queue, RepliesSound,
         \A r : Queued(r) => thread'[r] \in {"sent", "ended"} /\ place'[r] = place[r],
         \A i \in Replies : ReplyReached(i)'
  PROVE  RepliesSound' /\ \A r : Queued(r)' <=> Queued(r)
<1>1. Replies' = Replies
  BY DEF Replies
<1>2. \A r : Queued(r)' <=> Queued(r)
  BY <1>1 DEF Queued
<1>3. \A i \in Replies : \A r : r = queue[i].resource => Queued(r)
  BY DEF Queued
<1>4. \A i \in Replies : ReplyOfThread(i)'
  <2> SUFFICES ASSUME NEW i \in Replies, NEW r, r = queue[i].resource
               PROVE  /\ thread'[r] \in {"sent", "ended"}
                      /\ place'[r] = IF queue[i].ok THEN "queue" ELSE "none"
    BY DEF ReplyOfThread
  <2> QED  BY <1>3 DEF RepliesSound, ReplyOfThread
<1> QED  BY <1>1, <1>2, <1>4 DEF RepliesSound

\* The channel without its first message has the other replies.
LEMMA ReplyTaken ==
  ASSUME queue \in Seq(Message), queue # << >>, queue' = Tail(queue), RepliesSound,
         \A r : Queued(r) /\ ~Heads(r) => thread'[r] = thread[r] /\ place'[r] = place[r],
         \A i \in 1 .. Len(queue) : i + 1 \in Replies => ReplyReached(i)'
  PROVE  RepliesSound' /\ \A r : Queued(r)' <=> Queued(r) /\ ~Heads(r)
<1>1. /\ Len(queue) \in Nat \ {0} /\ Len(queue') = Len(queue) - 1
      /\ \A i \in 1 .. Len(queue') : queue'[i] = queue[i + 1]
      /\ Head(queue) = queue[1]
  OBVIOUS
<1>2. \A i \in Replies' : /\ i + 1 \in Replies /\ i \in 1 .. Len(queue)
                          /\ queue'[i] = queue[i + 1]
  BY <1>1 DEF Replies
<1>3. \A i \in Replies : i # 1 => i - 1 \in Replies' /\ queue'[i - 1] = queue[i]
  BY <1>1 DEF Replies
<1>4. \A i \in Replies' : \A r : r = queue'[i].resource => Queued(r) /\ ~Heads(r)
  <2> SUFFICES ASSUME NEW i \in Replies', NEW r, r = queue'[i].resource
               PROVE  Queued(r) /\ ~Heads(r)
    OBVIOUS
  <2>1. i + 1 \in Replies /\ queue'[i] = queue[i + 1] /\ i \in 1 .. Len(queue)
    BY <1>2
  <2>2. Queued(r)
    BY <2>1 DEF Queued
  <2>3. Heads(r) => 1 \in Replies /\ queue[1].resource = queue[i + 1].resource
    BY <1>1, <2>1 DEF Heads, Replies
  <2>4. Heads(r) => 1 = i + 1
    BY <2>1, <2>3 DEF RepliesSound
  <2>5. 1 # i + 1
    BY <1>1, <2>1
  <2> QED  BY <2>2, <2>4, <2>5
<1>5. \A r : Queued(r) /\ ~Heads(r) => Queued(r)'
  <2> SUFFICES ASSUME NEW r, Queued(r), ~Heads(r)
               PROVE  Queued(r)'
    OBVIOUS
  <2>1. PICK i \in Replies : queue[i].resource = r
    BY DEF Queued
  <2>2. i # 1
    BY <1>1, <2>1 DEF Heads, Replies
  <2> QED  BY <1>3, <2>1, <2>2 DEF Queued
<1>6. \A r : Queued(r)' => Queued(r) /\ ~Heads(r)
  BY <1>4 DEF Queued
<1>7. \A i \in Replies' : ReplyOfThread(i)'
  <2> SUFFICES ASSUME NEW i \in Replies', NEW r, r = queue'[i].resource
               PROVE  /\ thread'[r] \in {"sent", "ended"}
                      /\ place'[r] = IF queue'[i].ok THEN "queue" ELSE "none"
    BY DEF ReplyOfThread
  <2>1. thread'[r] = thread[r] /\ place'[r] = place[r]
    BY <1>4
  <2>2. i + 1 \in Replies /\ queue'[i] = queue[i + 1]
    BY <1>2
  <2> QED  BY <2>1, <2>2 DEF RepliesSound, ReplyOfThread
<1>8. \A i \in Replies' : ReplyReached(i)'
  BY <1>2
<1>9. \A i, j \in Replies' : queue'[i].resource = queue'[j].resource => i = j
  <2> SUFFICES ASSUME NEW i \in Replies', NEW j \in Replies',
                      queue'[i].resource = queue'[j].resource
               PROVE  i = j
    OBVIOUS
  <2>1. /\ i + 1 \in Replies /\ queue'[i] = queue[i + 1] /\ i \in 1 .. Len(queue)
        /\ j + 1 \in Replies /\ queue'[j] = queue[j + 1] /\ j \in 1 .. Len(queue)
    BY <1>2
  <2>2. i + 1 = j + 1
    BY <2>1 DEF RepliesSound
  <2> QED  BY <1>1, <2>1, <2>2
<1> QED  BY <1>5, <1>6, <1>7, <1>8, <1>9 DEF RepliesSound

\* A message is added at the end; it is a reply of a resource without one.
LEMMA MessageAdded ==
  ASSUME queue \in Seq(Message), NEW m \in Message, queue' = Append(queue, m), RepliesSound,
         loop' = loop, drained' = drained, m # NoResult => ~Queued(m.resource),
         \A r : Queued(r) => thread'[r] = thread[r] /\ place'[r] = place[r],
         m # NoResult => /\ ReplyReached(Len(queue) + 1)
                         /\ thread'[m.resource] = "sent"
                         /\ place'[m.resource] = IF m.ok THEN "queue" ELSE "none"
  PROVE  RepliesSound' /\ \A r : Queued(r)' <=>
                                    Queued(r) \/ (m # NoResult /\ r = m.resource)
<1> DEFINE last == Len(queue) + 1
<1>1. /\ Len(queue) \in Nat /\ Len(queue') = last
      /\ \A i \in 1 .. Len(queue) : queue'[i] = queue[i]
      /\ queue'[last] = m
  OBVIOUS
<1>2. \A i \in Replies : i \in Replies' /\ i # last /\ queue'[i] = queue[i]
  BY <1>1 DEF Replies
<1>3. \A i \in Replies' : i \in Replies \/ (i = last /\ m # NoResult /\ queue'[i] = m)
  BY <1>1 DEF Replies
<1>4. m # NoResult => last \in Replies'
  BY <1>1 DEF Replies
<1>5. \A i \in Replies : \A r : r = queue[i].resource => Queued(r)
  BY DEF Queued
<1>6. \A r : Queued(r)' <=> Queued(r) \/ (m # NoResult /\ r = m.resource)
  BY <1>1, <1>2, <1>3, <1>4 DEF Queued
<1>7. \A i \in Replies' : ReplyOfThread(i)'
  <2> SUFFICES ASSUME NEW i \in Replies', NEW r, r = queue'[i].resource
               PROVE  /\ thread'[r] \in {"sent", "ended"}
                      /\ place'[r] = IF queue'[i].ok THEN "queue" ELSE "none"
    BY DEF ReplyOfThread
  <2>1. CASE i \in Replies
    <3>1. thread'[r] = thread[r] /\ place'[r] = place[r] /\ queue'[i] = queue[i]
      BY <1>2, <1>5, <2>1
    <3> QED  BY <2>1, <3>1 DEF RepliesSound, ReplyOfThread
  <2>2. CASE i = last /\ m # NoResult /\ queue'[i] = m
    BY <2>2
  <2> QED  BY <1>3, <2>1, <2>2
<1>8. \A i \in Replies' : ReplyReached(i)'
  BY <1>3 DEF RepliesSound, ReplyReached
<1>9. \A i, j \in Replies' : queue'[i].resource = queue'[j].resource => i = j
  <2> SUFFICES ASSUME NEW i \in Replies', NEW j \in Replies',
                      queue'[i].resource = queue'[j].resource
               PROVE  i = j
    OBVIOUS
  <2>1. CASE i \in Replies /\ j \in Replies
    <3>1. queue[i].resource = queue[j].resource
      BY <1>2, <2>1
    <3> QED  BY <2>1, <3>1 DEF RepliesSound
  <2>0. ASSUME NEW k \in Replies, NEW l \in Replies', l \notin Replies
        PROVE  queue'[k].resource # queue'[l].resource
    <3>1. m # NoResult /\ queue'[l] = m
      BY <1>3, <2>0
    <3>2. queue'[k] = queue[k] /\ Queued(queue[k].resource)
      BY <1>2, <1>5
    <3> QED  BY <3>1, <3>2
  <2>2. CASE i \in Replies /\ j \notin Replies
    BY <2>0, <2>2
  <2>3. CASE i \notin Replies /\ j \in Replies
    BY <2>0, <2>3
  <2> QED  BY <1>3, <2>1, <2>2, <2>3
<1> QED  BY <1>6, <1>7, <1>8, <1>9 DEF RepliesSound

-----------------------------------------------------------------------------
(* Leases. *)

\* The leases follow the threads that hold one.
LEMMA LeaseTaken ==
  ASSUME IInv, NEW r \in Resources, thread[r] = "none", Begin(r)
  PROVE  LeasesCount' /\ leases' \in Nat
<1>1. IsFiniteSet(Leased) /\ r \notin Leased
  BY FewResources, FS_Subset DEF Leased, Holding
<1>2. Leased' = Leased \cup {r}
  BY DEF Leased, Holding, Begin, Goto, IInv, Types, ShutdownTypeOK
<1>3. Cardinality(Leased') = Cardinality(Leased) + 1
  BY <1>1, <1>2, FS_AddElement
<1> QED  BY <1>3 DEF IInv, LeasesCount, Begin, Types, ShutdownTypeOK

LEMMA LeaseDropped ==
  ASSUME IInv, NEW r \in Resources, thread[r] \in Holding, End(r)
  PROVE  LeasesCount' /\ leases' \in Nat
<1>1. IsFiniteSet(Leased) /\ r \in Leased
  BY FewResources, FS_Subset DEF Leased
<1>2. Leased' = Leased \ {r}
  BY DEF Leased, Holding, End, Goto, IInv, Types, ShutdownTypeOK
<1>3. Cardinality(Leased) \in Nat /\ Cardinality(Leased) # 0
  BY <1>1, FS_CardinalityType, FS_EmptySet
<1>4. Cardinality(Leased') = Cardinality(Leased) - 1
  BY <1>1, <1>2, FS_RemoveElement
<1> QED  BY <1>3, <1>4 DEF IInv, LeasesCount, End

LEMMA LeaseKept ==
  ASSUME IInv, leases' = leases,
         \A r \in Resources : thread'[r] \in Holding <=> thread[r] \in Holding
  PROVE  LeasesCount' /\ leases' \in Nat
<1>1. Leased' = Leased
  BY DEF Leased
<1> QED  BY <1>1 DEF IInv, LeasesCount, Types, ShutdownTypeOK

\* Without a lease no thread is left that could report or roll back.
LEMMA NoLeaseNoThread ==
  ASSUME IInv, leases = 0
  PROVE  \A r \in Resources : thread[r] \in {"none", "ended"}
<1>1. IsFiniteSet(Leased) /\ Cardinality(Leased) = 0
  BY FewResources, FS_Subset DEF Leased, IInv, LeasesCount
<1>2. Leased = {}
  BY <1>1, FS_EmptySet
<1> QED  BY <1>2 DEF Leased, Holding, IInv, Types, ShutdownTypeOK, ThreadState

\* A reply that is on its way is its attempt's only activity.
LEMMA ReplyAlone ==
  ASSUME IInv, NEW r \in Resources, Queued(r)
  PROVE  /\ thread[r] \in {"sent", "ended"}
         /\ place[r] \in {"queue", "none"}
         /\ ~Retained
         /\ r[1] \in Attempted => operation[r[1]] = "ui"
         /\ r[1] \in Attempted =>
              \A s \in Of(r[1]) : s # r => /\ thread[s] \notin Unsettled /\ ~Queued(s)
                                           /\ place[s] \notin {"job", "remainder"}
<1>1. PICK i \in Replies : queue[i].resource = r
  BY DEF Queued
<1>2. /\ thread[r] \in {"sent", "ended"} /\ place[r] \in {"queue", "none"}
      /\ ~Retained
  BY <1>1 DEF IInv, RepliesSound, ReplyOfThread, ReplyReached, Retained
<1>3. ASSUME r[1] \in Attempted
      PROVE  /\ operation[r[1]] = "ui"
             /\ \A s \in Of(r[1]) : place[s] \notin {"job", "remainder"}
  <2>1. r \in Of(r[1]) /\ \A s \in Of(r[1]) : Bound(r[1], s)
    BY <1>3, ResourceNames DEF IInv, OperationsBound
  <2>2. operation[r[1]] \in {"ui", "remainder"}
    BY <2>1 DEF Bound
  <2>3. operation[r[1]] = "ui"
    BY <1>2, <1>3, <2>2 DEF IInv, Phases
  <2> QED  BY <2>1, <2>3 DEF Bound
<1>4. ASSUME r[1] \in Attempted, NEW s \in Of(r[1]), s # r
      PROVE  thread[s] \notin Unsettled /\ ~Queued(s)
  <2>1. r[1] \in Dedicated /\ s \in Resources /\ s[1] = r[1]
    BY <1>4, ResourceNames DEF Attempted
  <2>2. \/ r = <<r[1], "display">> /\ s = <<r[1], "container">>
        \/ s = <<r[1], "display">> /\ r = <<r[1], "container">>
    BY <1>4, <2>1, ResourceNames
  <2>3. Queued(s) => thread[s] \in {"sent", "ended"}
    BY DEF Queued, IInv, RepliesSound, ReplyOfThread
  <2>4. CASE r = <<r[1], "display">> /\ s = <<r[1], "container">>
    <3>1. thread[s] = "none"
      BY <2>1, <2>4 DEF IInv, DisplayFirst
    <3> QED  BY <2>3, <3>1 DEF Unsettled
  <2>5. CASE s = <<r[1], "display">> /\ r = <<r[1], "container">>
    <3>1. thread[s] \in {"sent", "ended"} /\ ~Queued(s)
      BY <1>2, <2>1, <2>5 DEF IInv, DisplayFirst
    <3> QED  BY <3>1 DEF Unsettled
  <2> QED  BY <2>2, <2>4, <2>5
<1> QED  BY <1>2, <1>3, <1>4

LEMMA QueuedIsResource ==
  ASSUME IInv, NEW s, Queued(s)
  PROVE  s \in Resources
  BY MessageParts DEF Queued, Replies, IInv, Types, ShutdownTypeOK

LEMMA HeadQueued ==
  ASSUME queue \in Seq(Message), queue # << >>
  PROVE  /\ Head(queue) \in Message
         /\ \A r : Heads(r) => Queued(r)
<1>1. Len(queue) \in Nat \ {0} /\ Head(queue) = queue[1] /\ queue[1] \in Message
  OBVIOUS
<1> QED  BY <1>1 DEF Heads, Queued, Replies

-----------------------------------------------------------------------------
(* The steps of the threads. *)

LEMMA StartAttemptStep ==
  ASSUME IInv, NEW r \in Resources, StartAttempt(r)
  PROVE  IInv'
<1> USE DEF StartAttempt, loopVars
<1>1. /\ thread[r] = "none" /\ ~Queued(r) /\ place[r] = "none" /\ loop = "running"
      /\ thread' = [thread EXCEPT ![r] = "begun"] /\ Begin(r)
      /\ UNCHANGED <<closing, place, queue, loop, drained, retained, finished>>
  BY DEF Begin, Goto, IInv, PlaceOfThread, RepliesSound, ReplyOfThread, Queued
<1>2. LeasesCount' /\ leases' \in Nat
  BY <1>1, LeaseTaken
<1>3. Types'
  BY <1>1, <1>2 DEF IInv, Types, ShutdownTypeOK, OperationPlace, Place, ThreadState, PutOperation
<1>4. \A s : Queued(s) => s # r /\ thread'[s] \in {"sent", "ended"} /\ place'[s] = place[s]
  BY <1>1, ReplyAlone DEF Queued, IInv, Types, ShutdownTypeOK, RepliesSound, ReplyOfThread
<1>5. \A i \in Replies : ReplyReached(i)'
  BY <1>1 DEF IInv, RepliesSound, ReplyReached
<1>6. RepliesSound' /\ \A s : Queued(s)' <=> Queued(s)
  BY <1>1, <1>4, <1>5, RepliesKept DEF IInv
<1>7. \A s \in Resources : PlaceOfThread(s)'
  BY <1>1, <1>6 DEF IInv, PlaceOfThread, Types, ShutdownTypeOK
<1>8. DisplayFirst'
  BY <1>1, <1>6, ResourceNames DEF IInv, DisplayFirst, Types, ShutdownTypeOK
<1>9. OperationsBound'
  <2> SUFFICES ASSUME NEW p \in Attempted, NEW s \in Of(p)
               PROVE  Bound(p, s)'
    BY DEF OperationsBound
  <2>1. s \in Resources /\ s[1] = p /\ Bound(p, s) /\ PlaceOfThread(s)
    BY ResourceNames DEF IInv, OperationsBound
  <2>2. CASE p # r[1]
    BY <1>1, <1>6, <2>1, <2>2
       DEF Bound, PutOperation, IInv, Types, ShutdownTypeOK
  <2>3. CASE p = r[1] /\ s = r
    BY <1>1, <2>3 DEF Bound, PutOperation
  <2>4. CASE p = r[1] /\ s # r
    <3>1. s = <<p, "container">> /\ r = <<p, "display">> /\ p \in Dedicated
      BY <2>1, <2>4, ResourceNames DEF Attempted
    <3>2. thread[s] = "none"
      BY <1>1, <3>1, <2>1 DEF IInv, DisplayFirst, Types, ShutdownTypeOK, ThreadState
    <3> QED  BY <1>1, <2>1, <2>4, <3>2 DEF Bound, PutOperation, PlaceOfThread
  <2> QED  BY <2>2, <2>3, <2>4
<1>10. Phases'
  BY <1>1 DEF IInv, Phases, Retained, PutOperation, Begin, Types, ShutdownTypeOK
<1> QED  BY <1>2, <1>3, <1>6, <1>7, <1>8, <1>9, <1>10 DEF IInv

\* Steps of a thread that neither report nor take a lease: what the resource of r
\* is and where it is changes, no other.
LEMMA ThreadStep ==
  ASSUME IInv, NEW r \in Resources, thread[r] \in Holding,
         NEW t \in ThreadState, thread' = [thread EXCEPT ![r] = t], t # "none",
         NEW w \in Place, place' = Put({r}, w),
         LeasesCount', leases' \in Nat,
         PlaceOfThread(r)', t \in Unsettled => thread[r] \in Unsettled,
         w # place[r] => w \in {"thread", "rollback", "released"},
         leases' = leases \/ leases # 0,
         thread[r] = "sent" => t = "ended",
         Queued(r) => t = "ended" /\ w = place[r],
         UNCHANGED <<closing, operation, queue, noise, loopVars>>
  PROVE  IInv'
<1> USE DEF loopVars
<1>1. Types'
  BY DEF IInv, Types, ShutdownTypeOK, Put
<1>2. \A s : Queued(s) => thread'[s] \in {"sent", "ended"} /\ place'[s] = place[s]
  <2> SUFFICES ASSUME NEW s, Queued(s)
               PROVE  thread'[s] \in {"sent", "ended"} /\ place'[s] = place[s]
    OBVIOUS
  <2>1. s \in Resources /\ thread[s] \in {"sent", "ended"}
    BY QueuedIsResource, ReplyAlone
  <2> QED  BY <2>1 DEF IInv, Types, ShutdownTypeOK, Put
<1>3. \A i \in Replies : ReplyReached(i)'
  BY DEF IInv, RepliesSound, ReplyReached
<1>4. RepliesSound' /\ \A s : Queued(s)' <=> Queued(s)
  BY <1>2, <1>3, RepliesKept DEF IInv
<1>5. \A s \in Resources : PlaceOfThread(s)'
  BY <1>4 DEF IInv, PlaceOfThread, Types, ShutdownTypeOK, Put
<1>6. DisplayFirst'
  <2> SUFFICES ASSUME NEW a \in Dedicated, thread'[<<a, "container">>] # "none"
               PROVE  thread'[<<a, "display">>] \in {"sent", "ended"} /\ ~Queued(<<a, "display">>)'
    BY DEF DisplayFirst
  <2>1. <<a, "display">> \in Resources /\ <<a, "container">> \in Resources
    BY ResourceNames
  <2>2. thread[<<a, "container">>] # "none"
    BY <2>1 DEF Holding, IInv, Types, ShutdownTypeOK
  <2>3. thread[<<a, "display">>] \in {"sent", "ended"} /\ ~Queued(<<a, "display">>)
    BY <2>2 DEF IInv, DisplayFirst
  <2> QED  BY <1>4, <2>1, <2>3 DEF Holding, IInv, Types, ShutdownTypeOK
<1>7. OperationsBound'
  <2> SUFFICES ASSUME NEW p \in Attempted, NEW s \in Of(p)
               PROVE  Bound(p, s)'
    BY DEF OperationsBound
  <2>1. s \in Resources /\ s[1] = p /\ Bound(p, s) /\ PlaceOfThread(s)
    BY ResourceNames DEF IInv, OperationsBound
  <2> QED  BY <1>4, <2>1 DEF Bound, Put, IInv, Types, ShutdownTypeOK
<1>8. Phases'
  BY DEF IInv, Phases, Retained, Put, Types, ShutdownTypeOK
<1> QED  BY <1>1, <1>4, <1>5, <1>6, <1>7, <1>8 DEF IInv

LEMMA UnreportedNotQueued ==
  ASSUME IInv, NEW r \in Resources, thread[r] \in Unsettled
  PROVE  ~Queued(r)
  BY ReplyAlone DEF Unsettled

LEMMA PlaceStays == \A r \in Resources : IInv => place = Put({r}, place[r])
  BY DEF IInv, Types, ShutdownTypeOK, Put

\* A lease is counted as long as a thread holds one.
LEMMA HeldIsCounted ==
  ASSUME IInv, NEW r \in Resources, thread[r] \in Holding
  PROVE  leases # 0
  BY NoLeaseNoThread DEF Holding

LEMMA ThreadStartsStep ==
  ASSUME IInv, NEW r \in Resources, ThreadStarts(r)
  PROVE  IInv'
<1>1. /\ thread[r] = "begun" /\ ~Queued(r) /\ leases # 0 /\ place[r] = "none"
      /\ thread[r] \in Holding
      /\ UNCHANGED <<closing, place, operation, queue, noise, loopVars>>
  BY UnreportedNotQueued, HeldIsCounted DEF ThreadStarts, Unsettled, Holding, IInv, PlaceOfThread
<1>2. PICK t \in {"working", "ended"} : thread' = [thread EXCEPT ![r] = t]
  BY DEF ThreadStarts, End, Goto
<1>3. LeasesCount' /\ leases' \in Nat
  <2>1. CASE closing
    BY <1>1, <2>1, LeaseDropped DEF ThreadStarts
  <2>2. CASE ~closing
    <3>1. leases' = leases /\ \A s \in Resources : thread'[s] \in Holding <=> thread[s] \in Holding
      BY <1>1, <2>2 DEF ThreadStarts, Goto, Holding, IInv, Types, ShutdownTypeOK
    <3> QED  BY <3>1, LeaseKept
  <2> QED  BY <2>1, <2>2
<1>4. PlaceOfThread(r)'
  BY <1>1, <1>2 DEF PlaceOfThread, IInv, Types, ShutdownTypeOK
<1>5. place' = Put({r}, "none") /\ t \in ThreadState /\ "none" \in Place
  BY <1>1, PlaceStays DEF ThreadState, Place
<1> QED  BY <1>1, <1>2, <1>3, <1>4, <1>5, ThreadStep DEF Unsettled

LEMMA WorkDoneStep ==
  ASSUME IInv, NEW r \in Resources, NEW ok \in BOOLEAN, WorkDone(r, ok)
  PROVE  IInv'
<1>1. /\ thread[r] = "working" /\ ~Queued(r) /\ place[r] = "none"
      /\ thread[r] \in Holding
      /\ UNCHANGED <<closing, leases, operation, queue, noise, loopVars>>
  BY UnreportedNotQueued DEF WorkDone, Unsettled, Holding, IInv, PlaceOfThread
<1>2. thread' = [thread EXCEPT ![r] = "sending"]
  BY DEF WorkDone, Goto
<1>3. LeasesCount' /\ leases' \in Nat
  <2>1. \A s \in Resources : thread'[s] \in Holding <=> thread[s] \in Holding
    BY <1>1, <1>2 DEF Holding, IInv, Types, ShutdownTypeOK
  <2> QED  BY <1>1, <2>1, LeaseKept
<1>4. PICK w \in {"none", "thread"} : place' = Put({r}, w)
  BY <1>1, PlaceStays DEF WorkDone
<1>5. PlaceOfThread(r)'
  BY <1>1, <1>2, <1>4 DEF PlaceOfThread, IInv, Types, ShutdownTypeOK, Put
<1>6. "sending" \in ThreadState /\ w \in Place
  BY DEF ThreadState, Place
<1> QED  BY <1>1, <1>2, <1>3, <1>4, <1>5, <1>6, ThreadStep DEF Unsettled

LEMMA SendRefusedStep ==
  ASSUME IInv, NEW r \in Resources, SendRefused(r)
  PROVE  IInv'
<1>1. /\ thread[r] = "sending" /\ ~Queued(r) /\ place[r] \in {"none", "thread"}
      /\ thread[r] \in Holding
      /\ UNCHANGED <<closing, leases, operation, queue, noise, loopVars>>
  BY UnreportedNotQueued DEF SendRefused, Unsettled, Holding, IInv, PlaceOfThread
<1>2. \/ place[r] = "thread" /\ place' = Put({r}, "rollback")
         /\ thread' = [thread EXCEPT ![r] = "rollback"]
      \/ place[r] = "none" /\ place' = Put({r}, "none") /\ thread' = [thread EXCEPT ![r] = "sent"]
  BY <1>1, PlaceStays DEF SendRefused, Goto
<1>3. PICK w \in {"none", "rollback"}, t \in {"sent", "rollback"} :
        /\ place' = Put({r}, w) /\ thread' = [thread EXCEPT ![r] = t]
        /\ w = "rollback" <=> t = "rollback"
        /\ w # place[r] => w = "rollback"
  BY <1>2
<1>4. LeasesCount' /\ leases' \in Nat
  <2>1. \A s \in Resources : thread'[s] \in Holding <=> thread[s] \in Holding
    BY <1>1, <1>3 DEF Holding, IInv, Types, ShutdownTypeOK
  <2> QED  BY <1>1, <2>1, LeaseKept
<1>5. PlaceOfThread(r)'
  BY <1>1, <1>3 DEF PlaceOfThread, IInv, Types, ShutdownTypeOK, Put
<1>6. t \in ThreadState /\ w \in Place
  BY DEF ThreadState, Place
<1> QED  BY <1>1, <1>3, <1>4, <1>5, <1>6, ThreadStep DEF Unsettled

LEMMA RolledBackStep ==
  ASSUME IInv, NEW r \in Resources, RolledBack(r)
  PROVE  IInv'
<1>1. /\ thread[r] = "rollback" /\ ~Queued(r) /\ leases # 0
      /\ thread[r] \in Holding /\ End(r)
      /\ UNCHANGED <<closing, operation, queue, noise, loopVars>>
  BY UnreportedNotQueued, HeldIsCounted DEF RolledBack, Unsettled, Holding, IInv, PlaceOfThread
<1>2. thread' = [thread EXCEPT ![r] = "ended"] /\ place' = Put({r}, "released")
  BY DEF RolledBack, End, Goto
<1>3. LeasesCount' /\ leases' \in Nat
  BY <1>1, LeaseDropped
<1>4. PlaceOfThread(r)'
  BY <1>1, <1>2 DEF PlaceOfThread, IInv, Types, ShutdownTypeOK, Put
<1>5. "ended" \in ThreadState /\ "released" \in Place
  BY DEF ThreadState, Place
<1> QED  BY <1>1, <1>2, <1>3, <1>4, <1>5, ThreadStep DEF Unsettled

LEMMA ThreadEndsStep ==
  ASSUME IInv, NEW r \in Resources, ThreadEnds(r)
  PROVE  IInv'
<1>1. /\ thread[r] = "sent" /\ thread[r] \in Holding /\ leases # 0 /\ End(r)
      /\ place' = Put({r}, place[r]) /\ place[r] \in Place
      /\ UNCHANGED <<closing, place, operation, queue, noise, loopVars>>
  BY HeldIsCounted, PlaceStays DEF ThreadEnds, Holding, IInv, Types, ShutdownTypeOK
<1>2. thread' = [thread EXCEPT ![r] = "ended"]
  BY <1>1 DEF End, Goto
<1>3. LeasesCount' /\ leases' \in Nat
  BY <1>1, LeaseDropped
<1>4. PlaceOfThread(r)'
  <2>1. Queued(r)' <=> Queued(r)
    BY <1>1 DEF Queued, Replies
  <2> QED  BY <1>1, <1>2, <2>1 DEF PlaceOfThread, IInv, Types, ShutdownTypeOK
<1>5. "ended" \in ThreadState
  BY DEF ThreadState
<1> QED  BY <1>1, <1>2, <1>3, <1>4, <1>5, ThreadStep DEF Unsettled

-----------------------------------------------------------------------------
(* The channel fills. *)

LEMMA SendReplyStep ==
  ASSUME IInv, NEW r \in Resources, SendReply(r)
  PROVE  IInv'
<1> DEFINE m == [resource |-> r, ok |-> place[r] = "thread"]
           w == IF place[r] = "thread" THEN "queue" ELSE "none"
<1> USE DEF loopVars
<1>1. /\ thread[r] = "sending" /\ ~Queued(r) /\ place[r] \in {"none", "thread"}
      /\ thread' = [thread EXCEPT ![r] = "sent"] /\ place' = Put({r}, w)
      /\ Len(queue) < Capacity /\ queue' = Append(queue, m) /\ loop = "running"
      /\ UNCHANGED <<closing, leases, operation, noise, loopVars>>
  BY UnreportedNotQueued, PlaceStays
     DEF SendReply, Goto, Admitted, Unsettled, IInv, PlaceOfThread, Phases
<1>2. m \in Message /\ m # NoResult /\ m.resource = r /\ m.ok = (place[r] = "thread")
  BY MessageParts
<1> HIDE DEF m
<1>3. \A s : Queued(s) => thread'[s] = thread[s] /\ place'[s] = place[s]
  BY <1>1, QueuedIsResource DEF IInv, Types, ShutdownTypeOK, Put
<1>4. thread'[r] = "sent" /\ place'[r] = IF m.ok THEN "queue" ELSE "none"
  BY <1>1, <1>2 DEF IInv, Types, ShutdownTypeOK, Put
<1>5. ReplyReached(Len(queue) + 1) /\ queue \in Seq(Message) /\ RepliesSound
  BY <1>1, ShutdownAssumption DEF ReplyReached, IInv, Types, ShutdownTypeOK
<1>6. RepliesSound' /\ \A s : Queued(s)' <=> Queued(s) \/ s = r
  BY <1>1, <1>2, <1>3, <1>4, <1>5, MessageAdded
<1>7. Types'
  BY <1>1, <1>2 DEF IInv, Types, ShutdownTypeOK, Put, ThreadState, Place
<1>8. LeasesCount' /\ leases' \in Nat
  <2>1. \A s \in Resources : thread'[s] \in Holding <=> thread[s] \in Holding
    BY <1>1 DEF Holding, IInv, Types, ShutdownTypeOK
  <2> QED  BY <1>1, <2>1, LeaseKept
<1>9. \A s \in Resources : PlaceOfThread(s)'
  BY <1>1, <1>6 DEF IInv, PlaceOfThread, Types, ShutdownTypeOK, Put
<1>10. DisplayFirst'
  <2> SUFFICES ASSUME NEW a \in Dedicated, thread'[<<a, "container">>] # "none"
               PROVE  thread'[<<a, "display">>] \in {"sent", "ended"} /\ ~Queued(<<a, "display">>)'
    BY DEF DisplayFirst
  <2>1. <<a, "display">> \in Resources /\ <<a, "container">> \in Resources
    BY ResourceNames
  <2>2. thread[<<a, "container">>] # "none"
    BY <1>1, <2>1 DEF IInv, Types, ShutdownTypeOK
  <2>3. thread[<<a, "display">>] \in {"sent", "ended"} /\ ~Queued(<<a, "display">>)
    BY <2>2 DEF IInv, DisplayFirst
  <2> QED  BY <1>1, <1>6, <2>1, <2>3 DEF IInv, Types, ShutdownTypeOK
<1>11. OperationsBound'
  <2> SUFFICES ASSUME NEW p \in Attempted, NEW s \in Of(p)
               PROVE  Bound(p, s)'
    BY DEF OperationsBound
  <2>1. s \in Resources /\ s[1] = p /\ Bound(p, s)
    BY ResourceNames DEF IInv, OperationsBound
  <2> QED  BY <1>1, <1>6, <2>1 DEF Bound, Put, Unsettled, IInv, Types, ShutdownTypeOK
<1>12. Phases'
  BY <1>1 DEF IInv, Phases, Retained, Put, Types, ShutdownTypeOK
<1> QED  BY <1>6, <1>7, <1>8, <1>9, <1>10, <1>11, <1>12 DEF IInv

\* Steps that leave resources and operations alone, and their replies in the
\* channel.
LEMMA QuietStep ==
  ASSUME IInv, Types', RepliesSound', Phases', \A r : Queued(r)' => Queued(r),
         \A r \in Resources : place[r] = "queue" => Queued(r)',
         UNCHANGED <<leases, thread, place, operation>>
  PROVE  IInv'
<1>1. Leased' = Leased
  BY DEF Leased
<1> QED
  BY <1>1 DEF IInv, LeasesCount, PlaceOfThread, DisplayFirst, OperationsBound, Bound

LEMMA SendNoiseStep ==
  ASSUME IInv, SendNoise
  PROVE  IInv'
<1> USE DEF SendNoise, loopVars
<1>1. NoResult \in Message /\ queue \in Seq(Message) /\ RepliesSound
  BY DEF Message, IInv, Types, ShutdownTypeOK
<1>2. RepliesSound' /\ \A s : Queued(s)' <=> Queued(s)
  BY <1>1, MessageAdded
<1>3. Types'
  BY <1>1, ShutdownAssumption DEF IInv, Types, ShutdownTypeOK
<1>4. Phases'
  BY DEF IInv, Phases, Retained
<1>5. \A r \in Resources : place[r] = "queue" => Queued(r)'
  BY <1>2 DEF IInv, PlaceOfThread
<1> QED  BY <1>2, <1>3, <1>4, <1>5, QuietStep

-----------------------------------------------------------------------------
(* The channel is read: by the handlers, and by the drain of the exit. *)

\* What every handler and the drain do to the channel and the loop.
Takes ==
    /\ queue # << >> /\ queue' = Tail(queue)
    /\ loop' = loop /\ drained' \in 0 .. DrainMax
    /\ loop = "drain" => drained' = drained + 1
    /\ UNCHANGED <<closing, noise, idle, rounds, retained, finished>>

LEMMA TailReached ==
  ASSUME IInv, Takes
  PROVE  \A i \in 1 .. Len(queue) : i + 1 \in Replies => ReplyReached(i)'
<1> SUFFICES ASSUME NEW i \in 1 .. Len(queue), i + 1 \in Replies
             PROVE  ReplyReached(i)'
  OBVIOUS
<1>1. i \in Nat /\ drained \in Nat /\ queue \in Seq(Message)
  BY DEF IInv, Types, ShutdownTypeOK
<1>2. ReplyReached(i + 1)
  BY DEF IInv, RepliesSound
<1>3. /\ i + 1 <= Capacity /\ loop \notin {"test", "finish", "gone"}
      /\ loop = "drain" => i + 1 + drained <= DrainMax
  BY <1>2 DEF ReplyReached
<1>4. loop' = loop /\ (loop = "drain" => drained' = drained + 1)
  BY DEF Takes
<1>5. i <= Capacity /\ (loop = "drain" => i + (drained + 1) <= DrainMax)
  BY <1>1, <1>3, ShutdownAssumption
<1> QED  BY <1>3, <1>4, <1>5 DEF ReplyReached

\* Taking the reply of r away from the others.
LEMMA TakeReply ==
  ASSUME IInv, Takes,
         \A s : Queued(s) /\ ~Heads(s) => thread'[s] = thread[s] /\ place'[s] = place[s]
  PROVE  /\ queue' \in Seq(Message)
         /\ RepliesSound' /\ \A s : Queued(s)' <=> Queued(s) /\ ~Heads(s)
<1>1. queue \in Seq(Message) /\ queue # << >> /\ queue' = Tail(queue) /\ RepliesSound
  BY DEF IInv, Types, ShutdownTypeOK, Takes
<1> QED  BY <1>1, TailReached, ReplyTaken

LEMMA HeadReply ==
  ASSUME IInv, queue # << >>, Head(queue) # NoResult
  PROVE  LET m == Head(queue)
         IN  /\ m.resource \in Resources /\ Heads(m.resource) /\ Queued(m.resource)
             /\ place[m.resource] = IF m.ok THEN "queue" ELSE "none"
             /\ \A s : Heads(s) <=> s = m.resource
<1>1. queue \in Seq(Message)
  BY DEF IInv, Types, ShutdownTypeOK
<1> DEFINE m == Head(queue)
<1>2. m = queue[1] /\ 1 \in Replies /\ m \in Message
  BY <1>1, HeadQueued DEF Replies
<1>3. m.resource \in Resources /\ \A s : Heads(s) <=> s = m.resource
  BY <1>2, MessageParts DEF Heads
<1>4. Queued(m.resource)
  BY <1>2 DEF Queued
<1>5. place[m.resource] = IF m.ok THEN "queue" ELSE "none"
  BY <1>2 DEF IInv, RepliesSound, ReplyOfThread
<1> QED  BY <1>3, <1>4, <1>5

\* A message that owns nothing changes nothing.
LEMMA DropStep ==
  ASSUME IInv, Takes, Head(queue) # NoResult => ~Head(queue).ok,
         UNCHANGED <<leases, thread, place, operation>>
  PROVE  IInv'
<1>1. /\ queue' \in Seq(Message)
      /\ RepliesSound' /\ \A s : Queued(s)' <=> Queued(s) /\ ~Heads(s)
  BY TakeReply
<1>2. Types' /\ Phases'
  BY <1>1 DEF Takes, IInv, Types, ShutdownTypeOK, Phases, Retained
<1>3. \A s \in Resources : place[s] = "queue" => Queued(s) /\ ~Heads(s)
  BY HeadReply DEF IInv, PlaceOfThread, Heads, Takes
<1> QED  BY <1>1, <1>2, <1>3, QuietStep

\* The reply of r and what the UI owns of its attempt go into a cleanup job.
LEMMA JobStep ==
  ASSUME IInv, NEW r \in Resources, Takes, Heads(r), Queued(r), NEW rs \in SUBSET {r},
         place[r] = "queue" => rs = {r}, MoveToJob(r[1], rs),
         UNCHANGED <<leases, thread>>
  PROVE  IInv'
<1>1. /\ place' = Put(rs \cup OwnedByUi(r[1]), "job")
      /\ operation' = PutOperation(r[1], "job")
      /\ \A s \in OwnedByUi(r[1]) : s \in Resources /\ s[1] = r[1] /\ place[s] = "ui"
  BY ResourceNames DEF MoveToJob, OwnedByUi
<1>2. \A s : Queued(s) /\ ~Heads(s) => thread'[s] = thread[s] /\ place'[s] = place[s]
  <2> SUFFICES ASSUME NEW s, Queued(s), ~Heads(s)
               PROVE  place'[s] = place[s]
    OBVIOUS
  <2>1. s \in Resources /\ s # r /\ place[s] # "ui"
    BY QueuedIsResource, ReplyAlone
  <2> QED  BY <1>1, <2>1 DEF Put, IInv, Types, ShutdownTypeOK
<1>3. /\ queue' \in Seq(Message)
      /\ RepliesSound' /\ \A s : Queued(s)' <=> Queued(s) /\ ~Heads(s)
  BY <1>2, TakeReply
<1>4. Types'
  BY <1>1, <1>3 DEF Takes, IInv, Types, ShutdownTypeOK, Put, PutOperation, Place, OperationPlace
<1>5. LeasesCount'
  BY LeaseKept
<1>6. \A s \in Resources : PlaceOfThread(s)'
  <2> SUFFICES ASSUME NEW s \in Resources
               PROVE  PlaceOfThread(s)'
    OBVIOUS
  <2>1. PlaceOfThread(s) /\ (Heads(s) <=> s = r)
    BY DEF IInv, Heads
  <2>2. thread[r] \in {"sent", "ended"}
    BY ReplyAlone
  <2>3. CASE s = r
    BY <1>1, <1>3, <2>1, <2>2, <2>3 DEF PlaceOfThread, Put
  <2>4. CASE s # r
    BY <1>1, <1>3, <2>1, <2>4 DEF PlaceOfThread, Put
  <2> QED  BY <2>3, <2>4
<1>7. DisplayFirst'
  BY <1>3 DEF IInv, DisplayFirst
<1>8. OperationsBound'
  <2> SUFFICES ASSUME NEW p \in Attempted, NEW s \in Of(p)
               PROVE  Bound(p, s)'
    BY DEF OperationsBound
  <2>1. s \in Resources /\ s[1] = p /\ Bound(p, s)
    BY ResourceNames DEF IInv, OperationsBound
  <2>2. CASE p # r[1]
    BY <1>1, <1>3, <2>1, <2>2 DEF Bound, Put, PutOperation
  <2>3. CASE p = r[1]
    <3>1. thread[s] \notin Unsettled /\ ~Queued(s)'
      BY <1>3, <2>1, <2>3, ReplyAlone DEF Unsettled
    <3>2. place'[s] \notin {"ui", "remainder"}
      BY <1>1, <2>1, <2>3, ReplyAlone DEF OwnedByUi, Put
    <3> QED  BY <1>1, <2>3, <3>1, <3>2 DEF Bound, PutOperation
  <2> QED  BY <2>2, <2>3
<1>9. Phases'
  BY <1>1, ReplyAlone DEF IInv, Phases, Retained, Put, PutOperation, Takes, Types, ShutdownTypeOK
<1> QED  BY <1>3, <1>4, <1>5, <1>6, <1>7, <1>8, <1>9 DEF IInv

\* A failed operation with nothing to clean up goes.
LEMMA ReleaseStep ==
  ASSUME IInv, NEW r \in Resources, Takes, Heads(r), Queued(r), place[r] = "none",
         OwnedByUi(r[1]) = {}, operation' = PutOperation(r[1], "released"),
         UNCHANGED <<leases, thread, place>>
  PROVE  IInv'
<1>1. /\ queue' \in Seq(Message)
      /\ RepliesSound' /\ \A s : Queued(s)' <=> Queued(s) /\ ~Heads(s)
  BY TakeReply
<1>2. Types'
  BY <1>1 DEF Takes, IInv, Types, ShutdownTypeOK, PutOperation, Place, OperationPlace
<1>3. LeasesCount'
  BY LeaseKept
<1>4. \A s \in Resources : PlaceOfThread(s)'
  BY <1>1 DEF PlaceOfThread, Heads, IInv
<1>5. DisplayFirst'
  BY <1>1 DEF IInv, DisplayFirst
<1>6. OperationsBound'
  <2> SUFFICES ASSUME NEW p \in Attempted, NEW s \in Of(p)
               PROVE  Bound(p, s)'
    BY DEF OperationsBound
  <2>1. s \in Resources /\ s[1] = p /\ Bound(p, s)
    BY ResourceNames DEF IInv, OperationsBound
  <2>2. CASE p # r[1]
    BY <1>1, <2>1, <2>2 DEF Bound, PutOperation
  <2>3. CASE p = r[1]
    <3>1. thread[s] \notin Unsettled /\ ~Queued(s)'
      BY <1>1, <2>1, <2>3, ReplyAlone DEF Unsettled
    <3>2. place[s] \notin {"ui", "job", "remainder"}
      BY <2>3, ReplyAlone DEF OwnedByUi
    <3> QED  BY <3>1, <3>2 DEF Bound
  <2> QED  BY <2>2, <2>3
<1>7. Phases'
  BY ReplyAlone DEF IInv, Phases, Retained, PutOperation, Takes
<1> QED  BY <1>1, <1>2, <1>3, <1>4, <1>5, <1>6, <1>7 DEF IInv

\* The resource of r is taken over, and its attempt may go on with the container.
LEMMA WantedStep ==
  ASSUME IInv, NEW r \in Resources, Takes, Heads(r), Queued(r), ~closing, HandleWanted(r)
  PROVE  IInv'
<1> DEFINE c == <<r[1], "container">>
           next == r[1] \in Dedicated /\ r \in Displays
<1>1. place' = Put({r}, "ui") /\ operation' = operation
  BY DEF HandleWanted
<1>2. /\ thread[r] \in {"sent", "ended"}
      /\ r[1] \in Attempted => operation[r[1]] = "ui"
      /\ ~Retained
  BY ReplyAlone
<1>3. next => /\ c \in Resources /\ c # r /\ thread[c] = "none" /\ place[c] = "none" /\ ~Queued(c)
              /\ Begin(c) /\ thread' = [thread EXCEPT ![c] = "begun"]
  <2> SUFFICES ASSUME next
               PROVE  /\ c \in Resources /\ c # r /\ thread[c] = "none" /\ place[c] = "none"
                      /\ ~Queued(c)
                      /\ Begin(c) /\ thread' = [thread EXCEPT ![c] = "begun"]
    OBVIOUS
  <2>1. c \in Of(r[1]) /\ r = <<r[1], "display">> /\ r[1] \in Attempted
    BY ResourceNames
  <2>2. c \in Resources /\ c # r
    BY <2>1, ResourceNames
  <2>3. thread[c] = "none"
    BY <2>1 DEF IInv, DisplayFirst
  <2>4. ~Queued(c) /\ place[c] = "none"
    BY <2>1, <2>2, <2>3, ReplyAlone DEF IInv, PlaceOfThread
  <2> QED  BY <2>2, <2>3, <2>4 DEF HandleWanted, Begin, Goto
<1>4. ~next => thread' = thread /\ leases' = leases
  BY DEF HandleWanted
<1>5. \A s : Queued(s) /\ ~Heads(s) => thread'[s] = thread[s] /\ place'[s] = place[s]
  <2> SUFFICES ASSUME NEW s, Queued(s), ~Heads(s)
               PROVE  thread'[s] = thread[s] /\ place'[s] = place[s]
    OBVIOUS
  <2>1. s \in Resources /\ s # r /\ (next => s # c)
    BY <1>3, QueuedIsResource
  <2> QED  BY <1>1, <1>3, <1>4, <2>1 DEF Put, IInv, Types, ShutdownTypeOK
<1>6. /\ queue' \in Seq(Message)
      /\ RepliesSound' /\ \A s : Queued(s)' <=> Queued(s) /\ ~Heads(s)
  BY <1>5, TakeReply
<1>7. LeasesCount' /\ leases' \in Nat
  BY <1>3, <1>4, LeaseTaken, LeaseKept
<1>8. thread' \in [Resources -> ThreadState]
  BY <1>3, <1>4 DEF ThreadState, IInv, Types, ShutdownTypeOK
<1>9. Types'
  BY <1>1, <1>6, <1>7, <1>8 DEF Takes, IInv, Types, ShutdownTypeOK, Put, Place
<1>10. \A s \in Resources : PlaceOfThread(s)'
  <2> SUFFICES ASSUME NEW s \in Resources
               PROVE  PlaceOfThread(s)'
    OBVIOUS
  <2>1. PlaceOfThread(s) /\ (Heads(s) <=> s = r)
    BY DEF IInv, Heads
  <2>2. CASE s = r
    <3>1. thread'[s] = thread[s]
      BY <1>3, <1>4, <2>2 DEF IInv, Types, ShutdownTypeOK
    <3> QED  BY <1>1, <1>2, <2>2, <3>1 DEF PlaceOfThread, Put
  <2>3. CASE next /\ s = c
    BY <1>1, <1>3, <1>6, <2>1, <2>3 DEF PlaceOfThread, Put, IInv, Types, ShutdownTypeOK
  <2>4. CASE s # r /\ ~(next /\ s = c)
    <3>1. thread'[s] = thread[s] /\ place'[s] = place[s]
      BY <1>1, <1>3, <1>4, <2>4 DEF Put, IInv, Types, ShutdownTypeOK
    <3> QED  BY <1>6, <2>1, <2>4, <3>1 DEF PlaceOfThread
  <2> QED  BY <2>2, <2>3, <2>4
<1>11. DisplayFirst'
  <2> SUFFICES ASSUME NEW a \in Dedicated, thread'[<<a, "container">>] # "none"
               PROVE  thread'[<<a, "display">>] \in {"sent", "ended"} /\ ~Queued(<<a, "display">>)'
    BY DEF DisplayFirst
  <2>1. <<a, "display">> \in Resources /\ <<a, "container">> \in Resources
    BY ResourceNames
  <2>2. thread'[<<a, "display">>] = thread[<<a, "display">>]
    BY <1>3, <1>4, <2>1, ResourceNames DEF IInv, Types, ShutdownTypeOK
  <2>3. CASE next /\ a = r[1]
    BY <1>2, <1>6, <2>2, <2>3, ResourceNames
  <2>4. CASE ~(next /\ a = r[1])
    <3>1. <<a, "container">>[1] = a /\ c[1] = r[1]
      OBVIOUS
    <3>2. thread[<<a, "container">>] # "none"
      BY <1>3, <1>4, <2>1, <2>4, <3>1 DEF IInv, Types, ShutdownTypeOK
    <3> QED  BY <1>6, <2>2, <3>2 DEF IInv, DisplayFirst
  <2> QED  BY <2>3, <2>4
<1>12. OperationsBound'
  <2> SUFFICES ASSUME NEW p \in Attempted, NEW s \in Of(p)
               PROVE  Bound(p, s)'
    BY DEF OperationsBound
  <2>1. s \in Resources /\ s[1] = p /\ Bound(p, s)
    BY ResourceNames DEF IInv, OperationsBound
  <2>2. CASE p = r[1]
    <3>1. operation'[p] = "ui"
      BY <1>1, <1>2, <2>2
    <3>2. place'[s] \notin {"job", "remainder"}
      BY <1>1, <2>1, <2>2, ReplyAlone DEF Put
    <3> QED  BY <3>1, <3>2 DEF Bound
  <2>3. CASE p # r[1]
    <3>1. s # r /\ (next => s # c)
      BY <2>1, <2>3
    <3>2. thread'[s] = thread[s] /\ place'[s] = place[s]
      BY <1>1, <1>3, <1>4, <2>1, <3>1 DEF Put, IInv, Types, ShutdownTypeOK
    <3> QED  BY <1>1, <1>6, <2>1, <3>2 DEF Bound
  <2> QED  BY <2>2, <2>3
<1>13. Phases'
  BY <1>1, <1>2 DEF IInv, Phases, Retained, Put, Takes, Types, ShutdownTypeOK
<1> QED  BY <1>6, <1>7, <1>9, <1>10, <1>11, <1>12, <1>13 DEF IInv

LEMMA HandleMessageStep ==
  ASSUME IInv, HandleMessage
  PROVE  IInv'
<1> DEFINE m == Head(queue)
<1>1. Takes /\ ~closing /\ queue # << >>
  BY DEF HandleMessage, Takes, loopVars, IInv, Types, ShutdownTypeOK, Phases
<1>2. CASE m = NoResult /\ UNCHANGED <<leases, thread, place, operation>>
  BY <1>1, <1>2, DropStep
<1>3. ASSUME m # NoResult
      PROVE  /\ m.resource \in Resources /\ Heads(m.resource) /\ Queued(m.resource)
             /\ place[m.resource] = IF m.ok THEN "queue" ELSE "none"
  BY <1>1, <1>3, HeadReply
<1>4. CASE m # NoResult /\ ~m.ok /\ HandleFailure(m.resource[1])
  <2> DEFINE r == m.resource
  <2>1. r \in Resources /\ Heads(r) /\ Queued(r) /\ place[r] = "none"
    BY <1>3, <1>4
  <2> HIDE DEF m
  <2>2. CASE MoveToJob(r[1], {}) /\ UNCHANGED <<leases, thread>>
    <3>1. {} \in SUBSET {r} /\ (place[r] = "queue" => {} = {r})
      BY <2>1
    <3> QED  BY <1>1, <2>1, <2>2, <3>1, JobStep
  <2>3. CASE /\ OwnedByUi(r[1]) = {} /\ operation' = PutOperation(r[1], "released")
             /\ UNCHANGED <<place, leases, thread>>
    BY <1>1, <2>1, <2>3, ReleaseStep
  <2> QED  BY <1>4, <2>2, <2>3 DEF HandleFailure
<1>5. CASE m # NoResult /\ m.ok /\ HandleUnwanted(m.resource)
  <2> DEFINE r == m.resource
  <2>1. /\ r \in Resources /\ Heads(r) /\ Queued(r) /\ {r} \in SUBSET {r}
        /\ MoveToJob(r[1], {r}) /\ UNCHANGED <<leases, thread>>
    BY <1>3, <1>5 DEF HandleUnwanted
  <2> HIDE DEF m
  <2> QED  BY <1>1, <2>1, JobStep
<1>6. CASE m # NoResult /\ m.ok /\ HandleWanted(m.resource)
  BY <1>1, <1>3, <1>6, WantedStep
<1> QED  BY <1>2, <1>4, <1>5, <1>6 DEF HandleMessage

LEMMA DrainOneStep ==
  ASSUME IInv, DrainOne
  PROVE  IInv'
<1> DEFINE m == Head(queue)
<1>1. Takes /\ queue # << >> /\ UNCHANGED <<leases, thread>>
  BY ShutdownAssumption DEF DrainOne, Takes, IInv, Types, ShutdownTypeOK
<1>2. CASE OwnsProcess(m) /\ MoveToJob(m.resource[1], IF m.ok THEN {m.resource} ELSE {})
  <2>1. /\ m.resource \in Resources /\ Heads(m.resource) /\ Queued(m.resource)
        /\ place[m.resource] = IF m.ok THEN "queue" ELSE "none"
    BY <1>1, <1>2, HeadReply DEF OwnsProcess
  <2> DEFINE r == m.resource
             rs == IF m.ok THEN {r} ELSE {}
  <2>2. rs \in SUBSET {r} /\ (place[r] = "queue" => rs = {r})
    BY <2>1
  <2>3. MoveToJob(r[1], rs) /\ r \in Resources /\ Heads(r) /\ Queued(r)
    BY <1>2, <2>1
  <2> HIDE DEF r, rs
  <2> QED  BY <1>1, <2>2, <2>3, JobStep
<1>3. CASE ~OwnsProcess(m) /\ UNCHANGED <<place, operation>>
  BY <1>1, <1>3, DropStep DEF OwnsProcess
<1> QED  BY <1>2, <1>3 DEF DrainOne

-----------------------------------------------------------------------------
(* The exit, and the cleanup jobs. *)

LEMMA LoopExitingStep ==
  ASSUME IInv, LoopExiting
  PROVE  IInv'
<1> USE DEF LoopExiting
<1> DEFINE moved == UNION {OwnedByUi(a) : a \in Sessions \cup Managed}
<1>1. \A s \in Resources : s \in moved <=> place[s] = "ui" /\ s[1] \in Sessions \cup Managed
  BY ResourceNames DEF OwnedByUi
<1>2. place' = Put(moved, "job") /\ thread' = thread /\ queue' = queue
  OBVIOUS
<1> HIDE DEF moved
<1>3. Types'
  BY <1>2 DEF IInv, Types, ShutdownTypeOK, Put, Place, OperationPlace, LoopState
<1>4. LeasesCount'
  BY LeaseKept
<1>5. \A s : Queued(s) => thread'[s] \in {"sent", "ended"} /\ place'[s] = place[s]
  <2> SUFFICES ASSUME NEW s, Queued(s)
               PROVE  thread'[s] \in {"sent", "ended"} /\ place'[s] = place[s]
    OBVIOUS
  <2>1. s \in Resources /\ thread[s] \in {"sent", "ended"} /\ place[s] # "ui"
    BY QueuedIsResource, ReplyAlone
  <2> QED  BY <1>1, <1>2, <2>1 DEF Put
<1>6. \A i \in Replies : ReplyReached(i)'
  BY DEF IInv, RepliesSound, ReplyReached
<1>7. RepliesSound' /\ \A s : Queued(s)' <=> Queued(s)
  BY <1>2, <1>5, <1>6, RepliesKept DEF IInv
<1>8. \A s \in Resources : PlaceOfThread(s)'
  BY <1>1, <1>2, <1>7 DEF IInv, PlaceOfThread, Put
<1>9. DisplayFirst'
  BY <1>2, <1>7 DEF IInv, DisplayFirst
<1>10. OperationsBound'
  <2> SUFFICES ASSUME NEW p \in Attempted, NEW s \in Of(p)
               PROVE  Bound(p, s)'
    BY DEF OperationsBound
  <2>1. s \in Resources /\ s[1] = p /\ Bound(p, s) /\ p \notin Managed
    BY ResourceNames, ShutdownAssumption DEF IInv, OperationsBound
  <2>2. CASE p \notin Sessions
    BY <1>1, <1>2, <1>7, <2>1, <2>2 DEF Bound, Put
  <2>3. CASE p \in Sessions
    <3> DEFINE c == <<p, "container">>
    <3>1. c \in Of(p) /\ c \in Resources /\ place[c] = "ui" /\ operation[p] = "ui"
      BY <2>3, ResourceNames DEF Sessions, IInv, OperationsBound, Bound
    <3>2. thread[c] \notin Unsettled /\ thread[c] # "none" /\ ~Queued(c)
      BY <3>1, ReplyAlone DEF IInv, PlaceOfThread, Unsettled
    <3>3. s = c \/ (s = <<p, "display">> /\ p \in Dedicated)
      BY <2>1, ResourceNames DEF Attempted
    <3>4. thread[s] \notin Unsettled /\ ~Queued(s)
      BY <3>2, <3>3 DEF IInv, DisplayFirst, Unsettled
    <3>5. place'[s] \notin {"ui", "remainder"}
      BY <1>1, <1>2, <2>1, <2>3, <3>1 DEF Put, Bound
    <3> QED  BY <1>2, <1>7, <2>3, <3>4, <3>5 DEF Bound
  <2> QED  BY <2>2, <2>3
<1>11. Phases'
  BY <1>2 DEF IInv, Phases, Retained, Put, Types, ShutdownTypeOK
<1> QED  BY <1>3, <1>4, <1>7, <1>8, <1>9, <1>10, <1>11 DEF IInv

\* The drain begins; a reply is no further back than the channel's capacity.
LEMMA StartRoundStep ==
  ASSUME IInv, StartRound
  PROVE  IInv'
<1> USE DEF StartRound
<1>1. Types' /\ Phases'
  BY ShutdownAssumption DEF IInv, Types, ShutdownTypeOK, LoopState, Phases, Retained
<1>2. \A i \in Replies : ReplyReached(i)'
  <2> SUFFICES ASSUME NEW i \in Replies
               PROVE  ReplyReached(i)'
    OBVIOUS
  <2>1. i \in Nat /\ i <= Capacity
    BY DEF Replies, IInv, RepliesSound, ReplyReached, Types, ShutdownTypeOK
  <2> QED  BY <2>1, ShutdownAssumption DEF ReplyReached
<1>3. \A s : Queued(s) => thread[s] \in {"sent", "ended"}
  BY QueuedIsResource, ReplyAlone
<1>4. RepliesSound' /\ \A s : Queued(s)' <=> Queued(s)
  BY <1>2, <1>3, RepliesKept DEF IInv
<1> QED  BY <1>1, <1>4, QuietStep DEF IInv, PlaceOfThread

\* Once a drain has ended no reply is left.
LEMMA EndDrainStep ==
  ASSUME IInv, EndDrain
  PROVE  IInv'
<1> USE DEF EndDrain
<1>1. Types' /\ Phases'
  BY ShutdownAssumption DEF IInv, Types, ShutdownTypeOK, LoopState, Phases, Retained
<1>2. Replies = {}
  <2> SUFFICES ASSUME NEW i \in Replies
               PROVE  FALSE
    OBVIOUS
  <2>1. i \in Nat \ {0} /\ i + drained <= DrainMax /\ drained \in Nat /\ queue # << >>
    BY DEF Replies, IInv, RepliesSound, ReplyReached, Types, ShutdownTypeOK
  <2> QED  BY <2>1, ShutdownAssumption
<1>3. \A s : ~Queued(s)
  BY <1>2 DEF Queued
<1>4. RepliesSound' /\ \A s : Queued(s)' <=> Queued(s)
  BY <1>2, <1>3, RepliesKept DEF IInv
<1> QED  BY <1>1, <1>4, QuietStep DEF IInv, PlaceOfThread

LEMMA NextRoundStep ==
  ASSUME IInv, NextRound
  PROVE  IInv'
<1> USE DEF NextRound
<1>1. Types' /\ Phases'
  BY DEF IInv, Types, ShutdownTypeOK, LoopState, Phases, Retained
<1>2. Replies = {}
  BY DEF IInv, RepliesSound, ReplyReached
<1>3. \A s : ~Queued(s)
  BY <1>2 DEF Queued
<1>4. RepliesSound' /\ \A s : Queued(s)' <=> Queued(s)
  BY <1>2, <1>3, RepliesKept DEF IInv
<1> QED  BY <1>1, <1>4, QuietStep DEF IInv, PlaceOfThread

\* Steps after the last drain that only move resources between owners.
LEMMA OwnerStep ==
  ASSUME IInv, UNCHANGED <<closing, leases, thread, queue, noise, idle, drained, rounds>>,
         NEW places \in [Resources -> Place], place' = places,
         \A r \in Resources : places[r] = place[r] \/
            (/\ place[r] \in {"ui", "job", "remainder"}
             /\ places[r] \in {"job", "remainder", "released"}),
         Types', OperationsBound', Phases',
         loop' = loop \/ loop = "test"
  PROVE  IInv'
<1>1. LeasesCount'
  BY LeaseKept
<1>2. \A s : Queued(s) => thread'[s] \in {"sent", "ended"} /\ place'[s] = place[s]
  <2> SUFFICES ASSUME NEW s, Queued(s)
               PROVE  thread'[s] \in {"sent", "ended"} /\ place'[s] = place[s]
    OBVIOUS
  <2> QED  BY QueuedIsResource, ReplyAlone
<1>3. \A i \in Replies : ReplyReached(i)'
  BY DEF IInv, RepliesSound, ReplyReached
<1>4. RepliesSound' /\ \A s : Queued(s)' <=> Queued(s)
  BY <1>2, <1>3, RepliesKept DEF IInv
<1>5. \A s \in Resources : PlaceOfThread(s)'
  BY <1>4 DEF IInv, PlaceOfThread
<1>6. DisplayFirst'
  BY <1>4 DEF IInv, DisplayFirst
<1> QED  BY <1>1, <1>4, <1>5, <1>6 DEF IInv

LEMMA RetainRemaindersStep ==
  ASSUME IInv, RetainRemainders
  PROVE  IInv'
<1> USE DEF RetainRemainders
<1> DEFINE places == Put({r \in Resources : place[r] = "ui"}, "remainder")
<1>1. /\ places \in [Resources -> Place] /\ place' = places
      /\ \A r \in Resources : places[r] = IF place[r] = "ui" THEN "remainder" ELSE place[r]
  BY DEF Put, Place, IInv, Types, ShutdownTypeOK
<1> HIDE DEF places
<1>2. Types'
  BY <1>1 DEF IInv, Types, ShutdownTypeOK, Place, OperationPlace, LoopState
<1>3. \A s : ~Queued(s)
  BY DEF Queued, IInv, RepliesSound, ReplyReached
<1>4. \A s : ~Queued(s)'
  BY <1>3 DEF Queued, Replies
<1>5. OperationsBound'
  <2> SUFFICES ASSUME NEW p \in Attempted, NEW s \in Of(p)
               PROVE  Bound(p, s)'
    BY DEF OperationsBound
  <2>1. s \in Resources /\ Bound(p, s)
    BY ResourceNames DEF IInv, OperationsBound
  <2> QED  BY <1>1, <1>3, <1>4, <2>1 DEF Bound
<1>6. Phases'
  BY <1>1 DEF IInv, Phases, Retained
<1> QED  BY <1>1, <1>2, <1>5, <1>6, OwnerStep

\* The receiver goes: nothing is queued by then.
LEMMA FinishStep ==
  ASSUME IInv, NEW done \in BOOLEAN, Finish(done)
  PROVE  IInv'
<1> USE DEF Finish
<1>1. \A s : ~Queued(s)
  BY DEF Queued, IInv, RepliesSound, ReplyReached
<1>2. {r \in Resources : place[r] = "queue"} = {}
  BY <1>1 DEF IInv, PlaceOfThread
<1>3. place' = place
  BY <1>2 DEF Put, IInv, Types, ShutdownTypeOK
<1>4. queue' \in Seq(Message) /\ Replies' = {}
  BY DEF Replies
<1>5. RepliesSound' /\ \A s : ~Queued(s)'
  BY <1>4 DEF RepliesSound, Queued
<1>6. Types'
  BY <1>3, <1>4 DEF IInv, Types, ShutdownTypeOK, LoopState
<1>7. Phases'
  BY <1>3 DEF IInv, Phases, Retained, CleanupEmpty, Types, ShutdownTypeOK
<1> QED  BY <1>1, <1>3, <1>5, <1>6, <1>7, QuietStep DEF IInv, PlaceOfThread

LEMMA JobDoneStep ==
  ASSUME IInv, NEW a \in Attempted \cup Managed, JobDone(a)
  PROVE  IInv'
<1> USE DEF JobDone, loopVars
<1> DEFINE places == [r \in Resources |-> IF r[1] = a THEN Unjob(place[r]) ELSE place[r]]
<1>1. /\ places \in [Resources -> Place] /\ place' = places
      /\ \A r \in Resources : places[r] = IF r[1] = a /\ place[r] = "job" THEN "released"
                                                                         ELSE place[r]
  BY DEF Unjob, Place, IInv, Types, ShutdownTypeOK
<1> HIDE DEF places
<1>2. \A p \in Attempted : operation'[p] = IF p = a /\ operation[p] = "job" THEN "released"
                                                                          ELSE operation[p]
  BY DEF Unjob
<1>3. Types'
  BY <1>1 DEF IInv, Types, ShutdownTypeOK, Place, OperationPlace, Unjob
<1>4. \A s : Queued(s)' <=> Queued(s)
  BY DEF Queued, Replies
<1>5. OperationsBound'
  <2> SUFFICES ASSUME NEW p \in Attempted, NEW s \in Of(p)
               PROVE  Bound(p, s)'
    BY DEF OperationsBound
  <2>1. s \in Resources /\ s[1] = p /\ Bound(p, s)
    BY ResourceNames DEF IInv, OperationsBound
  <2> QED  BY <1>1, <1>2, <1>4, <2>1 DEF Bound
<1>6. Phases'
  BY <1>1, <1>2 DEF IInv, Phases, Retained
<1> QED  BY <1>1, <1>3, <1>5, <1>6, OwnerStep

LEMMA RemaindersDoneStep ==
  ASSUME IInv, RemaindersDone
  PROVE  IInv'
<1> USE DEF RemaindersDone, NoProducer
<1> DEFINE places == Put({r \in Resources : place[r] = "remainder"}, "released")
<1>1. /\ places \in [Resources -> Place] /\ place' = places
      /\ \A r \in Resources : places[r] = IF place[r] = "remainder" THEN "released" ELSE place[r]
  BY DEF Put, Place, IInv, Types, ShutdownTypeOK
<1> HIDE DEF places
<1>2. Types'
  BY <1>1 DEF IInv, Types, ShutdownTypeOK, Place, OperationPlace
<1>3. \A s : ~Queued(s)
  BY DEF Queued, IInv, RepliesSound, ReplyReached, Phases, Retained
<1>4. \A s : ~Queued(s)'
  BY <1>3 DEF Queued, Replies
<1>5. \A r \in Resources : thread'[r] \notin Unsettled
  BY NoLeaseNoThread DEF Unsettled
<1>6. OperationsBound'
  <2> SUFFICES ASSUME NEW p \in Attempted, NEW s \in Of(p)
               PROVE  Bound(p, s)'
    BY DEF OperationsBound
  <2>1. s \in Resources /\ Bound(p, s)
    BY ResourceNames DEF IInv, OperationsBound
  <2> QED  BY <1>1, <1>4, <1>5, <2>1 DEF Bound
<1>7. Phases'
  BY <1>1 DEF IInv, Phases, Retained
<1> QED  BY <1>1, <1>2, <1>6, <1>7, OwnerStep

-----------------------------------------------------------------------------
(* The theorems. *)

LEMMA IInvInit == ShutdownInit => IInv
<1> SUFFICES ASSUME ShutdownInit
             PROVE  IInv
  OBVIOUS
<1> USE DEF ShutdownInit
<1>1. Types
  <2>1. drained \in 0 .. DrainMax /\ rounds \in 0 .. MinRounds /\ noise \in 0 .. MaxNoise
    BY ShutdownAssumption
  <2>2. queue \in Seq(Message)
    OBVIOUS
  <2> QED  BY <2>1, <2>2
              DEF Types, ShutdownTypeOK, ThreadState, Place, OperationPlace, LoopState
<1>2. Leased = {}
  BY DEF Leased, Holding
<1>3. LeasesCount
  BY <1>2, FS_EmptySet DEF LeasesCount
<1>4. Replies = {}
  BY DEF Replies
<1>5. RepliesSound /\ \A s : ~Queued(s)
  BY <1>4 DEF RepliesSound, Queued
<1>6. \A r \in Resources : PlaceOfThread(r)
  BY DEF PlaceOfThread
<1>7. DisplayFirst /\ OperationsBound
  BY <1>5, ResourceNames DEF DisplayFirst, OperationsBound, Bound, Unsettled
<1>8. Phases
  BY DEF Phases, Retained
<1> QED  BY <1>1, <1>3, <1>5, <1>6, <1>7, <1>8 DEF IInv

LEMMA IInvStep ==
  ASSUME IInv, [ShutdownNext]_shutdownVars
  PROVE  IInv'
<1>1. CASE UNCHANGED shutdownVars
  <2> USE <1>1 DEF shutdownVars, loopVars
  <2>1. \A s : Queued(s)' <=> Queued(s)
    BY DEF Queued, Replies
  <2>2. Types' /\ Phases' /\ RepliesSound'
    BY DEF IInv, Types, ShutdownTypeOK, Phases, Retained, RepliesSound, Replies,
           ReplyOfThread, ReplyReached
  <2> QED  BY <2>1, <2>2, QuietStep DEF IInv, PlaceOfThread
<1>2. ASSUME NEW r \in Resources, StartAttempt(r) \/ Producer(r)
      PROVE  IInv'
  BY <1>2, StartAttemptStep, ThreadStartsStep, WorkDoneStep, SendReplyStep, SendRefusedStep,
     ThreadEndsStep, RolledBackStep DEF Producer
<1>3. CASE ExitStep
  BY <1>3, StartRoundStep, DrainOneStep, EndDrainStep, NextRoundStep, RetainRemaindersStep,
     FinishStep DEF ExitStep
<1>4. CASE SendNoise \/ HandleMessage \/ LoopExiting \/ RemaindersDone
  BY <1>4, SendNoiseStep, HandleMessageStep, LoopExitingStep, RemaindersDoneStep
<1>5. ASSUME NEW a \in Attempted \cup Managed, JobDone(a)
      PROVE  IInv'
  BY <1>5, JobDoneStep
<1> QED  BY <1>1, <1>2, <1>3, <1>4, <1>5 DEF ShutdownNext

\* What IInv says of a shutdown that reports success.
LEMMA IInvReserves == IInv => ReservedUntilReleased
<1> SUFFICES ASSUME IInv
             PROVE  ReservedUntilReleased
  OBVIOUS
<1>1. ReservedWhileAlive
  <2> SUFFICES ASSUME NEW p \in Attempted, NEW r \in Of(p), Alive(r)
               PROVE  operation[p] \in {"ui", "job", "remainder"}
    BY DEF ReservedWhileAlive
  <2>1. r \in Resources /\ Bound(p, r) /\ PlaceOfThread(r)
    BY ResourceNames DEF IInv, OperationsBound
  <2> QED  BY <2>1 DEF Alive, Bound, PlaceOfThread, Unsettled
<1>2. SuccessMeansReleased
  <2> SUFFICES ASSUME loop = "gone", finished
               PROVE  /\ \A r \in Resources : place[r] \in {"none", "released"}
                      /\ \A p \in Attempted : operation[p] \in {"none", "released"}
    BY DEF SuccessMeansReleased
  <2>1. leases = 0 /\ retained = "done"
    BY DEF IInv, Phases
  <2>2. \A r \in Resources : thread[r] \in {"none", "ended"}
    BY <2>1, NoLeaseNoThread
  <2>3. \A r \in Resources : ~Queued(r)
    BY DEF Queued, IInv, RepliesSound, ReplyReached
  <2>4. \A r \in Resources : place[r] \notin {"ui", "job", "remainder"}
    BY <2>1 DEF IInv, Phases, Retained
  <2>5. \A p \in Attempted : operation[p] \notin {"ui", "job", "remainder"}
    BY <2>1 DEF IInv, Phases, Retained
  <2> QED  BY <2>2, <2>3, <2>4, <2>5
              DEF IInv, Types, ShutdownTypeOK, PlaceOfThread, Place, OperationPlace
<1> QED  BY <1>1, <1>2 DEF ReservedUntilReleased, IInv, Types

LEMMA IInvHolds == ShutdownSpec => []IInv
  BY IInvInit, IInvStep, PTL DEF ShutdownSpec

\* No process or container is lost with the channel, however many messages are
\* queued when the loop exits and however late the workers send: close() admits
\* no reply after the drain has begun, and one drain reaches all there were.
THEOREM NoReplyLost == ShutdownSpec => []NothingLost
<1>1. IInv => NothingLost
  BY DEF IInv, PlaceOfThread, NothingLost
<1> QED  BY <1>1, IInvHolds, PTL

\* Every identity stays reserved while anything of its attempt exists or may
\* still be created, and a shutdown that reports success released everything,
\* the rollbacks of workers whose replies it never saw included.
THEOREM ReservedToTheEnd == ShutdownSpec => []ReservedUntilReleased
  BY IInvReserves, IInvHolds, PTL
=============================================================================
