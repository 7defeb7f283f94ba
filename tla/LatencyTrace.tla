----------------------------- MODULE LatencyTrace -----------------------------
(***************************************************************************)
(* latency_trace.rs: threads record events of the input and frame path into *)
(* a bounded queue, one worker writes them to a file, and at exit the event *)
(* loop closes the capture and waits a moment for its final counts.         *)
(*                                                                         *)
(* One word, admission, holds the closed bit and the number of calls that   *)
(* are recording.  An event is what a call tries to enqueue; a fan-out call *)
(* (record_frame_at_ns, gpu_execution) tries several under one admission.   *)
(***************************************************************************)
EXTENDS Integers, FiniteSets

CONSTANTS
  Recorders,     \* threads that hold a clone of the trace handle
  TraceCapacity, \* QUEUE_CAPACITY
  FanOut,        \* events of one recording call at most
  MaxCalls,      \* bound: recording calls
  NoTrace

ASSUME LatencyTraceAssumption ==
  /\ IsFiniteSet(Recorders) /\ TraceCapacity \in Nat /\ FanOut \in Nat /\ MaxCalls \in Nat
  /\ NoTrace \notin [closed : BOOLEAN, active : Nat]

VARIABLES
  admission, \* [closed, active]
  recorder,  \* recorder -> [pc, seen, left]; "gone" has dropped its handle
  traceQueue,\* events in the channel
  losses,    \* Counts: [dropped, rejected, late]
  tracer,    \* the worker: [pc, gone]; gone is what its last try_recv saw of the producers
  received,  \* events the worker took out of the channel
  summary,   \* the CaptureSummary of the worker, NoTrace before
  completion,\* the completion channel: "empty", "ok", "error" or "disconnected"
  finisher,  \* what finish_timeout told the exiting loop
  attempted, \* events that admitted calls have tried to enqueue
  calls
traceVars == <<admission, recorder, traceQueue, losses, tracer, received, summary, completion,
               finisher, attempted, calls>>

NotRecording == [pc |-> "out", seen |-> NoTrace, left |-> 0]
ReceiverOpen == tracer.pc \notin {"closing", "sending", "ended", "panicked"}
Handles == {r \in Recorders : recorder[r].pc # "gone"}

LatencyTraceInit ==
  /\ admission = [closed |-> FALSE, active |-> 0]
  /\ recorder = [r \in Recorders |-> NotRecording]
  /\ traceQueue = 0 /\ received = 0 /\ attempted = 0 /\ calls = 0
  /\ losses = [dropped |-> 0, rejected |-> 0, late |-> 0]
  /\ tracer = [pc |-> "top", gone |-> FALSE]
  /\ summary = NoTrace /\ completion = "empty" /\ finisher = "idle"

(***************************************************************************)
(* Recording calls                                                         *)
(***************************************************************************)
\* Counts::enter loads the word; a closed capture counts a late call.
LoadAdmission(r) ==
  /\ recorder[r].pc = "out" /\ calls < MaxCalls
  /\ calls' = calls + 1
  /\ recorder' = [recorder EXCEPT ![r] = [NotRecording EXCEPT !.pc = "cas", !.seen = admission]]
  /\ UNCHANGED <<admission, traceQueue, losses, tracer, received, summary, completion, finisher, attempted>>

EnterRefused(r) ==
  /\ recorder[r].pc = "cas" /\ recorder[r].seen.closed
  /\ losses' = [losses EXCEPT !.late = @ + 1]
  /\ recorder' = [recorder EXCEPT ![r] = NotRecording]
  /\ UNCHANGED <<admission, traceQueue, tracer, received, summary, completion, finisher, attempted, calls>>

\* Mutated form: the admission is not compared with what was loaded.
AdmissionStored(r) ==
  LET c == recorder[r] IN
  /\ c.pc = "cas" /\ ~c.seen.closed
  /\ IF TRUE
     THEN /\ admission' = [admission EXCEPT !.active = @ + 1]
          /\ \E n \in 1 .. FanOut :
               recorder' = [recorder EXCEPT ![r] = [NotRecording EXCEPT !.pc = "recording", !.left = n]]
     ELSE /\ recorder' = [recorder EXCEPT ![r].seen = admission]
          /\ UNCHANGED admission
  /\ UNCHANGED <<traceQueue, losses, tracer, received, summary, completion, finisher, attempted, calls>>

\* compare_exchange_weak: admitted only if nothing moved since the load.
CompareExchange(r) ==
  LET c == recorder[r] IN
  /\ c.pc = "cas" /\ ~c.seen.closed
  /\ IF admission = c.seen
     THEN /\ admission' = [admission EXCEPT !.active = @ + 1]
          /\ \E n \in 1 .. FanOut :
               recorder' = [recorder EXCEPT ![r] = [NotRecording EXCEPT !.pc = "recording", !.left = n]]
     ELSE /\ recorder' = [recorder EXCEPT ![r].seen = admission]
          /\ UNCHANGED admission
  /\ UNCHANGED <<traceQueue, losses, tracer, received, summary, completion, finisher, attempted, calls>>

\* An event with a bad time or tag is rejected, one without room dropped.
EnqueueEvent(r) ==
  LET c == recorder[r] IN
  /\ c.pc = "recording" /\ c.left > 0
  /\ recorder' = [recorder EXCEPT ![r].left = @ - 1]
  /\ attempted' = attempted + 1
  /\ \/ losses' = [losses EXCEPT !.rejected = @ + 1] /\ UNCHANGED traceQueue
     \/ /\ ReceiverOpen /\ traceQueue < TraceCapacity
        /\ traceQueue' = traceQueue + 1 /\ UNCHANGED losses
     \/ /\ ~(ReceiverOpen /\ traceQueue < TraceCapacity)
        /\ losses' = [losses EXCEPT !.dropped = @ + 1] /\ UNCHANGED traceQueue
  /\ UNCHANGED <<admission, tracer, received, summary, completion, finisher, calls>>

\* Recording::drop.
LeaveRecording(r) ==
  /\ recorder[r].pc = "recording" /\ recorder[r].left = 0
  /\ admission' = [admission EXCEPT !.active = @ - 1]
  /\ recorder' = [recorder EXCEPT ![r] = NotRecording]
  /\ UNCHANGED <<traceQueue, losses, tracer, received, summary, completion, finisher, attempted, calls>>

DropHandle(r) ==
  /\ recorder[r].pc = "out"
  /\ recorder' = [recorder EXCEPT ![r].pc = "gone"]
  /\ UNCHANGED <<admission, traceQueue, losses, tracer, received, summary, completion, finisher, attempted, calls>>

(***************************************************************************)
(* The worker: write_trace_to and TraceWriter::spawn                       *)
(***************************************************************************)
CloseCapture == admission' = [admission EXCEPT !.closed = TRUE]
TracerAt(pc) == tracer' = [tracer EXCEPT !.pc = pc]

\* closed_and_idle decides how the worker looks at the channel.
LookAtAdmission ==
  /\ tracer.pc = "top"
  /\ TracerAt(IF admission.closed /\ admission.active = 0 THEN "drain" ELSE "receive")
  /\ UNCHANGED <<admission, recorder, traceQueue, losses, received, summary, completion, finisher, attempted, calls>>

TakeEvent ==
  /\ tracer.pc \in {"drain", "receive"} /\ traceQueue > 0
  /\ traceQueue' = traceQueue - 1 /\ received' = received + 1
  /\ TracerAt("write")
  /\ UNCHANGED <<admission, recorder, losses, summary, completion, finisher, attempted, calls>>

\* Empty or disconnected once closed and idle: the capture is drained.
CaptureDrained ==
  /\ tracer.pc = "drain" /\ traceQueue = 0
  /\ tracer' = [pc |-> "final", gone |-> Handles = {}]
  /\ UNCHANGED <<admission, recorder, traceQueue, losses, received, summary, completion, finisher, attempted, calls>>

\* recv_timeout: a flush interval passes, or every handle is gone.
ReceiveNothing ==
  /\ tracer.pc = "receive" /\ traceQueue = 0
  /\ IF Handles = {} THEN CloseCapture ELSE UNCHANGED admission
  /\ TracerAt("top")
  /\ UNCHANGED <<recorder, traceQueue, losses, received, summary, completion, finisher, attempted, calls>>

EventWritten ==
  /\ tracer.pc = "write"
  /\ TracerAt("top")
  /\ UNCHANGED <<admission, recorder, traceQueue, losses, received, summary, completion, finisher, attempted, calls>>

\* The final counts are read, written and flushed.
FinalStats ==
  /\ tracer.pc = "final"
  /\ summary' = [dropped |-> losses.dropped, rejected |-> losses.rejected,
                 late |-> losses.late, known |-> tracer.gone]
  /\ TracerAt("closing")
  /\ UNCHANGED <<admission, recorder, traceQueue, losses, received, completion, finisher, attempted, calls>>

\* The file cannot be opened, written or flushed: the receiver goes with the error, and
\* with it every event still queued, uncounted.
SinkFails ==
  /\ tracer.pc \in {"top", "write", "final"}
  /\ TracerAt("closing") /\ traceQueue' = 0
  /\ UNCHANGED <<admission, recorder, losses, received, summary, completion, finisher, attempted, calls>>

\* A write or a flush may also never return.
SinkHangs ==
  /\ tracer.pc \in {"write", "final"}
  /\ TracerAt("hung")
  /\ UNCHANGED <<admission, recorder, traceQueue, losses, received, summary, completion, finisher, attempted, calls>>

\* A panic drops the receiver too.
WorkerPanics ==
  /\ tracer.pc = "write"
  /\ CloseCapture /\ completion' = "disconnected" /\ TracerAt("panicked") /\ traceQueue' = 0
  /\ UNCHANGED <<recorder, losses, received, summary, finisher, attempted, calls>>

\* CloseOnWorkerExit, then the result.
CloseOnExit ==
  /\ tracer.pc = "closing"
  /\ CloseCapture /\ TracerAt("sending")
  /\ UNCHANGED <<recorder, traceQueue, losses, received, summary, completion, finisher, attempted, calls>>
SendResult ==
  /\ tracer.pc = "sending"
  /\ completion' = IF summary = NoTrace THEN "error" ELSE "ok"
  /\ TracerAt("ended")
  /\ UNCHANGED <<admission, recorder, traceQueue, losses, received, summary, finisher, attempted, calls>>

(***************************************************************************)
(* The exiting event loop: finish_timeout                                  *)
(***************************************************************************)
FinishTimeout ==
  /\ finisher = "idle"
  /\ CloseCapture /\ finisher' = "waiting"
  /\ UNCHANGED <<recorder, traceQueue, losses, tracer, received, summary, completion, attempted, calls>>

FinishReturns ==
  /\ finisher = "waiting"
  /\ \/ completion # "empty" /\ finisher' = completion
     \/ completion = "empty" /\ finisher' = "timeout"
  /\ UNCHANGED <<admission, recorder, traceQueue, losses, tracer, received, summary, completion, attempted, calls>>

RecorderStep(r) == EnterRefused(r) \/ CompareExchange(r) \/ EnqueueEvent(r) \/ LeaveRecording(r)
TracerStep == \/ LookAtAdmission \/ TakeEvent \/ CaptureDrained \/ ReceiveNothing
              \/ EventWritten \/ FinalStats \/ CloseOnExit \/ SendResult

LatencyTraceNext ==
  \/ \E r \in Recorders : LoadAdmission(r) \/ RecorderStep(r) \/ DropHandle(r)
  \/ TracerStep \/ SinkFails \/ SinkHangs \/ WorkerPanics
  \/ FinishTimeout \/ FinishReturns

\* Threads are scheduled; a recording call does nothing that blocks.
LatencyTraceFairness ==
  /\ \A r \in Recorders : WF_traceVars(RecorderStep(r))
  /\ WF_traceVars(TracerStep) /\ WF_traceVars(FinishReturns)

LatencyTraceSpec == LatencyTraceInit /\ [][LatencyTraceNext]_traceVars /\ LatencyTraceFairness

(***************************************************************************)
(* Properties                                                              *)
(***************************************************************************)
LatencyTraceTypeOK ==
  /\ admission \in [closed : BOOLEAN, active : Nat]
  /\ recorder \in [Recorders -> [pc : {"out", "cas", "recording", "gone"},
                                 seen : {NoTrace} \union [closed : BOOLEAN, active : Nat],
                                 left : 0 .. FanOut]]
  /\ traceQueue \in 0 .. TraceCapacity
  /\ losses \in [dropped : Nat, rejected : Nat, late : Nat]
  /\ tracer \in [pc : {"top", "drain", "receive", "write", "final", "closing", "sending",
                       "ended", "panicked", "hung"}, gone : BOOLEAN]
  /\ received \in Nat /\ attempted \in Nat /\ calls \in 0 .. MaxCalls
  /\ summary \in {NoTrace} \union [dropped : Nat, rejected : Nat, late : Nat, known : BOOLEAN]
  /\ completion \in {"empty", "ok", "error", "disconnected"}
  /\ finisher \in {"idle", "waiting", "timeout", "ok", "error", "disconnected"}

\* The sink failed or the worker panicked.
CaptureFailed ==
  tracer.pc = "panicked" \/ (summary = NoTrace /\ tracer.pc \in {"closing", "sending", "ended"})

\* As long as the capture has not failed, every event a call was admitted for was taken by
\* the worker for the file, is in the queue or is counted as lost.  An error leaves totals
\* and persistence unconfirmed (what the worker had taken may not be on disk); then what it
\* never took and nobody counted is at most one full queue, and nothing is counted twice.
EventsAccounted ==
  LET known == received + traceQueue + losses.dropped + losses.rejected
  IN  /\ known <= attempted /\ attempted <= known + TraceCapacity
      /\ ~CaptureFailed => attempted = known

\* "Returned only after all admitted calls are accounted for, drained and flushed":
\* a summary is the whole truth about the admitted calls, and no call that was
\* admitted before the close adds to it afterwards.
SummaryIsFinal ==
  summary # NoTrace =>
    /\ admission.active = 0 /\ traceQueue = 0
    /\ attempted = received + summary.dropped + summary.rejected
    /\ \A r \in Recorders : recorder[r].pc # "recording"

\* Lifetime totals are only claimed when nobody is left who could add a late call.
KnownMeansKnown ==
  summary # NoTrace /\ summary.known => summary.late = losses.late /\ Handles = {}

\* Held handles, late calls and a failing sink do not keep the capture from its
\* end once it is closed: unless the sink hangs, the worker says how it ended.
TraceCaptureEnds == admission.closed ~> completion # "empty" \/ tracer.pc = "hung"

\* The exiting loop is never held by the trace, also when the sink never returns.
FinishEnds == finisher = "waiting" ~> finisher # "waiting"

\* Unless the sink fails or the worker panics, no event of an admitted call is lost without being
\* counted, and a summary is the whole and final truth about the admitted calls.
TraceInvariant ==
    /\ LatencyTraceTypeOK
    /\ EventsAccounted
    /\ SummaryIsFinal
    /\ KnownMeansKnown
===============================================================================
