-------------------------------- MODULE Audio --------------------------------
(***************************************************************************)
(* audio.rs: the worker of one profile's sound.  It waits for the guest,    *)
(* connects, fills the buffers of an AudioQueue from the socket and refills *)
(* each one that CoreAudio hands back; the session's cleanup sets the stop  *)
(* flag, joins the thread and clears the status.  A later session of the    *)
(* profile starts a new worker.                                            *)
(***************************************************************************)
EXTENDS Integers, FiniteSets, Sequences

CONSTANTS
    AudioBuffers,   \* BUFFER_COUNT buffers
    MaxWorkers,     \* bound: workers started one after the other for the profile
    NoAudio

ASSUME AudioAssumption ==
    IsFiniteSet(AudioBuffers) /\ MaxWorkers \in Nat /\ NoAudio \notin AudioBuffers

VARIABLES
    audio,       \* the worker: [n, pc, stop, hand, left]
    buffers,     \* buffer -> "own" (the worker may write), "queued" (CoreAudio), "done" (channel)
    played,      \* the channel of buffers handed back
    audioQueue,  \* the AudioQueue: "none", "made", "started"; its callback context lives as long
    audioStatus, \* the profile's entry of AUDIO_STATUS
    audioOwner   \* the session's cleanup: "none", "running", "joining", "cleared"

audioVars == <<audio, buffers, played, audioQueue, audioStatus, audioOwner>>

Ended == [n |-> audio.n, pc |-> "end", stop |-> audio.stop, hand |-> NoAudio, left |-> {}]

AudioInit ==
    /\ audio = [n |-> 0, pc |-> "none", stop |-> FALSE, hand |-> NoAudio, left |-> {}]
    /\ buffers = [b \in AudioBuffers |-> "own"] /\ played = <<>>
    /\ audioQueue = "none" /\ audioStatus = NoAudio /\ audioOwner = "none"

-----------------------------------------------------------------------------
(***************************************************************************)
(* The session: AudioWorker::start, request_stop, stop.                    *)
(***************************************************************************)
StartAudio ==
    /\ audioOwner \in {"none", "cleared"} /\ audio.n < MaxWorkers
    /\ audioOwner' = "running" /\ audioStatus' = "connecting"
    \* The thread may not start.
    /\ \E pc \in {"warmup", "end"} :
         audio' = [n |-> audio.n + 1, pc |-> pc, stop |-> FALSE, hand |-> NoAudio, left |-> {}]
    /\ UNCHANGED <<buffers, played, audioQueue>>

RequestStop ==
    /\ audioOwner = "running"
    /\ audioOwner' = "joining" /\ audio' = [audio EXCEPT !.stop = TRUE]
    /\ UNCHANGED <<buffers, played, audioQueue, audioStatus>>

\* join, then clear_status.
JoinAndClear ==
    /\ audioOwner = "joining" /\ audio.pc = "end"
    /\ audioOwner' = "cleared" /\ audioStatus' = NoAudio
    /\ UNCHANGED <<audio, buffers, played, audioQueue>>

-----------------------------------------------------------------------------
(***************************************************************************)
(* The thread.                                                             *)
(***************************************************************************)
\* AudioOutput::drop: the queue is disposed at once, then the context is freed.
Dispose ==
    /\ audioQueue' = "none" /\ played' = <<>>
    /\ buffers' = [b \in AudioBuffers |-> "own"]
Keep == UNCHANGED <<buffers, played, audioQueue>>

\* Two seconds before the first attempt, then attempts for eighteen.
Warmup ==
    /\ audio.pc = "warmup"
    /\ audio' = IF audio.stop THEN Ended ELSE [audio EXCEPT !.pc = "connect"]
    /\ Keep /\ UNCHANGED <<audioStatus, audioOwner>>
Connect ==
    /\ audio.pc = "connect"
    /\ \/ /\ audio.stop /\ audio' = Ended /\ Keep /\ UNCHANGED audioStatus
       \/ /\ ~audio.stop   \* connected, and the queue with its buffers is made
          /\ audio' = [audio EXCEPT !.pc = "prime", !.left = AudioBuffers]
          /\ audioStatus' = "idle" /\ audioQueue' = "made" /\ UNCHANGED <<buffers, played>>
       \/ /\ ~audio.stop   \* the deadline passed, or the queue could not be made
          /\ audio' = [audio EXCEPT !.pc = "failing"] /\ Keep
          /\ audioStatus' \in {audioStatus, "idle"}
    /\ UNCHANGED audioOwner

\* fill_audio_buffer reads until the buffer is full, the stream ends or stop is set;
\* nothing read ends the playback.
FillResults == {"filled", "empty", "failed"}

\* The first buffers, one after the other; then the queue starts.
Prime(b, r) ==
    /\ audio.pc = "prime" /\ b \in audio.left
    /\ buffers[b] = "own"
    /\ CASE r = "filled" -> /\ buffers' = [buffers EXCEPT ![b] = "queued"]
                            /\ audio' = [audio EXCEPT !.left = @ \ {b}]
                            /\ UNCHANGED <<played, audioQueue>>
         [] r = "empty" -> audio' = Ended /\ Dispose
         [] OTHER -> audio' = [audio EXCEPT !.pc = "failing", !.left = {}] /\ Dispose
    /\ UNCHANGED <<audioStatus, audioOwner>>
StartQueue ==
    /\ audio.pc = "prime" /\ audio.left = {}
    /\ \/ /\ audioQueue' = "started" /\ audioStatus' = "playing"
          /\ audio' = [audio EXCEPT !.pc = "play"] /\ UNCHANGED <<buffers, played>>
       \/ audio' = [audio EXCEPT !.pc = "failing"] /\ Dispose /\ UNCHANGED audioStatus
    /\ UNCHANGED audioOwner

\* Mutated form: the channel keeps the buffer.
NextBufferPeeks ==
    /\ audio.pc = "play"
    /\ \/ /\ audio.stop /\ audio' = Ended /\ Dispose
       \/ /\ ~audio.stop /\ played # <<>>
          /\ audio' = [audio EXCEPT !.pc = "fill", !.hand = Head(played)]
          /\ UNCHANGED played
          /\ buffers' = [buffers EXCEPT ![Head(played)] = "own"]
          /\ UNCHANGED audioQueue
    /\ UNCHANGED <<audioStatus, audioOwner>>

\* The play loop: the stop flag, then the next buffer handed back.
NextBuffer ==
    /\ audio.pc = "play"
    /\ \/ /\ audio.stop /\ audio' = Ended /\ Dispose
       \/ /\ ~audio.stop /\ played # <<>>
          /\ audio' = [audio EXCEPT !.pc = "fill", !.hand = Head(played)]
          /\ played' = Tail(played)
          /\ buffers' = [buffers EXCEPT ![Head(played)] = "own"]
          /\ UNCHANGED audioQueue
    /\ UNCHANGED <<audioStatus, audioOwner>>
Refill(r) ==
    /\ audio.pc = "fill"
    /\ CASE r = "filled" -> /\ buffers' = [buffers EXCEPT ![audio.hand] = "queued"]
                            /\ audio' = [audio EXCEPT !.pc = "play", !.hand = NoAudio]
                            /\ audioStatus' \in {audioStatus, "playing"}
                            /\ UNCHANGED <<played, audioQueue>>
         [] r = "empty" -> audio' = Ended /\ Dispose /\ UNCHANGED audioStatus
         [] OTHER -> audio' = [audio EXCEPT !.pc = "failing", !.hand = NoAudio] /\ Dispose
                     /\ UNCHANGED audioStatus
    /\ UNCHANGED audioOwner

\* An error is reported unless the stop flag was seen before the report.
ReportError ==
    /\ audio.pc = "failing"
    /\ audio' = Ended
    /\ audioStatus' \in IF audio.stop THEN {audioStatus, "error"} ELSE {"error"}
    /\ Keep /\ UNCHANGED audioOwner

\* CoreAudio has played a buffer and calls audio_queue_callback on its own thread.
BufferPlayed(b) ==
    /\ audioQueue = "started" /\ buffers[b] = "queued"
    /\ buffers' = [buffers EXCEPT ![b] = "done"] /\ played' = Append(played, b)
    /\ UNCHANGED <<audio, audioQueue, audioStatus, audioOwner>>

AudioThread ==
    \/ Warmup \/ Connect \/ StartQueue \/ NextBuffer \/ ReportError
    \/ \E r \in FillResults : Refill(r) \/ \E b \in AudioBuffers : Prime(b, r)

AudioNext ==
    \/ StartAudio \/ RequestStop \/ JoinAndClear \/ AudioThread
    \/ \E b \in AudioBuffers : BufferPlayed(b)

\* The socket reads and the channel time out, so the thread always goes on.
AudioFairness == WF_audioVars(AudioThread) /\ WF_audioVars(JoinAndClear)
AudioSpec == AudioInit /\ [][AudioNext]_audioVars /\ AudioFairness

-----------------------------------------------------------------------------
\* The worker never writes into a buffer CoreAudio may be playing, and no buffer gets
\* lost between the queue, the channel and the worker's hand.
BuffersAccounted ==
    /\ audio.hand # NoAudio => buffers[audio.hand] = "own"
    /\ {b \in AudioBuffers : buffers[b] = "done"} = {played[i] : i \in 1 .. Len(played)}
    /\ Cardinality({played[i] : i \in 1 .. Len(played)}) = Len(played)
    /\ audio.pc \in {"play", "fill"} => {b \in AudioBuffers : buffers[b] = "own"} = {audio.hand} \ {NoAudio}

\* After a stop has returned the profile has no audio status, however late the
\* thread reported its last state; the next worker's status is its own.
StoppedHasNoStatus == audioOwner \in {"none", "cleared"} => audioStatus = NoAudio /\ audioQueue = "none"

\* A session's cleanup is never held up by its sound: a requested stop ends.
AudioStops == (audioOwner = "joining") ~> (audioOwner = "cleared")

\* No audio buffer is lost or written while it may be played, and a stopped worker leaves no
\* status behind.
AudioInvariant ==
    /\ BuffersAccounted
    /\ StoppedHasNoStatus
=============================================================================
