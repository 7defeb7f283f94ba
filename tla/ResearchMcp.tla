----------------------------- MODULE ResearchMcp -----------------------------
(***************************************************************************)
(* research_mcp: the stdio server that launches helpers of a trusted kit.   *)
(*                                                                         *)
(* transport.rs is one loop of ticks, frames and poll, with no thread; a    *)
(* signal handler only sets a flag.  children.rs owns one helper per        *)
(* profile, each with its process group, and kit.rs verifies a helper in    *)
(* many reads, with a tick of the children before each.  However the server *)
(* leaves its loop, Drop stops what is left.                                *)
(*                                                                         *)
(* A token of the input is a request, bytes that are none, or the end of a  *)
(* line; a request has the number of its message in the conversation.  Time *)
(* is what it makes due.  The client, the helpers, the kit on disk and the  *)
(* signals are the environment.                                            *)
(***************************************************************************)
EXTENDS Integers, Sequences, FiniteSets

CONSTANTS
    Gui, Selftest,    \* profiles
    MaxFrame,         \* tokens of a frame, without its end
    Conversations,    \* what a client may send: sequences of the bodies of messages
    PipeRoom,         \* tokens the pipe of stdin holds
    MaxEditsOfKit,    \* bound: changes of the kit
    NoChild, NoWork

Helpers == Gui \union Selftest
Numbered == [kind : {"launch", "stop"}, profile : Helpers]
            \union [kind : {"initialize", "status", "ping"}, profile : {NoChild}]
Requests == Numbered \union [kind : {"initialized", "junk"}, profile : {NoChild}]
Asks(body) == Len(body) = 1 /\ body[1] \in Numbered

ASSUME ResearchMcpAssumption ==
    /\ Gui \cap Selftest = {} /\ MaxFrame \in Nat \ {0} /\ PipeRoom \in Nat
    /\ MaxEditsOfKit \in Nat
    /\ Conversations \subseteq Seq(Seq(Requests))
    /\ \A said \in Conversations : \A n \in 1 .. Len(said) :
          Asks(said[n]) \/ \A i \in DOMAIN said[n] : said[n][i] \notin Numbered

ChildRecord == [os : {"alive", "zombie"}, ttlDue : BOOLEAN, stopping : BOOLEAN, graceDue : BOOLEAN,
                appkit : {"unknown", "answered"}, image : Nat]
ASSUME NoChildAssumption == NoChild \notin ChildRecord
ASSUME NoWorkAssumption == NoWork \notin [profile : Helpers, id : Nat, of : Nat]

VARIABLES
    serverPc,    \* tick, frame, poll, verify, exec (verified), drop (the end of serve), done
    session,     \* Server: [enabled (by its command line), seen (initialize), ready (initialized)]
    client,      \* [said (its conversation), sent, open (its end of stdin), reads (of stdout)]
    wire,        \* tokens between the client and the server
    frames,      \* Frames: [bytes, eof]
    answer,      \* pending: <<>> or one response, the number of its request
    replies,     \* the responses the client has
    verifying,   \* the launch being verified: [profile, id, of (the kit it opened)], or NoWork
    kit,         \* the kit on disk: how often it was changed; its manifest names the helpers of 0
    child,       \* profile -> [os, ttlDue, stopping, graceDue, appkit, image (of which kit)], or NoChild
    report,      \* profile -> its Summary: never_started, running, stopping, ended or cleanup_failed
    flags        \* [signal, eofDue]

researchVars == <<serverPc, session, client, wire, frames, answer, replies, verifying, kit, child,
                  report, flags>>

End == [kind |-> "end", profile |-> NoChild, id |-> 0]

ResearchTypeOK ==
    /\ serverPc \in {"tick", "frame", "poll", "verify", "exec", "drop", "done"}
    /\ Len(frames.bytes) <= MaxFrame + 1 /\ frames.eof \in BOOLEAN
    /\ Len(answer) <= 1
    /\ session.ready => session.seen
    /\ \A p \in Helpers : child[p] # NoChild =>
          /\ child[p].os \in {"alive", "zombie"}
          /\ child[p].graceDue => child[p].stopping
          /\ report[p] = IF child[p].stopping THEN "stopping" ELSE "running"
    /\ verifying # NoWork <=> serverPc \in {"verify", "exec"}

ResearchInit ==
    /\ serverPc = "tick"
    /\ session \in [enabled : BOOLEAN, seen : {FALSE}, ready : {FALSE}]
    /\ client \in [said : Conversations, sent : {0}, open : {TRUE}, reads : {TRUE}]
    /\ wire = <<>> /\ frames = [bytes |-> <<>>, eof |-> FALSE]
    /\ answer = <<>> /\ replies = <<>> /\ verifying = NoWork
    /\ kit = 0
    /\ child = [p \in Helpers |-> NoChild] /\ report = [p \in Helpers |-> "never_started"]
    /\ flags = [signal |-> FALSE, eofDue |-> FALSE]

-----------------------------------------------------------------------------
(* Children: what a step does to the slot of one profile, as the pairs      *)
(* [c, r] of a child and its report it may leave.                           *)

\* finish: the group is signalled, the leader killed if need be and reaped.  cleanup_group tells
\* a group of the exited leader alone from one it cannot inspect or signal; cleanup_failed stands
\* for every end that is not clean.
Finished == {[c |-> NoChild, r |-> "ended"], [c |-> NoChild, r |-> "cleanup_failed"]}

\* Mutated form: a deadline ends a graphical helper at once.
ProgressByReason(p, c) ==
    IF c.os = "zombie" \/ p \notin Gui \/ c.ttlDue \/ c.graceDue THEN Finished
    ELSE {[c |-> [c EXCEPT !.appkit = a], r |-> "stopping"] :
            a \in IF c.appkit = "unknown" THEN {"unknown", "answered"} ELSE {c.appkit}}

\* progress_stop and stop_action: AppKit is asked until it answers, then the grace is waited for.
Progress(p, c) ==
    IF c.os = "zombie" \/ p \notin Gui \/ c.graceDue THEN Finished
    ELSE {[c |-> [c EXCEPT !.appkit = a], r |-> "stopping"] :
            a \in IF c.appkit = "unknown" THEN {"unknown", "answered"} ELSE {c.appkit}}

\* request_stop.
Stopping(p, c, r) ==
    IF c = NoChild THEN {[c |-> c, r |-> r]} ELSE Progress(p, [c EXCEPT !.stopping = TRUE])

\* tick, for one profile.
Ticked(p, c, r) ==
    IF c = NoChild THEN {[c |-> c, r |-> r]}
    ELSE IF c.os = "zombie" THEN Finished
    ELSE IF c.stopping \/ c.ttlDue THEN Stopping(p, c, r)
    ELSE {[c |-> c, r |-> r]}

\* A step of every profile: each is left as one of the pairs in left.
Everywhere(left) ==
    \E f \in [Helpers -> UNION {left[p] : p \in Helpers}] :
        /\ \A p \in Helpers : f[p] \in left[p]
        /\ child' = [p \in Helpers |-> f[p].c] /\ report' = [p \in Helpers |-> f[p].r]
Tick == Everywhere([p \in Helpers |-> Ticked(p, child[p], report[p])])
\* shutdown.
StopAll == Everywhere([p \in Helpers |-> Stopping(p, child[p], report[p])])

Active(slots) == \E p \in Helpers : slots[p] # NoChild
Same == UNCHANGED <<child, report>>

-----------------------------------------------------------------------------
\* The top of the loop of serve.
TopOfLoop ==
    /\ serverPc = "tick" /\ Tick
    /\ serverPc' = IF flags.signal \/ flags.eofDue THEN "drop" ELSE "frame"
    /\ UNCHANGED <<session, client, wire, frames, answer, replies, verifying, kit, flags>>

\* Frames::next: a frame ends with its line, or with the input.
Ends == {i \in 1 .. Len(frames.bytes) : frames.bytes[i].kind = "end"}
FrameLength == IF Ends = {} THEN Len(frames.bytes) ELSE (CHOOSE i \in Ends : \A j \in Ends : i <= j) - 1
HasFrame == Ends # {} \/ (frames.eof /\ Len(frames.bytes) \in 1 .. MaxFrame)

TakeFrame(frame) ==
    /\ serverPc = "frame" /\ HasFrame
    /\ frame = SubSeq(frames.bytes, 1, FrameLength)
    /\ frames' = [frames EXCEPT !.bytes = SubSeq(@, FrameLength + 2, Len(@))]
    /\ UNCHANGED <<client, wire, replies, kit, flags>>
\* Mutated form: a frame is handled while an answer is still to be written.
TakesWhileAnswerWaits(frame) == TakeFrame(frame)
Takes(frame) == answer = <<>> /\ TakeFrame(frame)

Answer(n) ==
    /\ answer' = <<[id |-> n]>> /\ UNCHANGED verifying
    /\ serverPc' = "poll"
\* An answer that does nothing: an error, or what a ping asks for.
Replies(n) == Answer(n) /\ Same /\ UNCHANGED session

\* Server::handle: a blank frame or a notification; that of the client ends an initialization.
HandleSilently(frame) ==
    /\ Takes(frame)
    /\ \/ frame = <<>> /\ UNCHANGED session
       \/ /\ Len(frame) = 1 /\ frame[1].kind = "initialized"
          /\ session' = [session EXCEPT !.ready = @ \/ session.seen]
    /\ serverPc' = "poll" /\ Same /\ UNCHANGED <<answer, verifying>>
\* What does not parse is answered without a number.
HandleJunk(frame) == Takes(frame) /\ (Len(frame) > 1 \/ (frame # <<>> /\ frame[1].kind = "junk")) /\ Replies(0)
HandleInitialize(frame) ==
    /\ Takes(frame) /\ Len(frame) = 1 /\ frame[1].kind = "initialize"
    /\ session' = [session EXCEPT !.seen = TRUE, !.ready = FALSE]
    /\ Answer(frame[1].id) /\ Same
\* ping, tools/list, an unknown method or wrong arguments; a tool before the initialization, and
\* launch and stop on a server that was not started for them.
HandleRefused(frame) ==
    /\ Takes(frame) /\ Len(frame) = 1 /\ frame[1].kind \in {"ping", "status", "launch", "stop"}
    /\ \/ frame[1].kind = "ping" \/ ~session.ready
       \/ frame[1].kind \in {"launch", "stop"} /\ ~session.enabled
    /\ Replies(frame[1].id)

\* Server::call.
Calls(frame, tool) ==
    /\ Takes(frame) /\ Len(frame) = 1 /\ frame[1].kind = tool /\ session.ready
    /\ tool \in {"launch", "stop"} => session.enabled
    /\ UNCHANGED session
HandleStatus(frame) == Calls(frame, "status") /\ Tick /\ Answer(frame[1].id)
HandleStop(frame) ==
    /\ Calls(frame, "stop")
    /\ LET p == frame[1].profile
       IN  \E s \in Stopping(p, child[p], report[p]) :
             /\ child' = [child EXCEPT ![p] = s.c] /\ report' = [report EXCEPT ![p] = s.r]
             /\ Answer(frame[1].id)
\* A launch, up to the verification of the helper.
HandleLaunch(frame) ==
    /\ Calls(frame, "launch")
    /\ LET p == frame[1].profile
       IN  \/ Same /\ Answer(frame[1].id)    \* closing, or a host that is not supported
          \/ /\ ~frames.eof /\ Tick
             /\ \/ Answer(frame[1].id)    \* it runs already, or the kit cannot be opened
                \/ /\ child'[p] = NoChild
                   /\ verifying' = [profile |-> p, id |-> frame[1].id, of |-> kit]
                   /\ serverPc' = "verify" /\ UNCHANGED answer
HandleFrame ==
    LET frame == SubSeq(frames.bytes, 1, FrameLength)
    IN  \/ HandleSilently(frame) \/ HandleJunk(frame) \/ HandleInitialize(frame) \/ HandleRefused(frame)
        \/ HandleStatus(frame) \/ HandleStop(frame) \/ HandleLaunch(frame)

NoFrame == Same /\ UNCHANGED <<session, client, wire, frames, answer, replies, verifying, kit, flags>>
FrameTooLong ==
    /\ serverPc = "frame" /\ answer = <<>> /\ Ends = {} /\ Len(frames.bytes) > MaxFrame
    /\ serverPc' = "drop" /\ NoFrame
\* An answer is still to be written, or there is no frame.
NothingToHandle ==
    /\ serverPc = "frame"
    /\ answer # <<>> \/ (~HasFrame /\ Len(frames.bytes) <= MaxFrame)
    /\ serverPc' = IF answer = <<>> /\ frames.eof /\ ~Active(child) THEN "drop" ELSE "poll"
    /\ NoFrame

-----------------------------------------------------------------------------
Verifies == UNCHANGED <<session, client, wire, frames, replies, kit, flags>>
Refuse ==
    /\ answer' = <<[id |-> verifying.id]>>
    /\ verifying' = NoWork /\ serverPc' = "poll"

\* Kit::verify: the upkeep of the children, then a read that is not the last.
VerifyReads ==
    /\ serverPc = "verify" /\ ~flags.signal /\ Tick
    /\ Verifies /\ UNCHANGED <<serverPc, answer, verifying>>
\* The last one; or a signal, or a file that cannot be read.
VerifyEnds ==
    /\ serverPc = "verify" /\ Tick
    /\ \/ ~flags.signal /\ serverPc' = "exec" /\ UNCHANGED <<answer, verifying>>
       \/ Refuse
    /\ Verifies

\* The digest, both rechecks of the stamps and the spawn, or a refusal.  The kit is trusted to stay
\* as it was rechecked until the exec.  A helper whose pipes cannot be set up is stopped.
LaunchEnds ==
    /\ serverPc = "exec" /\ Refuse
    /\ LET p == verifying.profile
           new == [os |-> "alive", ttlDue |-> FALSE, stopping |-> FALSE, graceDue |-> FALSE,
                   appkit |-> "unknown", image |-> kit]
       IN  \/ Same    \* refused, or the spawn failed
          \/ /\ ~flags.signal /\ verifying.of = 0 /\ kit = verifying.of
             /\ \/ child' = [child EXCEPT ![p] = new] /\ report' = [report EXCEPT ![p] = "running"]
                \/ \E s \in Stopping(p, new, "running") :
                      child' = [child EXCEPT ![p] = s.c] /\ report' = [report EXCEPT ![p] = s.r]
    /\ Verifies

-----------------------------------------------------------------------------
FrameRoom == MaxFrame + 1 - Len(frames.bytes)
ReadyFrame == Ends # {} \/ frames.eof \/ FrameRoom = 0

\* Mutated form: the loop waits for input alone whenever there is no frame.
NeverTimesOutIdle == ~(answer = <<>> /\ ReadyFrame /\ ~frames.eof) /\ ~frames.eof

\* The timeout of poll: none with nothing to wait for, 0 with a frame to handle, else 50 ms.
NeverTimesOut == ~(answer = <<>> /\ ReadyFrame /\ ~frames.eof) /\ ~Active(child) /\ ~frames.eof

\* What poll reports of stdin, and what is read of it: bytes as far as there is room, or the end,
\* at which every child is asked to stop and the grace of the server begins.
NothingToRead == frames.eof \/ (client.open /\ (wire = <<>> \/ FrameRoom = 0))
ReadBytes ==
    /\ ~frames.eof
    /\ \E n \in 1 .. FrameRoom :
         /\ n <= Len(wire)
         /\ frames' = [frames EXCEPT !.bytes = @ \o SubSeq(wire, 1, n)]
         /\ wire' = SubSeq(wire, n + 1, Len(wire))
    /\ Same
ReadEnd ==
    /\ ~frames.eof /\ wire = <<>> /\ ~client.open /\ FrameRoom > 0
    /\ frames' = [frames EXCEPT !.eof = TRUE] /\ StopAll /\ UNCHANGED wire
\* A client that reads empties the pipe of stdout; how a response is cut into writes is left out.
NothingToWrite == answer = <<>> \/ ~client.reads
WriteAnswer == answer # <<>> /\ client.reads /\ answer' = <<>> /\ replies' = replies \o answer

\* poll returns with what is ready, or after its timeout.
ServePoll ==
    /\ serverPc = "poll" /\ serverPc' = "tick"
    /\ NothingToRead /\ NothingToWrite => ~NeverTimesOut
    /\ \/ NothingToRead /\ Same /\ UNCHANGED <<wire, frames>>
       \/ ReadBytes
       \/ ReadEnd
    /\ \/ NothingToWrite /\ UNCHANGED <<answer, replies>>
       \/ WriteAnswer
    /\ UNCHANGED <<session, client, verifying, kit, flags>>
\* A signal interrupts the call.
PollInterrupted ==
    /\ serverPc = "poll" /\ ~flags.signal /\ flags' = [flags EXCEPT !.signal = TRUE]
    /\ serverPc' = "tick" /\ Same
    /\ UNCHANGED <<session, client, wire, frames, answer, replies, verifying, kit>>
\* A hangup of stdin is reported although nothing can be read into a full buffer.
ReadHangup ==
    /\ serverPc = "poll" /\ ~frames.eof /\ ~client.open /\ FrameRoom = 0
    /\ serverPc' = "drop" /\ NoFrame
\* Nobody reads stdout any more, which is reported although nothing is to be written.
OutputBreaks == serverPc = "poll" /\ serverPc' = "drop" /\ NoFrame

-----------------------------------------------------------------------------
\* Drop for Children: shutdown, then ticks until none is active.
DropChildren ==
    /\ serverPc = "drop"
    /\ IF \E p \in Helpers : child[p] # NoChild /\ ~child[p].stopping
       THEN StopAll ELSE Tick
    /\ serverPc' = IF Active(child') THEN "drop" ELSE "done"
    /\ UNCHANGED <<session, client, wire, frames, answer, replies, verifying, kit, flags>>

-----------------------------------------------------------------------------
(* The environment.                                                         *)

Outside == UNCHANGED <<serverPc, session, frames, answer, replies, verifying, report>>

\* The next message of the conversation, each of its tokens with the number if it asks something.
Message(n) ==
    [i \in DOMAIN client.said[n] |->
        [kind |-> client.said[n][i].kind, profile |-> client.said[n][i].profile,
         id |-> IF client.said[n][i] \in Numbered THEN n ELSE 0]]
ClientSends ==
    /\ client.open /\ client.sent < Len(client.said)
    /\ client' = [client EXCEPT !.sent = @ + 1]
    /\ wire' = wire \o Append(Message(client.sent + 1), End) /\ Len(wire') <= PipeRoom
    /\ Outside /\ UNCHANGED <<kit, child, flags>>
\* The client leaves, perhaps with a last message that has no end.
ClientCloses ==
    /\ client.open
    /\ \/ client' = [client EXCEPT !.open = FALSE] /\ UNCHANGED wire
       \/ /\ client.sent < Len(client.said)
          /\ client' = [client EXCEPT !.open = FALSE, !.sent = @ + 1]
          /\ wire' = wire \o Message(client.sent + 1) /\ Len(wire') <= PipeRoom
    /\ Outside /\ UNCHANGED <<kit, child, flags>>
ClientStopsReading ==
    /\ client.reads /\ client' = [client EXCEPT !.reads = FALSE]
    /\ Outside /\ UNCHANGED <<wire, kit, child, flags>>
\* A change matters while a helper is verified; a kit that was changed is never the one verified.
KitChanges ==
    /\ serverPc \in {"verify", "exec"} /\ kit < MaxEditsOfKit /\ kit' = kit + 1
    /\ Outside /\ UNCHANGED <<client, wire, child, flags>>
SignalArrives ==
    /\ serverPc # "done" /\ ~flags.signal /\ flags' = [flags EXCEPT !.signal = TRUE]
    /\ Outside /\ UNCHANGED <<client, wire, kit, child>>

Changes(p, c) == child' = [child EXCEPT ![p] = c] /\ Outside /\ UNCHANGED <<client, wire, kit, flags>>
HelperExits(p) == child[p] # NoChild /\ child[p].os = "alive" /\ Changes(p, [child[p] EXCEPT !.os = "zombie"])
TtlExpires(p) == child[p] # NoChild /\ ~child[p].ttlDue /\ Changes(p, [child[p] EXCEPT !.ttlDue = TRUE])
GraceExpires(p) ==
    child[p] # NoChild /\ child[p].stopping /\ ~child[p].graceDue
        /\ Changes(p, [child[p] EXCEPT !.graceDue = TRUE])
\* The grace of the input is 500 ms longer than that of the children it stopped.
EofGraceExpires ==
    /\ frames.eof /\ ~flags.eofDue
    /\ \A p \in Helpers : child[p] # NoChild => child[p].graceDue
    /\ flags' = [flags EXCEPT !.eofDue = TRUE]
    /\ Outside /\ UNCHANGED <<client, wire, kit, child>>

ServerStep ==
    \/ TopOfLoop \/ HandleFrame \/ FrameTooLong \/ NothingToHandle \/ VerifyEnds \/ LaunchEnds
    \/ ServePoll \/ ReadHangup \/ DropChildren
Time == EofGraceExpires \/ \E p \in Helpers : GraceExpires(p) \/ TtlExpires(p)
ResearchNext ==
    \/ ServerStep \/ VerifyReads \/ PollInterrupted \/ OutputBreaks \/ Time
    \/ ClientSends \/ ClientCloses \/ ClientStopsReading \/ KitChanges \/ SignalArrives
    \/ \E p \in Helpers : HelperExits(p)

\* The loop runs, a helper is of finite size, and a clock passes every deadline.
ResearchFairness == WF_researchVars(ServerStep) /\ WF_researchVars(VerifyEnds) /\ WF_researchVars(Time)
ResearchSpec == ResearchInit /\ [][ResearchNext]_researchVars /\ ResearchFairness

-----------------------------------------------------------------------------
(* Properties.                                                              *)

\* When the server has left, however it left, no helper it launched is still its child: the end of
\* the input, an error, a signal and a client that stopped reading all go through Drop.
ServerEndsClean == serverPc = "done" => ~Active(child)

\* A live graphical helper is killed only after it had the whole grace to end by itself, whoever
\* stops it: the client, its own deadline, the end of the input, a failed launch or Drop.
GraceGiven ==
    [][\A p \in Gui : child[p] # NoChild /\ child[p].os = "alive" /\ child'[p] = NoChild
                        => child[p].graceDue]_researchVars

\* A helper runs only as the manifest names it, although the kit may change while it is read.
RunsVerified == \A p \in Helpers : child[p] # NoChild => child[p].image = 0

\* Only a server started for experiments, in a session that was initialized, has ever a child.
ToolsAreGated == (\E p \in Helpers : child[p] # NoChild) => session.enabled /\ session.seen

\* No request is lost, answered twice or overtaken on its way from the client to its answer, in the
\* buffer, in the verification or in the output that waits for the client.
Way == replies \o answer \o (IF verifying = NoWork THEN <<>> ELSE <<verifying>>) \o frames.bytes \o wire
AnswersInOrder ==
    /\ \A i, j \in DOMAIN Way : i < j /\ Way[i].id # 0 /\ Way[j].id # 0 => Way[i].id < Way[j].id
    /\ \A n \in 1 .. client.sent : Asks(client.said[n]) => \E i \in DOMAIN Way : Way[i].id = n

\* A helper past its deadline is stopped, although the client sends nothing or does not read.
TtlKept == \A p \in Helpers : (child[p] # NoChild /\ child[p].ttlDue) ~> child[p] = NoChild
\* The end of the input ends the server, although a reply waits for a client that does not read.
EofEnds == frames.eof ~> serverPc = "done"
\* A signal ends every helper for good, also one that comes between the loop's check and poll.
SignalStopsHelpers == flags.signal ~> [](~Active(child))

\* The server loses no request and no helper: every request is on its way to its answer, what
\* runs was asked for and verified, and nothing is left when the server has gone.
ResearchInvariant ==
    /\ ResearchTypeOK
    /\ ServerEndsClean
    /\ RunsVerified
    /\ ToolsAreGated
    /\ AnswersInOrder

\* The poll of the loop waits for nothing that is already due: a deadline of a helper, the end
\* of the input, a signal.
ServeLive ==
    /\ TtlKept
    /\ EofEnds
    /\ SignalStopsHelpers
=============================================================================
