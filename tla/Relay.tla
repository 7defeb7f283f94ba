-------------------------------- MODULE Relay --------------------------------
(***************************************************************************)
(* The multiplexed relay between waypipe on the host and the programs of an *)
(* Apple container: the host pump (apple_container_transport.rs), the guest *)
(* pump (the Perl program in container_sessions.rs) and the two byte lanes  *)
(* between them.                                                           *)
(*                                                                         *)
(* A frame header counts one unit and a payload one more.  Each event of a  *)
(* poll is an action, followed by the pass the pump makes before it polls   *)
(* again.  The programs at both ends send, read and close when they like.   *)
(***************************************************************************)
EXTENDS Integers, Sequences, FiniteSets

CONSTANTS
    Programs,      \* the guest programs that run: subset of {"stdio", "publish"}
    MaxStreams,    \* bound: connections the guest program accepts
    MaxData,       \* bound: payloads per stream and direction
    PeerLimit,     \* Limits.peers
    QueueLimit,    \* chunks a peer's queue holds
    OutLimit,      \* transport_bytes, in units; more than one header
    LaneLimit,     \* frames in flight in one lane
    NoRelay

ASSUME RelayAssumption ==
    /\ Programs \subseteq {"stdio", "publish"} /\ OutLimit > 1
    /\ {MaxStreams, MaxData, OutLimit, PeerLimit, QueueLimit, LaneLimit} \subseteq Nat \ {0}

VARIABLES
    hostPump,   \* bridge: [status, in, peers, out, eof, age]
    guestPump,  \* the Perl loop: [status, program, in, peers, out, eof, exited, nextId]
    lane,       \* frames under way: [up, down]
    ends        \* what the programs sent and got: [sent, got], each [up, down] per stream

relayVars == <<hostPump, guestPump, lane, ends>>

Streams == 1 .. MaxStreams
Frame(kind, id, n) == [kind |-> kind, id |-> id, n |-> n]

\* The room of an output queue; its entries are frames with their ages.
Frames(out) == [i \in DOMAIN out |-> out[i].frame]
Used(frames) == Len(frames) + Cardinality({i \in DOMAIN frames : frames[i].kind = "DATA"})
Room(out) == OutLimit - Used(Frames(out))
Push(out, f) == Append(out, [frame |-> f, age |-> 0])

\* CLOSE frames for the streams S, in the order of their ids.
Closes(S) ==
    [i \in 1 .. Cardinality(S) |->
       [frame |-> Frame("CLOSE", CHOOSE id \in S : Cardinality({j \in S : j < id}) = i - 1, 0),
        age |-> 0]]

\* What is under way, and a connection at either end: a payload is one a program sent.
Parcel ==
    {f \in [kind : {"OPEN", "DATA", "CLOSE"}, id : Streams, n : 0 .. MaxData] :
       f.kind = "DATA" <=> f.n # 0}
HostPeers ==
    [conn : {"open", "connecting", "retry"}, queue : Seq([n : 1 .. MaxData, age : Nat]),
     eof : BOOLEAN, closed : BOOLEAN, opened : Nat]
GuestPeers == [queue : Seq(1 .. MaxData), closing : BOOLEAN, notify : BOOLEAN]
ASSUME NoRelayAssumption == NoRelay \notin Parcel \cup HostPeers \cup GuestPeers

HostPeer(conn) == [conn |-> conn, queue |-> <<>>, eof |-> FALSE, closed |-> FALSE, opened |-> 0]
GuestPeer == [queue |-> <<>>, closing |-> FALSE, notify |-> FALSE]
Live(peers) == {id \in Streams : peers[id] # NoRelay}

RelayTypeOK ==
    /\ hostPump.status \in {"run", "ok", "failed", "duplicate"}
    /\ guestPump.status \in {"run", "ok", "failed"}
    /\ Room(hostPump.out) \in 0 .. OutLimit /\ Room(guestPump.out) \in 0 .. OutLimit
    /\ \A id \in Live(hostPump.peers) : Len(hostPump.peers[id].queue) <= QueueLimit
    /\ \A id \in Live(guestPump.peers) : Len(guestPump.peers[id].queue) <= QueueLimit
    /\ Cardinality(Live(hostPump.peers)) <= PeerLimit
    /\ guestPump.nextId \in 1 .. MaxStreams + 1

\* A new pump, and one that has ended: the process drops what it holds.
EmptyHost(status) ==
    [status |-> status, in |-> NoRelay, peers |-> [id \in Streams |-> NoRelay],
     out |-> <<>>, eof |-> FALSE, age |-> 0]
EmptyGuest(status, program) ==
    [status |-> status, program |-> program, in |-> NoRelay, peers |-> [id \in Streams |-> NoRelay],
     out |-> <<>>, eof |-> FALSE, exited |-> FALSE, nextId |-> 1]

RelayInit ==
    /\ hostPump = EmptyHost("run") /\ \E program \in Programs : guestPump = EmptyGuest("run", program)
    /\ lane = [up |-> <<>>, down |-> <<>>]
    /\ LET zero == [id \in Streams |-> 0]
       IN  ends = [sentUp |-> zero, gotUp |-> zero, sentDown |-> zero, gotDown |-> zero]

-----------------------------------------------------------------------------
(***************************************************************************)
(* The host pump.                                                          *)
(***************************************************************************)

\* A rejected OPEN whose header is complete is answered as soon as there is room.
HeaderProgress(h) ==
    IF h.in # NoRelay /\ h.in.kind = "OPEN" /\ Room(h.out) >= 1
    THEN [h EXCEPT !.in = NoRelay, !.age = 0, !.out = Push(h.out, Frame("CLOSE", h.in.id, 0))]
    ELSE h

\* Drained peers that one side closed go, in the order of their ids up to the first
\* whose CLOSE finds no room.
RetireHost(h) ==
    LET done == {id \in Live(h.peers) : /\ h.peers[id].queue = <<>>
                                        /\ h.peers[id].closed \/ h.peers[id].eof}
        owed == {id \in done : ~h.peers[id].closed}
        fits(id) == Cardinality({j \in owed : j < id}) < Room(h.out)
        gone == {id \in done : \A j \in owed : j <= id => fits(j)}
    IN  [h EXCEPT !.peers = [id \in Streams |-> IF id \in gone THEN NoRelay ELSE @[id]],
                  !.out = @ \o Closes(owed \cap gone)]

Drained(h) == h.out = <<>> /\ \A id \in Live(h.peers) : h.peers[id].queue = <<>>

\* What the loop of bridge_with_limits does before it polls again.
HostPass(h) ==
    LET r == RetireHost(HeaderProgress(h))
    IN  IF r.status = "run" /\ r.eof /\ Drained(r) THEN [r EXCEPT !.status = "ok"] ELSE r

HostStep(h) == hostPump' = IF h.status = "run" THEN HostPass(h) ELSE h
HostRuns == hostPump.status = "run"

\* Input::read of a header; an OPEN tries to connect, with result r.
Opened(h, id, r) ==
    IF h.peers[id] # NoRelay THEN EmptyHost("duplicate")
    ELSE IF Cardinality(Live(h.peers)) < PeerLimit /\ r # "fail"
         THEN [h EXCEPT !.peers[id] = HostPeer(r)]
         ELSE [h EXCEPT !.in = Frame("OPEN", id, 0)]
\* Mutated form: a CLOSE is skipped.
ReadHeaderIgnoresClose(h, f, r) ==
    CASE f.kind = "OPEN" -> Opened(h, f.id, r)
      [] f.kind = "CLOSE" -> h
      [] OTHER -> [h EXCEPT !.in = f]

ReadHeader(h, f, r) ==
    CASE f.kind = "OPEN" -> Opened(h, f.id, r)
      [] f.kind = "CLOSE" -> IF h.peers[f.id] = NoRelay THEN h ELSE [h EXCEPT !.peers[f.id].closed = TRUE]
      [] OTHER -> [h EXCEPT !.in = f]

HostReadsHeader(r) ==
    /\ HostRuns /\ ~hostPump.eof /\ hostPump.in = NoRelay /\ lane.up # <<>>
    /\ Head(lane.up).kind = "OPEN" \/ r = "open"
    /\ HostStep(ReadHeader(hostPump, Head(lane.up), r))
    /\ lane' = [lane EXCEPT !.up = Tail(@)]
    /\ UNCHANGED <<guestPump, ends>>

\* Payload for a peer that is gone or closed is dropped; a full queue stops the lane.
HostReadsPayload ==
    /\ HostRuns /\ hostPump.in # NoRelay /\ hostPump.in.kind = "DATA"
    /\ LET f == hostPump.in
           p == hostPump.peers[f.id]
           h == [hostPump EXCEPT !.in = NoRelay, !.age = 0]
       IN  IF p = NoRelay THEN HostStep(h)
           ELSE IF p.closed THEN HostStep(h)
           ELSE /\ Len(p.queue) < QueueLimit
                /\ HostStep([h EXCEPT !.peers[f.id].queue = Append(@, [n |-> f.n, age |-> 0])])
    /\ UNCHANGED <<guestPump, lane, ends>>

\* The lane has ended: clean at the start of a frame, an error inside one.
HostReadsEof ==
    /\ HostRuns /\ ~hostPump.eof /\ guestPump.status # "run" /\ lane.up = <<>>
    /\ IF hostPump.in = NoRelay THEN HostStep([hostPump EXCEPT !.eof = TRUE])
       ELSE HostStep(EmptyHost("failed"))
    /\ UNCHANGED <<guestPump, lane, ends>>

\* The poll reports the hang-up while there is still something to read or to write.
HostHangsUp ==
    /\ HostRuns /\ guestPump.status # "run" /\ (~hostPump.eof \/ hostPump.out # <<>>)
    /\ hostPump' = EmptyHost("failed")
    /\ UNCHANGED <<guestPump, lane, ends>>

\* A local peer breaks while it has something queued: the whole relay fails.
HostPeerBreaks(id) ==
    /\ HostRuns /\ hostPump.peers[id] # NoRelay
    /\ hostPump.peers[id].conn = "open" /\ hostPump.peers[id].queue # <<>>
    /\ hostPump' = EmptyHost("failed")
    /\ UNCHANGED <<guestPump, lane, ends>>

HostWrites ==
    /\ HostRuns /\ hostPump.out # <<>> /\ guestPump.status = "run" /\ Len(lane.down) < LaneLimit
    /\ lane' = [lane EXCEPT !.down = Append(@, Head(hostPump.out).frame)]
    /\ HostStep([hostPump EXCEPT !.out = Tail(@)])
    /\ UNCHANGED <<guestPump, ends>>

\* A socket that was not ready is tried again, keeping queue and deadline.
HostConnects(id, r) ==
    /\ HostRuns /\ hostPump.peers[id] # NoRelay /\ hostPump.peers[id].conn # "open"
    /\ r # "retry" \/ hostPump.peers[id].conn = "retry"
    /\ HostStep(IF r = "fail" THEN EmptyHost("failed")
                ELSE [hostPump EXCEPT !.peers[id].conn = r])
    /\ UNCHANGED <<guestPump, lane, ends>>

HostReadsPeer(id, eof) ==
    /\ HostRuns /\ ~hostPump.eof /\ hostPump.peers[id] # NoRelay
    /\ LET p == hostPump.peers[id] IN p.conn = "open" /\ ~p.eof /\ ~p.closed
    /\ Room(hostPump.out) > 1
    /\ IF eof
       THEN HostStep([hostPump EXCEPT !.peers[id].eof = TRUE]) /\ UNCHANGED ends
       ELSE /\ ends.sentDown[id] < MaxData
            /\ ends' = [ends EXCEPT !.sentDown[id] = @ + 1]
            /\ HostStep([hostPump EXCEPT !.out = Push(@, Frame("DATA", id, ends.sentDown[id] + 1))])
    /\ UNCHANGED <<guestPump, lane>>

HostWritesPeer(id) ==
    /\ HostRuns /\ hostPump.peers[id] # NoRelay
    /\ hostPump.peers[id].conn = "open" /\ hostPump.peers[id].queue # <<>>
    /\ ends' = [ends EXCEPT !.gotUp[id] = Head(hostPump.peers[id].queue).n]
    /\ HostStep([hostPump EXCEPT !.peers[id].queue = Tail(@)])
    /\ UNCHANGED <<guestPump, lane>>

\* Ages of what waits; opened counts only while the connection is not made.
Later(s) == [i \in DOMAIN s |-> [s[i] EXCEPT !.age = s[i].age + 1]]
Older(p) == [p EXCEPT !.queue = Later(p.queue), !.opened = IF p.conn = "open" THEN 0 ELSE p.opened + 1]
Aged(h) ==
    [h EXCEPT !.age = IF h.in = NoRelay THEN 0 ELSE h.age + 1,
              !.out = Later(h.out),
              !.peers = [id \in Streams |->
                           IF h.peers[id] = NoRelay THEN NoRelay ELSE Older(h.peers[id])]]

\* Mutated form: a connection that is retried has no deadline.
DueWhenConnected(h) ==
    \/ h.in # NoRelay /\ h.age >= 1
    \/ h.out # <<>> /\ h.out[1].age >= 1
    \/ \E id \in Live(h.peers) :
          \/ h.peers[id].queue # <<>> /\ h.peers[id].queue[1].age >= 1

\* The deadlines the poll's timeout considers, and those the loop then finds passed;
\* one tick is the deadline of ten seconds.
Due(h) ==
    \/ h.in # NoRelay /\ h.age >= 1
    \/ h.out # <<>> /\ h.out[1].age >= 1
    \/ \E id \in Live(h.peers) :
          \/ h.peers[id].queue # <<>> /\ h.peers[id].queue[1].age >= 1
          \/ h.peers[id].conn # "open" /\ h.peers[id].opened >= 1

TimePasses ==
    /\ HostRuns /\ ~Due(hostPump) /\ Aged(hostPump) # hostPump
    /\ hostPump' = Aged(hostPump)
    /\ UNCHANGED <<guestPump, lane, ends>>

HostExpires ==
    /\ HostRuns /\ Due(hostPump)
    /\ hostPump' = EmptyHost("failed")
    /\ UNCHANGED <<guestPump, lane, ends>>

-----------------------------------------------------------------------------
(***************************************************************************)
(* The guest pump.                                                         *)
(***************************************************************************)
Ending(p, notify) == [p EXCEPT !.closing = TRUE, !.notify = p.notify \/ notify]
Closing(g, S, notify) ==
    [g EXCEPT !.peers = [id \in Streams |->
       IF id \in S /\ g.peers[id] # NoRelay THEN Ending(g.peers[id], notify) ELSE g.peers[id]]]

\* retire_peers and the end of the loop.
GuestPass(g) ==
    LET done == {id \in Live(g.peers) : g.peers[id].closing /\ g.peers[id].queue = <<>>}
        owed == {id \in done : g.peers[id].notify}
        gone == {id \in done : id \in owed => Cardinality({j \in owed : j < id}) < Room(g.out)}
        r == [g EXCEPT !.peers = [id \in Streams |-> IF id \in gone THEN NoRelay ELSE @[id]],
                       !.out = @ \o Closes(owed \cap gone)]
        idle == r.out = <<>> /\ \A id \in Live(r.peers) : r.peers[id].queue = <<>>
    IN  IF (r.eof \/ r.exited) /\ idle THEN [EmptyGuest("ok", r.program) EXCEPT !.exited = r.exited] ELSE r

GuestStep(g) == guestPump' = IF g.status = "run" THEN GuestPass(g) ELSE g
GuestRuns == guestPump.status = "run"

\* The program's command ends; only the stdio program then sends CLOSE frames.
GuestCommandExits ==
    /\ GuestRuns /\ ~guestPump.exited
    /\ GuestStep([Closing(guestPump, Streams, guestPump.program = "stdio") EXCEPT !.exited = TRUE])
    /\ UNCHANGED <<hostPump, lane, ends>>

GuestAccepts ==
    /\ GuestRuns /\ ~guestPump.eof /\ ~guestPump.exited
    /\ guestPump.nextId <= MaxStreams /\ Room(guestPump.out) >= 1
    /\ LET id == guestPump.nextId
       IN  GuestStep([guestPump EXCEPT !.nextId = id + 1, !.peers[id] = GuestPeer,
                                       !.out = Push(@, Frame("OPEN", id, 0))])
    /\ UNCHANGED <<hostPump, lane, ends>>

\* The program closes its end, or sends when the output has room for a frame.
GuestReadsPeer(id, eof) ==
    /\ GuestRuns /\ ~guestPump.eof /\ ~guestPump.exited /\ guestPump.peers[id] # NoRelay
    /\ ~guestPump.peers[id].closing /\ Room(guestPump.out) > 1
    /\ IF eof
       THEN GuestStep(Closing(guestPump, {id}, TRUE)) /\ UNCHANGED ends
       ELSE /\ ends.sentUp[id] < MaxData
            /\ ends' = [ends EXCEPT !.sentUp[id] = @ + 1]
            /\ GuestStep([guestPump EXCEPT !.out = Push(@, Frame("DATA", id, ends.sentUp[id] + 1))])
    /\ UNCHANGED <<hostPump, lane>>

\* write_queue; a failed write discards what is queued and closes the peer.
GuestWritesPeer(id, ok) ==
    /\ GuestRuns /\ guestPump.peers[id] # NoRelay /\ guestPump.peers[id].queue # <<>>
    /\ IF ok
       THEN /\ ends' = [ends EXCEPT !.gotDown[id] = Head(guestPump.peers[id].queue)]
            /\ GuestStep([guestPump EXCEPT !.peers[id].queue = Tail(@)])
       ELSE /\ GuestStep([Closing(guestPump, {id}, TRUE) EXCEPT !.peers[id].queue = <<>>])
            /\ UNCHANGED ends
    /\ UNCHANGED <<hostPump, lane>>

GuestWrites ==
    /\ GuestRuns /\ guestPump.out # <<>> /\ HostRuns /\ Len(lane.up) < LaneLimit
    /\ lane' = [lane EXCEPT !.up = Append(@, Head(guestPump.out).frame)]
    /\ GuestStep([guestPump EXCEPT !.out = Tail(@)])
    /\ UNCHANGED <<hostPump, ends>>

GuestReadsHeader ==
    /\ GuestRuns /\ ~guestPump.eof /\ ~guestPump.exited /\ guestPump.in = NoRelay
    /\ lane.down # <<>>
    /\ lane' = [lane EXCEPT !.down = Tail(@)]
    /\ LET f == Head(lane.down)
       IN  GuestStep(IF f.kind = "CLOSE" THEN Closing(guestPump, {f.id}, FALSE)
                     ELSE [guestPump EXCEPT !.in = f])
    /\ UNCHANGED <<hostPump, ends>>

GuestReadsPayload ==
    /\ GuestRuns /\ ~guestPump.exited /\ guestPump.in # NoRelay
    /\ LET f == guestPump.in
           p == guestPump.peers[f.id]
           g == [guestPump EXCEPT !.in = NoRelay]
       IN  IF p = NoRelay THEN GuestStep(g)
           ELSE IF p.closing THEN GuestStep(g)
           ELSE /\ Len(p.queue) < QueueLimit
                /\ GuestStep([g EXCEPT !.peers[f.id].queue = Append(@, f.n)])
    /\ UNCHANGED <<hostPump, lane, ends>>

\* The host is gone: a clean end of the lane, a broken frame, or the hang-up.
GuestReadsEof ==
    /\ GuestRuns /\ ~HostRuns /\ ~guestPump.eof /\ lane.down = <<>> /\ ~guestPump.exited
    /\ IF guestPump.in = NoRelay
       THEN GuestStep([Closing(guestPump, Streams, FALSE) EXCEPT !.eof = TRUE])
       ELSE GuestStep([EmptyGuest("failed", guestPump.program) EXCEPT !.exited = guestPump.exited])
    /\ UNCHANGED <<hostPump, lane, ends>>

\* The hang-up, the kill of a failed relay's child, or a deadline of the stdio program.
GuestStops ==
    /\ GuestRuns
    /\ \/ ~HostRuns
       \/ guestPump.program = "stdio" /\ (guestPump.out # <<>> \/ guestPump.in # NoRelay)
    /\ guestPump' = [EmptyGuest("failed", guestPump.program) EXCEPT !.exited = guestPump.exited]
    /\ lane' = [lane EXCEPT !.down = <<>>]
    /\ UNCHANGED <<hostPump, ends>>

-----------------------------------------------------------------------------
ConnectResults == {"open", "connecting", "retry", "fail"}

RelayNext ==
    \/ \E r \in ConnectResults : HostReadsHeader(r)
    \/ HostReadsPayload \/ HostReadsEof \/ HostHangsUp \/ HostWrites
    \/ TimePasses \/ HostExpires
    \/ GuestCommandExits \/ GuestAccepts \/ GuestWrites \/ GuestReadsHeader
    \/ GuestReadsPayload \/ GuestReadsEof \/ GuestStops
    \/ \E id \in Streams :
          \/ \E r \in ConnectResults : HostConnects(id, r)
          \/ \E eof \in BOOLEAN : HostReadsPeer(id, eof) \/ GuestReadsPeer(id, eof)
          \/ HostWritesPeer(id) \/ HostPeerBreaks(id)
          \/ \E ok \in BOOLEAN : GuestWritesPeer(id, ok)

RelaySpec == RelayInit /\ [][RelayNext]_relayVars

-----------------------------------------------------------------------------
\* The frames on their way to the host and to the guest, the next one to be handled first.
InHand(in) == IF in = NoRelay THEN <<>> ELSE <<in>>
UpWay == InHand(hostPump.in) \o lane.up \o Frames(guestPump.out)
DownWay == InHand(guestPump.in) \o lane.down \o Frames(hostPump.out)

\* The payloads of stream id among frames are those after `from`, up to `to`, in order.
Payloads(frames, id) == {i \in DOMAIN frames : frames[i].kind = "DATA" /\ frames[i].id = id}
Consecutive(frames, id, from, to) ==
    /\ {frames[i].n : i \in Payloads(frames, id)} = from + 1 .. to
    /\ \A i, j \in Payloads(frames, id) : i < j => frames[i].n < frames[j].n

\* What a program of the guest sent on a stream the host still serves is delivered or
\* on its way, in order and once, whatever connects late, retries or fills up.
UpStreamIntact ==
    HostRuns /\ GuestRuns =>
      \A id \in Live(hostPump.peers) :
        LET queue == hostPump.peers[id].queue
        IN  Consecutive([i \in DOMAIN queue |-> Frame("DATA", id, queue[i].n)] \o UpWay,
                        id, ends.gotUp[id], ends.sentUp[id])

\* The same for what the host sends to a guest connection that is still open.
DownStreamIntact ==
    HostRuns /\ GuestRuns /\ ~guestPump.exited =>
      \A id \in Live(guestPump.peers) :
        LET queue == guestPump.peers[id].queue
        IN  guestPump.peers[id].closing \/
            Consecutive([i \in DOMAIN queue |-> Frame("DATA", id, queue[i])] \o DownWay,
                        id, ends.gotDown[id], ends.sentDown[id])

\* An id is never opened twice at the host, although a stream the guest has closed and
\* forgotten may still drain there.
NoDuplicateStream == hostPump.status # "duplicate"

\* The host pump never sleeps over a complete header it could answer: only an OPEN
\* whose rejection finds no room in the output waits.
NoIdleHeader ==
    HostRuns /\ hostPump.in # NoRelay /\ hostPump.in.kind = "OPEN" => Room(hostPump.out) < 1

\* Nothing waits past its deadline in a running relay: what the expiry check looks at
\* is what the poll's timeout considers, connections that are still retried included.
DeadlineKept ==
    HostRuns => /\ hostPump.age <= 1
                /\ \A i \in DOMAIN hostPump.out : hostPump.out[i].age <= 1
                /\ \A id \in Live(hostPump.peers) :
                      /\ hostPump.peers[id].opened <= 1
                      /\ \A i \in DOMAIN hostPump.peers[id].queue :
                            hostPump.peers[id].queue[i].age <= 1

\* The relay ends well only when every byte it accepted has been passed on.
OkMeansDrained ==
    hostPump.status = "ok" => /\ Drained(hostPump) /\ lane.up = <<>>
                              /\ hostPump.in = NoRelay

\* When nothing is queued or under way the two pumps serve the same streams, and no end
\* of them is half closed: a CLOSE is neither lost in a full queue nor crossed by
\* another one with a stream left behind.
StreamsAgree ==
    /\ HostRuns /\ GuestRuns /\ ~hostPump.eof /\ ~guestPump.exited
    /\ lane.up = <<>> /\ lane.down = <<>> /\ hostPump.in = NoRelay /\ guestPump.in = NoRelay
    /\ Drained(hostPump) /\ guestPump.out = <<>>
    /\ \A id \in Live(guestPump.peers) : guestPump.peers[id].queue = <<>>
    => /\ Live(hostPump.peers) = Live(guestPump.peers)
       /\ \A id \in Live(hostPump.peers) : /\ ~hostPump.peers[id].eof /\ ~hostPump.peers[id].closed
                                           /\ ~guestPump.peers[id].closing

\* Every stream is carried in order and once in both directions, opened once, closed at both
\* ends, and an end without an error is one of a relay that has passed everything on.
StreamsIntact ==
    /\ RelayTypeOK
    /\ UpStreamIntact
    /\ DownStreamIntact
    /\ NoDuplicateStream
    /\ OkMeansDrained
    /\ StreamsAgree

\* The host pump sleeps neither over a header it could answer nor past a deadline.
RelayProgress ==
    /\ NoIdleHeader
    /\ DeadlineKept
=============================================================================
