----------------------------- MODULE RelayProofs -----------------------------
(***************************************************************************)
(* Proofs about the relay between waypipe on the host and the programs of  *)
(* an Apple container (Relay), for any number of streams and payloads and  *)
(* any limits: every stream is carried in order and once in both           *)
(* directions, and the host pump never sleeps over what it could do.       *)
(*                                                                         *)
(* Every frame has a key in its stream: OPEN is 0, a payload its number,   *)
(* CLOSE comes last.  What the queue of a connection holds, what the       *)
(* receiver has in hand, the lane and the output of the sender, in this    *)
(* order, are one sequence in which the keys of each stream rise; each     *)
(* event of a pump takes a frame from its beginning, adds one at its end   *)
(* or moves one along.                                                     *)
(***************************************************************************)
EXTENDS Relay, FiniteSetTheorems, SequenceTheorems, TLAPS

-----------------------------------------------------------------------------
(* The inductive invariant.                                                *)

\* An entry of an output, and the types of the pumps and of what the programs have sent and got.
Entry == [frame : Parcel, age : Nat]
HostSet == [status : {"run", "ok", "failed", "duplicate"}, in : Parcel \cup {NoRelay},
            peers : [Streams -> HostPeers \cup {NoRelay}], out : Seq(Entry), eof : BOOLEAN, age : Nat]
GuestSet == [status : {"run", "ok", "failed"}, program : {"stdio", "publish"}, in : Parcel \cup {NoRelay},
             peers : [Streams -> GuestPeers \cup {NoRelay}], out : Seq(Entry), eof : BOOLEAN,
             exited : BOOLEAN, nextId : 1 .. MaxStreams + 1]
Counts == [Streams -> 0 .. MaxData]
EndsSet == [sentUp : Counts, gotUp : Counts, sentDown : Counts, gotDown : Counts]

\* Only the guest opens streams, and a header in hand is one the pump could not handle at once.
NoOpens(s) == \A i \in DOMAIN s : s[i].kind # "OPEN"
Shaped(h, g, up, dn, e) ==
    /\ h \in HostSet /\ g \in GuestSet /\ up \in Seq(Parcel) /\ dn \in Seq(Parcel) /\ e \in EndsSet
    /\ h.in # NoRelay => h.in.kind \in {"OPEN", "DATA"}
    /\ g.in # NoRelay => g.in.kind = "DATA"
    /\ NoOpens(dn) /\ NoOpens(Frames(h.out))

\* Nothing is overdue, and what is older is further ahead.
Ageing(s) == /\ \A i \in DOMAIN s : s[i].age <= 1
             /\ \A i, j \in DOMAIN s : i < j => s[j].age <= s[i].age
\* The limits of a pump.
HostHeld(h) ==
    /\ Used(Frames(h.out)) <= OutLimit /\ Ageing(h.out)
    /\ h.in = NoRelay => h.age = 0
    /\ h.age <= 1
    /\ Cardinality(Live(h.peers)) <= PeerLimit
    /\ \A id \in Live(h.peers) :
          /\ Len(h.peers[id].queue) <= QueueLimit /\ Ageing(h.peers[id].queue)
          /\ h.peers[id].opened <= 1
GuestHeld(g) ==
    /\ Used(Frames(g.out)) <= OutLimit /\ Ageing(g.out)
    /\ \A id \in Live(g.peers) : Len(g.peers[id].queue) <= QueueLimit
    /\ g.exited => \A id \in Live(g.peers) : g.peers[id].closing

\* What a pass leaves: no header that could be answered, and no drained connection that is closed
\* at one end only.
HostSettled(h) ==
    h.status = "run" =>
      /\ h.in # NoRelay /\ h.in.kind = "OPEN" => Room(h.out) < 1
      /\ h.out = <<>> => \A id \in Live(h.peers) :
            h.peers[id].queue = <<>> => ~h.peers[id].closed /\ ~h.peers[id].eof
GuestSettled(g) ==
    g.status = "run" /\ g.out = <<>> =>
      \A id \in Live(g.peers) : g.peers[id].queue = <<>> => ~g.peers[id].closing

\* What is on the way has a place in its stream: first OPEN, then the payloads, then CLOSE.
Last == MaxData + 1
Key(f) == IF f.kind = "OPEN" THEN 0 ELSE IF f.kind = "DATA" THEN f.n ELSE Last
Keys(s, id) == {Key(s[i]) : i \in {j \in DOMAIN s : s[j].id = id}}
Rising(s, id) == \A i, j \in DOMAIN s : i < j /\ s[i].id = id /\ s[j].id = id => Key(s[i]) < Key(s[j])

\* What the queue of a connection holds, as frames.
HostQueue(p, id) == IF p = NoRelay THEN <<>> ELSE [i \in DOMAIN p.queue |-> Frame("DATA", id, p.queue[i].n)]
GuestQueue(p, id) == IF p = NoRelay THEN <<>> ELSE [i \in DOMAIN p.queue |-> Frame("DATA", id, p.queue[i])]

\* A stream on its way up while the host runs: p is the connection of the host, U what is on the way.
UpSound(p, U, id) ==
    /\ Rising(HostQueue(p, id) \o U, id)
    /\ p # NoRelay => 0 \notin Keys(U, id)
    /\ p # NoRelay /\ p.closed => Keys(U, id) = {}

\* While both pumps run: r is the connection of the guest, D what is on the way down.  A stream that
\* has not been opened has left no trace.
Fresh(p, r, U, D, e, id) ==
    /\ p = NoRelay /\ r = NoRelay /\ Keys(U, id) = {} /\ Keys(D, id) = {}
    /\ e.sentUp[id] = 0 /\ e.gotUp[id] = 0 /\ e.sentDown[id] = 0 /\ e.gotDown[id] = 0

\* What of a stream is under way, and that it is all of what was sent and not yet delivered; the guest
\* forgets what it has discarded.
HostOn(p, U, id) == Keys(HostQueue(p, id), id) \cup Keys(U, id)
GuestOn(r, D, id) == Keys(GuestQueue(r, id), id) \cup Keys(D, id)
UpWhole(p, U, e, id) ==
    LET on == HostOn(p, U, id)
    IN  /\ on \subseteq 0 .. e.sentUp[id] \cup {Last}
        /\ e.gotUp[id] <= e.sentUp[id]
        /\ 0 \in on => e.gotUp[id] = 0
        /\ p # NoRelay \/ 0 \in on => on \cap 1 .. MaxData = e.gotUp[id] + 1 .. e.sentUp[id]
DownSound(r, D, id) == r # NoRelay /\ ~r.closing => Rising(GuestQueue(r, id) \o D, id)
DownWhole(r, D, e, id) ==
    LET on == GuestOn(r, D, id)
    IN  /\ on \subseteq 1 .. e.sentDown[id] \cup {Last}
        /\ DownSound(r, D, id)
        /\ r # NoRelay /\ ~r.closing =>
             /\ e.gotDown[id] <= e.sentDown[id]
             /\ on \cap 1 .. MaxData = e.gotDown[id] + 1 .. e.sentDown[id]

\* What the two ends know of each other: an open end has another end or an OPEN or CLOSE under way,
\* and a CLOSE is the end of what its sender held.
Agreed(p, r, U, D, exited, id) ==
    LET open == 0 \in Keys(U, id)
        over == Last \in Keys(U, id)
        back == Last \in Keys(D, id)
    IN  /\ r # NoRelay /\ ~r.closing => p # NoRelay \/ open \/ back
        /\ ~exited /\ (open \/ (p # NoRelay /\ ~p.closed)) =>
             over \/ (r # NoRelay /\ (r.closing => r.notify))
        /\ back => p = NoRelay /\ ~open
        /\ over \/ (p # NoRelay /\ p.closed) => r = NoRelay
Stream(p, r, U, D, e, exited, nextId, id) ==
    /\ UpWhole(p, U, e, id) /\ DownWhole(r, D, e, id) /\ Agreed(p, r, U, D, exited, id)
    /\ id >= nextId => Fresh(p, r, U, D, e, id)

\* What is on the way: the frame in hand, the lane, the output of the sender.
Way(in, moving, out) == InHand(in) \o moving \o out
UpOf(h, g, up) == Way(h.in, up, Frames(g.out))
DownOf(h, g, dn) == Way(g.in, dn, Frames(h.out))
Carried(h, g, U, D, e, id) ==
    /\ UpSound(h.peers[id], U, id)
    /\ g.status = "run" => Stream(h.peers[id], g.peers[id], U, D, e, g.exited, g.nextId, id)
StreamsHeld(h, g, up, dn, e) ==
    h.status = "run" =>
      \A id \in Streams : Carried(h, g, UpOf(h, g, up), DownOf(h, g, dn), e, id)

\* What the end of the lane and of the host pump tell.
Ended(h, g, up) ==
    /\ h.eof => g.status # "run" /\ up = <<>> /\ h.in = NoRelay
    /\ h.status = "ok" => h.eof /\ Drained(h)
    /\ h.status # "duplicate"

\* The inductive invariant, of pumps and lanes that a step has still to put in place, and of the state
\* between two steps.
Kept(h, g, up, dn, e) ==
    Shaped(h, g, up, dn, e) /\ HostHeld(h) /\ GuestHeld(g) /\ StreamsHeld(h, g, up, dn, e) /\ Ended(h, g, up)
RelayInv ==
    /\ lane \in [up : Seq(Parcel), down : Seq(Parcel)]
    /\ Kept(hostPump, guestPump, lane.up, lane.down, ends)
    /\ HostSettled(hostPump) /\ GuestSettled(guestPump)

\* All of X come before all of Y.
Before(X, Y) == \A x \in X, y \in Y : x < y

\* The constants, as RelayAssumption and NoRelayAssumption give them.
LEMMA StreamFacts ==
    /\ MaxData \in Nat \ {0} /\ MaxStreams \in Nat \ {0} /\ PeerLimit \in Nat \ {0} /\ QueueLimit \in Nat \ {0}
    /\ LaneLimit \in Nat \ {0} /\ OutLimit \in Nat /\ OutLimit > 1 /\ Last \in Nat /\ Last > MaxData
    /\ Programs \subseteq {"stdio", "publish"}
    /\ NoRelay \notin Parcel /\ NoRelay \notin HostPeers /\ NoRelay \notin GuestPeers
BY RelayAssumption, NoRelayAssumption DEF Last

\* The keys tell the kinds of frames apart.
LEMMA KeyOf ==
  ASSUME NEW f \in Parcel
  PROVE  /\ f.kind \in {"OPEN", "DATA", "CLOSE"} /\ f.id \in Streams /\ f.n \in 0 .. MaxData
         /\ Key(f) \in 0 .. Last
         /\ Key(f) = 0 <=> f.kind = "OPEN"
         /\ Key(f) = Last <=> f.kind = "CLOSE"
         /\ f.kind = "DATA" => Key(f) = f.n /\ f.n \in 1 .. MaxData
BY StreamFacts DEF Parcel, Key

\* The fields of a frame and its place in its stream.
LEMMA FrameOf ==
  ASSUME NEW kind, NEW id, NEW n
  PROVE  LET f == Frame(kind, id, n)
         IN  /\ f.kind = kind /\ f.id = id /\ f.n = n
             /\ Key(f) = IF kind = "OPEN" THEN 0 ELSE IF kind = "DATA" THEN n ELSE Last
BY DEF Frame, Key

\* Two ways one behind the other: the keys of both, rising when each rises and all of the
\* first come before all of the second.
LEMMA KeysConcat ==
  ASSUME NEW a \in Seq(Parcel), NEW b \in Seq(Parcel), NEW id
  PROVE  /\ a \o b \in Seq(Parcel)
         /\ Keys(a \o b, id) = Keys(a, id) \cup Keys(b, id)
         /\ Rising(a \o b, id) <=> Rising(a, id) /\ Rising(b, id) /\ Before(Keys(a, id), Keys(b, id))
<1> DEFINE c == a \o b
<1>1. /\ c \in Seq(Parcel) /\ Len(c) = Len(a) + Len(b) /\ Len(a) \in Nat /\ Len(b) \in Nat
      /\ DOMAIN a = 1 .. Len(a) /\ DOMAIN b = 1 .. Len(b) /\ DOMAIN c = 1 .. Len(a) + Len(b)
      /\ \A i \in DOMAIN a : i \in DOMAIN c /\ c[i] = a[i]
      /\ \A i \in DOMAIN b : Len(a) + i \in DOMAIN c /\ c[Len(a) + i] = b[i]
      /\ \A i \in DOMAIN c : i > Len(a) => i - Len(a) \in DOMAIN b /\ c[i] = b[i - Len(a)]
  BY ConcatProperties
<1>0. /\ \A i \in DOMAIN a : Key(a[i]) \in Nat
      /\ \A i \in DOMAIN b : Key(b[i]) \in Nat
  <2>1. /\ \A i \in DOMAIN a : a[i] \in Parcel
        /\ \A i \in DOMAIN b : b[i] \in Parcel
    OBVIOUS
  <2>2. \A x \in Parcel : Key(x) \in Nat
    BY KeyOf, StreamFacts
  <2> QED
    BY <2>1, <2>2
<1> HIDE DEF c
<1>2. \A i \in DOMAIN c : i \in DOMAIN a \/ i - Len(a) \in DOMAIN b
  BY <1>1
<1>3. Keys(c, id) = Keys(a, id) \cup Keys(b, id)
  <2>1. Keys(c, id) \subseteq Keys(a, id) \cup Keys(b, id)
    <3> SUFFICES ASSUME NEW i \in DOMAIN c, c[i].id = id
                 PROVE  Key(c[i]) \in Keys(a, id) \cup Keys(b, id)
      BY DEF Keys
    <3>1. CASE i <= Len(a)
      <4>1. i \in DOMAIN a /\ c[i] = a[i]
        BY <1>1, <3>1
      <4> QED
        BY <4>1 DEF Keys
    <3>2. CASE i > Len(a)
      <4>1. i - Len(a) \in DOMAIN b /\ c[i] = b[i - Len(a)]
        BY <1>1, <3>2
      <4> QED
        BY <4>1 DEF Keys
    <3> QED
      BY <1>1, <3>1, <3>2
  <2>2. Keys(a, id) \subseteq Keys(c, id)
    BY <1>1 DEF Keys
  <2>3. Keys(b, id) \subseteq Keys(c, id)
    <3> SUFFICES ASSUME NEW i \in DOMAIN b, b[i].id = id
                 PROVE  Key(b[i]) \in Keys(c, id)
      BY DEF Keys
    <3>1. Len(a) + i \in DOMAIN c /\ c[Len(a) + i] = b[i]
      BY <1>1
    <3> QED
      BY <3>1 DEF Keys
  <2> QED
    BY <2>1, <2>2, <2>3
<1>4. ASSUME Rising(c, id)
      PROVE  Rising(a, id) /\ Rising(b, id) /\ Before(Keys(a, id), Keys(b, id))
  <2>1. Rising(a, id)
    BY <1>1, <1>4 DEF Rising
  <2>2. Rising(b, id)
    <3> SUFFICES ASSUME NEW i \in DOMAIN b, NEW j \in DOMAIN b, i < j, b[i].id = id, b[j].id = id
                 PROVE  Key(b[i]) < Key(b[j])
      BY DEF Rising
    <3>1. /\ Len(a) + i \in DOMAIN c /\ Len(a) + j \in DOMAIN c /\ Len(a) + i < Len(a) + j
          /\ c[Len(a) + i] = b[i] /\ c[Len(a) + j] = b[j]
      BY <1>1
    <3> QED
      BY <1>4, <3>1 DEF Rising
  <2>3. Before(Keys(a, id), Keys(b, id))
    <3> SUFFICES ASSUME NEW i \in DOMAIN a, NEW j \in DOMAIN b, a[i].id = id, b[j].id = id
                 PROVE  Key(a[i]) < Key(b[j])
      BY DEF Before, Keys
    <3>1. /\ i \in DOMAIN c /\ Len(a) + j \in DOMAIN c /\ i < Len(a) + j
          /\ c[i] = a[i] /\ c[Len(a) + j] = b[j]
      BY <1>1
    <3> QED
      BY <1>4, <3>1 DEF Rising
  <2> QED
    BY <2>1, <2>2, <2>3
<1>5. ASSUME Rising(a, id), Rising(b, id), Before(Keys(a, id), Keys(b, id))
      PROVE  Rising(c, id)
  <2> SUFFICES ASSUME NEW i \in DOMAIN c, NEW j \in DOMAIN c, i < j, c[i].id = id, c[j].id = id
               PROVE  Key(c[i]) < Key(c[j])
    BY DEF Rising
  <2>1. CASE j <= Len(a)
    <3>1. i \in DOMAIN a /\ j \in DOMAIN a /\ c[i] = a[i] /\ c[j] = a[j]
      BY <1>1, <2>1
    <3> QED
      BY <1>5, <3>1 DEF Rising
  <2>2. CASE i <= Len(a) /\ j > Len(a)
    <3>1. i \in DOMAIN a /\ j - Len(a) \in DOMAIN b /\ c[i] = a[i] /\ c[j] = b[j - Len(a)]
      BY <1>1, <2>2
    <3>2. Key(a[i]) \in Keys(a, id) /\ Key(b[j - Len(a)]) \in Keys(b, id)
      BY <3>1 DEF Keys
    <3> QED
      BY <1>5, <3>1, <3>2 DEF Before
  <2>3. CASE i > Len(a)
    <3>1. /\ i - Len(a) \in DOMAIN b /\ j - Len(a) \in DOMAIN b /\ i - Len(a) < j - Len(a)
          /\ c[i] = b[i - Len(a)] /\ c[j] = b[j - Len(a)]
      BY <1>1, <2>3
    <3> QED
      BY <1>5, <3>1 DEF Rising
  <2> QED
    BY <1>1, <2>1, <2>2, <2>3
<1> QED
  BY <1>1, <1>3, <1>4, <1>5 DEF c

\* An empty way and a single frame.
LEMMA KeysShort ==
  ASSUME NEW f, NEW id
  PROVE  /\ Keys(<<>>, id) = {} /\ Rising(<<>>, id)
         /\ Keys(<<f>>, id) = (IF f.id = id THEN {Key(f)} ELSE {}) /\ Rising(<<f>>, id)
<1>1. DOMAIN <<>> = {}
  OBVIOUS
<1>2. Keys(<<>>, id) = {} /\ Rising(<<>>, id)
  BY <1>1 DEF Keys, Rising
<1>3. DOMAIN <<f>> = {1} /\ <<f>>[1] = f
  OBVIOUS
<1> HIDE <1>3
<1>4. Keys(<<f>>, id) = (IF f.id = id THEN {Key(f)} ELSE {})
  BY <1>3 DEF Keys
<1>5. Rising(<<f>>, id)
  BY <1>3 DEF Rising
<1> QED
  BY <1>2, <1>4, <1>5

\* An empty way holds nothing of any stream.
LEMMA KeysNone == <<>> \in Seq(Parcel) /\ \A id : Keys(<<>>, id) = {} /\ Rising(<<>>, id)
<1>1. <<>> \in Seq(Parcel)
  OBVIOUS
<1>2. \A id : Keys(<<>>, id) = {} /\ Rising(<<>>, id)
  BY KeysShort, Zenon
<1> QED
  BY <1>1, <1>2

\* A place in a stream is between its OPEN and its CLOSE.
LEMMA KeysBound ==
  ASSUME NEW s \in Seq(Parcel), NEW id
  PROVE  Keys(s, id) \subseteq 0 .. Last
<1> SUFFICES ASSUME NEW i \in DOMAIN s
             PROVE  Key(s[i]) \in 0 .. Last
  BY DEF Keys
<1>1. s[i] \in Parcel
  OBVIOUS
<1> QED
  BY <1>1, KeyOf

\* A frame is put at the end of the way, or taken from its beginning.
LEMMA KeysPush ==
  ASSUME NEW s \in Seq(Parcel), NEW f \in Parcel, NEW id
  PROVE  /\ s \o <<f>> \in Seq(Parcel)
         /\ Keys(s \o <<f>>, id) = Keys(s, id) \cup (IF f.id = id THEN {Key(f)} ELSE {})
         /\ Rising(s, id) /\ (f.id = id => \A k \in Keys(s, id) : k < Key(f)) => Rising(s \o <<f>>, id)
<1>1. <<f>> \in Seq(Parcel)
  OBVIOUS
<1>2. /\ s \o <<f>> \in Seq(Parcel)
      /\ Keys(s \o <<f>>, id) = Keys(s, id) \cup Keys(<<f>>, id)
      /\ Rising(s \o <<f>>, id) <=> Rising(s, id) /\ Rising(<<f>>, id) /\ Before(Keys(s, id), Keys(<<f>>, id))
  BY <1>1, KeysConcat
<1> QED
  BY <1>2, KeysShort DEF Before

\* A frame taken from the beginning of the way.
LEMMA KeysTake ==
  ASSUME NEW s \in Seq(Parcel), NEW f \in Parcel, NEW id
  PROVE  /\ <<f>> \o s \in Seq(Parcel)
         /\ Keys(<<f>> \o s, id) = Keys(s, id) \cup (IF f.id = id THEN {Key(f)} ELSE {})
         /\ Rising(<<f>> \o s, id) <=> Rising(s, id) /\ (f.id = id => \A k \in Keys(s, id) : Key(f) < k)
<1>1. <<f>> \in Seq(Parcel)
  OBVIOUS
<1>2. /\ <<f>> \o s \in Seq(Parcel)
      /\ Keys(<<f>> \o s, id) = Keys(<<f>>, id) \cup Keys(s, id)
      /\ Rising(<<f>> \o s, id) <=> Rising(<<f>>, id) /\ Rising(s, id) /\ Before(Keys(<<f>>, id), Keys(s, id))
  BY <1>1, KeysConcat
<1> QED
  BY <1>2, KeysShort DEF Before

-----------------------------------------------------------------------------
(* The output queues.                                                       *)

\* The frames of an output queue, one per entry.
LEMMA FramesOf ==
  ASSUME NEW s \in Seq(Entry)
  PROVE  /\ Frames(s) \in Seq(Parcel) /\ Len(Frames(s)) = Len(s) /\ DOMAIN Frames(s) = DOMAIN s
         /\ s = <<>> <=> Frames(s) = <<>>
         /\ \A i \in DOMAIN s : s[i] \in Entry /\ s[i].frame \in Parcel /\ s[i].age \in Nat
<1>1. \A x \in Entry : x.frame \in Parcel /\ x.age \in Nat
  BY DEF Entry
<1>2. /\ DOMAIN s = 1 .. Len(s) /\ Len(s) \in Nat
      /\ \A i \in 1 .. Len(s) : s[i] \in Entry /\ s[i].frame \in Parcel /\ s[i].age \in Nat
  BY <1>1, LenProperties
<1>3. Frames(s) \in Seq(Parcel)
  BY <1>2, IsASeq DEF Frames
<1>4. DOMAIN Frames(s) = 1 .. Len(s)
  BY <1>2 DEF Frames
<1>5. Len(Frames(s)) = Len(s)
  BY <1>2, <1>3, <1>4
<1> QED
  BY <1>2, <1>3, <1>4, <1>5

\* An empty output holds no frames.
LEMMA FramesEmpty == Frames(<<>>) = <<>> /\ <<>> \in Seq(Entry)
<1>1. <<>> \in Seq(Entry)
  OBVIOUS
<1> QED
  BY <1>1, FramesOf

\* The frames of two outputs one behind the other.
LEMMA FramesConcat ==
  ASSUME NEW s \in Seq(Entry), NEW t \in Seq(Entry)
  PROVE  s \o t \in Seq(Entry) /\ Frames(s \o t) = Frames(s) \o Frames(t)
<1>1. /\ s \o t \in Seq(Entry) /\ Len(s \o t) = Len(s) + Len(t) /\ Len(s) \in Nat /\ Len(t) \in Nat
      /\ DOMAIN s = 1 .. Len(s) /\ DOMAIN t = 1 .. Len(t) /\ DOMAIN (s \o t) = 1 .. Len(s) + Len(t)
      /\ \A i \in 1 .. Len(s) + Len(t) : (s \o t)[i] = IF i <= Len(s) THEN s[i] ELSE t[i - Len(s)]
  BY ConcatProperties
<1>2. /\ Frames(s) \in Seq(Parcel) /\ Len(Frames(s)) = Len(s)
      /\ Frames(t) \in Seq(Parcel) /\ Len(Frames(t)) = Len(t)
      /\ Frames(s \o t) \in Seq(Parcel) /\ Len(Frames(s \o t)) = Len(s) + Len(t)
  BY <1>1, FramesOf
<1>3. /\ Frames(s) \o Frames(t) \in Seq(Parcel) /\ Len(Frames(s) \o Frames(t)) = Len(s) + Len(t)
      /\ \A i \in 1 .. Len(s) + Len(t) :
            (Frames(s) \o Frames(t))[i] = IF i <= Len(s) THEN Frames(s)[i] ELSE Frames(t)[i - Len(s)]
  BY <1>2, ConcatProperties
<1>4. ASSUME NEW i \in 1 .. Len(s) + Len(t)
      PROVE  Frames(s \o t)[i] = (Frames(s) \o Frames(t))[i]
  <2>1. Frames(s \o t)[i] = (s \o t)[i].frame
    BY <1>1 DEF Frames
  <2>2. CASE i <= Len(s)
    <3>1. i \in DOMAIN s
      BY <1>1, <2>2
    <3> QED
      BY <1>1, <1>3, <2>1, <2>2, <3>1 DEF Frames
  <2>3. CASE i > Len(s)
    <3>1. i - Len(s) \in DOMAIN t
      BY <1>1, <2>3
    <3> QED
      BY <1>1, <1>3, <2>1, <2>3, <3>1 DEF Frames
  <2>4. i <= Len(s) \/ i > Len(s)
    BY <1>1
  <2> QED
    BY <2>2, <2>3, <2>4
<1>5. Frames(s \o t) = Frames(s) \o Frames(t)
  BY <1>2, <1>3, <1>4, SeqEqual
<1> QED
  BY <1>1, <1>5

\* A frame pushed onto an output is its last one.
LEMMA FramesPush ==
  ASSUME NEW s \in Seq(Entry), NEW f \in Parcel
  PROVE  /\ Push(s, f) \in Seq(Entry) /\ Push(s, f) # <<>>
         /\ Frames(Push(s, f)) = Frames(s) \o <<f>>
<1> DEFINE x == [frame |-> f, age |-> 0]
<1>1. x \in Entry
  BY DEF Entry
<1>2. <<x>> \in Seq(Entry) /\ Push(s, f) = s \o <<x>>
  BY <1>1, AppendIsConcat DEF Push
<1>3. Frames(<<x>>) = <<f>>
  <2>1. DOMAIN <<x>> = 1 .. 1 /\ <<x>>[1] = x /\ x.frame = f
    OBVIOUS
  <2>2. Frames(<<x>>) = [i \in 1 .. 1 |-> f]
    <3> HIDE DEF x
    <3> QED
      BY <2>1 DEF Frames
  <2>3. [i \in 1 .. 1 |-> f] = <<f>>
    OBVIOUS
  <2> QED
    BY <2>2, <2>3
<1>4. Push(s, f) \in Seq(Entry) /\ Push(s, f) # <<>>
  BY <1>1, AppendProperties DEF Push
<1> HIDE DEF x
<1> QED
  BY <1>2, <1>3, <1>4, FramesConcat

\* A sequence is its head before its tail.
LEMMA SplitHead ==
  ASSUME NEW S, NEW s \in Seq(S), s # <<>>
  PROVE  Head(s) \in S /\ Tail(s) \in Seq(S) /\ s = <<Head(s)>> \o Tail(s) /\ Head(s) = s[1]
<1>1. /\ Head(s) \in S /\ Tail(s) \in Seq(S) /\ Len(Tail(s)) = Len(s) - 1 /\ Len(s) \in Nat \ {0}
      /\ \A i \in 1 .. Len(Tail(s)) : Tail(s)[i] = s[i + 1]
      /\ Head(s) = s[1]
  BY HeadTailProperties, EmptySeq
<1>2. <<Head(s)>> \in Seq(S) /\ Len(<<Head(s)>>) = 1 /\ <<Head(s)>>[1] = Head(s)
  BY <1>1
<1> DEFINE w == <<Head(s)>>
<1> HIDE DEF w
<1>3. /\ w \o Tail(s) \in Seq(S) /\ Len(w \o Tail(s)) = Len(s)
      /\ \A i \in 1 .. Len(s) : (w \o Tail(s))[i] = IF i <= 1 THEN w[i] ELSE Tail(s)[i - 1]
  BY <1>1, <1>2, ConcatProperties DEF w
<1>4. \A i \in 1 .. Len(s) : (w \o Tail(s))[i] = s[i]
  BY <1>1, <1>2, <1>3 DEF w
<1>5. w \o Tail(s) = s
  BY <1>3, <1>4, SeqEqual
<1> QED
  BY <1>1, <1>5 DEF w

\* The frame that a write takes is the first one.
LEMMA FramesTail ==
  ASSUME NEW s \in Seq(Entry), s # <<>>
  PROVE  /\ Tail(s) \in Seq(Entry) /\ Head(s).frame \in Parcel
         /\ Frames(s) = <<Head(s).frame>> \o Frames(Tail(s))
<1>1. Head(s) \in Entry /\ Tail(s) \in Seq(Entry) /\ s = <<Head(s)>> \o Tail(s)
  BY SplitHead
<1>2. Head(s).frame \in Parcel
  BY <1>1 DEF Entry
<1>3. <<Head(s)>> \in Seq(Entry)
  BY <1>1
<1>4. Frames(<<Head(s)>>) = <<Head(s).frame>>
  <2>1. DOMAIN <<Head(s)>> = 1 .. 1 /\ <<Head(s)>>[1] = Head(s)
    OBVIOUS
  <2>2. Frames(<<Head(s)>>) = [i \in 1 .. 1 |-> Head(s).frame]
    BY <2>1 DEF Frames
  <2>3. [i \in 1 .. 1 |-> Head(s).frame] = <<Head(s).frame>>
    OBVIOUS
  <2> QED
    BY <2>2, <2>3
<1>5. Frames(<<Head(s)>> \o Tail(s)) = Frames(<<Head(s)>>) \o Frames(Tail(s))
  BY <1>1, <1>3, FramesConcat
<1> QED
  BY <1>1, <1>2, <1>4, <1>5

-----------------------------------------------------------------------------
(* The room in an output queue.                                             *)
\* The frames with a payload.
Bulk(s) == {i \in DOMAIN s : s[i].kind = "DATA"}

\* What an output uses: a unit per header and one per payload.
LEMMA UsedOf ==
  ASSUME NEW s \in Seq(Parcel)
  PROVE  /\ IsFiniteSet(Bulk(s)) /\ Cardinality(Bulk(s)) \in Nat
         /\ Used(s) = Len(s) + Cardinality(Bulk(s)) /\ Used(s) \in Nat /\ Used(s) >= Len(s)
<1>1. Len(s) \in Nat /\ DOMAIN s = 1 .. Len(s)
  BY LenProperties
<1>2. IsFiniteSet(Bulk(s))
  <2>1. IsFiniteSet(1 .. Len(s))
    BY <1>1, FS_Interval
  <2>2. Bulk(s) \in SUBSET (1 .. Len(s))
    BY <1>1 DEF Bulk
  <2> QED
    BY <2>1, <2>2, FS_Subset
<1>3. Used(s) = Len(s) + Cardinality(Bulk(s))
  BY DEF Used, Bulk
<1> QED
  BY <1>1, <1>2, <1>3, FS_CardinalityType

\* A frame uses two units when it has a payload, and one without.
LEMMA UsedPush ==
  ASSUME NEW s \in Seq(Parcel), NEW f \in Parcel
  PROVE  Used(s \o <<f>>) = Used(s) + (IF f.kind = "DATA" THEN 2 ELSE 1)
<1>1. /\ s \o <<f>> \in Seq(Parcel) /\ Len(s \o <<f>>) = Len(s) + 1 /\ Len(s) \in Nat
      /\ DOMAIN s = 1 .. Len(s) /\ DOMAIN (s \o <<f>>) = 1 .. Len(s) + 1
      /\ \A i \in 1 .. Len(s) : (s \o <<f>>)[i] = s[i]
      /\ (s \o <<f>>)[Len(s) + 1] = f
  BY AppendProperties, AppendIsConcat, LenProperties
<1>2. Bulk(s \o <<f>>) = Bulk(s) \cup (IF f.kind = "DATA" THEN {Len(s) + 1} ELSE {})
  BY <1>1 DEF Bulk
<1>3. Len(s) + 1 \notin Bulk(s)
  BY <1>1 DEF Bulk
<1>4. Cardinality(Bulk(s \o <<f>>)) = Cardinality(Bulk(s)) + (IF f.kind = "DATA" THEN 1 ELSE 0)
  <2>1. CASE f.kind = "DATA"
    BY <1>2, <1>3, <2>1, UsedOf, FS_AddElement
  <2>2. CASE f.kind # "DATA"
    <3>1. Bulk(s \o <<f>>) = Bulk(s)
      BY <1>2, <2>2
    <3> QED
      BY <3>1, <2>2, UsedOf
  <2> QED
    BY <2>1, <2>2
<1>5. /\ Used(s \o <<f>>) = Len(s) + 1 + Cardinality(Bulk(s \o <<f>>))
      /\ Used(s) = Len(s) + Cardinality(Bulk(s)) /\ Cardinality(Bulk(s)) \in Nat
  BY <1>1, UsedOf
<1> QED
  BY <1>1, <1>4, <1>5

\* A frame that leaves gives back what it used.
LEMMA UsedTail ==
  ASSUME NEW s \in Seq(Parcel), NEW f \in Parcel
  PROVE  Used(s) < Used(<<f>> \o s)
<1>1. <<f>> \in Seq(Parcel) /\ Len(<<f>>) = 1
  OBVIOUS
<1>2. /\ <<f>> \o s \in Seq(Parcel) /\ Len(<<f>> \o s) = 1 + Len(s) /\ Len(s) \in Nat
      /\ DOMAIN s = 1 .. Len(s) /\ DOMAIN (<<f>> \o s) = 1 .. 1 + Len(s)
      /\ \A i \in 1 .. Len(s) : (<<f>> \o s)[i + 1] = s[i]
  BY <1>1, ConcatProperties, LenProperties
<1> DEFINE t == <<f>> \o s
<1> HIDE DEF t
<1>3. \A i \in Bulk(s) : i \in 1 .. Len(s) /\ i + 1 \in Bulk(t)
  BY <1>2 DEF Bulk, t
<1> DEFINE up == [i \in Bulk(s) |-> i + 1]
<1>4. up \in Injection(Bulk(s), Bulk(t))
  <2>1. up \in [Bulk(s) -> Bulk(t)]
    BY <1>3
  <2>2. \A a, b \in Bulk(s) : up[a] = up[b] => a = b
    BY <1>2, <1>3
  <2> HIDE DEF up
  <2> QED
    BY <2>1, <2>2 DEF Injection, IsInjective
<1>5. /\ IsFiniteSet(Bulk(t)) /\ Used(t) = 1 + Len(s) + Cardinality(Bulk(t)) /\ Cardinality(Bulk(t)) \in Nat
      /\ Used(s) = Len(s) + Cardinality(Bulk(s)) /\ Cardinality(Bulk(s)) \in Nat
  BY <1>2, UsedOf DEF t
<1>6. Cardinality(Bulk(s)) <= Cardinality(Bulk(t))
  BY <1>4, <1>5, FS_Injection
<1>7. Used(s) < Used(t)
  BY <1>2, <1>5, <1>6
<1> QED
  BY <1>7 DEF t

\* A CLOSE uses one unit.
LEMMA UsedCloses ==
  ASSUME NEW s \in Seq(Parcel), NEW t \in Seq(Parcel), \A i \in DOMAIN t : t[i].kind = "CLOSE"
  PROVE  Used(s \o t) = Used(s) + Len(t)
<1>1. /\ s \o t \in Seq(Parcel) /\ Len(s \o t) = Len(s) + Len(t) /\ Len(s) \in Nat /\ Len(t) \in Nat
      /\ DOMAIN s = 1 .. Len(s) /\ DOMAIN t = 1 .. Len(t) /\ DOMAIN (s \o t) = 1 .. Len(s) + Len(t)
      /\ \A i \in 1 .. Len(s) + Len(t) : (s \o t)[i] = IF i <= Len(s) THEN s[i] ELSE t[i - Len(s)]
  BY ConcatProperties, LenProperties
<1>2. Bulk(s \o t) = Bulk(s)
  <2>1. ASSUME NEW i \in 1 .. Len(s) + Len(t), i > Len(s)
        PROVE  (s \o t)[i].kind # "DATA"
    <3>1. i - Len(s) \in DOMAIN t /\ (s \o t)[i] = t[i - Len(s)]
      BY <1>1, <2>1
    <3> QED
      BY <3>1
  <2>2. Bulk(s \o t) \subseteq Bulk(s)
    BY <1>1, <2>1 DEF Bulk
  <2>3. Bulk(s) \subseteq Bulk(s \o t)
    BY <1>1 DEF Bulk
  <2> QED
    BY <2>2, <2>3
<1> DEFINE c == s \o t
<1> HIDE DEF c
<1>3. /\ Used(c) = Len(c) + Cardinality(Bulk(c)) /\ Used(s) = Len(s) + Cardinality(Bulk(s))
      /\ Bulk(c) = Bulk(s) /\ Cardinality(Bulk(s)) \in Nat /\ Len(c) = Len(s) + Len(t)
  BY <1>1, <1>2, UsedOf DEF c
<1>4. Used(c) = Used(s) + Len(t)
  BY <1>1, <1>3
<1> QED
  BY <1>4 DEF c

-----------------------------------------------------------------------------
(* The CLOSE frames of a set of streams.                                    *)
\* The members of S below id.
Rank(S, id) == Cardinality({j \in S : j < id})

\* Ids are counted off from the lowest: each one of a set has a rank of its own.
LEMMA RankOf ==
  ASSUME NEW S \in SUBSET Streams
  PROVE  /\ IsFiniteSet(S) /\ Cardinality(S) \in Nat
         /\ \A id \in S : Rank(S, id) \in 0 .. Cardinality(S) - 1
         /\ \A a, b \in S : Rank(S, a) = Rank(S, b) => a = b
         /\ \A i \in 1 .. Cardinality(S) : \E id \in S : Rank(S, id) = i - 1
         /\ \A T \in SUBSET S, id \in S : Rank(T, id) <= Rank(S, id)
<1>1. S \subseteq Nat /\ IsFiniteSet(S) /\ Cardinality(S) \in Nat
  <2>1. IsFiniteSet(Streams) /\ Streams \subseteq Nat
    BY StreamFacts, FS_Interval DEF Streams
  <2> QED
    BY <2>1, FS_Subset, FS_CardinalityType
<1>2. ASSUME NEW T \in SUBSET S
      PROVE  IsFiniteSet(T) /\ Cardinality(T) \in Nat /\ Cardinality(T) <= Cardinality(S)
  BY <1>1, FS_Subset, FS_CardinalityType
<1>3. ASSUME NEW id \in S
      PROVE  Rank(S, id) \in 0 .. Cardinality(S) - 1
  <2> DEFINE T == {j \in S : j < id}
  <2>1. T \in SUBSET (S \ {id})
    BY <1>1
  <2>2. IsFiniteSet(S \ {id}) /\ Cardinality(S \ {id}) = Cardinality(S) - 1
    BY <1>1, FS_RemoveElement
  <2>3. Cardinality(T) <= Cardinality(S) - 1
    BY <2>1, <2>2, FS_Subset
  <2>4. Cardinality(T) \in Nat
    BY <1>2
  <2> QED
    BY <1>1, <2>3, <2>4 DEF Rank
<1>4. ASSUME NEW a \in S, NEW b \in S, a < b
      PROVE  Rank(S, a) < Rank(S, b)
  <2> DEFINE T == {j \in S : j < a}
             Q == {j \in S : j < b}
  <2>0. a \in Nat /\ b \in Nat /\ \A j \in S : j \in Nat
    BY <1>1
  <2>1. T \cup {a} \in SUBSET Q /\ a \notin T
    <3>1. \A j \in S : j < a => j < b
      BY <1>4, <2>0
    <3>2. a \in Q /\ ~(a < a)
      BY <1>4, <2>0
    <3> QED
      BY <3>1, <3>2
  <2>2. T \in SUBSET S /\ Q \in SUBSET S
    OBVIOUS
  <2> HIDE DEF T, Q
  <2>3. IsFiniteSet(T) /\ IsFiniteSet(Q) /\ Cardinality(T) \in Nat /\ Cardinality(Q) \in Nat
    BY <1>2, <2>2
  <2>4. Cardinality(T \cup {a}) = Cardinality(T) + 1
    BY <2>1, <2>3, FS_AddElement
  <2>5. Cardinality(T \cup {a}) <= Cardinality(Q)
    BY <2>1, <2>3, FS_Subset
  <2> QED
    BY <2>3, <2>4, <2>5 DEF Rank, T, Q
<1>5. ASSUME NEW a \in S, NEW b \in S, Rank(S, a) = Rank(S, b)
      PROVE  a = b
  <2>1. a \in Nat /\ b \in Nat /\ Rank(S, a) \in Nat /\ Rank(S, b) \in Nat
    BY <1>1, <1>3
  <2>2. ~(a < b) /\ ~(b < a)
    BY <1>4, <1>5, <2>1
  <2> QED
    BY <2>1, <2>2
<1>6. \A i \in 1 .. Cardinality(S) : \E id \in S : Rank(S, id) = i - 1
  <2> DEFINE R == 0 .. Cardinality(S) - 1
             r == [id \in S |-> Rank(S, id)]
  <2>1. r \in [S -> R]
    BY <1>3
  <2>2. \A a, b \in S : r[a] = r[b] => a = b
    BY <1>5
  <2>3. DOMAIN r = S
    OBVIOUS
  <2>4. IsFiniteSet(R) /\ Cardinality(R) = Cardinality(S)
    <3>1. 0 \in Int /\ Cardinality(S) - 1 \in Int
      BY <1>1
    <3>2. IsFiniteSet(R) /\ Cardinality(R) = IF 0 > Cardinality(S) - 1 THEN 0 ELSE Cardinality(S) - 1 - 0 + 1
      BY <3>1, FS_Interval
    <3> QED
      BY <1>1, <3>2
  <2>5. r \in Injection(S, R)
    <3> HIDE DEF r, R
    <3> QED
      BY <2>1, <2>2, <2>3 DEF Injection, IsInjective
  <2>6. r \in Surjection(S, R)
    <3> HIDE DEF r, R
    <3> QED
      BY <2>4, <2>5, FS_Injection
  <2>7. \A n \in R : \E id \in S : r[id] = n
    <3> HIDE DEF r, R
    <3> QED
      BY <2>6 DEF Surjection
  <2> QED
    BY <1>1, <2>7
<1>7. ASSUME NEW T \in SUBSET S, NEW id \in S
      PROVE  Rank(T, id) <= Rank(S, id)
  <2> DEFINE A == {j \in T : j < id}
             B == {j \in S : j < id}
  <2>1. A \in SUBSET B /\ B \in SUBSET S
    OBVIOUS
  <2> HIDE DEF A, B
  <2>2. IsFiniteSet(B)
    BY <1>2, <2>1
  <2>3. Cardinality(A) <= Cardinality(B)
    BY <2>1, <2>2, FS_Subset
  <2> QED
    BY <2>3 DEF Rank, A, B
<1> QED
  BY <1>1, <1>3, <1>5, <1>6, <1>7

\* The CLOSE frames of a set of streams: one per stream, which is the last of that stream.
LEMMA ClosesOf ==
  ASSUME NEW S \in SUBSET Streams
  PROVE  /\ Closes(S) \in Seq(Entry) /\ Len(Closes(S)) = Cardinality(S) /\ Cardinality(S) \in Nat
         /\ \A i \in DOMAIN Closes(S) : Closes(S)[i].age = 0 /\ Closes(S)[i].frame.kind = "CLOSE"
         /\ S = {} <=> Closes(S) = <<>>
         /\ \A id : Keys(Frames(Closes(S)), id) = (IF id \in S THEN {Last} ELSE {})
         /\ \A id : Rising(Frames(Closes(S)), id)
<1> DEFINE n == Cardinality(S)
           pick(i) == CHOOSE id \in S : Cardinality({j \in S : j < id}) = i - 1
           c == Closes(S)
<1>1. /\ n \in Nat /\ \A id \in S : Rank(S, id) \in 0 .. n - 1
      /\ \A i \in 1 .. n : pick(i) \in S /\ Rank(S, pick(i)) = i - 1
  <2>1. n \in Nat /\ (\A id \in S : Rank(S, id) \in 0 .. n - 1)
        /\ \A i \in 1 .. n : \E id \in S : Rank(S, id) = i - 1
    BY RankOf
  <2>2. \A i : pick(i) = CHOOSE id \in S : Rank(S, id) = i - 1
    BY DEF Rank
  <2> HIDE DEF pick
  <2>3. \A i \in 1 .. n : pick(i) \in S /\ Rank(S, pick(i)) = i - 1
    BY <2>1, <2>2
  <2> QED
    BY <2>1, <2>3
<1>2. \A id \in S : Rank(S, id) + 1 \in 1 .. n /\ pick(Rank(S, id) + 1) = id
  <2> SUFFICES ASSUME NEW id \in S
               PROVE  Rank(S, id) + 1 \in 1 .. n /\ pick(Rank(S, id) + 1) = id
    OBVIOUS
  <2>1. Rank(S, id) + 1 \in 1 .. n /\ Rank(S, id) \in Nat
    BY <1>1
  <2>2. /\ pick(Rank(S, id) + 1) \in S
        /\ Rank(S, pick(Rank(S, id) + 1)) = (Rank(S, id) + 1) - 1
    <3> HIDE DEF pick
    <3> QED
      BY <1>1, <2>1
  <2> HIDE DEF pick
  <2>3. Rank(S, pick(Rank(S, id) + 1)) = Rank(S, id)
    BY <2>1, <2>2
  <2> QED
    BY <2>1, <2>2, <2>3, RankOf
<1>3. c = [i \in 1 .. n |-> [frame |-> Frame("CLOSE", pick(i), 0), age |-> 0]]
  BY DEF Closes
<1> HIDE DEF pick, c
<1>4. \A i \in 1 .. n : Frame("CLOSE", pick(i), 0) \in Parcel
  BY <1>1, StreamFacts DEF Frame, Parcel
<1>5. \A i \in 1 .. n : [frame |-> Frame("CLOSE", pick(i), 0), age |-> 0] \in Entry
  BY <1>4 DEF Entry
<1>6. c \in Seq(Entry) /\ Len(c) = n /\ DOMAIN c = 1 .. n
  BY <1>1, <1>3, <1>5, IsASeq
<1>7. \A i \in 1 .. n : c[i].age = 0 /\ c[i].frame = Frame("CLOSE", pick(i), 0)
  BY <1>3
<1>8. S = {} <=> c = <<>>
  <2>1. S = {} <=> n = 0
    BY RankOf, FS_EmptySet
  <2> QED
    BY <1>6, <2>1, EmptySeq
<1> DEFINE d == Frames(c)
<1>9. DOMAIN d = 1 .. n /\ \A i \in 1 .. n : d[i].id = pick(i) /\ d[i].kind = "CLOSE" /\ Key(d[i]) = Last
  <2>1. d = [i \in DOMAIN c |-> c[i].frame]
    BY DEF Frames
  <2> HIDE DEF d
  <2>2. DOMAIN d = 1 .. n /\ \A i \in 1 .. n : d[i] = c[i].frame
    BY <1>6, <2>1
  <2> QED
    BY <1>7, <2>2, FrameOf
<1> HIDE DEF d
<1>10. ASSUME NEW id
       PROVE  Keys(d, id) = (IF id \in S THEN {Last} ELSE {}) /\ Rising(d, id)
  <2>1. CASE id \notin S
    <3>1. \A i \in DOMAIN d : d[i].id # id
      BY <1>1, <1>9, <2>1
    <3> QED
      BY <2>1, <3>1 DEF Keys, Rising
  <2>2. CASE id \in S
    <3> DEFINE at == Rank(S, id) + 1
    <3>1. at \in DOMAIN d /\ d[at].id = id /\ Key(d[at]) = Last
      BY <1>2, <1>9, <2>2
    <3>2. \A i \in DOMAIN d : d[i].id = id => i = at
      <4> SUFFICES ASSUME NEW i \in 1 .. n, pick(i) = id
                   PROVE  i = at
        BY <1>9
      <4> QED
        BY <1>1
    <3> HIDE DEF at
    <3>3. Keys(d, id) = {Last}
      BY <1>9, <3>1 DEF Keys
    <3>4. Rising(d, id)
      BY <1>1, <1>9, <3>2 DEF Rising
    <3> QED
      BY <2>2, <3>3, <3>4
  <2> QED
    BY <2>1, <2>2
<1>11. c = Closes(S) /\ d = Frames(Closes(S)) /\ n = Cardinality(S)
  BY DEF c, d
<1>12. \A i \in DOMAIN c : c[i].age = 0 /\ c[i].frame.kind = "CLOSE"
  BY <1>6, <1>7, FrameOf
<1> HIDE DEF n
<1> QED
  BY <1>1, <1>6, <1>8, <1>10, <1>11, <1>12

-----------------------------------------------------------------------------
(* The queues of the peers.                                                 *)
\* What the host queues.
Chunk == [n : 1 .. MaxData, age : Nat]

\* What the host holds for a connection are payloads of its stream.
LEMMA HostQueueOf ==
  ASSUME NEW p \in HostPeers \cup {NoRelay}, NEW id \in Streams
  PROVE  /\ HostQueue(p, id) \in Seq(Parcel)
         /\ Keys(HostQueue(p, id), id) \subseteq 1 .. MaxData
         /\ p = NoRelay => Keys(HostQueue(p, id), id) = {} /\ Rising(HostQueue(p, id), id)
         /\ p # NoRelay /\ p.queue = <<>> => Keys(HostQueue(p, id), id) = {} /\ Rising(HostQueue(p, id), id)
<1>1. CASE p = NoRelay
  <2>1. HostQueue(p, id) = <<>>
    BY <1>1 DEF HostQueue
  <2> QED
    BY <1>1, <2>1, KeysNone, Zenon
<1>2. CASE p \in HostPeers
  <2>1. p # NoRelay /\ p.queue \in Seq(Chunk)
    BY <1>2, StreamFacts DEF HostPeers, Chunk
  <2> DEFINE q == p.queue
             s == HostQueue(p, id)
  <2>2. s = [i \in DOMAIN q |-> Frame("DATA", id, q[i].n)]
    BY <2>1 DEF HostQueue
  <2>3. DOMAIN q = 1 .. Len(q) /\ Len(q) \in Nat /\ \A i \in 1 .. Len(q) : q[i].n \in 1 .. MaxData
    <3>1. \A x \in Chunk : x.n \in 1 .. MaxData
      BY DEF Chunk
    <3> QED
      BY <2>1, <3>1, LenProperties
  <2> HIDE DEF q, s
  <2>4. \A i \in 1 .. Len(q) : Frame("DATA", id, q[i].n) \in Parcel
    <3>1. \A n \in 1 .. MaxData : Frame("DATA", id, n) \in Parcel
      BY StreamFacts DEF Frame, Parcel
    <3> QED
      BY <2>3, <3>1
  <2>5. s \in Seq(Parcel) /\ DOMAIN s = 1 .. Len(q)
    BY <2>2, <2>3, <2>4, IsASeq
  <2>6. \A i \in DOMAIN s : Key(s[i]) \in 1 .. MaxData
    BY <2>2, <2>3, <2>5, FrameOf
  <2>7. Keys(s, id) \subseteq 1 .. MaxData
    BY <2>6 DEF Keys
  <2>8. q = <<>> => Keys(s, id) = {} /\ Rising(s, id)
    BY <2>3, <2>5, EmptySeq DEF Keys, Rising
  <2> QED
    BY <2>1, <2>5, <2>7, <2>8 DEF s, q
<1> QED
  BY <1>1, <1>2

\* A payload that is queued at the host is the last one there.
LEMMA HostQueueTakes ==
  ASSUME NEW p \in HostPeers, NEW w \in HostPeers, NEW id \in Streams, NEW c \in Chunk,
         w.queue = Append(p.queue, c)
  PROVE  HostQueue(w, id) = HostQueue(p, id) \o <<Frame("DATA", id, c.n)>>
<1>1. p # NoRelay /\ w # NoRelay /\ p.queue \in Seq(Chunk)
  BY StreamFacts DEF HostPeers, Chunk
<1> DEFINE q == p.queue
           a == HostQueue(p, id)
           b == HostQueue(w, id)
           f == Frame("DATA", id, c.n)
<1>2. a = [i \in DOMAIN q |-> Frame("DATA", id, q[i].n)]
  BY <1>1 DEF HostQueue
<1>3. b = [i \in DOMAIN Append(q, c) |-> Frame("DATA", id, Append(q, c)[i].n)]
  BY <1>1 DEF HostQueue
<1>4. /\ DOMAIN q = 1 .. Len(q) /\ Len(q) \in Nat /\ DOMAIN Append(q, c) = 1 .. Len(q) + 1
      /\ \A i \in 1 .. Len(q) : Append(q, c)[i] = q[i]
      /\ Append(q, c)[Len(q) + 1] = c
  BY <1>1, AppendProperties, LenProperties
<1>5. a \in Seq(Parcel) /\ b \in Seq(Parcel)
  BY HostQueueOf
<1>6. f \in Parcel
  BY StreamFacts DEF Frame, Parcel, Chunk
<1> HIDE DEF q, a, b, f
<1>7. DOMAIN a = 1 .. Len(q) /\ DOMAIN b = 1 .. Len(q) + 1 /\ Len(a) = Len(q) /\ Len(b) = Len(q) + 1
  BY <1>2, <1>3, <1>4, <1>5, LenProperties
<1>8. \A i \in 1 .. Len(q) : b[i] = a[i]
  BY <1>2, <1>3, <1>4
<1>9. b[Len(q) + 1] = f
  BY <1>3, <1>4 DEF f
<1>10. /\ Append(a, f) \in Seq(Parcel) /\ Len(Append(a, f)) = Len(q) + 1
       /\ \A i \in 1 .. Len(q) : Append(a, f)[i] = a[i]
       /\ Append(a, f)[Len(q) + 1] = f
  BY <1>5, <1>6, <1>7, AppendProperties
<1>11. \A i \in 1 .. Len(q) + 1 : b[i] = Append(a, f)[i]
  BY <1>4, <1>8, <1>9, <1>10
<1>12. b = Append(a, f)
  BY <1>5, <1>7, <1>10, <1>11, SeqEqual
<1>13. Append(a, f) = a \o <<f>>
  BY <1>5, <1>6, AppendIsConcat
<1> QED
  BY <1>12, <1>13 DEF a, b, f

\* A payload that the host delivers is the first one there.
LEMMA HostQueueGives ==
  ASSUME NEW p \in HostPeers, NEW w \in HostPeers, NEW id \in Streams,
         p.queue # <<>>, w.queue = Tail(p.queue)
  PROVE  /\ Head(p.queue).n \in 1 .. MaxData
         /\ HostQueue(p, id) = <<Frame("DATA", id, Head(p.queue).n)>> \o HostQueue(w, id)
<1>1. p # NoRelay /\ w # NoRelay /\ p.queue \in Seq(Chunk)
  BY StreamFacts DEF HostPeers, Chunk
<1> DEFINE q == p.queue
           a == HostQueue(p, id)
           b == HostQueue(w, id)
           f == Frame("DATA", id, Head(q).n)
<1>2. a = [i \in DOMAIN q |-> Frame("DATA", id, q[i].n)]
  BY <1>1 DEF HostQueue
<1>3. b = [i \in DOMAIN Tail(q) |-> Frame("DATA", id, Tail(q)[i].n)]
  BY <1>1 DEF HostQueue
<1>4. /\ DOMAIN q = 1 .. Len(q) /\ Len(q) \in Nat \ {0} /\ DOMAIN Tail(q) = 1 .. Len(q) - 1
      /\ \A i \in 1 .. Len(q) - 1 : Tail(q)[i] = q[i + 1]
      /\ Head(q) = q[1] /\ Head(q) \in Chunk
  <2>1. q \in Seq(Chunk) /\ q # <<>>
    BY <1>1
  <2> HIDE DEF q
  <2>2. DOMAIN q = 1 .. Len(q) /\ Len(q) \in Nat \ {0}
    BY <2>1, LenProperties, EmptySeq
  <2>3. /\ Head(q) \in Chunk /\ Tail(q) \in Seq(Chunk) /\ Len(Tail(q)) = Len(q) - 1
        /\ \A i \in 1 .. Len(Tail(q)) : Tail(q)[i] = q[i + 1]
    BY <2>1, HeadTailProperties
  <2>4. DOMAIN Tail(q) = 1 .. Len(q) - 1
    BY <2>3, LenProperties
  <2>5. Head(q) = q[1]
    BY <2>1, SplitHead
  <2> QED
    BY <2>2, <2>3, <2>4, <2>5
<1>5. a \in Seq(Parcel) /\ b \in Seq(Parcel)
  BY HostQueueOf
<1>6. f \in Parcel /\ Head(q).n \in 1 .. MaxData
  BY <1>4, StreamFacts DEF Frame, Parcel, Chunk
<1> HIDE DEF q, a, b, f
<1>7. DOMAIN a = 1 .. Len(q) /\ DOMAIN b = 1 .. Len(q) - 1 /\ Len(a) = Len(q) /\ Len(b) = Len(q) - 1
  BY <1>2, <1>3, <1>4, <1>5, LenProperties
<1>8. \A i \in 1 .. Len(q) - 1 : b[i] = a[i + 1]
  BY <1>2, <1>3, <1>4
<1>9. a[1] = f
  BY <1>2, <1>4 DEF f
<1>10. a # <<>>
  BY <1>4, <1>5, <1>7, EmptySeq
<1>11. a = <<Head(a)>> \o Tail(a) /\ Head(a) = f
  BY <1>5, <1>9, <1>10, SplitHead
<1>12. Tail(a) \in Seq(Parcel) /\ Len(Tail(a)) = Len(q) - 1 /\ \A i \in 1 .. Len(q) - 1 : Tail(a)[i] = a[i + 1]
  BY <1>5, <1>7, <1>10, HeadTailProperties
<1>13. Tail(a) = b
  BY <1>5, <1>7, <1>8, <1>12, SeqEqual
<1> QED
  BY <1>6, <1>11, <1>13 DEF a, b, f, q

\* What the guest holds for a connection are payloads of its stream.
LEMMA GuestQueueOf ==
  ASSUME NEW p \in GuestPeers \cup {NoRelay}, NEW id \in Streams
  PROVE  /\ GuestQueue(p, id) \in Seq(Parcel)
         /\ Keys(GuestQueue(p, id), id) \subseteq 1 .. MaxData
         /\ p = NoRelay => Keys(GuestQueue(p, id), id) = {} /\ Rising(GuestQueue(p, id), id)
         /\ p # NoRelay /\ p.queue = <<>> => Keys(GuestQueue(p, id), id) = {} /\ Rising(GuestQueue(p, id), id)
<1>1. CASE p = NoRelay
  <2>1. GuestQueue(p, id) = <<>>
    BY <1>1 DEF GuestQueue
  <2> QED
    BY <1>1, <2>1, KeysNone, Zenon
<1>2. CASE p \in GuestPeers
  <2>1. p # NoRelay /\ p.queue \in Seq(1 .. MaxData)
    BY <1>2, StreamFacts DEF GuestPeers
  <2> DEFINE q == p.queue
             s == GuestQueue(p, id)
  <2>2. s = [i \in DOMAIN q |-> Frame("DATA", id, q[i])]
    BY <2>1 DEF GuestQueue
  <2>3. DOMAIN q = 1 .. Len(q) /\ Len(q) \in Nat /\ \A i \in 1 .. Len(q) : q[i] \in 1 .. MaxData
    BY <2>1, LenProperties
  <2> HIDE DEF q, s
  <2>4. \A i \in 1 .. Len(q) : Frame("DATA", id, q[i]) \in Parcel
    <3>1. \A n \in 1 .. MaxData : Frame("DATA", id, n) \in Parcel
      BY StreamFacts DEF Frame, Parcel
    <3> QED
      BY <2>3, <3>1
  <2>5. s \in Seq(Parcel) /\ DOMAIN s = 1 .. Len(q)
    BY <2>2, <2>3, <2>4, IsASeq
  <2>6. \A i \in DOMAIN s : Key(s[i]) \in 1 .. MaxData
    BY <2>2, <2>3, <2>5, FrameOf
  <2>7. Keys(s, id) \subseteq 1 .. MaxData
    BY <2>6 DEF Keys
  <2>8. q = <<>> => Keys(s, id) = {} /\ Rising(s, id)
    BY <2>3, <2>5, EmptySeq DEF Keys, Rising
  <2> QED
    BY <2>1, <2>5, <2>7, <2>8 DEF s, q
<1> QED
  BY <1>1, <1>2

\* A payload that is queued at the guest is the last one there.
LEMMA GuestQueueTakes ==
  ASSUME NEW p \in GuestPeers, NEW w \in GuestPeers, NEW id \in Streams, NEW c \in 1 .. MaxData,
         w.queue = Append(p.queue, c)
  PROVE  GuestQueue(w, id) = GuestQueue(p, id) \o <<Frame("DATA", id, c)>>
<1>1. p # NoRelay /\ w # NoRelay /\ p.queue \in Seq(1 .. MaxData)
  BY StreamFacts DEF GuestPeers
<1> DEFINE q == p.queue
           a == GuestQueue(p, id)
           b == GuestQueue(w, id)
           f == Frame("DATA", id, c)
<1>2. a = [i \in DOMAIN q |-> Frame("DATA", id, q[i])]
  BY <1>1 DEF GuestQueue
<1>3. b = [i \in DOMAIN Append(q, c) |-> Frame("DATA", id, Append(q, c)[i])]
  BY <1>1 DEF GuestQueue
<1>4. /\ DOMAIN q = 1 .. Len(q) /\ Len(q) \in Nat /\ DOMAIN Append(q, c) = 1 .. Len(q) + 1
      /\ \A i \in 1 .. Len(q) : Append(q, c)[i] = q[i]
      /\ Append(q, c)[Len(q) + 1] = c
  BY <1>1, AppendProperties, LenProperties
<1>5. a \in Seq(Parcel) /\ b \in Seq(Parcel)
  BY GuestQueueOf
<1>6. f \in Parcel
  BY StreamFacts DEF Frame, Parcel
<1> HIDE DEF q, a, b, f
<1>7. DOMAIN a = 1 .. Len(q) /\ DOMAIN b = 1 .. Len(q) + 1 /\ Len(a) = Len(q) /\ Len(b) = Len(q) + 1
  BY <1>2, <1>3, <1>4, <1>5, LenProperties
<1>8. \A i \in 1 .. Len(q) : b[i] = a[i]
  BY <1>2, <1>3, <1>4
<1>9. b[Len(q) + 1] = f
  BY <1>3, <1>4 DEF f
<1>10. /\ Append(a, f) \in Seq(Parcel) /\ Len(Append(a, f)) = Len(q) + 1
       /\ \A i \in 1 .. Len(q) : Append(a, f)[i] = a[i]
       /\ Append(a, f)[Len(q) + 1] = f
  BY <1>5, <1>6, <1>7, AppendProperties
<1>11. \A i \in 1 .. Len(q) + 1 : b[i] = Append(a, f)[i]
  BY <1>4, <1>8, <1>9, <1>10
<1>12. b = Append(a, f)
  BY <1>5, <1>7, <1>10, <1>11, SeqEqual
<1>13. Append(a, f) = a \o <<f>>
  BY <1>5, <1>6, AppendIsConcat
<1> QED
  BY <1>12, <1>13 DEF a, b, f

\* A payload that the guest delivers is the first one there.
LEMMA GuestQueueGives ==
  ASSUME NEW p \in GuestPeers, NEW w \in GuestPeers, NEW id \in Streams,
         p.queue # <<>>, w.queue = Tail(p.queue)
  PROVE  /\ Head(p.queue) \in 1 .. MaxData
         /\ GuestQueue(p, id) = <<Frame("DATA", id, Head(p.queue))>> \o GuestQueue(w, id)
<1>1. p # NoRelay /\ w # NoRelay /\ p.queue \in Seq(1 .. MaxData)
  BY StreamFacts DEF GuestPeers
<1> DEFINE q == p.queue
           a == GuestQueue(p, id)
           b == GuestQueue(w, id)
           f == Frame("DATA", id, Head(q))
<1>2. a = [i \in DOMAIN q |-> Frame("DATA", id, q[i])]
  BY <1>1 DEF GuestQueue
<1>3. b = [i \in DOMAIN Tail(q) |-> Frame("DATA", id, Tail(q)[i])]
  BY <1>1 DEF GuestQueue
<1>4. /\ DOMAIN q = 1 .. Len(q) /\ Len(q) \in Nat \ {0} /\ DOMAIN Tail(q) = 1 .. Len(q) - 1
      /\ \A i \in 1 .. Len(q) - 1 : Tail(q)[i] = q[i + 1]
      /\ Head(q) = q[1] /\ Head(q) \in 1 .. MaxData
  <2>1. q \in Seq(1 .. MaxData) /\ q # <<>>
    BY <1>1
  <2> HIDE DEF q
  <2>2. DOMAIN q = 1 .. Len(q) /\ Len(q) \in Nat \ {0}
    BY <2>1, LenProperties, EmptySeq
  <2>3. /\ Head(q) \in 1 .. MaxData /\ Tail(q) \in Seq(1 .. MaxData) /\ Len(Tail(q)) = Len(q) - 1
        /\ \A i \in 1 .. Len(Tail(q)) : Tail(q)[i] = q[i + 1]
    BY <2>1, HeadTailProperties
  <2>4. DOMAIN Tail(q) = 1 .. Len(q) - 1
    BY <2>3, LenProperties
  <2>5. Head(q) = q[1]
    BY <2>1, SplitHead
  <2> QED
    BY <2>2, <2>3, <2>4, <2>5
<1>5. a \in Seq(Parcel) /\ b \in Seq(Parcel)
  BY GuestQueueOf
<1>6. f \in Parcel /\ Head(q) \in 1 .. MaxData
  BY <1>4, StreamFacts DEF Frame, Parcel
<1> HIDE DEF q, a, b, f
<1>7. DOMAIN a = 1 .. Len(q) /\ DOMAIN b = 1 .. Len(q) - 1 /\ Len(a) = Len(q) /\ Len(b) = Len(q) - 1
  BY <1>2, <1>3, <1>4, <1>5, LenProperties
<1>8. \A i \in 1 .. Len(q) - 1 : b[i] = a[i + 1]
  BY <1>2, <1>3, <1>4
<1>9. a[1] = f
  BY <1>2, <1>4 DEF f
<1>10. a # <<>>
  BY <1>4, <1>5, <1>7, EmptySeq
<1>11. a = <<Head(a)>> \o Tail(a) /\ Head(a) = f
  BY <1>5, <1>9, <1>10, SplitHead
<1>12. Tail(a) \in Seq(Parcel) /\ Len(Tail(a)) = Len(q) - 1 /\ \A i \in 1 .. Len(q) - 1 : Tail(a)[i] = a[i + 1]
  BY <1>5, <1>7, <1>10, HeadTailProperties
<1>13. Tail(a) = b
  BY <1>5, <1>7, <1>8, <1>12, SeqEqual
<1> QED
  BY <1>6, <1>11, <1>13 DEF a, b, f, q

-----------------------------------------------------------------------------
(* One stream, as the host sees it.                                         *)

\* UpSound, with the queue and the way apart.
LEMMA UpSoundIs ==
  ASSUME NEW p \in HostPeers \cup {NoRelay}, NEW U \in Seq(Parcel), NEW id \in Streams
  PROVE  UpSound(p, U, id) <=>
           /\ Rising(HostQueue(p, id), id) /\ Rising(U, id)
           /\ Before(Keys(HostQueue(p, id), id), Keys(U, id))
           /\ p # NoRelay => 0 \notin Keys(U, id)
           /\ p # NoRelay /\ p.closed => Keys(U, id) = {}
<1>1. HostQueue(p, id) \in Seq(Parcel)
  BY HostQueueOf
<1> QED
  BY <1>1, KeysConcat DEF UpSound

\* The first frame on the way: the rest stays sound, and the frame tells about its stream.
LEMMA UpTake ==
  ASSUME NEW p \in HostPeers \cup {NoRelay}, NEW U \in Seq(Parcel), NEW f \in Parcel, NEW id \in Streams,
         UpSound(p, <<f>> \o U, id)
  PROVE  /\ UpSound(p, U, id)
         /\ Keys(<<f>> \o U, id) = Keys(U, id) \cup (IF f.id = id THEN {Key(f)} ELSE {})
         /\ f.id = id => /\ \A k \in Keys(U, id) : Key(f) < k
                         /\ \A k \in Keys(HostQueue(p, id), id) : k < Key(f)
                         /\ p # NoRelay => f.kind # "OPEN" /\ ~p.closed
<1>1. /\ <<f>> \o U \in Seq(Parcel)
      /\ Keys(<<f>> \o U, id) = Keys(U, id) \cup (IF f.id = id THEN {Key(f)} ELSE {})
      /\ Rising(<<f>> \o U, id) <=> Rising(U, id) /\ (f.id = id => \A k \in Keys(U, id) : Key(f) < k)
  BY KeysTake
<1>2. /\ Rising(HostQueue(p, id), id) /\ Rising(<<f>> \o U, id)
      /\ Before(Keys(HostQueue(p, id), id), Keys(<<f>> \o U, id))
      /\ p # NoRelay => 0 \notin Keys(<<f>> \o U, id)
      /\ p # NoRelay /\ p.closed => Keys(<<f>> \o U, id) = {}
  BY <1>1, UpSoundIs
<1>3. UpSound(p, U, id)
  BY <1>1, <1>2, UpSoundIs DEF Before
<1>4. ASSUME f.id = id
      PROVE  /\ \A k \in Keys(U, id) : Key(f) < k
             /\ \A k \in Keys(HostQueue(p, id), id) : k < Key(f)
             /\ p # NoRelay => f.kind # "OPEN" /\ ~p.closed
  BY <1>1, <1>2, <1>4, KeyOf DEF Before
<1> QED
  BY <1>1, <1>3, <1>4

\* More frames at the end of the way up.
LEMMA UpJoin ==
  ASSUME NEW p \in HostPeers \cup {NoRelay}, NEW U \in Seq(Parcel), NEW V \in Seq(Parcel), NEW id \in Streams,
         UpSound(p, U, id), Rising(V, id),
         Before(Keys(HostQueue(p, id), id) \cup Keys(U, id), Keys(V, id)),
         p # NoRelay => 0 \notin Keys(V, id),
         p # NoRelay /\ p.closed => Keys(V, id) = {}
  PROVE  /\ U \o V \in Seq(Parcel) /\ Keys(U \o V, id) = Keys(U, id) \cup Keys(V, id)
         /\ UpSound(p, U \o V, id)
<1>1. /\ U \o V \in Seq(Parcel)
      /\ Keys(U \o V, id) = Keys(U, id) \cup Keys(V, id)
      /\ Rising(U \o V, id) <=> Rising(U, id) /\ Rising(V, id) /\ Before(Keys(U, id), Keys(V, id))
  BY KeysConcat
<1>2. UpSound(p, U \o V, id)
  BY <1>1, UpSoundIs DEF Before
<1> QED
  BY <1>1, <1>2

\* The end of the way is lost with the guest.
LEMMA UpCut ==
  ASSUME NEW p \in HostPeers \cup {NoRelay}, NEW U \in Seq(Parcel), NEW V \in Seq(Parcel), NEW id \in Streams,
         UpSound(p, U \o V, id)
  PROVE  UpSound(p, U, id)
<1>1. /\ U \o V \in Seq(Parcel)
      /\ Keys(U \o V, id) = Keys(U, id) \cup Keys(V, id)
      /\ Rising(U \o V, id) <=> Rising(U, id) /\ Rising(V, id) /\ Before(Keys(U, id), Keys(V, id))
  BY KeysConcat
<1> QED
  BY <1>1, UpSoundIs DEF Before

\* A connection that is not made, or no longer.
LEMMA UpGone ==
  ASSUME NEW p \in HostPeers \cup {NoRelay}, NEW U \in Seq(Parcel), NEW id \in Streams,
         UpSound(p, U, id)
  PROVE  UpSound(NoRelay, U, id)
<1>1. Keys(HostQueue(NoRelay, id), id) = {} /\ Rising(HostQueue(NoRelay, id), id)
  BY HostQueueOf
<1>2. Rising(U, id)
  BY UpSoundIs
<1> QED
  BY <1>1, <1>2, UpSoundIs DEF Before

\* A connection with the same queue, which is closed only when nothing is on the way.
LEMMA UpSame ==
  ASSUME NEW p \in HostPeers, NEW w \in HostPeers, NEW U \in Seq(Parcel), NEW id \in Streams,
         w.queue = p.queue, w.closed => p.closed \/ Keys(U, id) = {}, UpSound(p, U, id)
  PROVE  UpSound(w, U, id) /\ HostQueue(w, id) = HostQueue(p, id)
<1>1. p # NoRelay /\ w # NoRelay
  BY StreamFacts
<1>2. HostQueue(w, id) = HostQueue(p, id)
  BY <1>1 DEF HostQueue
<1> QED
  BY <1>1, <1>2, UpSoundIs

\* The host accepts an OPEN: the connection starts empty.
LEMMA UpOpened ==
  ASSUME NEW w \in HostPeers, NEW U \in Seq(Parcel), NEW f \in Parcel, NEW id \in Streams,
         f.kind = "OPEN", f.id = id, UpSound(NoRelay, <<f>> \o U, id), w.queue = <<>>, ~w.closed
  PROVE  UpSound(w, U, id) /\ Keys(HostQueue(w, id), id) = {} /\ 0 \notin Keys(U, id)
<1>1. UpSound(NoRelay, U, id) /\ \A k \in Keys(U, id) : Key(f) < k
  BY UpTake
<1>2. Key(f) = 0 /\ w # NoRelay
  BY KeyOf, StreamFacts
<1>3. 0 \notin Keys(U, id)
  BY <1>1, <1>2
<1>4. Keys(HostQueue(w, id), id) = {} /\ Rising(HostQueue(w, id), id)
  BY <1>2, HostQueueOf
<1>5. Rising(U, id)
  BY <1>1, UpSoundIs
<1> QED
  BY <1>3, <1>4, <1>5, UpSoundIs DEF Before

\* A payload has gone from the way W, of which U is left, into the queue of w.
QueuedUp(p, w, U, W, id) == UpSound(w, U, id) /\ HostOn(w, U, id) = HostOn(p, W, id)

\* A payload goes from the way into the queue of its connection.
LEMMA UpQueued ==
  ASSUME NEW p \in HostPeers, NEW w \in HostPeers, NEW U \in Seq(Parcel), NEW f \in Parcel, NEW id \in Streams,
         NEW c \in Chunk, f.kind = "DATA", f.id = id, c.n = f.n, ~p.closed, NEW W, W = <<f>> \o U,
         UpSound(p, W, id), w.queue = Append(p.queue, c), ~w.closed
  PROVE  QueuedUp(p, w, U, W, id)
<1>1. /\ UpSound(p, U, id)
      /\ Keys(W, id) = Keys(U, id) \cup {Key(f)}
      /\ \A k \in Keys(U, id) : Key(f) < k
      /\ \A k \in Keys(HostQueue(p, id), id) : k < Key(f)
  BY UpTake, StreamFacts
<1> DEFINE x == Frame("DATA", id, c.n)
<1>2. x \in Parcel /\ x.id = id /\ Key(x) = Key(f)
  BY KeyOf, FrameOf, StreamFacts DEF Parcel, Frame, Chunk
<1>3. p # NoRelay /\ w # NoRelay /\ HostQueue(p, id) \in Seq(Parcel)
  BY StreamFacts, HostQueueOf
<1>4. HostQueue(w, id) = HostQueue(p, id) \o <<x>>
  BY HostQueueTakes
<1> HIDE DEF x
<1>5. /\ Rising(HostQueue(p, id), id) /\ Rising(U, id) /\ Before(Keys(HostQueue(p, id), id), Keys(U, id))
      /\ 0 \notin Keys(U, id)
  BY <1>1, <1>3, UpSoundIs
<1>6. /\ Keys(HostQueue(w, id), id) = Keys(HostQueue(p, id), id) \cup {Key(f)}
      /\ Rising(HostQueue(w, id), id)
  BY <1>1, <1>2, <1>3, <1>4, <1>5, KeysPush
<1>7. UpSound(w, U, id)
  BY <1>1, <1>3, <1>5, <1>6, UpSoundIs DEF Before
<1> QED
  BY <1>1, <1>6, <1>7 DEF HostOn, QueuedUp

\* A payload goes from the queue to the program at the host: it is the lowest one left.
LEMMA UpDelivered ==
  ASSUME NEW p \in HostPeers, NEW w \in HostPeers, NEW U \in Seq(Parcel), NEW id \in Streams,
         p.queue # <<>>, w.queue = Tail(p.queue), w.closed = p.closed, UpSound(p, U, id)
  PROVE  /\ UpSound(w, U, id)
         /\ LET n == Head(p.queue).n
                on == Keys(HostQueue(w, id), id) \cup Keys(U, id)
            IN  /\ n \in 1 .. MaxData
                /\ Keys(HostQueue(p, id), id) \cup Keys(U, id) = on \cup {n}
                /\ \A k \in on : n < k
<1> DEFINE n == Head(p.queue).n
           x == Frame("DATA", id, n)
<1>1. n \in 1 .. MaxData /\ HostQueue(p, id) = <<x>> \o HostQueue(w, id)
  BY HostQueueGives
<1>2. x \in Parcel /\ x.id = id /\ Key(x) = n
  <2> HIDE DEF n
  <2> QED
    BY <1>1, FrameOf, StreamFacts DEF Parcel, Frame
<1> HIDE DEF x, n
<1>3. p # NoRelay /\ w # NoRelay /\ HostQueue(w, id) \in Seq(Parcel)
  BY StreamFacts, HostQueueOf
<1>4. /\ Rising(HostQueue(p, id), id) /\ Rising(U, id) /\ Before(Keys(HostQueue(p, id), id), Keys(U, id))
      /\ 0 \notin Keys(U, id) /\ (p.closed => Keys(U, id) = {})
  BY <1>3, UpSoundIs
<1>5. /\ Keys(HostQueue(p, id), id) = Keys(HostQueue(w, id), id) \cup {n}
      /\ Rising(HostQueue(w, id), id) /\ \A k \in Keys(HostQueue(w, id), id) : n < k
  BY <1>1, <1>2, <1>3, <1>4, KeysTake
<1>6. UpSound(w, U, id)
  BY <1>3, <1>4, <1>5, UpSoundIs DEF Before
<1>7. \A k \in Keys(U, id) : n < k
  BY <1>4, <1>5 DEF Before
<1> QED
  BY <1>1, <1>5, <1>6, <1>7 DEF n

-----------------------------------------------------------------------------
(* One stream, while both pumps run: what has left or come onto the way.    *)
\* The programs have sent and got as much of stream id.
SameEnds(e, x, id) ==
    /\ x.sentUp[id] = e.sentUp[id] /\ x.gotUp[id] = e.gotUp[id]
    /\ x.sentDown[id] = e.sentDown[id] /\ x.gotDown[id] = e.gotDown[id]

\* What the programs have sent and got are numbers up to MaxData.
LEMMA EndsOf ==
  ASSUME NEW e \in EndsSet, NEW id \in Streams
  PROVE  /\ e.sentUp[id] \in 0 .. MaxData /\ e.gotUp[id] \in 0 .. MaxData
         /\ e.sentDown[id] \in 0 .. MaxData /\ e.gotDown[id] \in 0 .. MaxData
BY DEF EndsSet, Counts

\* What of a stream is at the host or on the way to it.
LEMMA HostOnOf ==
  ASSUME NEW p \in HostPeers \cup {NoRelay}, NEW U \in Seq(Parcel), NEW id \in Streams
  PROVE  /\ HostOn(p, U, id) = Keys(HostQueue(p, id), id) \cup Keys(U, id)
         /\ Keys(HostQueue(p, id), id) \subseteq 1 .. MaxData
         /\ HostOn(p, U, id) \subseteq 0 .. Last
         /\ 0 \in HostOn(p, U, id) <=> 0 \in Keys(U, id)
         /\ Last \in HostOn(p, U, id) <=> Last \in Keys(U, id)
         /\ p = NoRelay => HostOn(p, U, id) = Keys(U, id)
BY HostQueueOf, KeysBound, StreamFacts DEF HostOn

\* What of a stream is at the guest or on the way to it.
LEMMA GuestOnOf ==
  ASSUME NEW r \in GuestPeers \cup {NoRelay}, NEW D \in Seq(Parcel), NEW id \in Streams
  PROVE  /\ GuestOn(r, D, id) = Keys(GuestQueue(r, id), id) \cup Keys(D, id)
         /\ Keys(GuestQueue(r, id), id) \subseteq 1 .. MaxData
         /\ Last \in GuestOn(r, D, id) <=> Last \in Keys(D, id)
         /\ r = NoRelay => GuestOn(r, D, id) = Keys(D, id)
BY GuestQueueOf, KeysBound, StreamFacts DEF GuestOn

\* Another frame at the end of the way up, or down.
LEMMA UpPush ==
  ASSUME NEW p \in HostPeers \cup {NoRelay}, NEW U \in Seq(Parcel), NEW f \in Parcel, NEW id \in Streams,
         UpSound(p, U, id),
         f.id = id => /\ \A k \in HostOn(p, U, id) : k < Key(f)
                      /\ p # NoRelay => f.kind # "OPEN" /\ ~p.closed
  PROVE  /\ UpSound(p, U \o <<f>>, id) /\ U \o <<f>> \in Seq(Parcel)
         /\ Keys(U \o <<f>>, id) = Keys(U, id) \cup (IF f.id = id THEN {Key(f)} ELSE {})
<1>1. /\ Keys(<<f>>, id) = (IF f.id = id THEN {Key(f)} ELSE {}) /\ Rising(<<f>>, id)
      /\ <<f>> \in Seq(Parcel)
  <2>1. Keys(<<f>>, id) = (IF f.id = id THEN {Key(f)} ELSE {}) /\ Rising(<<f>>, id)
    BY KeysShort, Zenon
  <2>2. <<f>> \in Seq(Parcel)
    OBVIOUS
  <2> QED
    BY <2>1, <2>2
<1>2. Key(f) \in 0 .. Last /\ (Key(f) = 0 <=> f.kind = "OPEN")
  BY KeyOf
<1> DEFINE V == <<f>>
<1> HIDE DEF V
<1>3. /\ Keys(V, id) = (IF f.id = id THEN {Key(f)} ELSE {}) /\ Rising(V, id)
      /\ V \in Seq(Parcel)
  BY <1>1 DEF V
<1>4. Before(Keys(HostQueue(p, id), id) \cup Keys(U, id), Keys(V, id))
  BY <1>3 DEF Before, HostOn
<1>5. /\ p # NoRelay => 0 \notin Keys(V, id)
      /\ p # NoRelay /\ p.closed => Keys(V, id) = {}
  BY <1>2, <1>3
<1>6. UpSound(p, U \o V, id) /\ U \o V \in Seq(Parcel) /\ Keys(U \o V, id) = Keys(U, id) \cup Keys(V, id)
  <2>1. p # NoRelay => 0 \notin Keys(V, id)
    BY <1>5
  <2>2. p # NoRelay /\ p.closed => Keys(V, id) = {}
    BY <1>5
  <2>3. V \in Seq(Parcel) /\ Rising(V, id)
    BY <1>3
  <2> QED
    BY <1>4, <2>1, <2>2, <2>3, UpJoin
<1> QED
  BY <1>3, <1>6 DEF V

\* More frames at the end of the way down.
LEMMA DownJoin ==
  ASSUME NEW r \in GuestPeers \cup {NoRelay}, NEW D \in Seq(Parcel), NEW V \in Seq(Parcel), NEW id \in Streams,
         DownSound(r, D, id), Rising(V, id),
         \A k \in GuestOn(r, D, id), l \in Keys(V, id) : k < l
  PROVE  /\ DownSound(r, D \o V, id) /\ D \o V \in Seq(Parcel)
         /\ Keys(D \o V, id) = Keys(D, id) \cup Keys(V, id)
<1> DEFINE Q == GuestQueue(r, id)
<1>1. Q \in Seq(Parcel)
  BY GuestQueueOf
<1>2. \A k \in Keys(Q, id) \cup Keys(D, id), l \in Keys(V, id) : k < l
  BY DEF GuestOn
<1>3. DownSound(r, D, id) <=> (r # NoRelay /\ ~r.closing => Rising(Q \o D, id))
  BY DEF DownSound
<1>4. DownSound(r, D \o V, id) <=> (r # NoRelay /\ ~r.closing => Rising(Q \o (D \o V), id))
  BY DEF DownSound
<1> HIDE DEF Q
<1>5. /\ D \o V \in Seq(Parcel) /\ Keys(D \o V, id) = Keys(D, id) \cup Keys(V, id)
      /\ Rising(D \o V, id) <=> Rising(D, id) /\ Rising(V, id) /\ Before(Keys(D, id), Keys(V, id))
  BY KeysConcat
<1>6. Rising(Q \o D, id) <=> Rising(Q, id) /\ Rising(D, id) /\ Before(Keys(Q, id), Keys(D, id))
  BY <1>1, KeysConcat
<1> DEFINE W == D \o V
<1> HIDE DEF W
<1>7. W \in Seq(Parcel)
  BY <1>5 DEF W
<1>8. Rising(Q \o W, id) <=> Rising(Q, id) /\ Rising(W, id) /\ Before(Keys(Q, id), Keys(W, id))
  BY <1>1, <1>7, KeysConcat
<1>9. Rising(Q \o D, id) => Rising(Q \o W, id)
  <2> SUFFICES ASSUME Rising(Q \o D, id)
               PROVE  Rising(Q \o W, id)
    OBVIOUS
  <2>1. Rising(Q, id) /\ Rising(D, id) /\ Before(Keys(Q, id), Keys(D, id))
    BY <1>6
  <2>2. Rising(W, id) /\ Keys(W, id) = Keys(D, id) \cup Keys(V, id)
    BY <1>2, <1>5, <2>1 DEF Before, W
  <2>3. Before(Keys(Q, id), Keys(W, id))
    BY <1>2, <2>1, <2>2 DEF Before
  <2> QED
    BY <1>8, <2>1, <2>2, <2>3
<1> QED
  BY <1>3, <1>4, <1>5, <1>9 DEF W

LEMMA DownJoins ==
  ASSUME NEW r \in GuestPeers \cup {NoRelay}, NEW D \in Seq(Parcel), NEW V \in Seq(Parcel), NEW id \in Streams,
         DownSound(r, D, id), Rising(V, id), Before(GuestOn(r, D, id), Keys(V, id))
  PROVE  DownSound(r, D \o V, id) /\ Keys(D \o V, id) = Keys(D, id) \cup Keys(V, id)
<1>1. \A k \in GuestOn(r, D, id), l \in Keys(V, id) : k < l
  BY DEF Before
<1> QED
  BY <1>1, DownJoin

\* One more frame at the end of the way down.
LEMMA DownPush ==
  ASSUME NEW r \in GuestPeers \cup {NoRelay}, NEW D \in Seq(Parcel), NEW f \in Parcel, NEW id \in Streams,
         DownSound(r, D, id), f.id = id => \A k \in GuestOn(r, D, id) : k < Key(f)
  PROVE  /\ DownSound(r, D \o <<f>>, id) /\ D \o <<f>> \in Seq(Parcel)
         /\ Keys(D \o <<f>>, id) = Keys(D, id) \cup (IF f.id = id THEN {Key(f)} ELSE {})
<1>1. /\ Keys(<<f>>, id) = (IF f.id = id THEN {Key(f)} ELSE {}) /\ Rising(<<f>>, id)
      /\ <<f>> \in Seq(Parcel)
  <2>1. Keys(<<f>>, id) = (IF f.id = id THEN {Key(f)} ELSE {}) /\ Rising(<<f>>, id)
    BY KeysShort, Zenon
  <2>2. <<f>> \in Seq(Parcel)
    OBVIOUS
  <2> QED
    BY <2>1, <2>2
<1> DEFINE V == <<f>>
<1> HIDE DEF V
<1>2. /\ Keys(V, id) = (IF f.id = id THEN {Key(f)} ELSE {}) /\ Rising(V, id) /\ V \in Seq(Parcel)
  BY <1>1 DEF V
<1>3. DownSound(r, D \o V, id) /\ D \o V \in Seq(Parcel) /\ Keys(D \o V, id) = Keys(D, id) \cup Keys(V, id)
  BY <1>2, DownJoin
<1> QED
  BY <1>2, <1>3 DEF V

\* The first frame of the way down: the rest stays sound, and the frame tells about its stream.
LEMMA DownTake ==
  ASSUME NEW r \in GuestPeers \cup {NoRelay}, NEW D \in Seq(Parcel), NEW f \in Parcel, NEW id \in Streams,
         DownSound(r, <<f>> \o D, id)
  PROVE  /\ DownSound(r, D, id)
         /\ Keys(<<f>> \o D, id) = Keys(D, id) \cup (IF f.id = id THEN {Key(f)} ELSE {})
         /\ f.id = id /\ r # NoRelay /\ ~r.closing =>
              /\ \A k \in Keys(D, id) : Key(f) < k
              /\ \A k \in Keys(GuestQueue(r, id), id) : k < Key(f)
<1> DEFINE Q == GuestQueue(r, id)
           W == <<f>> \o D
<1>1. Q \in Seq(Parcel)
  BY GuestQueueOf
<1>2. DownSound(r, W, id) <=> (r # NoRelay /\ ~r.closing => Rising(Q \o W, id))
  BY DEF DownSound
<1>3. DownSound(r, D, id) <=> (r # NoRelay /\ ~r.closing => Rising(Q \o D, id))
  BY DEF DownSound
<1>4. /\ W \in Seq(Parcel)
      /\ Keys(W, id) = Keys(D, id) \cup (IF f.id = id THEN {Key(f)} ELSE {})
      /\ Rising(W, id) <=> Rising(D, id) /\ (f.id = id => \A k \in Keys(D, id) : Key(f) < k)
  BY KeysTake
<1>5. DownSound(r, W, id)
  OBVIOUS
<1> HIDE DEF Q, W
<1>6. Rising(Q \o W, id) <=> Rising(Q, id) /\ Rising(W, id) /\ Before(Keys(Q, id), Keys(W, id))
  BY <1>1, <1>4, KeysConcat
<1>7. Rising(Q \o D, id) <=> Rising(Q, id) /\ Rising(D, id) /\ Before(Keys(Q, id), Keys(D, id))
  BY <1>1, KeysConcat
<1>8. Rising(Q \o W, id) => Rising(Q \o D, id)
  BY <1>4, <1>6, <1>7 DEF Before
<1>9. DownSound(r, D, id)
  BY <1>2, <1>3, <1>5, <1>8
<1>10. ASSUME f.id = id, r # NoRelay, ~r.closing
       PROVE  /\ \A k \in Keys(D, id) : Key(f) < k
              /\ \A k \in Keys(Q, id) : k < Key(f)
  BY <1>2, <1>4, <1>5, <1>6, <1>10 DEF Before
<1> QED
  BY <1>4, <1>9, <1>10 DEF Q, W

-----------------------------------------------------------------------------
(* One stream, while both pumps run: what each event makes of it.           *)

\* Without a connection at the host everything of a stream is on the way.
LEMMA HostOnNone ==
  ASSUME NEW U, NEW id
  PROVE  HostOn(NoRelay, U, id) = Keys(U, id)
<1>1. Keys(HostQueue(NoRelay, id), id) = {}
  BY KeysNone, Zenon DEF HostQueue
<1> QED
  BY <1>1 DEF HostOn

\* The next payload is sent.
LEMMA OneMore ==
  ASSUME NEW a \in Nat, NEW b \in Nat, a <= b, b + 1 <= MaxData, NEW S, S \cap 1 .. MaxData = a + 1 .. b
  PROVE  (S \cup {b + 1}) \cap 1 .. MaxData = a + 1 .. b + 1
<1>1. b + 1 \in 1 .. MaxData
  BY StreamFacts
<1>2. (S \cup {b + 1}) \cap 1 .. MaxData = (S \cap 1 .. MaxData) \cup {b + 1}
  BY <1>1
<1>3. \A k \in Int : k \in a + 1 .. b + 1 <=> k \in a + 1 .. b \/ k = b + 1
  OBVIOUS
<1>4. a + 1 .. b + 1 = (a + 1 .. b) \cup {b + 1}
  BY <1>3
<1> QED
  BY <1>2, <1>4

\* The lowest payload that is left is delivered: it is the next one.
LEMMA OneLess ==
  ASSUME NEW a \in Nat, NEW b \in Nat, b <= MaxData, NEW S, NEW k \in 1 .. MaxData, \A l \in S : k < l,
         (S \cup {k}) \cap 1 .. MaxData = a + 1 .. b
  PROVE  k = a + 1 /\ k <= b /\ S \cap 1 .. MaxData = k + 1 .. b
<1>1. k \in a + 1 .. b
  OBVIOUS
<1>2. a + 1 \in S \cup {k}
  BY <1>1
<1>3. k = a + 1 /\ k <= b
  BY <1>1, <1>2
<1>4. ASSUME NEW l \in S \cap 1 .. MaxData PROVE l \in k + 1 .. b
  <2>1. l \in a + 1 .. b /\ k < l
    OBVIOUS
  <2> QED
    BY <1>3, <2>1
<1>5. ASSUME NEW l \in k + 1 .. b PROVE l \in S \cap 1 .. MaxData
  <2>1. l \in a + 1 .. b /\ l # k
    BY <1>3
  <2> QED
    BY <2>1
<1> QED
  BY <1>3, <1>4, <1>5

\* Nothing of this stream has changed.
LEMMA StreamSame ==
  ASSUME NEW p, NEW r, NEW U, NEW D, NEW V, NEW E, NEW e, NEW x, NEW b, NEW n, NEW id,
         Stream(p, r, U, D, e, b, n, id), SameEnds(e, x, id),
         Keys(V, id) = Keys(U, id), Keys(E, id) = Keys(D, id), DownSound(r, E, id)
  PROVE  Stream(p, r, V, E, x, b, n, id)
<1>1. UpWhole(p, V, x, id)
  BY DEF Stream, UpWhole, SameEnds, HostOn
<1>2. DownWhole(r, E, x, id)
  BY DEF Stream, DownWhole, SameEnds, GuestOn
<1>3. Agreed(p, r, V, E, b, id)
  BY DEF Stream, Agreed
<1>4. id >= n => Fresh(p, r, V, E, x, id)
  BY DEF Stream, Fresh, SameEnds
<1> QED
  BY <1>1, <1>2, <1>3, <1>4 DEF Stream

\* The guest accepts a connection and sends OPEN.
LEMMA StreamOpens ==
  ASSUME NEW p \in HostPeers \cup {NoRelay}, NEW r, NEW U \in Seq(Parcel), NEW D \in Seq(Parcel),
         NEW V \in Seq(Parcel), NEW e \in EndsSet, NEW id \in Streams, NEW n \in Nat,
         Fresh(p, r, U, D, e, id), DownSound(GuestPeer, D, id), Keys(V, id) = {0}, id < n
  PROVE  Stream(p, GuestPeer, V, D, e, FALSE, n, id)
<1>1. /\ p = NoRelay /\ Keys(D, id) = {}
      /\ e.sentUp[id] = 0 /\ e.gotUp[id] = 0 /\ e.sentDown[id] = 0 /\ e.gotDown[id] = 0
  BY DEF Fresh
<1>2. GuestPeer # NoRelay /\ ~GuestPeer.closing /\ GuestPeer \in GuestPeers /\ GuestPeer.queue = <<>>
  <2>1. GuestPeer \in GuestPeers
    BY DEF GuestPeer, GuestPeers
  <2> QED
    BY <2>1, StreamFacts DEF GuestPeer
<1>3. Keys(GuestQueue(GuestPeer, id), id) = {}
  BY <1>2, GuestQueueOf
<1>4. HostOn(p, V, id) = {0} /\ GuestOn(GuestPeer, D, id) = {}
  BY <1>1, <1>3, HostOnNone DEF GuestOn
<1>5. UpWhole(p, V, e, id)
  BY <1>1, <1>4, StreamFacts DEF UpWhole
<1>6. DownWhole(GuestPeer, D, e, id)
  BY <1>1, <1>4 DEF DownWhole
<1>7. Agreed(p, GuestPeer, V, D, FALSE, id)
  BY <1>1, <1>2, StreamFacts DEF Agreed
<1>8. ~(id >= n)
  BY StreamFacts DEF Streams
<1> QED
  BY <1>5, <1>6, <1>7, <1>8 DEF Stream

\* The program in the guest sends a payload.
LEMMA StreamSendsUp ==
  ASSUME NEW p \in HostPeers \cup {NoRelay}, NEW r \in GuestPeers, NEW U \in Seq(Parcel), NEW D \in Seq(Parcel),
         NEW V \in Seq(Parcel), NEW e \in EndsSet, NEW x \in EndsSet, NEW id \in Streams, NEW n \in Nat, NEW b,
         x.sentUp[id] = e.sentUp[id] + 1, x.gotUp[id] = e.gotUp[id],
         x.sentDown[id] = e.sentDown[id], x.gotDown[id] = e.gotDown[id],
         Keys(V, id) = Keys(U, id) \cup {e.sentUp[id] + 1},
         Stream(p, r, U, D, e, b, n, id)
  PROVE  Stream(p, r, V, D, x, b, n, id)
<1> DEFINE su == e.sentUp[id]
           on == HostOn(p, U, id)
<1>1. /\ su + 1 \in 1 .. MaxData /\ su \in 0 .. MaxData /\ e.gotUp[id] \in 0 .. MaxData /\ r # NoRelay
      /\ e.gotUp[id] <= su /\ su + 1 # 0 /\ su + 1 # Last
  BY EndsOf, StreamFacts DEF Stream, UpWhole
<1>2. HostOn(p, V, id) = on \cup {su + 1}
  BY DEF HostOn
<1>3. UpWhole(p, V, x, id)
  <2>1. on \subseteq 0 .. su \cup {Last} /\ e.gotUp[id] <= su /\ (0 \in on => e.gotUp[id] = 0)
        /\ (p # NoRelay \/ 0 \in on => on \cap 1 .. MaxData = e.gotUp[id] + 1 .. su)
    BY DEF Stream, UpWhole
  <2> HIDE DEF on, su
  <2>4. p # NoRelay \/ 0 \in on \cup {su + 1} =>
          (on \cup {su + 1}) \cap 1 .. MaxData = e.gotUp[id] + 1 .. su + 1
    BY <1>1, <2>1, OneMore
  <2>5. on \cup {su + 1} \subseteq 0 .. su + 1 \cup {Last}
    BY <1>1, <2>1, StreamFacts
  <2>6. x.sentUp[id] = su + 1 /\ x.gotUp[id] = e.gotUp[id]
    BY DEF su
  <2>7. e.gotUp[id] <= su + 1 /\ (0 \in on \cup {su + 1} => e.gotUp[id] = 0)
    BY <1>1, <2>1
  <2> QED
    BY <1>2, <2>4, <2>5, <2>6, <2>7 DEF UpWhole
<1>4. DownWhole(r, D, x, id)
  BY DEF Stream, DownWhole
<1>5. Agreed(p, r, V, D, b, id)
  BY <1>1 DEF Stream, Agreed
<1>6. ~(id >= n)
  BY <1>1 DEF Stream, Fresh
<1> QED
  BY <1>3, <1>4, <1>5, <1>6 DEF Stream

\* The program at the host sends a payload.
LEMMA StreamSendsDown ==
  ASSUME NEW p \in HostPeers, NEW r \in GuestPeers \cup {NoRelay}, NEW U \in Seq(Parcel), NEW D \in Seq(Parcel),
         NEW E \in Seq(Parcel), NEW e \in EndsSet, NEW x \in EndsSet, NEW id \in Streams, NEW n \in Nat, NEW b,
         x.sentUp[id] = e.sentUp[id], x.gotUp[id] = e.gotUp[id],
         x.sentDown[id] = e.sentDown[id] + 1, x.gotDown[id] = e.gotDown[id],
         Keys(E, id) = Keys(D, id) \cup {e.sentDown[id] + 1}, DownSound(r, E, id),
         Stream(p, r, U, D, e, b, n, id)
  PROVE  Stream(p, r, U, E, x, b, n, id)
<1> DEFINE sd == e.sentDown[id]
           on == GuestOn(r, D, id)
<1>1. /\ sd + 1 \in 1 .. MaxData /\ sd \in 0 .. MaxData /\ e.gotDown[id] \in 0 .. MaxData /\ p # NoRelay
      /\ sd + 1 # Last
  <2>1. sd \in 0 .. MaxData /\ e.gotDown[id] \in 0 .. MaxData /\ x.sentDown[id] \in 0 .. MaxData
    BY EndsOf
  <2>2. MaxData \in Nat /\ Last > MaxData /\ Last \in Nat /\ NoRelay \notin HostPeers
    BY StreamFacts
  <2> QED
    BY <2>1, <2>2
<1>2. GuestOn(r, E, id) = on \cup {sd + 1}
  BY DEF GuestOn
<1>3. DownWhole(r, E, x, id)
  <2>1. on \subseteq 1 .. sd \cup {Last}
        /\ (r # NoRelay /\ ~r.closing =>
              e.gotDown[id] <= sd /\ on \cap 1 .. MaxData = e.gotDown[id] + 1 .. sd)
    BY DEF Stream, DownWhole
  <2> HIDE DEF on, sd
  <2>4. r # NoRelay /\ ~r.closing =>
          e.gotDown[id] <= sd + 1 /\ (on \cup {sd + 1}) \cap 1 .. MaxData = e.gotDown[id] + 1 .. sd + 1
    BY <1>1, <2>1, OneMore
  <2>5. on \cup {sd + 1} \subseteq 1 .. sd + 1 \cup {Last}
    BY <1>1, <2>1, StreamFacts
  <2> QED
    BY <1>1, <1>2, <2>4, <2>5 DEF DownWhole, sd, on
<1>4. UpWhole(p, U, x, id)
  BY DEF Stream, UpWhole
<1>5. Agreed(p, r, U, E, b, id)
  BY <1>1 DEF Stream, Agreed
<1>6. ~(id >= n)
  BY <1>1 DEF Stream, Fresh
<1> QED
  BY <1>3, <1>4, <1>5, <1>6 DEF Stream

\* The host accepts an OPEN.
LEMMA StreamHostOpens ==
  ASSUME NEW r \in GuestPeers \cup {NoRelay}, NEW w \in HostPeers, NEW U \in Seq(Parcel), NEW D \in Seq(Parcel),
         NEW V \in Seq(Parcel), NEW e \in EndsSet, NEW id \in Streams, NEW n \in Nat, NEW b,
         w.queue = <<>>, ~w.closed, Keys(U, id) = Keys(V, id) \cup {0}, 0 \notin Keys(V, id),
         Stream(NoRelay, r, U, D, e, b, n, id)
  PROVE  Stream(w, r, V, D, e, b, n, id)
<1>1. HostOn(NoRelay, U, id) = Keys(V, id) \cup {0} /\ HostOn(w, V, id) = Keys(V, id) /\ w # NoRelay
  <2>1. w # NoRelay
    BY StreamFacts
  <2>2. Keys(HostQueue(w, id), id) = {}
    BY <2>1, HostQueueOf
  <2> QED
    BY <2>1, <2>2, HostOnNone DEF HostOn
<1>2. e.sentUp[id] \in 0 .. MaxData /\ e.gotUp[id] \in 0 .. MaxData
  BY EndsOf
<1>3. UpWhole(w, V, e, id)
  <2>1. /\ Keys(V, id) \cup {0} \subseteq 0 .. e.sentUp[id] \cup {Last} /\ e.gotUp[id] <= e.sentUp[id]
        /\ (Keys(V, id) \cup {0}) \cap 1 .. MaxData = e.gotUp[id] + 1 .. e.sentUp[id]
    BY <1>1 DEF Stream, UpWhole
  <2>2. (Keys(V, id) \cup {0}) \cap 1 .. MaxData = Keys(V, id) \cap 1 .. MaxData
    OBVIOUS
  <2> QED
    BY <1>1, <2>1, <2>2 DEF UpWhole
<1>4. DownWhole(r, D, e, id)
  BY DEF Stream
<1>5. Agreed(w, r, V, D, b, id)
  BY <1>1, StreamFacts DEF Stream, Agreed
<1>6. ~(id >= n)
  BY DEF Stream, Fresh
<1> QED
  BY <1>3, <1>4, <1>5, <1>6 DEF Stream

\* The host answers an OPEN with a CLOSE.
LEMMA StreamHostRejects ==
  ASSUME NEW r \in GuestPeers \cup {NoRelay}, NEW U \in Seq(Parcel), NEW D \in Seq(Parcel),
         NEW V \in Seq(Parcel), NEW E \in Seq(Parcel), NEW e \in EndsSet, NEW id \in Streams, NEW n \in Nat, NEW b,
         Keys(U, id) = Keys(V, id) \cup {0}, 0 \notin Keys(V, id),
         Keys(E, id) = Keys(D, id) \cup {Last}, DownSound(r, E, id),
         Stream(NoRelay, r, U, D, e, b, n, id)
  PROVE  Stream(NoRelay, r, V, E, e, b, n, id)
<1>1. HostOn(NoRelay, U, id) = Keys(V, id) \cup {0} /\ HostOn(NoRelay, V, id) = Keys(V, id)
  BY HostOnNone
<1>2. UpWhole(NoRelay, V, e, id)
  BY <1>1 DEF Stream, UpWhole
<1>3. DownWhole(r, E, e, id)
  <2>1. GuestOn(r, E, id) = GuestOn(r, D, id) \cup {Last}
    BY DEF GuestOn
  <2>2. GuestOn(r, E, id) \cap 1 .. MaxData = GuestOn(r, D, id) \cap 1 .. MaxData
    BY <2>1, StreamFacts
  <2> QED
    BY <2>1, <2>2 DEF Stream, DownWhole
<1>4. Agreed(NoRelay, r, V, E, b, id)
  BY StreamFacts DEF Stream, Agreed
<1>5. ~(id >= n)
  BY DEF Stream, Fresh
<1> QED
  BY <1>2, <1>3, <1>4, <1>5 DEF Stream

\* A payload or a CLOSE for a connection that is gone.
LEMMA StreamHostDrops ==
  ASSUME NEW r \in GuestPeers \cup {NoRelay}, NEW U \in Seq(Parcel), NEW D \in Seq(Parcel),
         NEW V \in Seq(Parcel), NEW e \in EndsSet, NEW id \in Streams, NEW n \in Nat, NEW b,
         NEW k \in 1 .. Last, Keys(U, id) = Keys(V, id) \cup {k}, 0 \notin Keys(V, id),
         Stream(NoRelay, r, U, D, e, b, n, id)
  PROVE  Stream(NoRelay, r, V, D, e, b, n, id)
<1>1. HostOn(NoRelay, U, id) = Keys(V, id) \cup {k} /\ HostOn(NoRelay, V, id) = Keys(V, id)
  BY HostOnNone
<1>2. UpWhole(NoRelay, V, e, id)
  BY <1>1 DEF Stream, UpWhole
<1>3. DownWhole(r, D, e, id)
  BY DEF Stream
<1>4. Agreed(NoRelay, r, V, D, b, id)
  BY DEF Stream, Agreed
<1>5. ~(id >= n)
  BY DEF Stream, Fresh
<1> QED
  BY <1>2, <1>3, <1>4, <1>5 DEF Stream

\* The host takes a CLOSE: the connection from then on only drains.
LEMMA StreamHostCloses ==
  ASSUME NEW p \in HostPeers, NEW w \in HostPeers, NEW r \in GuestPeers \cup {NoRelay},
         NEW U \in Seq(Parcel), NEW D \in Seq(Parcel),
         NEW V \in Seq(Parcel), NEW e \in EndsSet, NEW id \in Streams, NEW n \in Nat, NEW b,
         HostQueue(w, id) = HostQueue(p, id), w.closed,
         Keys(U, id) = {Last}, Keys(V, id) = {},
         Stream(p, r, U, D, e, b, n, id)
  PROVE  Stream(w, r, V, D, e, b, n, id)
<1>1. HostOn(p, U, id) = HostOn(w, V, id) \cup {Last} /\ p # NoRelay /\ w # NoRelay
  BY StreamFacts DEF HostOn
<1>2. UpWhole(w, V, e, id)
  <2>1. HostOn(p, U, id) \cap 1 .. MaxData = HostOn(w, V, id) \cap 1 .. MaxData
    BY <1>1, StreamFacts
  <2> QED
    BY <1>1, <2>1 DEF Stream, UpWhole
<1>3. DownWhole(r, D, e, id)
  BY DEF Stream
<1>4. Agreed(w, r, V, D, b, id)
  BY <1>1 DEF Stream, Agreed
<1>5. ~(id >= n)
  BY <1>1 DEF Stream, Fresh
<1> QED
  BY <1>2, <1>3, <1>4, <1>5 DEF Stream

\* A payload moves into the queue, or another field of the connection changes.
LEMMA StreamHostQueues ==
  ASSUME NEW p \in HostPeers, NEW w \in HostPeers, NEW r \in GuestPeers \cup {NoRelay},
         NEW U \in Seq(Parcel), NEW D \in Seq(Parcel),
         NEW V \in Seq(Parcel), NEW e \in EndsSet, NEW id \in Streams, NEW n \in Nat, NEW b,
         HostOn(w, V, id) = HostOn(p, U, id), w.closed = p.closed,
         Stream(p, r, U, D, e, b, n, id)
  PROVE  Stream(w, r, V, D, e, b, n, id)
<1>1. p # NoRelay /\ w # NoRelay
  BY StreamFacts
<1>2. UpWhole(w, V, e, id)
  BY <1>1 DEF Stream, UpWhole
<1>3. DownWhole(r, D, e, id)
  BY DEF Stream
<1>4. /\ 0 \in Keys(V, id) <=> 0 \in Keys(U, id)
      /\ Last \in Keys(V, id) <=> Last \in Keys(U, id)
  BY HostOnOf
<1>5. Agreed(w, r, V, D, b, id)
  BY <1>1, <1>4 DEF Stream, Agreed
<1>6. ~(id >= n)
  BY <1>1 DEF Stream, Fresh
<1> QED
  BY <1>2, <1>3, <1>5, <1>6 DEF Stream

\* The host delivers the next payload.
LEMMA StreamHostDelivers ==
  ASSUME NEW p \in HostPeers, NEW w \in HostPeers, NEW r \in GuestPeers \cup {NoRelay},
         NEW U \in Seq(Parcel), NEW D \in Seq(Parcel), NEW e \in EndsSet, NEW x \in EndsSet,
         NEW id \in Streams, NEW n \in Nat, NEW b, NEW k \in 1 .. MaxData,
         HostOn(p, U, id) = HostOn(w, U, id) \cup {k}, \A l \in HostOn(w, U, id) : k < l,
         w.closed = p.closed, x.gotUp[id] = k, x.sentUp[id] = e.sentUp[id],
         x.sentDown[id] = e.sentDown[id], x.gotDown[id] = e.gotDown[id],
         Stream(p, r, U, D, e, b, n, id)
  PROVE  Stream(w, r, U, D, x, b, n, id)
<1>1. p # NoRelay /\ w # NoRelay
  BY StreamFacts
<1>2. UpWhole(w, U, x, id)
  <2> DEFINE on == HostOn(w, U, id)
             su == e.sentUp[id]
             gu == e.gotUp[id]
  <2>1. /\ on \cup {k} \subseteq 0 .. su \cup {Last} /\ gu <= su
        /\ (on \cup {k}) \cap 1 .. MaxData = gu + 1 .. su
        /\ su \in 0 .. MaxData /\ gu \in 0 .. MaxData
    BY <1>1, EndsOf DEF Stream, UpWhole
  <2>2. \A l \in on : k < l
    OBVIOUS
  <2> HIDE DEF on, su, gu
  <2>3. k <= su /\ on \cap 1 .. MaxData = k + 1 .. su
    BY <2>1, <2>2, OneLess
  <2>7. 0 \notin on
    BY <2>2
  <2> QED
    BY <2>1, <2>3, <2>7 DEF UpWhole, on, su
<1>3. DownWhole(r, D, x, id)
  BY DEF Stream, DownWhole
<1>4. Agreed(w, r, U, D, b, id)
  BY <1>1 DEF Stream, Agreed
<1>5. ~(id >= n)
  BY <1>1 DEF Stream, Fresh
<1> QED
  BY <1>2, <1>3, <1>4, <1>5 DEF Stream

\* A drained connection of the host goes, with a CLOSE when the guest has not sent one.
LEMMA StreamHostRetires ==
  ASSUME NEW p \in HostPeers, NEW r \in GuestPeers \cup {NoRelay},
         NEW U \in Seq(Parcel), NEW D \in Seq(Parcel), NEW E \in Seq(Parcel), NEW e \in EndsSet,
         NEW id \in Streams, NEW n \in Nat, NEW b,
         Keys(E, id) = Keys(D, id) \cup (IF p.closed THEN {} ELSE {Last}), DownSound(r, E, id),
         0 \notin Keys(U, id), p.closed => Keys(U, id) = {},
         Stream(p, r, U, D, e, b, n, id)
  PROVE  Stream(NoRelay, r, U, E, e, b, n, id)
<1>1. p # NoRelay
  BY StreamFacts
<1>2. UpWhole(NoRelay, U, e, id)
  <2>1. HostOn(NoRelay, U, id) = Keys(U, id)
    BY HostOnNone
  <2> QED
    BY <1>1, <2>1 DEF Stream, UpWhole, HostOn
<1>3. DownWhole(r, E, e, id)
  <2>1. GuestOn(r, E, id) = GuestOn(r, D, id) \cup (IF p.closed THEN {} ELSE {Last})
    BY DEF GuestOn
  <2>2. GuestOn(r, E, id) \cap 1 .. MaxData = GuestOn(r, D, id) \cap 1 .. MaxData
    BY <2>1, StreamFacts
  <2> QED
    BY <2>1, <2>2 DEF Stream, DownWhole
<1>4. Agreed(NoRelay, r, U, E, b, id)
  BY <1>1 DEF Stream, Agreed
<1>5. ~(id >= n)
  BY <1>1 DEF Stream, Fresh
<1> QED
  BY <1>2, <1>3, <1>4, <1>5 DEF Stream

\* Without a connection at the guest everything of a stream is on the way.
LEMMA GuestOnNone ==
  ASSUME NEW D, NEW id
  PROVE  GuestOn(NoRelay, D, id) = Keys(D, id) /\ DownSound(NoRelay, D, id)
<1>1. Keys(GuestQueue(NoRelay, id), id) = {}
  BY KeysNone, Zenon DEF GuestQueue
<1> QED
  BY <1>1 DEF GuestOn, DownSound

\* A CLOSE for a connection, which from then on only drains, or for one that is gone.
LEMMA StreamGuestCloses ==
  ASSUME NEW p, NEW r, NEW s, r = NoRelay <=> s = NoRelay, s # NoRelay => s.closing,
         NEW U, NEW D, NEW E, NEW e, NEW id, NEW n, NEW b,
         GuestOn(s, E, id) \subseteq GuestOn(r, D, id), Last \in Keys(D, id), Keys(E, id) \subseteq Keys(D, id),
         Stream(p, r, U, D, e, b, n, id)
  PROVE  Stream(p, s, U, E, e, b, n, id)
<1>1. UpWhole(p, U, e, id)
  BY DEF Stream
<1>2. DownWhole(s, E, e, id)
  BY DEF Stream, DownWhole, DownSound
<1>3. Agreed(p, s, U, E, b, id)
  BY DEF Stream, Agreed
<1>4. ~(id >= n)
  BY DEF Stream, Fresh
<1> QED
  BY <1>1, <1>2, <1>3, <1>4 DEF Stream

\* A connection that is open takes a payload.
LEMMA StreamGuestQueues ==
  ASSUME NEW p \in HostPeers \cup {NoRelay}, NEW r \in GuestPeers, NEW s \in GuestPeers,
         ~r.closing, ~s.closing,
         NEW U \in Seq(Parcel), NEW D \in Seq(Parcel), NEW E \in Seq(Parcel), NEW e \in EndsSet,
         NEW id \in Streams, NEW n \in Nat, NEW b,
         GuestOn(s, E, id) = GuestOn(r, D, id), DownSound(s, E, id),
         Stream(p, r, U, D, e, b, n, id)
  PROVE  Stream(p, s, U, E, e, b, n, id)
<1>0. r # NoRelay /\ s # NoRelay
  BY StreamFacts
<1>1. UpWhole(p, U, e, id)
  BY DEF Stream
<1>2. DownWhole(s, E, e, id)
  BY <1>0 DEF Stream, DownWhole
<1>3. Agreed(p, s, U, E, b, id)
  <2>1. Last \in Keys(E, id) <=> Last \in Keys(D, id)
    BY GuestOnOf
  <2> QED
    BY <1>0, <2>1 DEF Stream, Agreed
<1>4. ~(id >= n)
  BY <1>0 DEF Stream, Fresh
<1> QED
  BY <1>1, <1>2, <1>3, <1>4 DEF Stream

\* One that is closing or gone drops it.
LEMMA StreamGuestDrops ==
  ASSUME NEW p \in HostPeers \cup {NoRelay}, NEW r \in GuestPeers \cup {NoRelay}, r # NoRelay => r.closing,
         NEW U \in Seq(Parcel), NEW D \in Seq(Parcel), NEW E \in Seq(Parcel), NEW e \in EndsSet,
         NEW id \in Streams, NEW n \in Nat, NEW b, NEW k \in 1 .. MaxData,
         Keys(D, id) = Keys(E, id) \cup {k},
         Stream(p, r, U, D, e, b, n, id)
  PROVE  Stream(p, r, U, E, e, b, n, id)
<1>1. UpWhole(p, U, e, id)
  BY DEF Stream
<1>2. DownWhole(r, E, e, id)
  <2>1. GuestOn(r, E, id) \subseteq GuestOn(r, D, id)
    BY DEF GuestOn
  <2> QED
    BY <2>1 DEF Stream, DownWhole, DownSound
<1>3. Agreed(p, r, U, E, b, id)
  <2>1. Last \in Keys(E, id) <=> Last \in Keys(D, id)
    BY StreamFacts
  <2> QED
    BY <2>1 DEF Stream, Agreed
<1>4. ~(id >= n)
  BY DEF Stream, Fresh
<1> QED
  BY <1>1, <1>2, <1>3, <1>4 DEF Stream

\* The guest delivers the next payload.
LEMMA StreamGuestDelivers ==
  ASSUME NEW p \in HostPeers \cup {NoRelay}, NEW r \in GuestPeers, NEW s \in GuestPeers,
         s.closing = r.closing, s.notify = r.notify,
         NEW U \in Seq(Parcel), NEW D \in Seq(Parcel), NEW e \in EndsSet, NEW x \in EndsSet,
         NEW id \in Streams, NEW n \in Nat, NEW b, NEW k \in 1 .. MaxData,
         GuestOn(r, D, id) = GuestOn(s, D, id) \cup {k},
         ~r.closing => DownSound(s, D, id) /\ \A l \in GuestOn(s, D, id) : k < l,
         x.gotDown[id] = k, x.sentUp[id] = e.sentUp[id], x.sentDown[id] = e.sentDown[id], x.gotUp[id] = e.gotUp[id],
         Stream(p, r, U, D, e, b, n, id)
  PROVE  Stream(p, s, U, D, x, b, n, id)
<1>0. r # NoRelay /\ s # NoRelay
  BY StreamFacts
<1>1. UpWhole(p, U, x, id)
  BY DEF Stream, UpWhole
<1>2. DownWhole(s, D, x, id)
  <2>1. CASE r.closing
    BY <2>1 DEF Stream, DownWhole, DownSound
  <2>2. CASE ~r.closing
    <3> DEFINE on == GuestOn(s, D, id)
               sd == e.sentDown[id]
               gd == e.gotDown[id]
    <3>1. /\ on \cup {k} \subseteq 1 .. sd \cup {Last}
          /\ (on \cup {k}) \cap 1 .. MaxData = gd + 1 .. sd
          /\ sd \in 0 .. MaxData /\ gd \in 0 .. MaxData
      BY <1>0, <2>2, EndsOf DEF Stream, DownWhole
    <3>2. \A l \in on : k < l
      BY <2>2
    <3> HIDE DEF on, sd, gd
    <3>3. k <= sd /\ on \cap 1 .. MaxData = k + 1 .. sd
      BY <3>1, <3>2, OneLess
    <3> QED
      BY <2>2, <3>1, <3>3 DEF DownWhole, on, sd
  <2> QED
    BY <2>1, <2>2
<1>3. Agreed(p, s, U, D, b, id)
  BY <1>0 DEF Stream, Agreed
<1>4. ~(id >= n)
  BY <1>0 DEF Stream, Fresh
<1> QED
  BY <1>1, <1>2, <1>3, <1>4 DEF Stream

\* The guest's side closes: the program does, a write fails, or the command has ended.
LEMMA StreamGuestEnds ==
  ASSUME NEW p \in HostPeers \cup {NoRelay}, NEW r \in GuestPeers \cup {NoRelay},
         NEW s \in GuestPeers \cup {NoRelay}, r = NoRelay <=> s = NoRelay, s # NoRelay => s.closing,
         NEW U \in Seq(Parcel), NEW D \in Seq(Parcel), NEW e \in EndsSet,
         NEW id \in Streams, NEW n \in Nat, NEW b, NEW c,
         b => c, s # NoRelay => s.notify \/ c, GuestOn(s, D, id) \subseteq GuestOn(r, D, id),
         r = NoRelay => b \/ c,
         Stream(p, r, U, D, e, b, n, id)
  PROVE  Stream(p, s, U, D, e, c, n, id)
<1>1. UpWhole(p, U, e, id)
  BY DEF Stream
<1>2. DownWhole(s, D, e, id)
  BY DEF Stream, DownWhole, DownSound
<1>3. Agreed(p, s, U, D, c, id)
  BY DEF Stream, Agreed
<1>4. id >= n => Fresh(p, s, U, D, e, id)
  BY DEF Stream, Fresh
<1> QED
  BY <1>1, <1>2, <1>3, <1>4 DEF Stream

\* A drained connection of the guest goes, with a CLOSE when it owes one.
LEMMA StreamGuestRetires ==
  ASSUME NEW p \in HostPeers \cup {NoRelay}, NEW r \in GuestPeers, r.closing, r.notify \in BOOLEAN,
         NEW U \in Seq(Parcel), NEW V \in Seq(Parcel), NEW D \in Seq(Parcel), NEW e \in EndsSet,
         NEW id \in Streams, NEW n \in Nat, NEW b,
         Keys(V, id) = Keys(U, id) \cup (IF r.notify THEN {Last} ELSE {}),
         Stream(p, r, U, D, e, b, n, id)
  PROVE  Stream(p, NoRelay, V, D, e, b, n, id)
<1>0. r # NoRelay
  BY StreamFacts
<1>1. UpWhole(p, V, e, id)
  <2>1. HostOn(p, V, id) = HostOn(p, U, id) \cup (IF r.notify THEN {Last} ELSE {})
    BY DEF HostOn
  <2>2. /\ HostOn(p, V, id) \cap 1 .. MaxData = HostOn(p, U, id) \cap 1 .. MaxData
        /\ 0 \in HostOn(p, V, id) <=> 0 \in HostOn(p, U, id)
    BY <2>1, StreamFacts
  <2> QED
    BY <2>1, <2>2 DEF Stream, UpWhole
<1>2. DownWhole(NoRelay, D, e, id)
  <2>1. GuestOn(NoRelay, D, id) \subseteq GuestOn(r, D, id)
    BY GuestOnNone DEF GuestOn
  <2> QED
    BY <2>1, GuestOnNone DEF Stream, DownWhole
<1>3. Agreed(p, NoRelay, V, D, b, id)
  <2>1. 0 \in Keys(V, id) <=> 0 \in Keys(U, id)
    BY StreamFacts
  <2> QED
    BY <1>0, <2>1 DEF Stream, Agreed
<1>4. ~(id >= n)
  BY <1>0 DEF Stream, Fresh
<1> QED
  BY <1>1, <1>2, <1>3, <1>4 DEF Stream

\* What a guest queue gives and takes.
LEMMA DownQueued ==
  ASSUME NEW r \in GuestPeers, NEW s \in GuestPeers, NEW D \in Seq(Parcel), NEW f \in Parcel, NEW id \in Streams,
         f.kind = "DATA", f.id = id, ~r.closing, ~s.closing,
         DownSound(r, <<f>> \o D, id), s.queue = Append(r.queue, f.n)
  PROVE  /\ DownSound(s, D, id)
         /\ GuestOn(s, D, id) = GuestOn(r, <<f>> \o D, id)
<1>1. r # NoRelay /\ s # NoRelay /\ f.n \in 1 .. MaxData /\ Key(f) = f.n
  BY StreamFacts, KeyOf
<1>2. /\ DownSound(r, D, id) /\ Keys(<<f>> \o D, id) = Keys(D, id) \cup {Key(f)}
      /\ \A k \in Keys(D, id) : Key(f) < k
      /\ \A k \in Keys(GuestQueue(r, id), id) : k < Key(f)
  BY <1>1, DownTake
<1> DEFINE x == Frame("DATA", id, f.n)
           Q == GuestQueue(r, id)
           T == GuestQueue(s, id)
<1>3. x \in Parcel /\ x.id = id /\ Key(x) = Key(f)
  BY <1>1, FrameOf, StreamFacts DEF Parcel, Frame
<1>4. Q \in Seq(Parcel) /\ T \in Seq(Parcel) /\ T = Q \o <<x>>
  BY <1>1, GuestQueueOf, GuestQueueTakes
<1>5. Rising(Q \o D, id)
  BY <1>1, <1>2 DEF DownSound
<1> HIDE DEF x
<1>6. /\ DownSound(s, D, id) <=> Rising(T \o D, id)
      /\ \A k \in Keys(Q, id) : k < Key(f)
      /\ GuestOn(s, D, id) = Keys(T, id) \cup Keys(D, id)
      /\ GuestOn(r, <<f>> \o D, id) = Keys(Q, id) \cup Keys(D, id) \cup {Key(f)}
  BY <1>1, <1>2 DEF DownSound, GuestOn
<1> HIDE DEF Q, T
<1>7. Rising(Q, id) /\ Rising(D, id) /\ Before(Keys(Q, id), Keys(D, id))
  BY <1>4, <1>5, KeysConcat
<1>8. Keys(T, id) = Keys(Q, id) \cup {Key(f)} /\ Rising(T, id)
  BY <1>3, <1>4, <1>6, <1>7, KeysPush
<1>9. Before(Keys(T, id), Keys(D, id))
  BY <1>2, <1>7, <1>8 DEF Before
<1>10. Rising(T \o D, id)
  BY <1>4, <1>7, <1>8, <1>9, KeysConcat
<1> QED
  BY <1>6, <1>8, <1>10

\* A payload goes from the queue to the program in the guest: it is the lowest one left.
LEMMA DownDelivered ==
  ASSUME NEW r \in GuestPeers, NEW s \in GuestPeers, NEW D \in Seq(Parcel), NEW id \in Streams,
         r.queue # <<>>, s.queue = Tail(r.queue), s.closing = r.closing, DownSound(r, D, id)
  PROVE  LET k == Head(r.queue)
         IN  /\ k \in 1 .. MaxData /\ DownSound(s, D, id)
             /\ GuestOn(r, D, id) = GuestOn(s, D, id) \cup {k}
             /\ ~r.closing => \A l \in GuestOn(s, D, id) : k < l
<1> DEFINE k == Head(r.queue)
           x == Frame("DATA", id, k)
           Q == GuestQueue(r, id)
           T == GuestQueue(s, id)
<1>1. r # NoRelay /\ s # NoRelay /\ k \in 1 .. MaxData
  BY StreamFacts, GuestQueueGives
<1>2. Q \in Seq(Parcel) /\ T \in Seq(Parcel) /\ Q = <<x>> \o T
  BY GuestQueueOf, GuestQueueGives
<1>3. x \in Parcel /\ x.id = id /\ Key(x) = k
  <2> HIDE DEF k
  <2> QED
    BY <1>1, FrameOf, StreamFacts DEF Parcel, Frame
<1>4. /\ DownSound(s, D, id) <=> (~r.closing => Rising(T \o D, id))
      /\ ~r.closing => Rising(Q \o D, id)
      /\ GuestOn(s, D, id) = Keys(T, id) \cup Keys(D, id)
      /\ GuestOn(r, D, id) = Keys(Q, id) \cup Keys(D, id)
  BY <1>1 DEF DownSound, GuestOn
<1> HIDE DEF x, Q, T, k
<1>5. /\ Keys(Q, id) = Keys(T, id) \cup {k}
      /\ Rising(Q, id) <=> Rising(T, id) /\ \A l \in Keys(T, id) : k < l
  BY <1>2, <1>3, KeysTake
<1>6. ASSUME ~r.closing
      PROVE  Rising(T \o D, id) /\ \A l \in Keys(T, id) \cup Keys(D, id) : k < l
  <2>1. Rising(Q, id) /\ Rising(D, id) /\ Before(Keys(Q, id), Keys(D, id))
    BY <1>2, <1>4, <1>6, KeysConcat
  <2>2. Rising(T, id) /\ Before(Keys(T, id), Keys(D, id)) /\ \A l \in Keys(T, id) \cup Keys(D, id) : k < l
    BY <1>5, <2>1 DEF Before
  <2> QED
    BY <1>2, <2>1, <2>2, KeysConcat
<1>7. /\ k \in 1 .. MaxData /\ DownSound(s, D, id)
      /\ GuestOn(r, D, id) = GuestOn(s, D, id) \cup {k}
      /\ ~r.closing => \A l \in GuestOn(s, D, id) : k < l
  BY <1>1, <1>4, <1>5, <1>6
<1> QED
  BY <1>7 DEF k

-----------------------------------------------------------------------------
(* The two ways.                                                            *)

\* The frame a pump has in hand, if there is one.
LEMMA HandOf ==
  ASSUME NEW in \in Parcel \cup {NoRelay}
  PROVE  /\ InHand(in) \in Seq(Parcel)
         /\ in = NoRelay => InHand(in) = <<>>
         /\ in # NoRelay => InHand(in) = <<in>> /\ in \in Parcel
<1>1. CASE in = NoRelay
  BY <1>1, KeysNone, Zenon DEF InHand
<1>2. CASE in # NoRelay
  BY <1>2 DEF InHand
<1> QED
  BY <1>1, <1>2

\* A way consists of frames.
LEMMA WayOf ==
  ASSUME NEW in \in Parcel \cup {NoRelay}, NEW l \in Seq(Parcel), NEW o \in Seq(Parcel)
  PROVE  Way(in, l, o) \in Seq(Parcel)
<1>1. InHand(in) \in Seq(Parcel)
  BY HandOf
<1>2. InHand(in) \o l \in Seq(Parcel)
  BY <1>1
<1> QED
  BY <1>2 DEF Way

\* The frame in hand is the first one on the way.
LEMMA WayHand ==
  ASSUME NEW f \in Parcel, NEW l \in Seq(Parcel), NEW o \in Seq(Parcel)
  PROVE  Way(f, l, o) = <<f>> \o Way(NoRelay, l, o)
<1> DEFINE a == <<f>>
<1>1. InHand(f) = a /\ InHand(NoRelay) = <<>> /\ a \in Seq(Parcel)
  BY StreamFacts DEF InHand
<1>2. <<>> \o l = l
  OBVIOUS
<1> HIDE DEF a
<1>3. a \o l \in Seq(Parcel) /\ (a \o l) \o o = a \o (l \o o)
  BY <1>1, ConcatAssociative
<1> QED
  BY <1>1, <1>2, <1>3 DEF Way, a

\* The first frame of a lane comes into the hand.
LEMMA WayReads ==
  ASSUME NEW l \in Seq(Parcel), l # <<>>, NEW o \in Seq(Parcel)
  PROVE  /\ Head(l) \in Parcel /\ Tail(l) \in Seq(Parcel)
         /\ Way(NoRelay, l, o) = <<Head(l)>> \o Way(NoRelay, Tail(l), o)
         /\ Way(NoRelay, l, o) = Way(Head(l), Tail(l), o)
<1> DEFINE f == Head(l)
           t == Tail(l)
           a == <<f>>
<1>1. f \in Parcel /\ t \in Seq(Parcel) /\ l = a \o t
  BY SplitHead
<1>2. InHand(f) = a /\ InHand(NoRelay) = <<>>
  BY <1>1, StreamFacts DEF InHand
<1>3. <<>> \o l = l /\ <<>> \o t = t
  BY <1>1
<1> HIDE DEF a, f, t
<1>4. Way(NoRelay, l, o) = Way(f, t, o)
  BY <1>1, <1>2, <1>3 DEF Way
<1>5. Way(f, t, o) = <<f>> \o Way(NoRelay, t, o)
  BY <1>1, WayHand
<1> QED
  BY <1>1, <1>4, <1>5 DEF f, t

\* Frames are put at the end of an output.
LEMMA WayPush ==
  ASSUME NEW in \in Parcel \cup {NoRelay}, NEW l \in Seq(Parcel), NEW o \in Seq(Parcel), NEW v \in Seq(Parcel)
  PROVE  Way(in, l, o \o v) = Way(in, l, o) \o v
<1> DEFINE x == InHand(in) \o l
<1>1. x \in Seq(Parcel)
  BY HandOf
<1> HIDE DEF x
<1>2. (x \o o) \o v = x \o (o \o v)
  BY <1>1, ConcatAssociative
<1> QED
  BY <1>2 DEF Way, x

LEMMA ParcelsAssociate ==
  ASSUME NEW a \in Seq(Parcel), NEW b \in Seq(Parcel), NEW c \in Seq(Parcel)
  PROVE  a \o (b \o c) = (a \o b) \o c
<1>1. (a \o b) \o c = a \o (b \o c)
  BY ConcatAssociative
<1> QED
  BY <1>1, Zenon

\* The first frame of an output is written into the lane.
LEMMA WayWrites ==
  ASSUME NEW in \in Parcel \cup {NoRelay}, NEW l \in Seq(Parcel), NEW o \in Seq(Parcel), NEW f \in Parcel
  PROVE  Append(l, f) \in Seq(Parcel) /\ Way(in, Append(l, f), o) = Way(in, l, <<f>> \o o)
<1> DEFINE a == <<f>>
           i == InHand(in)
<1>1. i \in Seq(Parcel) /\ a \in Seq(Parcel)
  BY HandOf
<1>2. Append(l, f) = l \o a
  BY AppendIsConcat
<1> HIDE DEF a, i
<1>3. i \o l \in Seq(Parcel) /\ l \o a \in Seq(Parcel)
  BY <1>1
<1>4. i \o (l \o a) = (i \o l) \o a
  BY <1>1, ParcelsAssociate, Zenon
<1>5. (i \o l) \o (a \o o) = ((i \o l) \o a) \o o
  <2> DEFINE c == i \o l
  <2>1. c \in Seq(Parcel)
    BY <1>3
  <2> HIDE DEF c
  <2>2. c \o (a \o o) = (c \o a) \o o
    BY <1>1, <2>1, ParcelsAssociate, Zenon
  <2> QED
    BY <2>2 DEF c
<1>6. (i \o (l \o a)) \o o = (i \o l) \o (a \o o)
  BY <1>4, <1>5, Zenon
<1> QED
  BY <1>2, <1>3, <1>6 DEF Way, a, i

\* What an output held is gone with the pump.
LEMMA WayCut ==
  ASSUME NEW in \in Parcel \cup {NoRelay}, NEW l \in Seq(Parcel), NEW o \in Seq(Parcel)
  PROVE  Way(in, l, <<>>) \in Seq(Parcel) /\ Way(in, l, o) = Way(in, l, <<>>) \o o
<1>1. InHand(in) \in Seq(Parcel)
  BY HandOf
<1>2. InHand(in) \o l \in Seq(Parcel)
  BY <1>1
<1>3. (InHand(in) \o l) \o <<>> = InHand(in) \o l
  BY <1>2, ConcatEmptySeq
<1> QED
  BY <1>2, <1>3 DEF Way

-----------------------------------------------------------------------------
(* The parts of the state.                                                  *)

\* The types of a host pump.
LEMMA HostOf ==
  ASSUME NEW h \in HostSet
  PROVE  /\ h.status \in {"run", "ok", "failed", "duplicate"} /\ h.in \in Parcel \cup {NoRelay}
         /\ h.peers \in [Streams -> HostPeers \cup {NoRelay}] /\ h.out \in Seq(Entry)
         /\ h.eof \in BOOLEAN /\ h.age \in Nat
         /\ \A id \in Streams : h.peers[id] \in HostPeers \cup {NoRelay}
         /\ \A id \in Live(h.peers) : id \in Streams /\ h.peers[id] \in HostPeers
BY DEF HostSet, Live

\* The types of a guest pump.
LEMMA GuestOf ==
  ASSUME NEW g \in GuestSet
  PROVE  /\ g.status \in {"run", "ok", "failed"} /\ g.program \in {"stdio", "publish"}
         /\ g.in \in Parcel \cup {NoRelay}
         /\ g.peers \in [Streams -> GuestPeers \cup {NoRelay}] /\ g.out \in Seq(Entry)
         /\ g.eof \in BOOLEAN /\ g.exited \in BOOLEAN /\ g.nextId \in 1 .. MaxStreams + 1 /\ g.nextId \in Nat
         /\ \A id \in Streams : g.peers[id] \in GuestPeers \cup {NoRelay}
         /\ \A id \in Live(g.peers) : id \in Streams /\ g.peers[id] \in GuestPeers
BY StreamFacts DEF GuestSet, Live

\* The types of a connection of the host.
LEMMA HostPeerOf ==
  ASSUME NEW p \in HostPeers
  PROVE  /\ p # NoRelay /\ p.conn \in {"open", "connecting", "retry"} /\ p.queue \in Seq(Chunk)
         /\ p.eof \in BOOLEAN /\ p.closed \in BOOLEAN /\ p.opened \in Nat
BY StreamFacts DEF HostPeers, Chunk

\* The types of a connection of the guest.
LEMMA GuestPeerOf ==
  ASSUME NEW r \in GuestPeers
  PROVE  r # NoRelay /\ r.queue \in Seq(1 .. MaxData) /\ r.closing \in BOOLEAN /\ r.notify \in BOOLEAN
BY StreamFacts DEF GuestPeers

\* What is queued is young, and what is older is further ahead.
LEMMA AgeJoin ==
  ASSUME NEW S, NEW s \in Seq(S), NEW t \in Seq(S), Ageing(s),
         \A x \in S : x.age \in Nat, \A i \in DOMAIN t : t[i].age = 0
  PROVE  Ageing(s \o t)
<1> DEFINE u == s \o t
<1>1. /\ \A i \in DOMAIN u : u[i] = IF i <= Len(s) THEN s[i] ELSE t[i - Len(s)]
      /\ DOMAIN u = 1 .. Len(s) + Len(t) /\ Len(s) \in Nat /\ Len(t) \in Nat
      /\ DOMAIN s = 1 .. Len(s) /\ DOMAIN t = 1 .. Len(t)
  OBVIOUS
<1>2. \A i \in DOMAIN s : s[i].age \in Nat /\ s[i].age <= 1
  BY DEF Ageing
<1>3. \A i, j \in DOMAIN s : i < j => s[j].age <= s[i].age
  BY DEF Ageing
<1> HIDE DEF u
<1>4. \A i \in DOMAIN u : \/ i \in DOMAIN s /\ u[i] = s[i]
                          \/ i > Len(s) /\ i - Len(s) \in DOMAIN t /\ u[i].age = 0
  BY <1>1
<1>5. \A i \in DOMAIN u : u[i].age \in Nat /\ u[i].age <= 1
  BY <1>2, <1>4
<1>6. ASSUME NEW i \in DOMAIN u, NEW j \in DOMAIN u, i < j
      PROVE  u[j].age <= u[i].age
  <2>1. CASE j > Len(s) /\ u[j].age = 0
    BY <1>5, <2>1
  <2>2. CASE j \in DOMAIN s /\ u[j] = s[j]
    <3>1. i \in DOMAIN s /\ u[i] = s[i]
      BY <1>1, <1>4, <1>6, <2>2
    <3> QED
      BY <1>3, <1>6, <2>2, <3>1
  <2> QED
    BY <1>4, <2>1, <2>2
<1> QED
  BY <1>5, <1>6 DEF Ageing, u

\* What joins a queue is new.
LEMMA AgePush ==
  ASSUME NEW S, NEW s \in Seq(S), NEW c \in S, Ageing(s), \A x \in S : x.age \in Nat, c.age = 0
  PROVE  Ageing(Append(s, c))
<1> DEFINE t == <<c>>
<1>1. t \in Seq(S) /\ \A i \in DOMAIN t : t[i].age = 0
  OBVIOUS
<1>2. Append(s, c) = s \o t
  BY AppendIsConcat
<1> HIDE DEF t
<1> QED
  BY <1>1, <1>2, AgeJoin

\* What leaves a queue is its oldest entry.
LEMMA AgeTail ==
  ASSUME NEW S, NEW s \in Seq(S), s # <<>>, Ageing(s)
  PROVE  Ageing(Tail(s))
<1> DEFINE t == Tail(s)
<1>1. \A i \in DOMAIN t : i + 1 \in DOMAIN s /\ t[i] = s[i + 1] /\ i \in Nat
  OBVIOUS
<1> HIDE DEF t
<1>2. Ageing(t)
  BY <1>1 DEF Ageing
<1> QED
  BY <1>2 DEF t

\* An empty queue has no ages.
LEMMA AgeNone == Ageing(<<>>)
BY DEF Ageing

\* One tick later; the first one is the oldest and not due.
LEMMA AgeTick ==
  ASSUME NEW S, NEW s \in Seq(S), Ageing(s), NEW t, DOMAIN t = DOMAIN s,
         \A x \in S : x.age \in Nat, \A i \in DOMAIN s : t[i].age = s[i].age + 1,
         s # <<>> => ~(s[1].age >= 1)
  PROVE  Ageing(t)
<1>1. \A i \in DOMAIN s : s[i].age \in Nat /\ i \in Nat
  OBVIOUS
<1>2. \A i \in DOMAIN s : s[i].age = 0
  <2> SUFFICES ASSUME NEW i \in DOMAIN s PROVE s[i].age = 0
    OBVIOUS
  <2>1. 1 \in DOMAIN s /\ s # <<>> /\ (i = 1 \/ 1 < i)
    OBVIOUS
  <2>2. s[1].age = 0
    BY <1>1, <2>1
  <2> QED
    BY <1>1, <2>1, <2>2 DEF Ageing
<1> QED
  BY <1>2 DEF Ageing

-----------------------------------------------------------------------------
(* The outputs stay within their limits.                                    *)

\* Frames without an OPEN stay so when they are joined.
LEMMA OpensJoin ==
  ASSUME NEW s \in Seq(Parcel), NEW t \in Seq(Parcel), NoOpens(s), NoOpens(t)
  PROVE  NoOpens(s \o t)
<1> DEFINE u == s \o t
<1>1. /\ \A i \in DOMAIN u : u[i] = IF i <= Len(s) THEN s[i] ELSE t[i - Len(s)]
      /\ DOMAIN u = 1 .. Len(s) + Len(t) /\ Len(s) \in Nat /\ Len(t) \in Nat
      /\ DOMAIN s = 1 .. Len(s) /\ DOMAIN t = 1 .. Len(t)
  OBVIOUS
<1> HIDE DEF u
<1>2. \A i \in DOMAIN u : \/ i \in DOMAIN s /\ u[i] = s[i]
                          \/ i - Len(s) \in DOMAIN t /\ u[i] = t[i - Len(s)]
  BY <1>1
<1> QED
  BY <1>2 DEF NoOpens, u

\* One more frame that is no OPEN.
LEMMA OpensOne ==
  ASSUME NEW f \in Parcel, f.kind # "OPEN", NEW s \in Seq(Parcel), NoOpens(s)
  PROVE  NoOpens(s \o <<f>>) /\ NoOpens(Append(s, f))
<1> DEFINE t == <<f>>
<1>1. t \in Seq(Parcel) /\ NoOpens(t)
  BY DEF NoOpens
<1>2. Append(s, f) = s \o t
  BY AppendIsConcat
<1> HIDE DEF t
<1>3. NoOpens(s \o t)
  BY <1>1, OpensJoin
<1> QED
  BY <1>2, <1>3 DEF t

\* One frame less, which was no OPEN.
LEMMA OpensTail ==
  ASSUME NEW s \in Seq(Parcel), s # <<>>, NoOpens(s)
  PROVE  NoOpens(Tail(s)) /\ Head(s).kind # "OPEN"
<1> DEFINE t == Tail(s)
<1>1. \A i \in DOMAIN t : i + 1 \in DOMAIN s /\ t[i] = s[i + 1]
  OBVIOUS
<1>2. 1 \in DOMAIN s /\ Head(s) = s[1]
  OBVIOUS
<1> HIDE DEF t
<1>3. NoOpens(t)
  BY <1>1 DEF NoOpens
<1> QED
  BY <1>2, <1>3 DEF NoOpens, t

\* The room of an output, in numbers.
LEMMA RoomOf ==
  ASSUME NEW s \in Seq(Entry)
  PROVE  /\ Used(Frames(s)) \in Nat /\ Room(s) = OutLimit - Used(Frames(s)) /\ Room(s) \in Int
         /\ Used(Frames(s)) <= OutLimit <=> Room(s) >= 0
         /\ s = <<>> => Room(s) = OutLimit
         /\ \A x \in Entry : x.age \in Nat /\ x.frame \in Parcel
<1>1. Frames(s) \in Seq(Parcel)
  BY FramesOf
<1>2. Used(Frames(s)) \in Nat
  BY <1>1, UsedOf
<1>3. Used(<<>>) = 0
  <2>1. DOMAIN <<>> = {}
    OBVIOUS
  <2>2. Bulk(<<>>) = {}
    BY <2>1 DEF Bulk
  <2>3. Used(<<>>) = Len(<<>>) + Cardinality(Bulk(<<>>))
    BY KeysNone, UsedOf, Zenon
  <2>4. Cardinality({}) = 0 /\ Len(<<>>) = 0
    BY FS_EmptySet
  <2> QED
    BY <2>2, <2>3, <2>4
<1>4. s = <<>> => Frames(s) = <<>>
  BY FramesOf
<1>5. s = <<>> => Used(Frames(s)) = 0
  BY <1>3, <1>4, Zenon
<1> QED
  BY <1>2, <1>5, StreamFacts DEF Room, Entry

\* A frame is pushed where there is room for it.
LEMMA OutPush ==
  ASSUME NEW s \in Seq(Entry), NEW f \in Parcel, Ageing(s),
         Room(s) >= IF f.kind = "DATA" THEN 2 ELSE 1
  PROVE  /\ Push(s, f) \in Seq(Entry) /\ Push(s, f) # <<>>
         /\ Used(Frames(Push(s, f))) <= OutLimit /\ Ageing(Push(s, f))
<1> DEFINE q == Push(s, f)
<1>1. q \in Seq(Entry) /\ q # <<>> /\ Frames(q) = Frames(s) \o <<f>> /\ Frames(s) \in Seq(Parcel)
  BY FramesPush, FramesOf
<1>2. Used(Frames(q)) = Used(Frames(s)) + (IF f.kind = "DATA" THEN 2 ELSE 1)
  BY <1>1, UsedPush
<1>3. Used(Frames(q)) <= OutLimit
  BY <1>2, RoomOf, StreamFacts
<1>4. Ageing(q)
  <2>1. [frame |-> f, age |-> 0] \in Entry /\ \A x \in Entry : x.age \in Nat
    BY DEF Entry
  <2> QED
    BY <2>1, AgePush DEF Push
<1> QED
  BY <1>1, <1>3, <1>4

\* A frame leaves the output.
LEMMA OutTail ==
  ASSUME NEW s \in Seq(Entry), s # <<>>, Used(Frames(s)) <= OutLimit, Ageing(s)
  PROVE  Tail(s) \in Seq(Entry) /\ Used(Frames(Tail(s))) <= OutLimit /\ Ageing(Tail(s))
<1>1. Tail(s) \in Seq(Entry) /\ Head(s).frame \in Parcel /\ Frames(s) = <<Head(s).frame>> \o Frames(Tail(s))
  BY FramesTail
<1>2. Frames(Tail(s)) \in Seq(Parcel)
  BY <1>1, FramesOf
<1>3. Used(Frames(Tail(s))) < Used(Frames(s))
  BY <1>1, <1>2, UsedTail
<1>4. Used(Frames(Tail(s))) \in Nat /\ Used(Frames(s)) \in Nat
  BY <1>1, RoomOf
<1>5. Ageing(Tail(s))
  BY AgeTail
<1> QED
  BY <1>1, <1>3, <1>4, <1>5, StreamFacts

\* The streams that fit are no more than there is room for.
LEMMA FitsOf ==
  ASSUME NEW S \in SUBSET Streams, NEW T \in SUBSET S, NEW n \in Nat, \A id \in T : Rank(S, id) < n
  PROVE  Cardinality(T) \in Nat /\ Cardinality(T) <= n
<1>1. Cardinality(T) \in Nat
  BY RankOf
<1>2. CASE Cardinality(T) = 0
  BY <1>2
<1>3. CASE Cardinality(T) # 0
  <2>1. Cardinality(T) \in 1 .. Cardinality(T)
    BY <1>1, <1>3
  <2>2. PICK id \in T : Rank(T, id) = Cardinality(T) - 1
    BY <2>1, RankOf
  <2>3. Rank(T, id) <= Rank(S, id) /\ Rank(S, id) < n
    BY RankOf
  <2>4. Rank(S, id) \in 0 .. Cardinality(S) - 1 /\ Cardinality(S) \in Nat
    BY RankOf
  <2> QED
    BY <1>1, <2>2, <2>3, <2>4
<1> QED
  BY <1>2, <1>3

\* As many CLOSE frames as there is room for join the output.
LEMMA OutCloses ==
  ASSUME NEW s \in Seq(Entry), NEW T \in SUBSET Streams, Ageing(s),
         Used(Frames(s)) <= OutLimit, Cardinality(T) <= Room(s)
  PROVE  /\ s \o Closes(T) \in Seq(Entry) /\ Frames(s \o Closes(T)) = Frames(s) \o Frames(Closes(T))
         /\ Used(Frames(s \o Closes(T))) <= OutLimit /\ Ageing(s \o Closes(T))
         /\ s \o Closes(T) = <<>> <=> s = <<>> /\ T = {}
         /\ Frames(Closes(T)) \in Seq(Parcel)
<1> DEFINE c == Closes(T)
<1>1. /\ c \in Seq(Entry) /\ Len(c) = Cardinality(T) /\ Cardinality(T) \in Nat
      /\ \A i \in DOMAIN c : c[i].age = 0 /\ c[i].frame.kind = "CLOSE"
      /\ T = {} <=> c = <<>>
  BY ClosesOf
<1> HIDE DEF c
<1>2. s \o c \in Seq(Entry) /\ Frames(s \o c) = Frames(s) \o Frames(c)
  BY <1>1, FramesConcat
<1>3. /\ Frames(s) \in Seq(Parcel) /\ Frames(c) \in Seq(Parcel) /\ Len(Frames(c)) = Len(c)
      /\ DOMAIN Frames(c) = DOMAIN c
  BY <1>1, FramesOf
<1>4. \A i \in DOMAIN Frames(c) : Frames(c)[i].kind = "CLOSE"
  BY <1>1, <1>3 DEF Frames
<1>5. Used(Frames(s \o c)) = Used(Frames(s)) + Cardinality(T)
  BY <1>1, <1>2, <1>3, <1>4, UsedCloses
<1>6. Used(Frames(s \o c)) <= OutLimit
  BY <1>1, <1>5, RoomOf, StreamFacts
<1>7. Ageing(s \o c)
  <2>1. \A x \in Entry : x.age \in Nat
    BY RoomOf
  <2> QED
    BY <1>1, <2>1, AgeJoin
<1>8. s \o c = <<>> <=> s = <<>> /\ c = <<>>
  BY <1>1, ConcatEqualIffEmpty
<1> QED
  BY <1>1, <1>2, <1>3, <1>6, <1>7, <1>8 DEF c

-----------------------------------------------------------------------------
(* The pass of the host pump.                                               *)

\* The types of everything a state of the relay consists of.
LEMMA ShapedOf ==
  ASSUME NEW h, NEW g, NEW up, NEW dn, NEW e, Shaped(h, g, up, dn, e)
  PROVE  /\ h \in HostSet /\ g \in GuestSet /\ up \in Seq(Parcel) /\ dn \in Seq(Parcel) /\ e \in EndsSet
         /\ Frames(h.out) \in Seq(Parcel) /\ Frames(g.out) \in Seq(Parcel)
         /\ UpOf(h, g, up) \in Seq(Parcel) /\ DownOf(h, g, dn) \in Seq(Parcel)
<1>1. h \in HostSet /\ g \in GuestSet /\ up \in Seq(Parcel) /\ dn \in Seq(Parcel) /\ e \in EndsSet
  BY DEF Shaped
<1>2. Frames(h.out) \in Seq(Parcel) /\ Frames(g.out) \in Seq(Parcel)
  BY <1>1, HostOf, GuestOf, FramesOf
<1>3. h.in \in Parcel \cup {NoRelay} /\ g.in \in Parcel \cup {NoRelay}
  BY <1>1, HostOf, GuestOf
<1> QED
  BY <1>1, <1>2, <1>3, WayOf DEF UpOf, DownOf

\* One stream when a frame of another one, or nothing of it, has moved.
LEMMA CarriedSame ==
  ASSUME NEW h, NEW g, NEW U, NEW D, NEW e, NEW id, Carried(h, g, U, D, e, id),
         NEW h2, NEW g2, NEW V, NEW E, NEW e2,
         h2.peers[id] = h.peers[id], g2.peers[id] = g.peers[id],
         g2.status = "run" => g.status = "run" /\ g2.exited = g.exited /\ g2.nextId = g.nextId,
         SameEnds(e, e2, id), UpSound(h2.peers[id], V, id),
         Keys(V, id) = Keys(U, id), Keys(E, id) = Keys(D, id),
         g.status = "run" => DownSound(g.peers[id], E, id)
  PROVE  Carried(h2, g2, V, E, e2, id)
BY StreamSame DEF Carried

\* An OPEN that was rejected is answered with a CLOSE.
LEMMA AnswerKeeps ==
  ASSUME NEW h, NEW g, NEW up, NEW dn, NEW e, Kept(h, g, up, dn, e), h.status = "run"
  PROVE  LET k == HeaderProgress(h)
         IN  /\ Kept(k, g, up, dn, e) /\ k.status = "run" /\ k.eof = h.eof
             /\ k.in # NoRelay /\ k.in.kind = "OPEN" => Room(k.out) < 1
<1> DEFINE k == HeaderProgress(h)
           f == h.in
           c == Frame("CLOSE", f.id, 0)
<1>0. Shaped(h, g, up, dn, e) /\ HostHeld(h) /\ GuestHeld(g) /\ StreamsHeld(h, g, up, dn, e) /\ Ended(h, g, up)
  BY DEF Kept
<1>1. /\ h \in HostSet /\ g \in GuestSet /\ up \in Seq(Parcel) /\ dn \in Seq(Parcel) /\ e \in EndsSet
      /\ Frames(h.out) \in Seq(Parcel) /\ Frames(g.out) \in Seq(Parcel)
      /\ UpOf(h, g, up) \in Seq(Parcel) /\ DownOf(h, g, dn) \in Seq(Parcel)
  BY <1>0, ShapedOf
<1>2. CASE ~(f # NoRelay /\ f.kind = "OPEN" /\ Room(h.out) >= 1)
  <2>1. k = h
    BY <1>2 DEF HeaderProgress
  <2>2. Room(h.out) \in Int
    BY <1>1, HostOf, RoomOf
  <2> QED
    BY <1>2, <2>1, <2>2
<1>3. CASE f # NoRelay /\ f.kind = "OPEN" /\ Room(h.out) >= 1
  <2>1. k = [h EXCEPT !.in = NoRelay, !.age = 0, !.out = Push(h.out, c)]
    BY <1>3 DEF HeaderProgress
  <2>2. f \in Parcel /\ f.id \in Streams /\ c \in Parcel /\ c.kind = "CLOSE" /\ c.kind # "OPEN" /\ c.id = f.id
        /\ Key(c) = Last /\ Key(f) = 0
    <3>1. f \in Parcel
      BY <1>1, <1>3, HostOf
    <3>2. f.id \in Streams /\ Key(f) = 0
      BY <1>3, <3>1, KeyOf
    <3>3. c \in Parcel
      BY <3>2, StreamFacts DEF Frame, Parcel
    <3> QED
      BY <3>1, <3>2, <3>3, FrameOf
  <2>3. h.out \in Seq(Entry) /\ Ageing(h.out)
    BY <1>0, <1>1, HostOf DEF HostHeld
  <2>4. Push(h.out, c) \in Seq(Entry) /\ Used(Frames(Push(h.out, c))) <= OutLimit /\ Ageing(Push(h.out, c))
    BY <1>3, <2>2, <2>3, OutPush
  <2>5. /\ k.status = "run" /\ k.in = NoRelay /\ k.age = 0 /\ k.out = Push(h.out, c)
        /\ k.peers = h.peers /\ k.eof = h.eof /\ k \in HostSet
    <3>1. /\ k.status = "run" /\ k.in = NoRelay /\ k.age = 0 /\ k.out = Push(h.out, c)
          /\ k.peers = h.peers /\ k.eof = h.eof
      BY <1>1, <2>1 DEF HostSet
    <3>2. k \in HostSet
      <4> DEFINE q == Push(h.out, c)
      <4>1. q \in Seq(Entry) /\ k = [h EXCEPT !.in = NoRelay, !.age = 0, !.out = q]
        BY <2>1, <2>4
      <4> HIDE DEF q, k
      <4> QED
        BY <1>1, <4>1 DEF HostSet
    <3> QED
      BY <3>1, <3>2
  <2>12. f # NoRelay /\ f.kind = "OPEN" /\ h.in = f
    BY <1>3
  <2> HIDE DEF k, c
  <2>6. Shaped(k, g, up, dn, e)
    <3>1. NoOpens(Frames(h.out) \o <<c>>)
      BY <1>0, <1>1, <2>2, OpensOne, Zenon DEF Shaped
    <3>2. Frames(k.out) = Frames(h.out) \o <<c>>
      BY <2>2, <2>3, <2>5, FramesPush
    <3>3. NoOpens(Frames(k.out))
      BY <3>1, <3>2
    <3> QED
      BY <1>0, <2>5, <3>3 DEF Shaped
  <2>7. HostHeld(k)
    BY <1>0, <2>4, <2>5 DEF HostHeld
  <2>8. Ended(k, g, up)
    BY <1>0, <1>3, <2>5 DEF Ended
  <2> DEFINE v == <<c>>
  <2>13. /\ v \in Seq(Parcel)
         /\ \A id : Rising(v, id) /\ Keys(v, id) = IF f.id = id THEN {Last} ELSE {}
    <3>1. v \in Seq(Parcel)
      BY <2>2
    <3>2. \A id : Rising(v, id) /\ Keys(v, id) = IF c.id = id THEN {Key(c)} ELSE {}
      BY KeysShort, Zenon
    <3> QED
      BY <2>2, <3>1, <3>2
  <2> HIDE DEF f, v
  <2>9. ASSUME NEW id \in Streams
        PROVE  Carried(k, g, UpOf(k, g, up), DownOf(k, g, dn), e, id)
    <3> DEFINE U == UpOf(h, g, up)
               D == DownOf(h, g, dn)
               V == UpOf(k, g, up)
               E == DownOf(k, g, dn)
               p == h.peers[id]
               r == g.peers[id]
    <3>1. V \in Seq(Parcel) /\ E \in Seq(Parcel)
      BY <2>6, ShapedOf
    <3>2. U = <<f>> \o V
      <4>1. Way(f, up, Frames(g.out)) = <<f>> \o Way(NoRelay, up, Frames(g.out))
        BY <1>1, <2>2, WayHand
      <4> QED
        BY <2>5, <2>12, <4>1 DEF UpOf
    <3>3. E = D \o v
      <4>1. Frames(k.out) = Frames(h.out) \o v
        BY <2>2, <2>3, <2>5, FramesPush DEF v
      <4>2. g.in \in Parcel \cup {NoRelay}
        BY <1>1, GuestOf
      <4>3. Way(g.in, dn, Frames(h.out) \o v) = Way(g.in, dn, Frames(h.out)) \o v
        <5>1. \A in \in Parcel \cup {NoRelay}, l \in Seq(Parcel), o \in Seq(Parcel), w \in Seq(Parcel) :
                Way(in, l, o \o w) = Way(in, l, o) \o w
          BY WayPush
        <5>2. dn \in Seq(Parcel) /\ Frames(h.out) \in Seq(Parcel) /\ v \in Seq(Parcel)
          BY <1>1, <2>13
        <5> QED
          BY <4>2, <5>1, <5>2, Zenon
      <4> QED
        BY <4>1, <4>3 DEF DownOf
    <3>4. p \in HostPeers \cup {NoRelay} /\ r \in GuestPeers \cup {NoRelay} /\ g.nextId \in Nat
      BY <1>1, HostOf, GuestOf
    <3>5. Carried(h, g, U, D, e, id)
      BY <1>0 DEF StreamsHeld
    <3>10. h.peers[id] = p /\ k.peers[id] = p /\ g.peers[id] = r
      BY <2>5
    <3> SUFFICES Carried(k, g, V, E, e, id)
      OBVIOUS
    <3> HIDE DEF U, V, D, E, p, r
    <3>6. UpSound(p, <<f>> \o V, id)
      BY <3>2, <3>5, <3>10 DEF Carried
    <3>7. /\ UpSound(p, V, id)
          /\ Keys(U, id) = Keys(V, id) \cup (IF f.id = id THEN {0} ELSE {})
          /\ f.id = id => (\A x \in Keys(V, id) : 0 < x) /\ p = NoRelay
      <4>1. /\ UpSound(p, V, id)
            /\ Keys(<<f>> \o V, id) = Keys(V, id) \cup (IF f.id = id THEN {Key(f)} ELSE {})
            /\ f.id = id => /\ \A x \in Keys(V, id) : Key(f) < x
                            /\ \A x \in Keys(HostQueue(p, id), id) : x < Key(f)
                            /\ p # NoRelay => f.kind # "OPEN" /\ ~p.closed
        BY <2>2, <3>1, <3>4, <3>6, UpTake, Zenon
      <4> QED
        BY <2>12, <2>2, <3>2, <4>1
    <3>8. CASE g.status # "run"
      BY <3>10, <3>7, <3>8 DEF Carried
    <3>9. CASE g.status = "run"
      <4>1. Stream(p, r, U, D, e, g.exited, g.nextId, id)
        BY <3>5, <3>9, <3>10 DEF Carried
      <4>2. DownSound(r, D, id) /\ D \in Seq(Parcel)
        BY <1>1, <4>1 DEF Stream, DownWhole, D
      <4>3. f.id = id => \A x \in GuestOn(r, D, id) : x < Last
        <5> SUFFICES ASSUME f.id = id PROVE \A x \in GuestOn(r, D, id) : x < Last
          OBVIOUS
        <5>1. 0 \in Keys(U, id)
          BY <3>7
        <5>2. Last \notin Keys(D, id)
          BY <4>1, <5>1 DEF Stream, Agreed
        <5>3. Last \notin GuestOn(r, D, id) /\ GuestOn(r, D, id) \subseteq 1 .. e.sentDown[id] \cup {Last}
          BY <3>4, <4>1, <4>2, <5>2, GuestOnOf DEF Stream, DownWhole
        <5>4. e.sentDown[id] \in 0 .. MaxData
          BY <1>1, EndsOf
        <5> QED
          BY <5>3, <5>4, StreamFacts
      <4>4. /\ DownSound(r, E, id)
            /\ Keys(E, id) = Keys(D, id) \cup (IF f.id = id THEN {Last} ELSE {})
        <5>1. \A x \in GuestOn(r, D, id), y \in Keys(v, id) : x < y
          BY <2>13, <4>3
        <5>2. v \in Seq(Parcel) /\ Rising(v, id) /\ Keys(v, id) = IF f.id = id THEN {Last} ELSE {}
          BY <2>13
        <5>3. DownSound(r, D \o v, id) /\ Keys(D \o v, id) = Keys(D, id) \cup Keys(v, id)
          <6>1. v \in Seq(Parcel) /\ Rising(v, id) /\ r \in GuestPeers \cup {NoRelay}
            BY <3>4, <5>2
          <6>2. Before(GuestOn(r, D, id), Keys(v, id))
            BY <5>1 DEF Before
          <6> QED
            BY <4>2, <6>1, <6>2, DownJoins
        <5> QED
          BY <3>3, <5>2, <5>3
      <4>5. CASE f.id = id
        <5>1. Stream(NoRelay, r, V, E, e, g.exited, g.nextId, id)
          <6>1. Keys(U, id) = Keys(V, id) \cup {0} /\ 0 \notin Keys(V, id)
            BY <3>7, <4>5
          <6>2. Keys(E, id) = Keys(D, id) \cup {Last} /\ p = NoRelay
            BY <3>7, <4>4, <4>5
          <6>3. U \in Seq(Parcel)
            BY <1>1 DEF U
          <6> QED
            BY <1>1, <3>1, <3>4, <4>1, <4>2, <4>4, <6>1, <6>2, <6>3, StreamHostRejects
        <5> QED
          BY <3>10, <3>9, <3>7, <4>5, <5>1 DEF Carried
      <4>6. CASE f.id # id
        <5>1. Keys(V, id) = Keys(U, id) /\ Keys(E, id) = Keys(D, id)
          BY <3>7, <4>4, <4>6
        <5>2. SameEnds(e, e, id)
          BY DEF SameEnds
        <5> QED
          BY <3>10, <3>5, <3>7, <4>4, <5>1, <5>2, CarriedSame
      <4> QED
        BY <4>5, <4>6
    <3> QED
      BY <3>8, <3>9
  <2>10. StreamsHeld(k, g, up, dn, e)
    BY <2>9 DEF StreamsHeld
  <2> QED
    BY <1>0, <2>5, <2>6, <2>7, <2>8, <2>10 DEF Kept, k
<1> QED
  BY <1>2, <1>3

\* The connections of a pump are finitely many.
LEMMA LiveOf ==
  ASSUME NEW peers
  PROVE  /\ IsFiniteSet(Live(peers)) /\ Live(peers) \subseteq Streams
         /\ \A S \in SUBSET Live(peers) : IsFiniteSet(S) /\ Cardinality(S) <= Cardinality(Live(peers))
                                          /\ Cardinality(S) \in Nat
         /\ Cardinality(Live(peers)) \in Nat
<1>1. IsFiniteSet(Streams)
  BY FS_Interval, StreamFacts DEF Streams
<1>2. Live(peers) \subseteq Streams
  BY DEF Live
<1>3. IsFiniteSet(Live(peers))
  BY <1>1, <1>2, FS_Subset
<1>4. \A S \in SUBSET Live(peers) : IsFiniteSet(S) /\ Cardinality(S) <= Cardinality(Live(peers))
  BY <1>3, FS_Subset
<1>5. \A S : IsFiniteSet(S) => Cardinality(S) \in Nat
  BY FS_CardinalityType
<1> QED
  BY <1>2, <1>3, <1>4, <1>5

\* The peers that went left no more CLOSE frames than there was room for, and the first
\* one had room if there was any.
LEMMA RetireKeeps ==
  ASSUME NEW h, NEW g, NEW up, NEW dn, NEW e, Kept(h, g, up, dn, e), h.status = "run",
         h.in # NoRelay /\ h.in.kind = "OPEN" => Room(h.out) < 1
  PROVE  LET k == RetireHost(h)
         IN  Kept(k, g, up, dn, e) /\ k.status = "run" /\ k.eof = h.eof /\ HostSettled(k)
<1> DEFINE k == RetireHost(h)
           done == {id \in Live(h.peers) : h.peers[id].queue = <<>>
                                           /\ (h.peers[id].closed \/ h.peers[id].eof)}
           owed == {id \in done : ~h.peers[id].closed}
           fits(id) == Rank(owed, id) < Room(h.out)
           gone == {id \in done : \A j \in owed : j <= id => fits(j)}
           T == owed \cap gone
           left == [id \in Streams |-> IF id \in gone THEN NoRelay ELSE h.peers[id]]
<1>0. Shaped(h, g, up, dn, e) /\ HostHeld(h) /\ GuestHeld(g) /\ StreamsHeld(h, g, up, dn, e) /\ Ended(h, g, up)
  BY DEF Kept
<1>1. /\ h \in HostSet /\ g \in GuestSet /\ up \in Seq(Parcel) /\ dn \in Seq(Parcel) /\ e \in EndsSet
      /\ Frames(h.out) \in Seq(Parcel) /\ Frames(g.out) \in Seq(Parcel)
      /\ UpOf(h, g, up) \in Seq(Parcel) /\ DownOf(h, g, dn) \in Seq(Parcel)
  BY <1>0, ShapedOf
<1>2. h.out \in Seq(Entry) /\ Ageing(h.out) /\ Room(h.out) \in Nat /\ Used(Frames(h.out)) <= OutLimit
  BY <1>0, <1>1, HostOf, RoomOf DEF HostHeld
<1>3. k = [h EXCEPT !.peers = left, !.out = h.out \o Closes(T)]
  BY <1>1 DEF RetireHost, HostSet, Rank
<1>4. /\ owed \subseteq done /\ done \subseteq Live(h.peers) /\ gone \subseteq done /\ T \subseteq owed
      /\ T \subseteq gone /\ owed \subseteq Streams /\ T \subseteq Streams
      /\ \A id \in T : Rank(owed, id) < Room(h.out)
  <2>1. \A id \in Streams : id <= id
    BY StreamFacts DEF Streams
  <2> QED
    BY <2>1 DEF Live
<1>5. Cardinality(T) <= Room(h.out)
  BY <1>2, <1>4, FitsOf
<1>6. /\ h.out \o Closes(T) \in Seq(Entry) /\ Frames(h.out \o Closes(T)) = Frames(h.out) \o Frames(Closes(T))
      /\ Used(Frames(h.out \o Closes(T))) <= OutLimit /\ Ageing(h.out \o Closes(T))
      /\ h.out \o Closes(T) = <<>> <=> h.out = <<>> /\ T = {}
      /\ Frames(Closes(T)) \in Seq(Parcel)
  BY <1>2, <1>4, <1>5, OutCloses
<1>7. /\ \A id \in done : id \in Streams /\ h.peers[id] # NoRelay /\ h.peers[id].queue = <<>>
      /\ \A id \in T : ~h.peers[id].closed
      /\ \A id \in gone \ T : h.peers[id].closed
      /\ \A id \in Live(h.peers) \ done : h.peers[id].queue = <<>> => ~h.peers[id].closed /\ ~h.peers[id].eof
      /\ \A id \in done \ gone : \E j \in owed : j <= id
      /\ \A m \in owed : (\A j \in owed : j <= m => Rank(owed, j) < Room(h.out)) => m \in T
  BY DEF Live
<1>8. left \in [Streams -> HostPeers \cup {NoRelay}] /\ Live(left) = Live(h.peers) \ gone
      /\ \A id \in Streams : left[id] = IF id \in gone THEN NoRelay ELSE h.peers[id]
  BY <1>1, HostOf DEF Live
<1> HIDE DEF k, done, owed, gone, T, left, fits
<1>9. T = {} => owed = {} \/ Room(h.out) = 0
  <2> SUFFICES ASSUME owed # {}, Room(h.out) # 0 PROVE T # {}
    OBVIOUS
  <2>1. Cardinality(owed) \in Nat /\ IsFiniteSet(owed)
    BY <1>4, RankOf
  <2>2. Cardinality(owed) # 0
    BY <2>1, FS_EmptySet
  <2>3. 1 \in 1 .. Cardinality(owed)
    BY <2>1, <2>2
  <2>4. PICK m \in owed : Rank(owed, m) = 0
    <3>1. \A i \in 1 .. Cardinality(owed) : \E m \in owed : Rank(owed, m) = i - 1
      BY <1>4, RankOf
    <3> QED
      BY <2>3, <3>1
  <2>5. \A j \in owed : j <= m => j = m
    <3> SUFFICES ASSUME NEW j \in owed, j < m PROVE FALSE
      BY <1>4, StreamFacts DEF Streams
    <3>1. j \in {i \in owed : i < m}
      OBVIOUS
    <3>2. IsFiniteSet({i \in owed : i < m})
      BY <2>1, FS_Subset
    <3> QED
      BY <2>4, <3>1, <3>2, FS_EmptySet DEF Rank
  <2>6. m \in T
    BY <1>2, <1>7, <2>4, <2>5
  <2> QED
    BY <2>6
<1>10. /\ k.status = "run" /\ k.in = h.in /\ k.age = h.age /\ k.eof = h.eof /\ k.peers = left
       /\ k.out = h.out \o Closes(T)
  BY <1>1, <1>3 DEF HostSet
<1>11. k \in HostSet
  <2> DEFINE q == h.out \o Closes(T)
  <2>1. q \in Seq(Entry) /\ k = [h EXCEPT !.peers = left, !.out = q]
    BY <1>3, <1>6
  <2> HIDE DEF q
  <2> QED
    BY <1>1, <1>8, <2>1 DEF HostSet
<1>12. Shaped(k, g, up, dn, e)
  <2>1. Closes(T) \in Seq(Entry) /\ \A i \in DOMAIN Closes(T) : Closes(T)[i].frame.kind = "CLOSE"
    BY <1>4, ClosesOf
  <2>2. NoOpens(Frames(Closes(T)))
    BY <2>1, FramesOf DEF Frames, NoOpens
  <2>3. NoOpens(Frames(h.out) \o Frames(Closes(T)))
    BY <1>0, <1>1, <1>6, <2>2, OpensJoin DEF Shaped
  <2>4. NoOpens(Frames(k.out))
    BY <1>6, <1>10, <2>3
  <2> QED
    BY <1>0, <1>10, <1>11, <2>4 DEF Shaped
<1>13. HostHeld(k)
  <2>1. Used(Frames(k.out)) <= OutLimit /\ Ageing(k.out)
    BY <1>6, <1>10
  <2>2. (k.in = NoRelay => k.age = 0) /\ k.age <= 1
    BY <1>0, <1>10 DEF HostHeld
  <2>3. Live(k.peers) \subseteq Live(h.peers) /\ \A id \in Live(k.peers) : k.peers[id] = h.peers[id]
    BY <1>4, <1>8, <1>10 DEF Live
  <2>4. Cardinality(Live(k.peers)) <= PeerLimit
    <3>1. Cardinality(Live(k.peers)) <= Cardinality(Live(h.peers)) /\ Cardinality(Live(k.peers)) \in Nat
          /\ Cardinality(Live(h.peers)) \in Nat
      BY <2>3, LiveOf
    <3> QED
      BY <1>0, <3>1, StreamFacts DEF HostHeld
  <2> QED
    BY <1>0, <2>1, <2>2, <2>3, <2>4 DEF HostHeld
<1>14. Ended(k, g, up)
  BY <1>0, <1>10 DEF Ended
<1>15. HostSettled(k)
  <2>1. k.in # NoRelay /\ k.in.kind = "OPEN" => Room(k.out) < 1
    <3>1. Used(Frames(h.out)) <= Used(Frames(k.out))
      <4> DEFINE v == Frames(Closes(T))
      <4>1. Closes(T) \in Seq(Entry) /\ \A i \in DOMAIN Closes(T) : Closes(T)[i].frame.kind = "CLOSE"
        BY <1>4, ClosesOf
      <4>2. DOMAIN v = DOMAIN Closes(T) /\ v \in Seq(Parcel) /\ \A i \in DOMAIN v : v[i].kind = "CLOSE"
        BY <4>1, FramesOf DEF Frames
      <4>3. Frames(k.out) = Frames(h.out) \o v
        BY <1>6, <1>10
      <4> HIDE DEF v
      <4>4. Used(Frames(h.out) \o v) = Used(Frames(h.out)) + Len(v) /\ Len(v) \in Nat
        BY <1>1, <4>2, UsedCloses
      <4>5. Used(Frames(h.out)) \in Nat
        BY <1>2, RoomOf
      <4> QED
        BY <4>3, <4>4, <4>5
    <3>2. Used(Frames(h.out)) \in Nat /\ Used(Frames(k.out)) \in Nat
      BY <1>2, <1>6, <1>10, RoomOf
    <3> QED
      BY <1>10, <3>1, <3>2, StreamFacts DEF Room
  <2>2. ASSUME k.out = <<>>, NEW id \in Live(k.peers), k.peers[id].queue = <<>>
        PROVE  ~k.peers[id].closed /\ ~k.peers[id].eof
    <3>1. h.out = <<>> /\ T = {}
      BY <1>6, <1>10, <2>2
    <3>2. Room(h.out) # 0
      <4>1. Room(h.out) = OutLimit
        BY <1>2, <3>1, RoomOf, Zenon
      <4> QED
        BY <4>1, StreamFacts
    <3>3. owed = {}
      BY <1>9, <3>1, <3>2
    <3>4. id \in Live(h.peers) /\ id \notin gone /\ k.peers[id] = h.peers[id]
      BY <1>8, <1>10 DEF Live
    <3>5. id \notin done
      BY <1>7, <3>3, <3>4
    <3> QED
      BY <1>7, <2>2, <3>4, <3>5
  <2> QED
    BY <2>1, <2>2 DEF HostSettled
<1>16. ASSUME NEW id \in Streams
       PROVE  Carried(k, g, UpOf(k, g, up), DownOf(k, g, dn), e, id)
  <2> DEFINE v == Frames(Closes(T))
             U == UpOf(h, g, up)
             D == DownOf(h, g, dn)
             E == DownOf(k, g, dn)
             p == h.peers[id]
             r == g.peers[id]
  <2>1. v \in Seq(Parcel) /\ Rising(v, id) /\ Keys(v, id) = (IF id \in T THEN {Last} ELSE {})
    BY <1>4, <1>6, ClosesOf
  <2>2. UpOf(k, g, up) = U
    BY <1>10 DEF UpOf
  <2>3. E = D \o v
    <3>1. Frames(k.out) = Frames(h.out) \o v
      BY <1>6, <1>10
    <3> HIDE DEF v
    <3>2. g.in \in Parcel \cup {NoRelay}
      BY <1>1, GuestOf
    <3>3. \A in \in Parcel \cup {NoRelay}, l \in Seq(Parcel), x \in Seq(Parcel), w \in Seq(Parcel) :
            Way(in, l, x \o w) = Way(in, l, x) \o w
      BY WayPush
    <3>4. Way(g.in, dn, Frames(h.out) \o v) = Way(g.in, dn, Frames(h.out)) \o v
      <4>1. dn \in Seq(Parcel) /\ Frames(h.out) \in Seq(Parcel) /\ v \in Seq(Parcel)
        BY <1>1, <2>1
      <4> QED
        BY <3>2, <3>3, <4>1, Zenon
    <3> QED
      BY <3>1, <3>4 DEF DownOf
  <2>4. p \in HostPeers \cup {NoRelay} /\ r \in GuestPeers \cup {NoRelay} /\ g.nextId \in Nat
    BY <1>1, HostOf, GuestOf
  <2>5. Carried(h, g, U, D, e, id)
    BY <1>0 DEF StreamsHeld
  <2>6. U \in Seq(Parcel) /\ D \in Seq(Parcel) /\ E \in Seq(Parcel)
    BY <1>1, <1>12, ShapedOf
  <2>7. h.peers[id] = p /\ g.peers[id] = r /\ k.peers[id] = IF id \in gone THEN NoRelay ELSE p
    BY <1>8, <1>10
  <2> SUFFICES Carried(k, g, U, E, e, id)
    BY <2>2
  <2> HIDE DEF v, U, D, E, p, r
  <2>8. UpSound(p, U, id) /\ UpSound(NoRelay, U, id)
    BY <2>4, <2>5, <2>6, <2>7, UpGone DEF Carried
  <2>9. CASE g.status # "run"
    BY <2>7, <2>8, <2>9 DEF Carried
  <2>10. CASE g.status = "run"
    <3>1. Stream(p, r, U, D, e, g.exited, g.nextId, id)
      BY <2>5, <2>7, <2>10 DEF Carried
    <3>2. DownSound(r, D, id)
      BY <3>1 DEF Stream, DownWhole
    <3>3. id \in T => p # NoRelay
      BY <1>4, <1>7, <2>7
    <3>4. \A x \in GuestOn(r, D, id), y \in Keys(v, id) : x < y
      <4> SUFFICES ASSUME id \in T, NEW x \in GuestOn(r, D, id) PROVE x < Last
        BY <2>1
      <4>1. Last \notin Keys(D, id)
        BY <3>1, <3>3 DEF Stream, Agreed
      <4>2. Last \notin GuestOn(r, D, id) /\ GuestOn(r, D, id) \subseteq 1 .. e.sentDown[id] \cup {Last}
        BY <2>4, <2>6, <3>1, <4>1, GuestOnOf DEF Stream, DownWhole
      <4>3. e.sentDown[id] \in 0 .. MaxData
        BY <1>1, EndsOf
      <4> QED
        BY <4>2, <4>3, StreamFacts
    <3>5. DownSound(r, E, id) /\ Keys(E, id) = Keys(D, id) \cup Keys(v, id)
      <4>1. DownSound(r, D \o v, id) /\ Keys(D \o v, id) = Keys(D, id) \cup Keys(v, id)
        <5>1. v \in Seq(Parcel) /\ Rising(v, id) /\ r \in GuestPeers \cup {NoRelay} /\ D \in Seq(Parcel)
          BY <2>1, <2>4, <2>6
        <5> QED
          BY <3>2, <3>4, <5>1, DownJoin
      <4> QED
        BY <2>3, <4>1
    <3>6. CASE id \in gone
      <4>1. p \in HostPeers
        BY <1>4, <1>7, <2>4, <2>7, <3>6
      <4>2. Keys(E, id) = Keys(D, id) \cup (IF p.closed THEN {} ELSE {Last})
        BY <1>7, <2>1, <2>7, <3>5, <3>6
      <4>3. 0 \notin Keys(U, id) /\ (p.closed => Keys(U, id) = {})
        BY <2>8, <4>1, StreamFacts DEF UpSound
      <4>4. Stream(NoRelay, r, U, E, e, g.exited, g.nextId, id)
        BY <1>1, <2>4, <2>6, <3>1, <3>5, <4>1, <4>2, <4>3, StreamHostRetires
      <4> QED
        BY <2>7, <2>8, <3>6, <4>4 DEF Carried
    <3>7. CASE id \notin gone
      <4>1. id \notin T
        BY <1>4, <3>7
      <4>2. Keys(E, id) = Keys(D, id)
        BY <2>1, <3>5, <4>1
      <4>3. SameEnds(e, e, id)
        BY DEF SameEnds
      <4>4. Stream(p, r, U, E, e, g.exited, g.nextId, id)
        BY <3>1, <3>5, <4>2, <4>3, StreamSame
      <4> QED
        BY <2>7, <2>8, <3>7, <4>4 DEF Carried
    <3> QED
      BY <3>6, <3>7
  <2> QED
    BY <2>9, <2>10
<1>17. StreamsHeld(k, g, up, dn, e)
  BY <1>16 DEF StreamsHeld
<1> QED
  BY <1>0, <1>10, <1>12, <1>13, <1>14, <1>15, <1>17 DEF Kept, k

\* A whole pass of the host pump.
LEMMA HostPassKeeps ==
  ASSUME NEW h, NEW g, NEW up, NEW dn, NEW e, Kept(h, g, up, dn, e), h.status = "run"
  PROVE  Kept(HostPass(h), g, up, dn, e) /\ HostSettled(HostPass(h))
<1> DEFINE m == HeaderProgress(h)
           r == RetireHost(m)
           o == [r EXCEPT !.status = "ok"]
<1>1. /\ Kept(m, g, up, dn, e) /\ m.status = "run"
      /\ m.in # NoRelay /\ m.in.kind = "OPEN" => Room(m.out) < 1
  BY AnswerKeeps
<1> HIDE DEF m
<1>2. Kept(r, g, up, dn, e) /\ r.status = "run" /\ HostSettled(r)
  BY <1>1, RetireKeeps
<1> HIDE DEF r
<1>3. CASE ~(r.eof /\ Drained(r))
  BY <1>2, <1>3 DEF HostPass, r, m
<1>4. CASE r.eof /\ Drained(r)
  <2>1. HostPass(h) = o
    BY <1>2, <1>4 DEF HostPass, r, m
  <2>2. r \in HostSet
    BY <1>2 DEF Kept, Shaped
  <2>3. o \in HostSet /\ o.status = "ok" /\ o.in = r.in /\ o.peers = r.peers /\ o.out = r.out
        /\ o.eof = r.eof /\ o.age = r.age
    BY <2>2 DEF HostSet
  <2> HIDE DEF o
  <2>4. Shaped(o, g, up, dn, e)
    BY <1>2, <2>3 DEF Kept, Shaped
  <2>5. HostHeld(o) /\ GuestHeld(g)
    BY <1>2, <2>3 DEF Kept, HostHeld
  <2>6. Ended(o, g, up)
    BY <1>2, <1>4, <2>3 DEF Kept, Ended, Drained
  <2>7. StreamsHeld(o, g, up, dn, e) /\ HostSettled(o)
    BY <2>3 DEF StreamsHeld, HostSettled
  <2> QED
    BY <2>1, <2>4, <2>5, <2>6, <2>7 DEF Kept
<1> QED
  BY <1>3, <1>4

-----------------------------------------------------------------------------
(* The pass of the guest pump, and a pump that has ended.                    *)

\* A guest that is gone takes what its output held with it.
LEMMA GuestEndKeeps ==
  ASSUME NEW h, NEW g, NEW up, NEW dn, NEW e, Kept(h, g, up, dn, e), NEW status \in {"ok", "failed"},
         NEW d \in Seq(Parcel), NoOpens(d)
  PROVE  LET k == [EmptyGuest(status, g.program) EXCEPT !.exited = g.exited]
         IN  Kept(h, k, up, d, e) /\ GuestSettled(k) /\ k.status = status
<1> DEFINE k == [EmptyGuest(status, g.program) EXCEPT !.exited = g.exited]
<1>0. Shaped(h, g, up, dn, e) /\ HostHeld(h) /\ GuestHeld(g) /\ StreamsHeld(h, g, up, dn, e) /\ Ended(h, g, up)
  BY DEF Kept
<1>1. /\ h \in HostSet /\ g \in GuestSet /\ up \in Seq(Parcel) /\ dn \in Seq(Parcel) /\ e \in EndsSet
      /\ Frames(h.out) \in Seq(Parcel) /\ Frames(g.out) \in Seq(Parcel)
      /\ UpOf(h, g, up) \in Seq(Parcel) /\ DownOf(h, g, dn) \in Seq(Parcel)
  BY <1>0, ShapedOf
<1>2. /\ k.status = status /\ k.program = g.program /\ k.in = NoRelay /\ k.out = <<>> /\ k.eof = FALSE
      /\ k.exited = g.exited /\ k.nextId = 1 /\ k.peers = [id \in Streams |-> NoRelay]
  BY DEF EmptyGuest
<1>3. k \in GuestSet
  <2>1. /\ status \in {"run", "ok", "failed"} /\ g.program \in {"stdio", "publish"} /\ g.exited \in BOOLEAN
        /\ 1 \in 1 .. MaxStreams + 1 /\ <<>> \in Seq(Entry)
    BY <1>1, GuestOf, StreamFacts, FramesEmpty
  <2>2. EmptyGuest(status, g.program) \in GuestSet
    BY <2>1 DEF EmptyGuest, GuestSet
  <2> QED
    BY <2>1, <2>2 DEF GuestSet
<1> HIDE DEF k
<1>4. Shaped(h, k, up, d, e)
  BY <1>0, <1>2, <1>3 DEF Shaped
<1>5. Live(k.peers) = {}
  BY <1>2 DEF Live
<1>6. GuestHeld(k)
  <2>1. Frames(k.out) = <<>> /\ k.out \in Seq(Entry)
    BY <1>2, FramesEmpty, Zenon
  <2>2. Room(k.out) = OutLimit
    BY <1>2, <2>1, RoomOf, Zenon
  <2>3. Used(Frames(k.out)) <= OutLimit
    BY <2>1, <2>2, RoomOf, StreamFacts
  <2>4. Ageing(k.out)
    BY <1>2, AgeNone, Zenon
  <2> QED
    BY <1>5, <2>3, <2>4 DEF GuestHeld
<1>7. Ended(h, k, up)
  BY <1>0, <1>2 DEF Ended
<1>8. ASSUME NEW id \in Streams, h.status = "run"
      PROVE  Carried(h, k, UpOf(h, k, up), DownOf(h, k, d), e, id)
  <2> DEFINE o == Frames(g.out)
             W == Way(h.in, up, <<>>)
  <2>1. UpOf(h, k, up) = W
    BY <1>2, FramesEmpty, Zenon DEF UpOf
  <2>2. W \in Seq(Parcel) /\ UpOf(h, g, up) = W \o o
    BY <1>1, HostOf, WayCut DEF UpOf
  <2>3. UpSound(h.peers[id], UpOf(h, g, up), id)
    BY <1>0, <1>8 DEF StreamsHeld, Carried
  <2>4. h.peers[id] \in HostPeers \cup {NoRelay} /\ o \in Seq(Parcel)
    BY <1>1, HostOf
  <2> HIDE DEF o, W
  <2>5. UpSound(h.peers[id], W, id)
    BY <2>2, <2>3, <2>4, UpCut
  <2> QED
    BY <1>2, <2>1, <2>5 DEF Carried
<1>9. StreamsHeld(h, k, up, d, e)
  BY <1>8 DEF StreamsHeld
<1>10. GuestSettled(k)
  BY <1>2 DEF GuestSettled
<1> QED
  BY <1>0, <1>2, <1>4, <1>6, <1>7, <1>9, <1>10 DEF Kept, k

\* A host that has failed holds nothing, and nothing is claimed about its streams.
LEMMA HostEndKeeps ==
  ASSUME NEW h, NEW g, NEW up, NEW dn, NEW e, Kept(h, g, up, dn, e), NEW u \in Seq(Parcel)
  PROVE  LET k == EmptyHost("failed") IN  Kept(k, g, u, dn, e) /\ HostSettled(k) /\ k.status = "failed"
<1> DEFINE k == EmptyHost("failed")
<1>0. Shaped(h, g, up, dn, e) /\ HostHeld(h) /\ GuestHeld(g)
  BY DEF Kept
<1>2. /\ k.status = "failed" /\ k.in = NoRelay /\ k.out = <<>> /\ k.eof = FALSE /\ k.age = 0
      /\ k.peers = [id \in Streams |-> NoRelay]
  BY DEF EmptyHost
<1>3. k \in HostSet
  <2>1. <<>> \in Seq(Entry)
    BY FramesEmpty
  <2> QED
    BY <2>1 DEF HostSet, EmptyHost
<1> HIDE DEF k
<1>4. Shaped(k, g, u, dn, e)
  <2>1. Frames(k.out) = <<>>
    BY <1>2, FramesEmpty, Zenon
  <2>2. NoOpens(Frames(k.out))
    BY <2>1 DEF NoOpens
  <2> QED
    BY <1>0, <1>2, <1>3, <2>2 DEF Shaped
<1>5. Live(k.peers) = {}
  BY <1>2 DEF Live
<1>6. HostHeld(k)
  <2>1. Frames(k.out) = <<>> /\ k.out \in Seq(Entry)
    BY <1>2, FramesEmpty, Zenon
  <2>2. Room(k.out) = OutLimit
    BY <1>2, <2>1, RoomOf, Zenon
  <2>3. Used(Frames(k.out)) <= OutLimit
    BY <2>1, <2>2, RoomOf, StreamFacts
  <2>4. Ageing(k.out)
    BY <1>2, AgeNone, Zenon
  <2>5. Cardinality(Live(k.peers)) <= PeerLimit
    <3>1. Cardinality({}) = 0
      BY FS_EmptySet
    <3> QED
      BY <1>5, <3>1, StreamFacts
  <2> QED
    BY <1>2, <1>5, <2>3, <2>4, <2>5 DEF HostHeld
<1>7. Ended(k, g, u)
  BY <1>2 DEF Ended
<1>8. StreamsHeld(k, g, u, dn, e) /\ HostSettled(k)
  BY <1>2 DEF StreamsHeld, HostSettled
<1> QED
  BY <1>0, <1>2, <1>4, <1>6, <1>7, <1>8 DEF Kept, k

\* A whole pass of the guest pump: peers that drained go, and the loop may end.
LEMMA GuestPassKeeps ==
  ASSUME NEW h, NEW g, NEW up, NEW dn, NEW e, Kept(h, g, up, dn, e), g.status = "run"
  PROVE  Kept(h, GuestPass(g), up, dn, e) /\ GuestSettled(GuestPass(g))
<1> DEFINE done == {id \in Live(g.peers) : g.peers[id].closing /\ g.peers[id].queue = <<>>}
           owed == {id \in done : g.peers[id].notify}
           gone == {id \in done : id \in owed => Rank(owed, id) < Room(g.out)}
           T == owed \cap gone
           left == [id \in Streams |-> IF id \in gone THEN NoRelay ELSE g.peers[id]]
           k == [g EXCEPT !.peers = left, !.out = g.out \o Closes(T)]
           idle == k.out = <<>> /\ \A id \in Live(k.peers) : k.peers[id].queue = <<>>
<1>0. Shaped(h, g, up, dn, e) /\ HostHeld(h) /\ GuestHeld(g) /\ StreamsHeld(h, g, up, dn, e) /\ Ended(h, g, up)
  BY DEF Kept
<1>1. /\ h \in HostSet /\ g \in GuestSet /\ up \in Seq(Parcel) /\ dn \in Seq(Parcel) /\ e \in EndsSet
      /\ Frames(h.out) \in Seq(Parcel) /\ Frames(g.out) \in Seq(Parcel)
      /\ UpOf(h, g, up) \in Seq(Parcel) /\ DownOf(h, g, dn) \in Seq(Parcel)
  BY <1>0, ShapedOf
<1>2. g.out \in Seq(Entry) /\ Ageing(g.out) /\ Room(g.out) \in Nat /\ Used(Frames(g.out)) <= OutLimit
  BY <1>0, <1>1, GuestOf, RoomOf DEF GuestHeld
<1>3. k = [g EXCEPT !.peers = [id \in Streams |-> IF id \in gone THEN NoRelay ELSE @[id]],
                    !.out = @ \o Closes(T)]
  BY <1>1 DEF GuestSet
<1>18. GuestPass(g) = IF (k.eof \/ k.exited) /\ idle
                      THEN [EmptyGuest("ok", k.program) EXCEPT !.exited = k.exited] ELSE k
  BY <1>3, Zenon DEF GuestPass, Rank
<1>4. /\ owed \subseteq done /\ done \subseteq Live(g.peers) /\ gone \subseteq done /\ T \subseteq owed
      /\ T \subseteq gone /\ owed \subseteq Streams /\ T \subseteq Streams
      /\ \A id \in T : Rank(owed, id) < Room(g.out)
  BY DEF Live
<1>5. Cardinality(T) <= Room(g.out)
  BY <1>2, <1>4, FitsOf
<1>6. /\ g.out \o Closes(T) \in Seq(Entry) /\ Frames(g.out \o Closes(T)) = Frames(g.out) \o Frames(Closes(T))
      /\ Used(Frames(g.out \o Closes(T))) <= OutLimit /\ Ageing(g.out \o Closes(T))
      /\ g.out \o Closes(T) = <<>> <=> g.out = <<>> /\ T = {}
      /\ Frames(Closes(T)) \in Seq(Parcel)
  BY <1>2, <1>4, <1>5, OutCloses
<1>7. /\ \A id \in done : id \in Streams /\ g.peers[id] # NoRelay /\ g.peers[id].closing
      /\ \A id \in T : g.peers[id].notify
      /\ \A id \in gone \ T : ~g.peers[id].notify
      /\ \A id \in Live(g.peers) \ done : g.peers[id].queue = <<>> => ~g.peers[id].closing
      /\ \A id \in done \ gone : id \in owed
      /\ \A m \in owed : Rank(owed, m) < Room(g.out) => m \in T
  BY DEF Live
<1>8. left \in [Streams -> GuestPeers \cup {NoRelay}] /\ Live(left) = Live(g.peers) \ gone
      /\ \A id \in Streams : left[id] = IF id \in gone THEN NoRelay ELSE g.peers[id]
  BY <1>1, GuestOf DEF Live
<1> HIDE DEF done, owed, gone, T, left
<1>9. T = {} => owed = {} \/ Room(g.out) = 0
  <2> SUFFICES ASSUME owed # {}, Room(g.out) # 0 PROVE T # {}
    OBVIOUS
  <2>1. Cardinality(owed) \in Nat /\ IsFiniteSet(owed)
    BY <1>4, RankOf
  <2>2. Cardinality(owed) # 0
    BY <2>1, FS_EmptySet
  <2>3. 1 \in 1 .. Cardinality(owed)
    BY <2>1, <2>2
  <2>4. PICK m \in owed : Rank(owed, m) = 0
    <3>1. \A i \in 1 .. Cardinality(owed) : \E m \in owed : Rank(owed, m) = i - 1
      BY <1>4, RankOf
    <3> QED
      BY <2>3, <3>1
  <2> QED
    BY <1>2, <1>7, <2>4
<1>10. /\ k.status = "run" /\ k.in = g.in /\ k.eof = g.eof /\ k.peers = left /\ k.program = g.program
       /\ k.out = g.out \o Closes(T) /\ k.exited = g.exited /\ k.nextId = g.nextId
  BY <1>1 DEF GuestSet
<1>11. k \in GuestSet
  <2> DEFINE q == g.out \o Closes(T)
  <2>1. q \in Seq(Entry) /\ k = [g EXCEPT !.peers = left, !.out = q]
    BY <1>6
  <2> HIDE DEF q, k
  <2> QED
    BY <1>1, <1>8, <2>1 DEF GuestSet
<1> HIDE DEF k
<1>12. Shaped(h, k, up, dn, e)
  BY <1>0, <1>10, <1>11 DEF Shaped
<1>13. GuestHeld(k)
  <2>1. Used(Frames(k.out)) <= OutLimit /\ Ageing(k.out)
    BY <1>6, <1>10
  <2>2. Live(k.peers) \subseteq Live(g.peers) /\ \A id \in Live(k.peers) : k.peers[id] = g.peers[id]
    BY <1>4, <1>8, <1>10 DEF Live
  <2> QED
    BY <1>0, <1>10, <2>1, <2>2 DEF GuestHeld
<1>14. Ended(h, k, up)
  BY <1>0, <1>10 DEF Ended
<1>15. GuestSettled(k)
  <2> SUFFICES ASSUME k.out = <<>>, NEW id \in Live(k.peers), k.peers[id].queue = <<>>
               PROVE  ~k.peers[id].closing
    BY DEF GuestSettled
  <2>1. g.out = <<>> /\ T = {}
    BY <1>6, <1>10
  <2>2. Room(g.out) # 0
    <3>1. Room(g.out) = OutLimit
      BY <1>2, <2>1, RoomOf, Zenon
    <3> QED
      BY <3>1, StreamFacts
  <2>3. owed = {}
    BY <1>9, <2>1, <2>2
  <2>4. id \in Live(g.peers) /\ id \notin gone /\ k.peers[id] = g.peers[id]
    BY <1>8, <1>10 DEF Live
  <2>5. id \notin done
    BY <1>7, <2>3, <2>4
  <2> QED
    BY <1>7, <2>4, <2>5
<1>16. ASSUME NEW id \in Streams, h.status = "run"
       PROVE  Carried(h, k, UpOf(h, k, up), DownOf(h, k, dn), e, id)
  <2> DEFINE v == Frames(Closes(T))
             U == UpOf(h, g, up)
             V == UpOf(h, k, up)
             D == DownOf(h, g, dn)
             p == h.peers[id]
             r == g.peers[id]
  <2>1. v \in Seq(Parcel) /\ Rising(v, id) /\ Keys(v, id) = (IF id \in T THEN {Last} ELSE {})
    BY <1>4, <1>6, ClosesOf
  <2>2. DownOf(h, k, dn) = D
    BY <1>10 DEF DownOf
  <2>3. V = U \o v
    <3>1. Frames(k.out) = Frames(g.out) \o v
      BY <1>6, <1>10
    <3> HIDE DEF v
    <3>2. h.in \in Parcel \cup {NoRelay}
      BY <1>1, HostOf
    <3>3. \A in \in Parcel \cup {NoRelay}, l \in Seq(Parcel), x \in Seq(Parcel), w \in Seq(Parcel) :
            Way(in, l, x \o w) = Way(in, l, x) \o w
      BY WayPush
    <3>4. Way(h.in, up, Frames(g.out) \o v) = Way(h.in, up, Frames(g.out)) \o v
      <4>1. up \in Seq(Parcel) /\ Frames(g.out) \in Seq(Parcel) /\ v \in Seq(Parcel)
        BY <1>1, <2>1
      <4> QED
        BY <3>2, <3>3, <4>1, Zenon
    <3> QED
      BY <3>1, <3>4 DEF UpOf
  <2>4. p \in HostPeers \cup {NoRelay} /\ r \in GuestPeers \cup {NoRelay} /\ g.nextId \in Nat
    BY <1>1, HostOf, GuestOf
  <2>5. Carried(h, g, U, D, e, id)
    BY <1>0, <1>16 DEF StreamsHeld
  <2>6. U \in Seq(Parcel) /\ D \in Seq(Parcel) /\ V \in Seq(Parcel)
    BY <1>1, <1>12, ShapedOf
  <2>7. h.peers[id] = p /\ g.peers[id] = r /\ k.peers[id] = IF id \in gone THEN NoRelay ELSE r
    BY <1>8, <1>10
  <2> SUFFICES Carried(h, k, V, D, e, id)
    BY <2>2
  <2> HIDE DEF v, U, D, V, p, r
  <2>8. UpSound(p, U, id) /\ Stream(p, r, U, D, e, g.exited, g.nextId, id)
    BY <2>5, <2>7 DEF Carried
  <2>9. id \in T => /\ r # NoRelay /\ Last \notin Keys(U, id)
                    /\ p # NoRelay => ~p.closed
    <3> SUFFICES ASSUME id \in T PROVE r # NoRelay /\ Last \notin Keys(U, id) /\ (p # NoRelay => ~p.closed)
      OBVIOUS
    <3>1. r # NoRelay
      BY <1>4, <1>7, <2>7
    <3> QED
      BY <2>8, <3>1 DEF Stream, Agreed
  <2>10. UpSound(p, V, id) /\ Keys(V, id) = Keys(U, id) \cup Keys(v, id)
    <3>1. \A x \in HostOn(p, U, id), y \in Keys(v, id) : x < y
      <4> SUFFICES ASSUME id \in T, NEW x \in HostOn(p, U, id) PROVE x < Last
        BY <2>1
      <4>1. Last \notin HostOn(p, U, id) /\ HostOn(p, U, id) \subseteq 0 .. Last
        BY <2>4, <2>6, <2>9, HostOnOf
      <4> QED
        BY <4>1, StreamFacts
    <3>2. Before(Keys(HostQueue(p, id), id) \cup Keys(U, id), Keys(v, id))
      BY <3>1 DEF HostOn, Before
    <3>3. v \in Seq(Parcel) /\ Rising(v, id)
      BY <2>1
    <3>4. (p # NoRelay => 0 \notin Keys(v, id)) /\ (p # NoRelay /\ p.closed => Keys(v, id) = {})
      BY <2>1, <2>9, StreamFacts
    <3>5. UpSound(p, U \o v, id) /\ Keys(U \o v, id) = Keys(U, id) \cup Keys(v, id)
      BY <2>4, <2>6, <2>8, <3>2, <3>3, <3>4, UpJoin
    <3> QED
      BY <2>3, <3>5
  <2>11. CASE id \in gone
    <3>1. r \in GuestPeers /\ r.closing /\ r.notify \in BOOLEAN
      <4>1. r # NoRelay /\ r.closing
        BY <1>4, <1>7, <2>7, <2>11
      <4> QED
        BY <2>4, <4>1, GuestPeerOf
    <3>2. Keys(V, id) = Keys(U, id) \cup (IF r.notify THEN {Last} ELSE {})
      <4>1. id \in T <=> r.notify
        BY <1>7, <2>7, <2>11
      <4> QED
        BY <2>1, <2>10, <4>1
    <3>3. Stream(p, NoRelay, V, D, e, g.exited, g.nextId, id)
      BY <1>1, <2>4, <2>6, <2>8, <3>1, <3>2, StreamGuestRetires
    <3> QED
      BY <1>10, <2>7, <2>10, <2>11, <3>3 DEF Carried
  <2>12. CASE id \notin gone
    <3>1. id \notin T
      BY <1>4, <2>12
    <3>2. Keys(V, id) = Keys(U, id) /\ SameEnds(e, e, id)
      BY <2>1, <2>10, <3>1 DEF SameEnds
    <3>3. DownSound(r, D, id)
      BY <2>8 DEF Stream, DownWhole
    <3>4. Stream(p, r, V, D, e, g.exited, g.nextId, id)
      BY <2>8, <3>2, <3>3, StreamSame
    <3> QED
      BY <1>10, <2>7, <2>10, <2>12, <3>4 DEF Carried
  <2> QED
    BY <2>11, <2>12
<1>17. Kept(h, k, up, dn, e)
  <2>1. StreamsHeld(h, k, up, dn, e)
    BY <1>16 DEF StreamsHeld
  <2> QED
    BY <1>0, <1>12, <1>13, <1>14, <2>1 DEF Kept
<1>19. CASE (k.eof \/ k.exited) /\ idle
  <2> DEFINE m == [EmptyGuest("ok", k.program) EXCEPT !.exited = k.exited]
  <2>1. Kept(h, m, up, dn, e) /\ GuestSettled(m)
    BY <1>1, <1>17, GuestEndKeeps DEF Kept, Shaped
  <2>2. GuestPass(g) = m
    BY <1>18, <1>19
  <2> HIDE DEF m
  <2> QED
    BY <2>1, <2>2
<1>20. CASE ~((k.eof \/ k.exited) /\ idle)
  <2>1. GuestPass(g) = k
    BY <1>18, <1>20
  <2> QED
    BY <1>15, <1>17, <2>1
<1> QED
  BY <1>19, <1>20

-----------------------------------------------------------------------------
(* What the host pump does with the way up.                                  *)

\* Another peer takes the place of one.
PutPeer(h, id, q) == [h EXCEPT !.peers = [h.peers EXCEPT ![id] = q]]

\* A connection of the host is replaced, and nothing else.
LEMMA HostPut ==
  ASSUME NEW h \in HostSet, NEW id \in Streams, NEW q \in HostPeers \cup {NoRelay}
  PROVE  LET k == PutPeer(h, id, q)
         IN  /\ k \in HostSet /\ k.status = h.status /\ k.in = h.in /\ k.out = h.out /\ k.eof = h.eof
             /\ k.age = h.age /\ k.peers[id] = q
             /\ \A j \in Streams : j # id => k.peers[j] = h.peers[j]
<1> DEFINE ps == [h.peers EXCEPT ![id] = q]
           k == PutPeer(h, id, q)
<1>1. h.peers \in [Streams -> HostPeers \cup {NoRelay}]
  BY HostOf
<1>2. /\ ps \in [Streams -> HostPeers \cup {NoRelay}] /\ ps[id] = q
      /\ \A j \in Streams : j # id => ps[j] = h.peers[j]
  BY <1>1
<1>3. k = [h EXCEPT !.peers = ps]
  BY DEF PutPeer
<1> HIDE DEF ps, k
<1>4. /\ k.status = h.status /\ k.in = h.in /\ k.out = h.out /\ k.eof = h.eof
      /\ k.age = h.age /\ k.peers = ps
  BY <1>3 DEF HostSet
<1>5. k \in HostSet
  BY <1>2, <1>3 DEF HostSet
<1> QED
  BY <1>2, <1>4, <1>5 DEF k

\* A frame of another stream leaves the way up.
LEMMA OtherTaken ==
  ASSUME NEW h, NEW g, NEW U, NEW D, NEW e, NEW id \in Streams, Carried(h, g, U, D, e, id),
         NEW f \in Parcel, NEW V \in Seq(Parcel), U = <<f>> \o V, f.id # id,
         h.peers[id] \in HostPeers \cup {NoRelay}, NEW m, m.peers[id] = h.peers[id]
  PROVE  Carried(m, g, V, D, e, id)
<1> DEFINE p == h.peers[id]
<1>1. p \in HostPeers \cup {NoRelay} /\ UpSound(p, <<f>> \o V, id)
  BY DEF Carried
<1> HIDE DEF p
<1>2. /\ UpSound(p, V, id)
      /\ Keys(<<f>> \o V, id) = Keys(V, id) \cup (IF f.id = id THEN {Key(f)} ELSE {})
      /\ f.id = id => /\ \A k \in Keys(V, id) : Key(f) < k
                      /\ \A k \in Keys(HostQueue(p, id), id) : k < Key(f)
                      /\ p # NoRelay => f.kind # "OPEN" /\ ~p.closed
  BY <1>1, UpTake, Zenon
<1>3. Keys(V, id) = Keys(U, id)
  BY <1>2
<1>4. g.status = "run" => Stream(p, g.peers[id], U, D, e, g.exited, g.nextId, id)
  BY DEF Carried, p
<1>5. g.status = "run" => DownSound(g.peers[id], D, id)
  BY <1>4 DEF Stream, DownWhole
<1>6. SameEnds(e, e, id)
  BY DEF SameEnds
<1>7. g.status = "run" => Stream(p, g.peers[id], V, D, e, g.exited, g.nextId, id)
  BY <1>3, <1>4, <1>5, <1>6, StreamSame
<1> QED
  BY <1>2, <1>7 DEF Carried, p

\* A frame of a stream leaves the way up: what is known of it.
LEMMA FirstOf ==
  ASSUME NEW p \in HostPeers \cup {NoRelay}, NEW f \in Parcel, NEW V \in Seq(Parcel), NEW U, U = <<f>> \o V,
         UpSound(p, U, f.id)
  PROVE  /\ UpSound(p, <<f>> \o V, f.id) /\ UpSound(p, V, f.id)
         /\ Keys(U, f.id) = Keys(V, f.id) \cup {Key(f)}
         /\ \A x \in Keys(V, f.id) : Key(f) < x
         /\ 0 \notin Keys(V, f.id)
         /\ p # NoRelay => f.kind # "OPEN" /\ ~p.closed
<1> DEFINE id == f.id
<1>1. UpSound(p, <<f>> \o V, id) /\ id \in Streams
  BY KeyOf
<1>2. /\ UpSound(p, V, id)
      /\ Keys(<<f>> \o V, id) = Keys(V, id) \cup (IF f.id = id THEN {Key(f)} ELSE {})
      /\ f.id = id => /\ \A k \in Keys(V, id) : Key(f) < k
                      /\ \A k \in Keys(HostQueue(p, id), id) : k < Key(f)
                      /\ p # NoRelay => f.kind # "OPEN" /\ ~p.closed
  BY <1>1, UpTake, Zenon
<1>3. Key(f) \in 0 .. Last
  BY KeyOf
<1>4. 0 \notin Keys(V, id)
  BY <1>2, <1>3, StreamFacts
<1> QED
  BY <1>1, <1>2, <1>4

\* The header of the next frame is read; an OPEN makes a connection, waits for its
\* rejection, or would be a duplicate, which never comes.
LEMMA HeaderKeeps ==
  ASSUME NEW h, NEW g, NEW up, NEW dn, NEW e, Kept(h, g, up, dn, e), h.status = "run",
         ~h.eof, h.in = NoRelay, up # <<>>, NEW res \in ConnectResults
  PROVE  LET k == ReadHeader(h, Head(up), res)
         IN  Kept(k, g, Tail(up), dn, e) /\ k.status = "run"
<1> DEFINE f == Head(up)
           t == Tail(up)
           k == ReadHeader(h, f, res)
           U == UpOf(h, g, up)
           V == Way(NoRelay, t, Frames(g.out))
           D == DownOf(h, g, dn)
           p == h.peers[f.id]
           w == k.peers[f.id]
<1>0. Shaped(h, g, up, dn, e) /\ HostHeld(h) /\ GuestHeld(g) /\ StreamsHeld(h, g, up, dn, e) /\ Ended(h, g, up)
  BY DEF Kept
<1>1. /\ h \in HostSet /\ g \in GuestSet /\ up \in Seq(Parcel) /\ dn \in Seq(Parcel) /\ e \in EndsSet
      /\ Frames(h.out) \in Seq(Parcel) /\ Frames(g.out) \in Seq(Parcel)
      /\ UpOf(h, g, up) \in Seq(Parcel) /\ DownOf(h, g, dn) \in Seq(Parcel)
  BY <1>0, ShapedOf
<1>2. /\ f \in Parcel /\ t \in Seq(Parcel) /\ U = <<f>> \o V /\ U = Way(f, t, Frames(g.out))
      /\ V \in Seq(Parcel)
  <2>1. NoRelay \in Parcel \cup {NoRelay}
    OBVIOUS
  <2>2. f \in Parcel /\ t \in Seq(Parcel)
    BY <1>1, SplitHead
  <2>3. U = Way(NoRelay, up, Frames(g.out))
    BY DEF UpOf
  <2>4. /\ Way(NoRelay, up, Frames(g.out)) = <<f>> \o V
        /\ Way(NoRelay, up, Frames(g.out)) = Way(f, t, Frames(g.out))
    BY <1>1, WayReads
  <2>5. V \in Seq(Parcel)
    BY <1>1, <2>1, <2>2, WayOf
  <2> QED
    BY <2>2, <2>3, <2>4, <2>5
<1>3. /\ f.id \in Streams /\ f.kind \in {"OPEN", "DATA", "CLOSE"} /\ Key(f) \in 0 .. Last
      /\ Key(f) = 0 <=> f.kind = "OPEN"
      /\ Key(f) = Last <=> f.kind = "CLOSE"
  BY <1>2, KeyOf
<1>4. \A id \in Streams : h.peers[id] \in HostPeers \cup {NoRelay} /\ Carried(h, g, U, D, e, id)
  BY <1>0, <1>1, HostOf DEF StreamsHeld
<1>5. p \in HostPeers \cup {NoRelay}
  BY <1>3, <1>4
<1>15. g.nextId \in Nat /\ \A id \in Streams : g.peers[id] \in GuestPeers \cup {NoRelay}
  BY <1>1, GuestOf
<1>16. h.in = NoRelay /\ h.status = "run"
  OBVIOUS
<1> HIDE DEF f, t, U, V, D
<1>6. /\ UpSound(p, <<f>> \o V, f.id) /\ UpSound(p, V, f.id)
      /\ Keys(U, f.id) = Keys(V, f.id) \cup {Key(f)}
      /\ \A x \in Keys(V, f.id) : Key(f) < x
      /\ 0 \notin Keys(V, f.id)
      /\ p # NoRelay => f.kind # "OPEN" /\ ~p.closed
  <2>1. UpSound(p, U, f.id)
    BY <1>3, <1>4 DEF Carried
  <2> HIDE DEF p
  <2> QED
    BY <1>2, <1>5, <2>1, FirstOf, Zenon
<1>7. U \in Seq(Parcel) /\ D \in Seq(Parcel)
  BY <1>1 DEF U, D
\* The frame stays in hand.
<1>8. CASE k = [h EXCEPT !.in = f] /\ f.kind \in {"OPEN", "DATA"}
  <2>1. /\ k.status = "run" /\ k.in = f /\ k.peers = h.peers /\ k.out = h.out /\ k.eof = h.eof
        /\ k.age = h.age /\ k \in HostSet
    BY <1>1, <1>2, <1>8 DEF HostSet
  <2> HIDE DEF k
  <2>2. Shaped(k, g, t, dn, e)
    BY <1>0, <1>2, <1>8, <2>1 DEF Shaped
  <2>3. HostHeld(k) /\ Ended(k, g, t)
    BY <1>0, <2>1 DEF HostHeld, Ended
  <2>4. UpOf(k, g, t) = U /\ DownOf(k, g, dn) = D
    BY <1>2, <2>1 DEF UpOf, DownOf, D
  <2>5. \A id \in Streams : Carried(k, g, U, D, e, id)
    BY <1>4, <2>1 DEF Carried
  <2>6. StreamsHeld(k, g, t, dn, e)
    BY <2>4, <2>5 DEF StreamsHeld
  <2> QED
    BY <1>0, <2>1, <2>2, <2>3, <2>6 DEF Kept, k, f, t
\* The frame is done with; at most its own peer changes.
<1>9. ASSUME k \in HostSet, k.status = "run", k.in = NoRelay, k.out = h.out, k.eof = h.eof, k.age = h.age,
             \A id \in Streams : id # f.id => k.peers[id] = h.peers[id],
             Carried(k, g, V, D, e, f.id), HostHeld(k)
      PROVE  Kept(k, g, t, dn, e)
  <2> HIDE DEF k
  <2>1. Shaped(k, g, t, dn, e)
    BY <1>0, <1>2, <1>9 DEF Shaped
  <2>2. Ended(k, g, t)
    BY <1>0, <1>9 DEF Ended
  <2>3. UpOf(k, g, t) = V /\ DownOf(k, g, dn) = D
    BY <1>9 DEF UpOf, DownOf, V, D
  <2>4. ASSUME NEW id \in Streams PROVE Carried(k, g, V, D, e, id)
    <3>1. CASE id = f.id
      BY <1>9, <3>1
    <3>2. CASE id # f.id
      BY <1>2, <1>4, <1>9, <3>2, OtherTaken
    <3> QED
      BY <3>1, <3>2
  <2>5. StreamsHeld(k, g, t, dn, e)
    BY <2>3, <2>4 DEF StreamsHeld
  <2> QED
    BY <1>0, <1>9, <2>1, <2>2, <2>5 DEF Kept
<1>10. CASE f.kind = "OPEN" /\ ~(Cardinality(Live(h.peers)) < PeerLimit /\ res # "fail")
  <2>1. k = [h EXCEPT !.in = Frame("OPEN", f.id, 0)]
    BY <1>6, <1>10 DEF ReadHeader, Opened
  <2>2. Frame("OPEN", f.id, 0) = f
    <3>1. f.n = 0 /\ f \in [kind : {"OPEN", "DATA", "CLOSE"}, id : Streams, n : 0 .. MaxData]
      BY <1>2, <1>10 DEF Parcel
    <3> QED
      BY <1>10, <3>1 DEF Frame
  <2> QED
    BY <1>8, <1>10, <2>1, <2>2
<1>11. CASE f.kind = "OPEN" /\ Cardinality(Live(h.peers)) < PeerLimit /\ res # "fail"
  <2> DEFINE q == HostPeer(res)
  <2>1. p = NoRelay /\ k = [h EXCEPT !.peers[f.id] = q]
    BY <1>6, <1>11 DEF ReadHeader, Opened
  <2>2. q \in HostPeers /\ q.queue = <<>> /\ ~q.closed /\ q.opened = 0 /\ q # NoRelay
    <3>1. res \in {"open", "connecting", "retry"}
      BY <1>11 DEF ConnectResults
    <3>2. q \in HostPeers
      BY <3>1 DEF HostPeer, HostPeers
    <3> QED
      BY <3>2, StreamFacts DEF HostPeer
  <2> HIDE DEF q
  <2>3. /\ k.status = "run" /\ k.in = NoRelay /\ k.out = h.out /\ k.eof = h.eof /\ k.age = h.age
        /\ k \in HostSet /\ w = q
        /\ \A id \in Streams : id # f.id => k.peers[id] = h.peers[id]
    <3>1. k = [h EXCEPT !.peers = [h.peers EXCEPT ![f.id] = q]]
      BY <2>1
    <3> HIDE DEF k
    <3> QED
      <4>1. /\ k \in HostSet /\ k.status = h.status /\ k.in = h.in /\ k.out = h.out /\ k.eof = h.eof
            /\ k.age = h.age /\ k.peers[f.id] = q
            /\ \A j \in Streams : j # f.id => k.peers[j] = h.peers[j]
        <5>1. h \in HostSet /\ f.id \in Streams /\ q \in HostPeers \cup {NoRelay}
          BY <1>1, <1>3, <2>2
        <5>2. k = PutPeer(h, f.id, q)
          BY <3>1 DEF PutPeer
        <5> QED
          BY <5>1, <5>2, HostPut
      <4> QED
        BY <1>16, <4>1
  <2> HIDE DEF k, w, p
  <2>4. HostHeld(k)
    <3>1. Live(k.peers) = Live(h.peers) \cup {f.id} /\ f.id \notin Live(h.peers)
      BY <1>3, <2>1, <2>2, <2>3 DEF Live, w, p
    <3>2. Cardinality(Live(k.peers)) = Cardinality(Live(h.peers)) + 1
      BY <3>1, LiveOf, FS_AddElement
    <3>3. Cardinality(Live(k.peers)) <= PeerLimit
      BY <1>11, <3>2, LiveOf, StreamFacts
    <3>4. Used(Frames(k.out)) <= OutLimit /\ Ageing(k.out) /\ (k.in = NoRelay => k.age = 0) /\ k.age <= 1
      BY <1>0, <2>3 DEF HostHeld
    <3>5. ASSUME NEW id \in Live(k.peers)
          PROVE  Len(k.peers[id].queue) <= QueueLimit /\ Ageing(k.peers[id].queue) /\ k.peers[id].opened <= 1
      <4>1. CASE id = f.id
        <5>1. k.peers[id] = q
          BY <2>3, <4>1 DEF w
        <5>2. Len(q.queue) = 0
          BY <2>2
        <5> QED
          BY <2>2, <5>1, <5>2, AgeNone, StreamFacts
      <4>2. CASE id # f.id
        BY <1>0, <2>3, <3>1, <4>2 DEF HostHeld, Live
      <4> QED
        BY <4>1, <4>2
    <3> QED
      BY <3>3, <3>4, <3>5 DEF HostHeld
  <2>5. UpSound(NoRelay, <<f>> \o V, f.id)
    BY <1>6, <2>1
  <2>6. UpSound(q, V, f.id)
    BY <1>2, <1>3, <1>11, <2>2, <2>5, UpOpened, Zenon
  <2>7. g.status = "run" => Stream(q, g.peers[f.id], V, D, e, g.exited, g.nextId, f.id)
    <3> SUFFICES ASSUME g.status = "run" PROVE Stream(q, g.peers[f.id], V, D, e, g.exited, g.nextId, f.id)
      OBVIOUS
    <3>1. Stream(NoRelay, g.peers[f.id], U, D, e, g.exited, g.nextId, f.id)
      BY <1>3, <1>4, <2>1 DEF Carried, p
    <3>2. Keys(U, f.id) = Keys(V, f.id) \cup {0} /\ 0 \notin Keys(V, f.id)
      BY <1>3, <1>6, <1>11
    <3>3. g.peers[f.id] \in GuestPeers \cup {NoRelay}
      BY <1>3, <1>15
    <3> QED
      BY <1>1, <1>2, <1>3, <1>7, <1>15, <2>2, <3>1, <3>2, <3>3, StreamHostOpens
  <2>8. Carried(k, g, V, D, e, f.id)
    BY <2>3, <2>6, <2>7 DEF Carried, w
  <2> QED
    BY <1>9, <2>3, <2>4, <2>8 DEF k, f, t
<1>12. CASE f.kind = "CLOSE" /\ p = NoRelay
  <2>1. k = h
    BY <1>12 DEF ReadHeader
  <2>2. Carried(h, g, V, D, e, f.id)
    <3>1. CASE g.status # "run"
      BY <1>6, <3>1 DEF Carried
    <3>2. CASE g.status = "run"
      <4>1. Stream(NoRelay, g.peers[f.id], U, D, e, g.exited, g.nextId, f.id)
        BY <1>3, <1>4, <1>12, <3>2 DEF Carried
      <4>2. Key(f) \in 1 .. Last
        BY <1>3, <1>12, StreamFacts
      <4>3. g.peers[f.id] \in GuestPeers \cup {NoRelay}
        BY <1>3, <1>15
      <4>4. Stream(NoRelay, g.peers[f.id], V, D, e, g.exited, g.nextId, f.id)
        BY <1>1, <1>2, <1>3, <1>6, <1>7, <1>15, <4>1, <4>2, <4>3, StreamHostDrops
      <4> QED
        BY <1>6, <1>12, <4>4 DEF Carried
    <3> QED
      BY <3>1, <3>2
  <2>3. Kept(k, g, t, dn, e)
    BY <1>0, <1>1, <1>9, <2>1, <2>2
  <2> QED
    BY <2>1, <2>3 DEF k, f, t
<1>13. CASE f.kind = "CLOSE" /\ p # NoRelay
  <2> DEFINE q == [p EXCEPT !.closed = TRUE]
  <2>1. k = [h EXCEPT !.peers[f.id].closed = TRUE]
    BY <1>13 DEF ReadHeader
  <2>2. p \in HostPeers /\ ~p.closed
    BY <1>5, <1>6, <1>13
  <2>3. q \in HostPeers /\ q.queue = p.queue /\ q.closed /\ q.opened = p.opened /\ q # NoRelay
    <3>1. q \in HostPeers /\ q.queue = p.queue /\ q.closed /\ q.opened = p.opened
      BY <2>2 DEF HostPeers
    <3> QED
      BY <3>1, StreamFacts
  <2>9. k = [h EXCEPT !.peers = [h.peers EXCEPT ![f.id] = q]]
    BY <1>1, <2>1 DEF HostSet
  <2> HIDE DEF q, p
  <2>4. /\ k.status = "run" /\ k.in = NoRelay /\ k.out = h.out /\ k.eof = h.eof /\ k.age = h.age
        /\ k \in HostSet /\ w = q
        /\ \A id \in Streams : id # f.id => k.peers[id] = h.peers[id]
    <3> HIDE DEF k
    <3> QED
      <4>1. /\ k \in HostSet /\ k.status = h.status /\ k.in = h.in /\ k.out = h.out /\ k.eof = h.eof
            /\ k.age = h.age /\ k.peers[f.id] = q
            /\ \A j \in Streams : j # f.id => k.peers[j] = h.peers[j]
        <5>1. h \in HostSet /\ f.id \in Streams /\ q \in HostPeers \cup {NoRelay}
          BY <1>1, <1>3, <2>3
        <5>2. k = PutPeer(h, f.id, q)
          BY <2>9 DEF PutPeer
        <5> QED
          BY <5>1, <5>2, HostPut
      <4> QED
        BY <1>16, <4>1
  <2> HIDE DEF k, w
  <2>5. HostHeld(k)
    <3>1. Live(k.peers) = Live(h.peers) /\ f.id \in Live(h.peers)
      BY <1>3, <1>13, <2>3, <2>4 DEF Live, w, p
    <3>2. ASSUME NEW id \in Live(k.peers)
          PROVE  Len(k.peers[id].queue) <= QueueLimit /\ Ageing(k.peers[id].queue) /\ k.peers[id].opened <= 1
      <4>1. k.peers[id].queue = h.peers[id].queue /\ k.peers[id].opened = h.peers[id].opened
        BY <2>3, <2>4 DEF w, p, Live
      <4> QED
        BY <1>0, <3>1, <4>1 DEF HostHeld
    <3> QED
      BY <1>0, <2>4, <3>1, <3>2 DEF HostHeld
  <2>6. Keys(V, f.id) = {}
    <3>1. Keys(V, f.id) \subseteq 0 .. Last
      BY <1>2, KeysBound
    <3> QED
      BY <1>3, <1>6, <1>13, <3>1, StreamFacts
  <2>7. UpSound(q, V, f.id) /\ HostQueue(q, f.id) = HostQueue(p, f.id)
    BY <1>2, <1>3, <1>6, <2>2, <2>3, <2>6, UpSame
  <2>8. g.status = "run" => Stream(q, g.peers[f.id], V, D, e, g.exited, g.nextId, f.id)
    <3> SUFFICES ASSUME g.status = "run" PROVE Stream(q, g.peers[f.id], V, D, e, g.exited, g.nextId, f.id)
      OBVIOUS
    <3>1. Stream(p, g.peers[f.id], U, D, e, g.exited, g.nextId, f.id)
      BY <1>3, <1>4 DEF Carried, p
    <3>2. Keys(U, f.id) = {Last}
      BY <1>3, <1>6, <1>13, <2>6
    <3>3. g.peers[f.id] \in GuestPeers \cup {NoRelay}
      BY <1>3, <1>15
    <3> QED
      BY <1>1, <1>2, <1>3, <1>7, <1>15, <2>2, <2>3, <2>6, <2>7, <3>1, <3>2, <3>3, StreamHostCloses
  <2>10. Carried(k, g, V, D, e, f.id)
    BY <2>4, <2>7, <2>8 DEF Carried, w
  <2> QED
    BY <1>9, <2>4, <2>5, <2>10 DEF k, f, t
<1>14. CASE f.kind = "DATA"
  <2>1. k = [h EXCEPT !.in = f]
    BY <1>14 DEF ReadHeader
  <2> QED
    BY <1>8, <1>14, <2>1
<1> QED
  BY <1>3, <1>10, <1>11, <1>12, <1>13, <1>14

\* A peer is replaced by another one that stays within the limits.
LEMMA HostPutHeld ==
  ASSUME NEW h \in HostSet, NEW id \in Streams, NEW q \in HostPeers, HostHeld(h), h.peers[id] # NoRelay,
         Len(q.queue) <= QueueLimit, Ageing(q.queue), q.opened <= 1
  PROVE  HostHeld(PutPeer(h, id, q))
<1> DEFINE k == PutPeer(h, id, q)
<1>1. q \in HostPeers \cup {NoRelay} /\ q # NoRelay
  BY StreamFacts
<1>2. /\ k.in = h.in /\ k.out = h.out /\ k.age = h.age /\ k.peers[id] = q
      /\ \A j \in Streams : j # id => k.peers[j] = h.peers[j]
  BY <1>1, HostPut
<1> HIDE DEF k
<1>3. Live(k.peers) = Live(h.peers)
  BY <1>1, <1>2 DEF Live
<1>4. ASSUME NEW j \in Live(k.peers)
      PROVE  Len(k.peers[j].queue) <= QueueLimit /\ Ageing(k.peers[j].queue) /\ k.peers[j].opened <= 1
  <2>1. CASE j = id
    BY <1>2, <2>1
  <2>2. CASE j # id
    <3>1. k.peers[j] = h.peers[j] /\ j \in Live(h.peers)
      BY <1>2, <1>3, <2>2 DEF Live
    <3> QED
      BY <3>1 DEF HostHeld
  <2> QED
    BY <2>1, <2>2
<1> QED
  BY <1>2, <1>3, <1>4 DEF HostHeld, k

\* A connection of the host is replaced by one that fits its stream.
LEMMA HostPutKeeps ==
  ASSUME NEW h, NEW g, NEW up, NEW dn, NEW e, Kept(h, g, up, dn, e), h.status = "run",
         NEW id \in Streams, NEW q \in HostPeers, h.peers[id] # NoRelay,
         Len(q.queue) <= QueueLimit, Ageing(q.queue), q.opened <= 1,
         NEW x \in EndsSet, \A j \in Streams : j # id => SameEnds(e, x, j),
         UpSound(q, UpOf(h, g, up), id),
         g.status = "run" => Stream(q, g.peers[id], UpOf(h, g, up), DownOf(h, g, dn), x, g.exited, g.nextId, id)
  PROVE  Kept(PutPeer(h, id, q), g, up, dn, x) /\ PutPeer(h, id, q).status = "run"
<1> DEFINE k == PutPeer(h, id, q)
           U == UpOf(h, g, up)
           D == DownOf(h, g, dn)
<1>0. Shaped(h, g, up, dn, e) /\ HostHeld(h) /\ GuestHeld(g) /\ StreamsHeld(h, g, up, dn, e) /\ Ended(h, g, up)
  BY DEF Kept
<1>1. h \in HostSet
  BY <1>0, ShapedOf
<1>2. q \in HostPeers \cup {NoRelay} /\ q # NoRelay
  BY StreamFacts
<1>3. /\ k \in HostSet /\ k.status = h.status /\ k.in = h.in /\ k.out = h.out /\ k.eof = h.eof
      /\ k.age = h.age /\ k.peers[id] = q
      /\ \A j \in Streams : j # id => k.peers[j] = h.peers[j]
  BY <1>1, <1>2, HostPut
<1>4. HostHeld(k)
  BY <1>0, <1>1, HostPutHeld
<1> HIDE DEF k
<1>5. Shaped(k, g, up, dn, x)
  BY <1>0, <1>3 DEF Shaped
<1>6. k.status = "run" /\ Ended(k, g, up)
  BY <1>0, <1>3 DEF Ended
<1>7. UpOf(k, g, up) = U /\ DownOf(k, g, dn) = D
  BY <1>3 DEF UpOf, DownOf
<1>8. ASSUME NEW j \in Streams PROVE Carried(k, g, U, D, x, j)
  <2>1. CASE j = id
    BY <1>3, <2>1 DEF Carried
  <2>2. CASE j # id
    <3> HIDE DEF U, D
    <3>1. Carried(h, g, U, D, e, j) /\ SameEnds(e, x, j)
      BY <1>0, <2>2 DEF StreamsHeld, U, D
    <3>2. k.peers[j] = h.peers[j]
      BY <1>3, <2>2
    <3>3. UpSound(k.peers[j], U, j)
      BY <3>1, <3>2 DEF Carried
    <3>4. g.status = "run" => DownSound(g.peers[j], D, j)
      BY <3>1 DEF Carried, Stream, DownWhole
    <3> QED
      BY <3>1, <3>2, <3>3, <3>4, CarriedSame
  <2> QED
    BY <2>1, <2>2
<1>9. StreamsHeld(k, g, up, dn, x)
  BY <1>7, <1>8 DEF StreamsHeld
<1> QED
  BY <1>0, <1>4, <1>5, <1>6, <1>9 DEF Kept, k

\* A payload is dropped when its connection is gone, and queued when it is open: one that
\* is closed gets none.
LEMMA PayloadKeeps ==
  ASSUME NEW h, NEW g, NEW up, NEW dn, NEW e, Kept(h, g, up, dn, e), h.status = "run",
         h.in # NoRelay, h.in.kind = "DATA"
  PROVE  LET f == h.in
             p == h.peers[f.id]
             m == [h EXCEPT !.in = NoRelay, !.age = 0]
             q == [p EXCEPT !.queue = Append(p.queue, [n |-> f.n, age |-> 0])]
         IN  /\ p = NoRelay => Kept(m, g, up, dn, e) /\ m.status = "run"
             /\ p # NoRelay => /\ ~p.closed
                               /\ Len(p.queue) < QueueLimit =>
                                    Kept(PutPeer(m, f.id, q), g, up, dn, e) /\ PutPeer(m, f.id, q).status = "run"
<1> DEFINE f == h.in
           p == h.peers[f.id]
           m == [h EXCEPT !.in = NoRelay, !.age = 0]
           c == [n |-> f.n, age |-> 0]
           q == [p EXCEPT !.queue = Append(p.queue, c)]
           U == UpOf(h, g, up)
           V == Way(NoRelay, up, Frames(g.out))
           D == DownOf(h, g, dn)
<1>0. Shaped(h, g, up, dn, e) /\ HostHeld(h) /\ GuestHeld(g) /\ StreamsHeld(h, g, up, dn, e) /\ Ended(h, g, up)
  BY DEF Kept
<1>1. /\ h \in HostSet /\ g \in GuestSet /\ up \in Seq(Parcel) /\ dn \in Seq(Parcel) /\ e \in EndsSet
      /\ Frames(h.out) \in Seq(Parcel) /\ Frames(g.out) \in Seq(Parcel)
      /\ UpOf(h, g, up) \in Seq(Parcel) /\ DownOf(h, g, dn) \in Seq(Parcel)
  BY <1>0, ShapedOf
<1>2. f \in Parcel /\ U = <<f>> \o V /\ V \in Seq(Parcel)
  <2>1. f \in Parcel /\ NoRelay \in Parcel \cup {NoRelay}
    BY <1>1, HostOf
  <2>2. Way(f, up, Frames(g.out)) = <<f>> \o V
    BY <1>1, <2>1, WayHand
  <2>3. V \in Seq(Parcel)
    BY <1>1, <2>1, WayOf
  <2> QED
    BY <2>1, <2>2, <2>3 DEF UpOf
<1>3. f.id \in Streams /\ Key(f) = f.n /\ f.n \in 1 .. MaxData /\ f.kind = "DATA"
  BY <1>2, KeyOf
<1>4. \A id \in Streams : h.peers[id] \in HostPeers \cup {NoRelay} /\ Carried(h, g, U, D, e, id)
  BY <1>0, <1>1, HostOf DEF StreamsHeld
<1>5. p \in HostPeers \cup {NoRelay} /\ UpSound(p, U, f.id)
  BY <1>3, <1>4 DEF Carried
<1>6. g.nextId \in Nat /\ \A id \in Streams : g.peers[id] \in GuestPeers \cup {NoRelay}
  BY <1>1, GuestOf
<1>7. /\ m \in HostSet /\ m.status = "run" /\ m.in = NoRelay /\ m.age = 0 /\ m.out = h.out /\ m.eof = h.eof
      /\ m.peers = h.peers
  BY <1>1 DEF HostSet
<1>8. HostHeld(m)
  BY <1>0, <1>7 DEF HostHeld
<1>9. f # NoRelay
  OBVIOUS
<1>17. UpOf(h, g, up) = U /\ DownOf(h, g, dn) = D /\ h.peers[f.id] = p
  OBVIOUS
<1> HIDE DEF f, m, U, V, D, p
<1>10. /\ UpSound(p, <<f>> \o V, f.id) /\ UpSound(p, V, f.id)
       /\ Keys(U, f.id) = Keys(V, f.id) \cup {Key(f)}
       /\ \A x \in Keys(V, f.id) : Key(f) < x
       /\ 0 \notin Keys(V, f.id)
       /\ p # NoRelay => f.kind # "OPEN" /\ ~p.closed
  BY <1>2, <1>5, FirstOf, Zenon
<1>11. U \in Seq(Parcel) /\ D \in Seq(Parcel)
  BY <1>1 DEF U, D
\* The frame is done with; at most its own peer changes.
<1>12. ASSUME NEW k \in HostSet, k.status = "run", k.in = NoRelay, k.out = h.out, k.eof = h.eof,
              \A id \in Streams : id # f.id => k.peers[id] = h.peers[id],
              Carried(k, g, V, D, e, f.id), HostHeld(k)
       PROVE  Kept(k, g, up, dn, e)
  <2>1. Shaped(k, g, up, dn, e)
    BY <1>0, <1>12 DEF Shaped
  <2>2. Ended(k, g, up)
    BY <1>0, <1>9, <1>12 DEF Ended, f
  <2>3. UpOf(k, g, up) = V /\ DownOf(k, g, dn) = D
    BY <1>12 DEF UpOf, DownOf, V, D
  <2>4. ASSUME NEW id \in Streams PROVE Carried(k, g, V, D, e, id)
    <3>1. CASE id = f.id
      BY <1>12, <3>1
    <3>2. CASE id # f.id
      BY <1>2, <1>4, <1>12, <3>2, OtherTaken
    <3> QED
      BY <3>1, <3>2
  <2>5. StreamsHeld(k, g, up, dn, e)
    BY <2>3, <2>4 DEF StreamsHeld
  <2> QED
    BY <1>0, <1>12, <2>1, <2>2, <2>5 DEF Kept
<1>13. CASE p = NoRelay
  <2>1. g.status = "run" => Stream(NoRelay, g.peers[f.id], V, D, e, g.exited, g.nextId, f.id)
    <3> SUFFICES ASSUME g.status = "run" PROVE Stream(NoRelay, g.peers[f.id], V, D, e, g.exited, g.nextId, f.id)
      OBVIOUS
    <3>1. Stream(NoRelay, g.peers[f.id], U, D, e, g.exited, g.nextId, f.id)
      BY <1>3, <1>4, <1>13, <1>17 DEF Carried
    <3>2. Key(f) \in 1 .. Last
      BY <1>3, StreamFacts
    <3>3. g.peers[f.id] \in GuestPeers \cup {NoRelay}
      BY <1>3, <1>6
    <3> QED
      BY <1>1, <1>2, <1>3, <1>6, <1>10, <1>11, <3>1, <3>2, <3>3, StreamHostDrops
  <2>2. m.peers[f.id] = NoRelay
    BY <1>7, <1>13, <1>17
  <2>3. Carried(m, g, V, D, e, f.id)
    BY <1>10, <1>13, <2>1, <2>2 DEF Carried
  <2>4. Kept(m, g, up, dn, e)
    BY <1>7, <1>8, <1>12, <2>3
  <2> QED
    BY <1>7, <1>13, <2>4 DEF m, p, f
<1>14. CASE p # NoRelay /\ Len(p.queue) < QueueLimit
  <2> DEFINE k == PutPeer(m, f.id, q)
  <2>1. p \in HostPeers /\ p.queue \in Seq(Chunk) /\ c \in Chunk /\ c.n = f.n /\ c.age = 0 /\ ~p.closed
        /\ p.opened \in Nat
    BY <1>3, <1>5, <1>10, <1>14, HostPeerOf DEF Chunk
  <2> HIDE DEF c
  <2>2. q \in HostPeers /\ q.queue = Append(p.queue, c) /\ q.closed = p.closed /\ q.opened = p.opened
    <3> DEFINE a == Append(p.queue, c)
    <3>1. a \in Seq(Chunk)
      BY <2>1
    <3>2. q = [p EXCEPT !.queue = a]
      OBVIOUS
    <3> HIDE DEF a, q
    <3>3. q \in HostPeers /\ q.queue = a /\ q.closed = p.closed /\ q.opened = p.opened
      BY <2>1, <3>1, <3>2 DEF HostPeers, Chunk
    <3> QED
      BY <3>3 DEF a
  <2> HIDE DEF q
  <2>3. Len(q.queue) <= QueueLimit /\ Ageing(q.queue) /\ q.opened <= 1
    <3>1. Ageing(p.queue) /\ p.opened <= 1
      <4>1. f.id \in Live(h.peers)
        BY <1>3, <1>14, <1>17 DEF Live
      <4> QED
        BY <1>0, <1>17, <4>1 DEF HostHeld
    <3>2. \A x \in Chunk : x.age \in Nat
      BY DEF Chunk
    <3>3. Ageing(Append(p.queue, c))
      BY <2>1, <3>1, <3>2, AgePush
    <3>4. Len(Append(p.queue, c)) = Len(p.queue) + 1 /\ Len(p.queue) \in Nat
      BY <2>1
    <3> QED
      BY <1>14, <2>2, <3>1, <3>3, <3>4, StreamFacts
  <2>4. /\ k \in HostSet /\ k.status = "run" /\ k.in = NoRelay /\ k.out = h.out /\ k.eof = h.eof
        /\ k.peers[f.id] = q
        /\ \A j \in Streams : j # f.id => k.peers[j] = h.peers[j]
    <3>1. q \in HostPeers \cup {NoRelay}
      BY <2>2
    <3>2. /\ k \in HostSet /\ k.status = m.status /\ k.in = m.in /\ k.out = m.out /\ k.eof = m.eof
          /\ k.age = m.age /\ k.peers[f.id] = q
          /\ \A j \in Streams : j # f.id => k.peers[j] = m.peers[j]
      BY <1>3, <1>7, <3>1, HostPut
    <3> QED
      BY <1>7, <3>2
  <2>5. HostHeld(k)
    <3>1. m.peers[f.id] # NoRelay
      BY <1>7, <1>14, <1>17
    <3> QED
      BY <1>3, <1>7, <1>8, <2>2, <2>3, <3>1, HostPutHeld
  <2>6. UpSound(q, V, f.id) /\ HostOn(q, V, f.id) = HostOn(p, U, f.id)
    <3> DEFINE i == f.id
    <3>1. /\ i \in Streams /\ f.id = i /\ ~q.closed /\ c.n = f.n /\ f.kind = "DATA" /\ U = <<f>> \o V
          /\ UpSound(p, U, i)
      BY <1>2, <1>3, <1>5, <2>1, <2>2
    <3> HIDE DEF i
    <3>2. UpSound(q, V, i) /\ HostOn(q, V, i) = HostOn(p, U, i)
      <4>1. p \in HostPeers
        BY <2>1
      <4>2. q \in HostPeers
        BY <2>2
      <4>3. V \in Seq(Parcel) /\ f \in Parcel /\ i \in Streams
        BY <1>2, <3>1
      <4>4. c \in Chunk /\ f.kind = "DATA" /\ f.id = i /\ c.n = f.n
        BY <2>1, <3>1
      <4>5. ~p.closed /\ U = <<f>> \o V /\ UpSound(p, U, i)
        BY <2>1, <3>1
      <4>6. q.queue = Append(p.queue, c) /\ ~q.closed
        BY <2>2, <3>1
      <4>7. QueuedUp(p, q, V, U, i)
        BY <4>1, <4>2, <4>3, <4>4, <4>5, <4>6, UpQueued
      <4> QED
        BY <4>7 DEF QueuedUp
    <3> QED
      BY <3>2 DEF i
  <2>8. g.status = "run" => Stream(q, g.peers[f.id], V, D, e, g.exited, g.nextId, f.id)
    <3> SUFFICES ASSUME g.status = "run" PROVE Stream(q, g.peers[f.id], V, D, e, g.exited, g.nextId, f.id)
      OBVIOUS
    <3>1. Stream(p, g.peers[f.id], U, D, e, g.exited, g.nextId, f.id)
      BY <1>3, <1>4, <1>17 DEF Carried
    <3>2. g.peers[f.id] \in GuestPeers \cup {NoRelay}
      BY <1>3, <1>6
    <3> QED
      BY <1>1, <1>2, <1>3, <1>6, <1>11, <2>1, <2>2, <2>6, <3>1, <3>2, StreamHostQueues
  <2> HIDE DEF k
  <2>9. Carried(k, g, V, D, e, f.id)
    BY <2>4, <2>6, <2>8 DEF Carried
  <2>10. Kept(k, g, up, dn, e)
    BY <1>12, <2>4, <2>5, <2>9
  <2> QED
    BY <1>10, <1>14, <2>4, <2>10 DEF k, q, c, m, p, f
<1>15. CASE p # NoRelay /\ ~(Len(p.queue) < QueueLimit)
  BY <1>10, <1>15 DEF p, f
<1> QED
  BY <1>13, <1>14, <1>15

\* One field of a peer, or its queue, changes.
LEMMA ConnectKeeps ==
  ASSUME NEW h, NEW g, NEW up, NEW dn, NEW e, Kept(h, g, up, dn, e), h.status = "run",
         NEW id \in Streams, h.peers[id] # NoRelay, NEW q \in HostPeers,
         q.queue = h.peers[id].queue, q.closed = h.peers[id].closed, q.opened = h.peers[id].opened
  PROVE  Kept(PutPeer(h, id, q), g, up, dn, e) /\ PutPeer(h, id, q).status = "run"
<1> DEFINE p == h.peers[id]
           U == UpOf(h, g, up)
           D == DownOf(h, g, dn)
           r == g.peers[id]
<1>0. Shaped(h, g, up, dn, e) /\ HostHeld(h) /\ StreamsHeld(h, g, up, dn, e)
  BY DEF Kept
<1>1. /\ h \in HostSet /\ g \in GuestSet /\ U \in Seq(Parcel) /\ D \in Seq(Parcel) /\ e \in EndsSet
  BY <1>0, ShapedOf
<1>2. p \in HostPeers /\ r \in GuestPeers \cup {NoRelay} /\ g.nextId \in Nat
  BY <1>1, HostOf, GuestOf
<1>3. Carried(h, g, U, D, e, id)
  BY <1>0 DEF StreamsHeld
<1>4. Len(p.queue) <= QueueLimit /\ Ageing(p.queue) /\ p.opened <= 1
  BY <1>0 DEF HostHeld, Live
<1>5. q.queue = p.queue /\ q.closed = p.closed /\ q.opened = p.opened
  OBVIOUS
<1>6. h.peers[id] = p /\ g.peers[id] = r /\ UpOf(h, g, up) = U /\ DownOf(h, g, dn) = D
  OBVIOUS
<1> HIDE DEF p, U, D, r
<1>7. UpSound(p, U, id)
  BY <1>3, <1>6 DEF Carried
<1>8. UpSound(q, U, id) /\ HostQueue(q, id) = HostQueue(p, id)
  BY <1>1, <1>2, <1>5, <1>7, UpSame
<1>9. HostOn(q, U, id) = HostOn(p, U, id)
  BY <1>8 DEF HostOn
<1>10. g.status = "run" => Stream(q, r, U, D, e, g.exited, g.nextId, id)
  <2>1. g.status = "run" => Stream(p, r, U, D, e, g.exited, g.nextId, id)
    BY <1>3, <1>6 DEF Carried
  <2> QED
    BY <1>1, <1>2, <1>5, <1>9, <2>1, StreamHostQueues
<1>11. \A j \in Streams : j # id => SameEnds(e, e, j)
  BY DEF SameEnds
<1> QED
  BY <1>1, <1>4, <1>5, <1>6, <1>8, <1>10, <1>11, HostPutKeeps

\* A chunk is written to the local peer.
LEMMA DeliverUpKeeps ==
  ASSUME NEW h, NEW g, NEW up, NEW dn, NEW e, Kept(h, g, up, dn, e), h.status = "run",
         NEW id \in Streams, h.peers[id] # NoRelay, h.peers[id].queue # <<>>
  PROVE  LET q == [h.peers[id] EXCEPT !.queue = Tail(h.peers[id].queue)]
             x == [e EXCEPT !.gotUp[id] = Head(h.peers[id].queue).n]
         IN  Kept(PutPeer(h, id, q), g, up, dn, x) /\ PutPeer(h, id, q).status = "run"
<1> DEFINE p == h.peers[id]
           U == UpOf(h, g, up)
           D == DownOf(h, g, dn)
           r == g.peers[id]
           n == Head(p.queue).n
           q == [p EXCEPT !.queue = Tail(p.queue)]
           x == [e EXCEPT !.gotUp[id] = n]
<1>0. Shaped(h, g, up, dn, e) /\ HostHeld(h) /\ StreamsHeld(h, g, up, dn, e)
  BY DEF Kept
<1>1. /\ h \in HostSet /\ g \in GuestSet /\ U \in Seq(Parcel) /\ D \in Seq(Parcel) /\ e \in EndsSet
  BY <1>0, ShapedOf
<1>2. p \in HostPeers /\ r \in GuestPeers \cup {NoRelay} /\ g.nextId \in Nat
  BY <1>1, HostOf, GuestOf
<1>3. Carried(h, g, U, D, e, id)
  BY <1>0 DEF StreamsHeld
<1>4. Len(p.queue) <= QueueLimit /\ Ageing(p.queue) /\ p.opened <= 1
  BY <1>0 DEF HostHeld, Live
<1>5. h.peers[id] = p /\ g.peers[id] = r /\ UpOf(h, g, up) = U /\ DownOf(h, g, dn) = D /\ p.queue # <<>>
  OBVIOUS
<1> HIDE DEF p, U, D, r
<1>6. UpSound(p, U, id)
  BY <1>3, <1>5 DEF Carried
<1>7. p.queue \in Seq(Chunk) /\ Tail(p.queue) \in Seq(Chunk) /\ Len(Tail(p.queue)) <= Len(p.queue)
      /\ Len(p.queue) \in Nat /\ Len(Tail(p.queue)) \in Nat /\ n \in 1 .. MaxData
  <2>1. p.queue \in Seq(Chunk)
    BY <1>2, HostPeerOf
  <2>2. Head(p.queue) \in Chunk /\ Tail(p.queue) \in Seq(Chunk)
    BY <1>5, <2>1, SplitHead
  <2>3. Len(Tail(p.queue)) = Len(p.queue) - 1 /\ Len(p.queue) \in Nat /\ Len(p.queue) # 0
    BY <1>5, <2>1
  <2> QED
    BY <2>1, <2>2, <2>3 DEF Chunk
<1>8. q \in HostPeers /\ q.queue = Tail(p.queue) /\ q.closed = p.closed /\ q.opened = p.opened
  <2> DEFINE a == Tail(p.queue)
  <2>1. q = [p EXCEPT !.queue = a] /\ a \in Seq(Chunk)
    BY <1>7
  <2> HIDE DEF a, q
  <2>2. q \in HostPeers /\ q.queue = a /\ q.closed = p.closed /\ q.opened = p.opened
    BY <1>2, <2>1 DEF HostPeers, Chunk
  <2> QED
    BY <2>2 DEF a
<1> HIDE DEF q
<1>9. UpSound(q, U, id)
  BY <1>1, <1>2, <1>5, <1>6, <1>8, UpDelivered
<1>10. HostOn(p, U, id) = HostOn(q, U, id) \cup {n} /\ \A l \in HostOn(q, U, id) : n < l
  BY <1>1, <1>2, <1>5, <1>6, <1>8, UpDelivered DEF HostOn
<1>11. /\ x \in EndsSet /\ x.gotUp[id] = n /\ x.sentUp[id] = e.sentUp[id] /\ x.sentDown[id] = e.sentDown[id]
       /\ x.gotDown[id] = e.gotDown[id]
       /\ \A j \in Streams : j # id => SameEnds(e, x, j)
  <2>1. n \in 0 .. MaxData
    BY <1>7
  <2> HIDE DEF n
  <2> QED
    BY <1>1, <2>1 DEF EndsSet, Counts, SameEnds
<1> HIDE DEF x, n
<1>12. g.status = "run" => Stream(q, r, U, D, x, g.exited, g.nextId, id)
  <2>1. g.status = "run" => Stream(p, r, U, D, e, g.exited, g.nextId, id)
    BY <1>3, <1>5 DEF Carried
  <2> QED
    BY <1>1, <1>2, <1>7, <1>8, <1>10, <1>11, <2>1, StreamHostDelivers
<1>13. Len(q.queue) <= QueueLimit /\ Ageing(q.queue) /\ q.opened <= 1
  BY <1>4, <1>5, <1>7, <1>8, AgeTail, StreamFacts
<1>14. Kept(PutPeer(h, id, q), g, up, dn, x) /\ PutPeer(h, id, q).status = "run"
  BY <1>5, <1>8, <1>9, <1>11, <1>12, <1>13, HostPutKeeps
<1> QED
  BY <1>14 DEF q, x, n, p

\* A payload of the local peer joins the output.
LEMMA SendDownKeeps ==
  ASSUME NEW h, NEW g, NEW up, NEW dn, NEW e, Kept(h, g, up, dn, e), h.status = "run",
         NEW id \in Streams, h.peers[id] # NoRelay, Room(h.out) > 1, e.sentDown[id] < MaxData
  PROVE  LET k == [h EXCEPT !.out = Push(h.out, Frame("DATA", id, e.sentDown[id] + 1))]
             x == [e EXCEPT !.sentDown[id] = e.sentDown[id] + 1]
         IN  Kept(k, g, up, dn, x) /\ k.status = "run"
<1> DEFINE n == e.sentDown[id] + 1
           f == Frame("DATA", id, n)
           v == <<f>>
           k == [h EXCEPT !.out = Push(h.out, f)]
           x == [e EXCEPT !.sentDown[id] = n]
           U == UpOf(h, g, up)
           D == DownOf(h, g, dn)
           E == DownOf(k, g, dn)
<1>0. Shaped(h, g, up, dn, e) /\ HostHeld(h) /\ GuestHeld(g) /\ StreamsHeld(h, g, up, dn, e) /\ Ended(h, g, up)
  BY DEF Kept
<1>1. /\ h \in HostSet /\ g \in GuestSet /\ up \in Seq(Parcel) /\ dn \in Seq(Parcel) /\ e \in EndsSet
      /\ Frames(h.out) \in Seq(Parcel) /\ Frames(g.out) \in Seq(Parcel)
      /\ U \in Seq(Parcel) /\ D \in Seq(Parcel)
  BY <1>0, ShapedOf
<1>2. n \in 1 .. MaxData /\ e.sentDown[id] \in 0 .. MaxData
  BY <1>1, EndsOf, StreamFacts
<1>17. e.sentDown[id] = n - 1
  BY <1>2
<1>3. /\ x \in EndsSet /\ x.gotUp[id] = e.gotUp[id] /\ x.sentUp[id] = e.sentUp[id] /\ x.sentDown[id] = n
      /\ x.gotDown[id] = e.gotDown[id]
      /\ \A j \in Streams : j # id => SameEnds(e, x, j)
  <2>1. n \in 0 .. MaxData
    BY <1>2
  <2> HIDE DEF n
  <2> QED
    BY <1>1, <2>1 DEF EndsSet, Counts, SameEnds
<1> HIDE DEF n, x
<1>4. f \in Parcel /\ f.id = id /\ f.kind = "DATA" /\ f.kind # "OPEN" /\ Key(f) = n
  <2>1. f \in Parcel
    BY <1>2, StreamFacts DEF Frame, Parcel
  <2> QED
    BY <2>1, FrameOf
<1> HIDE DEF f
<1>5. v \in Seq(Parcel) /\ \A j : Rising(v, j) /\ Keys(v, j) = IF id = j THEN {n} ELSE {}
  <2>1. v \in Seq(Parcel)
    BY <1>4
  <2>2. \A j : Rising(v, j) /\ Keys(v, j) = IF f.id = j THEN {Key(f)} ELSE {}
    BY KeysShort, Zenon
  <2> QED
    BY <1>4, <2>1, <2>2
<1>6. /\ Push(h.out, f) \in Seq(Entry) /\ Used(Frames(Push(h.out, f))) <= OutLimit /\ Ageing(Push(h.out, f))
      /\ Frames(Push(h.out, f)) = Frames(h.out) \o v
  <2>1. h.out \in Seq(Entry) /\ Ageing(h.out) /\ Room(h.out) >= 2
    <3>1. h.out \in Seq(Entry) /\ Ageing(h.out)
      BY <1>0, <1>1, HostOf DEF HostHeld
    <3> QED
      BY <3>1, RoomOf
  <2> QED
    BY <1>4, <2>1, OutPush, FramesPush
<1>7. /\ k \in HostSet /\ k.status = h.status /\ k.in = h.in /\ k.peers = h.peers /\ k.eof = h.eof /\ k.age = h.age
      /\ k.out = Push(h.out, f)
  <2> DEFINE a == Push(h.out, f)
  <2>1. a \in Seq(Entry) /\ k = [h EXCEPT !.out = a]
    BY <1>6
  <2> HIDE DEF a, k
  <2>2. /\ k \in HostSet /\ k.status = h.status /\ k.in = h.in /\ k.peers = h.peers /\ k.eof = h.eof /\ k.age = h.age
        /\ k.out = a
    BY <1>1, <2>1 DEF HostSet
  <2> QED
    BY <2>2 DEF a
<1> HIDE DEF k
<1>8. Shaped(k, g, up, dn, x)
  <2>1. NoOpens(Frames(h.out) \o <<f>>)
    BY <1>0, <1>1, <1>4, OpensOne, Zenon DEF Shaped
  <2>2. NoOpens(Frames(k.out))
    BY <1>6, <1>7, <2>1
  <2> QED
    BY <1>0, <1>3, <1>7, <2>2 DEF Shaped
<1>9. HostHeld(k) /\ Ended(k, g, up) /\ k.status = "run"
  BY <1>0, <1>6, <1>7 DEF HostHeld, Ended
<1>10. UpOf(k, g, up) = U
  BY <1>7 DEF UpOf
<1>11. E = D \o v
  <2>1. Frames(k.out) = Frames(h.out) \o v
    BY <1>6, <1>7
  <2>2. dn \in Seq(Parcel) /\ Frames(h.out) \in Seq(Parcel) /\ v \in Seq(Parcel) /\ g.in \in Parcel \cup {NoRelay}
    BY <1>1, <1>5, GuestOf
  <2> HIDE DEF v
  <2>3. \A in \in Parcel \cup {NoRelay}, l \in Seq(Parcel), a \in Seq(Parcel), w \in Seq(Parcel) :
          Way(in, l, a \o w) = Way(in, l, a) \o w
    BY WayPush
  <2>4. Way(g.in, dn, Frames(h.out) \o v) = Way(g.in, dn, Frames(h.out)) \o v
    BY <2>2, <2>3, Zenon
  <2> QED
    BY <2>1, <2>4 DEF DownOf
<1>12. \A j \in Streams : Carried(h, g, U, D, e, j)
  BY <1>0 DEF StreamsHeld
<1>13. E \in Seq(Parcel)
  BY <1>8, ShapedOf
<1> HIDE DEF U, D, E, v
<1>14. ASSUME NEW j \in Streams PROVE Carried(k, g, U, E, x, j)
  <2> DEFINE p == h.peers[j]
             r == g.peers[j]
  <2>1. p \in HostPeers \cup {NoRelay} /\ r \in GuestPeers \cup {NoRelay} /\ g.nextId \in Nat
    BY <1>1, HostOf, GuestOf
  <2>2. h.peers[j] = p /\ k.peers[j] = p /\ g.peers[j] = r
    BY <1>7
  <2>3. Carried(h, g, U, D, e, j)
    BY <1>12
  <2>4. j = id => p # NoRelay
    OBVIOUS
  <2> HIDE DEF p, r
  <2>5. UpSound(p, U, j)
    BY <2>2, <2>3 DEF Carried
  <2>6. CASE g.status # "run"
    BY <2>2, <2>5, <2>6 DEF Carried
  <2>7. CASE g.status = "run"
    <3>1. Stream(p, r, U, D, e, g.exited, g.nextId, j)
      BY <2>2, <2>3, <2>7 DEF Carried
    <3>2. DownSound(r, D, j)
      BY <3>1 DEF Stream, DownWhole
    <3>3. \A a \in GuestOn(r, D, j), b \in Keys(v, j) : a < b
      <4> SUFFICES ASSUME j = id, NEW a \in GuestOn(r, D, j) PROVE a < n
        BY <1>5
      <4>1. Last \notin Keys(D, j)
        BY <2>4, <3>1 DEF Stream, Agreed
      <4>2. Last \notin GuestOn(r, D, j) /\ GuestOn(r, D, j) \subseteq 1 .. e.sentDown[j] \cup {Last}
        BY <1>1, <2>1, <3>1, <4>1, GuestOnOf DEF Stream, DownWhole
      <4> QED
        BY <1>2, <1>17, <4>2
    <3>4. DownSound(r, E, j) /\ Keys(E, j) = Keys(D, j) \cup Keys(v, j)
      <4>1. DownSound(r, D \o v, j) /\ Keys(D \o v, j) = Keys(D, j) \cup Keys(v, j)
        <5>1. v \in Seq(Parcel) /\ Rising(v, j) /\ r \in GuestPeers \cup {NoRelay} /\ D \in Seq(Parcel)
          BY <1>1, <1>5, <2>1 DEF D
        <5>2. DownSound(r, D \o v, j)
          BY <3>2, <3>3, <5>1, DownJoin
        <5>3. Keys(D \o v, j) = Keys(D, j) \cup Keys(v, j)
          BY <5>1, KeysConcat
        <5> QED
          BY <5>2, <5>3
      <4> QED
        BY <1>11, <4>1
    <3>5. CASE j = id
      <4>1. p \in HostPeers
        BY <2>1, <2>4, <3>5
      <4>2. Keys(E, j) = Keys(D, j) \cup {e.sentDown[j] + 1} /\ x.sentDown[j] = e.sentDown[j] + 1
        <5>1. n = e.sentDown[j] + 1
          BY <3>5 DEF n
        <5> QED
          BY <1>3, <1>5, <3>4, <3>5, <5>1
      <4>3. /\ x.sentUp[j] = e.sentUp[j] /\ x.gotUp[j] = e.gotUp[j] /\ x.gotDown[j] = e.gotDown[j]
            /\ U \in Seq(Parcel) /\ D \in Seq(Parcel)
        BY <1>1, <1>3, <3>5 DEF U, D
      <4>4. Stream(p, r, U, E, x, g.exited, g.nextId, j)
        BY <1>1, <1>3, <1>13, <2>1, <3>1, <3>4, <4>1, <4>2, <4>3, StreamSendsDown
      <4> QED
        BY <2>2, <2>5, <4>4 DEF Carried
    <3>6. CASE j # id
      <4>1. Keys(E, j) = Keys(D, j) /\ SameEnds(e, x, j)
        BY <1>3, <1>5, <3>4, <3>6
      <4>2. Stream(p, r, U, E, x, g.exited, g.nextId, j)
        BY <3>1, <3>4, <4>1, StreamSame
      <4> QED
        BY <2>2, <2>5, <4>2 DEF Carried
    <3> QED
      BY <3>5, <3>6
  <2> QED
    BY <2>6, <2>7
<1>15. StreamsHeld(k, g, up, dn, x)
  BY <1>10, <1>14 DEF StreamsHeld, E
<1> QED
  BY <1>0, <1>8, <1>9, <1>15 DEF Kept, k, f, n, x

\* The first frame of the output is written into the lane.
LEMMA WriteDownKeeps ==
  ASSUME NEW h, NEW g, NEW up, NEW dn, NEW e, Kept(h, g, up, dn, e), h.status = "run", h.out # <<>>
  PROVE  LET k == [h EXCEPT !.out = Tail(h.out)]
         IN  Kept(k, g, up, Append(dn, Head(h.out).frame), e) /\ k.status = "run"
<1> DEFINE f == Head(h.out).frame
           t == Tail(h.out)
           k == [h EXCEPT !.out = t]
           d == Append(dn, f)
<1>0. Shaped(h, g, up, dn, e) /\ HostHeld(h) /\ GuestHeld(g) /\ StreamsHeld(h, g, up, dn, e) /\ Ended(h, g, up)
  BY DEF Kept
<1>1. /\ h \in HostSet /\ g \in GuestSet /\ up \in Seq(Parcel) /\ dn \in Seq(Parcel) /\ e \in EndsSet
      /\ Frames(h.out) \in Seq(Parcel) /\ Frames(g.out) \in Seq(Parcel)
  BY <1>0, ShapedOf
<1>2. h.out \in Seq(Entry) /\ Used(Frames(h.out)) <= OutLimit /\ Ageing(h.out)
  BY <1>0, <1>1, HostOf DEF HostHeld
<1>3. /\ t \in Seq(Entry) /\ f \in Parcel /\ Frames(h.out) = <<f>> \o Frames(t)
      /\ Used(Frames(t)) <= OutLimit /\ Ageing(t) /\ Frames(t) \in Seq(Parcel)
  <2>1. t \in Seq(Entry)
    BY <1>2, FramesTail
  <2> QED
    BY <1>2, <2>1, FramesTail, OutTail, FramesOf
<1> HIDE DEF f, t
<1>4. /\ k \in HostSet /\ k.status = "run" /\ k.in = h.in /\ k.peers = h.peers /\ k.eof = h.eof /\ k.age = h.age
      /\ k.out = t
  BY <1>1, <1>3 DEF HostSet
<1> HIDE DEF k
<1>5. d \in Seq(Parcel) /\ NoOpens(d) /\ NoOpens(Frames(t))
  <2>1. NoOpens(dn) /\ NoOpens(Frames(h.out))
    BY <1>0 DEF Shaped
  <2>2. Frames(t)  = Tail(Frames(h.out)) /\ f = Head(Frames(h.out)) /\ Frames(h.out) # <<>>
    <3> DEFINE s == Frames(t)
    <3>1. s \in Seq(Parcel) /\ Frames(h.out) = <<f>> \o s
      BY <1>3
    <3> HIDE DEF s
    <3>2. Tail(<<f>> \o s) = s /\ Head(<<f>> \o s) = f /\ <<f>> \o s # <<>>
      BY <1>3, <3>1
    <3> QED
      BY <3>1, <3>2 DEF s
  <2>3. NoOpens(Frames(t)) /\ f.kind # "OPEN"
    <3>1. NoOpens(Tail(Frames(h.out))) /\ Head(Frames(h.out)).kind # "OPEN"
      BY <1>1, <2>1, <2>2, OpensTail
    <3> QED
      BY <2>2, <3>1
  <2> QED
    <3>1. NoOpens(dn) /\ dn \in Seq(Parcel) /\ f \in Parcel
      BY <1>1, <1>3, <2>1
    <3>2. NoOpens(Append(dn, f))
      BY <2>3, <3>1, OpensOne, Zenon
    <3>3. d \in Seq(Parcel)
      BY <3>1
    <3> QED
      BY <2>3, <3>2, <3>3, Zenon
<1>6. Shaped(k, g, up, d, e)
  BY <1>0, <1>4, <1>5 DEF Shaped
<1>7. HostHeld(k) /\ Ended(k, g, up)
  BY <1>0, <1>3, <1>4 DEF HostHeld, Ended
<1>8. UpOf(k, g, up) = UpOf(h, g, up) /\ DownOf(k, g, d) = DownOf(h, g, dn)
  <2>1. UpOf(k, g, up) = UpOf(h, g, up)
    BY <1>4 DEF UpOf
  <2>2. \A in \in Parcel \cup {NoRelay}, l \in Seq(Parcel), o \in Seq(Parcel), a \in Parcel :
          Way(in, Append(l, a), o) = Way(in, l, <<a>> \o o)
    BY WayWrites
  <2>3. g.in \in Parcel \cup {NoRelay}
    BY <1>1, GuestOf
  <2>4. Way(g.in, Append(dn, f), Frames(t)) = Way(g.in, dn, <<f>> \o Frames(t))
    BY <1>1, <1>3, <2>2, <2>3, Zenon
  <2> QED
    BY <1>3, <1>4, <2>1, <2>4 DEF DownOf
<1>9. StreamsHeld(k, g, up, d, e)
  BY <1>0, <1>4, <1>8 DEF StreamsHeld, Carried
<1> QED
  BY <1>0, <1>4, <1>6, <1>7, <1>9 DEF Kept, k, d, f, t

\* The lane has ended.
LEMMA HostEofKeeps ==
  ASSUME NEW h, NEW g, NEW up, NEW dn, NEW e, Kept(h, g, up, dn, e), h.status = "run",
         g.status # "run", up = <<>>, h.in = NoRelay
  PROVE  LET k == [h EXCEPT !.eof = TRUE] IN  Kept(k, g, up, dn, e) /\ k.status = "run"
<1> DEFINE k == [h EXCEPT !.eof = TRUE]
<1>0. Shaped(h, g, up, dn, e) /\ HostHeld(h) /\ GuestHeld(g) /\ StreamsHeld(h, g, up, dn, e) /\ Ended(h, g, up)
  BY DEF Kept
<1>1. h \in HostSet
  BY <1>0, ShapedOf
<1>2. /\ k \in HostSet /\ k.status = "run" /\ k.in = h.in /\ k.peers = h.peers /\ k.eof = TRUE /\ k.age = h.age
      /\ k.out = h.out
  BY <1>1 DEF HostSet
<1> HIDE DEF k
<1>3. Shaped(k, g, up, dn, e)
  BY <1>0, <1>2 DEF Shaped
<1>4. HostHeld(k)
  BY <1>0, <1>2 DEF HostHeld
<1>5. Ended(k, g, up)
  BY <1>2 DEF Ended
<1>6. StreamsHeld(k, g, up, dn, e)
  <2>1. UpOf(k, g, up) = UpOf(h, g, up) /\ DownOf(k, g, dn) = DownOf(h, g, dn)
    BY <1>2 DEF UpOf, DownOf
  <2> QED
    BY <1>0, <1>2, <2>1 DEF StreamsHeld, Carried
<1> QED
  BY <1>0, <1>2, <1>3, <1>4, <1>5, <1>6 DEF Kept, k

\* A peer one tick later: its queue holds the same payloads.
LEMMA OlderOf ==
  ASSUME NEW p \in HostPeers, NEW id, Ageing(p.queue), p.opened <= 1,
         p.queue # <<>> => ~(p.queue[1].age >= 1), p.conn # "open" => ~(p.opened >= 1)
  PROVE  LET w == Older(p)
         IN  /\ w \in HostPeers /\ w.closed = p.closed /\ w.eof = p.eof /\ w.conn = p.conn
             /\ HostQueue(w, id) = HostQueue(p, id) /\ Len(w.queue) = Len(p.queue) /\ Ageing(w.queue)
             /\ w.opened <= 1 /\ (w.queue = <<>> <=> p.queue = <<>>)
<1> DEFINE s == p.queue
           t == [i \in DOMAIN s |-> [s[i] EXCEPT !.age = s[i].age + 1]]
           o == IF p.conn = "open" THEN 0 ELSE p.opened + 1
           w == Older(p)
<1>1. s \in Seq(Chunk) /\ p.opened \in Nat /\ p # NoRelay
  BY HostPeerOf
<1>2. Older(p) = [p EXCEPT !.queue = t, !.opened = o]
  BY DEF Older, Later
<1>3. \A i \in DOMAIN s : t[i] \in Chunk /\ t[i].n = s[i].n /\ t[i].age = s[i].age + 1
  <2>1. \A i \in DOMAIN s : s[i] \in Chunk
    BY <1>1
  <2> QED
    BY <2>1 DEF Chunk
<1>4. t \in Seq(Chunk) /\ Len(t) = Len(s) /\ DOMAIN t = DOMAIN s
  <2>1. DOMAIN t = 1 .. Len(s) /\ Len(s) \in Nat
    BY <1>1
  <2> HIDE DEF t
  <2>2. \A i \in 1 .. Len(s) : t[i] \in Chunk
    BY <1>1, <1>3
  <2>3. t \in [1 .. Len(s) -> Chunk]
    <3>1. t = [i \in 1 .. Len(s) |-> t[i]]
      <4>1. t = [i \in DOMAIN s |-> [s[i] EXCEPT !.age = s[i].age + 1]] /\ DOMAIN s = 1 .. Len(s)
        BY <1>1 DEF t
      <4> QED
        BY <4>1
    <3> QED
      BY <2>2, <3>1
  <2> QED
    BY <2>1, <2>3
<1>5. o \in Nat /\ o <= 1
  BY <1>1
<1> HIDE DEF t, o
<1>6. w \in HostPeers /\ w.queue = t /\ w.opened = o /\ w.closed = p.closed /\ w.eof = p.eof /\ w.conn = p.conn
  <2> HIDE DEF s
  <2> QED
    BY <1>2, <1>4, <1>5 DEF HostPeers, Chunk
<1> HIDE DEF w
<1>7. Ageing(t)
  <2>1. \A x \in Chunk : x.age \in Nat
    BY DEF Chunk
  <2>2. Ageing(s) /\ (s # <<>> => ~(s[1].age >= 1))
    OBVIOUS
  <2> HIDE DEF s
  <2> QED
    BY <1>1, <1>3, <1>4, <2>1, <2>2, AgeTick
<1>8. HostQueue(w, id) = HostQueue(p, id)
  <2>1. w # NoRelay
    BY <1>6, HostPeerOf
  <2>2. HostQueue(w, id) = [i \in DOMAIN t |-> Frame("DATA", id, t[i].n)]
    BY <1>6, <2>1 DEF HostQueue
  <2>3. HostQueue(p, id) = [i \in DOMAIN s |-> Frame("DATA", id, s[i].n)]
    BY <1>1 DEF HostQueue
  <2> QED
    BY <1>3, <1>4, <2>2, <2>3
<1>9. t = <<>> <=> s = <<>>
  BY <1>1, <1>4
<1> QED
  BY <1>4, <1>5, <1>6, <1>7, <1>8, <1>9 DEF w

\* Time passes while nothing is due.
LEMMA TickKeeps ==
  ASSUME NEW h, NEW g, NEW up, NEW dn, NEW e, Kept(h, g, up, dn, e), h.status = "run", ~Due(h), HostSettled(h)
  PROVE  Kept(Aged(h), g, up, dn, e) /\ HostSettled(Aged(h))
<1> DEFINE k == Aged(h)
           s == h.out
           t == [i \in DOMAIN s |-> [s[i] EXCEPT !.age = s[i].age + 1]]
           a == IF h.in = NoRelay THEN 0 ELSE h.age + 1
           ps == [id \in Streams |-> IF h.peers[id] = NoRelay THEN NoRelay ELSE Older(h.peers[id])]
           U == UpOf(h, g, up)
           D == DownOf(h, g, dn)
<1>0. Shaped(h, g, up, dn, e) /\ HostHeld(h) /\ GuestHeld(g) /\ StreamsHeld(h, g, up, dn, e) /\ Ended(h, g, up)
  BY DEF Kept
<1>1. /\ h \in HostSet /\ g \in GuestSet /\ up \in Seq(Parcel) /\ dn \in Seq(Parcel) /\ e \in EndsSet
      /\ U \in Seq(Parcel) /\ D \in Seq(Parcel)
  BY <1>0, ShapedOf
<1>2. s \in Seq(Entry) /\ Ageing(s) /\ h.age \in Nat /\ Used(Frames(s)) <= OutLimit
  BY <1>0, <1>1, HostOf DEF HostHeld
<1>3. k = [h EXCEPT !.age = a, !.out = t, !.peers = ps]
  BY DEF Aged, Later
<1>4. \A i \in DOMAIN s : t[i] \in Entry /\ t[i].frame = s[i].frame /\ t[i].age = s[i].age + 1
  <2>1. \A i \in DOMAIN s : s[i] \in Entry
    BY <1>2
  <2> QED
    BY <2>1 DEF Entry
<1>5. t \in Seq(Entry) /\ Len(t) = Len(s) /\ DOMAIN t = DOMAIN s
  <2>1. DOMAIN t = 1 .. Len(s) /\ Len(s) \in Nat
    BY <1>2
  <2> HIDE DEF t
  <2>2. \A i \in 1 .. Len(s) : t[i] \in Entry
    BY <1>2, <1>4
  <2>3. t \in [1 .. Len(s) -> Entry]
    <3>1. t = [i \in 1 .. Len(s) |-> t[i]]
      <4>1. t = [i \in DOMAIN s |-> [s[i] EXCEPT !.age = s[i].age + 1]] /\ DOMAIN s = 1 .. Len(s)
        BY <1>2 DEF t
      <4> QED
        BY <4>1
    <3> QED
      BY <2>2, <3>1
  <2> QED
    BY <2>1, <2>3
<1>6. Frames(t) = Frames(s)
  BY <1>4, <1>5 DEF Frames
<1>7. a \in Nat /\ a <= 1 /\ (h.in = NoRelay => a = 0)
  BY <1>2 DEF Due
<1>8. ASSUME NEW id \in Live(h.peers)
      PROVE  LET p == h.peers[id]
             IN  /\ p \in HostPeers /\ Ageing(p.queue) /\ p.opened <= 1 /\ Len(p.queue) <= QueueLimit
                 /\ p.queue # <<>> => ~(p.queue[1].age >= 1)
                 /\ p.conn # "open" => ~(p.opened >= 1)
  BY <1>0, <1>1, <1>8, HostOf DEF HostHeld, Due
<1>9. ASSUME NEW id \in Live(h.peers)
      PROVE  LET p == h.peers[id]
                 w == ps[id]
             IN  /\ w \in HostPeers /\ w.closed = p.closed /\ w.eof = p.eof /\ w # NoRelay
                 /\ HostQueue(w, id) = HostQueue(p, id) /\ Len(w.queue) <= QueueLimit /\ Ageing(w.queue)
                 /\ w.opened <= 1 /\ (w.queue = <<>> <=> p.queue = <<>>)
  <2> DEFINE p == h.peers[id]
  <2>1. ps[id] = Older(p) /\ id \in Streams
    BY <1>9 DEF Live
  <2>2. /\ p \in HostPeers /\ Ageing(p.queue) /\ p.opened <= 1 /\ Len(p.queue) <= QueueLimit
        /\ p.queue # <<>> => ~(p.queue[1].age >= 1)
        /\ p.conn # "open" => ~(p.opened >= 1)
    BY <1>8, <1>9
  <2> HIDE DEF p, ps
  <2>3. LET w == Older(p)
        IN  /\ w \in HostPeers /\ w.closed = p.closed /\ w.eof = p.eof /\ w.conn = p.conn
            /\ HostQueue(w, id) = HostQueue(p, id) /\ Len(w.queue) = Len(p.queue) /\ Ageing(w.queue)
            /\ w.opened <= 1 /\ (w.queue = <<>> <=> p.queue = <<>>)
    BY <2>2, OlderOf
  <2>4. Older(p) # NoRelay
    BY <2>3, HostPeerOf
  <2> QED
    BY <2>1, <2>2, <2>3, <2>4 DEF p
<1>10. /\ ps \in [Streams -> HostPeers \cup {NoRelay}] /\ Live(ps) = Live(h.peers)
       /\ \A id \in Streams \ Live(h.peers) : ps[id] = NoRelay /\ h.peers[id] = NoRelay
  <2>1. \A id \in Streams \ Live(h.peers) : ps[id] = NoRelay /\ h.peers[id] = NoRelay
    BY DEF Live
  <2>2. Live(h.peers) \subseteq Streams
    BY DEF Live
  <2>3. DOMAIN ps = Streams /\ ps = [id \in Streams |-> ps[id]]
    OBVIOUS
  <2> HIDE DEF ps
  <2>4. \A id \in Streams : ps[id] \in HostPeers \cup {NoRelay}
    BY <1>9, <2>1
  <2>5. Live(ps) = Live(h.peers)
    BY <1>9, <2>1, <2>2 DEF Live
  <2>6. ps \in [Streams -> HostPeers \cup {NoRelay}]
    BY <2>3, <2>4
  <2> QED
    BY <2>1, <2>5, <2>6
<1> HIDE DEF k, t, a, ps, s
<1>11. /\ k.status = "run" /\ k.in = h.in /\ k.eof = h.eof /\ k.age = a /\ k.out = t /\ k.peers = ps
  BY <1>1, <1>3 DEF HostSet
<1>12. k \in HostSet
  BY <1>1, <1>3, <1>5, <1>7, <1>10 DEF HostSet
<1>13. Shaped(k, g, up, dn, e)
  BY <1>0, <1>6, <1>11, <1>12 DEF Shaped, s
<1>14. HostHeld(k)
  <2>1. Used(Frames(k.out)) <= OutLimit
    BY <1>2, <1>6, <1>11
  <2>2. Ageing(k.out)
    <3>1. \A x \in Entry : x.age \in Nat
      BY DEF Entry
    <3>2. s # <<>> => ~(s[1].age >= 1)
      BY DEF Due, s
    <3>3. Ageing(t)
      BY <1>2, <1>4, <1>5, <3>1, <3>2, AgeTick
    <3> QED
      BY <1>11, <3>3
  <2>3. (k.in = NoRelay => k.age = 0) /\ k.age <= 1
    BY <1>7, <1>11
  <2>4. Cardinality(Live(k.peers)) <= PeerLimit
    BY <1>0, <1>10, <1>11 DEF HostHeld
  <2>5. \A id \in Live(k.peers) :
          /\ Len(k.peers[id].queue) <= QueueLimit /\ Ageing(k.peers[id].queue)
          /\ k.peers[id].opened <= 1
    BY <1>9, <1>10, <1>11
  <2> QED
    BY <2>1, <2>2, <2>3, <2>4, <2>5 DEF HostHeld
<1>15. Ended(k, g, up)
  BY <1>0, <1>11 DEF Ended
<1>16. HostSettled(k)
  <2>1. Room(k.out) = Room(h.out)
    BY <1>6, <1>11 DEF Room, s
  <2>2. k.out = <<>> => h.out = <<>>
    BY <1>2, <1>5, <1>11 DEF s
  <2>3. \A id \in Live(k.peers) : /\ id \in Live(h.peers)
                                  /\ k.peers[id].queue = <<>> <=> h.peers[id].queue = <<>>
                                  /\ k.peers[id].closed = h.peers[id].closed /\ k.peers[id].eof = h.peers[id].eof
    BY <1>9, <1>10, <1>11
  <2> QED
    BY <1>11, <2>1, <2>2, <2>3 DEF HostSettled
<1>17. UpOf(k, g, up) = U /\ DownOf(k, g, dn) = D
  BY <1>6, <1>11 DEF UpOf, DownOf, s
<1>18. \A id \in Streams : Carried(h, g, U, D, e, id)
  BY <1>0 DEF StreamsHeld
<1> HIDE DEF U, D
<1>19. ASSUME NEW id \in Streams PROVE Carried(k, g, U, D, e, id)
  <2>1. CASE id \notin Live(h.peers)
    <3>1. k.peers[id] = h.peers[id]
      BY <1>10, <1>11, <2>1
    <3> QED
      BY <1>18, <3>1 DEF Carried
  <2>2. CASE id \in Live(h.peers)
    <3> DEFINE p == h.peers[id]
               w == ps[id]
               r == g.peers[id]
    <3>1. p \in HostPeers /\ w \in HostPeers /\ HostQueue(w, id) = HostQueue(p, id) /\ w.closed = p.closed
      BY <1>8, <1>9, <2>2
    <3>2. k.peers[id] = w /\ h.peers[id] = p /\ g.peers[id] = r
      BY <1>11
    <3>3. r \in GuestPeers \cup {NoRelay} /\ g.nextId \in Nat
      BY <1>1, GuestOf
    <3> HIDE DEF p, w, r
    <3>4. UpSound(p, U, id) /\ (g.status = "run" => Stream(p, r, U, D, e, g.exited, g.nextId, id))
      BY <1>18, <3>2 DEF Carried
    <3>5. UpSound(w, U, id)
      BY <3>1, <3>4, HostPeerOf DEF UpSound
    <3>6. HostOn(w, U, id) = HostOn(p, U, id)
      BY <3>1 DEF HostOn
    <3>7. g.status = "run" => Stream(w, r, U, D, e, g.exited, g.nextId, id)
      BY <1>1, <3>1, <3>3, <3>4, <3>6, StreamHostQueues DEF U, D
    <3> QED
      BY <3>2, <3>5, <3>7 DEF Carried
  <2> QED
    BY <2>1, <2>2
<1>20. StreamsHeld(k, g, up, dn, e)
  BY <1>17, <1>19 DEF StreamsHeld
<1> QED
  BY <1>0, <1>13, <1>14, <1>15, <1>16, <1>20 DEF Kept, k

-----------------------------------------------------------------------------
(* What the guest pump does.                                                 *)

\* While the guest runs, the host has seen no end of its lane.
LEMMA GuestMoves ==
  ASSUME NEW h, NEW g, NEW up, NEW dn, NEW e, Kept(h, g, up, dn, e), g.status = "run",
         NEW k \in GuestSet, NEW u \in Seq(Parcel), NEW d \in Seq(Parcel), NEW x \in EndsSet,
         k.in # NoRelay => k.in.kind = "DATA", NoOpens(d), GuestHeld(k), NoOpens(Frames(h.out)),
         h.status = "run" => \A id \in Streams : Carried(h, k, UpOf(h, k, u), DownOf(h, k, d), x, id)
  PROVE  Kept(h, k, u, d, x)
<1>1. Shaped(h, k, u, d, x)
  BY DEF Kept, Shaped
<1>2. Ended(h, k, u)
  BY DEF Kept, Ended
<1>3. StreamsHeld(h, k, u, d, x)
  BY DEF StreamsHeld
<1> QED
  BY <1>1, <1>2, <1>3 DEF Kept

\* A connection of the guest is replaced, and nothing else.
LEMMA GuestPut ==
  ASSUME NEW g \in GuestSet, NEW id \in Streams, NEW q \in GuestPeers
  PROVE  LET k == PutPeer(g, id, q)
         IN  /\ k \in GuestSet /\ k.status = g.status /\ k.program = g.program /\ k.in = g.in /\ k.out = g.out
             /\ k.eof = g.eof /\ k.exited = g.exited /\ k.nextId = g.nextId /\ k.peers[id] = q
             /\ \A j \in Streams : j # id => k.peers[j] = g.peers[j]
<1> DEFINE ps == [g.peers EXCEPT ![id] = q]
           k == PutPeer(g, id, q)
<1>1. g.peers \in [Streams -> GuestPeers \cup {NoRelay}]
  BY GuestOf
<1>2. /\ ps \in [Streams -> GuestPeers \cup {NoRelay}] /\ ps[id] = q
      /\ \A j \in Streams : j # id => ps[j] = g.peers[j]
  BY <1>1
<1>3. k = [g EXCEPT !.peers = ps]
  BY DEF PutPeer
<1> HIDE DEF ps, k
<1>4. /\ k.status = g.status /\ k.program = g.program /\ k.in = g.in /\ k.out = g.out
      /\ k.eof = g.eof /\ k.exited = g.exited /\ k.nextId = g.nextId /\ k.peers = ps
  BY <1>3 DEF GuestSet
<1>5. k \in GuestSet
  BY <1>2, <1>3 DEF GuestSet
<1> QED
  BY <1>2, <1>4, <1>5 DEF k

\* A connection of the guest is replaced by one that stays within the limits.
LEMMA GuestPutHeld ==
  ASSUME NEW g \in GuestSet, NEW id \in Streams, NEW q \in GuestPeers, GuestHeld(g), g.peers[id] # NoRelay,
         Len(q.queue) <= QueueLimit, g.exited => q.closing
  PROVE  GuestHeld(PutPeer(g, id, q))
<1> DEFINE k == PutPeer(g, id, q)
<1>1. /\ k.out = g.out /\ k.exited = g.exited /\ k.peers[id] = q
      /\ \A j \in Streams : j # id => k.peers[j] = g.peers[j]
  BY GuestPut
<1> HIDE DEF k
<1>2. Live(k.peers) \subseteq Streams /\ \A j \in Live(k.peers) : j # id => j \in Live(g.peers)
  BY <1>1 DEF Live
<1>3. ASSUME NEW j \in Live(k.peers)
      PROVE  Len(k.peers[j].queue) <= QueueLimit /\ (k.exited => k.peers[j].closing)
  BY <1>1, <1>2 DEF GuestHeld
<1> QED
  BY <1>1, <1>3 DEF GuestHeld, k

\* A connection of the guest is replaced by one that fits its stream.
LEMMA GuestPutKeeps ==
  ASSUME NEW h, NEW g, NEW up, NEW dn, NEW e, Kept(h, g, up, dn, e), g.status = "run",
         NEW id \in Streams, NEW q \in GuestPeers, g.peers[id] # NoRelay,
         Len(q.queue) <= QueueLimit, g.exited => q.closing,
         NEW x \in EndsSet, \A j \in Streams : j # id => SameEnds(e, x, j),
         h.status = "run" =>
           Stream(h.peers[id], q, UpOf(h, g, up), DownOf(h, g, dn), x, g.exited, g.nextId, id)
  PROVE  Kept(h, PutPeer(g, id, q), up, dn, x) /\ PutPeer(g, id, q).status = "run"
<1> DEFINE k == PutPeer(g, id, q)
           U == UpOf(h, g, up)
           D == DownOf(h, g, dn)
<1>0. Shaped(h, g, up, dn, e) /\ GuestHeld(g) /\ StreamsHeld(h, g, up, dn, e)
  BY DEF Kept
<1>1. g \in GuestSet /\ up \in Seq(Parcel) /\ dn \in Seq(Parcel)
  BY <1>0, ShapedOf
<1>2. /\ k \in GuestSet /\ k.status = g.status /\ k.in = g.in /\ k.out = g.out
      /\ k.exited = g.exited /\ k.nextId = g.nextId /\ k.peers[id] = q
      /\ \A j \in Streams : j # id => k.peers[j] = g.peers[j]
  BY <1>1, GuestPut
<1>3. GuestHeld(k)
  BY <1>0, <1>1, GuestPutHeld
<1> HIDE DEF k
<1>4. UpOf(h, k, up) = U /\ DownOf(h, k, dn) = D
  BY <1>2 DEF UpOf, DownOf
<1>5. ASSUME NEW j \in Streams, h.status = "run" PROVE Carried(h, k, U, D, x, j)
  <2>1. Carried(h, g, U, D, e, j)
    BY <1>0, <1>5 DEF StreamsHeld
  <2>2. CASE j = id
    BY <1>2, <1>5, <2>1, <2>2 DEF Carried
  <2>3. CASE j # id
    <3> HIDE DEF U, D
    <3>1. SameEnds(e, x, j) /\ k.peers[j] = g.peers[j]
      BY <1>2, <2>3
    <3>2. UpSound(h.peers[j], U, j) /\ (g.status = "run" => DownSound(g.peers[j], D, j))
      BY <2>1 DEF Carried, Stream, DownWhole
    <3> QED
      BY <1>2, <2>1, <3>1, <3>2, CarriedSame
  <2> QED
    BY <2>2, <2>3
<1>6. /\ k.in # NoRelay => k.in.kind = "DATA"
      /\ NoOpens(dn) /\ NoOpens(Frames(h.out))
  BY <1>0, <1>2 DEF Shaped
<1>7. Kept(h, k, up, dn, x)
  BY <1>1, <1>2, <1>3, <1>4, <1>5, <1>6, GuestMoves
<1> QED
  BY <1>2, <1>7 DEF k

\* Connections that are told to end.
LEMMA EndingOf ==
  ASSUME NEW r \in GuestPeers, NEW notify \in BOOLEAN, NEW id
  PROVE  LET s == Ending(r, notify)
         IN  /\ s \in GuestPeers /\ s # NoRelay /\ s.queue = r.queue /\ s.closing /\ (notify => s.notify)
             /\ GuestQueue(s, id) = GuestQueue(r, id)
<1> DEFINE s == Ending(r, notify)
<1>1. s \in GuestPeers /\ s.queue = r.queue /\ s.closing /\ s.notify = (r.notify \/ notify)
  BY DEF Ending, GuestPeers
<1> HIDE DEF s
<1>2. s # NoRelay /\ r # NoRelay
  BY <1>1, StreamFacts
<1> QED
  BY <1>1, <1>2 DEF s, GuestQueue

\* Closing touches the connections of the given streams alone.
LEMMA ClosingOf ==
  ASSUME NEW g \in GuestSet, NEW S, NEW notify \in BOOLEAN
  PROVE  LET k == Closing(g, S, notify)
         IN  /\ k \in GuestSet /\ k.status = g.status /\ k.program = g.program /\ k.in = g.in /\ k.out = g.out
             /\ k.eof = g.eof /\ k.exited = g.exited /\ k.nextId = g.nextId
             /\ \A id \in Streams : k.peers[id] = IF id \in S /\ g.peers[id] # NoRelay
                                                  THEN Ending(g.peers[id], notify) ELSE g.peers[id]
<1> DEFINE ps == [id \in Streams |-> IF id \in S /\ g.peers[id] # NoRelay
                                     THEN Ending(g.peers[id], notify) ELSE g.peers[id]]
           k == Closing(g, S, notify)
<1>1. k = [g EXCEPT !.peers = ps]
  BY DEF Closing
<1>2. \A id \in Streams : g.peers[id] \in GuestPeers \cup {NoRelay}
  BY GuestOf
<1>3. \A id \in Streams : ps[id] \in GuestPeers \cup {NoRelay}
  BY <1>2, EndingOf
<1>4. \A id \in Streams : ps[id] = IF id \in S /\ g.peers[id] # NoRelay
                                   THEN Ending(g.peers[id], notify) ELSE g.peers[id]
  OBVIOUS
<1>5. ps = [id \in Streams |-> ps[id]]
  OBVIOUS
<1> HIDE DEF ps, k
<1>6. ps \in [Streams -> GuestPeers \cup {NoRelay}]
  BY <1>3, <1>5
<1>7. /\ k.status = g.status /\ k.program = g.program /\ k.in = g.in /\ k.out = g.out
      /\ k.eof = g.eof /\ k.exited = g.exited /\ k.nextId = g.nextId /\ k.peers = ps
  BY <1>1 DEF GuestSet
<1>8. k \in GuestSet
  BY <1>1, <1>6 DEF GuestSet
<1> QED
  BY <1>4, <1>7, <1>8 DEF k

\* ... and without owing a CLOSE for any of them.
LEMMA ClosingQuiet ==
  ASSUME NEW g \in GuestSet, NEW S
  PROVE  LET k == Closing(g, S, FALSE)
         IN  /\ k \in GuestSet /\ k.status = g.status /\ k.program = g.program /\ k.in = g.in /\ k.out = g.out
             /\ k.eof = g.eof /\ k.exited = g.exited /\ k.nextId = g.nextId
             /\ \A id \in Streams : k.peers[id] = IF id \in S /\ g.peers[id] # NoRelay
                                                  THEN Ending(g.peers[id], FALSE) ELSE g.peers[id]
<1> DEFINE quiet == FALSE
           c == Closing(g, S, quiet)
<1>1. quiet \in BOOLEAN
  OBVIOUS
<1> HIDE DEF quiet
<1>2. /\ c \in GuestSet /\ c.status = g.status /\ c.program = g.program /\ c.in = g.in /\ c.out = g.out
      /\ c.eof = g.eof /\ c.exited = g.exited /\ c.nextId = g.nextId
      /\ \A id \in Streams : c.peers[id] = IF id \in S /\ g.peers[id] # NoRelay
                                           THEN Ending(g.peers[id], quiet) ELSE g.peers[id]
  BY <1>1, ClosingOf
<1> QED
  BY <1>2, Zenon DEF quiet

\* Closing one stream replaces its connection.
LEMMA ClosingOne ==
  ASSUME NEW g \in GuestSet, NEW id \in Streams, NEW notify \in BOOLEAN
  PROVE  Closing(g, {id}, notify) =
           IF g.peers[id] # NoRelay THEN PutPeer(g, id, Ending(g.peers[id], notify)) ELSE g
<1> DEFINE ps == [j \in Streams |-> IF j \in {id} /\ g.peers[j] # NoRelay
                                    THEN Ending(g.peers[j], notify) ELSE g.peers[j]]
<1>1. Closing(g, {id}, notify) = [g EXCEPT !.peers = ps]
  BY DEF Closing
<1>2. g.peers \in [Streams -> GuestPeers \cup {NoRelay}]
  BY GuestOf
<1>3. CASE g.peers[id] # NoRelay
  <2>1. ps = [g.peers EXCEPT ![id] = Ending(g.peers[id], notify)]
    BY <1>2, <1>3
  <2> HIDE DEF ps
  <2> QED
    BY <1>1, <1>3, <2>1 DEF PutPeer
<1>4. CASE g.peers[id] = NoRelay
  <2>1. ps = g.peers
    BY <1>2, <1>4
  <2> HIDE DEF ps
  <2>2. [g EXCEPT !.peers = g.peers] = g
    BY DEF GuestSet
  <2> QED
    BY <1>1, <1>4, <2>1, <2>2
<1> QED
  BY <1>3, <1>4

\* The command of the program ends: what still drains is told so.
LEMMA ExitKeeps ==
  ASSUME NEW h, NEW g, NEW up, NEW dn, NEW e, Kept(h, g, up, dn, e), g.status = "run", NEW notify \in BOOLEAN
  PROVE  LET k == [Closing(g, Streams, notify) EXCEPT !.exited = TRUE]
         IN  Kept(h, k, up, dn, e) /\ k.status = "run"
<1> DEFINE c == Closing(g, Streams, notify)
           k == [c EXCEPT !.exited = TRUE]
           U == UpOf(h, g, up)
           D == DownOf(h, g, dn)
<1>0. Shaped(h, g, up, dn, e) /\ GuestHeld(g) /\ StreamsHeld(h, g, up, dn, e)
  BY DEF Kept
<1>1. /\ h \in HostSet /\ g \in GuestSet /\ up \in Seq(Parcel) /\ dn \in Seq(Parcel) /\ e \in EndsSet
      /\ U \in Seq(Parcel) /\ D \in Seq(Parcel)
  BY <1>0, ShapedOf
<1>2. /\ c \in GuestSet /\ c.status = g.status /\ c.program = g.program /\ c.in = g.in /\ c.out = g.out
      /\ c.eof = g.eof /\ c.exited = g.exited /\ c.nextId = g.nextId
      /\ \A id \in Streams : c.peers[id] = IF id \in Streams /\ g.peers[id] # NoRelay
                                           THEN Ending(g.peers[id], notify) ELSE g.peers[id]
  BY <1>1, ClosingOf
<1> HIDE DEF c
<1>3. /\ k \in GuestSet /\ k.status = "run" /\ k.in = g.in /\ k.out = g.out /\ k.exited = TRUE
      /\ k.nextId = g.nextId /\ k.peers = c.peers
  BY <1>2 DEF GuestSet
<1> HIDE DEF k
<1>4. \A id \in Streams : /\ g.peers[id] \in GuestPeers \cup {NoRelay}
                          /\ g.peers[id] = NoRelay => k.peers[id] = NoRelay
                          /\ g.peers[id] # NoRelay => k.peers[id] = Ending(g.peers[id], notify)
  BY <1>1, <1>2, <1>3, GuestOf
<1>5. \A id \in Streams : /\ k.peers[id] \in GuestPeers \cup {NoRelay}
                          /\ k.peers[id] = NoRelay <=> g.peers[id] = NoRelay
                          /\ k.peers[id] # NoRelay => k.peers[id].closing /\ k.peers[id].queue = g.peers[id].queue
                          /\ GuestQueue(k.peers[id], id) = GuestQueue(g.peers[id], id)
  BY <1>4, EndingOf
<1>6. GuestHeld(k)
  BY <1>0, <1>3, <1>5 DEF GuestHeld, Live
<1>7. UpOf(h, k, up) = U /\ DownOf(h, k, dn) = D
  BY <1>3 DEF UpOf, DownOf
<1>8. ASSUME NEW id \in Streams, h.status = "run" PROVE Carried(h, k, U, D, e, id)
  <2> DEFINE p == h.peers[id]
             r == g.peers[id]
             s == k.peers[id]
  <2>1. Carried(h, g, U, D, e, id)
    BY <1>0, <1>8 DEF StreamsHeld
  <2>2. /\ p \in HostPeers \cup {NoRelay} /\ r \in GuestPeers \cup {NoRelay} /\ g.nextId \in Nat
        /\ s \in GuestPeers \cup {NoRelay} /\ (r = NoRelay <=> s = NoRelay) /\ (s # NoRelay => s.closing)
        /\ GuestQueue(s, id) = GuestQueue(r, id)
    BY <1>1, <1>5, HostOf, GuestOf
  <2>3. h.peers[id] = p /\ g.peers[id] = r /\ k.peers[id] = s
    OBVIOUS
  <2> HIDE DEF p, r, s, U, D
  <2>4. UpSound(p, U, id) /\ Stream(p, r, U, D, e, g.exited, g.nextId, id)
    BY <2>1, <2>3 DEF Carried
  <2>5. GuestOn(s, D, id) \subseteq GuestOn(r, D, id)
    BY <2>2 DEF GuestOn
  <2>6. Stream(p, s, U, D, e, TRUE, g.nextId, id)
    <3>1. U \in Seq(Parcel) /\ D \in Seq(Parcel)
      BY <1>1 DEF U, D
    <3> QED
      BY <1>1, <2>2, <2>4, <2>5, <3>1, StreamGuestEnds
  <2> QED
    BY <1>3, <2>3, <2>4, <2>6 DEF Carried
<1>9. /\ k.in # NoRelay => k.in.kind = "DATA"
      /\ NoOpens(dn) /\ NoOpens(Frames(h.out))
  BY <1>0, <1>3 DEF Shaped
<1>10. Kept(h, k, up, dn, e)
  BY <1>1, <1>3, <1>6, <1>7, <1>8, <1>9, GuestMoves
<1> QED
  BY <1>3, <1>10 DEF k, c

\* The lane has ended, after the host.
LEMMA GuestEofKeeps ==
  ASSUME NEW h, NEW g, NEW up, NEW dn, NEW e, Kept(h, g, up, dn, e), g.status = "run", h.status # "run",
         ~g.exited
  PROVE  LET k == [Closing(g, Streams, FALSE) EXCEPT !.eof = TRUE]
         IN  Kept(h, k, up, dn, e) /\ k.status = "run"
<1> DEFINE c == Closing(g, Streams, FALSE)
           k == [c EXCEPT !.eof = TRUE]
<1>0. Shaped(h, g, up, dn, e) /\ GuestHeld(g)
  BY DEF Kept
<1>1. /\ g \in GuestSet /\ up \in Seq(Parcel) /\ dn \in Seq(Parcel) /\ e \in EndsSet
  BY <1>0, ShapedOf
<1>2. /\ c \in GuestSet /\ c.status = g.status /\ c.program = g.program /\ c.in = g.in /\ c.out = g.out
      /\ c.eof = g.eof /\ c.exited = g.exited /\ c.nextId = g.nextId
      /\ \A id \in Streams : c.peers[id] = IF id \in Streams /\ g.peers[id] # NoRelay
                                           THEN Ending(g.peers[id], FALSE) ELSE g.peers[id]
  BY <1>1, ClosingQuiet, Zenon
<1> HIDE DEF c
<1>3. /\ k \in GuestSet /\ k.status = "run" /\ k.in = g.in /\ k.out = g.out /\ k.exited = g.exited
      /\ k.peers = c.peers
  BY <1>2 DEF GuestSet
<1> HIDE DEF k
<1>4. \A id \in Streams : /\ g.peers[id] \in GuestPeers \cup {NoRelay}
                          /\ g.peers[id] = NoRelay => k.peers[id] = NoRelay
                          /\ g.peers[id] # NoRelay => k.peers[id] = Ending(g.peers[id], FALSE)
  BY <1>1, <1>2, <1>3, GuestOf
<1>5. \A id \in Streams : /\ k.peers[id] = NoRelay <=> g.peers[id] = NoRelay
                          /\ k.peers[id] # NoRelay => k.peers[id].queue = g.peers[id].queue
  BY <1>4, EndingOf
<1>6. GuestHeld(k)
  BY <1>0, <1>3, <1>5 DEF GuestHeld, Live
<1>9. /\ k.in # NoRelay => k.in.kind = "DATA"
      /\ NoOpens(dn) /\ NoOpens(Frames(h.out))
  BY <1>0, <1>3 DEF Shaped
<1>10. Kept(h, k, up, dn, e)
  BY <1>1, <1>3, <1>6, <1>9, GuestMoves
<1> QED
  BY <1>3, <1>10 DEF k, c

\* One connection ends: it closes, or a write to it has failed and what it held is gone.
LEMMA EndPeerKeeps ==
  ASSUME NEW h, NEW g, NEW up, NEW dn, NEW e, Kept(h, g, up, dn, e), g.status = "run",
         NEW id \in Streams, g.peers[id] # NoRelay, NEW q \in GuestPeers,
         q.closing, q.notify, q.queue = <<>> \/ q.queue = g.peers[id].queue
  PROVE  Kept(h, PutPeer(g, id, q), up, dn, e) /\ PutPeer(g, id, q).status = "run"
<1> DEFINE p == h.peers[id]
           r == g.peers[id]
           U == UpOf(h, g, up)
           D == DownOf(h, g, dn)
<1>0. Shaped(h, g, up, dn, e) /\ GuestHeld(g) /\ StreamsHeld(h, g, up, dn, e)
  BY DEF Kept
<1>1. /\ h \in HostSet /\ g \in GuestSet /\ e \in EndsSet /\ U \in Seq(Parcel) /\ D \in Seq(Parcel)
  BY <1>0, ShapedOf
<1>2. p \in HostPeers \cup {NoRelay} /\ r \in GuestPeers /\ g.nextId \in Nat /\ r # NoRelay /\ q # NoRelay
  BY <1>1, HostOf, GuestOf, StreamFacts
<1>3. h.peers[id] = p /\ g.peers[id] = r /\ UpOf(h, g, up) = U /\ DownOf(h, g, dn) = D
  OBVIOUS
<1>4. Len(r.queue) <= QueueLimit /\ Len(<<>>) = 0
  BY <1>0 DEF GuestHeld, Live
<1>5. h.status = "run" => Carried(h, g, U, D, e, id)
  BY <1>0 DEF StreamsHeld
<1>6. q.queue = <<>> \/ q.queue = r.queue
  OBVIOUS
<1> HIDE DEF p, r, U, D
<1>7. GuestOn(q, D, id) \subseteq GuestOn(r, D, id)
  <2>1. Keys(GuestQueue(q, id), id) \subseteq Keys(GuestQueue(r, id), id)
    <3>1. CASE q.queue = <<>>
      BY <1>2, <3>1, GuestQueueOf
    <3>2. CASE q.queue = r.queue
      BY <1>2, <3>2 DEF GuestQueue
    <3> QED
      BY <1>6, <3>1, <3>2
  <2> QED
    BY <2>1 DEF GuestOn
<1>8. h.status = "run" => Stream(p, q, U, D, e, g.exited, g.nextId, id)
  <2>1. h.status = "run" => Stream(p, r, U, D, e, g.exited, g.nextId, id)
    BY <1>3, <1>5 DEF Carried
  <2> QED
    BY <1>1, <1>2, <1>7, <2>1, StreamGuestEnds
<1>9. \A j \in Streams : j # id => SameEnds(e, e, j)
  BY DEF SameEnds
<1>10. Len(q.queue) <= QueueLimit
  BY <1>4, <1>6, StreamFacts
<1> QED
  BY <1>1, <1>3, <1>8, <1>9, <1>10, GuestPutKeeps

\* A chunk is written to the connection.
LEMMA DeliverDownKeeps ==
  ASSUME NEW h, NEW g, NEW up, NEW dn, NEW e, Kept(h, g, up, dn, e), g.status = "run",
         NEW id \in Streams, g.peers[id] # NoRelay, g.peers[id].queue # <<>>
  PROVE  LET q == [g.peers[id] EXCEPT !.queue = Tail(g.peers[id].queue)]
             x == [e EXCEPT !.gotDown[id] = Head(g.peers[id].queue)]
         IN  Kept(h, PutPeer(g, id, q), up, dn, x) /\ PutPeer(g, id, q).status = "run"
<1> DEFINE p == h.peers[id]
           r == g.peers[id]
           U == UpOf(h, g, up)
           D == DownOf(h, g, dn)
           n == Head(r.queue)
           q == [r EXCEPT !.queue = Tail(r.queue)]
           x == [e EXCEPT !.gotDown[id] = n]
<1>0. Shaped(h, g, up, dn, e) /\ GuestHeld(g) /\ StreamsHeld(h, g, up, dn, e)
  BY DEF Kept
<1>1. /\ h \in HostSet /\ g \in GuestSet /\ e \in EndsSet /\ U \in Seq(Parcel) /\ D \in Seq(Parcel)
  BY <1>0, ShapedOf
<1>2. p \in HostPeers \cup {NoRelay} /\ r \in GuestPeers /\ g.nextId \in Nat /\ r # NoRelay
  BY <1>1, HostOf, GuestOf
<1>3. h.peers[id] = p /\ g.peers[id] = r /\ UpOf(h, g, up) = U /\ DownOf(h, g, dn) = D /\ r.queue # <<>>
  OBVIOUS
<1>4. Len(r.queue) <= QueueLimit /\ (g.exited => r.closing)
  BY <1>0 DEF GuestHeld, Live
<1>5. h.status = "run" => Carried(h, g, U, D, e, id)
  BY <1>0 DEF StreamsHeld
<1> HIDE DEF p, r, U, D
<1>6. /\ r.queue \in Seq(1 .. MaxData) /\ Tail(r.queue) \in Seq(1 .. MaxData)
      /\ Len(Tail(r.queue)) <= Len(r.queue) /\ Len(r.queue) \in Nat /\ Len(Tail(r.queue)) \in Nat
      /\ n \in 1 .. MaxData
  <2>1. r.queue \in Seq(1 .. MaxData)
    BY <1>2, GuestPeerOf
  <2>2. n \in 1 .. MaxData /\ Tail(r.queue) \in Seq(1 .. MaxData)
    BY <1>3, <2>1, SplitHead
  <2>3. Len(Tail(r.queue)) = Len(r.queue) - 1 /\ Len(r.queue) \in Nat /\ Len(r.queue) # 0
    BY <1>3, <2>1
  <2> QED
    BY <2>1, <2>2, <2>3
<1>7. q \in GuestPeers /\ q.queue = Tail(r.queue) /\ q.closing = r.closing /\ q.notify = r.notify
  <2> DEFINE a == Tail(r.queue)
  <2>1. q = [r EXCEPT !.queue = a] /\ a \in Seq(1 .. MaxData)
    BY <1>6
  <2> HIDE DEF a, q
  <2>2. q \in GuestPeers /\ q.queue = a /\ q.closing = r.closing /\ q.notify = r.notify
    BY <1>2, <2>1 DEF GuestPeers
  <2> QED
    BY <2>2 DEF a
<1> HIDE DEF q
<1>8. /\ x \in EndsSet /\ x.gotDown[id] = n /\ x.sentUp[id] = e.sentUp[id] /\ x.sentDown[id] = e.sentDown[id]
      /\ x.gotUp[id] = e.gotUp[id]
      /\ \A j \in Streams : j # id => SameEnds(e, x, j)
  <2>1. n \in 0 .. MaxData
    BY <1>6
  <2> HIDE DEF n
  <2> QED
    BY <1>1, <2>1 DEF EndsSet, Counts, SameEnds
<1>14. n = Head(r.queue)
  OBVIOUS
<1> HIDE DEF x, n
<1>9. h.status = "run" => Stream(p, q, U, D, x, g.exited, g.nextId, id)
  <2> SUFFICES ASSUME h.status = "run" PROVE Stream(p, q, U, D, x, g.exited, g.nextId, id)
    OBVIOUS
  <2>1. Stream(p, r, U, D, e, g.exited, g.nextId, id)
    BY <1>3, <1>5 DEF Carried
  <2>2. DownSound(r, D, id)
    BY <2>1 DEF Stream, DownWhole
  <2>3. /\ DownSound(q, D, id) /\ GuestOn(r, D, id) = GuestOn(q, D, id) \cup {n}
        /\ ~r.closing => \A l \in GuestOn(q, D, id) : n < l
    BY <1>1, <1>2, <1>3, <1>7, <1>14, <2>2, DownDelivered
  <2> QED
    BY <1>1, <1>2, <1>6, <1>7, <1>8, <2>1, <2>3, StreamGuestDelivers
<1>10. Len(q.queue) <= QueueLimit /\ (g.exited => q.closing)
  BY <1>4, <1>6, <1>7, StreamFacts
<1>11. Kept(h, PutPeer(g, id, q), up, dn, x) /\ PutPeer(g, id, q).status = "run"
  BY <1>2, <1>3, <1>7, <1>8, <1>9, <1>10, GuestPutKeeps
<1> QED
  BY <1>11 DEF q, x, n, r

\* A frame joins the output of the guest.
LEMMA GuestPushed ==
  ASSUME NEW h \in HostSet, NEW g \in GuestSet, NEW up \in Seq(Parcel), NEW f \in Parcel,
         NEW k, k.out = Push(g.out, f)
  PROVE  UpOf(h, k, up) = UpOf(h, g, up) \o <<f>>
<1> DEFINE v == <<f>>
           o == Frames(g.out)
<1>1. g.out \in Seq(Entry) /\ h.in \in Parcel \cup {NoRelay} /\ v \in Seq(Parcel)
  BY HostOf, GuestOf
<1>2. o \in Seq(Parcel)
  BY <1>1, FramesOf
<1>3. Frames(k.out) = o \o v
  BY <1>1, FramesPush
<1> HIDE DEF v, o
<1>4. \A in \in Parcel \cup {NoRelay}, l \in Seq(Parcel), a \in Seq(Parcel), w \in Seq(Parcel) :
        Way(in, l, a \o w) = Way(in, l, a) \o w
  BY WayPush
<1>5. Way(h.in, up, o \o v) = Way(h.in, up, o) \o v
  BY <1>1, <1>2, <1>4, Zenon
<1> QED
  BY <1>3, <1>5 DEF UpOf, o, v

\* The next id to be given out is higher than before.
LEMMA StreamLater ==
  ASSUME NEW p, NEW r, NEW U, NEW D, NEW e, NEW b, NEW n \in Nat, NEW m \in Nat, n <= m, NEW id \in Streams,
         Stream(p, r, U, D, e, b, n, id)
  PROVE  Stream(p, r, U, D, e, b, m, id)
<1>1. id >= m => id >= n
  BY DEF Streams
<1> QED
  BY <1>1 DEF Stream

\* A program connects: its stream is new at both ends.
LEMMA AcceptKeeps ==
  ASSUME NEW h, NEW g, NEW up, NEW dn, NEW e, Kept(h, g, up, dn, e), g.status = "run",
         ~g.exited, g.nextId <= MaxStreams, Room(g.out) >= 1
  PROVE  LET id == g.nextId
             k == [g EXCEPT !.nextId = id + 1, !.peers[id] = GuestPeer,
                            !.out = Push(g.out, Frame("OPEN", id, 0))]
         IN  Kept(h, k, up, dn, e) /\ k.status = "run"
<1> DEFINE id == g.nextId
           f == Frame("OPEN", id, 0)
           a == Push(g.out, f)
           ps == [g.peers EXCEPT ![id] = GuestPeer]
           k == [g EXCEPT !.nextId = id + 1, !.peers[id] = GuestPeer, !.out = a]
           U == UpOf(h, g, up)
           D == DownOf(h, g, dn)
           V == UpOf(h, k, up)
<1>0. Shaped(h, g, up, dn, e) /\ GuestHeld(g) /\ StreamsHeld(h, g, up, dn, e)
  BY DEF Kept
<1>1. /\ h \in HostSet /\ g \in GuestSet /\ up \in Seq(Parcel) /\ dn \in Seq(Parcel) /\ e \in EndsSet
      /\ U \in Seq(Parcel) /\ D \in Seq(Parcel)
  BY <1>0, ShapedOf
<1>2. id \in Streams /\ id \in Nat /\ id + 1 \in 1 .. MaxStreams + 1 /\ id + 1 \in Nat
  BY <1>1, GuestOf, StreamFacts DEF Streams
<1>3. f \in Parcel /\ f.kind = "OPEN" /\ f.id = id /\ Key(f) = 0
  BY <1>2, FrameOf, StreamFacts DEF Parcel, Frame
<1>4. GuestPeer \in GuestPeers /\ GuestPeer.queue = <<>> /\ ~GuestPeer.closing
  BY DEF GuestPeer, GuestPeers
<1>5. g.out \in Seq(Entry) /\ Ageing(g.out) /\ g.peers \in [Streams -> GuestPeers \cup {NoRelay}]
  BY <1>0, <1>1, GuestOf DEF GuestHeld
<1>6. a \in Seq(Entry) /\ Used(Frames(a)) <= OutLimit /\ Ageing(a)
  BY <1>3, <1>5, OutPush
<1>7. ps \in [Streams -> GuestPeers \cup {NoRelay}] /\ ps[id] = GuestPeer
      /\ \A j \in Streams : j # id => ps[j] = g.peers[j]
  BY <1>2, <1>4, <1>5
<1>8. k = [g EXCEPT !.nextId = id + 1, !.peers = ps, !.out = a]
  BY <1>1 DEF GuestSet
<1>20. k.out = a
  BY <1>1 DEF GuestSet
<1> HIDE DEF a, k, f
<1>9. V = U \o <<f>>
  BY <1>1, <1>3, <1>20, GuestPushed DEF a
<1> DEFINE m == id + 1
<1>23. g.nextId = id
  OBVIOUS
<1> HIDE DEF a, ps, k, f, m, id
<1>10. /\ k \in GuestSet /\ k.status = "run" /\ k.in = g.in /\ k.out = a /\ k.exited = g.exited
       /\ k.nextId = m /\ k.peers = ps
  BY <1>1, <1>2, <1>6, <1>7, <1>8 DEF GuestSet, m
<1>11. GuestHeld(k)
  <2>1. \A j \in Live(k.peers) : j # id => j \in Live(g.peers) /\ k.peers[j] = g.peers[j]
    BY <1>7, <1>10 DEF Live
  <2>2. Len(GuestPeer.queue) = 0
    BY <1>4
  <2>3. k.peers[id] = GuestPeer
    BY <1>7, <1>10
  <2>4. \A j \in Live(k.peers) : Len(k.peers[j].queue) <= QueueLimit
    BY <1>0, <2>1, <2>2, <2>3, StreamFacts DEF GuestHeld
  <2> QED
    BY <1>6, <1>10, <2>4 DEF GuestHeld
<1>12. DownOf(h, k, dn) = D
  BY <1>10 DEF DownOf
<1>13. \A j \in Streams : h.status = "run" => Carried(h, g, U, D, e, j)
  BY <1>0 DEF StreamsHeld
<1>14. V \in Seq(Parcel) /\ m \in Nat /\ id < m /\ id <= m
  <2>1. <<f>> \in Seq(Parcel)
    BY <1>3
  <2> QED
    BY <1>1, <1>2, <1>9, <2>1 DEF m
<1> HIDE DEF U, D, V
<1>21. U \in Seq(Parcel) /\ D \in Seq(Parcel)
  BY <1>1 DEF U, D
<1>15. ASSUME NEW j \in Streams, h.status = "run" PROVE Carried(h, k, V, D, e, j)
  <2> DEFINE p == h.peers[j]
             r == g.peers[j]
  <2>1. p \in HostPeers \cup {NoRelay} /\ r \in GuestPeers \cup {NoRelay}
    BY <1>1, HostOf, GuestOf
  <2>2. h.peers[j] = p /\ g.peers[j] = r
    OBVIOUS
  <2> HIDE DEF p, r
  <2>3. UpSound(p, U, j) /\ Stream(p, r, U, D, e, FALSE, id, j)
    <3>1. g.exited = FALSE
      BY <1>1, GuestOf
    <3> QED
      BY <1>13, <1>15, <1>23, <2>2, <3>1 DEF Carried
  <2>4. DownSound(r, D, j)
    BY <2>3 DEF Stream, DownWhole
  <2>5. f.id = j => p = NoRelay /\ r = NoRelay /\ Keys(U, j) = {} /\ Keys(D, j) = {} /\ Fresh(p, r, U, D, e, j)
    BY <1>2, <1>3, <2>3 DEF Stream, Fresh
  <2>6. UpSound(p, V, j) /\ Keys(V, j) = Keys(U, j) \cup (IF f.id = j THEN {Key(f)} ELSE {})
    <3>1. f.id = j => /\ \A x \in HostOn(p, U, j) : x < Key(f)
                      /\ p # NoRelay => f.kind # "OPEN" /\ ~p.closed
      BY <2>5, HostOnNone
    <3>2. /\ UpSound(p, U \o <<f>>, j) /\ U \o <<f>> \in Seq(Parcel)
          /\ Keys(U \o <<f>>, j) = Keys(U, j) \cup (IF f.id = j THEN {Key(f)} ELSE {})
      <4>1. f \in Parcel
        BY <1>3
      <4>2. UpSound(p, U, j)
        BY <2>3
      <4>3. UpSound(p, U \o <<f>>, j)
        BY <1>21, <2>1, <3>1, <4>1, <4>2, UpPush
      <4>4. /\ U \o <<f>> \in Seq(Parcel)
            /\ Keys(U \o <<f>>, j) = Keys(U, j) \cup (IF f.id = j THEN {Key(f)} ELSE {})
        BY <1>21, <4>1, KeysPush
      <4> QED
        BY <4>3, <4>4
    <3> QED
      BY <1>9, <3>2
  <2>7. CASE j = id
    <3>1. Keys(V, j) = {0}
      BY <1>3, <2>5, <2>6, <2>7
    <3>2. DownSound(GuestPeer, D, j)
      <4>1. /\ GuestQueue(GuestPeer, j) \in Seq(Parcel) /\ Keys(GuestQueue(GuestPeer, j), j) = {}
            /\ Rising(GuestQueue(GuestPeer, j), j)
        BY <1>4, StreamFacts, GuestQueueOf
      <4>2. Rising(D, j)
        BY <1>3, <2>5, <2>7 DEF Rising, Keys
      <4>3. Before(Keys(GuestQueue(GuestPeer, j), j), Keys(D, j))
        BY <4>1 DEF Before
      <4>4. Rising(GuestQueue(GuestPeer, j) \o D, j)
        BY <1>21, <4>1, <4>2, <4>3, KeysConcat
      <4> QED
        BY <4>4 DEF DownSound
    <3>3. Stream(p, GuestPeer, V, D, e, FALSE, m, j)
      BY <1>1, <1>3, <1>14, <1>21, <2>1, <2>5, <2>7, <3>1, <3>2, StreamOpens
    <3>4. k.peers[j] = GuestPeer /\ k.exited = FALSE
      BY <1>1, <1>7, <1>10, <2>7, GuestOf
    <3> QED
      BY <1>10, <2>2, <2>6, <3>3, <3>4 DEF Carried
  <2>8. CASE j # id
    <3>1. Keys(V, j) = Keys(U, j) /\ SameEnds(e, e, j)
      BY <1>3, <2>6, <2>8 DEF SameEnds
    <3>2. Stream(p, r, V, D, e, FALSE, id, j)
      BY <2>3, <2>4, <3>1, StreamSame
    <3>3. Stream(p, r, V, D, e, FALSE, m, j)
      BY <1>2, <1>14, <3>2, StreamLater
    <3>4. k.peers[j] = r /\ k.exited = FALSE
      BY <1>1, <1>7, <1>10, <2>2, <2>8, GuestOf
    <3> QED
      BY <1>10, <2>2, <2>6, <3>3, <3>4 DEF Carried
  <2> QED
    BY <2>7, <2>8
<1>16. /\ k.in # NoRelay => k.in.kind = "DATA"
       /\ NoOpens(dn) /\ NoOpens(Frames(h.out))
  BY <1>0, <1>10 DEF Shaped
<1>17. Kept(h, k, up, dn, e)
  BY <1>1, <1>10, <1>11, <1>12, <1>15, <1>16, GuestMoves DEF V
<1> QED
  BY <1>10, <1>17 DEF k, a, f, id

\* A payload of the program joins the output.
LEMMA SendUpKeeps ==
  ASSUME NEW h, NEW g, NEW up, NEW dn, NEW e, Kept(h, g, up, dn, e), g.status = "run",
         NEW id \in Streams, g.peers[id] # NoRelay, Room(g.out) > 1, e.sentUp[id] < MaxData
  PROVE  LET k == [g EXCEPT !.out = Push(g.out, Frame("DATA", id, e.sentUp[id] + 1))]
             x == [e EXCEPT !.sentUp[id] = e.sentUp[id] + 1]
         IN  Kept(h, k, up, dn, x) /\ k.status = "run"
<1> DEFINE n == e.sentUp[id] + 1
           f == Frame("DATA", id, n)
           a == Push(g.out, f)
           k == [g EXCEPT !.out = a]
           x == [e EXCEPT !.sentUp[id] = n]
           U == UpOf(h, g, up)
           D == DownOf(h, g, dn)
           V == UpOf(h, k, up)
<1>0. Shaped(h, g, up, dn, e) /\ GuestHeld(g) /\ StreamsHeld(h, g, up, dn, e)
  BY DEF Kept
<1>1. /\ h \in HostSet /\ g \in GuestSet /\ up \in Seq(Parcel) /\ dn \in Seq(Parcel) /\ e \in EndsSet
      /\ U \in Seq(Parcel) /\ D \in Seq(Parcel)
  BY <1>0, ShapedOf
<1>2. n \in 1 .. MaxData /\ e.sentUp[id] \in 0 .. MaxData /\ e.sentUp[id] = n - 1
  BY <1>1, EndsOf, StreamFacts
<1>3. /\ x \in EndsSet /\ x.gotUp[id] = e.gotUp[id] /\ x.sentUp[id] = n /\ x.sentDown[id] = e.sentDown[id]
      /\ x.gotDown[id] = e.gotDown[id]
      /\ \A j \in Streams : j # id => SameEnds(e, x, j)
  <2>1. n \in 0 .. MaxData
    BY <1>2
  <2> HIDE DEF n
  <2> QED
    BY <1>1, <2>1 DEF EndsSet, Counts, SameEnds
<1> HIDE DEF n, x
<1>4. f \in Parcel /\ f.kind = "DATA" /\ f.id = id /\ Key(f) = n
  BY <1>2, FrameOf, StreamFacts DEF Parcel, Frame
<1>5. g.out \in Seq(Entry) /\ Ageing(g.out)
  BY <1>0, <1>1, GuestOf DEF GuestHeld
<1>18. Room(g.out) >= 2
  BY <1>5, RoomOf
<1>6. a \in Seq(Entry) /\ Used(Frames(a)) <= OutLimit /\ Ageing(a)
  BY <1>4, <1>5, <1>18, OutPush
<1>20. k.out = a
  BY <1>1 DEF GuestSet
<1> HIDE DEF a, f
<1>10. /\ k \in GuestSet /\ k.status = "run" /\ k.in = g.in /\ k.out = a /\ k.exited = g.exited
       /\ k.nextId = g.nextId /\ k.peers = g.peers
  BY <1>1, <1>6, <1>20 DEF GuestSet
<1> HIDE DEF k
<1>9. V = U \o <<f>>
  BY <1>1, <1>4, <1>10, GuestPushed, Zenon DEF a
<1>11. GuestHeld(k)
  BY <1>0, <1>6, <1>10 DEF GuestHeld
<1>12. DownOf(h, k, dn) = D
  BY <1>10 DEF DownOf
<1>13. \A j \in Streams : h.status = "run" => Carried(h, g, U, D, e, j)
  BY <1>0 DEF StreamsHeld
<1>14. V \in Seq(Parcel)
  <2>1. <<f>> \in Seq(Parcel)
    BY <1>4
  <2> QED
    BY <1>1, <1>9, <2>1
<1> HIDE DEF U, D, V
<1>21. U \in Seq(Parcel) /\ D \in Seq(Parcel)
  BY <1>1 DEF U, D
<1>15. ASSUME NEW j \in Streams, h.status = "run" PROVE Carried(h, k, V, D, x, j)
  <2> DEFINE p == h.peers[j]
             r == g.peers[j]
  <2>1. p \in HostPeers \cup {NoRelay} /\ r \in GuestPeers \cup {NoRelay} /\ g.nextId \in Nat
    BY <1>1, HostOf, GuestOf
  <2>2. h.peers[j] = p /\ g.peers[j] = r /\ (j = id => r # NoRelay)
    OBVIOUS
  <2> HIDE DEF p, r
  <2>3. UpSound(p, U, j) /\ Stream(p, r, U, D, e, g.exited, g.nextId, j)
    BY <1>13, <1>15, <2>2 DEF Carried
  <2>4. DownSound(r, D, j)
    BY <2>3 DEF Stream, DownWhole
  <2>5. j = id => (\A y \in HostOn(p, U, j) : y < n) /\ (p # NoRelay => ~p.closed)
    <3> SUFFICES ASSUME j = id PROVE (\A y \in HostOn(p, U, j) : y < n) /\ (p # NoRelay => ~p.closed)
      OBVIOUS
    <3>1. Last \notin Keys(U, j) /\ (p # NoRelay => ~p.closed)
      BY <2>2, <2>3 DEF Stream, Agreed
    <3>2. Last \notin HostOn(p, U, j) /\ HostOn(p, U, j) \subseteq 0 .. e.sentUp[j] \cup {Last}
      BY <1>21, <2>1, <2>3, <3>1, HostOnOf DEF Stream, UpWhole
    <3> QED
      BY <1>2, <3>1, <3>2
  <2>6. UpSound(p, V, j) /\ Keys(V, j) = Keys(U, j) \cup (IF id = j THEN {n} ELSE {})
    <3>1. f.id = j => /\ \A y \in HostOn(p, U, j) : y < Key(f)
                      /\ p # NoRelay => f.kind # "OPEN" /\ ~p.closed
      BY <1>4, <2>5
    <3>2. /\ UpSound(p, U \o <<f>>, j) /\ U \o <<f>> \in Seq(Parcel)
          /\ Keys(U \o <<f>>, j) = Keys(U, j) \cup (IF f.id = j THEN {Key(f)} ELSE {})
      <4>1. f \in Parcel
        BY <1>4
      <4>2. UpSound(p, U, j)
        BY <2>3
      <4>3. UpSound(p, U \o <<f>>, j)
        BY <1>21, <2>1, <3>1, <4>1, <4>2, UpPush
      <4>4. /\ U \o <<f>> \in Seq(Parcel)
            /\ Keys(U \o <<f>>, j) = Keys(U, j) \cup (IF f.id = j THEN {Key(f)} ELSE {})
        BY <1>21, <4>1, KeysPush
      <4> QED
        BY <4>3, <4>4
    <3> QED
      BY <1>4, <1>9, <3>2
  <2>7. CASE j = id
    <3>1. /\ Keys(V, j) = Keys(U, j) \cup {e.sentUp[j] + 1} /\ x.sentUp[j] = e.sentUp[j] + 1
      BY <2>6, <2>7, <1>3 DEF n
    <3>2. r \in GuestPeers
      BY <2>1, <2>2, <2>7
    <3>3. Stream(p, r, V, D, x, g.exited, g.nextId, j)
      BY <1>1, <1>3, <1>14, <1>21, <2>1, <2>3, <2>7, <3>1, <3>2, StreamSendsUp
    <3> QED
      BY <1>10, <2>2, <2>6, <3>3 DEF Carried
  <2>8. CASE j # id
    <3>1. Keys(V, j) = Keys(U, j) /\ SameEnds(e, x, j)
      BY <1>3, <2>6, <2>8
    <3>2. Stream(p, r, V, D, x, g.exited, g.nextId, j)
      BY <2>3, <2>4, <3>1, StreamSame
    <3> QED
      BY <1>10, <2>2, <2>6, <3>2 DEF Carried
  <2> QED
    BY <2>7, <2>8
<1>16. /\ k.in # NoRelay => k.in.kind = "DATA"
       /\ NoOpens(dn) /\ NoOpens(Frames(h.out))
  BY <1>0, <1>10 DEF Shaped
<1>17. Kept(h, k, up, dn, x)
  BY <1>1, <1>3, <1>10, <1>11, <1>12, <1>15, <1>16, GuestMoves DEF V
<1> QED
  BY <1>10, <1>17 DEF k, a, f, x, n

\* The first frame of the guest's output is written into the lane.
LEMMA WriteUpKeeps ==
  ASSUME NEW h, NEW g, NEW up, NEW dn, NEW e, Kept(h, g, up, dn, e), g.status = "run", g.out # <<>>
  PROVE  LET k == [g EXCEPT !.out = Tail(g.out)]
         IN  Kept(h, k, Append(up, Head(g.out).frame), dn, e) /\ k.status = "run"
<1> DEFINE f == Head(g.out).frame
           t == Tail(g.out)
           k == [g EXCEPT !.out = t]
           u == Append(up, f)
<1>0. Shaped(h, g, up, dn, e) /\ GuestHeld(g) /\ StreamsHeld(h, g, up, dn, e)
  BY DEF Kept
<1>1. /\ h \in HostSet /\ g \in GuestSet /\ up \in Seq(Parcel) /\ dn \in Seq(Parcel) /\ e \in EndsSet
      /\ Frames(g.out) \in Seq(Parcel)
  BY <1>0, ShapedOf
<1>2. g.out \in Seq(Entry) /\ Used(Frames(g.out)) <= OutLimit /\ Ageing(g.out)
  BY <1>0, <1>1, GuestOf DEF GuestHeld
<1>3. /\ t \in Seq(Entry) /\ f \in Parcel /\ Frames(g.out) = <<f>> \o Frames(t)
      /\ Used(Frames(t)) <= OutLimit /\ Ageing(t) /\ Frames(t) \in Seq(Parcel)
  <2>1. t \in Seq(Entry)
    BY <1>2, FramesTail
  <2> QED
    BY <1>2, <2>1, FramesTail, OutTail, FramesOf
<1> HIDE DEF f, t
<1>4. /\ k \in GuestSet /\ k.status = "run" /\ k.in = g.in /\ k.peers = g.peers /\ k.exited = g.exited
      /\ k.nextId = g.nextId /\ k.out = t
  BY <1>1, <1>3 DEF GuestSet
<1> HIDE DEF k
<1>5. u \in Seq(Parcel)
  BY <1>1, <1>3
<1>6. GuestHeld(k)
  BY <1>0, <1>3, <1>4 DEF GuestHeld
<1>7. UpOf(h, k, u) = UpOf(h, g, up) /\ DownOf(h, k, dn) = DownOf(h, g, dn)
  <2>1. DownOf(h, k, dn) = DownOf(h, g, dn)
    BY <1>4 DEF DownOf
  <2>2. \A in \in Parcel \cup {NoRelay}, l \in Seq(Parcel), o \in Seq(Parcel), a \in Parcel :
          Way(in, Append(l, a), o) = Way(in, l, <<a>> \o o)
    BY WayWrites
  <2>3. h.in \in Parcel \cup {NoRelay}
    BY <1>1, HostOf
  <2>4. Way(h.in, Append(up, f), Frames(t)) = Way(h.in, up, <<f>> \o Frames(t))
    BY <1>1, <1>3, <2>2, <2>3, Zenon
  <2> QED
    BY <1>3, <1>4, <2>1, <2>4 DEF UpOf
<1>8. h.status = "run" => \A id \in Streams : Carried(h, k, UpOf(h, k, u), DownOf(h, k, dn), e, id)
  BY <1>0, <1>4, <1>7 DEF StreamsHeld, Carried
<1>9. /\ k.in # NoRelay => k.in.kind = "DATA"
      /\ NoOpens(dn) /\ NoOpens(Frames(h.out))
  BY <1>0, <1>4 DEF Shaped
<1> HIDE DEF u
<1>10. Kept(h, k, u, dn, e)
  BY <1>1, <1>4, <1>5, <1>6, <1>8, <1>9, GuestMoves
<1> QED
  BY <1>4, <1>10 DEF k, u, f, t

\* A frame leaves the way down; nothing else of another stream changes.
LEMMA OtherLeft ==
  ASSUME NEW h, NEW g, NEW U, NEW D, NEW e, NEW id \in Streams, Carried(h, g, U, D, e, id), g.status = "run",
         NEW f \in Parcel, NEW E \in Seq(Parcel), D = <<f>> \o E, f.id # id,
         g.peers[id] \in GuestPeers \cup {NoRelay},
         NEW k, k.peers[id] = g.peers[id], k.exited = g.exited, k.nextId = g.nextId
  PROVE  Carried(h, k, U, E, e, id)
<1> DEFINE r == g.peers[id]
           p == h.peers[id]
<1>1. UpSound(p, U, id) /\ Stream(p, r, U, D, e, g.exited, g.nextId, id) /\ r \in GuestPeers \cup {NoRelay}
  BY DEF Carried
<1>2. k.peers[id] = r /\ h.peers[id] = p
  OBVIOUS
<1> HIDE DEF r, p
<1>3. DownSound(r, <<f>> \o E, id)
  BY <1>1 DEF Stream, DownWhole
<1>4. DownSound(r, E, id)
  BY <1>1, <1>3, DownTake
<1>5. Keys(E, id) = Keys(D, id)
  <2>1. Keys(<<f>> \o E, id) = Keys(E, id) \cup (IF f.id = id THEN {Key(f)} ELSE {})
    BY KeysTake
  <2> QED
    BY <2>1
<1>6. SameEnds(e, e, id)
  BY DEF SameEnds
<1>7. Stream(p, r, U, E, e, g.exited, g.nextId, id)
  BY <1>1, <1>4, <1>5, <1>6, StreamSame
<1> QED
  BY <1>1, <1>2, <1>7 DEF Carried

\* The guest is done with a frame; at most the connection it belongs to has changed.
LEMMA FrameDone ==
  ASSUME NEW h, NEW g, NEW up, NEW dn, NEW e, Kept(h, g, up, dn, e), g.status = "run",
         NEW f \in Parcel, NEW d \in Seq(Parcel), NoOpens(d),
         DownOf(h, g, dn) = <<f>> \o Way(NoRelay, d, Frames(h.out)),
         NEW k \in GuestSet, k.status = "run", k.in = NoRelay, k.out = g.out, k.exited = g.exited,
         k.nextId = g.nextId, GuestHeld(k),
         \A j \in Streams : j # f.id => k.peers[j] = g.peers[j],
         h.status = "run" =>
           Stream(h.peers[f.id], k.peers[f.id], UpOf(h, g, up), Way(NoRelay, d, Frames(h.out)),
                  e, g.exited, g.nextId, f.id)
  PROVE  Kept(h, k, up, d, e)
<1> DEFINE U == UpOf(h, g, up)
           D == DownOf(h, g, dn)
           E == Way(NoRelay, d, Frames(h.out))
<1>0. Shaped(h, g, up, dn, e) /\ StreamsHeld(h, g, up, dn, e)
  BY DEF Kept
<1>1. /\ h \in HostSet /\ g \in GuestSet /\ up \in Seq(Parcel) /\ e \in EndsSet /\ Frames(h.out) \in Seq(Parcel)
  BY <1>0, ShapedOf
<1>2. E \in Seq(Parcel) /\ D = <<f>> \o E /\ f.id \in Streams
  <2>1. NoRelay \in Parcel \cup {NoRelay}
    OBVIOUS
  <2> QED
    BY <1>1, <2>1, WayOf, KeyOf
<1>3. UpOf(h, k, up) = U /\ DownOf(h, k, d) = E
  BY DEF UpOf, DownOf
<1>4. \A j \in Streams : h.status = "run" => Carried(h, g, U, D, e, j)
  BY <1>0 DEF StreamsHeld
<1>5. h.status = "run" => Stream(h.peers[f.id], k.peers[f.id], U, E, e, g.exited, g.nextId, f.id)
  OBVIOUS
<1>6. \A j \in Streams : g.peers[j] \in GuestPeers \cup {NoRelay}
  BY <1>1, GuestOf
<1> HIDE DEF U, D, E
<1>7. ASSUME NEW j \in Streams, h.status = "run" PROVE Carried(h, k, U, E, e, j)
  <2>1. CASE j = f.id
    BY <1>4, <1>5, <1>7, <2>1 DEF Carried
  <2>2. CASE j # f.id
    BY <1>2, <1>4, <1>6, <1>7, <2>2, OtherLeft
  <2> QED
    BY <2>1, <2>2
<1>8. NoOpens(Frames(h.out))
  BY <1>0 DEF Shaped
<1> QED
  BY <1>1, <1>3, <1>7, <1>8, GuestMoves

\* Closing one stream without owing a CLOSE.
LEMMA ClosingAlone ==
  ASSUME NEW g \in GuestSet, NEW i
  PROVE  LET k == Closing(g, {i}, FALSE)
         IN  /\ k \in GuestSet /\ k.status = g.status /\ k.in = g.in /\ k.out = g.out
             /\ k.exited = g.exited /\ k.nextId = g.nextId
             /\ \A id \in Streams : k.peers[id] = IF id \in {i} /\ g.peers[id] # NoRelay
                                                  THEN Ending(g.peers[id], FALSE) ELSE g.peers[id]
<1> DEFINE S == {i}
           k == Closing(g, S, FALSE)
<1>1. /\ k \in GuestSet /\ k.status = g.status /\ k.program = g.program /\ k.in = g.in /\ k.out = g.out
      /\ k.eof = g.eof /\ k.exited = g.exited /\ k.nextId = g.nextId
      /\ \A id \in Streams : k.peers[id] = IF id \in S /\ g.peers[id] # NoRelay
                                           THEN Ending(g.peers[id], FALSE) ELSE g.peers[id]
  <2> HIDE DEF S
  <2> QED
    BY ClosingQuiet, Zenon
<1> QED
  BY <1>1

\* A connection of the guest that the host has closed.
Parting(g, i) == Closing(g, {i}, FALSE)

\* The header of the next frame: a CLOSE ends its connection, if there is one.
LEMMA GuestHeaderKeeps ==
  ASSUME NEW h, NEW g, NEW up, NEW dn, NEW e, Kept(h, g, up, dn, e), g.status = "run",
         g.in = NoRelay, dn # <<>>
  PROVE  LET f == Head(dn)
             k == Parting(g, f.id)
             m == [g EXCEPT !.in = f]
         IN  /\ f.kind = "CLOSE" => Kept(h, k, up, Tail(dn), e) /\ k.status = "run"
             /\ f.kind # "CLOSE" => Kept(h, m, up, Tail(dn), e) /\ m.status = "run"
<1> DEFINE f == Head(dn)
           d == Tail(dn)
           U == UpOf(h, g, up)
           D == DownOf(h, g, dn)
           E == Way(NoRelay, d, Frames(h.out))
           r == g.peers[f.id]
           p == h.peers[f.id]
<1>0. Shaped(h, g, up, dn, e) /\ GuestHeld(g) /\ StreamsHeld(h, g, up, dn, e) /\ NoOpens(dn) /\ NoOpens(Frames(h.out))
  BY DEF Kept, Shaped
<1>1. /\ h \in HostSet /\ g \in GuestSet /\ up \in Seq(Parcel) /\ dn \in Seq(Parcel) /\ e \in EndsSet
      /\ Frames(h.out) \in Seq(Parcel) /\ U \in Seq(Parcel) /\ D \in Seq(Parcel)
  BY <1>0, ShapedOf
<1>2. f \in Parcel /\ d \in Seq(Parcel) /\ D = <<f>> \o E /\ D = Way(f, d, Frames(h.out)) /\ E \in Seq(Parcel)
  <2>1. NoRelay \in Parcel \cup {NoRelay}
    OBVIOUS
  <2>2. f \in Parcel /\ d \in Seq(Parcel)
    BY <1>1, SplitHead
  <2>3. D = Way(NoRelay, dn, Frames(h.out))
    BY DEF DownOf
  <2>4. /\ Way(NoRelay, dn, Frames(h.out)) = <<f>> \o E
        /\ Way(NoRelay, dn, Frames(h.out)) = Way(f, d, Frames(h.out))
    BY <1>1, WayReads
  <2>5. E \in Seq(Parcel)
    BY <1>1, <2>1, <2>2, WayOf
  <2> QED
    BY <2>2, <2>3, <2>4, <2>5
<1>3. /\ f.id \in Streams /\ f.kind \in {"DATA", "CLOSE"} /\ (f.kind = "CLOSE" => Key(f) = Last)
      /\ NoOpens(d)
  BY <1>0, <1>1, <1>2, OpensTail, KeyOf
<1>4. UpOf(h, g, up) = U /\ DownOf(h, g, dn) = D /\ Way(NoRelay, d, Frames(h.out)) = E
  OBVIOUS
<1>5. \A j \in Streams : h.status = "run" => Carried(h, g, U, D, e, j)
  BY <1>0 DEF StreamsHeld
<1>6. p \in HostPeers \cup {NoRelay} /\ r \in GuestPeers \cup {NoRelay} /\ g.nextId \in Nat
  BY <1>1, <1>3, HostOf, GuestOf
<1>7. h.peers[f.id] = p /\ g.peers[f.id] = r
  OBVIOUS
<1> HIDE DEF f, d, U, D, E, r, p
<1>8. CASE f.kind = "DATA"
  <2> DEFINE k == [g EXCEPT !.in = f]
  <2>1. /\ k \in GuestSet /\ k.status = "run" /\ k.in = f /\ k.out = g.out /\ k.peers = g.peers
        /\ k.exited = g.exited /\ k.nextId = g.nextId
    BY <1>1, <1>2 DEF GuestSet
  <2> HIDE DEF k
  <2>2. GuestHeld(k)
    BY <1>0, <2>1 DEF GuestHeld
  <2>3. UpOf(h, k, up) = U /\ DownOf(h, k, d) = D
    BY <1>2, <2>1 DEF UpOf, DownOf, U
  <2>4. h.status = "run" => \A j \in Streams : Carried(h, k, U, D, e, j)
    BY <1>5, <2>1 DEF Carried
  <2>5. Kept(h, k, up, d, e)
    BY <1>0, <1>1, <1>2, <1>3, <1>8, <2>1, <2>2, <2>3, <2>4, GuestMoves
  <2> QED
    BY <1>8, <2>1, <2>5 DEF k, f, d
<1>9. CASE f.kind = "CLOSE"
  <2> DEFINE k == Closing(g, {f.id}, FALSE)
             s == k.peers[f.id]
  <2>1. /\ k \in GuestSet /\ k.status = "run" /\ k.in = NoRelay /\ k.out = g.out
        /\ k.exited = g.exited /\ k.nextId = g.nextId
        /\ \A j \in Streams : k.peers[j] = IF j \in {f.id} /\ g.peers[j] # NoRelay
                                           THEN Ending(g.peers[j], FALSE) ELSE g.peers[j]
    <3>1. g \in GuestSet /\ g.status = "run" /\ g.in = NoRelay
      BY <1>1
    <3> HIDE DEF s
    <3> QED
      BY <3>1, ClosingAlone
  <2> HIDE DEF k
  <2>2. /\ r = NoRelay => s = NoRelay
        /\ r # NoRelay => s = Ending(r, FALSE) /\ r \in GuestPeers
    BY <1>3, <1>6, <1>7, <2>1
  <2>3. k.peers[f.id] = s
    OBVIOUS
  <2> HIDE DEF s
  <2>4. /\ s \in GuestPeers \cup {NoRelay} /\ (r = NoRelay <=> s = NoRelay) /\ (s # NoRelay => s.closing)
        /\ s # NoRelay => s.queue = r.queue
        /\ GuestQueue(s, f.id) = GuestQueue(r, f.id)
    BY <2>2, EndingOf
  <2>5. GuestHeld(k)
    <3>1. ASSUME NEW j \in Live(k.peers)
          PROVE  Len(k.peers[j].queue) <= QueueLimit /\ (k.exited => k.peers[j].closing)
      <4>1. CASE j = f.id
        <5>1. k.peers[j] = s /\ s # NoRelay
          BY <2>3, <3>1, <4>1 DEF Live
        <5>2. Len(r.queue) <= QueueLimit
          BY <1>0, <1>3, <1>7, <2>4, <5>1 DEF GuestHeld, Live
        <5> QED
          BY <2>4, <5>1, <5>2
      <4>2. CASE j # f.id
        BY <1>0, <2>1, <3>1, <4>2 DEF GuestHeld, Live
      <4> QED
        BY <4>1, <4>2
    <3> QED
      BY <1>0, <2>1, <3>1 DEF GuestHeld
  <2>6. h.status = "run" => Stream(p, s, U, E, e, g.exited, g.nextId, f.id)
    <3> SUFFICES ASSUME h.status = "run" PROVE Stream(p, s, U, E, e, g.exited, g.nextId, f.id)
      OBVIOUS
    <3>1. Stream(p, r, U, D, e, g.exited, g.nextId, f.id)
      BY <1>3, <1>5, <1>7 DEF Carried
    <3>2. Keys(D, f.id) = Keys(E, f.id) \cup {Last}
      BY <1>2, <1>3, <1>9, KeysTake
    <3>3. GuestOn(s, E, f.id) \subseteq GuestOn(r, D, f.id)
      BY <2>4, <3>2 DEF GuestOn
    <3>4. U \in Seq(Parcel) /\ D \in Seq(Parcel)
      BY <1>1 DEF U, D
    <3>5. Last \in Keys(D, f.id) /\ Keys(E, f.id) \subseteq Keys(D, f.id)
      BY <3>2
    <3> DEFINE i == f.id
    <3> SUFFICES Stream(p, s, U, E, e, g.exited, g.nextId, i)
      OBVIOUS
    <3>6. /\ i \in Streams /\ GuestOn(s, E, i) \subseteq GuestOn(r, D, i) /\ Last \in Keys(D, i)
          /\ Keys(E, i) \subseteq Keys(D, i) /\ Stream(p, r, U, D, e, g.exited, g.nextId, i)
      BY <1>3, <3>1, <3>3, <3>5
    <3> HIDE DEF i
    <3>7. /\ p \in HostPeers \cup {NoRelay} /\ r \in GuestPeers \cup {NoRelay}
          /\ s \in GuestPeers \cup {NoRelay} /\ (r = NoRelay <=> s = NoRelay) /\ (s # NoRelay => s.closing)
          /\ E \in Seq(Parcel) /\ e \in EndsSet /\ g.nextId \in Nat
      BY <1>1, <1>2, <1>6, <2>4
    <3> QED
      BY <3>4, <3>6, <3>7, StreamGuestCloses
  <2>7. Kept(h, k, up, d, e)
    <3>1. \A j \in Streams : j # f.id => k.peers[j] = g.peers[j]
      BY <2>1
    <3>2. f \in Parcel /\ d \in Seq(Parcel) /\ NoOpens(d)
      BY <1>2, <1>3
    <3>3. DownOf(h, g, dn) = <<f>> \o Way(NoRelay, d, Frames(h.out))
      BY <1>2, <1>4
    <3>4. h.status = "run" =>
            Stream(h.peers[f.id], k.peers[f.id], UpOf(h, g, up), Way(NoRelay, d, Frames(h.out)),
                   e, g.exited, g.nextId, f.id)
      BY <1>4, <1>7, <2>3, <2>6
    <3>5. /\ k \in GuestSet /\ k.status = "run" /\ k.in = NoRelay /\ k.out = g.out
          /\ k.exited = g.exited /\ k.nextId = g.nextId
      BY <2>1
    <3> QED
      BY <2>5, <3>1, <3>2, <3>3, <3>4, <3>5, FrameDone, Zenon
  <2> QED
    BY <1>9, <2>1, <2>7 DEF k, f, d, Parting
<1> QED
  BY <1>3, <1>8, <1>9

\* A payload is dropped when its connection is gone or ends, and queued otherwise.
LEMMA GuestPayloadKeeps ==
  ASSUME NEW h, NEW g, NEW up, NEW dn, NEW e, Kept(h, g, up, dn, e), g.status = "run", g.in # NoRelay, ~g.exited
  PROVE  LET f == g.in
             r == g.peers[f.id]
             m == [g EXCEPT !.in = NoRelay]
             q == [r EXCEPT !.queue = Append(r.queue, f.n)]
         IN  /\ r = NoRelay \/ r.closing => Kept(h, m, up, dn, e) /\ m.status = "run"
             /\ r # NoRelay /\ ~r.closing /\ Len(r.queue) < QueueLimit =>
                  Kept(h, PutPeer(m, f.id, q), up, dn, e) /\ PutPeer(m, f.id, q).status = "run"
<1> DEFINE f == g.in
           r == g.peers[f.id]
           p == h.peers[f.id]
           m == [g EXCEPT !.in = NoRelay]
           q == [r EXCEPT !.queue = Append(r.queue, f.n)]
           U == UpOf(h, g, up)
           D == DownOf(h, g, dn)
           E == Way(NoRelay, dn, Frames(h.out))
<1>0. Shaped(h, g, up, dn, e) /\ GuestHeld(g) /\ StreamsHeld(h, g, up, dn, e) /\ NoOpens(dn)
  BY DEF Kept, Shaped
<1>1. /\ h \in HostSet /\ g \in GuestSet /\ up \in Seq(Parcel) /\ dn \in Seq(Parcel) /\ e \in EndsSet
      /\ Frames(h.out) \in Seq(Parcel) /\ U \in Seq(Parcel) /\ D \in Seq(Parcel)
  BY <1>0, ShapedOf
<1>2. f \in Parcel /\ D = <<f>> \o E /\ E \in Seq(Parcel)
  <2>1. NoRelay \in Parcel \cup {NoRelay} /\ f \in Parcel
    BY <1>1, GuestOf
  <2>2. Way(f, dn, Frames(h.out)) = <<f>> \o E
    BY <1>1, <2>1, WayHand
  <2>3. E \in Seq(Parcel)
    BY <1>1, <2>1, WayOf
  <2> QED
    BY <2>1, <2>2, <2>3 DEF DownOf
<1>3. f.id \in Streams /\ f.kind = "DATA" /\ Key(f) = f.n /\ f.n \in 1 .. MaxData
  BY <1>0, <1>2, KeyOf DEF Shaped
<1>4. UpOf(h, g, up) = U /\ DownOf(h, g, dn) = D /\ Way(NoRelay, dn, Frames(h.out)) = E
  OBVIOUS
<1>5. \A j \in Streams : h.status = "run" => Carried(h, g, U, D, e, j)
  BY <1>0 DEF StreamsHeld
<1>6. p \in HostPeers \cup {NoRelay} /\ r \in GuestPeers \cup {NoRelay} /\ g.nextId \in Nat
  BY <1>1, <1>3, HostOf, GuestOf
<1>7. h.peers[f.id] = p /\ g.peers[f.id] = r /\ ~g.exited
  OBVIOUS
<1>8. /\ m \in GuestSet /\ m.status = "run" /\ m.in = NoRelay /\ m.out = g.out /\ m.exited = g.exited
      /\ m.nextId = g.nextId /\ m.peers = g.peers
  BY <1>1 DEF GuestSet
<1>9. GuestHeld(m)
  BY <1>0, <1>8 DEF GuestHeld
<1> HIDE DEF f, U, D, E, r, p, m
<1>10. /\ h.status = "run" => Stream(p, r, U, D, e, g.exited, g.nextId, f.id)
       /\ U \in Seq(Parcel) /\ D \in Seq(Parcel)
  BY <1>1, <1>3, <1>5, <1>7 DEF Carried, U, D
<1>11. ASSUME r = NoRelay \/ r.closing
       PROVE  Kept(h, m, up, dn, e)
  <2>1. Keys(D, f.id) = Keys(E, f.id) \cup {f.n}
    BY <1>2, <1>3, KeysTake
  <2>2. h.status = "run" => Stream(p, r, U, E, e, g.exited, g.nextId, f.id)
    BY <1>1, <1>2, <1>3, <1>6, <1>10, <1>11, <2>1, StreamGuestDrops
  <2>3. m.peers[f.id] = r /\ \A j \in Streams : j # f.id => m.peers[j] = g.peers[j]
    BY <1>7, <1>8
  <2>4. h.status = "run" =>
          Stream(h.peers[f.id], m.peers[f.id], UpOf(h, g, up), Way(NoRelay, dn, Frames(h.out)),
                 e, g.exited, g.nextId, f.id)
    BY <1>4, <1>7, <2>2, <2>3
  <2>5. DownOf(h, g, dn) = <<f>> \o Way(NoRelay, dn, Frames(h.out))
    BY <1>2, <1>4
  <2> QED
    BY <1>0, <1>1, <1>2, <1>8, <1>9, <2>3, <2>4, <2>5, FrameDone
<1>12. ASSUME r # NoRelay, ~r.closing, Len(r.queue) < QueueLimit
       PROVE  Kept(h, PutPeer(m, f.id, q), up, dn, e) /\ PutPeer(m, f.id, q).status = "run"
  <2> DEFINE k == PutPeer(m, f.id, q)
  <2>1. r \in GuestPeers /\ r.queue \in Seq(1 .. MaxData)
    BY <1>6, <1>12, GuestPeerOf
  <2>2. q \in GuestPeers /\ q.queue = Append(r.queue, f.n) /\ q.closing = r.closing /\ Len(q.queue) <= QueueLimit
    <3> DEFINE a == Append(r.queue, f.n)
    <3>1. a \in Seq(1 .. MaxData) /\ Len(a) = Len(r.queue) + 1 /\ Len(r.queue) \in Nat
      BY <1>3, <2>1
    <3>2. q = [r EXCEPT !.queue = a]
      OBVIOUS
    <3> HIDE DEF a, q
    <3>3. q \in GuestPeers /\ q.queue = a /\ q.closing = r.closing
      BY <2>1, <3>1, <3>2 DEF GuestPeers
    <3>4. Len(q.queue) <= QueueLimit
      BY <1>12, <3>1, <3>3, StreamFacts
    <3> QED
      BY <3>3, <3>4 DEF a
  <2> HIDE DEF q
  <2>3. /\ k \in GuestSet /\ k.status = m.status /\ k.program = m.program /\ k.in = m.in /\ k.out = m.out
        /\ k.eof = m.eof /\ k.exited = m.exited /\ k.nextId = m.nextId /\ k.peers[f.id] = q
        /\ \A j \in Streams : j # f.id => k.peers[j] = m.peers[j]
    BY <1>3, <1>8, <2>2, GuestPut
  <2>4. GuestHeld(k)
    <3>1. m.peers[f.id] # NoRelay /\ (m.exited => q.closing)
      BY <1>7, <1>8, <1>12
    <3> QED
      BY <1>3, <1>8, <1>9, <2>2, <3>1, GuestPutHeld
  <2> HIDE DEF k
  <2>5. h.status = "run" => Stream(p, q, U, E, e, g.exited, g.nextId, f.id)
    <3> SUFFICES ASSUME h.status = "run" PROVE Stream(p, q, U, E, e, g.exited, g.nextId, f.id)
      OBVIOUS
    <3>1. Stream(p, r, U, D, e, g.exited, g.nextId, f.id)
      BY <1>10
    <3>2. DownSound(r, <<f>> \o E, f.id)
      BY <1>2, <3>1 DEF Stream, DownWhole
    <3>3. DownSound(q, E, f.id) /\ GuestOn(q, E, f.id) = GuestOn(r, <<f>> \o E, f.id)
      BY <1>2, <1>3, <1>12, <2>1, <2>2, <3>2, DownQueued
    <3>4. GuestOn(q, E, f.id) = GuestOn(r, D, f.id)
      BY <1>2, <3>3
    <3> QED
      BY <1>1, <1>2, <1>3, <1>6, <1>10, <1>12, <2>1, <2>2, <3>1, <3>3, <3>4, StreamGuestQueues
  <2>6. Kept(h, k, up, dn, e)
    <3>1. /\ k.status = "run" /\ k.in = NoRelay /\ k.out = g.out /\ k.exited = g.exited /\ k.nextId = g.nextId
          /\ k.peers[f.id] = q
          /\ \A j \in Streams : j # f.id => k.peers[j] = g.peers[j]
      BY <1>8, <2>3
    <3>2. f \in Parcel /\ dn \in Seq(Parcel) /\ NoOpens(dn) /\ k \in GuestSet
      BY <1>0, <1>1, <1>2, <2>3
    <3>3. DownOf(h, g, dn) = <<f>> \o Way(NoRelay, dn, Frames(h.out))
      BY <1>2, <1>4
    <3>4. h.status = "run" =>
            Stream(h.peers[f.id], k.peers[f.id], UpOf(h, g, up), Way(NoRelay, dn, Frames(h.out)),
                   e, g.exited, g.nextId, f.id)
      BY <1>4, <1>7, <2>5, <3>1
    <3> QED
      BY <2>4, <3>1, <3>2, <3>3, <3>4, FrameDone, Zenon
  <2> QED
    BY <1>8, <2>3, <2>6 DEF k
<1> QED
  BY <1>8, <1>11, <1>12 DEF f, r, m

-----------------------------------------------------------------------------
(* The steps.                                                                *)

\* A step ends with the pass of its pump.
LEMMA HostStepKeeps ==
  ASSUME NEW k, NEW u \in Seq(Parcel), NEW d \in Seq(Parcel), NEW x, Kept(k, guestPump, u, d, x), k.status = "run",
         GuestSettled(guestPump), HostStep(k), guestPump' = guestPump, lane' = [up |-> u, down |-> d], ends' = x
  PROVE  RelayInv'
<1>1. hostPump' = HostPass(k)
  BY DEF HostStep
<1>2. Kept(HostPass(k), guestPump, u, d, x) /\ HostSettled(HostPass(k))
  BY HostPassKeeps
<1>3. lane'.up = u /\ lane'.down = d
  OBVIOUS
<1>4. Kept(hostPump', guestPump', lane'.up, lane'.down, ends')
  BY <1>1, <1>2, <1>3
<1> QED
  BY <1>1, <1>2, <1>4 DEF RelayInv

\* A step ends with the pass of its pump: the guest.
LEMMA GuestStepKeeps ==
  ASSUME NEW k, NEW u \in Seq(Parcel), NEW d \in Seq(Parcel), NEW x, Kept(hostPump, k, u, d, x), k.status = "run",
         HostSettled(hostPump), GuestStep(k), hostPump' = hostPump, lane' = [up |-> u, down |-> d], ends' = x
  PROVE  RelayInv'
<1>1. guestPump' = GuestPass(k)
  BY DEF GuestStep
<1>2. Kept(hostPump, GuestPass(k), u, d, x) /\ GuestSettled(GuestPass(k))
  BY GuestPassKeeps
<1>3. lane'.up = u /\ lane'.down = d
  OBVIOUS
<1>4. Kept(hostPump', guestPump', lane'.up, lane'.down, ends')
  BY <1>1, <1>2, <1>3
<1> QED
  BY <1>1, <1>2, <1>4 DEF RelayInv

\* The host fails.
LEMMA HostFails ==
  ASSUME RelayInv, hostPump' = EmptyHost("failed"), UNCHANGED <<guestPump, lane, ends>>
  PROVE  RelayInv'
<1>1. /\ Kept(hostPump, guestPump, lane.up, lane.down, ends) /\ lane.up \in Seq(Parcel)
      /\ GuestSettled(guestPump) /\ lane \in [up : Seq(Parcel), down : Seq(Parcel)]
  BY DEF RelayInv
<1>2. /\ Kept(EmptyHost("failed"), guestPump, lane.up, lane.down, ends) /\ HostSettled(EmptyHost("failed"))
  BY <1>1, HostEndKeeps
<1>3. Kept(hostPump', guestPump', lane'.up, lane'.down, ends')
  BY <1>2
<1> QED
  BY <1>1, <1>2, <1>3 DEF RelayInv

\* What the steps start from.
LEMMA StepFrom ==
  ASSUME RelayInv
  PROVE  /\ Kept(hostPump, guestPump, lane.up, lane.down, ends)
         /\ HostSettled(hostPump) /\ GuestSettled(guestPump)
         /\ hostPump \in HostSet /\ guestPump \in GuestSet /\ ends \in EndsSet
         /\ lane.up \in Seq(Parcel) /\ lane.down \in Seq(Parcel)
         /\ lane = [up |-> lane.up, down |-> lane.down]
         /\ \A u : [lane EXCEPT !.up = u] = [up |-> u, down |-> lane.down]
         /\ \A d : [lane EXCEPT !.down = d] = [up |-> lane.up, down |-> d]
<1>1. lane \in [up : Seq(Parcel), down : Seq(Parcel)] /\ Kept(hostPump, guestPump, lane.up, lane.down, ends)
  BY DEF RelayInv
<1>2. Shaped(hostPump, guestPump, lane.up, lane.down, ends)
  BY <1>1 DEF Kept
<1>3. hostPump \in HostSet /\ guestPump \in GuestSet /\ ends \in EndsSet
  BY <1>2, ShapedOf
<1> QED
  BY <1>1, <1>3 DEF RelayInv

\* HostReadsHeader.
LEMMA StepReadsHeader ==
  ASSUME RelayInv, NEW r \in ConnectResults, HostReadsHeader(r)
  PROVE  RelayInv'
<1> DEFINE k == ReadHeader(hostPump, Head(lane.up), r)
           u == Tail(lane.up)
<1>1. /\ hostPump.status = "run" /\ ~hostPump.eof /\ hostPump.in = NoRelay /\ lane.up # <<>> /\ HostStep(k)
      /\ lane' = [lane EXCEPT !.up = u] /\ guestPump' = guestPump /\ ends' = ends
  BY DEF HostReadsHeader, HostRuns
<1>2. Kept(k, guestPump, u, lane.down, ends) /\ k.status = "run"
  BY <1>1, StepFrom, HeaderKeeps
<1>3. u \in Seq(Parcel) /\ lane' = [up |-> u, down |-> lane.down]
  <2>1. u \in Seq(Parcel)
    BY <1>2 DEF Kept, Shaped
  <2> HIDE DEF u
  <2> QED
    BY <1>1, <2>1, StepFrom
<1> HIDE DEF k, u
<1> QED
  BY <1>1, <1>2, <1>3, StepFrom, HostStepKeeps

\* HostReadsPayload.
LEMMA StepReadsPayload ==
  ASSUME RelayInv, HostReadsPayload
  PROVE  RelayInv'
<1> DEFINE f == hostPump.in
           p == hostPump.peers[f.id]
           m == [hostPump EXCEPT !.in = NoRelay, !.age = 0]
           q == [p EXCEPT !.queue = Append(p.queue, [n |-> f.n, age |-> 0])]
           k == PutPeer(m, f.id, q)
<1>1. hostPump.status = "run" /\ hostPump.in # NoRelay /\ hostPump.in.kind = "DATA"
      /\ guestPump' = guestPump /\ lane' = lane /\ ends' = ends
  BY DEF HostReadsPayload, HostRuns
<1>2. /\ p = NoRelay => Kept(m, guestPump, lane.up, lane.down, ends) /\ m.status = "run"
      /\ p # NoRelay => /\ ~p.closed
                        /\ Len(p.queue) < QueueLimit =>
                             Kept(k, guestPump, lane.up, lane.down, ends) /\ k.status = "run"
  BY <1>1, StepFrom, PayloadKeeps
<1>3. f.id \in Streams
  <2>1. f \in Parcel
    BY <1>1, StepFrom, HostOf
  <2> QED
    BY <2>1, KeyOf
<1>4. lane.up \in Seq(Parcel) /\ lane.down \in Seq(Parcel) /\ lane' = [up |-> lane.up, down |-> lane.down]
      /\ GuestSettled(guestPump)
  BY <1>1, StepFrom
<1>5. CASE p = NoRelay
  <2>1. HostStep(m)
    BY <1>5 DEF HostReadsPayload
  <2> HIDE DEF m
  <2> QED
    BY <1>1, <1>2, <1>4, <1>5, <2>1, HostStepKeeps
<1>6. CASE p # NoRelay
  <2>1. ~p.closed /\ Len(p.queue) < QueueLimit
        /\ HostStep([m EXCEPT !.peers[f.id].queue = Append(@, [n |-> f.n, age |-> 0])])
    BY <1>2, <1>6 DEF HostReadsPayload
  <2>2. m.peers = hostPump.peers /\ m \in HostSet
    BY StepFrom DEF HostSet
  <2>3. k = [m EXCEPT !.peers[f.id].queue = Append(@, [n |-> f.n, age |-> 0])]
    <3> HIDE DEF m
    <3> QED
      BY <2>2 DEF PutPeer, HostSet
  <2>4. HostStep(k)
    BY <2>1, <2>3
  <2>5. Kept(k, guestPump, lane.up, lane.down, ends) /\ k.status = "run"
    BY <1>2, <1>6, <2>1
  <2> HIDE DEF k
  <2> QED
    BY <1>1, <1>4, <2>4, <2>5, HostStepKeeps
<1> QED
  BY <1>5, <1>6

\* HostReadsEof: the end of the lane is clean or the relay fails.
LEMMA StepReadsEof ==
  ASSUME RelayInv, HostReadsEof
  PROVE  RelayInv'
<1> DEFINE k == [hostPump EXCEPT !.eof = TRUE]
<1>1. /\ hostPump.status = "run" /\ guestPump.status # "run" /\ lane.up = <<>>
      /\ guestPump' = guestPump /\ lane' = lane /\ ends' = ends
      /\ hostPump.in = NoRelay => HostStep(k)
      /\ hostPump.in # NoRelay => HostStep(EmptyHost("failed"))
  BY DEF HostReadsEof, HostRuns
<1>2. CASE hostPump.in = NoRelay
  <2>1. Kept(k, guestPump, lane.up, lane.down, ends) /\ k.status = "run"
    BY <1>1, <1>2, StepFrom, HostEofKeeps
  <2> HIDE DEF k
  <2> QED
    BY <1>1, <1>2, <2>1, StepFrom, HostStepKeeps
<1>3. CASE hostPump.in # NoRelay
  <2>1. hostPump' = EmptyHost("failed")
    BY <1>1, <1>3 DEF HostStep, EmptyHost
  <2> QED
    BY <1>1, <2>1, HostFails
<1> QED
  BY <1>2, <1>3

\* HostWrites.
LEMMA StepHostWrites ==
  ASSUME RelayInv, HostWrites
  PROVE  RelayInv'
<1> DEFINE k == [hostPump EXCEPT !.out = Tail(hostPump.out)]
           d == Append(lane.down, Head(hostPump.out).frame)
<1>1. /\ hostPump.status = "run" /\ hostPump.out # <<>> /\ HostStep(k)
      /\ guestPump' = guestPump /\ lane' = [lane EXCEPT !.down = d] /\ ends' = ends
  BY StepFrom DEF HostWrites, HostRuns, HostSet
<1>2. Kept(k, guestPump, lane.up, d, ends) /\ k.status = "run"
  BY <1>1, StepFrom, WriteDownKeeps
<1>3. d \in Seq(Parcel) /\ lane' = [up |-> lane.up, down |-> d] /\ lane.up \in Seq(Parcel)
  <2>1. d \in Seq(Parcel)
    BY <1>2 DEF Kept, Shaped
  <2> HIDE DEF d
  <2> QED
    BY <1>1, <2>1, StepFrom
<1> HIDE DEF k, d
<1> QED
  BY <1>1, <1>2, <1>3, StepFrom, HostStepKeeps

\* TimePasses.
LEMMA StepTime ==
  ASSUME RelayInv, TimePasses
  PROVE  RelayInv'
<1>1. /\ hostPump.status = "run" /\ ~Due(hostPump) /\ hostPump' = Aged(hostPump)
      /\ guestPump' = guestPump /\ lane' = lane /\ ends' = ends
  BY DEF TimePasses, HostRuns
<1>2. Kept(Aged(hostPump), guestPump, lane.up, lane.down, ends) /\ HostSettled(Aged(hostPump))
  BY <1>1, StepFrom, TickKeeps
<1>3. Kept(hostPump', guestPump', lane'.up, lane'.down, ends') /\ HostSettled(hostPump')
  BY <1>1, <1>2
<1> QED
  BY <1>1, <1>3 DEF RelayInv

\* A hang-up, a deadline or a broken connection ends the host pump.
LEMMA StepHostEnds ==
  ASSUME RelayInv, HostHangsUp \/ HostExpires \/ \E id \in Streams : HostPeerBreaks(id)
  PROVE  RelayInv'
BY HostFails DEF HostHangsUp, HostExpires, HostPeerBreaks

\* HostConnects.
LEMMA StepConnects ==
  ASSUME RelayInv, NEW id \in Streams, NEW r \in ConnectResults, HostConnects(id, r)
  PROVE  RelayInv'
<1> DEFINE p == hostPump.peers[id]
           q == [p EXCEPT !.conn = r]
           k == PutPeer(hostPump, id, q)
<1>1. /\ hostPump.status = "run" /\ p # NoRelay
      /\ guestPump' = guestPump /\ lane' = lane /\ ends' = ends
      /\ r = "fail" => HostStep(EmptyHost("failed"))
      /\ r # "fail" => HostStep([hostPump EXCEPT !.peers[id].conn = r])
  BY DEF HostConnects, HostRuns
<1>2. CASE r = "fail"
  <2>1. hostPump' = EmptyHost("failed")
    BY <1>1, <1>2 DEF HostStep, EmptyHost
  <2> QED
    BY <1>1, <2>1, HostFails
<1>3. CASE r # "fail"
  <2>1. p \in HostPeers /\ r \in {"open", "connecting", "retry"}
    BY <1>1, <1>3, StepFrom, HostOf DEF ConnectResults
  <2>2. q \in HostPeers /\ q.queue = p.queue /\ q.closed = p.closed /\ q.opened = p.opened
    BY <2>1 DEF HostPeers
  <2>3. k = [hostPump EXCEPT !.peers[id].conn = r]
    BY StepFrom DEF PutPeer, HostSet
  <2>4. HostStep(k)
    BY <1>1, <1>3, <2>3
  <2> HIDE DEF q
  <2>5. Kept(k, guestPump, lane.up, lane.down, ends) /\ k.status = "run"
    BY <1>1, <2>2, StepFrom, ConnectKeeps
  <2> HIDE DEF k
  <2> QED
    BY <1>1, <2>4, <2>5, StepFrom, HostStepKeeps
<1> QED
  BY <1>2, <1>3

\* HostReadsPeer: the program at the host sends or closes.
LEMMA StepHostReadsPeer ==
  ASSUME RelayInv, NEW id \in Streams, NEW eof \in BOOLEAN, HostReadsPeer(id, eof)
  PROVE  RelayInv'
<1> DEFINE p == hostPump.peers[id]
           q == [p EXCEPT !.eof = TRUE]
           k == PutPeer(hostPump, id, q)
           n == ends.sentDown[id] + 1
           x == [ends EXCEPT !.sentDown[id] = n]
           m == [hostPump EXCEPT !.out = Push(hostPump.out, Frame("DATA", id, n))]
<1>1. /\ hostPump.status = "run" /\ p # NoRelay /\ Room(hostPump.out) > 1
      /\ guestPump' = guestPump /\ lane' = lane
  BY DEF HostReadsPeer, HostRuns
<1>2. CASE eof
  <2>1. HostStep([hostPump EXCEPT !.peers[id].eof = TRUE]) /\ ends' = ends
    BY <1>2 DEF HostReadsPeer
  <2>2. p \in HostPeers
    BY <1>1, StepFrom, HostOf
  <2>3. q \in HostPeers /\ q.queue = p.queue /\ q.closed = p.closed /\ q.opened = p.opened
    BY <2>2 DEF HostPeers
  <2>4. k = [hostPump EXCEPT !.peers[id].eof = TRUE]
    BY StepFrom DEF PutPeer, HostSet
  <2>5. HostStep(k)
    BY <2>1, <2>4
  <2> HIDE DEF q
  <2>6. Kept(k, guestPump, lane.up, lane.down, ends) /\ k.status = "run"
    BY <1>1, <2>3, StepFrom, ConnectKeeps
  <2> HIDE DEF k
  <2> QED
    BY <1>1, <2>1, <2>5, <2>6, StepFrom, HostStepKeeps
<1>3. CASE ~eof
  <2>1. HostStep(m) /\ ends' = x /\ ends.sentDown[id] < MaxData
    BY <1>3, StepFrom DEF HostReadsPeer, HostSet, EndsSet
  <2>2. Kept(hostPump, guestPump, lane.up, lane.down, ends) /\ hostPump.status = "run"
        /\ hostPump.peers[id] # NoRelay /\ Room(hostPump.out) > 1 /\ ends.sentDown[id] < MaxData
    BY <1>1, <2>1, StepFrom
  <2>3. Kept(m, guestPump, lane.up, lane.down, x) /\ m.status = "run"
    BY <2>2, SendDownKeeps
  <2> HIDE DEF m, x
  <2> QED
    BY <1>1, <2>1, <2>3, StepFrom, HostStepKeeps
<1> QED
  BY <1>2, <1>3

\* HostWritesPeer.
LEMMA StepHostWritesPeer ==
  ASSUME RelayInv, NEW id \in Streams, HostWritesPeer(id)
  PROVE  RelayInv'
<1> DEFINE p == hostPump.peers[id]
           q == [p EXCEPT !.queue = Tail(p.queue)]
           k == PutPeer(hostPump, id, q)
           x == [ends EXCEPT !.gotUp[id] = Head(p.queue).n]
<1>1. /\ hostPump.status = "run" /\ p # NoRelay /\ p.queue # <<>>
      /\ guestPump' = guestPump /\ lane' = lane /\ ends' = x
      /\ HostStep([hostPump EXCEPT !.peers[id].queue = Tail(@)])
  BY DEF HostWritesPeer, HostRuns
<1>2. k = [hostPump EXCEPT !.peers[id].queue = Tail(@)]
  BY StepFrom DEF PutPeer, HostSet
<1>3. HostStep(k)
  BY <1>1, <1>2
<1>4. Kept(k, guestPump, lane.up, lane.down, x) /\ k.status = "run"
  <2>1. Kept(hostPump, guestPump, lane.up, lane.down, ends)
    BY StepFrom
  <2> QED
    BY <1>1, <2>1, DeliverUpKeeps
<1> HIDE DEF k, x
<1> QED
  BY <1>1, <1>3, <1>4, StepFrom, HostStepKeeps

\* GuestCommandExits.
LEMMA StepExits ==
  ASSUME RelayInv, GuestCommandExits
  PROVE  RelayInv'
<1> DEFINE notify == guestPump.program = "stdio"
           k == [Closing(guestPump, Streams, notify) EXCEPT !.exited = TRUE]
<1>1. /\ guestPump.status = "run" /\ GuestStep(k) /\ hostPump' = hostPump /\ lane' = lane /\ ends' = ends
  BY DEF GuestCommandExits, GuestRuns
<1>2. notify \in BOOLEAN
  OBVIOUS
<1>3. Kept(hostPump, k, lane.up, lane.down, ends) /\ k.status = "run"
  <2> HIDE DEF notify
  <2> QED
    BY <1>1, <1>2, StepFrom, ExitKeeps
<1> HIDE DEF k
<1> QED
  BY <1>1, <1>3, StepFrom, GuestStepKeeps

\* GuestAccepts.
LEMMA StepAccepts ==
  ASSUME RelayInv, GuestAccepts
  PROVE  RelayInv'
<1> DEFINE id == guestPump.nextId
           k == [guestPump EXCEPT !.nextId = id + 1, !.peers[id] = GuestPeer,
                                  !.out = Push(guestPump.out, Frame("OPEN", id, 0))]
<1>1. /\ guestPump.status = "run" /\ ~guestPump.exited /\ guestPump.nextId <= MaxStreams
      /\ Room(guestPump.out) >= 1 /\ hostPump' = hostPump /\ lane' = lane /\ ends' = ends
      /\ GuestStep([guestPump EXCEPT !.nextId = id + 1, !.peers[id] = GuestPeer,
                                     !.out = Push(@, Frame("OPEN", id, 0))])
  BY DEF GuestAccepts, GuestRuns
<1>2. k = [guestPump EXCEPT !.nextId = id + 1, !.peers[id] = GuestPeer,
                            !.out = Push(@, Frame("OPEN", id, 0))]
  BY StepFrom DEF GuestSet
<1>3. GuestStep(k)
  BY <1>1, <1>2
<1>4. Kept(hostPump, k, lane.up, lane.down, ends) /\ k.status = "run"
  BY <1>1, StepFrom, AcceptKeeps
<1> HIDE DEF k
<1> QED
  BY <1>1, <1>3, <1>4, StepFrom, GuestStepKeeps

\* GuestReadsPeer: the program in the guest sends or closes.
LEMMA StepGuestReadsPeer ==
  ASSUME RelayInv, NEW id \in Streams, NEW eof \in BOOLEAN, GuestReadsPeer(id, eof)
  PROVE  RelayInv'
<1> DEFINE r == guestPump.peers[id]
           q == Ending(r, TRUE)
           k == PutPeer(guestPump, id, q)
           n == ends.sentUp[id] + 1
           x == [ends EXCEPT !.sentUp[id] = n]
           m == [guestPump EXCEPT !.out = Push(guestPump.out, Frame("DATA", id, n))]
<1>1. /\ guestPump.status = "run" /\ r # NoRelay /\ Room(guestPump.out) > 1
      /\ hostPump' = hostPump /\ lane' = lane
  BY DEF GuestReadsPeer, GuestRuns
<1>2. CASE eof
  <2>1. GuestStep(Closing(guestPump, {id}, TRUE)) /\ ends' = ends
    BY <1>2 DEF GuestReadsPeer
  <2>2. r \in GuestPeers /\ guestPump \in GuestSet
    BY <1>1, StepFrom, GuestOf
  <2>3. q \in GuestPeers /\ q.queue = r.queue /\ q.closing /\ q.notify
    BY <2>2, EndingOf
  <2>4. k = Closing(guestPump, {id}, TRUE)
    BY <1>1, <2>2, ClosingOne
  <2>5. GuestStep(k)
    BY <2>1, <2>4
  <2> HIDE DEF q
  <2>6. Kept(hostPump, k, lane.up, lane.down, ends) /\ k.status = "run"
    BY <1>1, <2>3, StepFrom, EndPeerKeeps
  <2> HIDE DEF k
  <2> QED
    BY <1>1, <2>1, <2>5, <2>6, StepFrom, GuestStepKeeps
<1>3. CASE ~eof
  <2>1. GuestStep(m) /\ ends' = x /\ ends.sentUp[id] < MaxData
    BY <1>3, StepFrom DEF GuestReadsPeer, GuestSet, EndsSet
  <2>2. Kept(hostPump, guestPump, lane.up, lane.down, ends) /\ guestPump.status = "run"
        /\ guestPump.peers[id] # NoRelay /\ Room(guestPump.out) > 1 /\ ends.sentUp[id] < MaxData
    BY <1>1, <2>1, StepFrom
  <2>3. Kept(hostPump, m, lane.up, lane.down, x) /\ m.status = "run"
    BY <2>2, SendUpKeeps
  <2> HIDE DEF m, x
  <2> QED
    BY <1>1, <2>1, <2>3, StepFrom, GuestStepKeeps
<1> QED
  BY <1>2, <1>3

\* GuestWritesPeer: a payload is delivered, or what is queued is discarded.
LEMMA StepGuestWritesPeer ==
  ASSUME RelayInv, NEW id \in Streams, NEW ok \in BOOLEAN, GuestWritesPeer(id, ok)
  PROVE  RelayInv'
<1> DEFINE r == guestPump.peers[id]
           q == [r EXCEPT !.queue = Tail(r.queue)]
           k == PutPeer(guestPump, id, q)
           x == [ends EXCEPT !.gotDown[id] = Head(r.queue)]
           t == Ending(r, TRUE)
           w == [t EXCEPT !.queue = <<>>]
           m == PutPeer(guestPump, id, w)
<1>1. /\ guestPump.status = "run" /\ r # NoRelay /\ r.queue # <<>>
      /\ hostPump' = hostPump /\ lane' = lane
  BY DEF GuestWritesPeer, GuestRuns
<1>2. r \in GuestPeers /\ guestPump \in GuestSet
  BY <1>1, StepFrom, GuestOf
<1>3. CASE ok
  <2>1. GuestStep([guestPump EXCEPT !.peers[id].queue = Tail(@)]) /\ ends' = x
    BY <1>3 DEF GuestWritesPeer
  <2>2. k = [guestPump EXCEPT !.peers[id].queue = Tail(@)]
    BY <1>2 DEF PutPeer, GuestSet
  <2>3. GuestStep(k)
    BY <2>1, <2>2
  <2>4. Kept(hostPump, k, lane.up, lane.down, x) /\ k.status = "run"
    <3>1. Kept(hostPump, guestPump, lane.up, lane.down, ends)
      BY StepFrom
    <3> QED
      BY <1>1, <3>1, DeliverDownKeeps
  <2> HIDE DEF k, x
  <2> QED
    BY <1>1, <2>1, <2>3, <2>4, StepFrom, GuestStepKeeps
<1>4. CASE ~ok
  <2>1. GuestStep([Closing(guestPump, {id}, TRUE) EXCEPT !.peers[id].queue = <<>>]) /\ ends' = ends
    BY <1>4 DEF GuestWritesPeer
  <2>2. Closing(guestPump, {id}, TRUE) = PutPeer(guestPump, id, t)
    BY <1>1, <1>2, ClosingOne
  <2>3. t \in GuestPeers /\ t.closing /\ t.notify
    BY <1>2, EndingOf
  <2>4. m = [PutPeer(guestPump, id, t) EXCEPT !.peers[id].queue = <<>>]
    <3> HIDE DEF t
    <3> QED
      BY <1>2, <2>3 DEF PutPeer, GuestSet
  <2>5. GuestStep(m)
    BY <2>1, <2>2, <2>4
  <2>6. w \in GuestPeers /\ w.closing /\ w.notify /\ w.queue = <<>>
    <3> HIDE DEF t
    <3>1. <<>> \in Seq(1 .. MaxData)
      OBVIOUS
    <3>2. t \in [queue : Seq(1 .. MaxData), closing : BOOLEAN, notify : BOOLEAN]
      BY <2>3 DEF GuestPeers
    <3>3. w = [queue |-> <<>>, closing |-> t.closing, notify |-> t.notify]
      BY <3>2
    <3> QED
      BY <2>3, <3>1, <3>2, <3>3 DEF GuestPeers
  <2> HIDE DEF w
  <2>7. Kept(hostPump, m, lane.up, lane.down, ends) /\ m.status = "run"
    BY <1>1, <2>6, StepFrom, EndPeerKeeps
  <2> HIDE DEF m
  <2> QED
    BY <1>1, <2>1, <2>5, <2>7, StepFrom, GuestStepKeeps
<1> QED
  BY <1>3, <1>4

\* GuestWrites.
LEMMA StepGuestWrites ==
  ASSUME RelayInv, GuestWrites
  PROVE  RelayInv'
<1> DEFINE k == [guestPump EXCEPT !.out = Tail(guestPump.out)]
           u == Append(lane.up, Head(guestPump.out).frame)
<1>1. /\ guestPump.status = "run" /\ guestPump.out # <<>> /\ GuestStep(k)
      /\ hostPump' = hostPump /\ lane' = [lane EXCEPT !.up = u] /\ ends' = ends
  BY StepFrom DEF GuestWrites, GuestRuns, GuestSet
<1>2. Kept(hostPump, k, u, lane.down, ends) /\ k.status = "run"
  BY <1>1, StepFrom, WriteUpKeeps
<1>3. u \in Seq(Parcel) /\ lane' = [up |-> u, down |-> lane.down]
  <2>1. u \in Seq(Parcel)
    BY <1>2 DEF Kept, Shaped
  <2> HIDE DEF u
  <2> QED
    BY <1>1, <2>1, StepFrom
<1> HIDE DEF k, u
<1> QED
  BY <1>1, <1>2, <1>3, StepFrom, GuestStepKeeps

\* GuestReadsHeader.
LEMMA StepGuestReadsHeader ==
  ASSUME RelayInv, GuestReadsHeader
  PROVE  RelayInv'
<1> DEFINE f == Head(lane.down)
           k == Parting(guestPump, f.id)
           m == [guestPump EXCEPT !.in = f]
           d == Tail(lane.down)
<1>1. /\ guestPump.status = "run" /\ guestPump.in = NoRelay /\ lane.down # <<>>
      /\ hostPump' = hostPump /\ lane' = [lane EXCEPT !.down = d] /\ ends' = ends
      /\ f.kind = "CLOSE" => GuestStep(k)
      /\ f.kind # "CLOSE" => GuestStep(m)
  BY DEF GuestReadsHeader, GuestRuns, Parting
<1>2. Kept(hostPump, guestPump, lane.up, lane.down, ends)
  BY StepFrom
<1>3. /\ f.kind = "CLOSE" => Kept(hostPump, k, lane.up, d, ends) /\ k.status = "run"
      /\ f.kind # "CLOSE" => Kept(hostPump, m, lane.up, d, ends) /\ m.status = "run"
  <2>1. guestPump.status = "run" /\ guestPump.in = NoRelay /\ lane.down # <<>>
    BY <1>1
  <2>2. ASSUME f.kind = "CLOSE" PROVE Kept(hostPump, k, lane.up, d, ends) /\ k.status = "run"
    <3>1. Kept(hostPump, k, lane.up, d, ends)
      BY <1>2, <2>1, <2>2, GuestHeaderKeeps
    <3>2. k.status = guestPump.status
      BY StepFrom, ClosingAlone DEF Parting
    <3> QED
      BY <2>1, <3>1, <3>2
  <2>3. f.kind # "CLOSE" => Kept(hostPump, m, lane.up, d, ends) /\ m.status = "run"
    BY <1>2, <2>1, GuestHeaderKeeps
  <2> QED
    BY <2>2, <2>3
<1>4. /\ d \in Seq(Parcel) /\ lane' = [up |-> lane.up, down |-> d] /\ lane.up \in Seq(Parcel)
      /\ HostSettled(hostPump)
  <2>1. d \in Seq(Parcel)
    BY <1>3 DEF Kept, Shaped
  <2> HIDE DEF d
  <2> QED
    BY <1>1, <2>1, StepFrom
<1> HIDE DEF k, m, d
<1>5. CASE f.kind = "CLOSE"
  BY <1>1, <1>3, <1>4, <1>5, GuestStepKeeps
<1>6. CASE f.kind # "CLOSE"
  BY <1>1, <1>3, <1>4, <1>6, GuestStepKeeps
<1> QED
  BY <1>5, <1>6

\* GuestReadsPayload.
LEMMA StepGuestReadsPayload ==
  ASSUME RelayInv, GuestReadsPayload
  PROVE  RelayInv'
<1> DEFINE f == guestPump.in
           r == guestPump.peers[f.id]
           m == [guestPump EXCEPT !.in = NoRelay]
           q == [r EXCEPT !.queue = Append(r.queue, f.n)]
           k == PutPeer(m, f.id, q)
<1>1. guestPump.status = "run" /\ guestPump.in # NoRelay /\ ~guestPump.exited
      /\ hostPump' = hostPump /\ lane' = lane /\ ends' = ends
  BY DEF GuestReadsPayload, GuestRuns
<1>2. /\ r = NoRelay \/ r.closing => Kept(hostPump, m, lane.up, lane.down, ends) /\ m.status = "run"
      /\ r # NoRelay /\ ~r.closing /\ Len(r.queue) < QueueLimit =>
           Kept(hostPump, k, lane.up, lane.down, ends) /\ k.status = "run"
  BY <1>1, StepFrom, GuestPayloadKeeps
<1>3. lane.up \in Seq(Parcel) /\ lane.down \in Seq(Parcel) /\ lane' = [up |-> lane.up, down |-> lane.down]
      /\ HostSettled(hostPump)
  BY <1>1, StepFrom
<1>4. CASE r = NoRelay \/ r.closing
  <2>1. GuestStep(m)
    BY <1>4 DEF GuestReadsPayload
  <2>2. Kept(hostPump, m, lane.up, lane.down, ends) /\ m.status = "run"
    BY <1>2, <1>4
  <2> HIDE DEF m
  <2> QED
    BY <1>1, <1>3, <2>1, <2>2, GuestStepKeeps
<1>5. CASE ~(r = NoRelay \/ r.closing)
  <2>1. Len(r.queue) < QueueLimit /\ GuestStep([m EXCEPT !.peers[f.id].queue = Append(@, f.n)])
    BY <1>5 DEF GuestReadsPayload
  <2>2. m.peers = guestPump.peers /\ m \in GuestSet
    BY StepFrom DEF GuestSet
  <2>3. k = [m EXCEPT !.peers[f.id].queue = Append(@, f.n)]
    <3> HIDE DEF m
    <3> QED
      BY <2>2 DEF PutPeer, GuestSet
  <2>4. GuestStep(k)
    BY <2>1, <2>3
  <2>5. Kept(hostPump, k, lane.up, lane.down, ends) /\ k.status = "run"
    BY <1>2, <1>5, <2>1
  <2> HIDE DEF k
  <2> QED
    BY <1>1, <1>3, <2>4, <2>5, GuestStepKeeps
<1> QED
  BY <1>4, <1>5

\* The guest ends.
LEMMA GuestEnds ==
  ASSUME RelayInv, NEW d \in Seq(Parcel), NoOpens(d),
         guestPump' = [EmptyGuest("failed", guestPump.program) EXCEPT !.exited = guestPump.exited],
         hostPump' = hostPump, lane' = [up |-> lane.up, down |-> d], ends' = ends
  PROVE  RelayInv'
<1> DEFINE k == [EmptyGuest("failed", guestPump.program) EXCEPT !.exited = guestPump.exited]
<1>1. Kept(hostPump, guestPump, lane.up, lane.down, ends)
  BY StepFrom
<1>2. Kept(hostPump, k, lane.up, d, ends) /\ GuestSettled(k)
  BY <1>1, GuestEndKeeps
<1> HIDE DEF k
<1>3. guestPump' = k
  BY DEF k
<1>4. lane'.up = lane.up /\ lane'.down = d /\ lane' \in [up : Seq(Parcel), down : Seq(Parcel)]
  BY StepFrom
<1>5. Kept(hostPump', guestPump', lane'.up, lane'.down, ends') /\ GuestSettled(guestPump')
  BY <1>2, <1>3, <1>4
<1>6. HostSettled(hostPump')
  BY StepFrom
<1> QED
  BY <1>4, <1>5, <1>6 DEF RelayInv

\* GuestReadsEof: the end of the lane is clean or the pump fails.
LEMMA StepGuestReadsEof ==
  ASSUME RelayInv, GuestReadsEof
  PROVE  RelayInv'
<1> DEFINE k == [Closing(guestPump, Streams, FALSE) EXCEPT !.eof = TRUE]
           t == [EmptyGuest("failed", guestPump.program) EXCEPT !.exited = guestPump.exited]
<1>1. /\ guestPump.status = "run" /\ hostPump.status # "run" /\ ~guestPump.exited /\ lane.down = <<>>
      /\ hostPump' = hostPump /\ lane' = lane /\ ends' = ends
      /\ guestPump.in = NoRelay => GuestStep(k)
      /\ guestPump.in # NoRelay => GuestStep(t)
  BY DEF GuestReadsEof, GuestRuns, HostRuns
<1>2. CASE guestPump.in = NoRelay
  <2>1. Kept(hostPump, k, lane.up, lane.down, ends) /\ k.status = "run"
    BY <1>1, StepFrom, GuestEofKeeps
  <2> HIDE DEF k
  <2> QED
    BY <1>1, <1>2, <2>1, StepFrom, GuestStepKeeps
<1>3. CASE guestPump.in # NoRelay
  <2>1. t.status = "failed"
    BY DEF EmptyGuest
  <2>2. guestPump' = t
    BY <1>1, <1>3, <2>1 DEF GuestStep
  <2>3. lane' = [up |-> lane.up, down |-> lane.down] /\ lane.down \in Seq(Parcel) /\ NoOpens(lane.down)
    BY <1>1, StepFrom DEF Kept, Shaped
  <2> QED
    BY <1>1, <2>2, <2>3, GuestEnds
<1> QED
  BY <1>2, <1>3

\* GuestStops.
LEMMA StepGuestStops ==
  ASSUME RelayInv, GuestStops
  PROVE  RelayInv'
<1>1. /\ guestPump' = [EmptyGuest("failed", guestPump.program) EXCEPT !.exited = guestPump.exited]
      /\ hostPump' = hostPump /\ ends' = ends /\ lane' = [lane EXCEPT !.down = <<>>]
  BY DEF GuestStops
<1>2. lane' = [up |-> lane.up, down |-> <<>>]
  BY <1>1, StepFrom
<1>3. <<>> \in Seq(Parcel) /\ NoOpens(<<>>)
  BY DEF NoOpens
<1> QED
  BY <1>1, <1>2, <1>3, GuestEnds

\* RelayInv is inductive.
LEMMA RelayStutters ==
  ASSUME RelayInv, UNCHANGED relayVars
  PROVE  RelayInv'
<1>1. hostPump' = hostPump /\ guestPump' = guestPump /\ lane' = lane /\ ends' = ends
  BY DEF relayVars
<1> QED
  BY <1>1 DEF RelayInv

\* Every step keeps RelayInv.
LEMMA RelayStep ==
  ASSUME RelayInv, [RelayNext]_relayVars
  PROVE  RelayInv'
<1>1. CASE RelayNext
  <2>1. ASSUME NEW r \in ConnectResults, HostReadsHeader(r) PROVE RelayInv'
    BY <2>1, StepReadsHeader
  <2>2. ASSUME HostReadsPayload \/ HostReadsEof \/ HostHangsUp \/ HostWrites \/ TimePasses \/ HostExpires
        PROVE  RelayInv'
    BY <2>2, StepReadsPayload, StepReadsEof, StepHostWrites, StepTime, StepHostEnds
  <2>3. ASSUME \/ GuestCommandExits \/ GuestAccepts \/ GuestWrites \/ GuestReadsHeader
               \/ GuestReadsPayload \/ GuestReadsEof \/ GuestStops
        PROVE  RelayInv'
    BY <2>3, StepExits, StepAccepts, StepGuestWrites, StepGuestReadsHeader, StepGuestReadsPayload,
       StepGuestReadsEof, StepGuestStops
  <2>4. ASSUME NEW id \in Streams, NEW r \in ConnectResults, HostConnects(id, r) PROVE RelayInv'
    BY <2>4, StepConnects
  <2>5. ASSUME NEW id \in Streams, NEW eof \in BOOLEAN, HostReadsPeer(id, eof) \/ GuestReadsPeer(id, eof)
        PROVE  RelayInv'
    BY <2>5, StepHostReadsPeer, StepGuestReadsPeer
  <2>6. ASSUME NEW id \in Streams, HostWritesPeer(id) \/ HostPeerBreaks(id) PROVE RelayInv'
    BY <2>6, StepHostWritesPeer, StepHostEnds
  <2>7. ASSUME NEW id \in Streams, NEW ok \in BOOLEAN, GuestWritesPeer(id, ok) PROVE RelayInv'
    BY <2>7, StepGuestWritesPeer
  <2> QED
    BY <1>1, <2>1, <2>2, <2>3, <2>4, <2>5, <2>6, <2>7 DEF RelayNext
<1>2. CASE UNCHANGED relayVars
  BY <1>2, RelayStutters
<1> QED
  BY <1>1, <1>2

\* The relay starts with nothing queued, connected or under way.
LEMMA RelayStarts ==
  ASSUME RelayInit
  PROVE  RelayInv
<1> DEFINE h == EmptyHost("run")
           none == <<>>
           zero == [id \in Streams |-> 0]
           e == [sentUp |-> zero, gotUp |-> zero, sentDown |-> zero, gotDown |-> zero]
<1>1. PICK program \in Programs : guestPump = EmptyGuest("run", program)
  BY DEF RelayInit
<1> DEFINE g == EmptyGuest("run", program)
<1>2. hostPump = h /\ guestPump = g /\ ends = e /\ lane = [up |-> none, down |-> none]
  BY <1>1 DEF RelayInit
<1>3. /\ h.status = "run" /\ h.in = NoRelay /\ h.out = <<>> /\ h.eof = FALSE /\ h.age = 0
      /\ h.peers = [id \in Streams |-> NoRelay]
  BY DEF EmptyHost
<1>4. /\ g.status = "run" /\ g.in = NoRelay /\ g.out = <<>> /\ g.eof = FALSE /\ g.exited = FALSE
      /\ g.nextId = 1 /\ g.peers = [id \in Streams |-> NoRelay]
  BY DEF EmptyGuest
<1>5. none \in Seq(Entry) /\ none \in Seq(Parcel) /\ Frames(none) = none
  BY FramesEmpty
<1>6. h \in HostSet
  BY <1>5 DEF HostSet, EmptyHost
<1>7. g \in GuestSet
  BY <1>5, StreamFacts DEF GuestSet, EmptyGuest
<1>8. zero \in Counts /\ e \in EndsSet
  BY StreamFacts DEF Counts, EndsSet
<1>9. \A id \in Streams : /\ h.peers[id] = NoRelay /\ g.peers[id] = NoRelay
                          /\ e.sentUp[id] = 0 /\ e.gotUp[id] = 0 /\ e.sentDown[id] = 0 /\ e.gotDown[id] = 0
  BY <1>3, <1>4
<1>10. lane.up = none /\ lane.down = none /\ lane \in [up : Seq(Parcel), down : Seq(Parcel)]
  BY <1>2, <1>5
<1> HIDE DEF h, g, e, zero
<1>11. Frames(h.out) = none /\ Frames(g.out) = none /\ NoOpens(none)
  BY <1>3, <1>4, <1>5 DEF NoOpens
<1>12. Shaped(h, g, none, none, e)
  BY <1>3, <1>4, <1>5, <1>6, <1>7, <1>8, <1>11 DEF Shaped
<1>13. Live(h.peers) = {} /\ Live(g.peers) = {}
  BY <1>3, <1>4 DEF Live
<1>14. /\ Used(Frames(h.out)) <= OutLimit /\ Used(Frames(g.out)) <= OutLimit
       /\ Ageing(h.out) /\ Ageing(g.out)
  <2>1. h.out \in Seq(Entry) /\ g.out \in Seq(Entry)
    BY <1>6, <1>7, HostOf, GuestOf
  <2>2. Room(h.out) = OutLimit /\ Room(g.out) = OutLimit
    BY <1>3, <1>4, <2>1, RoomOf, Zenon
  <2>3. /\ Used(Frames(h.out)) <= OutLimit <=> Room(h.out) >= 0
        /\ Used(Frames(g.out)) <= OutLimit <=> Room(g.out) >= 0
    BY <2>1, RoomOf, Zenon
  <2>4. Ageing(h.out) /\ Ageing(g.out)
    BY <1>3, <1>4, AgeNone, Zenon
  <2> QED
    BY <2>2, <2>3, <2>4, StreamFacts
<1>15. HostHeld(h)
  <2>1. Cardinality({}) = 0
    BY FS_EmptySet
  <2>2. Cardinality(Live(h.peers)) <= PeerLimit
    BY <1>13, <2>1, StreamFacts
  <2> QED
    BY <1>3, <1>13, <1>14, <2>2 DEF HostHeld
<1>16. GuestHeld(g)
  BY <1>4, <1>13, <1>14 DEF GuestHeld
<1>17. UpOf(h, g, none) = none /\ DownOf(h, g, none) = none
  BY <1>3, <1>4, <1>11 DEF UpOf, DownOf, Way, InHand
<1>18. ASSUME NEW id \in Streams
       PROVE  Carried(h, g, none, none, e, id)
  <2>1. Keys(none, id) = {} /\ Rising(none, id)
    BY KeysNone
  <2>2. HostQueue(NoRelay, id) = none /\ GuestQueue(NoRelay, id) = none
    BY DEF HostQueue, GuestQueue
  <2>3. UpSound(NoRelay, none, id)
    BY <2>1, <2>2 DEF UpSound
  <2>4. HostOn(NoRelay, none, id) = {} /\ GuestOn(NoRelay, none, id) = {}
    BY <2>1, <2>2 DEF HostOn, GuestOn
  <2>5. UpWhole(NoRelay, none, e, id)
    BY <1>9, <2>4 DEF UpWhole
  <2>6. DownWhole(NoRelay, none, e, id)
    BY <2>4 DEF DownWhole, DownSound
  <2>7. Agreed(NoRelay, NoRelay, none, none, FALSE, id)
    BY <2>1 DEF Agreed
  <2>8. Fresh(NoRelay, NoRelay, none, none, e, id)
    BY <1>9, <2>1 DEF Fresh
  <2>9. Stream(NoRelay, NoRelay, none, none, e, FALSE, 1, id)
    BY <2>5, <2>6, <2>7, <2>8 DEF Stream
  <2>10. h.peers[id] = NoRelay /\ g.peers[id] = NoRelay /\ g.exited = FALSE /\ g.nextId = 1
    BY <1>4, <1>9
  <2> QED
    BY <2>3, <2>9, <2>10 DEF Carried
<1>19. StreamsHeld(h, g, none, none, e)
  BY <1>17, <1>18 DEF StreamsHeld
<1>20. Ended(h, g, none)
  BY <1>3 DEF Ended
<1>21. HostSettled(h) /\ GuestSettled(g)
  BY <1>3, <1>13, <1>4 DEF HostSettled, GuestSettled
<1>22. Kept(h, g, none, none, e)
  BY <1>12, <1>15, <1>16, <1>19, <1>20 DEF Kept
<1> QED
  BY <1>2, <1>10, <1>21, <1>22 DEF RelayInv

\* Keys that rise are payloads in order.
LEMMA RisingIsConsecutive ==
  ASSUME NEW s \in Seq(Parcel), NEW id \in Streams, NEW a \in Nat, NEW b \in Nat,
         Rising(s, id), Keys(s, id) \cap 1 .. MaxData = a + 1 .. b
  PROVE  Consecutive(s, id, a, b)
<1>1. ASSUME NEW i \in DOMAIN s
      PROVE  /\ s[i] \in Parcel /\ Key(s[i]) \in 0 .. Last
             /\ s[i].kind = "DATA" <=> Key(s[i]) \in 1 .. MaxData
             /\ s[i].kind = "DATA" => Key(s[i]) = s[i].n
  <2>1. s[i] \in Parcel
    OBVIOUS
  <2> QED
    BY <2>1, KeyOf, StreamFacts
<1>2. {s[i].n : i \in Payloads(s, id)} = Keys(s, id) \cap 1 .. MaxData
  <2>1. ASSUME NEW i \in Payloads(s, id) PROVE s[i].n \in Keys(s, id) \cap 1 .. MaxData
    BY <1>1 DEF Payloads, Keys
  <2>2. ASSUME NEW k \in Keys(s, id) \cap 1 .. MaxData PROVE \E i \in Payloads(s, id) : k = s[i].n
    <3>1. PICK i \in DOMAIN s : s[i].id = id /\ k = Key(s[i])
      BY DEF Keys
    <3> QED
      BY <1>1, <3>1 DEF Payloads
  <2> QED
    BY <2>1, <2>2
<1>3. \A i, j \in Payloads(s, id) : i < j => s[i].n < s[j].n
  BY <1>1 DEF Payloads, Rising
<1> QED
  BY <1>2, <1>3 DEF Consecutive

\* RelayInv gives the types and the limits of the queues.
LEMMA InvTypes ==
  ASSUME RelayInv
  PROVE  RelayTypeOK
<1>1. hostPump \in HostSet /\ guestPump \in GuestSet /\ HostHeld(hostPump) /\ GuestHeld(guestPump)
  BY StepFrom DEF Kept
<1>2. /\ Frames(hostPump.out) \in Seq(Parcel) /\ Frames(guestPump.out) \in Seq(Parcel)
  BY <1>1, HostOf, GuestOf, FramesOf
<1>3. /\ Used(Frames(hostPump.out)) \in Nat /\ Used(Frames(guestPump.out)) \in Nat
      /\ Used(Frames(hostPump.out)) <= OutLimit /\ Used(Frames(guestPump.out)) <= OutLimit
  BY <1>1, <1>2, UsedOf DEF HostHeld, GuestHeld
<1>4. hostPump.status # "duplicate" \/ hostPump.status = "duplicate"
  OBVIOUS
<1>5. Room(hostPump.out) \in 0 .. OutLimit /\ Room(guestPump.out) \in 0 .. OutLimit
  BY <1>3, StreamFacts DEF Room
<1>6. /\ \A id \in Live(hostPump.peers) : Len(hostPump.peers[id].queue) <= QueueLimit
      /\ \A id \in Live(guestPump.peers) : Len(guestPump.peers[id].queue) <= QueueLimit
      /\ Cardinality(Live(hostPump.peers)) <= PeerLimit
  BY <1>1 DEF HostHeld, GuestHeld
<1> QED
  BY <1>1, <1>5, <1>6, HostOf, GuestOf DEF RelayTypeOK

\* RelayInv gives that nothing a program of the guest sent is lost, doubled or reordered.
LEMMA InvUp ==
  ASSUME RelayInv
  PROVE  UpStreamIntact
<1> SUFFICES ASSUME hostPump.status = "run", guestPump.status = "run", NEW id \in Live(hostPump.peers)
             PROVE  LET queue == hostPump.peers[id].queue
                    IN  Consecutive([i \in DOMAIN queue |-> Frame("DATA", id, queue[i].n)] \o UpWay,
                                    id, ends.gotUp[id], ends.sentUp[id])
  BY DEF UpStreamIntact, HostRuns, GuestRuns
<1> DEFINE p == hostPump.peers[id]
           q == HostQueue(p, id)
           U == UpOf(hostPump, guestPump, lane.up)
           D == DownOf(hostPump, guestPump, lane.down)
           S == q \o U
<1>1. Shaped(hostPump, guestPump, lane.up, lane.down, ends) /\ StreamsHeld(hostPump, guestPump, lane.up, lane.down, ends)
  BY StepFrom DEF Kept
<1>2. id \in Streams /\ p \in HostPeers /\ p # NoRelay /\ U \in Seq(Parcel) /\ ends \in EndsSet
  BY <1>1, ShapedOf, HostOf, StreamFacts
<1>3. Carried(hostPump, guestPump, U, D, ends, id)
  BY <1>1, <1>2 DEF StreamsHeld
<1>4. UpSound(p, U, id) /\ UpWhole(p, U, ends, id)
  BY <1>3 DEF Carried, Stream
<1>5. q = [i \in DOMAIN p.queue |-> Frame("DATA", id, p.queue[i].n)] /\ UpWay = U
  BY <1>2 DEF HostQueue, UpWay, UpOf, Way
<1>6. q \in Seq(Parcel)
  BY <1>2, HostQueueOf
<1>7. /\ ends.gotUp[id] \in Nat /\ ends.sentUp[id] \in Nat
  BY <1>2, EndsOf, StreamFacts
<1> HIDE DEF p, q, U, D
<1>8. S \in Seq(Parcel) /\ Keys(S, id) = Keys(q, id) \cup Keys(U, id)
  BY <1>2, <1>6, KeysConcat
<1>9. Rising(S, id)
  BY <1>4 DEF UpSound, q
<1>10. Keys(S, id) \cap 1 .. MaxData = ends.gotUp[id] + 1 .. ends.sentUp[id]
  BY <1>2, <1>4, <1>8 DEF UpWhole, HostOn, q
<1>11. Consecutive(S, id, ends.gotUp[id], ends.sentUp[id])
  <2> HIDE DEF S
  <2> QED
    BY <1>2, <1>7, <1>8, <1>9, <1>10, RisingIsConsecutive
<1> QED
  BY <1>5, <1>11 DEF p

\* RelayInv gives the same for what a program at the host sent.
LEMMA InvDown ==
  ASSUME RelayInv
  PROVE  DownStreamIntact
<1> SUFFICES ASSUME hostPump.status = "run", guestPump.status = "run", NEW id \in Live(guestPump.peers),
                    ~guestPump.peers[id].closing
             PROVE  LET queue == guestPump.peers[id].queue
                    IN  Consecutive([i \in DOMAIN queue |-> Frame("DATA", id, queue[i])] \o DownWay,
                                    id, ends.gotDown[id], ends.sentDown[id])
  BY DEF DownStreamIntact, HostRuns, GuestRuns
<1> DEFINE r == guestPump.peers[id]
           q == GuestQueue(r, id)
           U == UpOf(hostPump, guestPump, lane.up)
           D == DownOf(hostPump, guestPump, lane.down)
           S == q \o D
<1>1. Shaped(hostPump, guestPump, lane.up, lane.down, ends) /\ StreamsHeld(hostPump, guestPump, lane.up, lane.down, ends)
  BY StepFrom DEF Kept
<1>2. id \in Streams /\ r \in GuestPeers /\ r # NoRelay /\ D \in Seq(Parcel) /\ ends \in EndsSet
  BY <1>1, ShapedOf, GuestOf, StreamFacts
<1>3. Carried(hostPump, guestPump, U, D, ends, id)
  BY <1>1, <1>2 DEF StreamsHeld
<1>4. DownWhole(r, D, ends, id) /\ ~r.closing
  BY <1>3 DEF Carried, Stream
<1>5. q = [i \in DOMAIN r.queue |-> Frame("DATA", id, r.queue[i])] /\ DownWay = D
  BY <1>2 DEF GuestQueue, DownWay, DownOf, Way
<1>6. q \in Seq(Parcel)
  BY <1>2, GuestQueueOf
<1>7. /\ ends.gotDown[id] \in Nat /\ ends.sentDown[id] \in Nat
  BY <1>2, EndsOf, StreamFacts
<1> HIDE DEF r, q, U, D
<1>8. S \in Seq(Parcel) /\ Keys(S, id) = Keys(q, id) \cup Keys(D, id)
  BY <1>2, <1>6, KeysConcat
<1>9. Rising(S, id)
  BY <1>2, <1>4 DEF DownWhole, DownSound, q
<1>10. Keys(S, id) \cap 1 .. MaxData = ends.gotDown[id] + 1 .. ends.sentDown[id]
  BY <1>2, <1>4, <1>8 DEF DownWhole, GuestOn, q
<1>11. Consecutive(S, id, ends.gotDown[id], ends.sentDown[id])
  <2> HIDE DEF S
  <2> QED
    BY <1>2, <1>7, <1>8, <1>9, <1>10, RisingIsConsecutive
<1> QED
  BY <1>5, <1>11 DEF r

\* RelayInv gives that no id is opened twice and that a clean end left nothing behind.
LEMMA InvEnds ==
  ASSUME RelayInv
  PROVE  NoDuplicateStream /\ OkMeansDrained
<1>1. Ended(hostPump, guestPump, lane.up)
  BY StepFrom DEF Kept
<1> QED
  BY <1>1 DEF Ended, NoDuplicateStream, OkMeansDrained

\* RelayInv gives that two idle pumps serve the same connections.
LEMMA InvAgrees ==
  ASSUME RelayInv
  PROVE  StreamsAgree
<1> SUFFICES ASSUME hostPump.status = "run", guestPump.status = "run", ~guestPump.exited,
                    lane.up = <<>>, lane.down = <<>>, hostPump.in = NoRelay, guestPump.in = NoRelay,
                    Drained(hostPump), guestPump.out = <<>>,
                    \A id \in Live(guestPump.peers) : guestPump.peers[id].queue = <<>>
             PROVE  /\ Live(hostPump.peers) = Live(guestPump.peers)
                    /\ \A id \in Live(hostPump.peers) :
                          /\ ~hostPump.peers[id].eof /\ ~hostPump.peers[id].closed
                          /\ ~guestPump.peers[id].closing
  BY DEF StreamsAgree, HostRuns, GuestRuns
<1> DEFINE U == UpOf(hostPump, guestPump, lane.up)
           D == DownOf(hostPump, guestPump, lane.down)
<1>1. StreamsHeld(hostPump, guestPump, lane.up, lane.down, ends) /\ HostSettled(hostPump) /\ GuestSettled(guestPump)
  BY StepFrom DEF Kept
<1>2. hostPump.out = <<>> /\ \A id \in Live(hostPump.peers) : hostPump.peers[id].queue = <<>>
  BY DEF Drained
<1>3. Frames(hostPump.out) = <<>> /\ Frames(guestPump.out) = <<>>
  BY <1>2, FramesEmpty
<1>4. U = <<>> /\ D = <<>>
  BY <1>3 DEF UpOf, DownOf, Way, InHand
<1> HIDE DEF U, D
<1>5. ASSUME NEW id \in Streams
      PROVE  Agreed(hostPump.peers[id], guestPump.peers[id], U, D, guestPump.exited, id)
  BY <1>1 DEF StreamsHeld, Carried, Stream, U, D
<1>6. \A id : Keys(U, id) = {} /\ Keys(D, id) = {}
  BY <1>4, KeysNone
<1>7. \A id \in Live(hostPump.peers) : ~hostPump.peers[id].closed /\ ~hostPump.peers[id].eof
  BY <1>1, <1>2 DEF HostSettled
<1>8. \A id \in Live(guestPump.peers) : ~guestPump.peers[id].closing
  BY <1>1 DEF GuestSettled
<1>9. \A id \in Live(hostPump.peers) : id \in Live(guestPump.peers)
  BY <1>5, <1>6, <1>7 DEF Agreed, Live
<1>10. \A id \in Live(guestPump.peers) : id \in Live(hostPump.peers)
  BY <1>5, <1>6, <1>8 DEF Agreed, Live
<1> QED
  BY <1>7, <1>8, <1>9, <1>10

\* RelayInv gives that nothing that could be answered waits and nothing is overdue.
LEMMA InvProgress ==
  ASSUME RelayInv
  PROVE  RelayProgress
<1>1. HostHeld(hostPump) /\ HostSettled(hostPump)
  BY StepFrom DEF Kept
<1>2. NoIdleHeader
  BY <1>1 DEF NoIdleHeader, HostSettled, HostRuns
<1>3. DeadlineKept
  BY <1>1 DEF DeadlineKept, HostHeld, Ageing
<1> QED
  BY <1>2, <1>3 DEF RelayProgress

\* RelayInv gives StreamsIntact.
LEMMA InvStreams ==
  ASSUME RelayInv
  PROVE  StreamsIntact
BY InvTypes, InvUp, InvDown, InvEnds, InvAgrees DEF StreamsIntact

\* The inductive invariant holds in every state of bridge_with_limits and of the Perl loop.
THEOREM RelayInductive == RelaySpec => []RelayInv
<1>1. RelayInit => RelayInv
  BY RelayStarts
<1>2. RelayInv /\ [RelayNext]_relayVars => RelayInv'
  BY RelayStep
<1> QED
  BY <1>1, <1>2, PTL DEF RelaySpec

\* For any number of streams and payloads and any limits of peers, queues, outputs and lanes,
\* bridge_with_limits and the Perl loop carry every stream in order and once in both directions,
\* open it once and close it at both ends, and the relay ends well only when it has passed
\* everything on (apple_container_transport.rs, container_sessions.rs).
THEOREM StreamsAreIntact == RelaySpec => []StreamsIntact
<1>1. RelayInv => StreamsIntact
  BY InvStreams
<1> QED
  BY <1>1, RelayInductive, PTL

\* For any limits the host pump never polls with a header it could answer, and nothing in it
\* is older than the deadline its poll considers (apple_container_transport.rs).
THEOREM RelayNeverIdles == RelaySpec => []RelayProgress
<1>1. RelayInv => RelayProgress
  BY InvProgress
<1> QED
  BY <1>1, RelayInductive, PTL
=============================================================================
