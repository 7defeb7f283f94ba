--------------------------- MODULE TransportProofs ---------------------------
(***************************************************************************)
(* Proofs about ResearchMcp: the requests and the helpers of the research  *)
(* MCP server.                                                             *)
(***************************************************************************)
EXTENDS ResearchMcp, SequenceTheorems, WellFoundedInduction, TLAPS

Reports == {"never_started", "running", "stopping", "ended", "cleanup_failed"}

\* Every helper has its record or none, a grace is due only to a stop, and the report agrees.
ChildrenKept ==
    /\ child \in [Helpers -> ChildRecord \union {NoChild}]
    /\ report \in [Helpers -> Reports]
    /\ \A p \in Helpers : child[p] # NoChild =>
          /\ child[p].graceDue => child[p].stopping
          /\ report[p] = IF child[p].stopping THEN "stopping" ELSE "running"
          /\ child[p].image = 0

\* What the loop holds.
Token == [kind : {"launch", "stop"}, profile : Helpers, id : Nat]
         \union [kind : {"initialize", "status", "ping"}, profile : {NoChild}, id : Nat]
         \union [kind : {"initialized", "junk", "end"}, profile : {NoChild}, id : {0}]
Response == [id : Nat]
Work == [profile : Helpers, id : Nat, of : Nat]
Reached == {"tick", "frame", "poll", "verify", "exec", "drop", "done"}
LoopKept ==
    /\ serverPc \in Reached
    /\ client \in [said : Conversations, sent : Nat, open : BOOLEAN, reads : BOOLEAN]
    /\ client.sent <= Len(client.said)
    /\ wire \in Seq(Token)
    /\ frames \in [bytes : Seq(Token), eof : BOOLEAN] /\ Len(frames.bytes) <= MaxFrame + 1
    /\ answer \in Seq(Response) /\ Len(answer) <= 1
    /\ replies \in Seq(Response)
    /\ flags \in [signal : BOOLEAN, eofDue : BOOLEAN]

\* A helper is verified into an empty place, for a session that may call tools.
VerifiedKept ==
    /\ session \in [enabled : BOOLEAN, seen : BOOLEAN, ready : BOOLEAN]
    /\ session.ready => session.seen
    /\ kit \in Nat
    /\ IF serverPc \in {"verify", "exec"}
       THEN /\ verifying \in Work
            /\ child[verifying.profile] = NoChild
            /\ session.enabled /\ session.seen
            /\ answer = << >>
       ELSE verifying = NoWork
    /\ ToolsAreGated

\* On its way from the client a request stands between the ends of lines.
Lone(s) ==
    \A i, j \in DOMAIN s : j = i + 1 =>
       /\ s[i].id # 0 => s[j].kind = "end"
       /\ s[j].id # 0 => s[i].kind = "end"
StreamKept ==
    /\ Lone(frames.bytes \o wire)
    /\ client.open /\ wire # << >> => wire[Len(wire)].kind = "end"
    /\ client.open /\ wire = << >> /\ frames.bytes # << >> => frames.bytes[Len(frames.bytes)].kind = "end"
    /\ frames.eof => wire = << >> /\ ~client.open

\* The numbers of requests, stage by stage: each stage is sorted, and comes before the next.
Held(s) == {s[i].id : i \in DOMAIN s} \ {0}
Sorted(s) == \A i, j \in DOMAIN s : i < j /\ s[i].id # 0 /\ s[j].id # 0 => s[i].id < s[j].id
Before(X, Y) == \A x \in X, y \in Y : x < y
Launching == IF verifying = NoWork THEN << >> ELSE <<verifying>>
Staged(R, A, V, B, W, sent, said) ==
    /\ Before(R, A \union V \union B \union W) /\ Before(A, V \union B \union W)
    /\ Before(V, B \union W) /\ Before(B, W)
    /\ R \union A \union V \union B \union W \subseteq 1 .. sent
    /\ \A n \in 1 .. sent : Asks(said[n]) => n \in R \union A \union V \union B \union W
OrderKept ==
    /\ Sorted(replies) /\ Sorted(frames.bytes) /\ Sorted(wire)
    /\ Staged(Held(replies), Held(answer), Held(Launching), Held(frames.bytes), Held(wire),
              client.sent, client.said)

ResearchInv == ChildrenKept /\ ServerEndsClean /\ LoopKept /\ VerifiedKept /\ StreamKept /\ OrderKept

-----------------------------------------------------------------------------
(* Sequences of what has a number.                                          *)

\* The numbers of a concatenation, and when it is sorted.
LEMMA HeldConcat ==
  ASSUME NEW S, \A x \in S : x.id \in Nat, NEW a \in Seq(S), NEW b \in Seq(S)
  PROVE  /\ a \o b \in Seq(S)
         /\ Held(a \o b) = Held(a) \union Held(b)
         /\ Sorted(a \o b) <=> Sorted(a) /\ Sorted(b) /\ Before(Held(a), Held(b))
<1> DEFINE c == a \o b
<1>1. /\ c \in Seq(S) /\ Len(c) = Len(a) + Len(b) /\ Len(a) \in Nat /\ Len(b) \in Nat
      /\ DOMAIN a = 1 .. Len(a) /\ DOMAIN b = 1 .. Len(b) /\ DOMAIN c = 1 .. Len(a) + Len(b)
      /\ \A i \in DOMAIN a : a[i] \in S /\ i \in DOMAIN c /\ c[i] = a[i]
      /\ \A i \in DOMAIN b : b[i] \in S /\ Len(a) + i \in DOMAIN c /\ c[Len(a) + i] = b[i]
      /\ \A i \in DOMAIN c : i > Len(a) => i - Len(a) \in DOMAIN b /\ c[i] = b[i - Len(a)]
  BY ConcatProperties
<1> HIDE DEF c
<1>2. \A i \in DOMAIN c : i \in DOMAIN a \/ i - Len(a) \in DOMAIN b
  BY <1>1
<1>3. Held(c) = Held(a) \union Held(b)
  <2>1. Held(c) \subseteq Held(a) \union Held(b)
    BY <1>1, <1>2 DEF Held
  <2>2. Held(a) \subseteq Held(c)
    BY <1>1 DEF Held
  <2>3. Held(b) \subseteq Held(c)
    BY <1>1 DEF Held
  <2> QED
    BY <2>1, <2>2, <2>3
<1>4. ASSUME Sorted(c)
      PROVE  Sorted(a) /\ Sorted(b) /\ Before(Held(a), Held(b))
  <2>1. Sorted(a)
    BY <1>1, <1>4 DEF Sorted
  <2>2. Sorted(b)
    <3> SUFFICES ASSUME NEW i \in DOMAIN b, NEW j \in DOMAIN b, i < j, b[i].id # 0, b[j].id # 0
                 PROVE  b[i].id < b[j].id
      BY DEF Sorted
    <3>1. /\ Len(a) + i \in DOMAIN c /\ Len(a) + j \in DOMAIN c /\ Len(a) + i < Len(a) + j
          /\ c[Len(a) + i] = b[i] /\ c[Len(a) + j] = b[j]
      BY <1>1
    <3> QED
      BY <1>4, <3>1 DEF Sorted
  <2>3. Before(Held(a), Held(b))
    <3> SUFFICES ASSUME NEW i \in DOMAIN a, NEW j \in DOMAIN b, a[i].id # 0, b[j].id # 0
                 PROVE  a[i].id < b[j].id
      BY DEF Before, Held
    <3>1. /\ i \in DOMAIN c /\ Len(a) + j \in DOMAIN c /\ i < Len(a) + j
          /\ c[i] = a[i] /\ c[Len(a) + j] = b[j]
      BY <1>1
    <3> QED
      BY <1>4, <3>1 DEF Sorted
  <2> QED
    BY <2>1, <2>2, <2>3
<1>5. ASSUME Sorted(a), Sorted(b), Before(Held(a), Held(b))
      PROVE  Sorted(c)
  <2> SUFFICES ASSUME NEW i \in DOMAIN c, NEW j \in DOMAIN c, i < j, c[i].id # 0, c[j].id # 0
               PROVE  c[i].id < c[j].id
    BY DEF Sorted
  <2>1. CASE j <= Len(a)
    <3>1. i \in DOMAIN a /\ j \in DOMAIN a /\ c[i] = a[i] /\ c[j] = a[j]
      BY <1>1, <2>1
    <3> QED
      BY <1>5, <3>1 DEF Sorted
  <2>2. CASE i <= Len(a) /\ j > Len(a)
    <3>1. i \in DOMAIN a /\ j - Len(a) \in DOMAIN b /\ c[i] = a[i] /\ c[j] = b[j - Len(a)]
      BY <1>1, <2>2
    <3>2. a[i].id \in Held(a) /\ b[j - Len(a)].id \in Held(b)
      BY <3>1 DEF Held
    <3> QED
      BY <1>5, <3>1, <3>2 DEF Before
  <2>3. CASE i > Len(a)
    <3>1. /\ i - Len(a) \in DOMAIN b /\ j - Len(a) \in DOMAIN b /\ i - Len(a) < j - Len(a)
          /\ c[i] = b[i - Len(a)] /\ c[j] = b[j - Len(a)]
      BY <1>1, <2>3
    <3> QED
      BY <1>5, <3>1 DEF Sorted
  <2> QED
    BY <1>1, <2>1, <2>2, <2>3
<1> QED
  BY <1>1, <1>3, <1>4, <1>5 DEF c

LEMMA HeldShort ==
  /\ Held(<< >>) = {} /\ Sorted(<< >>)
  /\ \A x : Held(<<x>>) = {x.id} \ {0} /\ Sorted(<<x>>)
<1>1. DOMAIN << >> = {}
  OBVIOUS
<1>2. Held(<< >>) = {} /\ Sorted(<< >>)
  BY <1>1 DEF Held, Sorted
<1>3. ASSUME NEW x PROVE Held(<<x>>) = {x.id} \ {0} /\ Sorted(<<x>>)
  <2>1. DOMAIN <<x>> = {1} /\ <<x>>[1] = x
    OBVIOUS
  <2> HIDE <2>1
  <2>2. Held(<<x>>) = {x.id} \ {0}
    BY <2>1 DEF Held
  <2>3. Sorted(<<x>>)
    BY <2>1 DEF Sorted
  <2> QED
    BY <2>2, <2>3
<1> QED
  BY <1>2, <1>3

\* Where the elements of two sequences are in the one made of both.
LEMMA Joined ==
  ASSUME NEW S, NEW a \in Seq(S), NEW b \in Seq(S)
  PROVE  /\ Len(a \o b) = Len(a) + Len(b)
         /\ \A i \in 1 .. Len(b) : (a \o b)[Len(a) + i] = b[i]
<1>1. Len(a) \in Nat /\ Len(b) \in Nat
  OBVIOUS
<1>2. /\ Len(a \o b) = Len(a) + Len(b)
      /\ \A i \in 1 .. Len(a) + Len(b) : (a \o b)[i] = IF i <= Len(a) THEN a[i] ELSE b[i - Len(a)]
  BY ConcatProperties
<1>3. ASSUME NEW i \in 1 .. Len(b) PROVE (a \o b)[Len(a) + i] = b[i]
  <2>1. /\ Len(a) + i \in 1 .. Len(a) + Len(b) /\ ~(Len(a) + i <= Len(a))
        /\ (Len(a) + i) - Len(a) = i
    BY <1>1
  <2> QED
    BY <1>2, <2>1
<1> QED
  BY <1>2, <1>3

\* A sequence is its two pieces.
LEMMA Cut ==
  ASSUME NEW S, NEW s \in Seq(S), NEW k \in 0 .. Len(s)
  PROVE  /\ SubSeq(s, 1, k) \in Seq(S) /\ SubSeq(s, k + 1, Len(s)) \in Seq(S)
         /\ s = SubSeq(s, 1, k) \o SubSeq(s, k + 1, Len(s))
         /\ Len(SubSeq(s, 1, k)) = k /\ Len(SubSeq(s, k + 1, Len(s))) = Len(s) - k
         /\ \A i \in 1 .. k : SubSeq(s, 1, k)[i] = s[i]
         /\ \A i \in 1 .. Len(s) - k : SubSeq(s, k + 1, Len(s))[i] = s[k + i]
<1>1. Len(s) \in Nat /\ k \in Nat /\ k <= Len(s) /\ \A i \in 1 .. Len(s) : s[i] \in S
  OBVIOUS
<1>2. /\ SubSeq(s, 1, k) \in Seq(S) /\ Len(SubSeq(s, 1, k)) = IF 1 <= k THEN k - 1 + 1 ELSE 0
      /\ \A i \in 1 .. k - 1 + 1 : SubSeq(s, 1, k)[i] = s[1 + i - 1]
  <2>1. 1 \in Int /\ k \in Int /\ \A i \in 1 .. k : s[i] \in S
    BY <1>1
  <2> QED
    BY <2>1, SubSeqProperties
<1>3. /\ SubSeq(s, k + 1, Len(s)) \in Seq(S)
      /\ Len(SubSeq(s, k + 1, Len(s))) = IF k + 1 <= Len(s) THEN Len(s) - (k + 1) + 1 ELSE 0
      /\ \A i \in 1 .. Len(s) - (k + 1) + 1 : SubSeq(s, k + 1, Len(s))[i] = s[(k + 1) + i - 1]
  <2>1. k + 1 \in Int /\ Len(s) \in Int /\ \A i \in k + 1 .. Len(s) : s[i] \in S
    BY <1>1
  <2> QED
    BY <2>1, SubSeqProperties
<1>4. s = SubSeq(s, 1, k) \o SubSeq(s, k + 1, Len(s))
  <2>1. 1 \in 1 .. Len(s) + 1 /\ k \in 1 - 1 .. Len(s) /\ Len(s) \in k .. Len(s)
    BY <1>1
  <2>2. SubSeq(s, 1, k) \o SubSeq(s, k + 1, Len(s)) = SubSeq(s, 1, Len(s))
    BY <2>1, ConcatAdjacentSubSeq
  <2> QED
    BY <2>2, SubSeqFull
<1>5. \A i \in Nat : 1 + i - 1 = i /\ (k + 1) + i - 1 = k + i
  BY <1>1
<1>6. Len(s) - (k + 1) + 1 = Len(s) - k /\ k - 1 + 1 = k
  BY <1>1
<1>7. \A i \in 1 .. k : SubSeq(s, 1, k)[i] = s[i]
  BY <1>2, <1>5, <1>6
<1>8. \A i \in 1 .. Len(s) - k : SubSeq(s, k + 1, Len(s))[i] = s[k + i]
  BY <1>3, <1>5, <1>6
<1>9. Len(SubSeq(s, 1, k)) = k /\ Len(SubSeq(s, k + 1, Len(s))) = Len(s) - k
  BY <1>1, <1>2, <1>3
<1> QED
  BY <1>2, <1>3, <1>4, <1>7, <1>8, <1>9

-----------------------------------------------------------------------------
(* The helpers.                                                             *)

\* What a step may leave of a child and its report.
Slot == [c : ChildRecord \union {NoChild}, r : Reports]
Sound(s) == s.c # NoChild => /\ s.c.graceDue => s.c.stopping
                             /\ s.r = IF s.c.stopping THEN "stopping" ELSE "running"
                             /\ s.c.image = 0

\* progress_stop kills a live graphical helper only when its grace is over.
LEMMA ProgressIsSound ==
  ASSUME NEW p \in Helpers, NEW c \in ChildRecord, c.stopping, c.image = 0, NEW s \in Progress(p, c)
  PROVE  /\ s \in Slot /\ Sound(s)
         /\ (p \in Gui /\ c.os = "alive" /\ s.c = NoChild) => c.graceDue
<1>1. CASE s \in Finished
  <2>1. s.c = NoChild /\ s.r \in {"ended", "cleanup_failed"}
    BY <1>1 DEF Finished
  <2>2. s \in Slot
    BY <1>1 DEF Finished, Slot, Reports
  <2>3. c.os = "alive" /\ p \in Gui /\ ~c.graceDue => FALSE
    <3> SUFFICES ASSUME c.os = "alive", p \in Gui, ~c.graceDue PROVE FALSE
      OBVIOUS
    <3>1. PICK a \in {"unknown", "answered"} : s = [c |-> [c EXCEPT !.appkit = a], r |-> "stopping"]
      BY DEF Progress, ChildRecord
    <3>2. s.c = [c EXCEPT !.appkit = a] /\ [c EXCEPT !.appkit = a] \in ChildRecord
      BY <3>1 DEF ChildRecord
    <3> QED
      BY <2>1, <3>2, NoChildAssumption
  <2> QED
    BY <2>1, <2>2, <2>3 DEF Sound, ChildRecord
<1>2. CASE s \notin Finished
  <2>1. PICK a \in {"unknown", "answered"} : s = [c |-> [c EXCEPT !.appkit = a], r |-> "stopping"]
    BY <1>2 DEF Progress, ChildRecord
  <2>2. /\ s.c = [c EXCEPT !.appkit = a] /\ s.r = "stopping" /\ [c EXCEPT !.appkit = a] \in ChildRecord
        /\ [c EXCEPT !.appkit = a].stopping /\ [c EXCEPT !.appkit = a].image = 0
    BY <2>1 DEF ChildRecord
  <2>3. s \in Slot
    BY <2>1, <2>2 DEF Slot, Reports
  <2> QED
    BY <2>2, <2>3, NoChildAssumption DEF Sound
<1> QED
  BY <1>1, <1>2

\* request_stop and tick likewise, whatever they find; neither makes a child.
LEMMA StoppingIsSound ==
  ASSUME NEW p \in Helpers, NEW c \in ChildRecord \union {NoChild},
         NEW r \in Reports, c # NoChild => c.image = 0,
         NEW s \in Stopping(p, c, r)
  PROVE  /\ s \in Slot /\ Sound(s)
         /\ c = NoChild => s.c = NoChild
         /\ (p \in Gui /\ c # NoChild /\ c.os = "alive" /\ s.c = NoChild) => c.graceDue
<1>1. CASE c = NoChild
  BY <1>1 DEF Stopping, Slot, Sound
<1>2. CASE c # NoChild
  <2> DEFINE d == [c EXCEPT !.stopping = TRUE]
  <2>1. d \in ChildRecord /\ d.stopping /\ d.image = 0 /\ d.os = c.os /\ d.graceDue = c.graceDue
    BY <1>2 DEF ChildRecord
  <2>2. s \in Progress(p, d)
    BY <1>2 DEF Stopping
  <2> HIDE DEF d
  <2> QED
    BY <1>2, <2>1, <2>2, ProgressIsSound
<1> QED
  BY <1>1, <1>2

LEMMA TickIsSound ==
  ASSUME NEW p \in Helpers, NEW c \in ChildRecord \union {NoChild},
         NEW r \in Reports,
         Sound([c |-> c, r |-> r]), NEW s \in Ticked(p, c, r)
  PROVE  /\ s \in Slot /\ Sound(s)
         /\ c = NoChild => s.c = NoChild
         /\ (p \in Gui /\ c # NoChild /\ c.os = "alive" /\ s.c = NoChild) => c.graceDue
<1>1. CASE s = [c |-> c, r |-> r]
  BY <1>1 DEF Slot
<1>2. CASE c # NoChild /\ c.os = "zombie" /\ s \in Finished
  BY <1>2 DEF Finished, Slot, Sound, Reports
<1>3. CASE s \in Stopping(p, c, r)
  <2>1. c # NoChild => c.image = 0
    BY DEF Sound
  <2> QED
    BY <1>3, <2>1, StoppingIsSound
<1> QED
  BY <1>1, <1>2, <1>3 DEF Ticked

\* What every step does to the children: they stay sound, and a grace is given.
KeptSlots ==
    /\ child' \in [Helpers -> ChildRecord \union {NoChild}]
    /\ report' \in [Helpers -> Reports]
    /\ \A p \in Helpers : child'[p] # NoChild =>
          /\ child'[p].graceDue => child'[p].stopping
          /\ report'[p] = IF child'[p].stopping THEN "stopping" ELSE "running"
          /\ child'[p].image = 0
    /\ \A p \in Gui : child[p] # NoChild /\ child[p].os = "alive" /\ child'[p] = NoChild
                         => child[p].graceDue
NoneMade == \A p \in Helpers : child[p] = NoChild => child'[p] = NoChild

LEMMA TickKeeps ==
  ASSUME ChildrenKept, Tick
  PROVE  KeptSlots /\ NoneMade
<1>1. PICK f \in [Helpers -> UNION {Ticked(p, child[p], report[p]) : p \in Helpers}] :
        /\ \A p \in Helpers : f[p] \in Ticked(p, child[p], report[p])
        /\ child' = [p \in Helpers |-> f[p].c] /\ report' = [p \in Helpers |-> f[p].r]
  BY DEF Tick, Everywhere
<1>2. ASSUME NEW p \in Helpers
      PROVE  /\ f[p] \in Slot /\ Sound(f[p])
             /\ child[p] = NoChild => f[p].c = NoChild
             /\ (p \in Gui /\ child[p] # NoChild /\ child[p].os = "alive" /\ f[p].c = NoChild) => child[p].graceDue
  <2>1. Sound([c |-> child[p], r |-> report[p]])
    BY DEF ChildrenKept, Sound
  <2>2. /\ child[p] \in ChildRecord \union {NoChild}
        /\ report[p] \in Reports
        /\ f[p] \in Ticked(p, child[p], report[p])
    BY <1>1 DEF ChildrenKept
  <2> QED
    BY <2>1, <2>2, TickIsSound
<1> QED
  BY <1>1, <1>2 DEF KeptSlots, NoneMade, Slot, Sound, Helpers

LEMMA StopsKeep ==
  ASSUME ChildrenKept, StopAll
  PROVE  KeptSlots /\ NoneMade
<1>1. PICK f \in [Helpers -> UNION {Stopping(p, child[p], report[p]) : p \in Helpers}] :
        /\ \A p \in Helpers : f[p] \in Stopping(p, child[p], report[p])
        /\ child' = [p \in Helpers |-> f[p].c] /\ report' = [p \in Helpers |-> f[p].r]
  BY DEF StopAll, Everywhere
<1>2. ASSUME NEW p \in Helpers
      PROVE  /\ f[p] \in Slot /\ Sound(f[p])
             /\ child[p] = NoChild => f[p].c = NoChild
             /\ (p \in Gui /\ child[p] # NoChild /\ child[p].os = "alive" /\ f[p].c = NoChild) => child[p].graceDue
  <2>1. /\ child[p] \in ChildRecord \union {NoChild}
        /\ report[p] \in Reports /\ (child[p] # NoChild => child[p].image = 0)
        /\ f[p] \in Stopping(p, child[p], report[p])
    BY <1>1 DEF ChildrenKept
  <2> QED
    BY <2>1, StoppingIsSound
<1> QED
  BY <1>1, <1>2 DEF KeptSlots, NoneMade, Slot, Sound, Helpers

LEMMA SameKeeps ==
  ASSUME ChildrenKept, Same
  PROVE  KeptSlots /\ NoneMade
  BY DEF ChildrenKept, Same, KeptSlots, NoneMade, Helpers

\* One child alone is stopped, or started.
LEMMA StopOneKeeps ==
  ASSUME ChildrenKept, NEW p \in Helpers, NEW s \in Slot, Sound(s),
         child' = [child EXCEPT ![p] = s.c], report' = [report EXCEPT ![p] = s.r],
         p \in Gui /\ child[p] # NoChild /\ child[p].os = "alive" /\ s.c = NoChild => child[p].graceDue
  PROVE  KeptSlots
  BY DEF ChildrenKept, KeptSlots, Slot, Sound, Helpers

LEMMA HandleStopKeeps ==
  ASSUME ChildrenKept, NEW frame, HandleStop(frame), frame[1].profile \in Helpers
  PROVE  KeptSlots /\ NoneMade
<1> DEFINE p == frame[1].profile
<1>1. PICK s \in Stopping(p, child[p], report[p]) :
        /\ child' = [child EXCEPT ![p] = s.c]
        /\ report' = [report EXCEPT ![p] = s.r]
  BY DEF HandleStop
<1>2. /\ child[p] \in ChildRecord \union {NoChild}
      /\ report[p] \in Reports /\ (child[p] # NoChild => child[p].image = 0)
  BY DEF ChildrenKept
<1>3. /\ s \in Slot /\ Sound(s)
      /\ child[p] = NoChild => s.c = NoChild
      /\ (p \in Gui /\ child[p] # NoChild /\ child[p].os = "alive" /\ s.c = NoChild) => child[p].graceDue
  BY <1>2, StoppingIsSound
<1>4. KeptSlots
  BY <1>1, <1>3, StopOneKeeps
<1>5. NoneMade
  BY <1>1, <1>3 DEF NoneMade, ChildrenKept
<1> QED
  BY <1>4, <1>5

\* A helper that is spawned takes an empty place, as the manifest names it, and is asked to stop at
\* once if its pipes could not be set up.
LEMMA LaunchEndsKeeps ==
  ASSUME ChildrenKept, VerifiedKept, LaunchEnds
  PROVE  KeptSlots
<1> DEFINE p == verifying.profile
           new == [os |-> "alive", ttlDue |-> FALSE, stopping |-> FALSE, graceDue |-> FALSE,
                   appkit |-> "unknown", image |-> kit]
<1>0. p \in Helpers /\ child[p] = NoChild /\ new \in ChildRecord /\ new.image = kit
  BY DEF LaunchEnds, VerifiedKept, ChildRecord, Work
<1>1. CASE Same
  BY <1>1, SameKeeps
<1>2. CASE kit = 0 /\ child' = [child EXCEPT ![p] = new] /\ report' = [report EXCEPT ![p] = "running"]
  <2> DEFINE s == [c |-> new, r |-> "running"]
  <2>1. s \in Slot /\ Sound(s) /\ s.c = new /\ s.r = "running"
    BY <1>0, <1>2 DEF Slot, Sound, Reports
  <2> HIDE DEF s, new
  <2> QED
    BY <1>0, <1>2, <2>1, StopOneKeeps
<1>3. CASE kit = 0 /\ \E s \in Stopping(p, new, "running") :
             child' = [child EXCEPT ![p] = s.c] /\ report' = [report EXCEPT ![p] = s.r]
  <2>1. PICK s \in Stopping(p, new, "running") :
             child' = [child EXCEPT ![p] = s.c] /\ report' = [report EXCEPT ![p] = s.r]
    BY <1>3
  <2>2. s \in Slot /\ Sound(s)
    <3>1. "running" \in Reports
      BY DEF Reports
    <3> HIDE DEF new, p
    <3> QED
      BY <1>0, <1>3, <3>1, StoppingIsSound
  <2> QED
    BY <1>0, <2>1, <2>2, StopOneKeeps
<1> QED
  BY <1>1, <1>2, <1>3 DEF LaunchEnds

\* The environment changes a helper that runs, and makes its grace due after a stop alone.
LEMMA ChangeKeeps ==
  ASSUME ChildrenKept, NEW p \in Helpers, HelperExits(p) \/ TtlExpires(p) \/ GraceExpires(p)
  PROVE  KeptSlots /\ NoneMade
<1>1. PICK c \in ChildRecord : /\ Changes(p, c) /\ child[p] # NoChild
                               /\ c.graceDue => c.stopping
                               /\ c.stopping = child[p].stopping /\ c.image = child[p].image
  <2>1. child[p] # NoChild /\ child[p] \in ChildRecord
    BY DEF ChildrenKept, HelperExits, TtlExpires, GraceExpires
  <2>2. CASE HelperExits(p)
    <3>1. [child[p] EXCEPT !.os = "zombie"] \in ChildRecord
      BY <2>1 DEF ChildRecord
    <3> QED
      BY <2>1, <2>2, <3>1 DEF HelperExits, ChildrenKept, ChildRecord
  <2>3. CASE TtlExpires(p)
    <3>1. [child[p] EXCEPT !.ttlDue = TRUE] \in ChildRecord
      BY <2>1 DEF ChildRecord
    <3> QED
      BY <2>1, <2>3, <3>1 DEF TtlExpires, ChildrenKept, ChildRecord
  <2>4. CASE GraceExpires(p)
    <3>1. [child[p] EXCEPT !.graceDue = TRUE] \in ChildRecord
      BY <2>1 DEF ChildRecord
    <3> QED
      BY <2>1, <2>4, <3>1 DEF GraceExpires, ChildrenKept, ChildRecord
  <2> QED
    BY <2>2, <2>3, <2>4
<1>2. c # NoChild
  BY NoChildAssumption
<1> QED
  BY <1>1, <1>2 DEF Changes, Outside, ChildrenKept, KeptSlots, NoneMade, Helpers

-----------------------------------------------------------------------------
(* Frames.                                                                  *)

\* A frame is what comes before the first end of a line, or all there is at the end of the input.
LEMMA FrameOfBytes ==
  ASSUME LoopKept, HasFrame
  PROVE  /\ FrameLength \in 0 .. Len(frames.bytes)
         /\ \A i \in 1 .. FrameLength : frames.bytes[i].kind # "end"
         /\ \/ FrameLength = Len(frames.bytes) /\ frames.eof
            \/ FrameLength < Len(frames.bytes) /\ frames.bytes[FrameLength + 1].kind = "end"
<1>0. frames.bytes \in Seq(Token) /\ Len(frames.bytes) \in Nat
  BY DEF LoopKept
<1>1. Ends \subseteq Nat /\ Ends \subseteq 1 .. Len(frames.bytes)
  BY <1>0 DEF Ends
<1>2. CASE Ends = {}
  BY <1>0, <1>2 DEF Ends, FrameLength, HasFrame
<1>3. CASE Ends # {}
  <2> DEFINE Less == OpToRel(<, Nat)
  <2>1. IsWellFoundedOn(Less, Nat)
    BY NatLessThanWellFounded
  <2>2. ASSUME NEW m \in Nat, NEW n \in Nat, m < n
        PROVE  <<m, n>> \in Less
    BY <2>2 DEF OpToRel
  <2> HIDE DEF Less
  <2> DEFINE E == Ends
  <2>3. E \subseteq Nat /\ E # {}
    BY <1>1, <1>3
  <2> HIDE DEF E
  <2>4. PICK e \in E : \A j \in E : ~(<<j, e>> \in Less)
    BY <2>1, <2>3, WFMin
  <2>5. ASSUME NEW j \in E PROVE e <= j
    <3>1. e \in Nat /\ j \in Nat
      BY <2>3
    <3>2. ~(j < e)
      BY <2>2, <2>4, <3>1
    <3> QED
      BY <3>1, <3>2
  <2> DEFINE f == CHOOSE i \in E : \A j \in E : i <= j
  <2>6. f \in E /\ \A j \in E : f <= j
    BY <2>4, <2>5
  <2>7. FrameLength = f - 1
    BY <1>3 DEF FrameLength, E
  <2> HIDE DEF f
  <2>8. f \in 1 .. Len(frames.bytes) /\ frames.bytes[f].kind = "end"
    BY <1>1, <2>6 DEF E, Ends
  <2>9. \A i \in 1 .. Len(frames.bytes) : i < f => frames.bytes[i].kind # "end"
    BY <1>1, <2>6 DEF E, Ends
  <2> QED
    BY <1>0, <2>7, <2>8, <2>9
<1> QED
  BY <1>2, <1>3

\* What is in front of or behind a cut of the stream.
LEMMA LoneParts ==
  ASSUME NEW a \in Seq(Token), NEW b \in Seq(Token), Lone(a \o b)
  PROVE  Lone(a) /\ Lone(b)
<1> DEFINE c == a \o b
<1>1. /\ Len(a) \in Nat /\ Len(b) \in Nat
      /\ DOMAIN a = 1 .. Len(a) /\ DOMAIN b = 1 .. Len(b) /\ DOMAIN c = 1 .. Len(a) + Len(b)
      /\ \A i \in DOMAIN a : i \in DOMAIN c /\ c[i] = a[i]
      /\ \A i \in DOMAIN b : Len(a) + i \in DOMAIN c /\ c[Len(a) + i] = b[i]
  BY ConcatProperties
<1>2. Lone(c)
  OBVIOUS
<1> HIDE DEF c
<1>3. Lone(a)
  BY <1>1, <1>2 DEF Lone
<1>4. Lone(b)
  <2> SUFFICES ASSUME NEW i \in DOMAIN b, NEW j \in DOMAIN b, j = i + 1
               PROVE  /\ b[i].id # 0 => b[j].kind = "end"
                      /\ b[j].id # 0 => b[i].kind = "end"
    BY DEF Lone
  <2>1. /\ Len(a) + i \in DOMAIN c /\ Len(a) + j \in DOMAIN c /\ Len(a) + j = (Len(a) + i) + 1
        /\ c[Len(a) + i] = b[i] /\ c[Len(a) + j] = b[j]
    BY <1>1
  <2> QED
    BY <1>2, <2>1 DEF Lone
<1> QED
  BY <1>3, <1>4

LEMMA TokensAssociate ==
  \A a, b, c \in Seq(Token) : (a \o b) \o c = a \o (b \o c)
  BY ConcatAssociative

\* A line may follow what ends with an end.
LEMMA LoneJoin ==
  ASSUME NEW a \in Seq(Token), NEW b \in Seq(Token), Lone(a), Lone(b),
         a # << >> => a[Len(a)].kind = "end"
  PROVE  Lone(a \o b)
<1> DEFINE c == a \o b
<1>1. /\ Len(a) \in Nat /\ Len(b) \in Nat
      /\ DOMAIN a = 1 .. Len(a) /\ DOMAIN b = 1 .. Len(b) /\ DOMAIN c = 1 .. Len(a) + Len(b)
      /\ \A i \in DOMAIN c : IF i <= Len(a) THEN i \in DOMAIN a /\ c[i] = a[i]
                                            ELSE i - Len(a) \in DOMAIN b /\ c[i] = b[i - Len(a)]
  BY ConcatProperties
<1>2. Len(a) > 0 => a[Len(a)].kind = "end" /\ a[Len(a)].id = 0
  <2> SUFFICES ASSUME Len(a) > 0 PROVE a[Len(a)].kind = "end" /\ a[Len(a)].id = 0
    OBVIOUS
  <2>1. a # << >> /\ a[Len(a)] \in Token
    OBVIOUS
  <2> QED
    BY <2>1 DEF Token
<1> HIDE DEF c
<1>3. ASSUME NEW i \in DOMAIN c, NEW j \in DOMAIN c, j = i + 1
      PROVE  /\ c[i].id # 0 => c[j].kind = "end"
             /\ c[j].id # 0 => c[i].kind = "end"
  <2>1. CASE j <= Len(a)
    <3>1. i \in DOMAIN a /\ j \in DOMAIN a /\ c[i] = a[i] /\ c[j] = a[j]
      BY <1>1, <1>3, <2>1
    <3> QED
      BY <1>3, <3>1 DEF Lone
  <2>2. CASE i = Len(a)
    BY <1>1, <1>2, <1>3, <2>2
  <2>3. CASE i > Len(a)
    <3>1. /\ i - Len(a) \in DOMAIN b /\ j - Len(a) \in DOMAIN b /\ j - Len(a) = (i - Len(a)) + 1
          /\ c[i] = b[i - Len(a)] /\ c[j] = b[j - Len(a)]
      BY <1>1, <1>3, <2>3
    <3> QED
      BY <3>1 DEF Lone
  <2> QED
    BY <1>1, <1>3, <2>1, <2>2, <2>3
<1> QED
  BY <1>3 DEF Lone, c

LEMMA TokenId == \A x \in Token : x.id \in Nat /\ (x.kind \in {"initialized", "junk", "end"} => x.id = 0)
  BY DEF Token

\* A frame of two tokens or more has no request in it.
LEMMA LongFrameHoldsNothing ==
  ASSUME NEW f \in Seq(Token), Lone(f), Len(f) > 1, \A i \in 1 .. Len(f) : f[i].kind # "end"
  PROVE  Held(f) = {}
<1>1. Len(f) \in Nat /\ DOMAIN f = 1 .. Len(f)
  OBVIOUS
<1>2. ASSUME NEW i \in DOMAIN f PROVE f[i].id = 0
  <2>1. CASE i < Len(f)
    <3>1. i + 1 \in DOMAIN f
      BY <1>1, <2>1
    <3> QED
      BY <1>1, <3>1 DEF Lone
  <2>2. CASE i = Len(f)
    <3>1. i - 1 \in DOMAIN f /\ i = (i - 1) + 1
      BY <1>1, <2>2
    <3> QED
      BY <1>1, <3>1 DEF Lone
  <2> QED
    BY <1>1, <2>1, <2>2
<1> QED
  BY <1>2 DEF Held

\* What taking a frame leaves of the stream, and what the frame holds.
LEMMA TakeParts ==
  ASSUME LoopKept, StreamKept, Sorted(frames.bytes), NEW frame, TakeFrame(frame)
  PROVE  /\ frame \in Seq(Token)
         /\ frames' \in [bytes : Seq(Token), eof : BOOLEAN] /\ Len(frames'.bytes) <= MaxFrame + 1
         /\ frames'.eof = frames.eof
         /\ Held(frames.bytes) = Held(frame) \union Held(frames'.bytes)
         /\ Sorted(frames'.bytes) /\ Before(Held(frame), Held(frames'.bytes))
         /\ Len(frame) > 1 => Held(frame) = {}
         /\ StreamKept'
<1> DEFINE b == frames.bytes
           L == FrameLength
           left == SubSeq(b, L + 2, Len(b))
<1>0. /\ b \in Seq(Token) /\ wire \in Seq(Token) /\ Len(b) \in Nat /\ Len(b) <= MaxFrame + 1 /\ MaxFrame \in Nat
      /\ frames \in [bytes : Seq(Token), eof : BOOLEAN] /\ serverPc \in Reached
  BY ResearchMcpAssumption DEF LoopKept
<1>1. /\ L \in 0 .. Len(b) /\ \A i \in 1 .. L : b[i].kind # "end"
      /\ (L = Len(b) /\ frames.eof) \/ (L < Len(b) /\ b[L + 1].kind = "end")
  BY FrameOfBytes DEF TakeFrame
<1>2. /\ frame = SubSeq(b, 1, L) /\ frames' = [frames EXCEPT !.bytes = left]
      /\ UNCHANGED <<client, wire>>
  BY DEF TakeFrame
<1>3. frames'.bytes = left /\ frames'.eof = frames.eof
  BY <1>0, <1>2
<1> HIDE DEF b, L, left
<1>4. /\ frame \in Seq(Token) /\ Len(frame) = L /\ \A i \in 1 .. L : frame[i] = b[i]
      /\ b = frame \o SubSeq(b, L + 1, Len(b)) /\ SubSeq(b, L + 1, Len(b)) \in Seq(Token)
  <2>1. L \in 0 .. Len(b) /\ b \in Seq(Token)
    BY <1>0, <1>1
  <2>2. /\ SubSeq(b, 1, L) \in Seq(Token) /\ SubSeq(b, L + 1, Len(b)) \in Seq(Token)
        /\ b = SubSeq(b, 1, L) \o SubSeq(b, L + 1, Len(b))
        /\ Len(SubSeq(b, 1, L)) = L /\ \A i \in 1 .. L : SubSeq(b, 1, L)[i] = b[i]
    BY <2>1, Cut
  <2>3. frame = SubSeq(b, 1, L)
    BY <1>2
  <2> QED
    BY <2>2, <2>3, Zenon
<1>5. Lone(b) /\ Lone(b \o wire)
  BY <1>0, LoneParts DEF StreamKept, b
<1>6. Len(frame) > 1 => Held(frame) = {}
  <2>1. Lone(frame)
    BY <1>4, <1>5, LoneParts
  <2>2. \A i \in 1 .. Len(frame) : frame[i].kind # "end"
    BY <1>1, <1>4
  <2> QED
    BY <1>4, <2>1, <2>2, LongFrameHoldsNothing
<1>7. /\ left \in Seq(Token) /\ Len(left) <= Len(b)
      /\ Held(b) = Held(frame) \union Held(left) /\ Sorted(left) /\ Before(Held(frame), Held(left))
      /\ Lone(left \o wire)
      /\ left # << >> => left[Len(left)] = b[Len(b)]
      /\ left # << >> => b # << >>
  <2>1. CASE L = Len(b)
    <3>1. left = << >>
      <4>1. L + 2 \in Int /\ Len(b) \in Int /\ Len(b) < L + 2
        BY <1>0, <1>1, <2>1
      <4> QED
        BY <4>1, SubSeqEmpty DEF left
    <3>2. frame = b
      BY <1>0, <1>2, <2>1, SubSeqFull
    <3>3. left \o wire = wire /\ Lone(wire)
      BY <1>0, <1>5, <3>1, LoneParts, ConcatEmptySeq
    <3>4. Len(left) = 0 /\ << >> \in Seq(Token)
      BY <3>1
    <3> QED
      BY <1>0, <3>1, <3>2, <3>3, <3>4, HeldShort DEF Before
  <2>2. CASE L < Len(b) /\ b[L + 1].kind = "end"
    <3> DEFINE k == L + 1
               G == SubSeq(b, 1, k)
    <3>1. k \in 0 .. Len(b) /\ k \in Nat /\ k = L + 1 /\ k + 1 = L + 2
      BY <1>0, <1>1, <2>2
    <3>2. left = SubSeq(b, k + 1, Len(b))
      BY <3>1 DEF left
    <3> HIDE DEF k
    <3>3. /\ G \in Seq(Token) /\ left \in Seq(Token) /\ b = G \o left
          /\ Len(G) = k /\ Len(left) = Len(b) - k
          /\ \A i \in 1 .. k : G[i] = b[i]
          /\ \A i \in 1 .. Len(b) - k : left[i] = b[k + i]
      BY <1>0, <3>1, <3>2, Cut
    <3> HIDE DEF G
    <3>4. /\ Held(b) = Held(G) \union Held(left)
          /\ Sorted(left) /\ Before(Held(G), Held(left))
      <4>1. Sorted(G \o left)
        BY <3>3 DEF b
      <4>2. \A x \in Token : x.id \in Nat
        BY TokenId
      <4> QED
        BY <3>3, <4>1, <4>2, HeldConcat
    <3>5. Held(G) = Held(frame)
      <4>1. DOMAIN G = 1 .. k /\ DOMAIN frame = 1 .. L /\ \A i \in 1 .. L : G[i] = frame[i]
        BY <1>1, <1>4, <3>1, <3>3
      <4>2. G[k].id = 0
        <5>1. b[k] \in Token /\ b[k].kind = "end"
          BY <1>0, <1>1, <2>2, <3>1
        <5>2. k \in 1 .. k
          BY <1>0, <1>1, <3>1
        <5>3. G[k] = b[k]
          BY <3>3, <5>2
        <5> QED
          BY <5>1, <5>3, TokenId
      <4>3. \A i \in 1 .. k : i \in 1 .. L \/ i = k
        BY <1>0, <1>1, <3>1
      <4>4. \A i \in 1 .. L : i \in 1 .. k
        BY <1>0, <1>1, <3>1
      <4> QED
        BY <4>1, <4>2, <4>3, <4>4 DEF Held
    <3>6. Lone(left \o wire)
      <4>1. b \o wire = G \o (left \o wire) /\ left \o wire \in Seq(Token)
        <5>1. (G \o left) \o wire = G \o (left \o wire)
          <6>1. G \in Seq(Token) /\ left \in Seq(Token) /\ wire \in Seq(Token)
            BY <1>0, <3>3
          <6> QED
            BY <6>1, ConcatAssociative
        <5>2. left \o wire \in Seq(Token)
          BY <1>0, <3>3, ConcatProperties
        <5>3. b = G \o left
          BY <3>3
        <5> QED
          BY <5>1, <5>2, <5>3, Zenon
      <4>2. Lone(G \o (left \o wire))
        BY <1>5, <4>1
      <4> QED
        BY <3>3, <4>1, <4>2, LoneParts
    <3>7. left # << >> => left[Len(left)] = b[Len(b)] /\ b # << >>
      <4> SUFFICES ASSUME left # << >> PROVE left[Len(left)] = b[Len(b)] /\ b # << >>
        OBVIOUS
      <4>1. Len(left) \in Nat \ {0}
        BY <3>3, EmptySeq
      <4>2. Len(left) \in 1 .. Len(b) - k /\ k + Len(left) = Len(b)
        BY <1>0, <3>1, <3>3, <4>1
      <4>3. left[Len(left)] = b[Len(b)]
        BY <3>3, <4>2
      <4>4. Len(b) # 0
        BY <3>1, <4>1, <4>2
      <4> QED
        BY <4>3, <4>4, EmptySeq
    <3>8. Len(left) <= Len(b)
      BY <1>0, <3>1, <3>3
    <3> QED
      BY <3>3, <3>4, <3>5, <3>6, <3>7, <3>8
  <2> QED
    BY <1>1, <2>1, <2>2
<1>8. frames' \in [bytes : Seq(Token), eof : BOOLEAN] /\ Len(frames'.bytes) <= MaxFrame + 1
  <2>1. frames' \in [bytes : Seq(Token), eof : BOOLEAN]
    BY <1>0, <1>2, <1>7
  <2>2. Len(left) \in Nat
    BY <1>7
  <2> QED
    BY <1>0, <1>3, <1>7, <2>1, <2>2
<1>9. StreamKept'
  BY <1>2, <1>3, <1>7 DEF StreamKept, b
<1> QED
  BY <1>3, <1>4, <1>6, <1>7, <1>8, <1>9 DEF b

-----------------------------------------------------------------------------
(* What a step does to the stages.                                          *)

\* A frame is answered, or becomes the launch that is verified.
LEMMA StagedTake ==
  ASSUME NEW R, NEW B, NEW W, NEW F, NEW B2, NEW A2, NEW V2, NEW sent, NEW said,
         Staged(R, {}, {}, B, W, sent, said), B = F \union B2, Before(F, B2),
         A2 \union V2 = F, A2 = {} \/ V2 = {}
  PROVE  Staged(R, A2, V2, B2, W, sent, said)
  BY DEF Staged, Before

\* A refused or ended launch becomes an answer.
LEMMA StagedRefuse ==
  ASSUME NEW R, NEW V, NEW B, NEW W, NEW sent, NEW said, Staged(R, {}, V, B, W, sent, said)
  PROVE  Staged(R, V, {}, B, W, sent, said)
  BY DEF Staged, Before

\* What is read follows what is in the buffer.
LEMMA StagedRead ==
  ASSUME NEW R, NEW A, NEW V, NEW B, NEW W, NEW M, NEW W2, NEW sent, NEW said,
         Staged(R, A, V, B, W, sent, said), W = M \union W2, Before(M, W2)
  PROVE  Staged(R, A, V, B \union M, W2, sent, said) /\ Before(B, M)
  BY DEF Staged, Before

\* An answer that is written follows the replies.
LEMMA StagedWrite ==
  ASSUME NEW R, NEW A, NEW V, NEW B, NEW W, NEW sent, NEW said, Staged(R, A, V, B, W, sent, said)
  PROVE  Staged(R \union A, {}, V, B, W, sent, said) /\ Before(R, A)
  BY DEF Staged, Before

\* A message that is sent follows everything.
LEMMA StagedSend ==
  ASSUME NEW R, NEW A, NEW V, NEW B, NEW W, NEW M, NEW sent \in Nat, NEW said,
         Staged(R, A, V, B, W, sent, said), M \subseteq {sent + 1}, Asks(said[sent + 1]) => sent + 1 \in M
  PROVE  Staged(R, A, V, B, W \union M, sent + 1, said) /\ Before(W, M)
<1>1. \A n \in 1 .. sent : n < sent + 1 /\ n \in 1 .. sent + 1
  OBVIOUS
<1>2. \A n \in 1 .. sent + 1 : n \in 1 .. sent \/ n = sent + 1
  OBVIOUS
<1>3. sent + 1 \in 1 .. sent + 1
  OBVIOUS
<1>4. \A n \in R \union A \union V \union B \union W : n \in 1 .. sent
  BY DEF Staged
<1>5. \A n \in R \union A \union V \union B \union W, m \in M : n < m
  BY <1>1, <1>4
<1>6. \A n \in R \union A \union V \union B \union W \union M : n \in 1 .. sent + 1
  BY <1>1, <1>3, <1>4
<1>7. \A n \in 1 .. sent + 1 : Asks(said[n]) => n \in R \union A \union V \union B \union W \union M
  BY <1>2 DEF Staged
<1> QED
  BY <1>5, <1>6, <1>7 DEF Staged, Before

-----------------------------------------------------------------------------
(* The steps.                                                               *)

Rest == LoopKept /\ VerifiedKept /\ StreamKept /\ OrderKept /\ ServerEndsClean
TheFrame == SubSeq(frames.bytes, 1, FrameLength)

\* A frame that calls a tool names a helper, and each frame holds at most its own number.
LEMMA FrameIsSound ==
  ASSUME ResearchInv, NEW frame, Takes(frame)
  PROVE  /\ Len(frame) = 1 => /\ frame[1] \in Token
                              /\ Held(frame) = {frame[1].id} \ {0}
                              /\ frame[1].kind \in {"launch", "stop"} => frame[1].profile \in Helpers
         /\ frame = << >> \/ Len(frame) > 1 => Held(frame) = {}
         /\ frame \in Seq(Token)
<1>1. frame \in Seq(Token) /\ (Len(frame) > 1 => Held(frame) = {})
  BY TakeParts DEF ResearchInv, OrderKept, Takes
<1>2. ASSUME Len(frame) = 1
      PROVE  /\ frame[1] \in Token /\ Held(frame) = {frame[1].id} \ {0}
             /\ frame[1].kind \in {"launch", "stop"} => frame[1].profile \in Helpers
  <2>1. frame[1] \in Token /\ DOMAIN frame = {1}
    BY <1>1, <1>2
  <2>2. Held(frame) = {frame[1].id} \ {0}
    BY <2>1 DEF Held
  <2> QED
    BY <2>1, <2>2 DEF Token
<1> QED
  BY <1>1, <1>2, HeldShort

LEMMA HandleFrameKeepsChildren ==
  ASSUME ResearchInv, HandleFrame
  PROVE  KeptSlots /\ NoneMade
<1> USE DEF ResearchInv
<1> DEFINE f == TheFrame
<1>1. HandleSilently(f) \/ HandleJunk(f) \/ HandleInitialize(f) \/ HandleRefused(f)
        \/ HandleStatus(f) \/ HandleStop(f) \/ HandleLaunch(f)
  BY DEF HandleFrame, TheFrame
<1> HIDE DEF f
<1>2. CASE HandleSilently(f) \/ HandleJunk(f) \/ HandleInitialize(f) \/ HandleRefused(f)
  BY <1>2, SameKeeps DEF HandleSilently, HandleJunk, HandleInitialize, HandleRefused, Replies
<1>3. CASE HandleStatus(f)
  BY <1>3, TickKeeps DEF HandleStatus
<1>4. CASE HandleStop(f)
  <2>1. f[1].profile \in Helpers
    BY <1>4, FrameIsSound DEF HandleStop, Calls
  <2> QED
    BY <1>4, <2>1, HandleStopKeeps
<1>5. CASE HandleLaunch(f)
  BY <1>5, TickKeeps, SameKeeps DEF HandleLaunch
<1> QED
  BY <1>1, <1>2, <1>3, <1>4, <1>5

\* Every step keeps the children sound and gives the grace; only a verified launch makes a child.
LEMMA ChildrenStep ==
  ASSUME ResearchInv, [ResearchNext]_researchVars
  PROVE  KeptSlots /\ (~LaunchEnds => NoneMade)
<1> USE DEF ResearchInv
<1>1. CASE TopOfLoop \/ VerifyReads \/ VerifyEnds
  BY <1>1, TickKeeps DEF TopOfLoop, VerifyReads, VerifyEnds
<1>2. CASE HandleFrame
  BY <1>2, HandleFrameKeepsChildren
<1>3. CASE FrameTooLong \/ NothingToHandle \/ ReadHangup \/ OutputBreaks
  BY <1>3, SameKeeps DEF FrameTooLong, NothingToHandle, ReadHangup, OutputBreaks, NoFrame
<1>4. CASE LaunchEnds
  BY <1>4, LaunchEndsKeeps
<1>5. CASE ServePoll \/ PollInterrupted
  BY <1>5, SameKeeps, StopsKeep DEF ServePoll, ReadBytes, ReadEnd, PollInterrupted
<1>7. CASE DropChildren
  BY <1>7, TickKeeps, StopsKeep DEF DropChildren
<1>8. CASE ClientSends \/ ClientCloses \/ ClientStopsReading \/ KitChanges \/ SignalArrives \/ EofGraceExpires
  BY <1>8, SameKeeps DEF ClientSends, ClientCloses, ClientStopsReading, KitChanges, SignalArrives, EofGraceExpires,
       Outside, Same
<1>9. CASE \E p \in Helpers : HelperExits(p) \/ TtlExpires(p) \/ GraceExpires(p)
  BY <1>9, ChangeKeeps
<1>10. CASE UNCHANGED researchVars
  BY <1>10, SameKeeps DEF researchVars, Same
<1> QED
  BY <1>1, <1>2, <1>3, <1>4, <1>5, <1>7, <1>8, <1>9, <1>10 DEF ResearchNext, ServerStep, Time

\* What a step that does not touch the stages keeps.
LEMMA StagesUntouched ==
  ASSUME StreamKept, OrderKept,
         client'.open = client.open, client'.sent = client.sent, client'.said = client.said,
         UNCHANGED <<wire, frames, answer, replies, verifying>>
  PROVE  StreamKept' /\ OrderKept'
  BY DEF StreamKept, OrderKept, Launching

\* No child is made without the gate.
LEMMA GateHolds ==
  ASSUME ChildrenKept, VerifiedKept, NoneMade, session'.enabled = session.enabled, session.seen => session'.seen
  PROVE  ToolsAreGated'
  BY DEF VerifiedKept, NoneMade, ToolsAreGated

\* Handling a frame: it is answered, is answered without a number or not at all, or is a launch.
LEMMA HandleFrameKeeps ==
  ASSUME ResearchInv, HandleFrame, NoneMade
  PROVE  Rest'
<1> USE DEF ResearchInv
<1> DEFINE f == TheFrame
<1>1. HandleSilently(f) \/ HandleJunk(f) \/ HandleInitialize(f) \/ HandleRefused(f)
        \/ HandleStatus(f) \/ HandleStop(f) \/ HandleLaunch(f)
  BY DEF HandleFrame, TheFrame
<1> HIDE DEF f
<1>2. Takes(f) /\ TakeFrame(f) /\ answer = << >> /\ serverPc = "frame" /\ verifying = NoWork
      /\ UNCHANGED <<client, wire, replies, kit, flags>>
  <2>1. Takes(f)
    BY <1>1 DEF HandleSilently, HandleJunk, HandleInitialize, HandleRefused, HandleStatus, HandleStop, HandleLaunch, Calls
  <2> QED
    BY <2>1 DEF Takes, TakeFrame, VerifiedKept
<1>3. /\ frames' \in [bytes : Seq(Token), eof : BOOLEAN] /\ Len(frames'.bytes) <= MaxFrame + 1
      /\ Held(frames.bytes) = Held(f) \union Held(frames'.bytes)
      /\ Sorted(frames'.bytes) /\ Before(Held(f), Held(frames'.bytes))
      /\ StreamKept'
  BY <1>2, TakeParts DEF OrderKept
<1>4. /\ Len(f) = 1 => /\ f[1] \in Token /\ f[1].id \in Nat
                       /\ Held(f) = {f[1].id} \ {0}
                       /\ f[1].kind \in {"launch", "stop"} => f[1].profile \in Helpers
                       /\ f[1].kind \in {"initialized", "junk"} => Held(f) = {}
      /\ f = << >> \/ Len(f) > 1 => Held(f) = {}
      /\ f # << >> => Len(f) = 1 \/ Len(f) > 1
  <2>1. /\ Len(f) = 1 => /\ f[1] \in Token
                         /\ Held(f) = {f[1].id} \ {0}
                         /\ f[1].kind \in {"launch", "stop"} => f[1].profile \in Helpers
        /\ f = << >> \/ Len(f) > 1 => Held(f) = {}
        /\ f \in Seq(Token)
    BY <1>2, FrameIsSound
  <2>2. f # << >> => Len(f) = 1 \/ Len(f) > 1
    <3>1. f \in Seq(Token)
      BY <2>1
    <3>2. Len(f) \in Nat /\ (Len(f) = 0 => f = << >>)
      BY <3>1, EmptySeq
    <3>3. \A n \in Nat : n = 0 \/ n = 1 \/ n > 1
      OBVIOUS
    <3> QED
      BY <3>2, <3>3, Zenon
  <2>3. ASSUME Len(f) = 1
        PROVE  f[1].id \in Nat /\ (f[1].kind \in {"initialized", "junk"} => Held(f) = {})
    <3>1. f[1] \in Token /\ Held(f) = {f[1].id} \ {0}
      BY <2>1, <2>3
    <3>2. f[1].id \in Nat /\ (f[1].kind \in {"initialized", "junk"} => f[1].id = 0)
      BY <3>1, TokenId
    <3> QED
      BY <3>1, <3>2
  <2> QED
    BY <2>1, <2>2, <2>3, Zenon
<1>5. /\ session' \in [enabled : BOOLEAN, seen : BOOLEAN, ready : BOOLEAN]
      /\ session'.ready => session'.seen
      /\ session'.enabled = session.enabled
      /\ session.seen => session'.seen
  <2>1. session \in [enabled : BOOLEAN, seen : BOOLEAN, ready : BOOLEAN] /\ (session.ready => session.seen)
    BY DEF VerifiedKept
  <2>2. \/ UNCHANGED session
        \/ session' = [session EXCEPT !.ready = @ \/ session.seen]
        \/ session' = [session EXCEPT !.seen = TRUE, !.ready = FALSE]
    BY <1>1 DEF HandleSilently, HandleJunk, HandleInitialize, HandleRefused, HandleStatus, HandleStop, HandleLaunch,
         Calls, Replies
  <2>3. CASE UNCHANGED session
    BY <2>1, <2>3
  <2>4. CASE session' = [session EXCEPT !.ready = @ \/ session.seen]
    BY <2>1, <2>4
  <2>5. CASE session' = [session EXCEPT !.seen = TRUE, !.ready = FALSE]
    BY <2>1, <2>5
  <2> QED
    BY <2>2, <2>3, <2>4, <2>5
<1>6. ToolsAreGated'
  BY <1>5, GateHolds
<1>7. Held(answer) = {} /\ Held(Launching) = {} /\ Launching = << >>
  BY <1>2, HeldShort DEF Launching
<1>8. ASSUME serverPc' = "poll", verifying' = NoWork, answer' \in Seq(Response), Len(answer') <= 1,
             Held(answer') = Held(f)
      PROVE  Rest'
  <2>1. Held(Launching') = {}
    BY <1>8, HeldShort DEF Launching
  <2>2. Staged(Held(replies), Held(answer'), Held(Launching'), Held(frames'.bytes), Held(wire), client.sent,
               client.said)
    BY <1>3, <1>7, <1>8, <2>1, StagedTake DEF OrderKept
  <2>3. OrderKept'
    BY <1>2, <1>3, <2>2 DEF OrderKept
  <2> QED
    BY <1>2, <1>3, <1>5, <1>6, <1>8, <2>3 DEF Rest, LoopKept, VerifiedKept, ServerEndsClean, Reached
<1>9. ASSUME NEW n \in Nat, Answer(n), Held(f) = {n} \ {0}
      PROVE  Rest'
  <2>1. answer' = <<[id |-> n]>> /\ serverPc' = "poll" /\ verifying' = NoWork
    BY <1>2, <1>9 DEF Answer
  <2>2. [id |-> n] \in Response
    BY DEF Response
  <2>3. answer' \in Seq(Response) /\ Len(answer') <= 1
    BY <2>1, <2>2
  <2>4. Held(answer') = {n} \ {0}
    BY <2>1, HeldShort
  <2> QED
    BY <1>8, <1>9, <2>1, <2>3, <2>4
<1>10. CASE HandleSilently(f)
  <2>1. Held(f) = {} /\ serverPc' = "poll" /\ answer' = << >> /\ verifying' = NoWork
    BY <1>2, <1>4, <1>10 DEF HandleSilently
  <2>2. << >> \in Seq(Response) /\ Len(<< >>) <= 1
    OBVIOUS
  <2> QED
    BY <1>8, <2>1, <2>2, HeldShort
<1>11. CASE HandleJunk(f)
  <2>1. Held(f) = {} /\ Answer(0)
    BY <1>4, <1>11 DEF HandleJunk, Replies
  <2> QED
    BY <1>9, <2>1
<1>12. CASE Len(f) = 1 /\ Answer(f[1].id)
  BY <1>4, <1>9, <1>12
<1>13. CASE /\ Len(f) = 1 /\ f[1].kind = "launch" /\ session.ready /\ session.enabled /\ UNCHANGED session
            /\ child'[f[1].profile] = NoChild
            /\ verifying' = [profile |-> f[1].profile, id |-> f[1].id, of |-> kit]
            /\ serverPc' = "verify" /\ UNCHANGED answer
  <2>1. f[1].profile \in Helpers /\ f[1].id \in Nat /\ Held(f) = {f[1].id} \ {0} /\ kit \in Nat
    BY <1>4, <1>13 DEF VerifiedKept
  <2>2. verifying' \in Work /\ verifying'.profile = f[1].profile /\ verifying'.id = f[1].id
    BY <1>13, <2>1 DEF Work
  <2>3. Launching' = <<verifying'>>
    BY <2>2, NoWorkAssumption DEF Launching, Work
  <2>4. Held(Launching') = Held(f)
    BY <2>1, <2>2, <2>3, HeldShort
  <2>5. Staged(Held(replies), Held(answer'), Held(Launching'), Held(frames'.bytes), Held(wire), client.sent,
               client.said)
    BY <1>3, <1>7, <1>13, <2>4, StagedTake DEF OrderKept
  <2>6. OrderKept'
    BY <1>2, <1>3, <2>5 DEF OrderKept
  <2>7. VerifiedKept'
    BY <1>2, <1>5, <1>6, <1>13, <2>1, <2>2 DEF VerifiedKept
  <2> QED
    BY <1>2, <1>3, <1>13, <2>6, <2>7 DEF Rest, LoopKept, ServerEndsClean, Reached
<1> QED
  BY <1>1, <1>10, <1>11, <1>12, <1>13 DEF HandleInitialize, HandleRefused, Replies, HandleStatus, HandleStop,
     HandleLaunch, Calls

\* A step that leaves the stages alone, and ends the server only when no helper is left.
LEMMA QuietKeeps ==
  ASSUME ResearchInv, NoneMade,
         UNCHANGED <<session, wire, frames, answer, replies, verifying>>,
         client' \in {client, [client EXCEPT !.reads = FALSE]}, kit' \in Nat,
         flags' \in [signal : BOOLEAN, eofDue : BOOLEAN], serverPc' \in Reached,
         serverPc' \in {"verify", "exec"} <=> serverPc \in {"verify", "exec"},
         serverPc' = "done" => serverPc = "done" \/ ~Active(child')
  PROVE  Rest'
<1> USE DEF ResearchInv
<1>1. /\ client' \in [said : Conversations, sent : Nat, open : BOOLEAN, reads : BOOLEAN]
      /\ client'.open = client.open /\ client'.sent = client.sent /\ client'.said = client.said
  <2>1. client \in [said : Conversations, sent : Nat, open : BOOLEAN, reads : BOOLEAN]
    BY DEF LoopKept
  <2> QED
    BY <2>1
<1>2. StreamKept' /\ OrderKept'
  BY <1>1, StagesUntouched
<1>3. LoopKept'
  BY <1>1 DEF LoopKept
<1>4. ToolsAreGated'
  BY GateHolds
<1>5. VerifiedKept'
  BY <1>4 DEF VerifiedKept, NoneMade, Work
<1>6. ServerEndsClean'
  BY DEF ServerEndsClean, Active, NoneMade
<1> QED
  BY <1>2, <1>3, <1>5, <1>6 DEF Rest

\* A launch that is refused, or has ended, is answered.
LEMMA RefuseKeeps ==
  ASSUME ResearchInv, serverPc \in {"verify", "exec"}, Refuse, Verifies, ToolsAreGated'
  PROVE  Rest'
<1> USE DEF ResearchInv
<1>1. /\ verifying \in Work /\ verifying # NoWork /\ verifying.id \in Nat /\ answer = << >>
      /\ session.enabled /\ session.seen
      /\ verifying' = NoWork /\ serverPc' = "poll" /\ answer' = <<[id |-> verifying.id]>>
      /\ UNCHANGED <<session, client, wire, frames, replies, kit, flags>>
  BY NoWorkAssumption DEF VerifiedKept, Work, Refuse, Verifies
<1>2. Held(answer) = {} /\ Held(Launching') = {}
  BY <1>1, HeldShort DEF Launching
<1>3. Held(Launching) = {verifying.id} \ {0} /\ Held(answer') = {verifying.id} \ {0}
  BY <1>1, HeldShort DEF Launching
<1>4. answer' \in Seq(Response) /\ Len(answer') <= 1
  BY <1>1 DEF Response
<1>5. Staged(Held(replies), Held(answer'), Held(Launching'), Held(frames.bytes), Held(wire), client.sent,
             client.said)
  BY <1>2, <1>3, StagedRefuse DEF OrderKept
<1>6. OrderKept'
  BY <1>1, <1>5 DEF OrderKept
<1> QED
  BY <1>1, <1>4, <1>6 DEF Rest, LoopKept, VerifiedKept, StreamKept, ServerEndsClean, Reached

\* The steps of the loop but for frames and poll.
LEMMA LoopStepKeeps ==
  ASSUME ResearchInv, KeptSlots, ~LaunchEnds => NoneMade,
         TopOfLoop \/ FrameTooLong \/ NothingToHandle \/ VerifyReads \/ VerifyEnds \/ LaunchEnds
           \/ PollInterrupted \/ ReadHangup \/ OutputBreaks \/ DropChildren
  PROVE  Rest'
<1> USE DEF ResearchInv
<1>0. /\ kit \in Nat /\ flags \in [signal : BOOLEAN, eofDue : BOOLEAN] /\ serverPc \in Reached
      /\ [flags EXCEPT !.signal = TRUE] \in [signal : BOOLEAN, eofDue : BOOLEAN]
  BY DEF LoopKept, VerifiedKept
<1>1. CASE LaunchEnds
  <2>1. serverPc = "exec" /\ Refuse /\ Verifies
    BY <1>1 DEF LaunchEnds
  <2>2. ToolsAreGated'
    BY <2>1 DEF VerifiedKept, Verifies, ToolsAreGated
  <2> QED
    BY <2>1, <2>2, RefuseKeeps
<1>2. CASE ~LaunchEnds /\ VerifyEnds
  <2>1. serverPc = "verify" /\ Verifies /\ NoneMade
    BY <1>2 DEF VerifyEnds
  <2>2. ToolsAreGated'
    BY <2>1, GateHolds DEF Verifies
  <2>3. CASE Refuse
    BY <2>1, <2>2, <2>3, RefuseKeeps
  <2>4. CASE serverPc' = "exec" /\ UNCHANGED <<answer, verifying>>
    BY <1>0, <2>1, <2>4, QuietKeeps DEF Verifies, Reached
  <2> QED
    BY <1>2, <2>3, <2>4 DEF VerifyEnds
<1>3. CASE ~LaunchEnds /\ VerifyReads
  BY <1>0, <1>3, QuietKeeps DEF VerifyReads, Verifies
<1>4. CASE ~LaunchEnds /\ (TopOfLoop \/ FrameTooLong \/ NothingToHandle \/ ReadHangup \/ OutputBreaks)
  <2>1. /\ NoneMade /\ UNCHANGED <<session, client, wire, frames, answer, replies, verifying, kit, flags>>
        /\ serverPc \in {"tick", "frame", "poll"} /\ serverPc' \in {"frame", "drop", "poll"}
    BY <1>4 DEF TopOfLoop, FrameTooLong, NothingToHandle, ReadHangup, OutputBreaks, NoFrame
  <2> QED
    BY <1>0, <2>1, QuietKeeps DEF Reached
<1>5. CASE ~LaunchEnds /\ PollInterrupted
  BY <1>0, <1>5, QuietKeeps DEF PollInterrupted, Reached
<1>6. CASE ~LaunchEnds /\ DropChildren
  BY <1>0, <1>6, QuietKeeps DEF DropChildren, Reached
<1> QED
  BY <1>1, <1>2, <1>3, <1>4, <1>5, <1>6

\* The environment, but for what the client sends.
LEMMA OutsideKeeps ==
  ASSUME ResearchInv, NoneMade,
         \/ ClientStopsReading \/ KitChanges \/ SignalArrives \/ EofGraceExpires
         \/ \E p \in Helpers : HelperExits(p) \/ TtlExpires(p) \/ GraceExpires(p)
         \/ UNCHANGED researchVars
  PROVE  Rest'
<1> USE DEF ResearchInv
<1>0. /\ kit \in Nat /\ flags \in [signal : BOOLEAN, eofDue : BOOLEAN] /\ serverPc \in Reached
      /\ [flags EXCEPT !.signal = TRUE] \in [signal : BOOLEAN, eofDue : BOOLEAN]
      /\ [flags EXCEPT !.eofDue = TRUE] \in [signal : BOOLEAN, eofDue : BOOLEAN]
      /\ kit + 1 \in Nat
  <2>1. kit \in Nat /\ flags \in [signal : BOOLEAN, eofDue : BOOLEAN] /\ serverPc \in Reached
    BY DEF LoopKept, VerifiedKept
  <2>2. kit + 1 \in Nat
    BY <2>1
  <2>3. \A f \in [signal : BOOLEAN, eofDue : BOOLEAN] :
           /\ [f EXCEPT !.signal = TRUE] \in [signal : BOOLEAN, eofDue : BOOLEAN]
           /\ [f EXCEPT !.eofDue = TRUE] \in [signal : BOOLEAN, eofDue : BOOLEAN]
    OBVIOUS
  <2> QED
    BY <2>1, <2>2, <2>3, Zenon
<1>1. CASE ClientStopsReading
  BY <1>0, <1>1, QuietKeeps DEF ClientStopsReading, Outside
<1>2. CASE KitChanges
  BY <1>0, <1>2, QuietKeeps DEF KitChanges, Outside
<1>3. CASE SignalArrives
  BY <1>0, <1>3, QuietKeeps DEF SignalArrives, Outside
<1>4. CASE EofGraceExpires
  BY <1>0, <1>4, QuietKeeps DEF EofGraceExpires, Outside
<1>5. CASE \E p \in Helpers : HelperExits(p) \/ TtlExpires(p) \/ GraceExpires(p)
  <2>1. PICK p \in Helpers : HelperExits(p) \/ TtlExpires(p) \/ GraceExpires(p)
    BY <1>5
  <2>2. Outside /\ UNCHANGED <<client, wire, kit, flags>>
    BY <2>1 DEF HelperExits, TtlExpires, GraceExpires, Changes
  <2> QED
    BY <1>0, <2>2, QuietKeeps DEF Outside
<1>6. CASE UNCHANGED researchVars
  BY <1>0, <1>6, QuietKeeps DEF researchVars
<1> QED
  BY <1>1, <1>2, <1>3, <1>4, <1>5, <1>6

\* What poll reads is moved from the pipe to the buffer, in its order.
LEMMA ReadKeeps ==
  ASSUME ResearchInv, NEW n \in 1 .. Len(wire), n <= FrameRoom, ~frames.eof, UNCHANGED client,
         frames' = [frames EXCEPT !.bytes = @ \o SubSeq(wire, 1, n)],
         wire' = SubSeq(wire, n + 1, Len(wire))
  PROVE  /\ wire' \in Seq(Token) /\ Sorted(wire')
         /\ frames' \in [bytes : Seq(Token), eof : BOOLEAN] /\ Len(frames'.bytes) <= MaxFrame + 1
         /\ Sorted(frames'.bytes) /\ StreamKept'
         /\ \E M : Held(wire) = M \union Held(wire') /\ Before(M, Held(wire'))
                   /\ Held(frames'.bytes) = Held(frames.bytes) \union M
<1> DEFINE b == frames.bytes
           m == SubSeq(wire, 1, n)
           left == SubSeq(wire, n + 1, Len(wire))
<1>0. /\ b \in Seq(Token) /\ wire \in Seq(Token) /\ Len(b) \in Nat /\ Len(wire) \in Nat /\ MaxFrame \in Nat
      /\ frames \in [bytes : Seq(Token), eof : BOOLEAN]
  <2>1. frames \in [bytes : Seq(Token), eof : BOOLEAN] /\ wire \in Seq(Token)
    BY DEF ResearchInv, LoopKept
  <2>2. b \in Seq(Token)
    BY <2>1
  <2>3. \A s \in Seq(Token) : Len(s) \in Nat
    OBVIOUS
  <2> QED
    BY <2>1, <2>2, <2>3, ResearchMcpAssumption
<1>1. /\ m \in Seq(Token) /\ left \in Seq(Token) /\ wire = m \o left
      /\ Len(m) = n /\ Len(left) = Len(wire) - n
      /\ \A i \in 1 .. n : m[i] = wire[i]
      /\ \A i \in 1 .. Len(wire) - n : left[i] = wire[n + i]
  <2>1. n \in 0 .. Len(wire)
    OBVIOUS
  <2> QED
    BY <1>0, <2>1, Cut
<1>2. frames'.bytes = b \o m /\ frames'.eof = FALSE /\ wire' = left /\ frames'.eof = frames.eof
  BY <1>0
<1>3. n + Len(b) <= MaxFrame + 1
  BY <1>0 DEF FrameRoom
<1> HIDE DEF b, m, left
<1>4. \A x \in Token : x.id \in Nat
  BY TokenId
<1>5. b \o m \in Seq(Token) /\ Len(b \o m) = Len(b) + n /\ Held(b \o m) = Held(b) \union Held(m)
      /\ (Sorted(b \o m) <=> Sorted(b) /\ Sorted(m) /\ Before(Held(b), Held(m)))
  <2>1. b \in Seq(Token) /\ m \in Seq(Token) /\ Len(m) = n
    BY <1>0, <1>1
  <2>2. /\ b \o m \in Seq(Token) /\ Held(b \o m) = Held(b) \union Held(m)
        /\ (Sorted(b \o m) <=> Sorted(b) /\ Sorted(m) /\ Before(Held(b), Held(m)))
    <3>1. b \in Seq(Token) /\ m \in Seq(Token) /\ \A x \in Token : x.id \in Nat
      BY <1>4, <2>1
    <3> QED
      BY <3>1, HeldConcat, Zenon
  <2>3. Len(b \o m) = Len(b) + Len(m)
    BY <2>1, ConcatProperties
  <2> QED
    BY <2>1, <2>2, <2>3
<1>6. /\ Held(wire) = Held(m) \union Held(left)
      /\ Sorted(m) /\ Sorted(left) /\ Before(Held(m), Held(left))
  <2>1. Sorted(m \o left)
    BY <1>1 DEF ResearchInv, OrderKept
  <2>2. m \in Seq(Token) /\ left \in Seq(Token)
    BY <1>1
  <2>3. /\ Held(m \o left) = Held(m) \union Held(left)
        /\ Sorted(m) /\ Sorted(left) /\ Before(Held(m), Held(left))
    BY <1>4, <2>1, <2>2, HeldConcat
  <2>4. wire = m \o left
    BY <1>1
  <2> QED
    BY <2>3, <2>4, Zenon
<1>7. Sorted(b \o m)
  <2>1. Sorted(b) /\ Before(Held(b), Held(wire))
    BY DEF ResearchInv, OrderKept, Staged, b
  <2> QED
    BY <1>5, <1>6, <2>1 DEF Before
<1>8. Lone((b \o m) \o left)
  <2>1. (b \o m) \o left = b \o (m \o left)
    BY <1>0, <1>1, TokensAssociate, Zenon
  <2>2. Lone(b \o wire)
    BY DEF ResearchInv, StreamKept, b
  <2> QED
    BY <1>1, <2>1, <2>2, Zenon
<1>9. client.open => wire[Len(wire)].kind = "end"
  BY <1>0, EmptySeq DEF ResearchInv, StreamKept
<1>10. left # << >> => left[Len(left)] = wire[Len(wire)]
  <2> SUFFICES ASSUME left # << >> PROVE left[Len(left)] = wire[Len(wire)]
    OBVIOUS
  <2>1. Len(left) \in Nat \ {0}
    BY <1>1, EmptySeq
  <2>2. Len(left) \in 1 .. Len(wire) - n /\ n + Len(left) = Len(wire)
    <3>1. Len(left) = Len(wire) - n /\ Len(wire) \in Int /\ n \in Int
      BY <1>0, <1>1
    <3>2. Len(left) \in Int /\ Len(left) > 0
      BY <2>1
    <3>3. \A a, d, k \in Int : a > 0 /\ a = d - k => a \in 1 .. d - k /\ k + a = d
      OBVIOUS
    <3> QED
      BY <3>1, <3>2, <3>3, Zenon
  <2> QED
    BY <1>1, <2>2
<1>11. left = << >> => (b \o m)[Len(b \o m)] = wire[Len(wire)]
  <2> SUFFICES ASSUME left = << >> PROVE (b \o m)[Len(b \o m)] = wire[Len(wire)]
    OBVIOUS
  <2>1. Len(wire) = n
    <3>1. Len(left) = 0
      OBVIOUS
    <3> QED
      BY <1>0, <1>1, <3>1
  <2>2. n \in DOMAIN m /\ m[n] = wire[n]
    BY <1>1
  <2>3. (b \o m)[Len(b) + n] = m[n]
    <3>1. b \in Seq(Token) /\ m \in Seq(Token) /\ n \in 1 .. Len(m)
      BY <1>0, <1>1
    <3> QED
      BY <3>1, Joined
  <2> QED
    BY <1>5, <2>1, <2>2, <2>3
<1>12. StreamKept'
  BY <1>2, <1>8, <1>9, <1>10, <1>11 DEF StreamKept
<1>13. frames' \in [bytes : Seq(Token), eof : BOOLEAN] /\ Len(frames'.bytes) <= MaxFrame + 1
  <2>1. b \o m \in Seq(Token) /\ Len(b \o m) = Len(b) + n /\ n \in Int /\ Len(b) \in Nat /\ MaxFrame \in Nat
    BY <1>0, <1>5
  <2>2. frames' = [frames EXCEPT !.bytes = b \o m]
    BY DEF b, m
  <2>3. frames' \in [bytes : Seq(Token), eof : BOOLEAN]
    BY <1>0, <2>1, <2>2
  <2>4. Len(frames'.bytes) = n + Len(b)
    BY <1>2, <2>1
  <2> QED
    BY <1>3, <2>3, <2>4
<1> QED
  BY <1>1, <1>2, <1>5, <1>6, <1>7, <1>12, <1>13 DEF b

\* poll returns: what was read and what was written.
LEMMA PollKeeps ==
  ASSUME ResearchInv, NoneMade, ServePoll
  PROVE  Rest'
<1> USE DEF ResearchInv
<1>0. /\ serverPc' = "tick" /\ verifying = NoWork /\ UNCHANGED <<session, client, verifying, kit, flags>>
      /\ frames \in [bytes : Seq(Token), eof : BOOLEAN] /\ wire \in Seq(Token)
      /\ answer \in Seq(Response) /\ replies \in Seq(Response) /\ Len(answer) <= 1
  BY DEF ServePoll, VerifiedKept, LoopKept
<1>1. /\ replies' \in Seq(Response) /\ answer' \in Seq(Response) /\ Len(answer') <= 1 /\ Sorted(replies')
      /\ Staged(Held(replies'), Held(answer'), Held(Launching), Held(frames.bytes), Held(wire), client.sent,
                client.said)
  <2>1. CASE UNCHANGED <<answer, replies>>
    BY <1>0, <2>1 DEF OrderKept
  <2>2. CASE WriteAnswer
    <3>1. answer' = << >> /\ replies' = replies \o answer
      BY <2>2 DEF WriteAnswer
    <3>2. \A x \in Response : x.id \in Nat
      BY DEF Response
    <3>3. /\ replies \o answer \in Seq(Response) /\ Held(replies \o answer) = Held(replies) \union Held(answer)
          /\ Sorted(replies \o answer) <=> Sorted(replies) /\ Sorted(answer) /\ Before(Held(replies), Held(answer))
      <4>1. replies \in Seq(Response) /\ answer \in Seq(Response)
        BY <1>0
      <4> HIDE DEF Rest
      <4> QED
        BY <3>2, <4>1, HeldConcat
    <3>4. Sorted(answer)
      BY <1>0 DEF Sorted
    <3>5. << >> \in Seq(Response) /\ Len(<< >>) <= 1 /\ Held(<< >>) = {}
      BY HeldShort
    <3>6. /\ Before(Held(replies), Held(answer)) /\ Sorted(replies)
          /\ Staged(Held(replies) \union Held(answer), {}, Held(Launching), Held(frames.bytes), Held(wire),
                    client.sent, client.said)
      BY StagedWrite DEF OrderKept
    <3> QED
      BY <3>1, <3>3, <3>4, <3>5, <3>6
  <2> QED
    BY <2>1, <2>2 DEF ServePoll
<1>2. /\ wire' \in Seq(Token) /\ Sorted(wire')
      /\ frames' \in [bytes : Seq(Token), eof : BOOLEAN] /\ Len(frames'.bytes) <= MaxFrame + 1
      /\ Sorted(frames'.bytes) /\ StreamKept'
      /\ Staged(Held(replies'), Held(answer'), Held(Launching), Held(frames'.bytes), Held(wire'), client.sent,
                client.said)
  <2>1. CASE UNCHANGED <<wire, frames>>
    BY <1>0, <1>1, <2>1 DEF OrderKept, StreamKept, LoopKept
  <2>2. CASE ReadBytes
    <3>1. PICK n \in 1 .. Len(wire) : /\ n <= FrameRoom /\ ~frames.eof
                                      /\ frames' = [frames EXCEPT !.bytes = @ \o SubSeq(wire, 1, n)]
                                      /\ wire' = SubSeq(wire, n + 1, Len(wire))
      <4>1. FrameRoom \in Int /\ Len(wire) \in Nat
        BY <1>0, ResearchMcpAssumption DEF FrameRoom
      <4>2. \A n \in 1 .. FrameRoom : n <= Len(wire) => n \in 1 .. Len(wire) /\ n <= FrameRoom
        BY <4>1
      <4> QED
        BY <2>2, <4>2 DEF ReadBytes
    <3>2. /\ wire' \in Seq(Token) /\ Sorted(wire')
          /\ frames' \in [bytes : Seq(Token), eof : BOOLEAN] /\ Len(frames'.bytes) <= MaxFrame + 1
          /\ Sorted(frames'.bytes) /\ StreamKept'
          /\ \E M : Held(wire) = M \union Held(wire') /\ Before(M, Held(wire'))
                    /\ Held(frames'.bytes) = Held(frames.bytes) \union M
      BY <1>0, <3>1, ReadKeeps
    <3>3. PICK M : Held(wire) = M \union Held(wire') /\ Before(M, Held(wire'))
                   /\ Held(frames'.bytes) = Held(frames.bytes) \union M
      BY <3>2
    <3>4. Staged(Held(replies'), Held(answer'), Held(Launching), Held(frames.bytes) \union M, Held(wire'),
                 client.sent, client.said)
      BY <1>1, <3>3, StagedRead
    <3> QED
      BY <3>2, <3>3, <3>4
  <2>3. CASE ReadEnd
    <3>1. /\ frames' = [frames EXCEPT !.eof = TRUE] /\ wire = << >> /\ ~client.open /\ UNCHANGED wire
      BY <2>3 DEF ReadEnd
    <3>2. frames'.bytes = frames.bytes /\ frames' \in [bytes : Seq(Token), eof : BOOLEAN]
      BY <1>0, <3>1
    <3> QED
      BY <1>0, <1>1, <3>1, <3>2 DEF OrderKept, StreamKept, LoopKept
  <2> QED
    BY <2>1, <2>2, <2>3 DEF ServePoll
<1>3. OrderKept'
  BY <1>0, <1>1, <1>2 DEF OrderKept, Launching
<1>4. VerifiedKept'
  BY <1>0, GateHolds DEF VerifiedKept
<1> QED
  BY <1>0, <1>1, <1>2, <1>3, <1>4 DEF Rest, LoopKept, ServerEndsClean, Reached

\* The next message: no end of a line in it, one number at most, and that of a request.
LEMMA MessageIsSound ==
  ASSUME LoopKept, client.sent < Len(client.said),
         NEW n, n = client.sent + 1
  PROVE  /\ n \in Nat /\ n <= Len(client.said) /\ client.sent = n - 1
         /\ Message(n) \in Seq(Token) /\ Lone(Message(n)) /\ Sorted(Message(n))
         /\ Held(Message(n)) \subseteq {n}
         /\ Asks(client.said[n]) => n \in Held(Message(n))
         /\ Lone(Append(Message(n), End)) /\ Append(Message(n), End) = Message(n) \o <<End>>
<1> DEFINE body == client.said[n]
           m == Message(n)
           c == Append(m, End)
<1>1. client.sent \in Nat /\ client.said \in Conversations
  BY DEF LoopKept
<1>2. /\ client.said \in Seq(Seq(Requests))
      /\ \A k \in 1 .. Len(client.said) :
           Asks(client.said[k]) \/ \A i \in DOMAIN client.said[k] : client.said[k][i] \notin Numbered
  BY <1>1, ResearchMcpAssumption
<1>3. Len(client.said) \in Nat
  BY <1>2
<1>4. n \in Nat /\ n \in 1 .. Len(client.said) /\ client.sent = n - 1 /\ n # 0
  BY <1>1, <1>3
<1>5. body \in Seq(Requests)
  BY <1>2, <1>4
<1>6. Asks(body) \/ \A i \in DOMAIN body : body[i] \notin Numbered
  BY <1>2, <1>4
<1>7. /\ DOMAIN body = 1 .. Len(body) /\ Len(body) \in Nat
      /\ \A i \in 1 .. Len(body) : body[i] \in Requests
  BY <1>5
<1>8. m = [i \in DOMAIN body |-> [kind |-> body[i].kind, profile |-> body[i].profile,
                                  id |-> IF body[i] \in Numbered THEN n ELSE 0]]
  BY DEF Message
<1> HIDE DEF body, m
<1>9. ASSUME NEW i \in 1 .. Len(body)
      PROVE  /\ m[i] \in Token
             /\ m[i].id = IF body[i] \in Numbered THEN n ELSE 0
  <2>1. m[i] = [kind |-> body[i].kind, profile |-> body[i].profile,
                id |-> IF body[i] \in Numbered THEN n ELSE 0]
    BY <1>7, <1>8
  <2>2. CASE body[i] \in Numbered
    <3>0. m[i] = [kind |-> body[i].kind, profile |-> body[i].profile, id |-> n] /\ n \in Nat
      BY <1>4, <2>1, <2>2
    <3>1. CASE body[i] \in [kind : {"launch", "stop"}, profile : Helpers]
      <4>0. body[i].kind \in {"launch", "stop"} /\ body[i].profile \in Helpers
        BY <3>1
      <4>1. m[i] \in [kind : {"launch", "stop"}, profile : Helpers, id : Nat]
        BY <3>0, <4>0
      <4> QED
        BY <2>1, <2>2, <4>1 DEF Token
    <3>2. CASE body[i] \in [kind : {"initialize", "status", "ping"}, profile : {NoChild}]
      <4>0. body[i].kind \in {"initialize", "status", "ping"} /\ body[i].profile \in {NoChild}
        BY <3>2
      <4>1. m[i] \in [kind : {"initialize", "status", "ping"}, profile : {NoChild}, id : Nat]
        BY <3>0, <4>0
      <4> QED
        BY <2>1, <2>2, <4>1 DEF Token
    <3> QED
      BY <2>2, <3>1, <3>2 DEF Numbered
  <2>3. CASE body[i] \notin Numbered
    <3>1. body[i] \in [kind : {"initialized", "junk"}, profile : {NoChild}]
      BY <1>7, <2>3 DEF Requests
    <3> QED
      BY <2>1, <2>3, <3>1 DEF Token
  <2> QED
    BY <2>2, <2>3
<1>10. m \in [1 .. Len(body) -> Token]
  BY <1>7, <1>8, <1>9
<1>11. m \in Seq(Token) /\ Len(m) = Len(body) /\ DOMAIN m = 1 .. Len(body)
  BY <1>7, <1>10, SeqDef, LenProperties
<1>12. (Len(m) = 1 /\ m[1].id = n /\ Asks(body)) \/ (~Asks(body) /\ \A i \in DOMAIN m : m[i].id = 0)
  <2>1. CASE Asks(body)
    <3>1. Len(body) = 1 /\ body[1] \in Numbered
      BY <2>1 DEF Asks
    <3> QED
      BY <1>9, <1>11, <2>1, <3>1
  <2>2. CASE ~Asks(body)
    BY <1>6, <1>7, <1>9, <1>11, <2>2
  <2> QED
    BY <2>1, <2>2
<1>13. /\ c = m \o <<End>> /\ Len(c) = Len(m) + 1
       /\ DOMAIN c = 1 .. Len(m) + 1 /\ \A i \in 1 .. Len(m) : c[i] = m[i]
       /\ c[Len(m) + 1] = End /\ End \in Token
  <2>1. End \in Token
    BY DEF End, Token
  <2>2. c = m \o <<End>>
    BY <1>11, <2>1, AppendIsConcat
  <2> QED
    BY <1>11, <2>1, <2>2, AppendProperties
<1>14. End.id = 0 /\ End.kind = "end" /\ Len(m) \in Nat
  BY <1>11 DEF End
<1> HIDE DEF c
<1>15. CASE Len(m) = 1 /\ m[1].id = n /\ Asks(body)
  <2>1. DOMAIN m = {1} /\ DOMAIN c = {1, 2}
    BY <1>11, <1>13, <1>15
  <2>2. c[1] = m[1] /\ c[2] = End
    BY <1>13, <1>15
  <2>3. Lone(c)
    BY <1>14, <2>1, <2>2 DEF Lone
  <2>4. Lone(m) /\ Sorted(m) /\ Held(m) = {n}
    BY <1>4, <1>15, <2>1 DEF Lone, Sorted, Held
  <2> QED
    BY <1>4, <1>11, <1>13, <2>3, <2>4 DEF m, c
<1>16. CASE ~Asks(body) /\ \A i \in DOMAIN m : m[i].id = 0
  <2>1. \A i \in DOMAIN c : c[i].id = 0
    <3>1. \A i \in DOMAIN c : i \in DOMAIN m \/ i = Len(m) + 1
      BY <1>11, <1>13, <1>14
    <3> QED
      BY <1>11, <1>13, <1>14, <1>16, <3>1
  <2>2. Lone(c)
    BY <2>1 DEF Lone
  <2>3. Lone(m) /\ Sorted(m) /\ Held(m) = {}
    BY <1>16 DEF Lone, Sorted, Held
  <2> QED
    BY <1>4, <1>11, <1>13, <1>16, <2>2, <2>3 DEF m, c, body
<1> QED
  BY <1>12, <1>15, <1>16

\* What the client sends follows all that it has sent.
LEMMA SendKeeps ==
  ASSUME ResearchInv, client.open, client.sent < Len(client.said), NEW open \in BOOLEAN, NEW c \in Seq(Token),
         client' = [client EXCEPT !.open = open, !.sent = @ + 1], wire' = wire \o c,
         UNCHANGED <<serverPc, session, frames, answer, replies, verifying, child, kit, flags>>,
         Lone(c), Sorted(c), Held(c) \subseteq {client.sent + 1},
         Asks(client.said[client.sent + 1]) => client.sent + 1 \in Held(c),
         open => Len(c) > 0 /\ c[Len(c)].kind = "end"
  PROVE  Rest'
<1> DEFINE b == frames.bytes
<1> USE DEF ResearchInv
<1>0. /\ b \in Seq(Token) /\ wire \in Seq(Token) /\ client.sent \in Nat
      /\ client \in [said : Conversations, sent : Nat, open : BOOLEAN, reads : BOOLEAN]
      /\ frames \in [bytes : Seq(Token), eof : BOOLEAN]
  BY DEF LoopKept
<1>1. /\ client'.sent = client.sent + 1 /\ client'.said = client.said /\ client'.open = open
      /\ client' \in [said : Conversations, sent : Nat, open : BOOLEAN, reads : BOOLEAN]
  <2> DEFINE C == [said : Conversations, sent : Nat, open : BOOLEAN, reads : BOOLEAN]
  <2>1. \A k \in C, o \in BOOLEAN, n \in Nat :
          LET l == [k EXCEPT !.open = o, !.sent = n]
          IN  l \in C /\ l.sent = n /\ l.said = k.said /\ l.open = o
    OBVIOUS
  <2>2. client \in C /\ client.sent + 1 \in Nat
    BY <1>0
  <2> QED
    BY <2>1, <2>2
<1>2. Len(client.said) \in Nat /\ client.sent + 1 <= Len(client.said)
  <2>1. client.said \in Seq(Seq(Requests))
    BY <1>0, ResearchMcpAssumption
  <2>2. Len(client.said) \in Nat
    BY <2>1
  <2> QED
    BY <1>0, <2>2
<1>3. ~frames.eof /\ Lone(b \o wire) /\ frames'.eof = FALSE
  BY <1>0 DEF StreamKept
<1> HIDE DEF b
<1>4. /\ wire \o c \in Seq(Token) /\ Held(wire \o c) = Held(wire) \union Held(c)
      /\ (Sorted(wire \o c) <=> Sorted(wire) /\ Sorted(c) /\ Before(Held(wire), Held(c)))
  <2>1. \A x \in Token : x.id \in Nat
    BY TokenId
  <2>2. wire \in Seq(Token) /\ c \in Seq(Token)
    BY <1>0
  <2> QED
    BY <2>1, <2>2, HeldConcat
<1>5. /\ Staged(Held(replies), Held(answer), Held(Launching), Held(b), Held(wire) \union Held(c),
                client.sent + 1, client.said)
      /\ Before(Held(wire), Held(c))
  BY <1>0, StagedSend DEF OrderKept, b
<1>6. OrderKept'
  BY <1>1, <1>4, <1>5 DEF OrderKept, Launching, b
<1>7. Lone(b \o (wire \o c))
  <2>1. (b \o wire) \o c = b \o (wire \o c) /\ b \o wire \in Seq(Token)
    <3>1. b \in Seq(Token) /\ wire \in Seq(Token) /\ c \in Seq(Token)
      BY <1>0
    <3> QED
      BY <3>1, ConcatAssociative, ConcatProperties
  <2>2. b \o wire # << >> => (b \o wire)[Len(b \o wire)].kind = "end"
    <3>1. CASE wire = << >>
      <4>1. b \o wire = b
        BY <1>0, <3>1, ConcatEmptySeq
      <4> QED
        BY <3>1, <4>1 DEF StreamKept, b
    <3>2. CASE wire # << >>
      <4>1. Len(wire) \in Nat \ {0} /\ Len(b) \in Nat
        BY <1>0, <3>2, EmptySeq
      <4>2. /\ Len(b \o wire) = Len(b) + Len(wire)
            /\ \A i \in 1 .. Len(wire) : (b \o wire)[Len(b) + i] = wire[i]
        <5>1. b \in Seq(Token) /\ wire \in Seq(Token)
          BY <1>0
        <5> QED
          BY <5>1, Joined
      <4>3. (b \o wire)[Len(b \o wire)] = wire[Len(wire)]
        BY <4>1, <4>2
      <4> QED
        BY <3>2, <4>3 DEF StreamKept
    <3> QED
      BY <3>1, <3>2
  <2>3. Lone((b \o wire) \o c)
    BY <1>3, <2>1, <2>2, LoneJoin
  <2> QED
    BY <2>1, <2>3, Zenon
<1>8. open => wire' # << >> /\ wire'[Len(wire')].kind = "end"
  <2> SUFFICES ASSUME open PROVE wire' # << >> /\ wire'[Len(wire')].kind = "end"
    OBVIOUS
  <2>1. Len(c) \in Nat \ {0} /\ Len(wire) \in Nat
    BY <1>0
  <2>2. /\ Len(wire \o c) = Len(wire) + Len(c)
        /\ \A i \in 1 .. Len(c) : (wire \o c)[Len(wire) + i] = c[i]
    <3>1. c \in Seq(Token) /\ wire \in Seq(Token)
      BY <1>0
    <3> QED
      BY <3>1, Joined
  <2>3. (wire \o c)[Len(wire \o c)] = c[Len(c)] /\ Len(wire \o c) # 0
    BY <2>1, <2>2
  <2> QED
    BY <2>3
<1>9. StreamKept'
  BY <1>1, <1>3, <1>7, <1>8 DEF StreamKept, b
<1>10. LoopKept'
  BY <1>0, <1>1, <1>2, <1>4 DEF LoopKept
<1>11. VerifiedKept'
  BY DEF VerifiedKept, ToolsAreGated
<1>12. ServerEndsClean'
  BY DEF ServerEndsClean, Active
<1> QED
  BY <1>6, <1>9, <1>10, <1>11, <1>12 DEF Rest

LEMMA ClientKeeps ==
  ASSUME ResearchInv, ClientSends \/ ClientCloses
  PROVE  Rest'
<1> USE DEF ResearchInv
<1> DEFINE n == client.sent + 1
           m == Message(n)
<1>0. /\ client.open /\ UNCHANGED <<serverPc, session, frames, answer, replies, verifying, child, kit, flags>>
      /\ client \in [said : Conversations, sent : Nat, open : BOOLEAN, reads : BOOLEAN]
  BY DEF ClientSends, ClientCloses, Outside, LoopKept
<1>1. ASSUME client.sent < Len(client.said)
      PROVE  /\ m \in Seq(Token) /\ Lone(m) /\ Sorted(m) /\ Held(m) \subseteq {n}
             /\ Asks(client.said[n]) => n \in Held(m)
             /\ Lone(Append(m, End)) /\ Append(m, End) = m \o <<End>>
  BY <1>1, MessageIsSound
<1>2. CASE ClientSends
  <2> DEFINE c == Append(m, End)
  <2>1. client.sent < Len(client.said) /\ client' = [client EXCEPT !.sent = @ + 1] /\ wire' = wire \o c
    BY <1>2 DEF ClientSends
  <2> HIDE DEF m
  <2>2. End \in Token /\ End.kind = "end" /\ End.id = 0 /\ \A x \in Token : x.id \in Nat
    BY TokenId DEF End, Token
  <2>3. <<End>> \in Seq(Token) /\ Held(<<End>>) = {} /\ Sorted(<<End>>)
    BY <2>2, HeldShort
  <2>4. m \in Seq(Token) /\ Sorted(m) /\ c = m \o <<End>>
    BY <1>1, <2>1
  <2>5. c \in Seq(Token) /\ Held(c) = Held(m) /\ Sorted(c)
    <3>1. /\ m \o <<End>> \in Seq(Token) /\ Held(m \o <<End>>) = Held(m) \union Held(<<End>>)
          /\ Sorted(m \o <<End>>) <=> Sorted(m) /\ Sorted(<<End>>) /\ Before(Held(m), Held(<<End>>))
      <4>1. m \in Seq(Token) /\ <<End>> \in Seq(Token) /\ \A x \in Token : x.id \in Nat
        BY <2>2, <2>3, <2>4
      <4> QED
        BY <4>1, HeldConcat
    <3> QED
      BY <2>3, <2>4, <3>1 DEF Before
  <2>6. Len(c) > 0 /\ c[Len(c)] = End
    BY <2>2, <2>4, AppendProperties
  <2>7. client' = [client EXCEPT !.open = TRUE, !.sent = @ + 1]
    BY <1>0, <2>1
  <2> HIDE DEF c
  <2> QED
    BY <1>0, <1>1, <2>1, <2>2, <2>5, <2>6, <2>7, SendKeeps DEF c
<1>3. CASE ClientCloses /\ client' = [client EXCEPT !.open = FALSE] /\ UNCHANGED wire
  <2>1. /\ client' \in [said : Conversations, sent : Nat, open : BOOLEAN, reads : BOOLEAN]
        /\ client'.open = FALSE /\ client'.sent = client.sent /\ client'.said = client.said
    BY <1>0, <1>3
  <2>2. StreamKept'
    BY <1>0, <1>3, <2>1 DEF StreamKept
  <2>3. OrderKept'
    BY <1>0, <1>3, <2>1 DEF OrderKept, Launching
  <2>4. LoopKept'
    BY <1>0, <1>3, <2>1 DEF LoopKept
  <2>5. VerifiedKept' /\ ServerEndsClean'
    BY <1>0 DEF VerifiedKept, ToolsAreGated, ServerEndsClean, Active
  <2> QED
    BY <2>2, <2>3, <2>4, <2>5 DEF Rest
<1>4. CASE /\ ClientCloses /\ client.sent < Len(client.said)
           /\ client' = [client EXCEPT !.open = FALSE, !.sent = @ + 1]
           /\ wire' = wire \o m
  <2>1. m \in Seq(Token) /\ Lone(m) /\ Sorted(m) /\ Held(m) \subseteq {n} /\ (Asks(client.said[n]) => n \in Held(m))
    BY <1>1, <1>4
  <2>2. FALSE \in BOOLEAN
    OBVIOUS
  <2> HIDE DEF m
  <2> QED
    BY <1>0, <1>4, <2>1, <2>2, SendKeeps
<1> QED
  BY <1>2, <1>3, <1>4 DEF ClientCloses

LEMMA RestStep ==
  ASSUME ResearchInv, [ResearchNext]_researchVars, KeptSlots, ~LaunchEnds => NoneMade
  PROVE  Rest'
<1>1. CASE TopOfLoop \/ FrameTooLong \/ NothingToHandle \/ VerifyReads \/ VerifyEnds \/ LaunchEnds
             \/ PollInterrupted \/ ReadHangup \/ OutputBreaks \/ DropChildren
  BY <1>1, LoopStepKeeps
<1>2. CASE HandleFrame
  <2>1. NoneMade
    BY <1>2, HandleFrameKeepsChildren
  <2> QED
    BY <1>2, <2>1, HandleFrameKeeps
<1>3. CASE ServePoll
  <2>1. NoneMade
    BY <1>3, SameKeeps, StopsKeep DEF ServePoll, ReadBytes, ReadEnd, ResearchInv
  <2> QED
    BY <1>3, <2>1, PollKeeps
<1>4. CASE ClientSends \/ ClientCloses
  BY <1>4, ClientKeeps
<1>5. CASE \/ ClientStopsReading \/ KitChanges \/ SignalArrives \/ EofGraceExpires
           \/ \E p \in Helpers : HelperExits(p) \/ TtlExpires(p) \/ GraceExpires(p)
           \/ UNCHANGED researchVars
  <2>1. NoneMade
    BY <1>5, SameKeeps, ChangeKeeps DEF ResearchInv, ClientStopsReading, KitChanges, SignalArrives, EofGraceExpires,
       Outside, Same, researchVars
  <2> QED
    BY <1>5, <2>1, OutsideKeeps
<1> QED
  BY <1>1, <1>2, <1>3, <1>4, <1>5 DEF ResearchNext, ServerStep, Time

LEMMA ResearchInvHolds == ResearchSpec => []ResearchInv
<1>1. ResearchInit => ResearchInv
  <2> SUFFICES ASSUME ResearchInit PROVE ResearchInv
    OBVIOUS
  <2>1. << >> \in Seq(Token) /\ << >> \in Seq(Response) /\ Len(<< >>) = 0 /\ Held(<< >>) = {} /\ Sorted(<< >>)
    BY HeldShort
  <2>2. Len(<< >>) <= MaxFrame + 1
    BY <2>1, ResearchMcpAssumption
  <2>3. ChildrenKept
    BY DEF ResearchInit, ChildrenKept, Reports
  <2>4. LoopKept
    <3>1. /\ client \in [said : Conversations, sent : Nat, open : BOOLEAN, reads : BOOLEAN] /\ client.sent = 0
          /\ client.said \in Seq(Seq(Requests))
      <4>1. client \in [said : Conversations, sent : {0}, open : {TRUE}, reads : {TRUE}]
        BY DEF ResearchInit
      <4>2. client.said \in Conversations
        BY <4>1
      <4>3. client \in [said : Conversations, sent : Nat, open : BOOLEAN, reads : BOOLEAN] /\ client.sent = 0
        <5>1. ASSUME NEW Sent, NEW Flag, Sent \subseteq Nat, Flag \subseteq BOOLEAN,
                     NEW c \in [said : Conversations, sent : Sent, open : Flag, reads : Flag]
              PROVE  c \in [said : Conversations, sent : Nat, open : BOOLEAN, reads : BOOLEAN] /\ c.sent \in Sent
          BY <5>1
        <5>2. {0} \subseteq Nat /\ {TRUE} \subseteq BOOLEAN
          OBVIOUS
        <5>3. client \in [said : Conversations, sent : Nat, open : BOOLEAN, reads : BOOLEAN] /\ client.sent \in {0}
          BY <4>1, <5>1, <5>2
        <5> QED
          BY <5>3
      <4>4. Conversations \subseteq Seq(Seq(Requests))
        BY ResearchMcpAssumption
      <4> QED
        BY <4>2, <4>3, <4>4, Zenon
    <3>2. Len(client.said) \in Nat
      BY <3>1
    <3> QED
      BY <2>1, <2>2, <3>1, <3>2 DEF ResearchInit, LoopKept, Reached
  <2>5. VerifiedKept
    BY DEF ResearchInit, VerifiedKept, ToolsAreGated
  <2>6. StreamKept
    <3>1. << >> \o << >> = << >>
      BY <2>1, ConcatEmptySeq
    <3>2. Lone(<< >>)
      BY DEF Lone
    <3> QED
      BY <3>1, <3>2 DEF ResearchInit, StreamKept
  <2>7. OrderKept
    <3>1. 1 .. 0 = {}
      OBVIOUS
    <3>2. Held(Launching) = {} /\ client.sent = 0
      BY <2>1 DEF ResearchInit, Launching
    <3> QED
      BY <2>1, <3>1, <3>2 DEF ResearchInit, OrderKept, Staged, Before
  <2> QED
    BY <2>3, <2>4, <2>5, <2>6, <2>7 DEF ResearchInit, ResearchInv, ServerEndsClean
<1>2. ResearchInv /\ [ResearchNext]_researchVars => ResearchInv'
  <2> SUFFICES ASSUME ResearchInv, [ResearchNext]_researchVars PROVE ResearchInv'
    OBVIOUS
  <2>1. KeptSlots /\ (~LaunchEnds => NoneMade)
    BY ChildrenStep
  <2>2. ChildrenKept'
    BY <2>1 DEF KeptSlots, ChildrenKept
  <2> QED
    BY <2>1, <2>2, RestStep DEF ResearchInv, Rest
<1> QED
  BY <1>1, <1>2, PTL DEF ResearchSpec

\* The stages in order, each of them sorted, are the way of a request.
LEMMA StagesAreTheWay ==
  ASSUME ResearchInv
  PROVE  AnswersInOrder
<1> DEFINE S == Token \union Response \union Work
           L == Launching
           b == frames.bytes
<1>1. \A x \in S : x.id \in Nat
  BY DEF Token, Response, Work
<1>2. /\ replies \in Seq(S) /\ answer \in Seq(S) /\ L \in Seq(S) /\ b \in Seq(S) /\ wire \in Seq(S)
  <2>1. replies \in Seq(Response) /\ answer \in Seq(Response) /\ b \in Seq(Token) /\ wire \in Seq(Token)
    BY DEF ResearchInv, LoopKept
  <2>2. L \in Seq(Work)
    BY DEF ResearchInv, VerifiedKept, Launching
  <2> QED
    BY <2>1, <2>2
<1>3. Sorted(answer) /\ Sorted(L)
  <2>1. Sorted(answer)
    BY DEF ResearchInv, LoopKept, Sorted
  <2> QED
    BY <2>1, HeldShort DEF Launching
<1>4. /\ Sorted(replies) /\ Sorted(b) /\ Sorted(wire)
      /\ Staged(Held(replies), Held(answer), Held(L), Held(b), Held(wire), client.sent, client.said)
  BY DEF ResearchInv, OrderKept
<1> HIDE DEF S, L, b
<1> DEFINE w2 == replies \o answer
           w3 == w2 \o L
           w4 == w3 \o b
           w5 == w4 \o wire
<1>0. ASSUME NEW x \in Seq(S), NEW y \in Seq(S)
      PROVE  /\ x \o y \in Seq(S) /\ Held(x \o y) = Held(x) \union Held(y)
             /\ (Sorted(x \o y) <=> Sorted(x) /\ Sorted(y) /\ Before(Held(x), Held(y)))
  BY <1>1, HeldConcat
<1>5. w2 \in Seq(S) /\ Held(w2) = Held(replies) \union Held(answer) /\ Sorted(w2)
  <2>1. /\ w2 \in Seq(S) /\ Held(w2) = Held(replies) \union Held(answer)
        /\ Sorted(w2) <=> Sorted(replies) /\ Sorted(answer) /\ Before(Held(replies), Held(answer))
    BY <1>0, <1>2
  <2> QED
    BY <1>3, <1>4, <2>1 DEF Staged, Before
<1> HIDE DEF w2
<1>6. w3 \in Seq(S) /\ Held(w3) = Held(w2) \union Held(L) /\ Sorted(w3)
  <2>1. w3 \in Seq(S) /\ Held(w3) = Held(w2) \union Held(L)
        /\ (Sorted(w3) <=> Sorted(w2) /\ Sorted(L) /\ Before(Held(w2), Held(L)))
    BY <1>0, <1>2, <1>5
  <2> QED
    BY <1>3, <1>4, <1>5, <2>1 DEF Staged, Before
<1> HIDE DEF w3
<1>7. w4 \in Seq(S) /\ Held(w4) = Held(w3) \union Held(b) /\ Sorted(w4)
  <2>1. w4 \in Seq(S) /\ Held(w4) = Held(w3) \union Held(b)
        /\ (Sorted(w4) <=> Sorted(w3) /\ Sorted(b) /\ Before(Held(w3), Held(b)))
    BY <1>0, <1>2, <1>6
  <2> QED
    BY <1>4, <1>5, <1>6, <2>1 DEF Staged, Before
<1> HIDE DEF w4
<1>8. w5 \in Seq(S) /\ Held(w5) = Held(w4) \union Held(wire) /\ Sorted(w5)
  <2>1. w5 \in Seq(S) /\ Held(w5) = Held(w4) \union Held(wire)
        /\ (Sorted(w5) <=> Sorted(w4) /\ Sorted(wire) /\ Before(Held(w4), Held(wire)))
    BY <1>0, <1>2, <1>7
  <2> QED
    BY <1>4, <1>5, <1>6, <1>7, <2>1 DEF Staged, Before
<1>9. Way = w5
  BY DEF Way, w2, w3, w4, L, b, Launching
<1> HIDE DEF w5
<1>10. \A n \in 1 .. client.sent : Asks(client.said[n]) => n \in Held(Way)
  BY <1>4, <1>5, <1>6, <1>7, <1>8, <1>9 DEF Staged
<1>11. Sorted(Way)
  BY <1>8, <1>9
<1> QED
  BY <1>10, <1>11 DEF AnswersInOrder, Held, Sorted

\* serve and Children, for any profiles, frames, conversations and edits of the kit: no request is
\* lost, answered twice or overtaken; however the server leaves its loop, no helper is left behind;
\* and no helper was launched that the manifest does not name, or outside an initialized session.
THEOREM ServerLosesNothing == ResearchSpec => []ResearchInvariant
<1>1. ResearchInv => ResearchInvariant
  <2> SUFFICES ASSUME ResearchInv PROVE ResearchInvariant
    OBVIOUS
  <2>1. ResearchTypeOK
    BY NoWorkAssumption DEF ResearchInv, ResearchTypeOK, ChildrenKept, LoopKept, VerifiedKept, Reached, ChildRecord,
       Work
  <2>2. RunsVerified
    BY DEF ResearchInv, RunsVerified, ChildrenKept
  <2>3. AnswersInOrder
    BY StagesAreTheWay
  <2> QED
    BY <2>1, <2>2, <2>3 DEF ResearchInv, ResearchInvariant, VerifiedKept
<1> QED
  BY <1>1, ResearchInvHolds, PTL

\* progress_stop, whoever asks for the stop: a live graphical helper is killed only after its grace.
THEOREM GraceIsGiven == ResearchSpec => GraceGiven
<1>1. ResearchInv /\ [ResearchNext]_researchVars =>
        [\A p \in Gui : child[p] # NoChild /\ child[p].os = "alive" /\ child'[p] = NoChild
                          => child[p].graceDue]_researchVars
  BY ChildrenStep DEF KeptSlots
<1> QED
  BY <1>1, ResearchInvHolds, PTL DEF ResearchSpec, GraceGiven

=============================================================================
