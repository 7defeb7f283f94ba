------------------------------ MODULE Clipboard ------------------------------
(***************************************************************************)
(* The clipboard between macOS and the Wayland clients: snapshots of the    *)
(* pasteboard, one background image conversion, paste requests held until   *)
(* it ends, guest selections read by a thread, and bounded senders          *)
(* (clipboard_transfer.rs and the clipboard part of state.rs).              *)
(*                                                                         *)
(* Other macOS applications copy at any time, also between the calls that   *)
(* check a guest selection, clear the pasteboard, write to it and read its   *)
(* change count.  AppKit refuses a write once another application has taken  *)
(* the pasteboard.  Contents are identities: an image of the host is named   *)
(* by the change count it was copied at, a guest image by 0.                *)
(***************************************************************************)
EXTENDS Integers, FiniteSets

CONSTANTS
    HostContents,   \* what other applications copy: records [text, form] of a text, if any,
                    \* and the form of the image, "none", "png", "tiff" or "bad"
    MaxCopies,      \* bound: copies other applications make
    MaxSelections,  \* bound: selections the Wayland clients make
    MaxPastes,      \* bound: paste requests of Wayland clients
    MaxTransfers,   \* MAX_TRANSFERS: senders, and image requests held
    MaxTotalBytes,  \* MAX_TOTAL_BYTES, in units of TransferBytes
    NoClip

ASSUME ClipboardAssumption ==
    /\ {MaxCopies, MaxSelections, MaxPastes, MaxTransfers, MaxTotalBytes} \subseteq Nat
    /\ NoClip \notin Int
    /\ HostContents \subseteq [text : {NoClip, "host text"}, form : {"none", "png", "tiff", "bad"}]

VARIABLES
    pasteboard,  \* the macOS pasteboard: [count, text, image, form]
    clip,        \* the clipboard fields of AppState; the UI thread's place in a call, the
                 \* change count it read there and the descriptors it has yet to hand to
                 \* senders; history: an installation its pasteboard did not confirm
    imageJob,    \* HostImageWorker
    held,        \* PendingHostImageRequests: [token, fds]
    guest,       \* guest readers and GuestClipboard messages: a set of [at, token, mime]
    senders,     \* permits of clipboard-send threads: sender -> [phase, bytes]
    transfer,    \* TransferBudget: [active, bytes]
    clipUse      \* how often the bounded inputs happened

clipboardVars == <<pasteboard, clip, imageJob, held, guest, senders, transfer, clipUse>>

SenderIds == 1 .. MaxPastes
Token(g, n) == [generation |-> g, count |-> n]
TransferBytes(mime) == IF mime = "text" THEN 2 ELSE 1  \* a long text and a small image

ClipboardTypeOK ==
    /\ pasteboard.form \in {"none", "png", "tiff", "bad"}
    /\ clip.pc \in {"idle", "poll", "deliver", "start", "reserve", "clear", "set", "count"}
    /\ clip.due \in 0 .. MaxTransfers + 1
    /\ clip.live \in Nat \cup {NoClip}
    /\ clip.unconfirmed \in BOOLEAN
    /\ imageJob.worker \in {"none", "idle", "busy", "dead"}
    /\ held.fds \in 0 .. MaxTransfers
    /\ \A g \in guest : g.at \in {"reading", "sent"} /\ g.mime \in {"text", "image"}
    /\ senders \in [SenderIds -> [phase : {"free", "counted", "running", "returning"}, bytes : 0 .. 2]]
    /\ transfer \in [active : 0 .. MaxTransfers, bytes : 0 .. MaxTotalBytes]

ClipboardInit ==
    /\ pasteboard = [count |-> 0, text |-> NoClip, image |-> NoClip, form |-> "none"]
    /\ clip = [pc |-> "idle", count |-> -1, text |-> NoClip, image |-> NoClip, textOnly |-> FALSE,
               generation |-> 0, guestMime |-> NoClip, offer |-> NoClip, arg |-> NoClip,
               due |-> 0, live |-> NoClip, unconfirmed |-> FALSE]
    /\ imageJob = [pending |-> NoClip, inFlight |-> NoClip, worker |-> "none", result |-> NoClip]
    /\ held = [token |-> NoClip, fds |-> 0]
    /\ guest = {}
    /\ senders = [s \in SenderIds |-> [phase |-> "free", bytes |-> 0]]
    /\ transfer = [active |-> 0, bytes |-> 0]
    /\ clipUse = [copies |-> 0, selections |-> 0, pastes |-> 0, deaths |-> 0]

-----------------------------------------------------------------------------
\* Another application copies: a text, an image in some form, or both.
HostCopies(copy) ==
    /\ clipUse.copies < MaxCopies
    /\ clipUse' = [clipUse EXCEPT !.copies = @ + 1]
    /\ pasteboard' = [count |-> pasteboard.count + 1, text |-> copy.text, form |-> copy.form,
                      image |-> IF copy.form = "none" THEN NoClip ELSE pasteboard.count + 1]
    /\ UNCHANGED <<clip, imageJob, held, guest, senders, transfer>>

\* HostImageToken::source_is_current and is_current.
SourceIsCurrent(t, c) == t.generation = c.generation /\ t.count = pasteboard.count
IsCurrentAt(t, c, live) == t.generation = c.generation /\ t.count = live /\ t.count = c.count
\* Mutated form: a completion is used whatever its token says.
IsCurrentAlways(t, c) == TRUE

IsCurrent(t, c) == IsCurrentAt(t, c, pasteboard.count)

\* publish_host_clipboard: what is offered, under the token of this snapshot.
Publish(c, h) ==
    [c EXCEPT !.offer = IF c.text = NoClip /\ c.image = NoClip /\ h.token = NoClip
                        THEN NoClip ELSE Token(c.generation, c.count)]

NoHeld == [token |-> NoClip, fds |-> 0]
DropStaleRequests(c, h) == IF h.token # NoClip /\ ~IsCurrent(h.token, c) THEN NoHeld ELSE h

\* Mutated form: a dead worker is not noticed.
FinishedWithResult(j) == j.inFlight # NoClip /\ j.result # NoClip

\* What HostImageWorker::poll receives: the result, or an error once the thread is gone.
Finished(j) == j.inFlight # NoClip /\ (j.result # NoClip \/ j.worker = "dead")
Completion(j) == IF j.result # NoClip THEN j.result ELSE [token |-> j.inFlight, image |-> NoClip]
Received(j) == [j EXCEPT !.inFlight = NoClip, !.result = NoClip,
                         !.worker = IF j.result = NoClip THEN "none" ELSE @]

\* start_pending: an idle slot takes the pending job; starting the thread may fail.
Started(j, ok) ==
    IF j.inFlight # NoClip \/ j.pending = NoClip THEN j
    ELSE IF j.worker = "dead" \/ (j.worker = "none" /\ ~ok)
         THEN [j EXCEPT !.pending = NoClip, !.worker = "none"]
         ELSE [j EXCEPT !.pending = NoClip, !.inFlight = j.pending, !.worker = "busy"]
StartFailed(j, ok) == j.inFlight = NoClip /\ j.pending # NoClip /\ Started(j, ok).inFlight = NoClip

HasImageWork(j) == j.pending # NoClip \/ j.inFlight # NoClip

\* poll_host_clipboard_results, at the end of a refresh, on a user event, or by the
\* maintenance that has_work keeps going: the late image is merged only under the
\* current token, and the descriptors held for it are taken.
PollResults ==
    LET h1 == DropStaleRequests(clip, held)
        done == Completion(imageJob)
        got == Finished(imageJob)
        fresh == got /\ IsCurrent(done.token, clip)
        taken == got /\ h1.token = done.token
        h2 == IF taken THEN NoHeld ELSE h1
        c1 == IF fresh THEN [clip EXCEPT !.image = done.image] ELSE clip
        c2 == IF fresh /\ done.image = NoClip THEN Publish(c1, h2) ELSE c1
        n == IF fresh /\ done.image # NoClip /\ taken THEN h1.fds ELSE 0
        rest == IF n > 0 THEN "deliver" ELSE IF imageJob.pending # NoClip THEN "start" ELSE "idle"
    IN  /\ clip.pc = "poll" \/ (clip.pc = "idle" /\ HasImageWork(imageJob))
        /\ imageJob' = IF got THEN Received(imageJob) ELSE imageJob
        /\ IF HasImageWork(imageJob)
           THEN /\ held' = h2
                /\ clip' = [c2 EXCEPT !.pc = rest, !.due = n, !.arg = IF n > 0 THEN "image" ELSE @,
                              !.live = IF rest = "idle" THEN NoClip ELSE pasteboard.count]
           ELSE clip' = [clip EXCEPT !.pc = "idle"] /\ UNCHANGED held
        /\ UNCHANGED <<pasteboard, guest, senders, transfer, clipUse>>

\* The rest of the poll, once the descriptors taken are with their senders: a stale
\* pending job is dropped, a current one started.
StartNextImage(ok) ==
    /\ clip.pc = "start"
    /\ LET stale == imageJob.pending # NoClip /\ ~IsCurrentAt(imageJob.pending, clip, clip.live)
           j == IF stale THEN [imageJob EXCEPT !.pending = NoClip] ELSE imageJob
           failed == StartFailed(j, ok)
           h == IF failed /\ held.token = j.pending THEN NoHeld ELSE held
           c == IF failed THEN Publish(clip, h) ELSE clip
       IN  /\ imageJob' = Started(j, ok)
           /\ held' = h
           /\ clip' = [c EXCEPT !.pc = "idle", !.live = NoClip]
    /\ UNCHANGED <<pasteboard, guest, senders, transfer, clipUse>>

\* refresh_host_clipboard: a snapshot whose count changed replaces everything, and a
\* TIFF becomes the one pending conversion.  (A snapshot torn by a copy is discarded,
\* which changes nothing.)  It ends with a poll.
RefreshClipboard ==
    /\ clip.pc = "idle" /\ pasteboard.count # clip.count
    /\ LET t == Token(clip.generation + 1, pasteboard.count)
           tiff == pasteboard.form = "tiff"
           h == [token |-> IF tiff THEN t ELSE NoClip, fds |-> 0]
           png == IF pasteboard.form = "png" THEN pasteboard.image ELSE NoClip
           c == [clip EXCEPT !.generation = @ + 1, !.guestMime = NoClip, !.count = pasteboard.count,
                   !.text = pasteboard.text, !.image = png, !.unconfirmed = FALSE,
                   !.textOnly = pasteboard.form = "none", !.pc = "poll"]
       IN  /\ clip' = Publish(c, h)
           /\ held' = h
           /\ imageJob' = [imageJob EXCEPT !.pending = IF tiff THEN t ELSE NoClip]
    /\ UNCHANGED <<pasteboard, guest, senders, transfer, clipUse>>

\* The conversion thread: convert (or fail) and send the completion.  The wake of the
\* loop that follows only makes the poll come sooner.
ConvertImage(ok) ==
    /\ imageJob.worker = "busy" /\ imageJob.result = NoClip
    /\ imageJob' = [imageJob EXCEPT !.worker = "idle",
         !.result = [token |-> imageJob.inFlight,
                     image |-> IF ok THEN imageJob.inFlight.count ELSE NoClip]]
    /\ UNCHANGED <<pasteboard, clip, held, guest, senders, transfer, clipUse>>

\* The conversion thread ends without an answer and without a wake.
ImageWorkerDies ==
    /\ imageJob.worker = "busy" /\ clipUse.deaths = 0
    /\ clipUse' = [clipUse EXCEPT !.deaths = 1]
    /\ imageJob' = [imageJob EXCEPT !.worker = "dead"]
    /\ UNCHANGED <<pasteboard, clip, held, guest, senders, transfer>>

-----------------------------------------------------------------------------

\* SelectionHandler::new_selection: a client sets or clears the selection.
NewSelection(mime) ==
    /\ clip.pc = "idle" /\ clipUse.selections < MaxSelections
    /\ clipUse' = [clipUse EXCEPT !.selections = @ + 1]
    /\ clip' = [clip EXCEPT !.generation = @ + 1, !.guestMime = mime, !.offer = NoClip]
    /\ imageJob' = [imageJob EXCEPT !.pending = NoClip]
    /\ held' = NoHeld
    /\ UNCHANGED <<pasteboard, guest, senders, transfer>>

\* request_pending_guest_clipboard, after the dispatch that committed the selection:
\* a reader is started under the generation and the live change count.
RequestGuest(ok) ==
    /\ clip.pc = "idle" /\ clip.guestMime # NoClip
    /\ clip' = [clip EXCEPT !.guestMime = NoClip]
    /\ guest' = IF ok THEN guest \cup {[at |-> "reading", mime |-> clip.guestMime,
                                        token |-> Token(clip.generation, pasteboard.count)]}
                ELSE guest
    /\ UNCHANGED <<pasteboard, imageJob, held, senders, transfer, clipUse>>

\* read_guest_clipboard gives up when its generation is over, on a timeout, an error
\* or nothing to read; else it sends what it read.
GuestReaderEnds(g, ok) ==
    /\ g \in guest /\ g.at = "reading"
    /\ ok => g.token.generation = clip.generation
    /\ guest' = (guest \ {g}) \cup (IF ok THEN {[g EXCEPT !.at = "sent"]} ELSE {})
    /\ UNCHANGED <<pasteboard, clip, imageJob, held, senders, transfer, clipUse>>

\* install_guest_clipboard up to the write: the source must still be current, and
\* contents the pasteboard already shows are not written again.
GuestText(m) == IF m.mime = "text" THEN "guest text" ELSE NoClip
GuestImage(m) == IF m.mime = "image" THEN 0 ELSE NoClip
AlreadyShown(m) ==
    \/ m.mime = "text" /\ clip.textOnly /\ clip.image = NoClip /\ clip.text = GuestText(m)
    \/ m.mime = "image" /\ clip.image = GuestImage(m) /\ clip.text = NoClip

InstallCheck(m) ==
    /\ m \in guest /\ m.at = "sent" /\ clip.pc = "idle"
    /\ guest' = guest \ {m}
    /\ IF SourceIsCurrent(m.token, clip)
       THEN /\ imageJob' = [imageJob EXCEPT !.pending = NoClip]
            /\ held' = NoHeld
            /\ clip' = IF AlreadyShown(m) THEN clip
                       ELSE [clip EXCEPT !.pc = "clear", !.arg = m]
       ELSE UNCHANGED <<imageJob, held, clip>>
    /\ UNCHANGED <<pasteboard, senders, transfer, clipUse>>

\* clearContents, whatever was copied since the check.
InstallClear ==
    /\ clip.pc = "clear"
    /\ pasteboard' = [count |-> pasteboard.count + 1, text |-> NoClip, image |-> NoClip,
                      form |-> "none"]
    /\ clip' = [clip EXCEPT !.pc = "set", !.live = pasteboard.count + 1]
    /\ UNCHANGED <<imageJob, held, guest, senders, transfer, clipUse>>

\* setString, whose result is ignored, or setData, whose failure ends the installation
\* with the cached state as it was.  Neither writes to a pasteboard taken since.
InstallSet(ok) ==
    /\ clip.pc = "set"
    /\ ok => pasteboard.count = clip.live
    /\ pasteboard' = IF ok
                     THEN [pasteboard EXCEPT !.text = GuestText(clip.arg), !.image = GuestImage(clip.arg),
                             !.form = IF clip.arg.mime = "image" THEN "png" ELSE "none"]
                     ELSE pasteboard
    /\ clip' = IF ~ok /\ clip.arg.mime = "image"
               THEN [clip EXCEPT !.pc = "idle", !.arg = NoClip, !.live = NoClip]
               ELSE [clip EXCEPT !.pc = "count", !.live = IF ok THEN @ ELSE NoClip]
    /\ UNCHANGED <<imageJob, held, guest, senders, transfer, clipUse>>

\* The change count is read by a call of its own, and the guest's contents are cached
\* and offered under it, be it that of the write or of a copy made since.
InstallCount ==
    /\ clip.pc = "count"
    /\ clip' = [clip EXCEPT !.pc = "idle", !.arg = NoClip, !.live = NoClip,
                   !.count = pasteboard.count, !.text = GuestText(clip.arg),
                   !.image = GuestImage(clip.arg), !.textOnly = clip.arg.mime = "text",
                   !.unconfirmed = clip.live # pasteboard.count,
                   !.offer = Token(clip.arg.token.generation, pasteboard.count)]
    /\ UNCHANGED <<pasteboard, imageJob, held, guest, senders, transfer, clipUse>>

-----------------------------------------------------------------------------
\* SelectionHandler::send_selection: a client pastes.  An image still being converted
\* holds the client's descriptor; anything else available goes to a sender.
Pastes(mime) ==
    LET current == clip.offer # NoClip /\ IsCurrent(clip.offer, clip)
        waits == mime = "image" /\ clip.image = NoClip /\ held.token = clip.offer
        there == IF mime = "image" THEN clip.image # NoClip ELSE clip.text # NoClip
    IN  /\ clip.pc = "idle" /\ clip.offer # NoClip /\ clipUse.pastes < MaxPastes
        /\ clipUse' = [clipUse EXCEPT !.pastes = @ + 1]
        /\ held' = IF current /\ waits /\ held.fds < MaxTransfers
                   THEN [held EXCEPT !.fds = @ + 1] ELSE held
        /\ clip' = IF current /\ ~waits /\ there
                   THEN [clip EXCEPT !.pc = "reserve", !.arg = mime, !.due = 1] ELSE clip
        /\ UNCHANGED <<pasteboard, imageJob, guest, senders, transfer>>

FreeSender == CHOOSE s \in SenderIds : senders[s].phase = "free"

\* send_host_clipboard_payload for one descriptor is over: the next one taken by the
\* poll, or the rest of the call.
Handed(c) ==
    IF c.due > 1 THEN [c EXCEPT !.due = @ - 1]
    ELSE [c EXCEPT !.due = 0, !.arg = NoClip, !.pc = IF @ = "deliver" THEN "start" ELSE "idle"]

\* TransferBudget::reserve takes a slot first: refused when all are taken, which closes
\* the descriptor.
ReserveSlot ==
    /\ clip.pc \in {"reserve", "deliver"} /\ \A s \in SenderIds : senders[s].phase # "counted"
    /\ IF transfer.active + 1 <= MaxTransfers
       THEN /\ transfer' = [transfer EXCEPT !.active = @ + 1]
            /\ senders' = [senders EXCEPT ![FreeSender].phase = "counted"]
            /\ UNCHANGED clip
       ELSE clip' = Handed(clip) /\ UNCHANGED <<transfer, senders>>
    /\ UNCHANGED <<pasteboard, imageJob, held, guest, clipUse>>

\* Then the bytes; a refusal gives the slot back.  A thread that does not start drops
\* its permit at once, like one that ends at once.
ReserveBytes(s) ==
    /\ clip.pc \in {"reserve", "deliver"} /\ senders[s].phase = "counted"
    /\ clip' = Handed(clip)
    /\ LET n == TransferBytes(clip.arg) IN
       IF transfer.bytes + n <= MaxTotalBytes
       THEN /\ transfer' = [transfer EXCEPT !.bytes = @ + n]
            /\ senders' = [senders EXCEPT ![s] = [phase |-> "running", bytes |-> n]]
       ELSE /\ transfer' = [transfer EXCEPT !.active = @ - 1]
            /\ senders' = [senders EXCEPT ![s].phase = "free"]
    /\ UNCHANGED <<pasteboard, imageJob, held, guest, clipUse>>

\* The sender wrote everything, failed or timed out, and drops its permit: the bytes
\* first, then the slot.
DropPermitBytes(s) ==
    /\ senders[s].phase = "running"
    /\ transfer' = [transfer EXCEPT !.bytes = @ - senders[s].bytes]
    /\ senders' = [senders EXCEPT ![s] = [phase |-> "returning", bytes |-> 0]]
    /\ UNCHANGED <<pasteboard, clip, imageJob, held, guest, clipUse>>

DropPermitSlot(s) ==
    /\ senders[s].phase = "returning"
    /\ transfer' = [transfer EXCEPT !.active = @ - 1]
    /\ senders' = [senders EXCEPT ![s].phase = "free"]
    /\ UNCHANGED <<pasteboard, clip, imageJob, held, guest, clipUse>>

-----------------------------------------------------------------------------
ClipboardNext ==
    \/ \E copy \in HostContents : HostCopies(copy)
    \/ \E ok \in BOOLEAN : \/ StartNextImage(ok) \/ ConvertImage(ok) \/ RequestGuest(ok)
                           \/ InstallSet(ok) \/ \E g \in guest : GuestReaderEnds(g, ok)
    \/ PollResults \/ RefreshClipboard \/ ImageWorkerDies
    \/ \E mime \in {NoClip, "text", "image"} : NewSelection(mime)
    \/ \E m \in guest : InstallCheck(m)
    \/ InstallClear \/ InstallCount
    \/ \E mime \in {"text", "image"} : Pastes(mime)
    \/ ReserveSlot
    \/ \E s \in SenderIds : ReserveBytes(s) \/ DropPermitBytes(s) \/ DropPermitSlot(s)

\* What the UI thread does without being asked: the poll that has_work keeps on the
\* maintenance timer, and the rest of every call it has begun.
UiProceeds ==
    \/ PollResults
    \/ ReserveSlot \/ \E s \in SenderIds : ReserveBytes(s)
    \/ InstallClear \/ InstallCount
    \/ \E ok \in BOOLEAN : InstallSet(ok) \/ StartNextImage(ok)

\* The conversion ends (AppKit returns or the thread dies), and the UI thread proceeds.
ClipboardFairness ==
    /\ WF_clipboardVars(\E ok \in BOOLEAN : ConvertImage(ok))
    /\ WF_clipboardVars(UiProceeds)

ClipboardSpec == ClipboardInit /\ [][ClipboardNext]_clipboardVars /\ ClipboardFairness

-----------------------------------------------------------------------------
\* What the clients are offered is what the pasteboard holds whenever the counts
\* agree: an image is the one of this very snapshot, although its conversion may
\* have started under an older one, and a text is that of the same copy.  The only
\* exception is a guest's copy whose write failed unnoticed, or was overtaken by another
\* copy before its change count was read: the guest's contents, never a mixture, are
\* then cached for contents the pasteboard does not hold.
CacheCoherent ==
    clip.count = pasteboard.count =>
        \/ /\ clip.text = pasteboard.text
           /\ clip.image \in {NoClip, pasteboard.image}
           /\ pasteboard.form = "png" => clip.image = pasteboard.image
        \/ /\ clip.unconfirmed
           /\ <<clip.text, clip.image>> \in {<<"guest text", NoClip>>, <<NoClip, 0>>}

\* A paste request is only held while its image is on the way: the job of the same
\* token is pending or being converted, so a poll answers or closes it.
HeldRequestHasJob ==
    held.token # NoClip => held.token \in {imageJob.pending, imageJob.inFlight}

\* Slots and bytes of the transfer budget are those of the permits that live, whatever
\* the order in which senders end and reservations fail (a permit has at most two units).
TransferBudgetBalances ==
    LET WithBytes(n) == {s \in SenderIds : senders[s].bytes >= n}
    IN  /\ transfer.active = Cardinality({s \in SenderIds : senders[s].phase # "free"})
        /\ transfer.bytes = Cardinality(WithBytes(1)) + Cardinality(WithBytes(2))

\* A client whose paste waits, for a conversion or for the UI thread to hand it to a
\* sender, gets its sender or a closed pipe.
HeldRequestsEnd == held.fds > 0 \/ clip.due > 0 ~> held.fds = 0 /\ clip.due = 0

\* What clients are offered is what the pasteboard holds, a paste that waits has the job it waits
\* for, and the transfer budget counts the permits that live.
ClipboardInvariant ==
    /\ ClipboardTypeOK
    /\ CacheCoherent
    /\ HeldRequestHasJob
    /\ TransferBudgetBalances
=============================================================================
