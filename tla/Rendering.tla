------------------------------ MODULE Rendering ------------------------------
(***************************************************************************)
(* Rootless windows drawn by one Metal renderer each: the per-window gate   *)
(* on frames in flight, the versions of a surface's texture, the texture    *)
(* budget shared by all the windows, and the redraw scheduling of the event *)
(* loop (texture_lifetime.rs, render_budget.rs, metal_renderer.rs,          *)
(* presentation.rs, main.rs).                                              *)
(*                                                                         *)
(* Two kinds of thread act.  The UI thread runs one event at a time; the    *)
(* drawing of a frame is split where it reads what a completion publishes.  *)
(* Metal calls the completion handler of a submitted frame on a thread of   *)
(* its own, and every atomic step of FrameLifetime::complete is an action.  *)
(* A window shows one surface; its native size is never zero.               *)
(***************************************************************************)
EXTENDS Integers, FiniteSets, Sequences, SequencesExt, FiniteSetsExt

CONSTANTS
    Windows,       \* native windows, each with a MetalRenderer
    MaxFrames,     \* MAX_FRAMES, which is also MAX_VERSIONS
    Sizes,         \* texture sizes in budget units, with Sizes \subseteq Nat \ {0}
    MaxBytes,      \* MAX_TEXTURE_BYTES
    ClientBytes,   \* MAX_RENDERER_TEXTURE_BYTES
    MaxAllocs,     \* MAX_TEXTURE_ALLOCATIONS
    Requests,      \* window -> the commits its client may make, a subset of Commits
    MaxCommits,    \* bound: window -> how many commits its client makes
    Closing,       \* bound: the windows that may be closed, after their commits
    MaxFailures,   \* bound: drawables, allocations and snapshots that fail
    Removed,       \* a commit that attaches a null buffer
    None

ASSUME RenderingAssumption ==
    /\ IsFiniteSet(Windows) /\ MaxFrames \in Nat \ {0}
    /\ Sizes \subseteq Nat \ {0} /\ IsFiniteSet(Sizes)
    /\ MaxBytes \in Nat /\ ClientBytes \in 1 .. MaxBytes
    /\ MaxAllocs \in Nat /\ MaxCommits \in [Windows -> Nat] /\ MaxFailures \in Nat
    /\ Closing \subseteq Windows
    /\ Requests \in [Windows -> SUBSET ([size : Sizes, damage : BOOLEAN] \cup {Removed})]
    /\ None \notin Windows \cup Sizes

VARIABLES
    tex,     \* live reservations: id -> None or [win, size, retired]
    cache,   \* window -> [vers: texture ids, cur: index of the current image]
    frame,   \* <<window, slot>> -> the FrameLifetime in that slot
    gate,    \* window -> FrameGate: [count, draining, waiting]
    budget,  \* BudgetState and the BudgetWake of every window
    ui,      \* the frame the UI thread is drawing
    win      \* window -> what the event loop knows of it

vars == <<tex, cache, frame, gate, budget, ui, win>>

TexIds == 1 .. MaxAllocs
FrameIds == Windows \X (1 .. MaxFrames)
NoCache == [vers |-> <<>>, cur |-> 1]
FreeFrame == [ph |-> "free", read |-> {}, held |-> {}, batch |-> {}, reclaim |-> FALSE]
IdleUi == [pc |-> "idle", w |-> None, slot |-> 0, attempt |-> 1,
           inPlace |-> FALSE, prepared |-> None, removed |-> FALSE, pending |-> FALSE]

Commits == UNION {Requests[w] : w \in Windows}

TypeOK ==
    /\ tex \in [TexIds -> [win : Windows, size : Sizes, retired : BOOLEAN] \cup {None}]
    /\ \A w \in Windows :
         /\ cache[w].vers \in BoundedSeq(TexIds, MaxFrames)
         /\ cache[w].cur \in 1 .. MaxFrames
    /\ frame \in [FrameIds ->
         [ph : {"free", "open", "gpu", "ended", "done", "notified", "dropped"},
          read : SUBSET TexIds, held : SUBSET TexIds, batch : SUBSET Windows,
          reclaim : BOOLEAN]]
    /\ gate \in [Windows ->
         [count : 0 .. MaxFrames, draining : BOOLEAN, waiting : BOOLEAN]]
    /\ budget.bytes \in 0 .. MaxBytes /\ budget.allocs \in 0 .. MaxAllocs
    /\ budget.waiters \subseteq Windows /\ budget.waiting \in [Windows -> BOOLEAN]
    /\ ui.pc \in {"idle", "attempt", "sweep", "resweep", "decide", "upload", "swap"}
    /\ ui.prepared \in TexIds \cup {None}
    /\ \A w \in Windows : win[w].commit \in Commits \cup {None}

Init ==
    /\ tex = [t \in TexIds |-> None]
    /\ cache = [w \in Windows |-> NoCache]
    /\ frame = [f \in FrameIds |-> FreeFrame]
    /\ gate = [w \in Windows |-> [count |-> 0, draining |-> FALSE, waiting |-> FALSE]]
    /\ budget = [bytes |-> 0, allocs |-> 0, client |-> [w \in Windows |-> 0],
                 oversized |-> [w \in Windows |-> 0], waiters |-> {},
                 waiting |-> [w \in Windows |-> FALSE], failures |-> 0]
    /\ ui = IdleUi
    /\ win = [w \in Windows |->
                [open |-> TRUE, commit |-> None, owed |-> FALSE, dirty |-> FALSE,
                 redraw |-> FALSE, pendingNative |-> FALSE, waitingRenderer |-> FALSE,
                 retry |-> FALSE, commits |-> 0]]

-----------------------------------------------------------------------------
(* The gate: one atomic word per window.                                    *)

Admits(g) == g.count < MaxFrames /\ (g.draining => g.count = 0)

\* FrameGate::admit: what the word becomes, for a frame (n = 1) or a query (n = 0).
Admit(g, n) == IF Admits(g)
               THEN [g EXCEPT !.draining = FALSE, !.count = @ + n]
               ELSE [g EXCEPT !.waiting = TRUE]

KeepsDraining(g) == g.draining /\ g.count > 1

Release(g) == [g EXCEPT !.count = @ - 1, !.waiting = @ /\ KeepsDraining(g)]
ReleaseWakes(g) == g.waiting /\ ~KeepsDraining(g)

-----------------------------------------------------------------------------
(* Readers.  A version is read by a frame until the frame is published      *)
(* complete; its reservation until the completion has ended the read.       *)

\* Mutated form: a submitted frame no longer counts as a reader.
WritableOnceSubmitted(t) == \A f \in FrameIds : t \in frame[f].read => frame[f].ph # "open"

Writable(t) == \A f \in FrameIds :
                 t \in frame[f].read => frame[f].ph \notin {"open", "gpu", "ended"}
HasReaders(t) == \E f \in FrameIds :
                   t \in frame[f].held /\ frame[f].ph \in {"open", "gpu"}

Current(c) == IF c.cur <= Len(c.vers) THEN c.vers[c.cur] ELSE None
Fits(t, size) == t # None /\ tex[t].size = size

\* retain_idle_spare: the current image, the busy ones and one idle compatible
\* version stay; the index of the current image follows the removals.
RetainIdleSpare(c, Compatible(_)) ==
    LET idle == {i \in DOMAIN c.vers : i # c.cur /\ Writable(c.vers[i])}
        spares == {i \in idle : Compatible(c.vers[i])}
        gone == idle \ (IF spares = {} THEN {} ELSE {Min(spares)})
        lost == {c.vers[i] : i \in gone}
    IN  [vers |-> SelectSeq(c.vers, LAMBDA t : t \notin lost),
         cur |-> c.cur - Cardinality({i \in gone : i < c.cur})]

PruneIdle(c) == RetainIdleSpare(c, LAMBDA t : FALSE)
TrimSpares(c) == RetainIdleSpare(c, LAMBDA t : Current(c) # None /\ Fits(t, tex[Current(c)].size))

\* update_target: the version an upload of this size goes to, or 0 when all are
\* busy and the cache is full (UpdateError::Busy).
UpdateTarget(c, size) ==
    LET ok == {i \in DOMAIN c.vers : Writable(c.vers[i])}
        fit == {i \in ok : Fits(c.vers[i], size)}
    IN  IF c.cur \in fit THEN c.cur
        ELSE IF fit # {} THEN Min(fit)
        ELSE IF c.cur \in ok THEN c.cur
        ELSE IF ok # {} THEN Min(ok)
        ELSE IF Len(c.vers) < MaxFrames THEN Len(c.vers) + 1 ELSE 0

-----------------------------------------------------------------------------
(* The budget.  Reservations are counted references: the last one dropped   *)
(* returns its charge and takes the waiters.                               *)

Oversized(size) == size > ClientBytes

\* Mutated form: the flag is set without joining the waiters.
WaitUnregistered(b, w) == [b EXCEPT !.waiting[w] = TRUE]

\* BudgetState::wait through the BudgetWake's flag.
Wait(b, w) == IF b.waiting[w] THEN b
              ELSE [b EXCEPT !.waiting[w] = TRUE, !.waiters = @ \cup {w}]

\* try_reserve_replacing: the tests that refuse a request under pressure.  An idle
\* reservation of the same client is credited against the local share alone.
Pressure(w, size, idle) ==
    LET credit == idle # None /\ ~HasReaders(idle)
        normal == budget.client[w] - budget.oversized[w]
                    - (IF credit /\ ~Oversized(tex[idle].size) THEN tex[idle].size ELSE 0)
        others == {t \in TexIds : /\ tex[t] # None /\ tex[t].win = w
                                  /\ Oversized(tex[t].size) /\ ~(credit /\ t = idle)}
    IN  \/ size > MaxBytes - budget.bytes
        \/ budget.allocs >= MaxAllocs
        \/ Oversized(size) /\ others # {}
        \/ ~Oversized(size) /\ size > ClientBytes - normal

Charge(b, w, size, n) ==
    [b EXCEPT !.bytes = @ + n * size, !.allocs = @ + n, !.client[w] = @ + n * size,
              !.oversized[w] = @ + (IF Oversized(size) THEN n * size ELSE 0)]

Referenced(c, fr, prepared) ==
    UNION {ToSet(c[w].vers) : w \in Windows} \cup UNION {fr[f].held : f \in FrameIds}
      \cup (IF prepared = None THEN {} ELSE {prepared})

Refund(b, texs, dead) ==
    FoldSet(LAMBDA t, acc : Charge(acc, texs[t].win, texs[t].size, -1), b, dead)
Forget(texs, dead) == [t \in TexIds |-> IF t \in dead THEN None ELSE texs[t]]

\* The end of a statement of the UI thread: what nothing refers to any more is
\* dropped, and the waiters the drop takes are notified in the same call.
UiSettles(c, fr, prepared, b, wins, texs) ==
    LET dead == {t \in TexIds : texs[t] # None} \ Referenced(c, fr, prepared)
        taken == IF dead = {} THEN {} ELSE b.waiters
        woken == {v \in taken : b.waiting[v]}
    IN  /\ tex' = Forget(texs, dead)
        /\ budget' = [Refund(b, texs, dead) EXCEPT
                        !.waiters = @ \ taken,
                        !.waiting = [v \in Windows |-> @[v] /\ v \notin woken]]
        /\ win' = [v \in Windows |-> [wins[v] EXCEPT !.redraw = @ \/ (v \in woken /\ wins[v].open)]]
        /\ cache' = c
        /\ frame' = fr

-----------------------------------------------------------------------------
(* The event loop around the renderer.                                      *)

Idle == ui.pc = "idle"
MayFail == budget.failures < MaxFailures
Failed(b) == [b EXCEPT !.failures = @ + 1]
HasWork(w) == win[w].dirty \/ win[w].owed

\* A client commit: the surface is dirty and owes a frame callback.  A buffer
\* that was committed before and not drawn yet is replaced.
Commit(w, c) ==
    /\ Idle /\ win[w].open /\ win[w].commits < MaxCommits[w]
    /\ win' = [win EXCEPT ![w].commit = c, ![w].dirty = TRUE, ![w].owed = TRUE,
                          ![w].commits = @ + 1]
    /\ UNCHANGED <<tex, cache, frame, gate, budget, ui>>

\* AboutToWait, for one window: a redraw is requested when there is work, none is
\* pending, nothing else will wake it, and its deadline has come.
AboutToWait(w) ==
    /\ Idle /\ win[w].open /\ HasWork(w)
    /\ ~win[w].pendingNative /\ ~win[w].waitingRenderer /\ ~win[w].retry
    /\ win' = [win EXCEPT ![w].redraw = TRUE, ![w].pendingNative = TRUE, ![w].dirty = FALSE]
    /\ UNCHANGED <<tex, cache, frame, gate, budget, ui>>

\* The 100 ms of failed_redraw_retries are over.
RetryElapsed(w) ==
    /\ win[w].retry
    /\ win' = [win EXCEPT ![w].retry = FALSE]
    /\ UNCHANGED <<tex, cache, frame, gate, budget, ui>>

\* RedrawRequested while the gate admits no frame: the gate remembers the demand.
RedrawNotReady(w) ==
    /\ Idle /\ win[w].open /\ win[w].redraw /\ ~Admits(gate[w])
    /\ gate' = [gate EXCEPT ![w] = Admit(@, 0)]
    /\ win' = [win EXCEPT ![w].redraw = FALSE, ![w].pendingNative = FALSE, ![w].retry = FALSE,
                          ![w].waitingRenderer = TRUE, ![w].dirty = TRUE]
    /\ UNCHANGED <<tex, cache, frame, budget, ui>>

Taken(w) == [win EXCEPT ![w].redraw = FALSE, ![w].pendingNative = FALSE,
                        ![w].waitingRenderer = FALSE]
Trimmed == [w \in Windows |-> TrimSpares(cache[w])]

\* RedrawRequested: clear() trims every cache, takes a slot of the gate and a drawable.
BeginFrame(w) ==
    /\ Idle /\ win[w].open /\ win[w].redraw /\ Admits(gate[w])
    /\ LET free == {i \in 1 .. MaxFrames : frame[<<w, i>>].ph = "free"}
           opened == [frame EXCEPT ![<<w, Min(free)>>].ph = "open"]
       IN  /\ UiSettles(Trimmed, opened, None, budget, Taken(w), tex)
           /\ ui' = [IdleUi EXCEPT !.pc = "attempt", !.w = w, !.slot = Min(free)]
    /\ gate' = [gate EXCEPT ![w] = Admit(@, 1)]

\* No drawable, command buffer or encoder: the lifetime is dropped, which releases
\* its slot and discards the answer, and the window is retried in 100 ms.
BeginFails(w) ==
    /\ Idle /\ win[w].open /\ win[w].redraw /\ Admits(gate[w]) /\ MayFail
    /\ UiSettles(Trimmed, frame, None, Failed(budget),
                 [Taken(w) EXCEPT ![w].dirty = TRUE, ![w].retry = TRUE], tex)
    /\ gate' = [gate EXCEPT ![w] = Release(Admit(@, 1))]
    /\ UNCHANGED ui

\* The native window closes: its renderer and its cache go, frames on the GPU stay.
Close(w) ==
    /\ Idle /\ w \in Closing /\ win[w].open /\ win[w].commits = MaxCommits[w]
    /\ UiSettles([cache EXCEPT ![w] = NoCache], frame, None, budget,
                 [win EXCEPT ![w] = [@ EXCEPT !.open = FALSE, !.commit = None, !.owed = FALSE,
                    !.dirty = FALSE, !.redraw = FALSE, !.pendingNative = FALSE,
                    !.waitingRenderer = FALSE, !.retry = FALSE]], tex)
    /\ UNCHANGED <<gate, ui>>

-----------------------------------------------------------------------------
(* Drawing one surface into the frame the UI thread has open.               *)

W == ui.w
MyFrame == <<ui.w, ui.slot>>
Wanted == win[W].commit.size

\* mark_read and retain_reservation of the current image of this window's cache.
Read(c) == IF Current(c) = None THEN frame
           ELSE [frame EXCEPT ![MyFrame].read = @ \cup {Current(c)},
                              ![MyFrame].held = @ \cup {Current(c)}]

\* draw_from_cache: nothing was committed since the last draw.
DrawFromCache ==
    /\ ui.pc = "attempt" /\ win[W].commit = None
    /\ frame' = Read(cache[W])
    /\ ui' = [ui EXCEPT !.pc = "swap"]
    /\ UNCHANGED <<tex, cache, gate, budget, win>>

\* A null buffer was committed: the texture is evicted.
EvictTexture ==
    /\ ui.pc = "attempt" /\ win[W].commit = Removed
    /\ UiSettles([cache EXCEPT ![W] = NoCache], frame, None, budget,
                 [win EXCEPT ![W].commit = None], tex)
    /\ ui' = [ui EXCEPT !.pc = "swap"]
    /\ UNCHANGED gate

\* An attempt of preflight_pixels for the buffer the surface holds.
Attempting == ui.pc = "attempt" /\ win[W].commit \notin {None, Removed}

Undamaged(c) == Fits(Current(c), Wanted) /\ ~win[W].commit.damage

\* The cache as an attempt of preflight_pixels leaves it.
Compacted == IF Undamaged(cache[W]) THEN cache[W]
             ELSE RetainIdleSpare(cache[W], LAMBDA t : Fits(t, Wanted))
Target == UpdateTarget(Compacted, Wanted)
IdleTarget == IF Target \in DOMAIN Compacted.vers THEN Compacted.vers[Target] ELSE None

NeedsStorage == ~Fits(IdleTarget, Wanted)
InPlace == /\ Current(Compacted) # None
           /\ (~Writable(Current(Compacted)) \/ HasReaders(Current(Compacted)))
Denied == Pressure(W, Wanted, IdleTarget)

\* finish_buffer_upload for a deferred or rejected commit: the cached image is drawn
\* instead, and only a rejected buffer is given back.
FallBack(c, rejected, b) ==
    /\ UiSettles([cache EXCEPT ![W] = c], Read(c), None, b,
                 IF rejected THEN [win EXCEPT ![W].commit = None] ELSE win, tex)
    /\ ui' = [IdleUi EXCEPT !.pc = "swap", !.w = W, !.slot = ui.slot]

\* An attempt that finds storage: the current image when nothing was damaged, an
\* idle version of this size, or a new reservation.
AttemptAdmitted ==
    /\ Attempting
    /\ LET fresh == Min({t \in TexIds : tex[t] = None})
           c == [cache EXCEPT ![W] = Compacted]
       IN  \/ /\ Undamaged(cache[W]) \/ ~NeedsStorage
              /\ UiSettles(c, frame, None, budget, win, tex)
              /\ ui' = [ui EXCEPT !.pc = "upload"]
           \/ /\ ~Undamaged(cache[W]) /\ NeedsStorage /\ Wanted <= MaxBytes /\ ~Denied
              /\ UiSettles(c, frame, fresh, Charge(budget, W, Wanted, 1), win,
                   [tex EXCEPT ![fresh] = [win |-> W, size |-> Wanted, retired |-> FALSE]])
              /\ ui' = [ui EXCEPT !.pc = "upload", !.prepared = fresh]
    /\ UNCHANGED gate

\* A request above the process limit, or a texture Metal does not allocate.
AttemptImpossible ==
    /\ Attempting /\ ~Undamaged(cache[W]) /\ NeedsStorage
    /\ \/ Wanted > MaxBytes /\ FallBack(Compacted, TRUE, budget)
       \/ Wanted <= MaxBytes /\ ~Denied /\ MayFail /\ FallBack(Compacted, TRUE, Failed(budget))
    /\ UNCHANGED gate

\* The budget refuses: the window waits on it, and the caches are swept.
AttemptDenied ==
    /\ Attempting /\ ~Undamaged(cache[W]) /\ NeedsStorage
    /\ Wanted <= MaxBytes /\ Denied
    /\ UiSettles([cache EXCEPT ![W] = Compacted], frame, None, Wait(budget, W), win, tex)
    /\ ui' = [ui EXCEPT !.pc = IF ui.attempt = 1 THEN "sweep" ELSE "resweep", !.inPlace = InPlace]
    /\ UNCHANGED gate

Swept == [w \in Windows |-> PruneIdle(cache[w])]

Sweep ==
    /\ ui.pc = "sweep"
    /\ UiSettles(Swept, frame, None, budget, win, tex)
    /\ ui' = [ui EXCEPT !.pc = "attempt", !.attempt = 2]
    /\ UNCHANGED gate

SweepAgain ==
    /\ ui.pc = "resweep"
    /\ UiSettles(Swept, frame, None, budget, win, tex)
    /\ ui' = [ui EXCEPT !.pc = "decide", !.removed = Swept # cache,
                        !.pending = \E w \in Windows : Len(Swept[w].vers) > 1]
    /\ UNCHANGED gate

\* has_reclaimable_readers and texture_preflight_result.
ReclaimableReaders == \E t \in TexIds : tex[t] # None /\ tex[t].retired /\ HasReaders(t)
Defers == ui.removed \/ ui.pending \/ ui.inPlace \/ ReclaimableReaders

\* The commit is kept and one wake is arranged: a redraw now when the sweep freed
\* something, else when this window's frames have drained, else by the budget.
DecideDeferred ==
    /\ ui.pc = "decide" /\ Defers
    /\ UiSettles(cache, Read(cache[W]), None,
                 IF ui.removed \/ ui.inPlace THEN budget ELSE Wait(budget, W),
                 [win EXCEPT ![W].redraw = @ \/ ui.removed], tex)
    /\ gate' = IF ~ui.removed /\ ui.inPlace
               THEN [gate EXCEPT ![W].draining = TRUE, ![W].waiting = TRUE] ELSE gate
    /\ ui' = [IdleUi EXCEPT !.pc = "swap", !.w = W, !.slot = ui.slot]

DecideRejected ==
    /\ ui.pc = "decide" /\ ~Defers
    /\ FallBack(cache[W], TRUE, budget)
    /\ UNCHANGED gate

\* with_buffer_pixels cannot read the client's pool: the token is dropped.
SnapshotFails ==
    /\ ui.pc = "upload" /\ MayFail
    /\ FallBack(cache[W], TRUE, Failed(budget))
    /\ UNCHANGED gate

\* get_or_create_texture: the target is chosen again, for a completion may have
\* added an idle version since the preflight.
UploadTarget == UpdateTarget(cache[W], Wanted)
UploadReuses == /\ UploadTarget \in DOMAIN cache[W].vers
                /\ Fits(cache[W].vers[UploadTarget], Wanted)
Written == IF UploadReuses THEN cache[W].vers[UploadTarget] ELSE ui.prepared

Upload ==
    /\ ui.pc = "upload" /\ (Undamaged(cache[W]) \/ Written # None)
    /\ LET old == Current(cache[W])
           new == IF Undamaged(cache[W]) THEN old ELSE Written
           put == [vers |-> IF UploadTarget \in DOMAIN cache[W].vers
                            THEN [cache[W].vers EXCEPT ![UploadTarget] = new]
                            ELSE Append(cache[W].vers, new),
                   cur |-> UploadTarget]
           texs == [t \in TexIds |->
                      IF t = new THEN [tex[t] EXCEPT !.retired = FALSE]
                      ELSE IF t = old THEN [tex[t] EXCEPT !.retired = TRUE] ELSE tex[t]]
           c == IF Undamaged(cache[W]) THEN cache[W]
                ELSE RetainIdleSpare(put, LAMBDA t : Fits(t, Wanted))
       IN  UiSettles([cache EXCEPT ![W] = c], Read(c), None, budget,
                     [win EXCEPT ![W].commit = None], texs)
    /\ ui' = [IdleUi EXCEPT !.pc = "swap", !.w = W, !.slot = ui.slot]
    /\ UNCHANGED gate

\* MetalRenderer::swap_buffers: the open frame is committed to the GPU; from now on its completion
\* handler owns what it reads.
Submitted == [frame EXCEPT ![MyFrame].ph = "gpu"]

\* Mutated form: a window that shows its commit never gets its callbacks.
SwapBuffersKeepsCallbacks ==
    /\ ui.pc = "swap"
    /\ frame' = Submitted
    /\ win' = [win EXCEPT ![W].dirty = win[W].commit # None,
                          ![W].waitingRenderer = win[W].commit # None, ![W].retry = FALSE]
    /\ ui' = IdleUi
    /\ UNCHANGED <<tex, cache, gate, budget>>

\* RedrawRequested, with the frame submitted.  With the commit still held the window waits for
\* the renderer; else it is clean and its callbacks are sent.
SwapBuffers ==
    /\ ui.pc = "swap"
    /\ frame' = Submitted
    /\ win' = IF win[W].commit # None
              THEN [win EXCEPT ![W].dirty = TRUE, ![W].waitingRenderer = TRUE, ![W].retry = FALSE]
              ELSE [win EXCEPT ![W].dirty = FALSE, ![W].owed = FALSE, ![W].retry = FALSE]
    /\ ui' = IdleUi
    /\ UNCHANGED <<tex, cache, gate, budget>>

-----------------------------------------------------------------------------
(* FrameLifetime::complete on a Metal completion thread.                    *)

EndRead(f) ==
    /\ frame[f].ph = "gpu"
    /\ frame' = [frame EXCEPT ![f].ph = "ended"]
    /\ UNCHANGED <<tex, cache, gate, budget, ui, win>>

PublishCompleted(f) ==
    /\ frame[f].ph = "ended"
    /\ frame' = [frame EXCEPT ![f].ph = "done", ![f].read = {}]
    /\ UNCHANGED <<tex, cache, gate, budget, ui, win>>

\* notify_reclaimable: retired storage without readers wakes the budget's waiters.
NotifyReclaimable(f) ==
    LET retired == {t \in frame[f].held : tex[t].retired}
        wakes == \E t \in retired : ~HasReaders(t)
    IN  /\ frame[f].ph = "done"
        /\ frame' = [frame EXCEPT ![f].ph = "notified", ![f].reclaim = retired # {},
                                  ![f].batch = IF wakes THEN budget.waiters ELSE {}]
        /\ budget' = IF wakes THEN [budget EXCEPT !.waiters = {}] ELSE budget
        /\ UNCHANGED <<tex, cache, gate, ui, win>>

\* notify_waiters, one waiter of the batch this thread took.
NotifyWaiter(f, v) ==
    /\ v \in frame[f].batch
    /\ frame' = [frame EXCEPT ![f].batch = @ \ {v}]
    /\ budget' = [budget EXCEPT !.waiting[v] = FALSE]
    /\ win' = [win EXCEPT ![v].redraw = @ \/ (budget.waiting[v] /\ win[v].open)]
    /\ UNCHANGED <<tex, cache, gate, ui>>

\* The retained reservations are dropped; the last reference returns the charge.
DropReservations(f) ==
    LET rest == [frame EXCEPT ![f].held = {}]
        dead == {t \in TexIds : tex[t] # None} \ Referenced(cache, rest, ui.prepared)
    IN  /\ frame[f].ph = "notified" /\ frame[f].batch = {}
        /\ frame' = [rest EXCEPT ![f].ph = "dropped",
                                 ![f].batch = IF dead = {} THEN {} ELSE budget.waiters]
        /\ tex' = Forget(tex, dead)
        /\ budget' = [Refund(budget, tex, dead) EXCEPT
                        !.waiters = IF dead = {} THEN @ ELSE {}]
        /\ UNCHANGED <<cache, gate, ui, win>>

\* gate.release(), and the redraw the completion handler asks for.
ReleaseFrame(f) ==
    LET w == f[1] IN
    /\ frame[f].ph = "dropped" /\ frame[f].batch = {}
    /\ gate' = [gate EXCEPT ![w] = Release(@)]
    /\ win' = [win EXCEPT ![w].redraw =
                 @ \/ (win[w].open /\ (ReleaseWakes(gate[w]) \/ frame[f].reclaim))]
    /\ frame' = [frame EXCEPT ![f] = FreeFrame]
    /\ UNCHANGED <<tex, cache, budget, ui>>

-----------------------------------------------------------------------------
DrawStep == \/ DrawFromCache \/ EvictTexture
            \/ AttemptAdmitted \/ AttemptImpossible \/ AttemptDenied
            \/ Sweep \/ SweepAgain \/ DecideDeferred \/ DecideRejected
            \/ SnapshotFails \/ Upload \/ SwapBuffers

CompletionStep(f) ==
    \/ EndRead(f) \/ PublishCompleted(f) \/ NotifyReclaimable(f)
    \/ \E v \in Windows : NotifyWaiter(f, v)
    \/ DropReservations(f) \/ ReleaseFrame(f)

Next == \/ \E f \in FrameIds : CompletionStep(f)
        \/ \E w \in Windows :
             \/ \E c \in Requests[w] : Commit(w, c)
             \/ AboutToWait(w) \/ RetryElapsed(w) \/ RedrawNotReady(w)
             \/ BeginFrame(w) \/ BeginFails(w) \/ Close(w)
        \/ DrawStep

\* The loop turns, Metal completes what is submitted.  No thread needs a fairness
\* of its own: with the commits bounded, no behaviour runs for ever.
Fairness == WF_vars(Next)

Spec == Init /\ [][Next]_vars /\ Fairness

-----------------------------------------------------------------------------
\* The texture the next upload writes, when it writes one, is read by no frame
\* that is still being encoded or run by the GPU.
UploadSafe ==
    (ui.pc = "upload" /\ ~Undamaged(cache[W]) /\ UploadReuses) =>
        \A f \in FrameIds : Written \in frame[f].held => frame[f].ph \notin {"open", "gpu"}

\* An open frame leaves at most MaxFrames - 1 others to read this surface, so a
\* version is always idle or missing: PrepareError::Busy is never returned.
FrameFindsVersion == (Attempting /\ ~Undamaged(cache[W])) => Target # 0

\* Between the preflight and the upload completions only add idle versions: an
\* admitted commit always finds storage, in the cache or in its token.
PreparedUploadHasStorage ==
    ui.pc = "upload" => Undamaged(cache[W]) \/ (UploadTarget # 0 /\ Written # None)

\* The charge of the budget is that of the reservations still alive, on the whole
\* and per window, and a window holds at most one oversized texture besides the
\* one it is replacing.
BudgetBalances ==
    LET alive(S) == {t \in TexIds : tex[t] # None /\ tex[t].win \in S}
        sum(S) == FoldSet(LAMBDA t, n : n + tex[t].size, 0, alive(S))
    IN  /\ budget.bytes = sum(Windows) /\ budget.bytes <= MaxBytes
        /\ budget.allocs = Cardinality(alive(Windows))
        /\ \A w \in Windows : budget.client[w] = sum({w})

\* Every slot the gate counts is a frame that is not finished, and the reverse.
GateCountsFrames ==
    \A w \in Windows :
      gate[w].count = Cardinality({i \in 1 .. MaxFrames : frame[<<w, i>>].ph # "free"})

\* A window that waits on the budget is where a drop or a completion finds it.
BudgetWaiterReachable ==
    \A w \in Windows : budget.waiting[w] =>
        w \in budget.waiters \/ \E f \in FrameIds : w \in frame[f].batch

\* The redraw a waiting window needs is on its way: asked for already, owed by the
\* gate when a frame is released, or by a completion that will wake the budget.
NoLostRedraw ==
    \A w \in Windows : (win[w].waitingRenderer /\ Idle) =>
        \/ win[w].redraw
        \/ gate[w].waiting /\ gate[w].count > 0
        \/ /\ budget.waiting[w]
           /\ \E f \in FrameIds : frame[f].ph # "free"

\* Once clients are quiet every commit has been drawn, rejected or removed and
\* every frame callback sent.
CommitsServed == <>[](\A w \in Windows : win[w].commit = None /\ ~win[w].owed)

\* A texture is written only when no frame reads it, every admitted commit finds a version to
\* write, and the budget and the gates count what is really alive.
RenderingInvariant ==
    /\ TypeOK
    /\ UploadSafe
    /\ FrameFindsVersion
    /\ PreparedUploadHasStorage
    /\ BudgetBalances
    /\ GateCountsFrames

\* A window that waits for the GPU, at the gate or at the budget, is where the next
\* completion finds it, and its redraw is on its way.
NobodyStranded ==
    /\ BudgetWaiterReachable
    /\ NoLostRedraw
=============================================================================
