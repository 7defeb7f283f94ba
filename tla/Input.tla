------------------------------- MODULE Input -------------------------------
(***************************************************************************)
(* Keyboard, pointer, pointer lock and native cursor of the event loop     *)
(* (main.rs, state.rs, pointer_input.rs, input_policy.rs,                  *)
(* native_cursor.rs).                                                      *)
(*                                                                         *)
(* Every native event runs one turn of the loop: the pointer lock is       *)
(* reconciled, the event handled, and the lock reconciled again.  macOS    *)
(* moves the focus by itself, reports a loss and a gain in either order,   *)
(* and may refuse to take or to give back the cursor.  In rootless mode a  *)
(* toplevel has a window of its own; in desktop mode all are tiles of one  *)
(* window.  A mouse has one button here and a keyboard the keys of Keys.   *)
(* The seat, its click grab and the pointer constraints are smithay's.     *)
(***************************************************************************)
EXTENDS Naturals, FiniteSets

CONSTANTS Surfaces,      \* toplevel surfaces; in rootless mode also their windows
          Desktop,       \* the one window of desktop mode
          Nobody,        \* no window, no surface
          Keys,          \* physical keys
          MaxRefusals,   \* native cursor calls that macOS refuses
          Kinds,         \* the constraints a surface's client asks for
          Uses           \* which of AllUses are explored

ConstraintKinds == {"lock", "oneshot", "confine"}

\* typing with clicks, pointer locks, cursor images with clicks, trackpad gestures
AllUses == {"typing", "locking", "pointing", "gestures"}

ASSUME InputAssumption ==
    /\ Kinds \in [Surfaces -> SUBSET ConstraintKinds] /\ Uses \subseteq AllUses /\ MaxRefusals \in Nat
    /\ {Desktop, Nobody} \cap Surfaces = {} /\ Desktop # Nobody

VARIABLES rootless,      \* the presentation mode, fixed at start
          use,           \* what the user and the clients do: see Uses
          seat,          \* the compositor's side: see InputTypeOK
          gesture,       \* pointer_gesture, and what clients were told: see InputTypeOK
          front,         \* the window that has the native focus
          focusEvents,   \* Focused events not yet handled: [win, gained]
          down,          \* keys physically down
          mouse,         \* the window the mouse button went down in
          refusals       \* native calls refused so far

inputVars == <<rootless, use, seat, gesture, front, focusEvents, down, mouse, refusals>>

AllWindows == Surfaces \cup {Desktop}
WindowOf(s) == IF rootless THEN s ELSE Desktop
NoFocus == [owner |-> Nobody, surface |-> Nobody]

InputTypeOK ==
    /\ rootless \in BOOLEAN /\ use \in AllUses
    /\ seat \in [keyOwner: AllWindows \cup {Nobody}, held: SUBSET Keys, pressed: SUBSET Keys,
                 kb: Surfaces \cup {Nobody}, saved: Surfaces \cup {Nobody},
                 ptr: Surfaces \cup {Nobody}, grab: Surfaces \cup {Nobody, "off"},
                 held1: BOOLEAN, pressed1: BOOLEAN,
                 focus: [owner: AllWindows \cup {Nobody}, surface: Surfaces \cup {Nobody}],
                 nat: [owner: AllWindows \cup {Nobody}, surface: Surfaces \cup {Nobody}],
                 pending: BOOLEAN,
                 status: {"idle", "locked", "unsupported", "refused", "stuck"},
                 cons: [Surfaces -> ConstraintKinds \cup {"none"}], active: SUBSET Surfaces,
                 origin: BOOLEAN, inside: BOOLEAN, taken: BOOLEAN,
                 cursorAt: AllWindows \cup {Nobody}, image: {"default", "hidden"},
                 imageBy: Surfaces \cup {Nobody}, shownFor: Surfaces \cup {Nobody},
                 hidden: BOOLEAN,
                 windows: SUBSET AllWindows, visible: SUBSET AllWindows,
                 alive: SUBSET Surfaces, mapped: SUBSET Surfaces]
    /\ gesture \in [magnify: BOOLEAN, rotation: BOOLEAN, pinch: BOOLEAN, swipe: BOOLEAN,
                    told: SUBSET {"pinch", "swipe"}, astray: BOOLEAN]
    /\ front \in AllWindows \cup {Nobody}
    /\ focusEvents \subseteq [win: AllWindows, gained: BOOLEAN]
    /\ down \subseteq Keys
    /\ mouse \in AllWindows \cup {Nobody}
    /\ refusals \in 0..MaxRefusals

\* the surfaces that are there at the start: pointer locks are explored from windows that
\* are open
OpenAtStart == IF use = "locking" THEN Surfaces ELSE {}

InputInit ==
    /\ rootless \in BOOLEAN /\ use \in Uses
    /\ seat = [keyOwner |-> Nobody, held |-> {}, pressed |-> {}, kb |-> Nobody,
               saved |-> Nobody, ptr |-> Nobody, grab |-> "off", held1 |-> FALSE,
               pressed1 |-> FALSE, focus |-> NoFocus, nat |-> NoFocus, pending |-> FALSE,
               status |-> "idle", cons |-> [s \in Surfaces |-> "none"], active |-> {},
               origin |-> FALSE, inside |-> FALSE, taken |-> FALSE, cursorAt |-> Nobody,
               image |-> "default", imageBy |-> Nobody, shownFor |-> Nobody, hidden |-> FALSE,
               windows |-> IF rootless THEN OpenAtStart ELSE {Desktop},
               visible |-> IF rootless THEN OpenAtStart ELSE {Desktop},
               alive |-> OpenAtStart, mapped |-> OpenAtStart]
    /\ gesture = [magnify |-> FALSE, rotation |-> FALSE, pinch |-> FALSE, swipe |-> FALSE,
                  told |-> {}, astray |-> FALSE]
    /\ front = Nobody /\ focusEvents = {} /\ down = {} /\ mouse = Nobody /\ refusals = 0

-----------------------------------------------------------------------------
(***************************************************************************)
(* The native cursor.  It is hidden only inside the content of a window,   *)
(* for a lock that is in force or because the client under the pointer     *)
(* asked for it.                                                           *)
(***************************************************************************)
LockInForce(x) == x.ptr \in x.active /\ x.cons[x.ptr] # "confine"

\* refresh_native_cursor: a new focus loses an older client's request
RefreshCursor(x) ==
    LET reset == x.ptr # Nobody /\ x.ptr # x.imageBy
        y == [x EXCEPT !.shownFor = x.ptr,
                       !.imageBy = IF reset THEN x.ptr ELSE @,
                       !.image = IF reset THEN "default" ELSE @]
        valid == y.shownFor # Nobody /\ y.shownFor = y.imageBy
    IN  IF y.cursorAt = Nobody THEN y
        ELSE [y EXCEPT !.hidden = LockInForce(y) \/ (valid /\ y.image = "hidden")]

\* set_image, with the refresh that smithay's callback runs; it keeps the lock it knew
SetImage(x, image) ==
    IF x.cursorAt = Nobody /\ image = "default" THEN x
    ELSE LET y == [x EXCEPT !.image = image, !.imageBy = x.shownFor]
         IN  IF y.cursorAt = Nobody THEN y
             ELSE [y EXCEPT !.hidden = LockInForce(x) \/ (y.shownFor # Nobody /\ image = "hidden")]

CursorLeaves(x) == [x EXCEPT !.hidden = FALSE, !.cursorAt = Nobody]

CursorLeavesWindow(x, w) == IF x.cursorAt = w THEN CursorLeaves(x) ELSE x
CursorEntersWindow(x, w) == [CursorLeaves(x) EXCEPT !.cursorAt = w]

-----------------------------------------------------------------------------
(***************************************************************************)
(* The seat.  A constraint ends its activation when the pointer leaves its *)
(* surface, and a oneshot one is then gone.  A press starts a click grab   *)
(* that keeps the focus of that moment until no button is down.            *)
(***************************************************************************)
Deactivate(x, s) ==
    IF s \notin x.active THEN x
    ELSE [x EXCEPT !.active = @ \ {s},
                   !.cons[s] = IF @ = "oneshot" THEN "none" ELSE @]

\* pointer.motion; leaving every surface sends the default cursor
SeatMotion(x, target) ==
    LET to == IF x.grab = "off" THEN target ELSE x.grab
        y  == [(IF x.ptr = to THEN x ELSE Deactivate(x, x.ptr)) EXCEPT !.ptr = to]
    IN  IF x.ptr # Nobody /\ to = Nobody THEN SetImage(y, "default") ELSE y

SeatButton(x, pressed) ==
    [x EXCEPT !.pressed1 = pressed,
              !.grab = IF ~pressed THEN "off" ELSE IF @ = "off" THEN x.ptr ELSE @]

-----------------------------------------------------------------------------

\* clear_pointer_focus
ClearPointerFocus(x) ==
    LET a == Deactivate(x, x.ptr)
        b == IF a.held1 THEN SeatButton(a, FALSE) ELSE a
        c == SeatMotion([b EXCEPT !.held1 = FALSE, !.grab = "off"], Nobody)
    IN  RefreshCursor([c EXCEPT !.focus = NoFocus, !.pending = TRUE])

\* release_pointer_lock; ok: macOS gives the cursor back
ReleasePointerLock(x, ok) ==
    IF x.nat = NoFocus THEN x
    ELSE LET y == Deactivate(x, x.nat.surface)
         IN  RefreshCursor(
                IF ok THEN [y EXCEPT !.nat = NoFocus, !.pending = TRUE, !.status = "idle",
                                     !.taken = FALSE]
                ELSE [y EXCEPT !.status = "stuck"])

\* the facts reconcile_pointer_lock collects and PointerInput::action judges
Eligible(x) ==
    /\ x.focus # NoFocus /\ x.ptr = x.focus.surface
    /\ x.focus.owner \in x.windows /\ x.keyOwner = x.focus.owner /\ front = x.focus.owner
    /\ x.focus.surface \in x.mapped /\ x.focus.surface \in x.alive
    /\ x.origin /\ x.focus.owner \in x.visible /\ x.inside

KindUnder(x) == IF x.ptr = Nobody THEN "none" ELSE x.cons[x.ptr]

LockAction(x) ==
    IF x.nat # NoFocus
    THEN IF Eligible(x) /\ x.focus = x.nat /\ LockInForce(x) /\ x.status # "stuck"
         THEN "keep" ELSE "release"
    ELSE CASE KindUnder(x) = "none" -> "idle"
           [] KindUnder(x) = "confine" -> "unsupported"
           [] OTHER -> IF Eligible(x) /\ (x.pending \/ x.status # "refused")
                       THEN "acquire" ELSE "wait"

\* one pass; only a release that worked is followed by another
ReconcilePass(x, act, ok) ==
    CASE act = "keep" -> x
      [] act = "idle" -> [x EXCEPT !.status = "idle"]
      [] act = "release" -> ReleasePointerLock(x, ok)
      [] act = "unsupported" -> [Deactivate(x, x.ptr) EXCEPT !.status = "unsupported"]
      [] act = "wait" -> Deactivate(x, x.ptr)
      [] act = "acquire" ->
            IF ok THEN RefreshCursor([x EXCEPT !.nat = x.focus, !.pending = FALSE,
                                               !.status = "locked", !.taken = TRUE,
                                               !.active = @ \cup {x.ptr}])
            ELSE [x EXCEPT !.pending = FALSE, !.status = "refused"]

Reconcile(x, ok) ==
    LET act == LockAction(x)
        y == ReconcilePass(x, act, ok)
    IN  IF act = "release" /\ ok THEN ReconcilePass(y, LockAction(y), ok) ELSE y

-----------------------------------------------------------------------------
\* Mutated form: the keys that are down go to the new owner.
SetKeyboardOwnerKeeps(x, owner) ==
    IF x.keyOwner = owner THEN x
    ELSE [x EXCEPT !.keyOwner = owner]

\* set_keyboard_owner with release_pressed_keys: an owner takes no keys over
SetKeyboardOwner(x, owner) ==
    IF x.keyOwner = owner THEN x
    ELSE [x EXCEPT !.keyOwner = owner, !.held = {}, !.pressed = {}]

\* retire_input_window
RetireInputWindow(x, w, ok) ==
    LET a == IF x.nat.owner = w THEN ReleasePointerLock(x, ok) ELSE x
        b == CursorLeavesWindow(a, w)
        c == IF b.focus.owner = w THEN ClearPointerFocus(b) ELSE b
    IN  IF c.keyOwner = w THEN [SetKeyboardOwner(c, Nobody) EXCEPT !.kb = Nobody] ELSE c

\* prepare_pointer_focus: the gain may come before the old owner's loss
PreparePointerFocus(x, w, ok) ==
    IF x.focus.owner \in {Nobody, w} /\ x.nat.owner \in {Nobody, w} THEN x
    ELSE LET a == IF x.nat.owner \notin {Nobody, w} THEN ReleasePointerLock(x, ok) ELSE x
             b == IF x.focus # NoFocus THEN CursorLeavesWindow(a, x.focus.owner) ELSE a
         IN  ClearPointerFocus(b)

\* invalidate_pointer_window: a resize or a scale change under a lock
InvalidatePointerWindow(x, w, ok) ==
    IF x.nat.owner = w THEN ClearPointerFocus(ReleasePointerLock(x, ok)) ELSE x

\* record_pointer_motion: a click grab keeps the owner that was known for its surface
RecordPointerMotion(x, w, target) ==
    LET grabbed == x.grab \notin {"off", Nobody} /\ x.ptr = x.grab
        known == x.focus # NoFocus /\ x.focus.surface = x.ptr
        owner == IF grabbed THEN x.focus.owner ELSE w
        hit == IF grabbed THEN x.grab ELSE target
    IN  [x EXCEPT !.pending = TRUE,
             !.focus = IF grabbed /\ ~known THEN NoFocus
                       ELSE IF hit # Nobody /\ x.ptr = hit THEN [owner |-> owner, surface |-> hit]
                       ELSE IF @.surface # x.ptr THEN NoFocus ELSE @,
             !.origin = IF grabbed /\ ~known THEN FALSE
                        ELSE IF hit # Nobody /\ x.ptr = hit THEN TRUE
                        ELSE IF x.focus.surface # x.ptr THEN FALSE ELSE @]

-----------------------------------------------------------------------------
(***************************************************************************)
(* A turn of the event loop around the handler H of one event.             *)
(***************************************************************************)
Turn(H(_, _)) ==
    LET After(ok) == Reconcile(H(Reconcile(seat, ok), ok), ok)
    IN  /\ \/ seat' = After(TRUE) /\ UNCHANGED refusals
           \/ /\ use = "locking" /\ refusals < MaxRefusals /\ After(FALSE) # After(TRUE)
              /\ seat' = After(FALSE) /\ refusals' = refusals + 1
        /\ UNCHANGED <<rootless, use, gesture>>

\* macOS takes the focus from a window that goes away from the screen
FocusLostBy(w) ==
    /\ front' = IF front = w THEN Nobody ELSE front
    /\ focusEvents' = IF front = w THEN focusEvents \cup {[win |-> w, gained |-> FALSE]}
                      ELSE focusEvents

\* A bound: one window at a time is hidden, and where locks are explored one surface at a
\* time is without a buffer or destroyed.
OthersThere(gone) ==
    \A s \in Surfaces \ gone :
        /\ s \in seat.alive => WindowOf(s) \in seat.visible
        /\ use = "locking" => s \in seat.mapped

\* the user brings another window of the program, or none, to the front
FocusMoves(w) ==
    /\ use # "gestures" /\ focusEvents = {} /\ w # front /\ w \in seat.visible \cup {Nobody}
    /\ front' = w
    /\ focusEvents' = {[win |-> v, gained |-> v = w] : v \in {w, front} \ {Nobody}}
    /\ UNCHANGED <<rootless, use, seat, gesture, down, mouse, refusals>>

\* Mutated form: the window becomes the owner, its surface not the focus.
FocusedOwnerOnly(w) ==
    /\ [win |-> w, gained |-> TRUE] \in focusEvents
    /\ focusEvents' = focusEvents \ {[win |-> w, gained |-> TRUE]}
    /\ Turn(LAMBDA x, ok :
          LET y == SetKeyboardOwner([PreparePointerFocus(x, w, ok) EXCEPT !.pending = TRUE], w)
          IN  IF w \notin x.windows THEN x
              ELSE IF w # Desktop THEN y
              ELSE [y EXCEPT !.saved = Nobody,
                             !.kb = IF @ = Nobody /\ y.saved \in y.alive THEN y.saved ELSE @])
    /\ UNCHANGED <<front, down, mouse>>

\* Focused(true) of a rootless window and of the desktop window
Focused(w) ==
    /\ [win |-> w, gained |-> TRUE] \in focusEvents
    /\ focusEvents' = focusEvents \ {[win |-> w, gained |-> TRUE]}
    /\ Turn(LAMBDA x, ok :
          LET y == SetKeyboardOwner([PreparePointerFocus(x, w, ok) EXCEPT !.pending = TRUE], w)
          IN  IF w \notin x.windows THEN x
              ELSE IF w # Desktop THEN [y EXCEPT !.kb = w]
              ELSE [y EXCEPT !.saved = Nobody,
                             !.kb = IF @ = Nobody /\ y.saved \in y.alive THEN y.saved ELSE @])
    /\ UNCHANGED <<front, down, mouse>>

\* Focused(false); the desktop remembers which tile had the keyboard
Unfocused(w) ==
    /\ [win |-> w, gained |-> FALSE] \in focusEvents
    /\ focusEvents' = focusEvents \ {[win |-> w, gained |-> FALSE]}
    /\ Turn(LAMBDA x, ok :
          LET y == IF w = Desktop /\ x.keyOwner = w THEN [x EXCEPT !.saved = x.kb] ELSE x
          IN  IF w \in x.windows THEN RetireInputWindow(y, w, ok) ELSE x)
    /\ UNCHANGED <<front, down, mouse>>

\* CloseRequested and minimising, and the messages that hide the desktop window or change
\* its desktop background
WindowHides(w) ==
    /\ use # "gestures" /\ w \in seat.visible
    /\ OthersThere({s \in Surfaces : WindowOf(s) = w})
    /\ Turn(LAMBDA x, ok : [RetireInputWindow(x, w, ok) EXCEPT !.visible = @ \ {w}])
    /\ FocusLostBy(w)
    /\ UNCHANGED <<down, mouse>>

\* set_visible(true) of the desktop window, deminiaturising of a rootless one
WindowShows(w) ==
    /\ w \in seat.windows \ seat.visible
    /\ seat' = [seat EXCEPT !.visible = @ \cup {w}]
    /\ UNCHANGED <<rootless, use, gesture, front, focusEvents, down, mouse, refusals>>

\* Resized, ScaleFactorChanged and ToggleHiDpi; a new desktop scale forgets the focus
WindowResizes(w) ==
    /\ w \in seat.visible
    /\ Turn(LAMBDA x, ok :
          LET y == InvalidatePointerWindow(x, w, ok)
          IN  IF w = Desktop THEN [y EXCEPT !.focus = NoFocus, !.pending = TRUE] ELSE y)
    /\ UNCHANGED <<front, focusEvents, down, mouse>>

-----------------------------------------------------------------------------
\* forward_keyboard_event, with KeyTransitionReducer::key_with_focus: a key goes to the
\* window in front once its Focused event is handled
KeyPressed(k) ==
    /\ use = "typing" /\ front # Nobody /\ k \notin down /\ [win |-> front, gained |-> TRUE] \notin focusEvents
    /\ down' = down \cup {k}
    /\ Turn(LAMBDA x, ok :
          IF x.kb = Nobody \/ x.keyOwner # front THEN x
          ELSE [x EXCEPT !.held = @ \cup {k}, !.pressed = @ \cup {k}])
    /\ UNCHANGED <<front, focusEvents, mouse>>

\* a release that no window of the program is told of is lost
KeyReleased(k) ==
    /\ k \in down /\ (front # Nobody => [win |-> front, gained |-> TRUE] \notin focusEvents)
    /\ down' = down \ {k}
    /\ Turn(LAMBDA x, ok :
          IF front = Nobody \/ x.keyOwner # front \/ k \notin x.held THEN x
          ELSE [x EXCEPT !.held = @ \ {k}, !.pressed = @ \ {k}])
    /\ UNCHANGED <<front, focusEvents, mouse>>

-----------------------------------------------------------------------------
\* CursorEntered, ignored while the cursor is taken
CursorEntered(w) ==
    /\ use = "pointing" /\ w \in seat.visible /\ mouse = Nobody
    /\ Turn(LAMBDA x, ok : IF x.nat # NoFocus THEN x ELSE RefreshCursor(CursorEntersWindow(x, w)))
    /\ UNCHANGED <<front, focusEvents, down, mouse>>

CursorLeft(w) ==
    /\ w \in seat.windows
    /\ Turn(LAMBDA x, ok :
          LET a == CursorLeavesWindow(x, w)
              b == IF a.nat.owner = w THEN ReleasePointerLock(a, ok) ELSE a
          IN  IF b.focus.owner = w THEN ClearPointerFocus(b) ELSE b)
    /\ UNCHANGED <<front, focusEvents, down, mouse>>

\* rootless_pointer_motion, and the desktop's: the seat goes over target and keeps what it has found
PointerMotion(x, w, target, inside) ==
    RefreshCursor([RecordPointerMotion(SeatMotion(x, target), w, target) EXCEPT !.inside = inside])

\* CursorMoved over target, or over no tile of the desktop; a drag stays with its window
CursorMoved(w, target, inside) ==
    /\ w \in seat.visible /\ mouse \in {Nobody, w} /\ (inside \/ use = "locking")
    /\ IF w = Desktop THEN target \in seat.alive \cup {Nobody} ELSE target = w
    /\ Turn(LAMBDA x, ok :
          IF x.nat # NoFocus THEN x
          ELSE PointerMotion(IF x.cursorAt = w THEN x ELSE RefreshCursor(CursorEntersWindow(x, w)),
                             w, target, inside))
    /\ UNCHANGED <<front, focusEvents, down, mouse>>

\* MouseInput: rootless_pointer_button, and the desktop's click to focus; macOS brings a
\* rootless window to the front, and reports the motion, before it reports the click
ButtonPressed(w) ==
    /\ use \in {"typing", "pointing"} /\ w \in seat.visible /\ mouse = Nobody
    /\ seat.cursorAt = w \/ seat.nat # NoFocus
    /\ rootless => seat.focus.owner = w /\ front = w /\ focusEvents = {}
    /\ mouse' = w
    /\ Turn(LAMBDA x, ok :
          LET a == IF w = Desktop /\ front = w THEN SetKeyboardOwner(x, w) ELSE x
              b == [a EXCEPT !.kb = IF w = Desktop THEN x.ptr ELSE w, !.held1 = TRUE]
          IN  IF x.nat # NoFocus /\ x.nat.owner # w THEN x ELSE SeatButton(b, TRUE))
    /\ UNCHANGED <<front, focusEvents, down>>

\* macOS tells the window of the press, if it is still there
ButtonReleased ==
    /\ mouse # Nobody
    /\ mouse' = Nobody
    /\ Turn(LAMBDA x, ok :
          IF mouse \notin x.windows \/ (x.nat # NoFocus /\ x.nat.owner # mouse) THEN x
          ELSE SeatButton([x EXCEPT !.held1 = FALSE], FALSE))
    /\ UNCHANGED <<front, focusEvents, down>>

-----------------------------------------------------------------------------
(***************************************************************************)
(* Trackpad gestures.  Magnification and rotation are one pinch to the     *)
(* client.  "astray": a client was sent a begin inside a gesture, or an    *)
(* update or an end outside of one.                                        *)
(***************************************************************************)
Tell(g, kind, what) ==
    [g EXCEPT !.told = IF what = "begin" THEN @ \cup {kind}
                       ELSE IF what = "end" THEN @ \ {kind} ELSE @,
              !.astray = @ \/ ((kind \in g.told) = (what = "begin"))]

\* finish_pointer_gesture_if_idle and cancel_pointer_gesture
FinishPinch(g) ==
    IF g.pinch /\ ~g.magnify /\ ~g.rotation THEN [Tell(g, "pinch", "end") EXCEPT !.pinch = FALSE]
    ELSE g
CancelPinch(g) == FinishPinch([g EXCEPT !.magnify = FALSE, !.rotation = FALSE])

StartPinch(g, part) ==
    LET h == [g EXCEPT ![part] = TRUE]
    IN  IF h.pinch THEN h ELSE [Tell(h, "pinch", "begin") EXCEPT !.pinch = TRUE]

\* handle_pinch_gesture and handle_rotation_gesture; macOS may leave phases out
PinchGesture(part, phase) ==
    /\ use = "gestures"
    /\ gesture' = CASE phase = "started" -> StartPinch(gesture, part)
                    [] phase = "moved" ->
                          LET g == IF gesture[part] THEN gesture ELSE StartPinch(gesture, part)
                          IN  Tell(g, "pinch", "update")
                    [] phase = "ended" -> FinishPinch([gesture EXCEPT ![part] = FALSE])
                    [] phase = "cancelled" -> CancelPinch(gesture)
    /\ UNCHANGED <<rootless, use, seat, front, focusEvents, down, mouse, refusals>>

StartSwipe(g) ==
    LET h == IF g.swipe THEN Tell(g, "swipe", "end") ELSE g
    IN  [Tell(h, "swipe", "begin") EXCEPT !.swipe = TRUE]

\* handle_swipe_gesture
SwipeGesture(phase) ==
    /\ use = "gestures"
    /\ gesture' = CASE phase = "started" -> StartSwipe(gesture)
                    [] phase = "moved" ->
                          Tell(IF gesture.swipe THEN gesture ELSE StartSwipe(gesture),
                               "swipe", "update")
                    [] OTHER -> IF gesture.swipe
                                THEN [Tell(gesture, "swipe", "end") EXCEPT !.swipe = FALSE]
                                ELSE gesture
    /\ UNCHANGED <<rootless, use, seat, front, focusEvents, down, mouse, refusals>>

-----------------------------------------------------------------------------
(***************************************************************************)
(* Requests of clients.  AboutToWait and the readiness wake dispatch them, *)
(* reconcile the lock and refresh the cursor.                              *)
(***************************************************************************)
Dispatch(H(_)) ==
    LET After(ok) == RefreshCursor(Reconcile(H(seat), ok))
    IN  /\ \/ seat' = After(TRUE) /\ UNCHANGED refusals
           \/ /\ use = "locking" /\ refusals < MaxRefusals /\ After(FALSE) # After(TRUE)
              /\ seat' = After(FALSE) /\ refusals' = refusals + 1
        /\ UNCHANGED <<rootless, use, front, focusEvents, down, mouse>>

\* nothing asked for: the turn only retries what was refused
AboutToWait == Dispatch(LAMBDA x : x) /\ UNCHANGED gesture

\* a toplevel with its first buffer; in rootless mode its window opens
ClientMaps(s) ==
    /\ use # "locking" /\ s \notin seat.alive /\ (rootless => s \notin seat.windows)
    /\ Dispatch(LAMBDA x :
          [x EXCEPT !.alive = @ \cup {s}, !.mapped = @ \cup {s},
                    !.windows = IF rootless THEN @ \cup {s} ELSE @,
                    !.visible = IF rootless THEN @ \cup {s} ELSE @])
    /\ UNCHANGED gesture

\* commit: a buffer or none, a new place in its tree, a region around the pointer or not
ClientCommits(s, change) ==
    /\ use = "locking" /\ s \in seat.alive /\ (change = "no buffer" => OthersThere({s}))
    /\ Dispatch(LAMBDA x :
          [x EXCEPT !.mapped = CASE change = "buffer" -> @ \cup {s}
                                 [] change = "no buffer" -> @ \ {s}
                                 [] OTHER -> @,
                    !.origin = @ /\ ~(change = "place" /\ x.focus.surface = s),
                    !.inside = CASE x.ptr = s /\ change = "around" -> TRUE
                                 [] x.ptr = s /\ change = "apart" -> FALSE
                                 [] OTHER -> @])
    /\ UNCHANGED gesture

\* new_constraint: smithay allows one for a surface and its pointer
ClientConstrains(s, kind) ==
    /\ use = "locking" /\ s \in seat.alive /\ seat.cons[s] = "none"
    /\ Dispatch(LAMBDA x : [x EXCEPT !.cons[s] = kind, !.pending = TRUE])
    /\ UNCHANGED gesture

\* the constraint object is destroyed, perhaps with its replacement in the same dispatch
ClientUnconstrains(s, kind) ==
    /\ seat.cons[s] # "none"
    /\ Dispatch(LAMBDA x :
          [x EXCEPT !.cons[s] = kind, !.active = @ \ {s},
                    !.pending = @ \/ kind # "none"])
    /\ UNCHANGED gesture

\* set_cursor, which smithay takes from the client under the pointer only
ClientSetsCursor(image) ==
    /\ use = "pointing" /\ seat.ptr # Nobody
    /\ Dispatch(LAMBDA x : SetImage(x, image))
    /\ UNCHANGED gesture

\* remove_surface_from_scene; the surface takes its constraint with it
SurfaceGone(x, s) ==
    LET a == [x EXCEPT !.alive = @ \ {s}, !.mapped = @ \ {s}, !.cons[s] = "none",
                       !.active = @ \ {s},
                       !.focus = IF @.surface = s THEN NoFocus ELSE @,
                       !.pending = @ \/ x.focus.surface = s]
        b == IF a.ptr = s THEN ClearPointerFocus(CursorLeaves(a)) ELSE a
    IN  [RefreshCursor(b) EXCEPT !.kb = IF @ = s THEN Nobody ELSE @]

ClientDestroys(s) ==
    /\ s \in seat.alive /\ OthersThere({s})
    /\ Dispatch(LAMBDA x : SurfaceGone(x, s))
    /\ gesture' = IF seat.ptr = s THEN CancelPinch(gesture) ELSE gesture

\* RootlessToplevelDestroyed, and the native Destroyed
WindowGone(w) ==
    /\ rootless /\ w \in seat.windows /\ w \notin seat.alive
    /\ Turn(LAMBDA x, ok :
          [RetireInputWindow(x, w, ok) EXCEPT !.windows = @ \ {w}, !.visible = @ \ {w}])
    /\ front' = IF front = w THEN Nobody ELSE front
    /\ focusEvents' = {e \in focusEvents : e.win # w}
    /\ UNCHANGED <<down, mouse>>

-----------------------------------------------------------------------------
InputNext ==
    \/ \E w \in AllWindows \cup {Nobody} : FocusMoves(w)
    \/ \E w \in AllWindows :
          \/ Focused(w) \/ Unfocused(w) \/ WindowHides(w) \/ WindowShows(w) \/ WindowResizes(w)
          \/ CursorEntered(w) \/ CursorLeft(w) \/ ButtonPressed(w) \/ WindowGone(w)
          \/ \E s \in Surfaces \cup {Nobody}, inside \in BOOLEAN : CursorMoved(w, s, inside)
    \/ \E k \in Keys : KeyPressed(k) \/ KeyReleased(k)
    \/ ButtonReleased
    \/ \E s \in Surfaces :
          \/ ClientMaps(s) \/ ClientDestroys(s)
          \/ \E kind \in Kinds[s] : ClientConstrains(s, kind) \/ ClientUnconstrains(s, kind)
          \/ ClientUnconstrains(s, "none")
          \/ \E change \in {"buffer", "no buffer", "place", "around", "apart"} :
                ClientCommits(s, change)
    \/ \E image \in {"default", "hidden"} : ClientSetsCursor(image)
    \/ \E phase \in {"started", "moved", "ended", "cancelled"} :
          \/ SwipeGesture(phase)
          \/ \E part \in {"magnify", "rotation"} : PinchGesture(part, phase)
    \/ AboutToWait

InputSpec == InputInit /\ [][InputNext]_inputVars

-----------------------------------------------------------------------------
(***************************************************************************)
(* Properties.                                                             *)
(***************************************************************************)
\* A lock that a client believes in force is backed by the native grab of the window that
\* has the keyboard, over the surface under the pointer; and a cursor that is taken, unless
\* macOS refused to give it back, is taken for such a lock, whatever clients and windows did
\* (reconcile_pointer_lock, release_pointer_lock).
LockBacked ==
    /\ \A s \in seat.active :
          /\ seat.taken /\ seat.status = "locked"
          /\ seat.nat = [owner |-> WindowOf(s), surface |-> s] /\ seat.focus = seat.nat
          /\ seat.ptr = s
    /\ seat.taken => seat.nat # NoFocus
    /\ seat.taken /\ seat.status # "stuck" =>
          /\ seat.nat.surface \in seat.active \cap seat.mapped \cap seat.alive
          /\ seat.nat.owner = seat.keyOwner /\ seat.nat.owner \in seat.visible

\* A key that clients see as pressed is physically down, or a loss of focus that releases it
\* is on its way: a release that goes to another window cannot leave it stuck
\* (KeyTransitionReducer, set_keyboard_owner, retire_input_window).
NoStuckKeys ==
    /\ seat.held = seat.pressed
    /\ seat.pressed # {} => seat.keyOwner # Nobody
    /\ seat.pressed \subseteq down \/ \E e \in focusEvents : ~e.gained /\ e.win = seat.keyOwner

\* A click grab ends with the button: only the press in a window that is gone by the
\* time of the release leaves one behind, and only where no surface had the pointer
\* (clear_pointer_focus, PointerInput::take_buttons).
NoStuckButtons ==
    /\ seat.held1 = seat.pressed1
    /\ seat.pressed1 <=> seat.grab # "off"
    /\ mouse = Nobody /\ seat.pressed1 => seat.grab = Nobody

\* The cursor is hidden only inside the content of a window on the screen, for a lock in
\* force there or at the wish of the client that is under the pointer (NativeCursor).
CursorShown ==
    seat.hidden => /\ seat.cursorAt \in seat.visible
                   /\ seat.ptr # Nobody
                   /\ LockInForce(seat) \/ (seat.image = "hidden" /\ seat.imageBy = seat.ptr)

\* A key press goes to a surface of the window it was typed into
\* (activate_toplevel, forward_keyboard_event).
TypedWhereSeen ==
    [][seat'.pressed \ seat.pressed # {} => WindowOf(seat'.kb) = front]_inputVars

\* Whatever phases the trackpad leaves out and whenever a surface goes away, clients see
\* every gesture begin once, and end once (handle_pinch_gesture, handle_rotation_gesture,
\* handle_swipe_gesture, cancel_pointer_gesture).
GesturesNest ==
    /\ ~gesture.astray
    /\ "pinch" \in gesture.told <=> gesture.magnify \/ gesture.rotation
    /\ "swipe" \in gesture.told <=> gesture.swipe

\* A cursor that macOS refused to give back is asked for again in every turn of the loop,
\* whatever event the turn is about, until macOS gives it back (PointerInput::released keeps
\* the owner, and reconcile_pointer_lock runs before and after each event).
RetriedEachTurn ==
    [][seat.status = "stuck" /\ seat' # seat /\ seat'.visible \subseteq seat.visible
         => seat'.status # "stuck" \/ refusals' # refusals]_inputVars

\* Whatever clients, windows and macOS do, no lock, key, button, cursor or gesture is left
\* behind in a state that nothing ends.
InputInvariant ==
    /\ InputTypeOK
    /\ LockBacked
    /\ NoStuckKeys
    /\ NoStuckButtons
    /\ CursorShown
    /\ GesturesNest

\* A key press goes to the window it was typed into, and a cursor that macOS keeps is asked for
\* again in every turn.
InputSteps == TypedWhereSeen /\ RetriedEachTurn
=============================================================================
