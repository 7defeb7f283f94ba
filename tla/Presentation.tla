----------------------------- MODULE Presentation -----------------------------
(***************************************************************************)
(* What clients show and where: the xdg roles a client creates, destroys   *)
(* and creates again on its surfaces, the scene of AppState, the channel   *)
(* of CompositorMessages, and the native windows of the UI loop (state.rs, *)
(* main.rs, presentation.rs, layout.rs, desktop_background.rs).            *)
(*                                                                         *)
(* One process either tiles its clients in one desktop window or gives     *)
(* each toplevel a native window of its own (PresentationMode).  Protocol  *)
(* handlers and the loop run on one thread, and a destructor calls its     *)
(* handler at once, but what a handler has to say to the loop is queued    *)
(* behind other messages, and a renderer draws when its window is asked    *)
(* to.  Every native window has a renderer with textures of its own.       *)
(*                                                                         *)
(* A surface stands for its tree of subsurfaces, and positions have one    *)
(* dimension in which 1 is the 100 pixels of the narrowest tile.  Clients  *)
(* keep to xdg-shell: one role object on a surface at a time, and popups   *)
(* only on surfaces that are shown.  Uploads, frame callbacks and the      *)
(* readiness of a renderer are in Rendering, focus and drags in Input.     *)
(***************************************************************************)
EXTENDS Integers, FiniteSets, Sequences, SequencesExt, FiniteSetsExt

CONSTANTS
    TopSurfaces,    \* surfaces that take xdg_toplevel roles
    PopSurfaces,    \* surfaces that take xdg_popup roles
    Places,         \* the positions a client or a drag may name
    Width,          \* surface -> its logical width
    Views,          \* the widths of the desktop window
    MaxRoles,       \* bound: surface -> roles it is given, one after the other
    MaxEvents,      \* bound: state requests, the user's actions, and failures
    MaxInbox,       \* bound: messages queued for the loop before a client's request
    NoParent

Surfaces == TopSurfaces \cup PopSurfaces
Roles == UNION {{s} \X (1 .. MaxRoles[s]) : s \in TopSurfaces}

ASSUME PresentationAssumption ==
    /\ IsFiniteSet(Surfaces) /\ TopSurfaces \cap PopSurfaces = {}
    /\ MaxRoles \in [Surfaces -> Nat] /\ MaxEvents \in Nat /\ MaxInbox \in Nat
    /\ Places \subseteq Nat /\ Width \in [Surfaces -> Nat \ {0}]
    /\ Views # {} /\ Views \subseteq Nat \ {0} /\ NoParent \notin Surfaces

VARIABLES
    rootless,  \* PresentationMode, fixed at startup
    objects,   \* surface -> [alive, role: the number of its live role or 0, made, fresh: the
               \* buffer committed and not yet taken by a renderer, conf: the place last
               \* configured, at: the committed popup place or toplevel geometry.loc]
    scene,     \* AppState: toplevels, popups, tiles, view_size, dirty surfaces,
               \* needs_redraw, the popups dismissed and the messages sent
    told,      \* toplevel role -> the maximized and full-screen states configured
    closing,   \* toplevel roles sent a close
    windows,   \* the native windows of rootless_windows
    lost,      \* toplevel roles whose native window was destroyed by the system
    desk,      \* the desktop window
    events     \* state requests, user actions and failures so far

presentationVars == <<rootless, objects, scene, told, closing, windows, lost, desk, events>>

-----------------------------------------------------------------------------
(* The scene.                                                               *)

NoStates == [max |-> FALSE, full |-> FALSE]
RoleOf(t) == <<t.s, t.g>>
AliveRole(r) == objects[r[1]].alive /\ objects[r[1]].role = r[2]

OpenOn(pp, s) == {i \in DOMAIN pp : pp[i].s = s}
ParentOf(pp, s) == LET open == OpenOn(pp, s) IN IF open = {} THEN NoParent ELSE pp[Min(open)].up

\* surface_ancestor_chain: the surface, its parent if it is an open popup, and so on.
\* A popup is not opened below itself, so the chain ends within the popups there are.
Chain(pp, s) ==
    LET at[n \in 0 .. Len(pp)] ==
          IF n = 0 THEN s
          ELSE IF at[n - 1] = NoParent THEN NoParent ELSE ParentOf(pp, at[n - 1])
    IN  {at[n] : n \in 0 .. Len(pp)} \ {NoParent}

OnTop(pp, s) == LET up == Chain(pp, s) IN CHOOSE t \in up : ParentOf(pp, t) \notin up
Toplevels(sc) == {t.s : t \in sc.toplevels}

\* root_toplevel_id_for_surface: a set of at most one surface.
RootOf(sc, s) == {OnTop(sc.popups, s)} \cap Toplevels(sc)

\* The popups that remove_surface_from_scene takes with the surface.
\* Mutated form: only those opened on the surface itself.
DirectlyBelow(pp, s) == {p \in Range(pp) : p.s = s \/ p.up = s}
Below(pp, s) == {p \in Range(pp) : s \in Chain(pp, p.s)}

\* relayout: equal columns, never narrower than 100 logical pixels.
Relayout(tiles, view) ==
    [i \in DOMAIN tiles |-> [tiles[i] EXCEPT !.x = (i - 1) * Max({view \div Len(tiles), 1})]]
AddTile(sc, t) == Relayout(Append(sc.tiles, [s |-> t.s, g |-> t.g, x |-> 0]), sc.view)
RemoveTile(sc, s) ==
    LET left == SelectSeq(sc.tiles, LAMBDA t : t.s # s)
    IN  IF Len(left) = Len(sc.tiles) THEN sc.tiles ELSE Relayout(left, sc.view)

\* remove_surface_from_scene asks whose picture changes before the role goes.
Unmap(sc, s, wasTop) ==
    LET gone == {p.s : p \in Below(sc.popups, s)} \cup {s}
        dirty == IF ~rootless THEN sc.dirty
                 ELSE IF wasTop THEN sc.dirty \ {s} ELSE sc.dirty \cup RootOf(sc, s)
    IN  [sc EXCEPT
           !.toplevels = {t \in @ : t.s # s},
           !.tiles = RemoveTile(sc, s),
           !.popups = SelectSeq(@, LAMBDA p : p.s \notin gone),
           !.dismissed = @ \cup {RoleOf(p) : p \in
                            {q \in Below(sc.popups, s) : q.s # s /\ AliveRole(RoleOf(q))}},
           !.dirty = dirty,
           !.redraw = IF rootless THEN dirty # {} ELSE TRUE,
           !.inbox = IF rootless /\ wasTop THEN Append(@, [m |-> "Destroyed", s |-> s]) ELSE @]

Send(sc, msg) == [sc EXCEPT !.inbox = Append(@, msg)]
Repaint(sc, s) == [sc EXCEPT !.dirty = IF rootless THEN @ \cup RootOf(sc, s) ELSE @,
                             !.redraw = @ \/ ~rootless \/ RootOf(sc, s) # {}]
Event == events < MaxEvents /\ events' = events + 1
InboxRoom == Len(scene.inbox) < MaxInbox

PresentationInit ==
    /\ rootless \in BOOLEAN
    /\ objects = [s \in Surfaces |-> [alive |-> TRUE, role |-> 0, made |-> 0, fresh |-> "none",
                                      conf |-> 0, at |-> 0]]
    /\ scene = [toplevels |-> {}, popups |-> <<>>, tiles |-> <<>>, view |-> Min(Views),
                dirty |-> {}, redraw |-> TRUE, dismissed |-> {}, inbox |-> <<>>]
    /\ told = [r \in Roles |-> NoStates]
    /\ closing = {} /\ windows = <<>> /\ lost = {}
    /\ desk \in [asked : {FALSE}, waiting : {FALSE}, cache : {{}}, picture : {<<>>}, laid : {0},
                 shown : {FALSE, ~rootless}, reveal : {~rootless}, full : {FALSE},
                 background : {FALSE}]
    /\ events = 0

-----------------------------------------------------------------------------
(* Clients.                                                                 *)

NewRole(s, place) ==
    /\ objects[s].alive /\ objects[s].role = 0 /\ objects[s].made < MaxRoles[s]
    /\ objects' = [objects EXCEPT ![s].role = objects[s].made + 1, ![s].made = @ + 1,
                                  ![s].conf = place, ![s].at = IF s \in PopSurfaces THEN 0 ELSE @]

\* new_toplevel: a role the surface still has in the scene goes first.
NewToplevel(s) ==
    /\ s \in TopSurfaces /\ InboxRoom /\ NewRole(s, 0)
    /\ LET new == [s |-> s, g |-> objects[s].made + 1]
           was == IF s \in Toplevels(scene) THEN Unmap(scene, s, TRUE) ELSE scene
           into == [was EXCEPT !.toplevels = @ \cup {new}, !.redraw = TRUE,
                               !.dirty = IF rootless THEN @ \cup {s} ELSE @,
                               !.tiles = IF rootless THEN @ ELSE AddTile(was, new)]
       IN  scene' = Send(into, [m |-> IF rootless THEN "Created" ELSE "DesktopCreated", s |-> s])
    /\ UNCHANGED <<rootless, told, closing, windows, lost, desk, events>>

\* A surface of the scene, and not one below the popup: what a client may open it on.
Parents(s) == (Toplevels(scene) \cup {p.s : p \in Range(scene.popups)})
                \ ({s} \cup {p.s : p \in Below(scene.popups, s)})
ShownRole(sc, s) == IF s \in Toplevels(sc) THEN (CHOOSE t \in sc.toplevels : t.s = s).g
                    ELSE sc.popups[Min(OpenOn(sc.popups, s))].g

\* new_popup.  A new role can always be configured; it takes its place when the client
\* commits, and is at the origin of its parent until then.
NewPopup(s, up, place) ==
    /\ s \in PopSurfaces /\ up \in Parents(s) /\ NewRole(s, place)
    /\ LET was == IF OpenOn(scene.popups, s) = {} THEN scene ELSE Unmap(scene, s, FALSE)
           into == [was EXCEPT !.popups = Append(@, [s |-> s, g |-> objects[s].made + 1, up |-> up,
                                                     over |-> ShownRole(was, up)])]
       IN  scene' = [Repaint(into, up) EXCEPT !.redraw = TRUE]
    /\ UNCHANGED <<rootless, told, closing, windows, lost, desk, events>>

\* What was sent to a role ends with it.
Forget(s) ==
    /\ told' = [r \in Roles |-> IF r = <<s, objects[s].role>> THEN NoStates ELSE told[r]]
    /\ UNCHANGED <<rootless, closing, windows, lost, desk, events>>
Unsaid(sc, s) == [sc EXCEPT !.dismissed = @ \ {<<s, objects[s].role>>}]

\* The client destroys a role: toplevel_destroyed and popup_destroyed.  A role that is not in
\* the scene any more, a dismissed popup, leaves it as it is.
RoleInScene(r) == r \in {RoleOf(t) : t \in scene.toplevels \cup Range(scene.popups)}

DestroyRole(s) ==
    /\ objects[s].role # 0 /\ InboxRoom
    /\ objects' = [objects EXCEPT ![s].role = 0, ![s].conf = 0]
    /\ scene' = IF RoleInScene(<<s, objects[s].role>>)
                THEN Unmap(scene, s, s \in TopSurfaces) ELSE Unsaid(scene, s)
    /\ Forget(s)

\* CompositorHandler::destroyed.  A role that the client has left on the surface, as a client
\* that disconnects does, ends after it and finds nothing in the scene.
DestroySurface(s) ==
    /\ objects[s].alive /\ InboxRoom
    /\ objects' = [objects EXCEPT ![s].alive = FALSE, ![s].role = 0, ![s].conf = 0,
                                  ![s].fresh = "none"]
    /\ scene' = Send(Unsaid(Unmap(scene, s, s \in Toplevels(scene)), s),
                     [m |-> "SurfaceDestroyed", s |-> s])
    /\ Forget(s)

\* commit: with a buffer, with its removal or with neither; a popup takes the place it was
\* configured once it has acknowledged it, a toplevel sets its own geometry.
Commit(s, buffer, at) ==
    /\ objects[s].alive
    /\ at \in {objects[s].at} \cup (IF s \in PopSurfaces THEN {objects[s].conf} ELSE Places)
    /\ objects' = [objects EXCEPT ![s].fresh = IF buffer = "none" THEN @ ELSE buffer,
                                  ![s].at = at]
    /\ scene' = Repaint(scene, s)
    /\ UNCHANGED <<rootless, told, closing, windows, lost, desk, events>>

\* reposition_request.
RepositionRequest(s, place) ==
    /\ objects[s].role # 0 /\ s \in PopSurfaces
    /\ objects' = [objects EXCEPT ![s].conf = place]
    /\ scene' = [Repaint(scene, s) EXCEPT !.redraw = TRUE]
    /\ UNCHANGED <<rootless, told, closing, windows, lost, desk, events>>

\* maximize_request, fullscreen_request and their opposites: the client is told at once,
\* the native window is asked later.
StateRequest(s, state, on) ==
    /\ s \in TopSurfaces /\ objects[s].role # 0 /\ InboxRoom /\ Event
    /\ told' = [told EXCEPT ![<<s, objects[s].role>>] = [@ EXCEPT ![state] = on]]
    /\ scene' = Send(scene, [m |-> state, s |-> s, on |-> on])
    /\ UNCHANGED <<rootless, objects, closing, windows, lost, desk>>

-----------------------------------------------------------------------------
(* Drawing and pointing.  Both walk the same list, from its two ends.       *)

\* popup_root_and_location: the popups drawn over a toplevel, and where.
AliveChain(pp, s) == \A t \in Chain(pp, s) : objects[t].alive
ShownOver(pp, s) == SelectSeq(pp, LAMBDA p : /\ AliveRole(RoleOf(p)) /\ AliveChain(pp, p.s)
                                             /\ OnTop(pp, p.s) = s)
Offset(pp, s) == FoldSet(LAMBDA t, sum : sum + objects[t].at, 0, Chain(pp, s) \ {OnTop(pp, s)})

\* render_toplevel_popups and render_toplevel_tree: what is drawn, back to front.
PopupLayers(s, x) ==
    LET pp == ShownOver(scene.popups, s)
    IN  [i \in DOMAIN pp |-> [s |-> pp[i].s, at |-> x + Offset(scene.popups, pp[i].s)]]
Layers(s, x) == <<[s |-> s, at |-> x - objects[s].at]>> \o PopupLayers(s, x)
TileLayers(tiles) == FlattenSeq([i \in DOMAIN tiles |-> Layers(tiles[i].s, tiles[i].x)])

\* render_surface_tree: a new buffer is uploaded, put off or refused, a removed one evicts the
\* texture, and a surface without either is drawn from the cache of the renderer.
With(layers, fresh) == {l.s : l \in Range(layers)} \cap {s \in Surfaces : objects[s].fresh = fresh}
Textures(cache, layers, uploaded) == (cache \ With(layers, "removed")) \cup uploaded
Drawn(layers, cache) == SelectSeq(layers, LAMBDA l : l.s \in cache)
Taken(layers, held) ==
    [s \in Surfaces |-> IF s \in With(layers, "removed") \cup (With(layers, "new") \ held)
                        THEN [objects[s] EXCEPT !.fresh = "none"] ELSE objects[s]]

\* surface_tree_hit: a surface takes the pointer when its texture is cached.
Covers(cache, s, at, x) == s \in cache /\ at <= x /\ x < at + Width[s]

\* toplevel_surface_under_with_sizes: the popups over it from the last to the first, then the
\* tree of the toplevel.
Under(over, t, x, cache, point) ==
    LET hit == {i \in DOMAIN over : Covers(cache, over[i].s, over[i].at, point)}
    IN  IF ~AliveRole(RoleOf(t)) THEN {}
        ELSE IF hit # {} THEN {over[Max(hit)].s}
        ELSE IF Covers(cache, t.s, x - objects[t.s].at, point) THEN {t.s} ELSE {}

\* desktop_surface_under: the tiles from the last to the first.
DesktopUnder(over, point) ==
    LET under(i) == Under(over[i], scene.tiles[i], scene.tiles[i].x, desk.cache, point)
        hit == {i \in DOMAIN scene.tiles : under(i) # {}}
    IN  IF hit = {} THEN {} ELSE under(Max(hit))

-----------------------------------------------------------------------------
(* The loop: messages.                                                      *)

IndexOf(s) == {i \in DOMAIN windows : windows[i].s = s}
Head1 == Head(scene.inbox)
Got(m) == scene.inbox # <<>> /\ Head1.m = m
Rest == [scene EXCEPT !.inbox = Tail(@)]

\* set_maximized and set_fullscreen; the system reports the new size later.
SetState(w, state, on) == [w EXCEPT ![state] = on, !.resized = @ \/ w[state] # on]

\* configure_toplevel: a role that is gone is told nothing.
Configure(w, states) == [told EXCEPT ![RoleOf(w)] = IF AliveRole(RoleOf(w)) THEN states ELSE @]
StatesOf(w) == [max |-> w.max, full |-> w.full]

NewWindow(t) ==
    [s |-> t.s, g |-> t.g, seen |-> FALSE, shown |-> TRUE, max |-> FALSE, full |-> FALSE,
     resized |-> FALSE, deferred |-> FALSE, asked |-> TRUE, waiting |-> FALSE, cache |-> {},
     picture |-> <<>>]

\* RootlessToplevelCreated: the toplevel the surface has by now gets a window; when the
\* system gives none the client is asked to close.
Created ==
    /\ Got("Created")
    /\ UNCHANGED <<rootless, objects, lost, desk>>
    /\ IF IndexOf(Head1.s) # {} \/ Head1.s \notin Toplevels(scene)
       THEN scene' = Rest /\ UNCHANGED <<told, closing, windows, events>>
       ELSE LET t == CHOOSE u \in scene.toplevels : u.s = Head1.s
            IN  \/ /\ windows' = Append(windows, NewWindow(t))
                   /\ told' = Configure(t, NoStates)
                   /\ scene' = [Rest EXCEPT !.redraw = TRUE]
                   /\ UNCHANGED <<closing, events>>
                \/ /\ Event
                   /\ closing' = closing \cup {RoleOf(t)}
                   /\ scene' = Rest
                   /\ UNCHANGED <<told, windows>>

\* RootlessToplevelDestroyed.
Destroyed ==
    /\ Got("Destroyed")
    /\ windows' = SelectSeq(windows, LAMBDA w : w.s # Head1.s)
    /\ scene' = Rest
    /\ UNCHANGED <<rootless, objects, told, closing, lost, desk, events>>

\* SurfaceDestroyed: every renderer evicts the texture.
Evict ==
    /\ Got("SurfaceDestroyed")
    /\ windows' = [i \in DOMAIN windows |-> [windows[i] EXCEPT !.cache = @ \ {Head1.s}]]
    /\ desk' = [desk EXCEPT !.cache = @ \ {Head1.s}]
    /\ scene' = Rest
    /\ UNCHANGED <<rootless, objects, told, closing, lost, events>>

\* RootlessMaximize and RootlessFullscreen: honor_rootless_maximize refuses to maximize a
\* window that has shown nothing, and takes the client's state back.
WindowState(state) ==
    /\ rootless /\ Got(state)
    /\ scene' = Rest
    /\ UNCHANGED <<rootless, objects, closing, lost, desk, events>>
    /\ IF IndexOf(Head1.s) = {} THEN UNCHANGED <<told, windows>>
       ELSE LET i == Min(IndexOf(Head1.s))
                w == windows[i]
            IN  IF state = "max" /\ Head1.on /\ ~w.seen
                THEN /\ told' = Configure(w, NoStates)
                     /\ windows' = [windows EXCEPT ![i].deferred = TRUE]
                ELSE /\ windows' = [windows EXCEPT ![i] = SetState(@, state, Head1.on)]
                     /\ UNCHANGED told

-----------------------------------------------------------------------------
(* The loop: the desktop window.  In rootless mode it stays hidden and is   *)
(* not drawn.                                                               *)

\* DesktopBackground::restore, which may fail and then changes nothing.
Restored == {desk, [desk EXCEPT !.background = FALSE]}

\* Maximize and Fullscreen change the desktop window, whose states no client is told, once it
\* has left the background.
DesktopState(state) ==
    /\ ~rootless /\ Got(state)
    /\ \E d \in Restored :
          /\ IF d.background THEN Event ELSE UNCHANGED events
          /\ desk' = IF d.background THEN d
                     ELSE [d EXCEPT !.full = IF state = "full" THEN Head1.on ELSE @]
    /\ scene' = Rest
    /\ UNCHANGED <<rootless, objects, told, closing, windows, lost>>

\* DesktopToplevelCreated shows the window to the first client.
DesktopToplevelCreated ==
    /\ Got("DesktopCreated")
    /\ desk' = [desk EXCEPT !.shown = @ \/ desk.reveal, !.reveal = FALSE]
    /\ scene' = [Rest EXCEPT !.redraw = @ \/ desk.reveal]
    /\ UNCHANGED <<rootless, objects, told, closing, windows, lost, events>>

\* ShowDefaultDisplay, HideDefaultDisplay and the close button.
ShowDesktop(on) ==
    /\ ~rootless /\ Event
    /\ desk' \in {[d EXCEPT !.shown = on, !.reveal = FALSE] : d \in Restored}
    /\ UNCHANGED <<rootless, objects, scene, told, closing, windows, lost>>

\* DesktopBackground::toggle: prepare_entry refuses a window in full screen, and the user
\* may decline.
MayEnter(d) == ~d.full
Toggled == IF desk.background THEN Restored
           ELSE {desk} \cup {d \in {[desk EXCEPT !.background = TRUE]} : MayEnter(d)}

\* ToggleDesktopBackground.
ToggleDesktopBackground ==
    /\ ~rootless /\ Event
    /\ desk' \in Toggled
    /\ scene' = [scene EXCEPT !.redraw = TRUE]
    /\ UNCHANGED <<rootless, objects, told, closing, windows, lost>>

\* RestoreDesktopWindow, and a launch that shows the default display, which leaves the
\* background to itself.
RevealDesktop ==
    /\ ~rootless /\ Event
    /\ desk' \in {[d EXCEPT !.shown = TRUE] : d \in Restored}
    /\ scene' = [scene EXCEPT !.redraw = TRUE]
    /\ UNCHANGED <<rootless, objects, told, closing, windows, lost>>

\* Event::Suspended.
Suspended ==
    /\ desk.background /\ Event
    /\ desk' \in {[d EXCEPT !.shown = FALSE] : d \in Restored}
    /\ UNCHANGED <<rootless, objects, scene, told, closing, windows, lost>>

\* Resized and ScaleFactorChanged of the desktop window.
DesktopResized(view) ==
    /\ ~rootless /\ Event
    /\ desk' = [desk EXCEPT !.waiting = FALSE]
    /\ scene' = [scene EXCEPT !.view = view, !.tiles = Relayout(@, view), !.redraw = TRUE]
    /\ UNCHANGED <<rootless, objects, told, closing, windows, lost>>

\* CursorMoved while a client has its tile dragged: move_tile.
DragTile(i, x) ==
    /\ Event
    /\ scene' = [scene EXCEPT !.tiles[i].x = x, !.redraw = TRUE]
    /\ UNCHANGED <<rootless, objects, told, closing, windows, lost, desk>>

-----------------------------------------------------------------------------
(* The loop: native window events and redraws.                              *)

\* The user zooms a window or takes it to full screen.
UserChanges(i, state) ==
    /\ Event
    /\ windows' = [windows EXCEPT ![i] = SetState(@, state, ~@[state])]
    /\ UNCHANGED <<rootless, objects, scene, told, closing, lost, desk>>

DirtyWindow(i) == [scene EXCEPT !.dirty = @ \cup {windows[i].s}, !.redraw = TRUE]

\* Resized and ScaleFactorChanged tell the client the window's own states.
Resized(i) ==
    /\ IF windows[i].resized THEN UNCHANGED events ELSE Event
    /\ told' = Configure(windows[i], StatesOf(windows[i]))
    /\ windows' = [windows EXCEPT ![i].resized = FALSE, ![i].deferred = FALSE,
                                  ![i].waiting = FALSE]
    /\ scene' = DirtyWindow(i)
    /\ UNCHANGED <<rootless, objects, closing, lost, desk>>

CloseRequested(i) ==
    /\ Event
    /\ closing' = closing \cup {RoleOf(windows[i])}
    /\ windows' = [windows EXCEPT ![i].shown = FALSE]
    /\ UNCHANGED <<rootless, objects, scene, told, lost, desk>>

WindowDestroyed(i) ==
    /\ Event
    /\ windows' = RemoveAt(windows, i)
    /\ lost' = lost \cup {RoleOf(windows[i])}
    /\ UNCHANGED <<rootless, objects, scene, told, closing, desk>>

\* RedrawRequested, which the system may send unasked, when the renderer is not ready, or
\* when the window has no size or gives no drawable.
RedrawNot(i) ==
    /\ Event
    /\ \E ready \in BOOLEAN :
          windows' = [windows EXCEPT ![i].asked = FALSE, ![i].waiting = ~ready]
    /\ scene' = DirtyWindow(i)
    /\ UNCHANGED <<rootless, objects, told, closing, lost, desk>>

\* render_rootless_window: whatever can be is uploaded, and presented or not.
Render(w, layers, held, refused, presented) ==
    LET cache == Textures(w.cache, layers, With(layers, "new") \ (held \cup refused))
    IN  [w EXCEPT !.cache = cache, !.picture = IF presented THEN Drawn(layers, cache) ELSE @]

\* fit_rootless_window_to_client: the first picture shows the window, which takes the
\* client's size; the system reports a new size later.
FirstFrame(w, fit) == [w EXCEPT !.seen = TRUE, !.shown = TRUE, !.resized = @ \/ fit]

\* RedrawRequested otherwise.  A frame with an upload put off may be presented from the cache
\* but leaves the window waiting for its renderer, and one that is not presented is tried
\* again.
Redraw(i, held, refused, presented) ==
    LET s == windows[i].s
        layers == Layers(s, 0)
        drawn == Render([windows[i] EXCEPT !.asked = FALSE, !.waiting = presented /\ held # {}],
                        layers, held, refused, presented)
        submitted == presented /\ held = {}
        left == scene.dirty \ {s}
    IN  /\ IF submitted /\ refused = {} THEN UNCHANGED events ELSE Event
        /\ held \cup refused \subseteq With(layers, "new") /\ held \cap refused = {}
        /\ \E fit \in BOOLEAN :
              windows' = [windows EXCEPT ![i] =
                            IF submitted /\ ~drawn.seen /\ drawn.picture # <<>>
                            THEN FirstFrame(drawn, fit) ELSE drawn]
        /\ objects' = Taken(layers, held)
        /\ scene' = IF submitted THEN [scene EXCEPT !.dirty = left, !.redraw = left # {}]
                    ELSE DirtyWindow(i)
        /\ UNCHANGED <<rootless, told, closing, lost, desk>>

\* AboutToWait, rootless: a redraw owed to nobody in particular is owed to every window.  The
\* windows whose frame is due and that wait for nothing are asked, and their surfaces are
\* clean.  A window is due for a frame callback too, so a clean one may be asked.
Turn(due) ==
    /\ rootless /\ due \subseteq DOMAIN windows
    /\ \A i \in due : ~windows[i].asked /\ ~windows[i].waiting
    /\ LET dirty == IF scene.redraw /\ scene.dirty = {} THEN {w.s : w \in Range(windows)}
                    ELSE scene.dirty
           left == dirty \ {windows[i].s : i \in due}
       IN  scene' = [scene EXCEPT !.dirty = left, !.redraw = left # {}]
    /\ windows' = [i \in DOMAIN windows |-> [windows[i] EXCEPT !.asked = @ \/ i \in due]]
    /\ UNCHANGED <<rootless, objects, told, closing, lost, desk, events>>

\* The same for the desktop window, which is not clean until it was drawn.
DesktopTurn ==
    /\ ~rootless /\ ~desk.asked /\ ~desk.waiting
    /\ desk' = [desk EXCEPT !.asked = TRUE]
    /\ UNCHANGED <<rootless, objects, scene, told, closing, windows, lost, events>>

\* Its RedrawRequested when the renderer is not ready, when it has no drawable, or when the
\* window has no size.
DesktopRedrawNot ==
    /\ ~rootless /\ Event
    /\ \E ready, sized \in BOOLEAN :
          /\ desk' = [desk EXCEPT !.asked = FALSE, !.waiting = ~ready]
          /\ scene' = [scene EXCEPT !.redraw = @ \/ ~ready \/ sized]
    /\ UNCHANGED <<rootless, objects, told, closing, windows, lost>>

\* Its RedrawRequested otherwise: what has died leaves the scene, and the tiles are laid out
\* again when the window has another size than the last time.
DesktopRedraw(held, refused, presented) ==
    LET living == SelectSeq(scene.tiles, LAMBDA t : objects[t.s].alive)
        tiles == IF desk.laid = scene.view THEN living ELSE Relayout(living, scene.view)
        layers == TileLayers(tiles)
        dead == {t.s : t \in Range(scene.tiles)} \ {t.s : t \in Range(living)}
        cache == Textures(desk.cache \ dead, layers, With(layers, "new") \ (held \cup refused))
    IN  /\ ~rootless
        /\ IF presented /\ held \cup refused = {} THEN UNCHANGED events ELSE Event
        /\ held \cup refused \subseteq With(layers, "new") /\ held \cap refused = {}
        /\ desk' = [desk EXCEPT !.asked = FALSE, !.waiting = presented /\ held # {},
                                !.cache = cache, !.laid = scene.view,
                                !.picture = IF presented THEN Drawn(layers, cache) ELSE @]
        /\ objects' = Taken(layers, held)
        /\ scene' = [scene EXCEPT !.toplevels = {t \in @ : objects[t.s].alive}, !.tiles = tiles,
                                  !.popups = SelectSeq(@, LAMBDA p : objects[p.s].alive),
                                  !.redraw = held # {} \/ ~presented]
        /\ UNCHANGED <<rootless, told, closing, windows, lost>>

States == {"max", "full"}
ClientStep ==
    \/ \E s \in TopSurfaces : NewToplevel(s)
    \/ \E s \in PopSurfaces, up \in Surfaces, place \in Places : NewPopup(s, up, place)
    \/ \E s \in PopSurfaces, place \in Places : RepositionRequest(s, place)
    \/ \E s \in Surfaces : DestroyRole(s) \/ DestroySurface(s)
    \/ \E s \in Surfaces, buffer \in {"none", "new", "removed"}, at \in Places \cup {0} :
         Commit(s, buffer, at)
    \/ \E s \in TopSurfaces, state \in States, on \in BOOLEAN : StateRequest(s, state, on)

DesktopStep ==
    \/ \E state \in States : DesktopState(state)
    \/ DesktopToplevelCreated \/ ToggleDesktopBackground \/ RevealDesktop \/ Suspended
    \/ \E on \in BOOLEAN : ShowDesktop(on)
    \/ \E view \in Views : DesktopResized(view)
    \/ \E i \in DOMAIN scene.tiles, x \in Places : DragTile(i, x)
    \/ DesktopTurn \/ DesktopRedrawNot
    \/ \E held, refused \in SUBSET {s \in Surfaces : objects[s].fresh = "new"},
         presented \in BOOLEAN : DesktopRedraw(held, refused, presented)

WindowStep ==
    \/ Created \/ Destroyed \/ Evict
    \/ \E state \in States : WindowState(state)
    \/ \E i \in DOMAIN windows :
         \/ \E state \in States : UserChanges(i, state)
         \/ Resized(i) \/ CloseRequested(i) \/ WindowDestroyed(i) \/ RedrawNot(i)
         \/ \E held, refused \in SUBSET {s \in Surfaces : objects[s].fresh = "new"},
              presented \in BOOLEAN : Redraw(i, held, refused, presented)
    \/ \E due \in SUBSET DOMAIN windows : Turn(due)

PresentationNext == ClientStep \/ DesktopStep \/ WindowStep

PresentationSpec == PresentationInit /\ [][PresentationNext]_presentationVars

-----------------------------------------------------------------------------
(* Properties.                                                              *)

Queued(m, s) == {i \in DOMAIN scene.inbox : scene.inbox[i].m = m /\ scene.inbox[i].s = s}

\* Messages are handled after the roles they speak of have changed again: still no surface
\* gets two native windows, and a window whose role has left the scene is about to go
\* (main.rs RootlessToplevelCreated and RootlessToplevelDestroyed, state.rs new_toplevel).
WindowsBacked ==
    \A i \in DOMAIN windows :
      /\ \A j \in DOMAIN windows : windows[i].s = windows[j].s => i = j
      /\ \/ \E t \in scene.toplevels : RoleOf(t) = RoleOf(windows[i])
         \/ Queued("Destroyed", windows[i].s) # {}

\* Every toplevel has its window, or the message that makes one is still behind the last one
\* that takes one away, or its client was asked to close, or the system took the window.
ToplevelsShown ==
    rootless =>
      \A t \in scene.toplevels :
        \/ /\ \E i \in DOMAIN windows : RoleOf(windows[i]) = RoleOf(t)
           /\ Queued("Destroyed", t.s) = {}
        \/ \E i \in Queued("Created", t.s) : \A j \in Queued("Destroyed", t.s) : j < i
        \/ RoleOf(t) \in closing \cup lost

\* A popup is in the scene only on the very role it was opened on, never on a replacement
\* (state.rs remove_surface_from_scene takes the popups below before the role goes).
PopupsStand ==
    \A p \in Range(scene.popups) :
      /\ p.up \in Toplevels(scene) \cup {q.s : q \in Range(scene.popups)}
      /\ ShownRole(scene, p.up) = p.over

\* A live role is in the scene; a popup that is not was dismissed (popup_done).
NothingDropsOut ==
    \A s \in Surfaces :
      AliveRole(<<s, objects[s].role>>) /\ objects[s].role # 0 =>
        RoleInScene(<<s, objects[s].role>>) \/ <<s, objects[s].role>> \in scene.dismissed

\* What a window shows is what its clients have committed, or a redraw is owed, whatever was
\* opened, closed, moved, replaced or destroyed since (state.rs needs_redraw and
\* rootless_dirty_surfaces, main.rs AboutToWait and RedrawRequested).
Shows(picture, layers, cache) ==
    /\ picture = Drawn(layers, cache)
    /\ \A l \in Range(layers) : objects[l.s].fresh = "none"

PictureOwed ==
    IF rootless
    THEN \A i \in DOMAIN windows :
           (\E t \in scene.toplevels : RoleOf(t) = RoleOf(windows[i])) =>
             \/ Shows(windows[i].picture, Layers(windows[i].s, 0), windows[i].cache)
             \/ windows[i].s \in scene.dirty \/ windows[i].asked
    ELSE Shows(desk.picture, TileLayers(scene.tiles), desk.cache) \/ scene.redraw

\* When nothing is under way for a window, its client was told the states it has, unless
\* its last request to maximize was put off (presentation.rs honor_rootless_maximize).
StatesTold ==
    rootless =>
      \A i \in DOMAIN windows :
        \/ ~AliveRole(RoleOf(windows[i])) \/ windows[i].resized \/ windows[i].deferred
        \/ \E m \in {"max", "full", "Destroyed"} : Queued(m, windows[i].s) # {}
        \/ told[RoleOf(windows[i])] = StatesOf(windows[i])

\* A native window is hidden only while its client has been asked to close, the desktop
\* window no longer waits for a first client when it has shown one, and it is never in full
\* screen and the desktop's background at once (desktop_background.rs prepare_entry).
HiddenWasAsked ==
    /\ \A i \in DOMAIN windows : windows[i].shown \/ RoleOf(windows[i]) \in closing
    /\ desk.reveal => \A t \in Range(scene.tiles) : Queued("DesktopCreated", t.s) # {}
    /\ ~(desk.background /\ desk.full)

\* The pointer is over what is drawn last where it points
\* (presentation.rs: "Hit the desktop in reverse draw order").
Reach == 0 .. Max(Views) + Max({Width[s] : s \in Surfaces})
Topmost(layers, cache, point) ==
    LET over == {i \in DOMAIN layers : Covers(cache, layers[i].s, layers[i].at, point)}
    IN  IF over = {} THEN {} ELSE {layers[Max(over)].s}

PointerSeesTop ==
    IF rootless
    THEN \A i \in DOMAIN windows : AliveRole(RoleOf(windows[i])) =>
           LET over == PopupLayers(windows[i].s, 0)
               layers == Layers(windows[i].s, 0)
           IN  \A point \in Reach :
                 Under(over, windows[i], 0, windows[i].cache, point)
                   = Topmost(layers, windows[i].cache, point)
    ELSE LET over == [i \in DOMAIN scene.tiles |-> PopupLayers(scene.tiles[i].s, scene.tiles[i].x)]
             layers == TileLayers(scene.tiles)
         IN  \A point \in Reach : DesktopUnder(over, point) = Topmost(layers, desk.cache, point)

\* The tiles are the toplevels of the desktop, each once.
TilesAreToplevels ==
    /\ {RoleOf(t) : t \in Range(scene.tiles)}
         = IF rootless THEN {} ELSE {RoleOf(t) : t \in scene.toplevels}
    /\ \A i, j \in DOMAIN scene.tiles : scene.tiles[i].s = scene.tiles[j].s => i = j

PresentationInvariant ==
    /\ WindowsBacked /\ ToplevelsShown /\ PopupsStand /\ NothingDropsOut /\ PictureOwed
    /\ StatesTold /\ HiddenWasAsked /\ PointerSeesTop /\ TilesAreToplevels
=============================================================================
