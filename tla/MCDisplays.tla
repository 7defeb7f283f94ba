----------------------------- MODULE MCDisplays -----------------------------
(***************************************************************************)
(* Which display a profile's session gets (Sessions), and what a display   *)
(* shows of its clients (Presentation), one part at a time.  The other     *)
(* part keeps its initial state.  In the part "popups" a client opens and  *)
(* closes popups over one toplevel; in "states" it has no popups, and the  *)
(* user, the system and the client change its window; in "tiles" two       *)
(* toplevels share the desktop.                                            *)
(***************************************************************************)
EXTENDS MCSessions, Presentation

CONSTANTS t1, t2, q1, q2

VARIABLE part

\* The sessions start from two profiles of one identity; an edit gives one of them another.
McShared == {McPair(auto1, auto1)}

MCRoles == [s \in Surfaces |-> IF s = q2 THEN 1 ELSE 2]
MCWidth == [s \in Surfaces |-> IF s = q1 THEN 1 ELSE 2]

MCInit ==
    /\ part \in {"sessions", "popups", "states", "tiles"}
    /\ Init /\ PresentationInit
    /\ part \in {"sessions", "popups"} => rootless
    /\ part = "tiles" => ~rootless
    /\ part # "states" => ~desk.shown

Idle(surfaces) == \A s \in surfaces : objects'[s] = objects[s]
Quiet(surfaces) == \A s \in surfaces : objects'[s].fresh \in {objects[s].fresh, "none"}
Still(surfaces) == \A s \in surfaces : objects'[s].at = 0
Once(surfaces) == \A s \in surfaces : objects'[s].made <= 1
Filled == \A s \in Surfaces : objects'[s].fresh # "removed"
AtOnce(surfaces) ==
    \A s \in surfaces :
      (objects[s].at = 0 /\ objects'[s].at # 0) <=>
        (objects[s].at = 0 /\ objects[s].fresh = "none" /\ objects'[s].fresh = "new")
Done == {s \in Surfaces : objects[s].role = 0}
          \cup desk.cache \cup UNION {w.cache : w \in Range(windows)}

MCNext ==
    /\ UNCHANGED part
    /\ \/ part = "sessions" /\ Next /\ UNCHANGED presentationVars
       \/ /\ part = "popups" /\ UNCHANGED events /\ PresentationNext /\ UNCHANGED vars
          /\ Idle({t2}) /\ Still({t1}) /\ AtOnce(PopSurfaces) /\ Once({t1, q2})
          /\ objects'[q2].alive /\ Filled
          /\ Quiet(Done) /\ Len(scene'.inbox) <= 1
       \/ /\ part = "states" /\ PresentationNext /\ UNCHANGED vars
          /\ Idle(PopSurfaces \cup {t2}) /\ Still({t1})
       \/ /\ part = "tiles" /\ UNCHANGED events /\ PresentationNext /\ UNCHANGED vars
          /\ Idle({q2}) /\ Still(TopSurfaces) /\ AtOnce({q1}) /\ Once(Surfaces) /\ Filled
          /\ Quiet(Done) /\ Len(scene'.inbox) <= 1 /\ \A s \in Surfaces : objects'[s].alive
       \/ /\ part = "tiles" /\ events = 0 /\ UNCHANGED vars
          /\ \/ \E view \in Views : DesktopResized(view)
             \/ \E i \in DOMAIN scene.tiles, x \in Places : DragTile(i, x)

MCSpec == MCInit /\ [][MCNext]_<<part, vars, presentationVars>>
=============================================================================
