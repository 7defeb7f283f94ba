------------------------------- MODULE MCHost -------------------------------
(***************************************************************************)
(* What the program shares with the rest of the host, one part at a time:  *)
(* the keyboard, the pointer and the cursor (Input), the profile file that *)
(* other processes write too (ProfileConfig), the path of the control      *)
(* socket (ControlSocket), and what the panel shows its user of a session  *)
(* and a display (PanelSessions).  The other parts keep their initial      *)
(* state.                                                                  *)
(***************************************************************************)
EXTENDS Input, ProfileConfig, ControlSocket, PanelSessions, TLC

CONSTANTS w1, w2

VARIABLE part

\* w1 asks for locks that last; w2 for confinement on the desktop, and in rootless mode for
\* locks that do not last.
MCKinds == (w1 :> {"lock"}) @@ (w2 :> {"oneshot", "confine"})
MCAsked == \A s \in Surfaces : seat'.cons[s] # IF rootless THEN "confine" ELSE "oneshot"

MCInit ==
    /\ part \in {"input", "profiles", "socket", "sessions"}
    /\ InputInit /\ ProfileConfigInit /\ ControlSocketInit /\ PanelSessionsInit
    /\ part # "input" => rootless /\ use = "typing"
    /\ part # "profiles" => file = NoConfig
    /\ part # "socket" => sockFile = NoSocket
    /\ part # "sessions" => target = "own"
MCNext ==
    \/ part = "input" /\ InputNext /\ MCAsked /\ UNCHANGED <<part, configVars, socketVars, panelVars>>
    \/ part = "profiles" /\ ProfileConfigNext /\ UNCHANGED <<part, inputVars, socketVars, panelVars>>
    \/ part = "socket" /\ ControlSocketNext /\ UNCHANGED <<part, inputVars, configVars, panelVars>>
    \/ part = "sessions" /\ PanelSessionsNext /\ UNCHANGED <<part, inputVars, configVars, socketVars>>
MCSpec == MCInit /\ [][MCNext]_<<part, inputVars, configVars, socketVars, panelVars>>
=============================================================================
