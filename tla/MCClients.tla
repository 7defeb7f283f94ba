------------------------------ MODULE MCClients ------------------------------
(***************************************************************************)
(* Two services the Wayland clients depend on, one part at a time: the     *)
(* Wayland source when it fails or is stopped, and the clipboard.  The     *)
(* part that is not explored keeps its initial state.                      *)
(***************************************************************************)
EXTENDS WaylandSource, Clipboard

VARIABLE part

Failing == {[requests |-> 0, fails |-> TRUE]}
Copied ==
    {[text |-> NoClip, form |-> "tiff"], [text |-> "host text", form |-> "tiff"],
     [text |-> "host text", form |-> "png"]}

MCInit == part \in {"wayland", "clipboard"} /\ Init /\ ClipboardInit
MCNext ==
    \/ part = "wayland" /\ Next /\ UNCHANGED <<part, load, clipboardVars>>
    \/ part = "clipboard" /\ ClipboardNext /\ UNCHANGED <<part, load, vars>>
MCSpec ==
    /\ MCInit /\ [][MCNext]_<<part, load, vars, clipboardVars>>
    /\ WF_vars(part = "wayland" /\ ThreadStep) /\ WF_vars(part = "wayland" /\ LoopStep)
    /\ SF_vars(part = "wayland" /\ HandleUser) /\ SF_vars(part = "wayland" /\ HandleAboutToWait)
    /\ SF_vars(part = "wayland" /\ ServeClient(FALSE))
    /\ SF_vars(part = "wayland" /\ QueueReadyClients /\ Readable \subseteq InRotation')
    /\ ClipboardFairness
==============================================================================
