----------------------------- MODULE MCTransport -----------------------------
(***************************************************************************)
(* What comes into a loop over poll from outside, each way explored in a   *)
(* part of its own: the Wayland socket (WaylandSource), the relay of an    *)
(* Apple Container (Relay) and the requests to research_mcp (ResearchMcp). *)
(* The other parts keep their initial state.                               *)
(***************************************************************************)
EXTENDS WaylandSource, Relay, ResearchMcp

VARIABLE part

MCLoads == {[requests |-> 2, fails |-> TRUE]}

\* A helper is launched and stopped while another runs; a session is initialized anew while a
\* helper runs; tools come too early; a line is blank, is no request, or is longer than a frame.
Say(kind) == <<[kind |-> kind, profile |-> NoChild]>>
Call(kind, p) == <<[kind |-> kind, profile |-> p]>>
Start == <<Say("initialize"), Say("initialized")>>
Silence == <<>>
MCConversations ==
    UNION {{Silence,
            Start \o <<Call("launch", g), Call("launch", t), Call("stop", g)>>,
            Start \o <<Call("launch", t), Say("initialize"), Call("stop", t)>>,
            <<Say("initialized"), Say("status"), <<>>, Say("junk"), Say("junk") \o Say("junk")>>} :
             g \in Gui, t \in Selftest}

MCInit ==
    /\ part \in {"wayland", "relay", "research"} /\ Init /\ RelayInit /\ ResearchInit
    /\ part # "relay" => guestPump.program = "stdio"
    /\ part # "research" => session.enabled /\ client.said = Silence
MCNext ==
    \/ part = "wayland" /\ Next /\ UNCHANGED <<part, load, relayVars, researchVars>>
    \/ part = "relay" /\ RelayNext /\ UNCHANGED <<part, load, vars, researchVars>>
    \/ part = "research" /\ ResearchNext /\ UNCHANGED <<part, load, vars, relayVars>>
MCSpec == MCInit /\ [][MCNext]_<<part, load, vars, relayVars, researchVars>>
=============================================================================
