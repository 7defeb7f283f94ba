----------------------------- MODULE ControlSocket -----------------------------
(***************************************************************************)
(* How a Cocoa-Way process gets the control socket (start_at) and gives it *)
(* up (remove_socket): it probes the path, unlinks a stale socket and      *)
(* binds, three steps without a lock between processes.                    *)
(***************************************************************************)
EXTENDS Naturals

CONSTANTS Apps,     \* processes that start a control server
          NoSocket  \* the path names nothing

ASSUME ControlSocketAssumption == NoSocket \notin Apps /\ "stale" \notin Apps

VARIABLES
  app,      \* app[a]: the process on its way to a listening server
  sockFile, \* whose socket the path names
  overlap   \* one process probed while another was on its way from its probe to its bind
socketVars == <<app, sockFile, overlap>>

ControlSocketInit ==
  /\ app = [a \in Apps |-> "off"]
  /\ sockFile \in {NoSocket, "stale"} /\ overlap = FALSE

Listening(a) == app[a] = "listening"

\* Mutated form: whatever has the path is unlinked.
ProbeSocketSkipped(a) ==
  /\ app[a] = "off"
  /\ app' = [app EXCEPT ![a] =
       IF sockFile = NoSocket THEN "bind"
       ELSE "unlink"]
  /\ overlap' = (overlap \/ \E b \in Apps : app[b] \in {"unlink", "bind"})
  /\ UNCHANGED sockFile

\* A socket that answers belongs to another server; one whose probe fails for
\* another reason than a refused connection is left alone; a stale one is
\* unlinked.
ProbeSocket(a) ==
  /\ app[a] = "off"
  /\ app' = [app EXCEPT ![a] =
       IF sockFile = NoSocket THEN "bind"
       ELSE IF sockFile # "stale" /\ Listening(sockFile) THEN "refused" ELSE "unlink"]
  /\ overlap' = (overlap \/ \E b \in Apps : app[b] \in {"unlink", "bind"})
  /\ UNCHANGED sockFile

ProbeFails(a) ==
  /\ app[a] = "off" /\ sockFile # NoSocket
  /\ app' = [app EXCEPT ![a] = "refused"]
  /\ UNCHANGED <<sockFile, overlap>>

UnlinkStaleSocket(a) ==
  /\ app[a] = "unlink"
  /\ sockFile' = NoSocket
  /\ app' = [app EXCEPT ![a] = IF sockFile = NoSocket THEN "refused" ELSE "bind"]
  /\ UNCHANGED overlap

BindSocket(a) ==
  /\ app[a] = "bind"
  /\ sockFile' = IF sockFile = NoSocket THEN a ELSE sockFile
  /\ app' = [app EXCEPT ![a] = IF sockFile = NoSocket THEN "listening" ELSE "refused"]
  /\ UNCHANGED overlap

\* On the way out the path is removed, whoever bound it last.
RemoveSocket(a) ==
  /\ Listening(a)
  /\ app' = [app EXCEPT ![a] = "off"]
  /\ sockFile' = NoSocket
  /\ UNCHANGED overlap

\* A crash leaves the socket behind.
ServerCrashes(a) ==
  /\ Listening(a)
  /\ app' = [app EXCEPT ![a] = "off"]
  /\ sockFile' = IF sockFile = a THEN "stale" ELSE sockFile
  /\ UNCHANGED overlap

StartAgain(a) ==
  /\ app[a] = "refused"
  /\ app' = [app EXCEPT ![a] = "off"]
  /\ UNCHANGED <<sockFile, overlap>>

ControlSocketNext ==
  \E a \in Apps : \/ ProbeSocket(a) \/ ProbeFails(a) \/ UnlinkStaleSocket(a) \/ BindSocket(a)
                  \/ RemoveSocket(a) \/ ServerCrashes(a) \/ StartAgain(a)
ControlSocketSpec == ControlSocketInit /\ [][ControlSocketNext]_socketVars

(***************************************************************************)
(* Properties                                                              *)
(***************************************************************************)
\* Unless two processes started at the same time, a server that listens is
\* the one the path leads to: a later start never takes a live socket away.
LiveSocketKept == ~overlap => \A a \in Apps : Listening(a) => sockFile = a

===============================================================================
