-------------------------------- MODULE Control --------------------------------
(***************************************************************************)
(* The local control service: its server (control_api.rs) with one thread  *)
(* per connection, bounded in number and by a total deadline; the framed   *)
(* client (control_client.rs); and the two front ends, cocoa-wayctl and    *)
(* the MCP server, which is read-only unless it was started with           *)
(* --allow-control.  Requests resolve a profile in the configuration, which*)
(* others may edit at any time, and queue a message for the event loop.    *)
(* ControlSocket models how the server gets its socket; here it listens.   *)
(***************************************************************************)
EXTENDS Naturals, Sequences, FiniteSets

CONSTANTS
  Clients,       \* connections
  Asks,          \* functions from clients to [via, cmd, by, value]
  Configs,       \* what the configuration may hold: "broken" is its own field
  MaxHandlers,   \* MAX_ACTIVE_HANDLERS
  TotalTime, ReadTime, WriteTime, ProbeTime, QueueTime, \* the deadlines, in ticks
  Probes,        \* subprocess probes of a diagnostics request
  QueueRoom,     \* room left in the event loop's channel
  MaxConfigEdits,
  NoControl

ASSUME ControlAssumption ==
  /\ MaxHandlers \in Nat \ {0} /\ QueueRoom \in Nat /\ MaxConfigEdits \in Nat
  /\ TotalTime \in Nat \ {0} /\ ReadTime \in Nat /\ WriteTime \in Nat
  /\ ProbeTime \in Nat /\ QueueTime \in Nat /\ Probes \in Nat

\* A signature is the whole profile as text (session_to_toml), its name included.
ASSUME SignatureAssumption ==
  \A p, q \in Configs : \A i \in 1..Len(p.entries), j \in 1..Len(q.entries) :
    p.entries[i].sig = q.entries[j].sig => p.entries[i].name = q.entries[j].name

\* load refuses a configuration that gives two profiles one id.
ASSUME ProfileIdAssumption ==
  \A p \in Configs : \A i, j \in 1..Len(p.entries) :
    p.entries[i].id = p.entries[j].id /\ p.entries[i].id # NoControl => i = j

VARIABLES
  ask,       \* what each client wants in this behaviour
  client,    \* "idle", "open", then what it got
  mcp,       \* clients whose MCP session is initialized
  handler,   \* the handler thread of a client's connection
  permits,    \* the count of HandlerPermit
  posted,    \* messages admitted for the event loop
  admitted,  \* clients whose message was admitted at some time
  acting,    \* the launch the event loop carries out: [message, checked, edits]
  performed, \* what the event loop did: [cmd, id, seen, from, checked, begun, edited]
  profiles, configEdits
controlVars == <<ask, client, mcp, handler, permits, posted, admitted, acting, performed,
                 profiles, configEdits>>

\* collection_deadline: collection leaves part of the budget for the reply.
CollectBy == TotalTime - (IF WriteTime < TotalTime \div 4 THEN WriteTime ELSE TotalTime \div 4)
Least(a, b) == IF a < b THEN a ELSE b

NoHandler == [pc |-> "none", age |-> 0, since |-> 0, probes |-> 0, what |-> NoControl,
              reply |-> NoControl]

ControlInit ==
  /\ ask \in Asks
  /\ client = [c \in Clients |-> "idle"] /\ mcp = {}
  /\ handler = [c \in Clients |-> NoHandler] /\ permits = 0
  /\ posted = <<>> /\ admitted = {} /\ acting = NoControl /\ performed = {}
  /\ profiles \in Configs /\ configEdits = 0

(***************************************************************************)
(* Front ends                                                              *)
(***************************************************************************)
ControlCommands == {"check", "launch", "stop", "display-create", "display-close", "open-panel"}

\* tools(allow_control) and validate_arguments: a control tool is only there
\* when enabled, and names profiles by their persistent id.
ToolAllows(c) ==
  ask[c].cmd \in ControlCommands =>
    ask[c].via = "mcpControl" /\ ask[c].by \in {"id", "slot", "page", "none"}

\* initialize is answered at once; the client then says it is initialized.
McpInitialized(c) ==
  /\ client[c] = "idle" /\ ask[c].via # "cli" /\ c \notin mcp
  /\ mcp' = mcp \cup {c}
  /\ UNCHANGED <<ask, client, handler, permits, posted, admitted, acting, performed, profiles, configEdits>>

\* A tool call before that, or to a tool that is not listed, is an error.
CallRefused(c) ==
  /\ client[c] = "idle" /\ ask[c].via # "cli"
  /\ c \notin mcp \/ ~ToolAllows(c)
  /\ client' = [client EXCEPT ![c] = "error"]
  /\ UNCHANGED <<ask, mcp, handler, permits, posted, admitted, acting, performed, profiles, configEdits>>

\* send_request connects; spawn_connection turns the peer away when all
\* handlers are taken.
SendRequest(c) ==
  /\ client[c] = "idle"
  /\ ask[c].via = "cli" \/ (c \in mcp /\ ToolAllows(c))
  /\ IF permits < MaxHandlers
     THEN /\ permits' = permits + 1
          /\ client' = [client EXCEPT ![c] = "open"]
          /\ handler' = [handler EXCEPT ![c] = [NoHandler EXCEPT !.pc = "read"]]
     ELSE /\ client' = [client EXCEPT ![c] = "error"]
          /\ UNCHANGED <<handler, permits>>
  /\ UNCHANGED <<ask, mcp, posted, admitted, acting, performed, profiles, configEdits>>

(***************************************************************************)
(* Resolving a profile                                                     *)
(***************************************************************************)
\* resolve_session_in: an id, else the one profile of that name, else an index.
ResolveIn(by, value, entries) ==
  LET At(P(_)) == {i \in 1..Len(entries) : P(entries[i])}
      named == At(LAMBDA e : e.name = value)
      found == CASE by = "id" -> At(LAMBDA e : e.id = value)
                 [] by = "name" -> IF Cardinality(named) > 1 THEN {} ELSE named
                 [] by = "index" -> {value} \cap (1..Len(entries))
                 [] OTHER -> {}
  IN  {entries[i] : i \in found}

\* resolve_session: a broken configuration resolves nothing, and neither does
\* a legacy profile without an id.
Resolved(c) ==
  IF profiles.broken THEN {}
  ELSE {e \in ResolveIn(ask[c].by, ask[c].value, profiles.entries) : e.id # NoControl}

\* The message a command queues, or nothing when it is refused: a launch
\* carries what was resolved, a stop by id asks the configuration nothing.
MessagesFor(c) ==
  LET cmd == ask[c].cmd
      of(e) == [cmd |-> cmd, id |-> e.id, seen |-> e.sig, from |-> c]
  IN  CASE cmd \in {"launch", "check"} \/ (cmd = "stop" /\ ask[c].by # "id") ->
             {of(e) : e \in Resolved(c)}
        [] cmd = "stop" /\ ask[c].by = "id" ->
             {[cmd |-> cmd, id |-> ask[c].value, seen |-> NoControl, from |-> c]}
        [] cmd \in {"display-create", "display-close", "open-panel"} ->
             IF ask[c].by \in (IF cmd = "display-close" THEN {"slot", "page"}
                              ELSE {"slot", "page", "none"})
             THEN {[cmd |-> cmd, id |-> NoControl, seen |-> NoControl, from |-> c]} ELSE {}
        [] OTHER -> {}

(***************************************************************************)
(* Handler threads                                                         *)
(***************************************************************************)
Turn(c, pc, what, reply) ==
  handler' = [handler EXCEPT ![c].pc = pc, ![c].since = handler[c].age,
                             ![c].what = what, ![c].reply = reply]

Answer(c, reply) == Turn(c, "write", NoControl, reply)

\* status, sessions, running, displays and performance are answered at once from what the panel
\* and the configuration show, a broken configuration included.
Snapshot(c) == Answer(c, "data")

\* read_frame_before, then dispatch.  A peer may send nothing, or not JSON.
ReadRequest(c) ==
  LET h == handler[c] IN
  /\ h.pc = "read"
  /\ \/ Answer(c, "failure")
     \/ /\ h.age < Least(CollectBy, ReadTime)
        /\ CASE ask[c].cmd = "status" -> Snapshot(c)
             [] ask[c].cmd = "diagnostics" -> Turn(c, "probe", NoControl, NoControl)
             [] OTHER -> IF MessagesFor(c) = {} THEN Answer(c, "failure")
                         ELSE \E m \in MessagesFor(c) : Turn(c, "queue", m, NoControl)
  /\ UNCHANGED <<ask, client, mcp, permits, posted, admitted, acting, performed, profiles, configEdits>>

\* run_command: each probe shares what is left before the collection deadline;
\* an expired budget starts no process.
RunProbe(c) ==
  LET h == handler[c]
      done == h.probes + 1 >= Probes
  IN
  /\ h.pc = "probe"
  /\ handler' = [handler EXCEPT ![c].probes = @ + 1, ![c].since = h.age,
                                ![c].pc = IF done THEN "write" ELSE "probe",
                                ![c].reply = IF done THEN "data" ELSE @]
  /\ UNCHANGED <<ask, client, mcp, permits, posted, admitted, acting, performed, profiles, configEdits>>

\* queue_message with send_timeout: accepted once it is in the channel.
QueueMessage(c) ==
  LET h == handler[c] IN
  /\ h.pc = "queue"
  /\ h.age < Least(CollectBy, h.since + QueueTime) /\ Len(posted) < QueueRoom
  /\ posted' = Append(posted, h.what)
  /\ admitted' = admitted \cup {c}
  /\ Answer(c, "accepted")
  /\ UNCHANGED <<ask, client, mcp, permits, acting, performed, profiles, configEdits>>

\* Mutated form: the admission waits for room without an end.
AdmissionWaits(c) ==
  LET h == handler[c] IN
  /\ h.pc = "queue" /\ h.age >= Least(CollectBy, h.since + QueueTime)
  /\ UNCHANGED handler
  /\ UNCHANGED <<ask, client, mcp, permits, posted, admitted, acting, performed, profiles, configEdits>>

AdmissionTimesOut(c) ==
  LET h == handler[c] IN
  /\ h.pc = "queue" /\ h.age >= Least(CollectBy, h.since + QueueTime)
  /\ Answer(c, "failure")
  /\ UNCHANGED <<ask, client, mcp, permits, posted, admitted, acting, performed, profiles, configEdits>>

\* write_before, and the permit goes with the thread.
HandlerEnds(c) ==
  LET h == handler[c] IN
  /\ h.pc = "write"
  /\ client' = [client EXCEPT ![c] = IF @ # "open" THEN @
                                     ELSE IF h.age < TotalTime THEN h.reply ELSE "error"]
  /\ handler' = [handler EXCEPT ![c] = NoHandler]
  /\ permits' = permits - 1
  /\ UNCHANGED <<ask, mcp, posted, admitted, acting, performed, profiles, configEdits>>

\* A peer that stops reading, or hangs up, loses its reply.
ClientLeaves(c) ==
  /\ client[c] = "open"
  /\ client' = [client EXCEPT ![c] = "error"]
  /\ UNCHANGED <<ask, mcp, handler, permits, posted, admitted, acting, performed, profiles, configEdits>>

\* Every wait of a handler ends by the deadline of its step.
StepLimit(h) ==
  CASE h.pc = "read" -> Least(CollectBy, ReadTime)
    [] h.pc = "probe" -> IF h.since >= CollectBy THEN h.since
                         ELSE Least(CollectBy, h.since + ProbeTime)
    [] h.pc = "queue" -> IF h.since >= CollectBy THEN h.since
                         ELSE Least(CollectBy, h.since + QueueTime)
    [] h.pc = "write" -> Least(TotalTime, h.since + WriteTime)
    [] OTHER -> TotalTime

ControlTick ==
  /\ \E c \in Clients : handler[c].pc # "none"
  /\ \A c \in Clients : handler[c].pc # "none" => handler[c].age < StepLimit(handler[c])
  /\ handler' = [c \in Clients |-> IF handler[c].pc = "none" THEN handler[c]
                                   ELSE [handler[c] EXCEPT !.age = @ + 1]]
  /\ UNCHANGED <<ask, client, mcp, permits, posted, admitted, acting, performed, profiles, configEdits>>

(***************************************************************************)
(* The event loop and the configuration                                    *)
(***************************************************************************)
ConfiguredAs(id) == IF profiles.broken THEN {} ELSE ResolveIn("id", id, profiles.entries)
Done(m, checked, begun, edited) ==
  [cmd |-> m.cmd, id |-> m.id, seen |-> m.seen, from |-> m.from,
   checked |-> checked, begun |-> begun, edited |-> edited]

\* The head of the channel is taken: a launch may be refused, or goes on to a read of
\* the configuration of its own; the other commands are taken as they are.
TakeMessage(m, accepts) ==
  /\ IF m.cmd = "launch"
     THEN /\ acting' = IF accepts THEN [message |-> m, checked |-> ConfiguredAs(m.id), edits |-> configEdits]
                       ELSE NoControl
          /\ UNCHANGED performed
     ELSE performed' = performed \cup {Done(m, {}, NoControl, FALSE)} /\ UNCHANGED acting
  /\ posted' = Tail(posted)
  /\ UNCHANGED <<ask, client, mcp, handler, permits, admitted, profiles, configEdits>>

\* Mutated form: the profile is only looked up by its id.
PerformMessageById ==
  /\ posted # <<>> /\ acting = NoControl
  /\ TakeMessage(Head(posted), ConfiguredAs(Head(posted).id) # {})

\* StartContainerSessionIfCurrent goes on only with what is still configured as the
\* client resolved it.
PerformMessage ==
  /\ posted # <<>> /\ acting = NoControl
  /\ TakeMessage(Head(posted), \E e \in ConfiguredAs(Head(posted).id) : e.sig = Head(posted).seen)

\* StartContainerSession reads the configuration again and begins what now bears the
\* id, or nothing when it is gone.
BeginLaunch ==
  /\ acting # NoControl
  /\ performed' = performed \cup
       {Done(acting.message, acting.checked, e, acting.edits # configEdits) :
          e \in ConfiguredAs(acting.message.id)}
  /\ acting' = NoControl
  /\ UNCHANGED <<ask, client, mcp, handler, permits, posted, admitted, profiles, configEdits>>

ConfigEdited ==
  /\ configEdits < MaxConfigEdits
  /\ configEdits' = configEdits + 1
  /\ profiles' \in Configs \ {profiles}
  /\ UNCHANGED <<ask, client, mcp, handler, permits, posted, admitted, acting, performed>>

HandlerStep(c) == \/ ReadRequest(c) \/ RunProbe(c) \/ QueueMessage(c)
                  \/ AdmissionTimesOut(c) \/ HandlerEnds(c)

ControlNext ==
  \/ \E c \in Clients : \/ McpInitialized(c) \/ CallRefused(c) \/ SendRequest(c)
                        \/ HandlerStep(c) \/ ClientLeaves(c)
  \/ ControlTick \/ PerformMessage \/ BeginLaunch \/ ConfigEdited

ControlFairness == \A c \in Clients : WF_controlVars(HandlerStep(c))
ControlSpec == ControlInit /\ [][ControlNext]_controlVars
               /\ WF_controlVars(ControlTick) /\ ControlFairness

(***************************************************************************)
(* Properties                                                              *)
(***************************************************************************)
ControlTypeOK ==
  /\ \A c \in Clients :
       /\ client[c] \in {"idle", "open", "data", "accepted", "failure", "error"}
       /\ handler[c].pc \in {"none", "read", "probe", "queue", "write"}
       /\ handler[c].age \in 0..TotalTime /\ handler[c].since \in 0..TotalTime
  /\ mcp \subseteq Clients /\ admitted \subseteq Clients
  /\ permits \in 0..MaxHandlers /\ Len(posted) <= QueueRoom

\* The permits in use are the handler threads that run: peers that hang up,
\* time out or are refused do not wear the limit out.
PermitsAreHandlers == permits = Cardinality({c \in Clients : handler[c].pc # "none"})

\* A client that is told "accepted" has its command in the event loop's
\* channel, one that is told it failed does not: an admission that timed out
\* is never carried out behind the client's back.
AcceptedMeansQueued ==
  \A c \in Clients : /\ client[c] = "accepted" => c \in admitted
                     /\ client[c] = "failure" => c \notin admitted

\* Collection ends early enough to leave the reply its reserve, whatever the
\* probes and the admission took, and no handler outlives the total deadline.
ReplyHasItsReserve ==
  \A c \in Clients : handler[c].pc = "write" => handler[c].since <= CollectBy

\* What the event loop launches was checked to be still configured as the client saw
\* it, with the id or the name the client asked for, although the configuration changed
\* since.  The launch itself reads the configuration a second time: what begins is never
\* another profile, and is what was checked unless the file was edited between the two.
LaunchAsAsked ==
  \A p \in performed : p.cmd = "launch" =>
    /\ \E e \in p.checked :
         /\ e.sig = p.seen
         /\ ask[p.from].by = "id" => e.id = ask[p.from].value
         /\ ask[p.from].by = "name" => e.name = ask[p.from].value
    /\ p.begun.id = p.id
    /\ ask[p.from].by = "id" => p.begun.id = ask[p.from].value
    /\ ~p.edited => p.begun.sig = p.seen

\* The MCP server performs nothing unless it was started with --allow-control,
\* and then acts on profiles only by their persistent id.
McpReadOnly ==
  \A c \in admitted : ask[c].via # "cli" =>
    ask[c].via = "mcpControl" /\ ask[c].by \notin {"name", "index"}

\* Every connection is answered or closed: by the deadlines, not by its peer.
AsksAnswered == \A c \in Clients : client[c] = "open" ~> client[c] # "open"

\* A client of the control socket is told the truth about its command, within its deadlines, and
\* what is launched is what it asked for and was allowed to.
ControlInvariant ==
    /\ ControlTypeOK
    /\ PermitsAreHandlers
    /\ AcceptedMeansQueued
    /\ ReplyHasItsReserve
    /\ LaunchAsAsked
    /\ McpReadOnly
===============================================================================
