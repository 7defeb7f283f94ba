------------------------------ MODULE MCPanel ------------------------------
(***************************************************************************)
(* What a user asks of the program and must get an end of, one part at a   *)
(* time: operations on sessions that are cancelled (Sessions), runtime     *)
(* commands with their log (RuntimeTasks), and requests over the control   *)
(* socket (Control).  The other parts keep their initial state.            *)
(***************************************************************************)
EXTENDS MCSessions, RuntimeTasks, Control

CONSTANTS c1, c2, t1, t2

VARIABLE part

\* Two connections: one about a session, one about anything else.
Ask(via, cmd, by, value) == [via |-> via, cmd |-> cmd, by |-> by, value |-> value]
ByName == Ask("cli", "launch", "name", "a")
ById == Ask("mcpControl", "launch", "id", "p")
ByIndex == Ask("cli", "launch", "index", 1)
StopByName == Ask("mcpControl", "stop", "name", "a")
NewDisplay == Ask("mcpControl", "display-create", "none", NoControl)
OpenPanel == Ask("mcp", "open-panel", "page", NoControl)
Diagnostics == Ask("mcp", "diagnostics", "none", NoControl)
Status == Ask("cli", "status", "none", NoControl)
MCAsks ==
    {(c1 :> a) @@ (c2 :> b) : <<a, b>> \in
       {<<ByName, NewDisplay>>, <<ByName, Status>>, <<ByName, OpenPanel>>, <<ById, Status>>,
        <<ById, Diagnostics>>, <<ByIndex, NewDisplay>>, <<StopByName, Status>>}}

\* A profile renamed, replaced, named twice, not yet saved, and a file that cannot be read.
Entry(id, name, sig) == [id |-> id, name |-> name, sig |-> sig]
Readable(entries) == [broken |-> FALSE, entries |-> entries]
MCConfigs ==
    {Readable(<<Entry("p", "a", 1)>>),
     Readable(<<Entry("q", "a", 2), Entry("p", "b", 3)>>),
     Readable(<<Entry("p", "a", 1), Entry("q", "a", 2)>>),
     Readable(<<Entry(NoControl, "a", 4)>>),
     [broken |-> TRUE, entries |-> << >>]}

\* Two things the user asks of the runtimes at once.
Request(kind, runtime) == [kind |-> kind, runtime |-> runtime, name |-> "n", configure |-> FALSE]
WithSession(kind, runtime) == [Request(kind, runtime) EXCEPT !.configure = TRUE]
Both(a, b) == (t1 :> a) @@ (t2 :> b)
MCScripts ==
    {Both(Request("pull", "apple"), Request("login", "apple")),
     Both(WithSession("pull", "docker"), Request("pull", "docker")),
     Both(Request("build", "apple"), Request("imageDelete", "docker")),
     Both(Request("load", "apple"), Request("contextUse", "docker")),
     Both(Request("imageDelete", "apple"), Request("machine", "orb")),
     Both(Request("volumeCreate", "docker"), Request("volumeDelete", "docker")),
     Both(Request("system start", "apple"), Request("system stop", "apple")),
     Both(Request("systemStart", "apple"), Request("system stop", "apple")),
     Both(Request("details", "docker"), Request("delete", "docker")),
     Both(Request("details", "docker"), Request("details", "apple")),
     Both(Request("details", "apple"), Request("restart", "apple")),
     Both(Request("delete", "apple"), Request("stop", "docker")),
     Both(Request("volumeDelete", "apple"), Request("system stop", "orb"))}

\* The event loop hangs while output is streamed.
Streamed == script[t1].kind = "pull" /\ script[t2].kind = "login"

MCInit ==
    /\ part \in {"sessions", "tasks", "control"}
    /\ Init /\ RuntimeTasksInit /\ ControlInit
    /\ part # "sessions" => config = McPair(auto1, auto1)
    /\ ~receiving => Streamed
    /\ part # "tasks" => ~receiving /\ script = Both(Request("pull", "apple"), Request("login", "apple"))
    /\ part # "control" => /\ ask[c1] = ByName
                           /\ ask[c2] = Status
                           /\ profiles = [broken |-> TRUE, entries |-> << >>]
MCNext ==
    \/ part = "sessions" /\ Next /\ UNCHANGED <<part, taskVars, controlVars>>
    \/ part = "tasks" /\ RuntimeTasksNext /\ UNCHANGED <<part, vars, controlVars>>
    \/ part = "control" /\ ControlNext /\ UNCHANGED <<part, vars, taskVars>>

\* The fairness of the parts, each asked for only where the part is explored; nothing
\* that the fairness of Sessions is about can happen in its initial state.
MCFairness ==
    /\ \A t \in Threads : /\ WF_workVars(part = "tasks" /\ ThreadStep(t))
                          /\ WF_workVars(part = "tasks" /\ ReaderStep(t))
                          /\ WF_workVars(part = "tasks" /\ ChildExits(t))
    /\ WF_workVars(part = "tasks" /\ ReceiveMessage)
    /\ \A c \in Clients : WF_controlVars(part = "control" /\ HandlerStep(c))
    /\ WF_controlVars(part = "control" /\ ControlTick)

MCSpec ==
    /\ MCInit
    /\ [][MCNext]_<<part, vars, taskVars, controlVars>>
    /\ Fairness /\ MCFairness

\* What a user or a client asks for gets its end: a cancelled launch gives its identity back, a
\* command reports, a request over the control socket is answered.
AskedEnds == CancelReleases /\ CommandsEnd /\ AsksAnswered
=============================================================================
