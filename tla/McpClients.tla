----------------------------- MODULE McpClients -----------------------------
(***************************************************************************)
(* The MCP servers of the local runtime daemon, for one server id.  Passes *)
(* of /mcps/register (replace = true) enable the server with a launch key  *)
(* or disable it; tool calls run through the client object their handler   *)
(* was registered with.  A client starts its process on first use, numbers *)
(* its requests, and has a reader task resolve the futures in `pending`.   *)
(* Who writes to a process that does not read waits until it does, with no *)
(* limit.  Passes and calls are concurrent HTTP requests.                  *)
(***************************************************************************)
EXTENDS Integers, FiniteSets

CONSTANTS
  Calls,      \* executions of a tool of the server
  Passes,     \* registration passes
  MaxClients, \* bound: McpStdioClient objects created
  MaxProcs,   \* bound: server processes started
  MaxIds,     \* bound: once a client has numbered so many requests, tools/list has one page
  Keys        \* launch keys: command, args, cwd, env

ASSUME McpAssumption ==
  /\ Calls \cap Passes = {} /\ Keys \cap {"off", "none"} = {}
  /\ MaxClients \in Nat /\ MaxProcs \in Nat /\ MaxIds \in Nat /\ Keys # {}

ClientTasks == Calls \cup Passes
Clients == 1..MaxClients
Procs == 1..MaxProcs
Steps == {"initialize", "notify", "main"}   \* main: tools/list or tools/call

VARIABLES
  registered,  \* mcp_clients.get(id): {} or one client
  spec,        \* mcp_specs: the launch key registered, or "none"
  status,      \* mcp_status_by_server_id: "none", "ready" or "error"
  tools,       \* {} or the client of the tool handlers that are registered
  proc,        \* client -> proc: {} or one process
  initialized, \* client -> initialized
  nextId,      \* client -> next_request_id
  pending,     \* the tasks whose request is in the pending map of its client
  task,        \* task -> its place; of one that has a request, what became of it
  draining,    \* process -> the tasks that wait for it to read what they wrote
  owner,       \* process -> {} or the client that started it
  alive,       \* the processes running
  inbox,       \* process -> requests it has not answered, <<id, step, task>>
  answers,     \* process -> answers in its stdout, <<id, step, task>>
  readTask,    \* process -> the reader task created with it
  wanted,      \* pass -> what its payload asks: a key or "off"
  overlapped,  \* History: two passes were in progress together.
  latest       \* History: the payload of the pass that began last

mcpVars == <<registered, spec, status, tools, proc, initialized, nextId, pending, task,
             draining, owner, alive, inbox, answers, readTask, wanted, overlapped, latest>>

daemon == <<registered, spec, status, tools>>
requests == <<nextId, pending>>
wire == <<owner, alive, inbox, answers, draining>>
payloads == <<wanted, overlapped, latest>>

NewTask == [at |-> "new", of |-> {}, step |-> "main", id |-> 0]
NoReader == [at |-> "none", on |-> {}]

McpInit ==
  /\ registered = {} /\ spec = "none" /\ status = "none" /\ tools = {}
  /\ proc = [c \in Clients |-> {}]
  /\ initialized = [c \in Clients |-> FALSE] /\ nextId = [c \in Clients |-> 1]
  /\ pending = {} /\ task = [t \in ClientTasks |-> NewTask]
  /\ draining = [p \in Procs |-> {}]
  /\ owner = [p \in Procs |-> {}] /\ alive = {}
  /\ inbox = [p \in Procs |-> {}] /\ answers = [p \in Procs |-> {}]
  /\ readTask = [p \in Procs |-> NoReader]
  /\ wanted = [r \in Passes |-> "none"] /\ overlapped = FALSE /\ latest = "off"

-----------------------------------------------------------------------------
(* McpStdioClient: requests *)

Put(t, at, c, step, id) ==
  task' = [task EXCEPT ![t] = [at |-> at, of |-> {c}, step |-> step, id |-> id]]

\* Nothing happens in a task before what it wrote has been taken.
Draining(t) == \E p \in Procs : t \in draining[p]
Is(t, at, c) == task[t].at = at /\ task[t].of = {c} /\ ~Draining(t)

\* Mutant: requests are numbered by those in the map.
IdFromPending(c) == Cardinality({t \in pending : task[t].of = {c}}) + 1

RequestId(c) == nextId[c]

\* stdin.drain(): who writes to a full pipe waits; only the arguments of a tool fill it.
Drain(t, step, p) ==
  \/ /\ draining[p] # {} \/ (t \in Calls /\ step = "main")
     /\ draining' = [draining EXCEPT ![p] = @ \cup {t}]
  \/ draining[p] = {} /\ UNCHANGED draining

\* request, once started: a write to a process that is gone is noticed or not.
Send(t, c, step, p) ==
  /\ nextId' = [nextId EXCEPT ![c] = @ + 1]
  /\ \/ /\ pending' = pending \cup {t}
        /\ Put(t, "wait", c, step, RequestId(c))
        /\ inbox' = IF p \in alive THEN [inbox EXCEPT ![p] = @ \cup {<<RequestId(c), step, t>>}]
                                   ELSE inbox
        /\ Drain(t, step, p)
     \/ /\ p \notin alive
        /\ Put(t, "failed", c, step, 0)
        /\ UNCHANGED <<pending, inbox, draining>>

Request(t, c, step) ==
  \/ /\ proc[c] = {}
     /\ Put(t, "spawn", c, step, 0)
     /\ UNCHANGED <<requests, inbox, draining>>
  \/ \E p \in proc[c] : Send(t, c, step, p)

\* call_tool, list_tools
Begin(t, c) == Request(t, c, IF initialized[c] THEN "main" ELSE "initialize")

\* ensure_started resumes, whatever was started meanwhile.  A notification has no
\* future; after it comes the request proper, to the process just started.
Spawned(t, c) ==
  /\ Is(t, "spawn", c)
  /\ \E p \in Procs :
       /\ owner[p] = {} /\ \A q \in 1..(p - 1) : owner[q] # {}
       /\ owner' = [owner EXCEPT ![p] = {c}] /\ alive' = alive \cup {p}
       /\ readTask' = [readTask EXCEPT ![p].at = "start"]
       /\ proc' = [proc EXCEPT ![c] = {p}]
       /\ nextId' = [nextId EXCEPT ![c] = @ + 1] /\ pending' = pending \cup {t}
       /\ LET step == IF task[t].step = "notify" THEN "main" ELSE task[t].step IN
            /\ Put(t, "wait", c, step, RequestId(c))
            /\ inbox' = [inbox EXCEPT ![p] = {<<RequestId(c), step, t>>}]
            /\ Drain(t, step, p)
       /\ initialized' = [initialized EXCEPT ![c] = @ \/ task[t].step = "notify"]
  /\ UNCHANGED <<daemon, answers, payloads>>

SpawnFails(t, c) ==
  /\ Is(t, "spawn", c)
  /\ Put(t, "failed", c, task[t].step, 0)
  /\ UNCHANGED <<daemon, proc, initialized, requests, wire, readTask, payloads>>

\* The process reads on: everybody who waited for that does.
Drained(p) ==
  /\ p \in alive /\ draining[p] # {}
  /\ draining' = [draining EXCEPT ![p] = {}]
  /\ UNCHANGED <<daemon, proc, initialized, requests, task, owner, alive, inbox, answers, readTask,
                 payloads>>

\* It has ended: drain raises, whatever became of the request.
DrainRaises(t, c) ==
  /\ task[t].of = {c}
  /\ \E p \in Procs \ alive :
       t \in draining[p] /\ draining' = [draining EXCEPT ![p] = @ \ {t}]
  /\ pending' = pending \ {t}
  /\ Put(t, "failed", c, task[t].step, 0)
  /\ UNCHANGED <<daemon, proc, initialized, nextId, owner, alive, inbox, answers, readTask,
                 payloads>>

\* Mutant: a request has no time limit.
TimeoutNever(t, c) == FALSE

\* The timer of wait_for cancels the future; the request leaves `pending` when its
\* coroutine runs again.
TimeoutFires(t, c) ==
  /\ Is(t, "wait", c)
  /\ task' = [task EXCEPT ![t].at = "expired"]
  /\ UNCHANGED <<daemon, proc, initialized, requests, wire, readTask, payloads>>

TimeoutRaises(t, c) ==
  /\ Is(t, "expired", c)
  /\ pending' = pending \ {t}
  /\ Put(t, "failed", c, task[t].step, 0)
  /\ UNCHANGED <<daemon, proc, initialized, nextId, wire, readTask, payloads>>

\* The answer to initialize is followed by the notification, and that by the request
\* proper; a notification that raises ends the task.
Initialized(t, c) ==
  /\ Is(t, "answered", c) /\ task[t].step = "initialize"
  /\ \/ /\ proc[c] = {}
        /\ Put(t, "spawn", c, "notify", 0)
        /\ UNCHANGED <<initialized, requests, draining, inbox>>
     \/ \E p \in proc[c] :
          \/ /\ draining[p] = {} /\ Send(t, c, "main", p)
             /\ initialized' = [initialized EXCEPT ![c] = TRUE]
          \/ /\ draining[p] # {} /\ draining' = [draining EXCEPT ![p] = @ \cup {t}]
             /\ Put(t, "notifying", c, "notify", 0)
             /\ UNCHANGED <<initialized, requests, inbox>>
          \/ /\ p \notin alive
             /\ Put(t, "failed", c, "notify", 0)
             /\ UNCHANGED <<initialized, requests, draining, inbox>>
  /\ UNCHANGED <<daemon, proc, owner, alive, answers, readTask, payloads>>

\* The notification has been taken; the client may have been closed since.
Notified(t, c) ==
  /\ Is(t, "notifying", c)
  /\ initialized' = [initialized EXCEPT ![c] = TRUE]
  /\ Request(t, c, "main")
  /\ UNCHANGED <<daemon, proc, owner, alive, answers, readTask, payloads>>

-----------------------------------------------------------------------------
(* The server process and the reader task *)

Answer(p) ==
  /\ p \in alive
  /\ \E m \in inbox[p] :
       /\ inbox' = [inbox EXCEPT ![p] = @ \ {m}]
       /\ answers' = [answers EXCEPT ![p] = @ \cup {m}]
  /\ UNCHANGED <<daemon, proc, initialized, requests, task, draining, owner, alive, readTask,
                 payloads>>

Die(ps) ==
  /\ alive' = alive \ ps
  /\ inbox' = [p \in Procs |-> IF p \in ps THEN {} ELSE inbox[p]]

ServerDies(p) ==
  /\ p \in alive /\ Die({p})
  /\ UNCHANGED <<daemon, proc, initialized, requests, task, draining, owner, answers, readTask,
                 payloads>>

Of(c) == {t \in pending : task[t].of = {c}}

\* The tasks as they are when those of ts whose future is not done get an exception.
Failing(ts) ==
  [t \in ClientTasks |-> IF t \in ts /\ task[t].at = "wait"
                     THEN [task[t] EXCEPT !.at = "failed", !.id = 0] ELSE task[t]]

\* The next readline of the reader created with p, on the client's current process:
\* no process, or a process another reader waits on, ends the reader.
ReadOn(p, c) ==
  LET ends == \/ proc[c] = {}
              \/ \E q \in Procs \ {p} : readTask[q] = [at |-> "read", on |-> proc[c]]
  IN [ends |-> ends,
      next |-> IF ends THEN [at |-> "done", on |-> {}] ELSE [at |-> "read", on |-> proc[c]]]

\* _read_stdout starts.  Without a process its assertion fails and it ends there; when
\* it ends by an exception later, _fail_pending.
ReaderStarts(p) ==
  /\ readTask[p].at = "start"
  /\ \E c \in owner[p] :
       /\ readTask' = [readTask EXCEPT ![p] = ReadOn(p, c).next]
       /\ IF ReadOn(p, c).ends /\ proc[c] # {}
            THEN task' = Failing(Of(c)) /\ pending' = pending \ Of(c)
            ELSE UNCHANGED <<task, pending>>
  /\ UNCHANGED <<daemon, proc, initialized, nextId, wire, payloads>>

\* A line resolves the future of its id, with a result or an error.  A future that
\* a timeout has cancelled raises in the reader, which ends.
ReadLine(p) ==
  /\ readTask[p].at = "read"
  /\ \E c \in owner[p], q \in readTask[p].on, at \in {"answered", "failed"} :
     \E m \in answers[q] :
       LET hit == {t \in Of(c) : task[t].id = m[1]}
           late == \E t \in hit : task[t].at = "expired"
           ends == late \/ ReadOn(p, c).ends
           failing == Failing(IF ends THEN Of(c) \ hit ELSE {})
       IN /\ answers' = [answers EXCEPT ![q] = @ \ {m}]
          /\ readTask' = [readTask EXCEPT ![p] =
                          IF ends THEN [at |-> "done", on |-> {}] ELSE ReadOn(p, c).next]
          /\ task' = [t \in ClientTasks |-> IF t \in hit /\ ~late THEN [task[t] EXCEPT !.at = at]
                                                            ELSE failing[t]]
          /\ pending' = pending \ (IF ends THEN Of(c) ELSE hit)
  /\ UNCHANGED <<daemon, proc, initialized, nextId, draining, owner, alive, inbox, payloads>>

\* At the end of the stream the reader ends, and fails nothing.
ReaderEof(p) ==
  /\ readTask[p].at = "read"
  /\ \A q \in readTask[p].on : q \notin alive /\ answers[q] = {}
  /\ readTask' = [readTask EXCEPT ![p] = [at |-> "done", on |-> {}]]
  /\ UNCHANGED <<daemon, proc, initialized, requests, task, wire, payloads>>

-----------------------------------------------------------------------------
(* handle_register_mcp, with replace *)

Fresh(c) ==
  /\ c \notin registered \cup tools
  /\ nextId[c] = 1 /\ \A t \in ClientTasks : task[t].of # {c}

\* The client object made next; none when the bound is reached.
NewClient == {c \in Clients : Fresh(c) /\ \A d \in 1..(c - 1) : ~Fresh(d)}

Done == [at |-> "done", of |-> {}, step |-> "main", id |-> 0]
Spawning(c) == [at |-> "spawn", of |-> {c}, step |-> "initialize", id |-> 0]

InProgress(t) == task[t].at \notin {"new", "done"}

Payload(r, w) ==
  /\ task[r].at = "new"
  /\ wanted' = [wanted EXCEPT ![r] = w]
  /\ overlapped' = (overlapped \/ \E o \in Passes : InProgress(o))
  /\ latest' = w

\* Launch keys are told apart by equality only: the first is any one of them.
Launch == IF \E r \in Passes : wanted[r] \in Keys THEN Keys ELSE {CHOOSE k \in Keys : TRUE}

\* register_mcp_server from the choice of the client on: it is asked for its tools,
\* or the payload declares them.
Enable(r) ==
  /\ \E w \in Launch : Payload(r, w) /\ (registered = {} \/ spec \in {w, "none"}) /\ spec' = w
  /\ \E c \in IF registered = {} THEN NewClient ELSE registered :
       /\ registered' = {c}
       /\ \/ Begin(r, c) /\ tools' = {} /\ UNCHANGED status
          \/ /\ tools' = {c} /\ status' = "ready" /\ task' = [task EXCEPT ![r] = Done]
             /\ UNCHANGED <<requests, inbox, draining>>
  /\ UNCHANGED <<proc, initialized, owner, alive, answers, readTask>>

\* The same with a new client, ts being the tasks at this point.
EnableNew(r, w, ts) ==
  /\ spec' = w
  /\ \E c \in NewClient :
       /\ registered' = {c}
       /\ \/ /\ tools' = {} /\ UNCHANGED status
             /\ task' = [ts EXCEPT ![r] = Spawning(c)]
          \/ /\ tools' = {c} /\ status' = "ready"
             /\ task' = [ts EXCEPT ![r] = Done]

\* Mutant: the client is dropped and its tools are not.
DisableKeepingTools(r, ts) ==
  /\ spec' = "none" /\ status' = "none" /\ UNCHANGED tools
  /\ task' = [ts EXCEPT ![r] = Done]

\* reconcile_mcp_servers once the client is closed.
Disable(r, ts) ==
  /\ spec' = "none" /\ status' = "none" /\ tools' = {}
  /\ task' = [ts EXCEPT ![r] = Done]

DisableUnknown(r) ==
  /\ registered = {} /\ Payload(r, "off")
  /\ spec' = (IF status = "none" THEN spec ELSE "none") /\ status' = "none"
  /\ task' = [task EXCEPT ![r] = Done]
  /\ UNCHANGED <<registered, tools, proc, initialized, requests, wire, readTask>>

\* A client is closed because its server is not wanted, or not with this launch key.
\* Its futures fail; a process that runs is waited for.
CloseWanted(r, c, w) ==
  /\ c \in registered
  /\ Payload(r, w) /\ (w = "off" \/ spec \notin {w, "none"})
  /\ pending' = pending \ Of(c)

Reset(c) ==
  /\ proc' = [proc EXCEPT ![c] = {}]
  /\ initialized' = [initialized EXCEPT ![c] = FALSE]

CloseBegins(r) ==
  /\ \E w \in Keys \cup {"off"}, c \in registered :
       /\ CloseWanted(r, c, w) /\ proc[c] \cap alive # {}
       /\ task' = [Failing(Of(c)) EXCEPT ![r] =
                     [at |-> "closing", of |-> {c}, step |-> "main", id |-> 0]]
       /\ \/ w = "off" /\ registered' = {} /\ status' = "none"
             /\ spec' = (IF status = "none" THEN spec ELSE "none")
          \/ w # "off" /\ UNCHANGED <<registered, spec, status>>
  /\ UNCHANGED <<tools, proc, initialized, nextId, wire, readTask>>

\* The process has ended, or is killed after two seconds.
CloseEnds(r, c) ==
  /\ Is(r, "closing", c) /\ proc[c] # {}
  /\ \/ Die(proc[c])
     \/ (\E p \in Procs \ alive : owner[p] = {c}) /\ UNCHANGED <<alive, inbox>>
  /\ Reset(c)
  /\ \/ wanted[r] = "off" /\ Disable(r, task) /\ UNCHANGED registered
     \/ wanted[r] # "off" /\ EnableNew(r, wanted[r], task)
  /\ UNCHANGED <<requests, draining, owner, answers, readTask, payloads>>

\* Another pass has closed the client meanwhile: close raises, and the pass ends there.
CloseRaises(r, c) ==
  /\ Is(r, "closing", c) /\ proc[c] = {}
  /\ status' = (IF wanted[r] = "off" THEN status ELSE "error")
  /\ task' = [task EXCEPT ![r] = Done]
  /\ UNCHANGED <<registered, spec, tools, proc, initialized, requests, wire, readTask, payloads>>

CloseAtOnce(r) ==
  /\ \E w \in Keys \cup {"off"}, c \in registered :
       /\ CloseWanted(r, c, w) /\ proc[c] \cap alive = {}
       /\ Reset(c)
       /\ \/ w = "off" /\ Disable(r, Failing(Of(c))) /\ registered' = {}
          \/ w # "off" /\ EnableNew(r, w, Failing(Of(c)))
  /\ UNCHANGED <<nextId, wire, readTask>>

\* tools/list has a next page.
NextPage(r, c) ==
  /\ Is(r, "answered", c) /\ task[r].step = "main" /\ nextId[c] <= MaxIds
  /\ Request(r, c, "main")
  /\ UNCHANGED <<daemon, proc, initialized, owner, alive, answers, readTask, payloads>>

\* The tools are listed, or not; those of a client no longer registered too.
PassEnds(r, c) ==
  /\ \/ Is(r, "answered", c) /\ task[r].step = "main" /\ tools' = {c} /\ status' = "ready"
     \/ Is(r, "failed", c) /\ status' = "error" /\ UNCHANGED tools
  /\ task' = [task EXCEPT ![r] = Done]
  /\ UNCHANGED <<registered, spec, proc, initialized, requests, wire, readTask, payloads>>

-----------------------------------------------------------------------------
(* A tool call: the handler holds the client it was registered with *)

CallBegins(t) ==
  /\ task[t].at = "new"
  /\ \E c \in tools : Begin(t, c)
  /\ UNCHANGED <<daemon, proc, initialized, owner, alive, answers, readTask, payloads>>

CallEnds(t, c) ==
  /\ Is(t, "failed", c) \/ (Is(t, "answered", c) /\ task[t].step = "main")
  /\ task' = [task EXCEPT ![t] = Done]
  /\ UNCHANGED <<daemon, proc, initialized, requests, wire, readTask, payloads>>

-----------------------------------------------------------------------------

ClientStep(t) ==
  \E c \in task[t].of : \/ Spawned(t, c) \/ SpawnFails(t, c)
                     \/ TimeoutFires(t, c) \/ TimeoutRaises(t, c) \/ DrainRaises(t, c)
                     \/ Initialized(t, c) \/ Notified(t, c)

PassContinues(r) ==
  \E c \in task[r].of :
    CloseEnds(r, c) \/ CloseRaises(r, c) \/ NextPage(r, c) \/ PassEnds(r, c)

McpNext ==
  \/ \E t \in ClientTasks : ClientStep(t)
  \/ \E t \in Calls : CallBegins(t) \/ \E c \in task[t].of : CallEnds(t, c)
  \/ \E r \in Passes :
       \/ Enable(r) \/ DisableUnknown(r) \/ CloseBegins(r) \/ CloseAtOnce(r)
       \/ PassContinues(r)
  \/ \E p \in Procs : \/ Drained(p) \/ Answer(p) \/ ServerDies(p)
                      \/ ReaderStarts(p) \/ ReadLine(p) \/ ReaderEof(p)

TaskContinues(t) ==
  \/ ClientStep(t)
  \/ t \in Calls /\ \E c \in task[t].of : CallEnds(t, c)
  \/ t \in Passes /\ PassContinues(t)

\* Coroutines run and timers fire; a server need not answer, nor read.
McpFairness == \A t \in ClientTasks : WF_mcpVars(TaskContinues(t))

McpSpec == McpInit /\ [][McpNext]_mcpVars

-----------------------------------------------------------------------------
(* Properties *)

McpTypeOK ==
  /\ registered \subseteq Clients /\ tools \subseteq Clients
  /\ Cardinality(registered) <= 1 /\ Cardinality(tools) <= 1
  /\ spec \in Keys \cup {"none"} /\ status \in {"none", "ready", "error"}
  /\ \A c \in Clients : proc[c] \subseteq {p \in Procs : owner[p] = {c}}
  /\ initialized \in [Clients -> BOOLEAN] /\ nextId \in [Clients -> Nat]
  /\ pending \subseteq ClientTasks
  /\ \A t \in ClientTasks :
       /\ task[t].at \in {"new", "spawn", "wait", "expired", "answered", "failed",
                          "notifying", "closing", "done"}
       /\ task[t].step \in Steps /\ task[t].id \in Nat
       /\ (task[t].of = {} <=> task[t].at \in {"new", "done"})
  /\ \A p \in Procs :
       /\ readTask[p].at \in {"none", "start", "read", "done"}
       /\ readTask[p].on \subseteq Procs /\ (readTask[p].at = "read" <=> readTask[p].on # {})
       /\ draining[p] \subseteq ClientTasks
       /\ (inbox[p] # {} => p \in alive) /\ (p \in alive => owner[p] # {})
  /\ wanted \in [Passes -> Keys \cup {"off", "none"}]

\* A request is answered with the answer to it and to no other, also after timeouts
\* and across restarts of the process.  (request, _read_stdout)
AnswerIsOwn ==
  [][\A t \in ClientTasks :
       task[t].at = "wait" /\ task'[t].at = "answered"
         => \E p \in Procs : <<task[t].id, task[t].step, t>> \in answers[p] \ answers'[p]]_mcpVars

\* The pending map holds the requests that wait and no others: one that still waits
\* can be answered or failed, and one that is over leaves nothing behind.
PendingIsWaiting ==
  \A t \in ClientTasks : /\ task[t].at = "wait" => t \in pending
                         /\ t \in pending => task[t].at \in {"wait", "expired"}

\* "Removed, disabled [...] MCP tools are not left executable through stale registry
\* entries": when no pass is in progress and none has overlapped another, tools are
\* registered only for a server that the last pass wanted, through its client.  And
\* nothing is left behind in the clients' maps.
ToolsOfEnabledServer ==
  /\ McpTypeOK /\ PendingIsWaiting
  /\ ~overlapped /\ (\A r \in Passes : ~InProgress(r)) /\ tools # {}
       => tools = registered /\ spec = latest

\* Every request of the daemon ends, with a server that dies or never answers; only one
\* that has written to a server which is running and reads no more does not, for drain
\* has no time limit, or one whose pages of tools go on beyond MaxIds.
McpTasksEnd == <>[](\A t \in ClientTasks : InProgress(t) => \E p \in alive : t \in draining[p])

=============================================================================
