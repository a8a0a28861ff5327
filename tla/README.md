# TLA+ models of WindieOS

WindieOS is a desktop agent. A hosted Python backend (`src/backend`) runs the
agent loop: it takes a user's query, asks a language model, hands the tool calls
in the answer to the client and waits for their results. The TypeScript SDK in
the client (`src/frontend/packages/windie-sdk-js`), the Electron main process
and a Python sidecar, the local runtime, run the tools on the user's machine and
keep the user's transcripts and memories.

This directory models the concurrent core of the two: which queries are
admitted and what a stop does to them, how the turns of one conversation share
a session and its history, how sessions come and go with connections, how
messages leave through one socket, how hosted runs reach the workers that poll
for them, and what the local runtime does with shell processes, MCP servers and
its stores. `PROJECT.json` has, for every definition, the lines it translates.

Paths below are relative to `src/backend/src/` unless they begin with
`frontend/` or `docs/`, which are directories of `src/`.

## 1. Inventory

Backend and client each run on one event loop per process. A step of a model is
what a task does between two suspension points; what makes the system hard is
what other tasks do at each of them.

### Query admission and stop: `ActiveQueries`
`agent/session/active_query_tracker.py`, `api/handlers/query.py`, `api/handlers/stop_query.py`
- State: running query tasks by user with their turn and conversation refs;
  pending stops by user and scope with an expiry.
- Operations: register under per-user and global caps, consume a pending stop,
  cancel by scope or latch the stop, clear one task, clear a user.
- Hard: a stop before its query, a stop twice, a cancelled task that is still
  unwinding, a connection clean-up that runs while the client is back already.
- Correct when: the caps hold; exactly the executing queries can be stopped; a
  stop reaches every query in its scope and swallows nothing else.

### Sessions, connections and settings: `Sessions`
`agent/session/manager.py`, `session_registry.py`, `lifecycle.py`, `session_config_service.py`, `api/routes/websocket/*`
- State: user -> conversation -> session; latest conversation; a removable lock
  per user; overrides and settings; the tasks and the count of connections.
- Operations: get or create (double check under the user's lock), end a
  session, update one configuration or all, open and clean up a connection.
- Hard: the lock-free fast path against `end_session`; a lock object removed
  while others wait for it; settings that arrive while a session is busy.
- Correct when: turns of a conversation are serial, settings reach busy
  sessions, and nothing is left after the last connection.

### A turn and its tools: `ToolTurns`, with `CallLedger`
`api/services/query_execution.py`, `agent/session/session.py`, `agent/execution/*`, `agent/tools/*`, `tools/*`, `api/handlers/tool_result.py`
- State: the session lock, the place of each turn, results, futures and
  timestamps of tool calls, the registry of resolved calls, the history with
  its staged ids.
- Operations: run the generator under the lock and send what it yields, ask the
  model, prepare and send calls and bundles, wait with a timeout, route a
  result, process it into the history, expire, finalise on cancel.
- Hard: cancellation at every await; a generator left suspended in a send;
  results early, late, twice or never; a wait that ends in three ways at once.
- Correct when: the lock is never leaked, every turn ends, no wake-up is lost,
  and every call is answered once, with its own answer.

### History and its compaction: `Compaction`
`agent/compaction/engine.py`, `agent/session/state.py`, `agent/execution/interaction_loop.py`, `api/handlers/compact_history.py`
- State: history rows, staged ids, the snapshot a summary is made of.
- Operations: compact before a turn, between its requests, after an overflow or
  on request; apply a summary to a history that grew meanwhile; rehydrate; clear.
- Hard: a summary is one model request long, and a stop or `end_session` does
  not wait for it.
- Correct when: nothing cleared returns, nothing appended is lost, a tool output
  keeps its call, an open call can still be answered.

### The socket's outbox: `Outbox`
`api/transport/websocket.py`
- State: a bounded priority queue, one future per message, the sender task.
- Hard: a full queue with a timeout, a sender cancelled or failing in a write,
  `close()` travelling through the same queue.
- Correct when: what a sender is told is true and order is kept but for audio.

### Hosted runs: `RunControl`
`services/vm_run_control.py`, `services/vm_run_control_support/*`, `frontend/src/main/app/vm_worker_runtime.cjs`
- State: the registry of runs with its queues and pending controls; per worker
  its heartbeat tick and its map of active runs.
- Hard: pauses, stops and resumes in any state; lost requests and answers;
  workers that restart or are late.
- Correct when: a run is sent once, the cap holds, a stop reaches its worker.

### The client's managed socket: `ManagedSocket`
`frontend/packages/windie-sdk-js/src/transport/ManagedWebSocketSession.ts`
- State: the current socket, the handshake flag, the demand flag, the reason of
  an intended close, two timers, the waiters.
- Hard: events of sockets that have been replaced, a close that takes its time,
  timers against callers.
- Correct when: a wanted connection is tried for, and no message precedes its
  socket's handshake.

### Local runtime: `ShellProcesses`, `McpClients`
`frontend/src/main/python/tools/system/*`, `frontend/src/main/python/sidecar_daemon.py`
- State: shell sessions with their child, readers, buffers and wait task; MCP
  clients with their process, pending requests and registered tools.
- Hard: a kill while the process ends by itself, bounded buffers, a server that
  dies, never answers or no longer reads, overlapping registration passes.
- Correct when: what the agent is told of a session is true, an answer goes to
  its request, and tools are those of an enabled server.

### Local stores: `Transcripts`, `Semanticizer`, `VectorIndex`
`frontend/src/main/python/memory/*`, `frontend/packages/windie-sdk-js/src/runtime/ConversationRuntime.ts`
- State: chat events and a graph of revisions; rows, summaries and marks in two
  databases; an index file, its mapping and the rows it is about.
- Hard: writes that arrive in another order than they were sent, a crash between
  two databases, files written by another thread, a reset of both indexes that
  takes several awaits.
- Correct when: a transcript is whole, a row is summarised exactly once, and a
  position of the index is the memory it was made from.

### Listed, not modelled
Screenshot resolution (OCR and vision), TTS and wakeword, the LLM client with
its retries, the event bus, the other HTTP routes, the tool catalogue and backend
tools, simulation and SDK context, the projections of the SDK, the Electron main
process, browser and desktop tools, the Python SDK, the renderer, scripts. They
are effects on the outside (a screen, a browser, a provider), schemas, pure
projections or presentation; `PROJECT.json` gives the reason for each, and for
the partly modelled components what is left out. The SDK's conversation runtime
appears as the client of `Transcripts` and as the peer that runs the tools of
`ToolTurns`; its lane for live events is not modelled. The models cover a tenth
of the implementation by lines, nearly all of it in the parts above.

### How the parts interact
The websocket loop makes one task per message (`Sessions`). A query task
registers itself with the tracker (`ActiveQueries`), gets its session
(`Sessions`), takes the session lock and drives the session's generator
(`ToolTurns`, `Compaction`), whose events leave through the outbox (`Outbox`)
and reach the client's socket (`ManagedSocket`). A stop task cancels it through
the tracker. A result task finds the session through the manager and resolves
the future the query task waits on. A hosted run is a query that a desktop
worker sends on behalf of a run (`RunControl`).

The models meet where the code does. `Sessions` has `end_session` and
`clear_user_state`, which are `EndSession` and `ClearUserState` of
`ActiveQueries`; `ToolTurns` and `Compaction` share the session lock and the
staging of calls, the first with every way a result can come, the second with
every way the history can be rewritten. `CallLedger` is what the first two
promise the rest of the system.

## 2. Modules

| module | its state in the code |
| --- | --- |
| `ActiveQueries` | `status[t]` is the place of a query task in `handle_typed`; `tracked` is `active_query_tasks`; `pending` is `pending_stop_requests`; `ending` counts the `end_session` calls between the connection-count check and `clear_user_state` |
| `Sessions` | the registry and the latest session, the user's lock objects, each session's lock, overrides and the versions of settings, the tasks of each connection; `pc[j]` is where a message's task is suspended |
| `ToolTurns` | `pc[t]` is where the handler task of a turn is suspended; `phase[b]` the progress of `process_results` for a batch; `store` is `ToolResultStorage`; `history` is `ConversationHistory` with its staged ids |
| `CallLedger` | the abstract specification of a session: its holder and a log of asks and answers |
| `Compaction` | `history`, `staged`; a row has the tokens of its text and of its image; `snap` is what the summary in flight was asked for, `tail` what it will keep |
| `Outbox` | `queue` is the priority queue with the sequence numbers in `drawn`; `future[p]`, `pc[p]` are of the coroutine that sends or closes; `task` is the sender task |
| `RunControl` | `status`, `assigned`, `runQueue`, `stopPending` are the registry; `tick`, `mapped`, `live`, `relay` the worker |
| `ManagedSocket` | `session` holds the object's fields, `sockets` every socket it has created, `ensure[r]` the place of a call of `ensureConnected` |
| `ShellProcesses` | `child`, `printed` are the process; `read`, `pendingOut`, `kept`, `truncated` the buffers; `running`, `finished` the registries |
| `McpClients` | `proc`, `pending`, `nextId`, `initialized` are a client's fields; `registered`, `tools`, `spec` the daemon's; `alive`, `inbox`, `answers` the servers; `draining` the coroutines suspended in `stdin.drain()` |
| `Transcripts` | `state`, `parent`, `active`, `displayed` are the revision nodes; `stored` the events; `write[w]` the progress of an append on its way to the store |
| `Semanticizer` | `row[r]`, `chat[r]` are the interaction rows, `summaries` the semantic memories, `job` the loop |
| `VectorIndex` | `index`, `file`, `metadata` are the index in memory and on disk; `mapping` is positions to memories; `embedding` the column of the rows; `add[c]` is the place of an addition or search, `delete[m]` of a deletion |

`MCActiveQueries`, `MCToolTurns`, `MCSessions`, `MCCompaction` are instances for
TLC. `MCServices` (outbox, hosted runs, managed socket), `MCLocalRuntime` (shell,
MCP) and `MCLocalMemory` (the three stores) check components that share no state
in one run each: the variable `scene` or `focus` says which one runs, and the
others stay in their initial states. The proofs are in
the modules section 4 names.

How actions correspond to code:
- `ActiveQueries`: the four outcomes of `register_active_query_task_with_limits`
  are `RejectUserLimit`, `RejectGlobalLimit`, `SwallowStopped`, `Register`; the
  two of `cancel_active_query_task` are `StopRunning`, `StopIdle`; `Finish` is the
  handler's finally clause. Counting prunes finished tasks, and so does every
  action that counts.
- `ToolTurns`: the model side of a turn (`Submit` ... `ModelCallsTools`), preparing
  and sending (`PrepareLocal` ... `CloseGenerator`), `process_results`
  (`CollectStale` ... `Timeout`), cancellation (`CancelOutside` ... `Finalize`), and
  the SDK with the result handler (`SdkReplies`, `RouteLookup`, `RouteStore`). A
  *batch* is the tool calls of one response. A turn whose handler is interrupted
  in a send leaves its generator suspended (`abandoned`); closing it releases the
  lock first and then runs `run_loop`'s finally clause, whose waiting is nobody's
  turn any more (`detached`).
- `RunControl`: every method of the service is one step, because it runs under a
  lock that it never holds across a suspension; a tick of the worker is one step
  per request.
- `ManagedSocket`: one action per listener, timer and method, and one per
  outcome of the hook and of the constructor.
- `Sessions`, `Compaction`, `Outbox`, the local runtime and the stores: one action
  per piece of a coroutine between two awaits, named for what it does.

### Abstractions
- Messages, refs, payloads and characters are model values or numbers; wording,
  logging and diagnostics are left out.
- asyncio's lock is FIFO; in `ToolTurns` any waiter may get it (more behaviours).
- In `ToolTurns` single requests and bundles share one set of maps; their ids are
  never shared and the code is the same. What the TTL reclaims is any set of
  entries but the batch just processed.
- Provider errors are an answer row: they end the loop the same way.
- A query's images are artifact refs, so a user message never replaces the
  screenshot; staleness is checked for single calls only, as in the code.
- In `Compaction` a row is one token for its frame (role, ids, calls) and those of
  its text and image; truncation cuts the text and drops the image, and leaves a row
  alone whose text is not too large. The thresholds are constants. A batch's ids are staged, consumed and answered together.
- The stdout and stderr of a shell session go through the same code and are one
  stream; sessions have pipes.
- `McpClients` has one server id; more of them share nothing but the HTTP server.
  Only the arguments of a tool call fill an empty pipe; whoever writes to a full one
  waits, until the server reads or ends.
- `RunControl` does not keep the order of pending controls: a worker acts on
  stops only. Events that do not end a run arrive at once.
- A vector of `VectorIndex` is the memory it was made from. It models one kind of
  memory; searches and additions of the other kind (`Others`) reset and save both
  indexes. `second` says whether this is the kind that is cleared second.

### History variables
Some variables are read by the properties only (and, where said, by bounds):
`stops`, `swallowedAt`, `overlapped` of `ActiveQueries`; `writes`, `ahead` of
`Outbox`; `flaws` of `Sessions`; `gen`, `dropped` of `Compaction`; `sends`, `halted`,
`lost`, `skipped`, `revived` of `RunControl`; `reasonOf`, `gaveUp`, `displaced`,
`borrowed` of `ManagedSocket`; `shown` of `ShellProcesses`; `answers`, `overlapped`,
`latest` of `McpClients`; `raced` of `Transcripts`; `empty`, `dropped`,
`interrupted` of `Semanticizer`; `early`, `flaw` of `VectorIndex`. Several of them mark a
known exception, so that a property can say exactly how far the code keeps it.

## 3. Runs

| run | instance | checks |
| --- | --- | --- |
| `ActiveQueriesCaps` | 2 users, 4 queries, caps 2 and 3, 1 unmatched stop, 1 `end_session` per user | `WithinCaps`, `ExecutingIsTracked` |
| `ActiveQueriesLatch` | 1 user, 2 queries, 1 conversation, 2 turn refs, 2 unmatched stops, grace 1, clock to 2 | `TrackedNotLatched`, `SwallowsMatchStops`, `StopHonoured` |
| `ToolTurnsSafety` | 2 turns, 2 batches, bundles of 2, one result per batch, 1 cancellation per turn, all faults | `LockMatchesGenerator`, `StorageSound`, `OwnOutputUnlessOrphaned`, `SingleResultKept`, `KeepsLedger` |
| `ToolTurnsHistory` | the same without faults | `ModelSeesPairedCalls` |
| `ToolTurnsLive` | 2 turns, 1 batch, 2 results for it, 2 cancellations per turn, all faults, fairness | `TurnsEnd` |
| `Sessions` | 2 connections, 2 queries, 1 compaction, 1 settings message, overrides, global changes | `TurnsAreSerial`, `SettingsArrive`, `NothingLeftBehind`, `JobsEnd` |
| `Compaction` | 2 turns, 1 manual compaction, 2 batches with an output of no text or of 4 tokens, 1 query with an image of 3, 1 stop, 1 replacement of the history | `NothingClearedReturns`, `TailSound`, `OpenCallsStaged`, `ConcurrentRowsSurvive`, `JobsEnd` |
| `Services` | outbox: 3 sends (1 audio), 1 close, a queue of 2; runs: 2 runs in one workspace with cap 1, 2 workers and 1 control, or 1 worker with 1 fault and 2 controls; socket: 2 callers, 3 sockets, 1 close | `OutcomeIsTrue`, `WritesInOrder`, `QueuedIsAnswered`; `SentOnce`, `CapPerWorkspace`, `StopReachesWorker`, `RunsSettle`; `TriesWhileWanted`, `OneShakenSocket` |
| `LocalRuntime` | shell: 1 session, 2 callers, 4 characters, caps 2 and 3; MCP: 2 clients, 2 launch keys, either 2 processes, 1 call and 2 passes whose `tools/list` has one page, or 1 process and 3 passes with pages until a client has numbered 3 requests | `SessionTellsTruth`, `GoneStaysGone`; `ToolsOfEnabledServer`, `AnswerIsOwn`; `RequestsEnd` |
| `LocalMemory` | 2 revisions, 3 events, 1 checkpoint, 2 pages of 1 event; 3 rows, 2 chats, batches of 2, 2 faults, 1 deletion; 2 memories, 1 search or addition of the other kind, 2 spaces, 1 stop | `TranscriptIsWhole`, `ParentWriteIsInert`; `SemanticizedOnce`, `AllSemanticized`; `ResolvedIsOwn` |

Why the bounds are enough.
- `Caps`: each cap is reachable without the other, the third query of a user
  below the global cap, and the fourth query with two of each user at it.
  `Latch`: every scope meets queries inside and outside it, before, at and after
  the end of the grace period, and two latches can overlap.
- `Safety`: two batches are the fewest with which one turn's output can meet
  another's staged call, and a bundle of 2 the smallest for which consuming one id
  and all of them differ. Duplicated results are in `Live`.
- `Sessions`: the two scenes of `MCSessions` are every message with one global
  change, or two global changes without the compaction and the settings message;
  two connections are the fewest with which one can close while another opens. A
  session that is passed by under a removed lock (`Crossed`) needs more of both; the
  theorem covers it.
- `Compaction`: a tail budget of 3 is below two small turns and above one, so
  trimming happens with and without a large tool output. The large output is cut to
  the budget; the query with the image is above it and is left as it is.
- `Services`: three senders fill a queue of two and wait for a place; a workspace
  with cap 1 and two runs of one conversation meets the cap, the clash and the
  reassignment. Faults with two workers would make the instance too large and
  concern one worker at a time. With three sockets one can be replaced while
  it is open and once more while its handshake is built.
- `LocalRuntime`: 4 characters exceed both caps in more than one chunking; two
  passes and two clients are what an overlap needs, and the third pass is what two
  passes that close the same client need, since the first has to register it.
  Passes are alike but for their number, and begin in its order.
- `LocalMemory`: with two revisions an edit has a parent, whose late writes matter; three
  events do not fit two pages of one, so a read can be cut short by the number of
  pages; 3 rows in batches of 2 leave a small batch that has to age; 2 memories are enough
  for a position to be reused after a reset, and with the third caller two resets meet
  under an addition. Events and conversations differ only in name, so the events
  are emitted in the order of their numbers and the first row is of one conversation. The vectors run up to the first `flaw`, after which only the
  types are claimed.

`MaxBatches`, `MaxStops`, `MaxTime`, `MaxEndings`, `MaxSessions`, `MaxControls`,
`MaxFaults`, `MaxSockets`, `MaxCloses`, `MaxPrinted`, `MaxProcs`, `MaxIds`, `MaxRows`,
`MaxDeletions`, `MaxGens` and the number of `Locks` bound what the code does not. Deadlock checking is
off everywhere: messages run out and the programs may be idle for ever.

### Runs that show a disagreement

| run | property | in short |
| --- | --- | --- |
| `SessionsReconnect` | `EndsOnlyWithLastConnection` | `end_session` waits for the user's lock; a connection that opens meanwhile loses its sessions |
| `CompactionStop` | `StoppedCallsAnswered` | a manual compaction between a stop and its finalisation drops the staged ids: the calls are never answered |

### Fairness
Weak fairness is stated for steps that the event loop or a timer takes by
itself, never for users, stops, faults or remote peers.
- `ToolTurns.FairSpec`: each turn's own steps and each batch's steps; the model
  request returns (the client has request timeouts), a send returns or fails.
  A result may never come. It includes the acquisition of the lock, which asyncio
  grants in FIFO order, and the closing of an abandoned generator, which the
  event loop's asyncgen hook schedules.
- `Sessions`, `Compaction`: the steps of each task. In `Compaction` entering the lock
  is strongly fair, because the lock is FIFO and the model lets others overtake.
- `Outbox`: the sender task, a put or its timeout, and the resumption of an
  answered coroutine. `RunControl`: a worker that is on polls, and its tick goes on.
- `ShellProcesses`, `McpClients`: the requests' own steps and timeouts; the child
  and the server owe nothing. So `RequestsEnd` leaves out whoever waits for a running
  server to read, which has no timeout in the code; `MaxIds` leaves out a
  `tools/list` that always has a next page. `Semanticizer`: the loop, the ageing of rows and the
  user's deletion once begun.

## 4. Proofs

TLAPS checks every theorem below for all values of the constants. Each rests on
the module's `ASSUME` and nothing else, but for `PairedTheorem`, which says under
which faults it holds. The inductive invariants were checked by
TLC on small instances before they were proved.

| module | theorem | states |
| --- | --- | --- |
| `ActiveQueriesProofs` | `CapsTheorem`, `TypeCorrect` | `WithinCaps`; the types alone |
| | `ExecutingTheorem` | `ExecutingIsTracked` |
| | `TrackedNotLatchedTheorem` | `TrackedNotLatched` |
| | `StopHonouredTheorem` | `StopHonoured` |
| | `SwallowsTheorem` | `SwallowsMatchStops`; from `SwallowTheorem` (a stop that covers the query) and `ConservationTheorem` (no stop swallows two) |
| `ToolTurnsProofs` | `LockTheorem` | `LockMatchesGenerator` |
| | `StorageTheorem` | `StorageSound` |
| | `SingleResultTheorem` | `SingleResultKept` |
| | `TypesTheorem` | `TypeOK` of `ToolTurns` |
| | `OwnOutputTheorem` | `OwnOutputUnlessOrphaned` |
| | `LedgerTheorem` | `KeepsLedger`: the session implements `CallLedger` |
| | `PairedTheorem` | `ModelSeesPairedCalls`, when no fault occurs (`Faults = {}`) |
| `ServicesProofs` | `OutcomeTheorem` | `OutcomeIsTrue` |
| | `OrderTheorem` | `WritesInOrder` |
| | `DrainTheorem` | the first half of `QueuedIsAnswered`; the second is liveness |
| | `SocketInvariant` | the inductive invariant of `ManagedSocket` |
| | `TriesTheorem` | `TriesWhileWanted` |
| | `ShakenTheorem` | `OneShakenSocket` |
| | `SentOnceTheorem` | `SentOnce` |
| | `CapTheorem` | `CapPerWorkspace` |
| | `StopReachesTheorem` | `StopReachesWorker` |
| | `AssignmentTheorem` | a run is never assigned to a second worker |
| | `WaitingTheorem` | a run without a worker is in its queue, or was skipped there: the safe half of `RunsSettle` |
| `CompactionProofs` | `NothingReturnsTheorem` | `NothingClearedReturns` |
| | `TailTheorem` | `TailSound` |
| | `OpenCallsTheorem` | `OpenCallsStaged`, with the types |
| | `SurvivalTheorem` | `ConcurrentRowsSurvive` |
| `SessionsProofs` | `SerialTheorem` | `TurnsAreSerial` |
| | `NothingLeftTheorem` | `NothingLeftBehind`, with the types |
| | `SettingsTheorem` | `SettingsArrive` |
| | `NoCircularWaitTheorem` | nobody waits in a circle: the safe half of `JobsEnd` |
| `LocalRuntimeProofs` | `ShellTruthTheorem` | `SessionTellsTruth` |
| | `GoneStaysTheorem` | `GoneStaysGone` |
| | `ToolsTheorem` | `ToolsOfEnabledServer`, with the types and `PendingIsWaiting` |
| | `AnswerTheorem` | `AnswerIsOwn` |
| `LocalMemoryProofs` | `SemanticizedTheorem` | `SemanticizedOnce` |
| | `ResolvedTheorem` | `ResolvedIsOwn` |
| | `TranscriptTheorem` | `TranscriptIsWhole`; `OneHeadTheorem` is its part about revisions |
| | `ParentWriteTheorem` | `ParentWriteIsInert` |

`DataFacts` holds facts of sequences, of sets of numbers and of functions that are defined
step by step, which the others use.

### `ActiveQueriesProofs`
- *Admission.* The caps and `ExecutingIsTracked` are inductive together with
  `EndingSpares`: while an `end_session` is in progress, the queries of its user
  that execute are all `overlapped`. Without it `ClearUserState` could untrack a
  query that is neither. The caps need that the pruned tracker equals the
  tracker, and one cardinality lemma per way the set shrinks or grows.
- *Latches.* `LatchesFromStops` says that a latch armed until `e` has a stop of
  that user and scope sent `Grace` before `e`. `TrackedNotLatched` is inductive
  beside it: registering consumes or finds expired everything in the four
  candidate keys, which are all the scopes that cover the query, and a stop that
  arms a latch has just found no tracked query in its scope.
- *Conservation.* By injection: each step's effect on the swallowed queries, the
  armed latches and the stops is a lemma about adding to or removing from a
  finite set.

### `ToolTurnsProofs`
- `ControlInv` ties the place of a turn to the batch it works on: one owner per
  batch (`OneOwner`), batches numbered in the order of their responses
  (`Numbered`), what a place implies about the batch's phase (`ProcessedBatch`,
  `RegisteredWhileOpen`). `ControlMove` is the lemma about a step that moves one
  turn, and most actions are instances of it. `LoopInv` is the part about the
  waiting, which outlives the turn when its generator is abandoned.
- `DataInv` adds the storage: what is stored, what has an open future and what
  has a timestamp. Storing beside an open future is excluded because the futures
  of a batch are created in the step that takes what was stored.
- *Whose output.* `HistoryInv` has three parts: a staged id is that of a call
  that was asked and is still open, once (`StagedOpen`); the history mentions used
  batches only, so that a new batch's ids are new (`Mentioned`); and while a turn
  is busy with a batch, the ids staged are its own (`StagedOwn`). Only an orphaned
  generator finds others'.
- *The refinement.* A row of the history maps to an entry of the ledger. Every step
  appends rows, and the lemmas `Processed` and `Grows` say which: asks of a new
  batch, or answers to staged ids, each of which leaves the staged ids at once.
  By `StagedOpen` such an answer is the first one. The holder of the lock is that
  of `LockTheorem`.
- *What the model is shown.* Each assistant row of the history is `Settled` (the rows right
  behind it answer its calls, in order), or it is the last row and `Awaits`: all of its
  calls are staged. That is `Tidy`, and `AwaitInv` adds that something is staged only while the turn in the lock is busy with
  its batch. So a turn that asks the model finds every row settled (`Unstaged`). The
  request is the history without the answers to calls that no row before them makes
  (`Orphan`); those do not stand between a settled row and its answers (`KeptTogether`).
  The hypothesis cannot be weaker: each of the three faults by itself breaks the property,
  as TLC shows (section 5). A cancellation, also in a send, does not.
- *Recursion.* `AddOutputs` folds over the outputs of a bundle with a recursive
  function, and so does `NormalizedForProvider` over the rows. The induction theorems of
  the library cannot be instantiated here, so `DataFacts!LeastNat` takes their place: among the numbers at which a claim
  fails there is a least one, and the step before it holds.

### `ServicesProofs`
The three services share no state; each theorem is about the specification of its own
module.
- *The backend's socket.* `PlaceInv`: where a coroutine is and what its future says agree, and a message
  that the sender task still holds is of a coroutine that waits or was cancelled.
  `WriteInv`: it is unwritten as long as it is held. Together they give
  `OutcomeIsTrue` for the senders; `CloseInv` gives it for `close()`, which learns
  the outcome only from a sender task that has ended (and then the event is set).
- `OrderInv`: whoever was queued before a put began has the lower number, also
  when the put is retried with a new one. So when a later message is taken
  first, its priority is what put it first.
- Many actions are one of two kinds, `Starts` (a put begins or begins again) and
  `Leaves` (the coroutine is done with its message), which are proved once.
- *The client's socket.* `TriesWhileWanted` is not inductive: a close event consults the reason of an
  intended close and the socket it was for. `ReasonInv` says that the reason's
  socket is on its way out; `HandInv` that a handshake is built on a socket that has
  opened; `LeftBehind` that a live socket is the session's own or was displaced.
- *Runs.* `IInv` is `RunTypeOK`, `QueueInv` (a run is in one queue, and its status
  fits), `AssignInv` (an assignment is final, and the worker that executes a run is
  the assigned one) and `StopInv` (where a stop may be between the registry and the
  worker). The cap follows from counting the assigned runs of a workspace, with
  `revived` as the named exception. `WaitingIsQueued` is the converse of `QueueInv`: a
  heartbeat takes from the front of a queue only the run it binds and those it skips.

### `CompactionProofs`
- `Sound(h, ...)` says of a history what every property needs: its rows are of the
  present generation, a call comes before its answers and is answered, staged or
  dropped, and (`Tight`) between a call and its answer, or after the call whose ids are
  staged, no unlinked output is recorded. It is preserved by an append under named
  conditions (`SoundAppend`) and by a summary in place of the first rows
  (`SoundReplaced`); every step is one of the two, or starts a new history.
- *The stale check.* `compact` gives up unless the history extends what was summarised.
  What it summarised has rows (`Summaries`), so when it does not give up its first row is
  the history's own, and the summary is of the present generation.
- *The tail.* `FitFacts`: the candidates at which a turn starts are finitely many, so
  there is a least one that fits; the tail is the rows of the history from there on
  (`SuffixFrom`), texts and images aside. It fits, or it is one row whose text does
  (`Fits`, `TruncatedFacts`). A tail that starts with a user row can part a call from
  its answer only at an unlinked output between the two, which `Tight` excludes
  (`LinkedKept`). `TailLinked` alone is not inductive for that reason.
- *Jobs.* `Control` and `JobMoves`: the job that holds the lock is the one past its
  beginning, so at most one summary is in flight, and `snap` and `tail` are its own.
- *Rows that arrive meanwhile.* Every step extends the history, or installs `Condensed`
  followed by what was appended, and may extend that (`GrowsOrRewrites`).

### `SessionsProofs`
- *One turn at a time.* That two turns of a conversation never run together depends on
  the lock of their session, so it needs that the conversation has one registered
  session (`Distinct`) and that the holder of a lock is the head of its queue.
  `Queued`: what is in the queue of a lock is there once, is at work and, unless it
  has been cancelled, works on a session that is registered.
- *Nothing left.* `LiveOpen`: the connection of a task that is at work is open, or has
  cancelled the task. `Attended`: sessions exist only while a connection of the user
  is counted, or about to end them. So when the count is 0 every task is cancelled, and a
  cancelled one creates nothing.
- A step moves one task (`TaskStep`) or one connection's clean-up (`VisitorStep`); most
  actions are instances of one of the two lemmas.
- *Settings.* `SettingsArrive` speaks of the moment when all is quiet; what is invariant
  is `Due`: a session that has not the newest config is going to get it, from a round of
  the deferred task that is yet to take its snapshot, that knows it was overtaken, or
  that has the newest config and the session ahead, or from
  `update_all_sessions_config`. Three more conjuncts make it inductive. `Ways`: a visitor
  waits in the queue of the first session it has ahead, and goes along the sessions in
  the order of their creation. `Excluding`: `update_all_sessions_config` holds its lock
  throughout, so (`Current`) neither the config nor the registry changes while it has
  registered sessions ahead. `Followed`: the version that a round compares at its end
  does not count changes of the base config, so a round can end with an old config
  unaware; but then `update_all_sessions_config` is behind it, in the same queue at the
  latest, and overwrites what it applied.
- That last conjunct is why the order of the queues matters (`Precedes`): each queue is
  served in order and both visitors take the sessions in the same order, so the one
  that is behind stays behind (`Behind`).
- The proof found the exception `Crossed`: an `update_all_sessions_config` under a lock
  object that was removed excludes nobody, and a settings patch or a new session that
  comes meanwhile may leave a session an older config. TLC reaches that in an instance
  with four connections, not in the run; without the exception `Current` does not hold.
- *No circle.* `NoCircularWait`: whoever waits for the user's lock or a session's can go
  on, or the head of its queue can, or that is `update_all_sessions_config`, which holds
  the user's lock while it waits for a session whose head can. `SessionLines`: an actor is
  in the queue of one session at most, once, and works there only as the head that holds
  the lock. `LockLines`: it is in the queue of the lock object it refers to and no other,
  also when that object has been removed from the dictionary and several are in use.
  A step moves one actor in the queues (`SessionMoves`, `LockMoves`), the end of the
  sessions also the deferred task.

### `LocalRuntimeProofs`
- *Shell output.* `Covers(q, from, to)`: the chunks of `q` are the characters after
  `from` up to `to`, without gap or overlap, so their sizes add up to `to - from`
  (`TotalSizeFacts`). A chunk at the end, the chunks from the k-th on, and the cut of the
  first of them preserve it, which gives `CapFacts`: what `_cap_pending_buffer` leaves are
  the last `cap` characters, however they were chunked.
- *Shell sessions.* `Life` ties the process, its reader, its wait task and the registries
  together: an entry whose wait task is gone has a removal that is about to delete it;
  a reader that was not cancelled has read everything once the wait task is over.
  `Called` says what the place of a request implies; with it only a kill can
  finish a session that was deleted meanwhile (`GoneStaysGone`).
- *MCP answers.* `IdInv`: the numbers a client has given out are below its next one, and
  no two requests that wait share one. `MessageInv`: whatever is on its way to or
  from a process of the client (also one it started earlier and has replaced), if
  its number is that of a request that waits, is of that request. `OwnerInv`: a
  reader reads only from processes of the client whose requests it resolves.
  Every step either sends one request (`Asks`) or sends none (`Settles`). `DrainInv`
  says who may wait for a server to read: it has written, whatever became of its
  request since.
- *MCP tools.* `PassInv`: until two passes overlap, at most one is in progress, it is
  the last one, and until it is done its client is the registered one and has no
  tools; and of a client it closes nobody else takes the process away, so `CloseRaises`
  needs an overlap. Steps of calls, servers and readers leave all that alone
  (`Undisturbed`).

### `LocalMemoryProofs`
The three stores share a run and no state; each theorem is about the specification
of its own module.
- *Summaries.* `RawOnce`: a raw row that a summary covers is in the batch about to be
  marked, or was in one when a cycle was interrupted. `BatchOnce`: what is in the
  loop's batch has no other summary, unless it was interrupted. `Present`: batches and
  summaries are of rows that were stored, so an empty id is never in one. Windows are
  taken from the raw rows, so no row is summarised twice without an interruption.
- *Vectors.* `Positions`: while a reset is between its steps (`Clearing`) there are no
  vectors. The next id is the length of the index and the mapping names the position of
  each memory's own vector, unless the reset has yet to come to this kind (`Unreset`);
  the rows' ids do unless it is under way; additions keep their positions.
  What the mapping has can be taken out of it: the row, or the deletion that has read it,
  still has that very id (`RowIs`), or the memory is one of `early`. `Artifacts`: with
  nothing under way the file is the index or empty, and a used index has a row. `Order`
  says what the place of a deletion implies about the addition. A start compares
  only *how many* rows have an id with the length of the file: as the ids are distinct
  positions of it (`AllPositions`, by counting), equality means that every position is
  some row's.
- *Revisions.* `OneActive` is inductive by itself: storing a revision either leaves
  the one active or replaces it. `Graph` adds that a revision is at most one other's
  child, and that no two are each other's parent, so a parent has rank 0 beside its
  active child, and by `OutrankedIsInert` its late write moves nothing. That some
  revision is current needs a greatest rank and a greatest time among any number of
  revisions; the times are bounded by the clock.
- *Pages.* `Indexing`: unless two appends read the same index, the stored events have
  distinct indexes, and the one append that has read an index has a greater one. So the
  rows are `Placed`, and a `Limit` is the `Lowest` k of them, k by number or all
  (`LowestCount`). If the rows up to a cursor are the lowest a, the next page holds those
  that make it the lowest a + `PageSize`, and its last index is the next cursor
  (`LowestPage`). That all the pages together are the lowest `MaxPages` * `PageSize`
  follows page after page, as in `DataFacts!LeastNat` (`PagesLemma`).

### Only model-checked, and why
`TurnsEnd`, `JobsEnd`, `RunsSettle`, `RequestsEnd`, `AllSemanticized` and the second
half of `QueuedIsAnswered` are liveness under fairness, which the provers here
do not reach. Of `JobsEnd` (of `Sessions`) and `RunsSettle` the part that is safety is
proved: no circle of waiting, no run that nobody will find.

## 5. Where code and expectation part

Met while modelling; the properties state how far the code does keep the promise.
- A stopped query leaves the tracker while it still unwinds, so
  `has_active_query_task` is false for it and running queries may exceed the caps.
  A query received during an `end_session` may lose its tracking
  (`ExecutingIsTracked`, `overlapped`).
- A bundle result that comes before its future exists is dropped (`manager.py:433`);
  a single call's is not (`SingleResultKept`).
- An output takes the next staged call id (`agent/session/state.py:454`), so an
  orphaned generator can answer another turn's call (`OwnOutputUnlessOrphaned`).
  With speech on, a next turn may ask the model before the stopped one has
  answered its calls (`query_execution.py:344`); so it may after a send that failed, and
  an error while tools are prepared puts its row between the calls and their answers
  (`ModelSeesPairedCalls` is for runs without these). The answer to a malformed call has
  no assistant row and is dropped from the request (`interaction_loop.py:875`). The
  check for an outdated screenshot comes after the dispatch
  (`tools/single_tool_execution.py:119`). The registry of resolved calls keeps
  bundle steps for the life of the session (`preparer.py:198`).
- A message put after the outbox has drained waits for ever
  (`api/transport/websocket.py:92` and `:160`; `QueuedIsAnswered`). The fallback of
  `close()` that cancels the sender is dead code (`OutcomeIsTrue`).
- `end_session` removes a user's lock that others wait for (`manager.py:532`), and who
  asks next gets another one, against "each user gets one lock used by
  create/update/end operations" (`backend/docs/runtime/session_state_and_lifecycle.md:46`). A settings handler that has
  to queue for a session and a change that passes `update_all_sessions_config` by under
  another lock object leave a session with an older config (the flaw "config").
- Two appends that read the same maximum get the same index and paging can miss
  an event (`chat_event_store.py:865` and `:912`; `raced`); an append that comes after
  a deletion recreates the revision; a late write of a grandparent takes the active
  flag, which `ParentWriteIsInert` excludes for a parent only
  (`frontend/plans/2026-06-23-superseded-turn-live-lane-plan.md:27`).
- A kill that is under way can put a removed shell session back (`GoneStaysGone`),
  and a request whose wait task is cancelled gets no reply.
- Two calls can spawn two server processes (`sidecar_daemon.py:598`); the end of a
  server's output fails nothing that waits (`:650`), which times out, and neither does
  a reader that starts after `close()` (`:644`). `drain()` comes before the timed wait
  (`:725`, `:776`), so a running server that reads no more blocks its callers without a
  limit, and the loop over `nextCursor` (`:796`) has none either (`RequestsEnd` leaves
  both out). The second of two passes that close one client finds no process and
  raises (`:836`): a server that was disabled keeps its tools (`:1160`). Overlapping
  registration passes leave tools of an older server executable, against
  `frontend/docs/development/mcp.md:176`.
- A crash between the vector file and its rows, a reset of the index under an addition
  or a save, or an addition to an index that is still being cleared leaves a position
  that resolves to another memory (`flaw`): the indexes are replaced at once, mappings
  and ids only after awaits (`local_store.py:428`), and the two searches of one request
  are gathered and may both reset (`local_backend_memory_handlers.py:251`). A
  memory that is deleted between the commit of its row and its mapping
  (`local_store.py:740`) stays resolvable (`early`), against "stale vectors cannot be
  resolved back to memory IDs" (`:1633`).
- A tail of one row may stay above its budget: only the text is cut, and not at all if
  the text alone fits (`agent/compaction/engine.py:406`; `TailSound`).
- A late acknowledgement revives a run that was stopped or has ended
  (`vm_run_control.py:507`), so the cap of
  `docs/automation/vm_run_control_change_workflow.md:84` can be exceeded
  (`CapPerWorkspace`, `revived`). A run that is popped while it is paused is in no
  queue when it is resumed (`vm_run_control_assignment.py:42`, `skipped`). A lost
  heartbeat response loses the assignment and the drained commands
  (`vm_run_control.py:471`), a failed post of run-control-applied the rest of its
  tick, a clash of conversations the assigned run (`lost`). After a worker's crash
  nothing times out. Skipping runs that are reserved for another worker is dead
  code: an assignment is final (`AssignmentTheorem`).
- The reason of an intended close outlives the socket it was meant for, after
  `close()`, after a failed handshake, and after an idle close that a caller
  overtakes: the next unexpected close of a later socket is then not followed by a
  reconnect, which
  `frontend/docs/frontend/main/websocket_handshake_and_settings_sync_reference.md`
  promises (`TriesWhileWanted`, `gaveUp`). A failed handshake, a hook or a
  constructor that throws leaves the demand without a retry. A caller that comes
  during an asynchronous handshake creates a second socket and orphans the first,
  and a handshake that is done for a replaced socket marks the new one as shaken
  (`OneShakenSocket`, `displaced`, `borrowed`). `close()` while a hook runs is undone
  by the pending `ensureConnected`. `ManagedAgentSession` builds its handshake
  synchronously and gives no hook, so the last three need the options' asynchronous
  forms.

## 6. Plan
Every safety property a passing run checks is a theorem. Next: the SDK's projection of streamed events and the browser tools of the local runtime, which
no module covers.
