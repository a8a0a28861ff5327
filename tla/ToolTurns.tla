------------------------------ MODULE ToolTurns ------------------------------
(***************************************************************************)
(* The agent's tool loop on one conversation session: query turns that     *)
(* take the session lock one after the other, ask the model, dispatch a    *)
(* tool call (or a bundle of them) to the SDK's local runtime and wait for *)
(* the result; the result handler that finds the session by correlation    *)
(* id and stores the result; timeouts; the user's stop; and the rows each  *)
(* of them writes into the conversation history the next model request is  *)
(* built from.                                                             *)
(*                                                                         *)
(* A batch is the tool calls of one model response, numbered in order.  It *)
(* has one correlation id: the request_id of a single call, the bundle_id  *)
(* of a bundle.  The storage keeps the two kinds of ids in separate maps   *)
(* with the same code, so one set serves both.                             *)
(*                                                                         *)
(* A step is what an asyncio task does between two suspension points.      *)
(***************************************************************************)
EXTENDS Integers, Sequences, FiniteSets

CONSTANTS
  Turns,      \* query handler tasks of the session
  NoTurn,     \* the free lock
  BundleSize, \* tool calls in a bundle
  Faults,     \* which of AllFaults the environment shows
  MaxBatches, \* bound: tool-calling model responses
  MaxCopies,  \* bound: results the SDK sends for one batch (1: no duplicates)
  MaxCancels  \* bound: CancelledErrors delivered to one turn

\* "speech": a TTS service has to be shut down when a turn ends; "send": the
\* connection can fail under a send; "execute": sending tools can raise.
AllFaults == {"speech", "send", "execute"}

ASSUME ConstantsAssumption ==
  /\ NoTurn \notin Turns
  /\ BundleSize \in Nat \ {0, 1}
  /\ Faults \subseteq AllFaults
  /\ MaxBatches \in Nat /\ MaxCopies \in Nat /\ MaxCancels \in Nat

Batches == 1..MaxBatches
Messages == Batches \X (1..MaxCopies)

VARIABLES
  pc,        \* turn -> where its handler task is suspended
  fate,      \* turn -> "run", or why the tool loop is being left
  cancels,   \* turn -> cancellations delivered
  lock,      \* AgentSession._lock
  cur,       \* turn -> its current batch, 0 before the first
  kind,      \* batch -> "none" | "single" | "bundle" | "malformed"
  phase,     \* batch -> progress of process_results for it
  abandoned, \* turns whose handler task left the generator suspended at a yield
  detached,  \* batches left to whoever closes such a generator
  store,     \* ToolResultStorage: [results, futures, stamps]
  arrived,   \* batches whose waiting future has been given the result
  resolved,  \* resolved-call registry: <<b, 0>>, or <<b, i>> for bundle step i
  screen,    \* does the session have a current screenshot?
  ground,    \* batch -> is the screenshot its coordinates came from current?
  history,   \* ConversationHistory: [rows, staged, all]
  dispatched,\* batches whose tool event was handed to the connection
  msg        \* result message -> its way through the result handler

turnVars == <<pc, fate, cancels, lock, cur, abandoned>>
batchVars == <<kind, phase, detached>>
toolVars == <<store, arrived, resolved, screen, ground>>
netVars == <<dispatched, msg>>
vars == <<turnVars, batchVars, toolVars, history, netVars>>

PCs == {"absent", "lock", "context", "ready", "llm", "prepare", "backend",
        "sending", "tools", "answered", "closing", "tts", "done"}
\* The generator of a turn in one of these is inside the session lock ...
Holding == {"context", "ready", "llm", "prepare", "backend", "sending", "tools", "answered"}
\* ... and in one of these it is either awaiting something itself, or suspended
\* at a yield while the handler task awaits the send of the yielded event.
Yielding == {"context", "ready", "llm", "backend", "sending", "answered"}

Calls(b) == IF kind[b] = "bundle" THEN BundleSize ELSE 1

CallIds(b, k) == [i \in 1..(IF k = "bundle" THEN BundleSize ELSE 1) |-> <<b, i>>]

-----------------------------------------------------------------------------
(* ToolResultStorage *)

EmptyStore == [results |-> {}, futures |-> {}, stamps |-> {}]

StoreResult(s, b) == [s EXCEPT !.results = @ \cup {b}, !.stamps = @ \cup {b}]

RemoveResult(s, b) ==
  IF b \in s.results THEN [s EXCEPT !.results = @ \ {b}, !.stamps = @ \ {b}] ELSE s

CreateFuture(s, b) == [s EXCEPT !.futures = @ \cup {b}, !.stamps = @ \cup {b}]

\* Both resolving and removing a future drop its timestamp unless a result is
\* stored under the same id.
DropFuture(s, b) ==
  IF b \in s.futures
  THEN [s EXCEPT !.futures = @ \ {b},
                 !.stamps = IF b \in s.results THEN @ ELSE @ \ {b}]
  ELSE s

\* cleanup_old_results: which entries are older than the TTL is up to the clock.
Expire(s, old) == [results |-> s.results \ old, futures |-> s.futures \ old, stamps |-> s.stamps \ old]

-----------------------------------------------------------------------------
(* ConversationHistory *)

NoCall == <<0, 0>>
Row(type, call, from, out) == [type |-> type, call |-> call, from |-> from, out |-> out]
ToolRow(call, from, out) == Row("tool", call, from, out)

AddRow(h, row) == [h EXCEPT !.rows = Append(@, row)]

\* add_tool_output: the output answers the staged call, or all of them when the
\* batch is a bundle, or no call at all when none is staged.
AddToolOutput(h, from, out) ==
  CASE h.staged = <<>> -> AddRow(h, Row("unlinked", NoCall, from, out))
    [] h.staged # <<>> /\ h.all ->
         [rows |-> h.rows \o [i \in DOMAIN h.staged |-> ToolRow(h.staged[i], from, out)],
          staged |-> <<>>, all |-> FALSE]
    [] OTHER ->
         [rows |-> Append(h.rows, ToolRow(Head(h.staged), from, out)),
          staged |-> Tail(h.staged), all |-> FALSE]

\* The individual path of ToolResultProcessor.process: one output per call.
AddOutputs(h, from, out) ==
  LET added[n \in 0..BundleSize] == IF n = 0 THEN h ELSE AddToolOutput(added[n - 1], from, out)
  IN  added[Calls(from)]

\* Mutant: the staged ids are answered but stay staged.
FinalizeKeepsStaged(h) ==
  [h EXCEPT !.rows = @ \o [i \in DOMAIN h.staged |-> ToolRow(h.staged[i], 0, "cancelled")]]

\* Mutant: the staged ids are forgotten without an answer.
FinalizeForgets(h) == [h EXCEPT !.staged = <<>>, !.all = FALSE]

\* finalize_pending_tool_calls_as_cancelled.
FinalizePending(h) ==
  [rows |-> h.rows \o [i \in DOMAIN h.staged |-> ToolRow(h.staged[i], 0, "cancelled")],
   staged |-> <<>>, all |-> IF h.staged = <<>> THEN h.all ELSE FALSE]

\* No assistant row before the tool row i asks for its call.
Orphan(rows, i) ==
  /\ rows[i].type = "tool"
  /\ \A j \in 1..(i - 1) : rows[j].type = "assistant" => rows[j].from # rows[i].call[1]

\* normalize_messages_for_provider: orphan tool rows are dropped from the request.
NormalizedForProvider(rows) ==
  LET kept[i \in 0..Len(rows)] ==
        IF i = 0 THEN <<>>
        ELSE IF Orphan(rows, i) THEN kept[i - 1] ELSE Append(kept[i - 1], rows[i])
  IN  kept[Len(rows)]

-----------------------------------------------------------------------------
Init ==
  /\ pc = [t \in Turns |-> "absent"]
  /\ fate = [t \in Turns |-> "run"]
  /\ cancels = [t \in Turns |-> 0]
  /\ lock = NoTurn
  /\ cur = [t \in Turns |-> 0]
  /\ kind = [b \in Batches |-> "none"]
  /\ phase = [b \in Batches |-> "none"]
  /\ abandoned = {}
  /\ detached = {}
  /\ store = EmptyStore
  /\ arrived = {}
  /\ resolved = {}
  /\ screen = FALSE
  /\ ground = [b \in Batches |-> "none"]
  /\ history = [rows |-> <<>>, staged |-> <<>>, all |-> FALSE]
  /\ dispatched = {}
  /\ msg = [m \in Messages |-> "unsent"]

Goto(t, place) == pc' = [pc EXCEPT ![t] = place]
Phase(b, p) == phase' = [phase EXCEPT ![b] = p]

\* A new screenshot invalidates the coordinates resolved on the previous one.
NewScreenshot ==
  /\ screen' = TRUE
  /\ ground' = [b \in Batches |-> IF ground[b] = "current" THEN "stale" ELSE ground[b]]

-----------------------------------------------------------------------------
(* The model side of a turn: QueryExecutionService.execute, process_query  *)
(* and the top of InteractionLoop.run_loop.                                *)

\* The query is accepted and its generator asks for the session lock.
Submit(t) ==
  /\ pc[t] = "absent"
  /\ Goto(t, "lock")
  /\ UNCHANGED <<fate, cancels, lock, cur, abandoned, batchVars, toolVars, history, netVars>>

\* Mutant: the turn does not wait for the session lock.
AcquireLockUnheld(t) ==
  /\ pc[t] = "lock"
  /\ lock' = t
  /\ Goto(t, "context")
  /\ UNCHANGED <<fate, cancels, cur, abandoned, batchVars, toolVars, history, netVars>>

AcquireLock(t) ==
  /\ pc[t] = "lock" /\ lock = NoTurn
  /\ lock' = t
  /\ Goto(t, "context")
  /\ UNCHANGED <<fate, cancels, cur, abandoned, batchVars, toolVars, history, netVars>>

\* No model is selected: the generator returns at once.
NoModelSelected(t) ==
  /\ pc[t] = "context"
  /\ Goto(t, "closing")
  /\ lock' = NoTurn
  /\ UNCHANGED <<fate, cancels, cur, abandoned, batchVars, toolVars, history, netVars>>

\* The user message goes in.  Its images are artifact refs, which the query
\* service does not turn into the session's screenshot.
AddUserMessage(t) ==
  /\ pc[t] = "context"
  /\ Goto(t, "ready")
  /\ history' = AddRow(history, Row("user", NoCall, 0, "user"))
  /\ UNCHANGED <<fate, cancels, lock, cur, abandoned, batchVars, toolVars, netVars>>

\* The model request is built from the history as it is now.
CallModel(t) ==
  /\ pc[t] = "ready"
  /\ Goto(t, "llm")
  /\ UNCHANGED <<fate, cancels, lock, cur, abandoned, batchVars, toolVars, history, netVars>>

\* A response without tool calls, or a provider error, ends the loop.
ModelAnswers(t) ==
  /\ pc[t] = "llm"
  /\ history' = AddRow(history, Row("answer", NoCall, 0, "answer"))
  /\ Goto(t, "answered")
  /\ UNCHANGED <<fate, cancels, lock, cur, abandoned, batchVars, toolVars, netVars>>

\* The completion events and side effects are done; process_query leaves the lock.
GeneratorEnds(t) ==
  /\ pc[t] = "answered"
  /\ lock' = NoTurn
  /\ Goto(t, "closing")
  /\ UNCHANGED <<fate, cancels, cur, abandoned, batchVars, toolVars, history, netVars>>

\* The handler has flushed the stream and shut down TTS.
HandlerEnds(t) ==
  /\ pc[t] = "closing"
  /\ Goto(t, "done")
  /\ UNCHANGED <<fate, cancels, lock, cur, abandoned, batchVars, toolVars, history, netVars>>

NextBatch == Cardinality({n \in Batches : kind[n] # "none"}) + 1

\* _emit_recoverable_tool_call_error: a tool output under the id of a call that
\* has no assistant row, and the loop goes on.
ModelMalformed(t) ==
  LET b == NextBatch IN
  /\ pc[t] = "llm" /\ b \in Batches
  /\ kind' = [kind EXCEPT ![b] = "malformed"]
  /\ history' = [rows |-> Append(history.rows, ToolRow(<<b, 1>>, b, "malformed")),
                 staged |-> <<>>, all |-> FALSE]
  /\ Goto(t, "ready")
  /\ UNCHANGED <<fate, cancels, lock, cur, abandoned, phase, detached, toolVars, netVars>>

\* _commit_assistant_tool_turn: the assistant row, and the staged call ids.
ModelCallsTools(t, k) ==
  LET b == NextBatch IN
  /\ pc[t] = "llm" /\ b \in Batches
  /\ kind' = [kind EXCEPT ![b] = k]
  /\ cur' = [cur EXCEPT ![t] = b]
  /\ history' = [rows |-> Append(history.rows, Row("assistant", NoCall, b, k)),
                 staged |-> CallIds(b, k), all |-> k = "bundle"]
  /\ Goto(t, "prepare")
  /\ UNCHANGED <<fate, cancels, lock, abandoned, phase, detached, toolVars, netVars>>

-----------------------------------------------------------------------------
(* ToolPreparer and ToolSender *)

ResolvedIds(b) == IF kind[b] = "bundle" THEN {<<b, i>> : i \in 1..BundleSize} ELSE {<<b, 0>>}

\* Everything resolved: the call (or the bundle) is yielded as an event, which
\* the query task sends to the client.  A single call may carry coordinates, which
\* are resolved on the current screenshot.
PrepareLocal(t) ==
  LET b == cur[t] IN
  /\ pc[t] = "prepare"
  /\ resolved' = resolved \cup ResolvedIds(b)
  /\ \E g \in IF kind[b] = "single" /\ screen THEN {"none", "current"} ELSE {"none"} :
        ground' = [ground EXCEPT ![b] = g]
  /\ dispatched' = dispatched \cup {b}
  /\ Goto(t, "sending")
  /\ UNCHANGED <<fate, cancels, lock, cur, abandoned, batchVars, store, arrived, screen, history, msg>>

\* Preparation failed: a synthetic result is stored.  A single call then yields
\* its error events; a bundle yields nothing.
PrepareFails(t) ==
  LET b == cur[t] IN
  /\ pc[t] = "prepare"
  /\ store' = StoreResult(store, b)
  /\ \/ kind[b] = "single" /\ Goto(t, "sending") /\ UNCHANGED phase
     \/ kind[b] = "bundle" /\ Goto(t, "tools") /\ Phase(b, "collect")
  /\ UNCHANGED <<fate, cancels, lock, cur, abandoned, kind, detached, arrived, resolved, screen, ground, history, netVars>>

\* A single backend tool runs here; a bundle containing one is refused.
PrepareBackend(t) ==
  LET b == cur[t] IN
  /\ pc[t] = "prepare"
  /\ resolved' = resolved \cup ResolvedIds(b)
  /\ \/ kind[b] = "single" /\ Goto(t, "backend") /\ UNCHANGED <<store, phase>>
     \/ kind[b] = "bundle" /\ Goto(t, "tools") /\ Phase(b, "collect")
          /\ store' = StoreResult(store, b)
  /\ UNCHANGED <<fate, cancels, lock, cur, abandoned, kind, detached, arrived, screen, ground, history, netVars>>

BackendDone(t) ==
  /\ pc[t] = "backend"
  /\ store' = StoreResult(store, cur[t])
  /\ Goto(t, "sending")
  /\ UNCHANGED <<fate, cancels, lock, cur, abandoned, batchVars, arrived, resolved, screen, ground, history, netVars>>

\* Preparing or sending raised: an error event is sent in place of the tools.
ExecuteRaises(t) ==
  /\ "execute" \in Faults
  /\ pc[t] = "prepare"
  /\ fate' = [fate EXCEPT ![t] = "error"]
  /\ Goto(t, "sending")
  /\ UNCHANGED <<cancels, lock, cur, abandoned, batchVars, toolVars, history, netVars>>

\* The send returned and the sender's generator is exhausted.  After an error,
\* the error goes into the history too; run_loop's finally clause still processes
\* the batch.
Sent(t) ==
  /\ pc[t] = "sending"
  /\ history' = IF fate[t] = "error" THEN AddRow(history, Row("answer", NoCall, 0, "error")) ELSE history
  /\ Goto(t, "tools")
  /\ Phase(cur[t], "collect")
  /\ UNCHANGED <<fate, cancels, lock, cur, abandoned, kind, detached, toolVars, netVars>>

\* The handler task is interrupted in a send: the generator stays suspended at
\* its yield, inside the lock, and inside the try block of an unfinished batch.
Abandon(t) ==
  /\ pc[t] \in Yielding
  /\ abandoned' = abandoned \cup {t}
  /\ IF pc[t] \in {"backend", "sending"}
     THEN Phase(cur[t], "dropped") /\ detached' = detached \cup {cur[t]}
     ELSE UNCHANGED <<phase, detached>>

\* The connection closed under the send: the handler reports the error and ends.
SendFails(t) ==
  /\ "send" \in Faults
  /\ Abandon(t)
  /\ Goto(t, "done")
  /\ UNCHANGED <<fate, cancels, lock, cur, kind, toolVars, history, netVars>>

\* The event loop's asyncgen hook closes an abandoned generator from the outside
\* in: process_query leaves the lock, then run_loop's finally clause runs.
CloseGenerator(t) ==
  /\ t \in abandoned
  /\ abandoned' = abandoned \ {t}
  /\ lock' = NoTurn
  /\ IF cur[t] # 0 /\ phase[cur[t]] = "dropped" THEN Phase(cur[t], "collect") ELSE UNCHANGED phase
  /\ UNCHANGED <<pc, fate, cancels, cur, kind, detached, toolVars, history, netVars>>

-----------------------------------------------------------------------------
(* process_results: execute_single_tool / execute_bundle, then the         *)
(* processor.  A batch is processed by its turn's generator or, once that  *)
(* is abandoned, by the task closing it.                                   *)

Owner(b) == CHOOSE t \in Turns : cur[t] = b

\* The CancelledError has left the generator: TTS is shut down, and then the
\* calls staged in the session's history are answered as cancelled.
HandlerCancelled(t, h) ==
  IF "speech" \in Faults THEN Goto(t, "tts") /\ history' = h
                         ELSE Goto(t, "done") /\ history' = FinalizePending(h)

\* Mutant: a turn that leaves the loop early keeps the lock.
EndBatchLockLeak(t, h) ==
  \/ fate[t] = "run" /\ Goto(t, "ready") /\ history' = h /\ UNCHANGED lock
  \/ fate[t] = "error" /\ Goto(t, "answered") /\ history' = h /\ UNCHANGED lock
  \/ fate[t] = "cancel" /\ HandlerCancelled(t, h) /\ UNCHANGED lock

\* What follows for the turn when its batch has been processed into h.
EndBatch(t, h) ==
  \/ fate[t] = "run" /\ Goto(t, "ready") /\ history' = h /\ UNCHANGED lock
  \/ fate[t] = "error" /\ Goto(t, "answered") /\ history' = h /\ UNCHANGED lock
  \/ fate[t] = "cancel" /\ HandlerCancelled(t, h) /\ lock' = NoTurn

Finish(b, h) ==
  /\ Phase(b, "over")
  /\ arrived' = arrived \ {b}
  /\ IF b \in detached THEN history' = h /\ UNCHANGED <<pc, lock>> ELSE EndBatch(Owner(b), h)
  /\ UNCHANGED <<fate, cancels, cur, abandoned, kind, detached, screen, ground, netVars>>

\* The individual path: one history output per call, then the cleanup of the
\* request id (a bundle has none) and of whatever has outlived the TTL.
ProcessEach(b, s, out) ==
  /\ Finish(b, AddOutputs(history, b, out))
  /\ resolved' = resolved \ {<<b, 0>>}
  /\ LET settled == IF kind[b] = "single" THEN DropFuture(RemoveResult(s, b), b) ELSE s
     IN  \E old \in SUBSET (settled.stamps \ {b}) : store' = Expire(settled, old)

Stale(b) == kind[b] = "single" /\ <<b, 0>> \in resolved /\ ground[b] = "stale"

\* The screen changed since the coordinates were resolved: fail without waiting.
CollectStale(b) ==
  /\ phase[b] = "collect" /\ Stale(b)
  /\ ProcessEach(b, store, "stale")

\* The result is already there: it is taken out of the storage, so that even a
\* bundle goes down the individual path.
CollectEarly(b) ==
  /\ phase[b] = "collect" /\ ~Stale(b) /\ b \in store.results
  /\ ProcessEach(b, DropFuture(RemoveResult(CreateFuture(store, b), b), b), "result")

\* Mutant: the storage is not looked at before the wait.
StartWaitUnchecked(b) ==
  /\ phase[b] = "collect" /\ ~Stale(b)
  /\ store' = CreateFuture(store, b)
  /\ Phase(b, "await")
  /\ UNCHANGED <<turnVars, kind, detached, arrived, resolved, screen, ground, history, netVars>>

StartWait(b) ==
  /\ phase[b] = "collect" /\ ~Stale(b) /\ b \notin store.results
  /\ store' = CreateFuture(store, b)
  /\ Phase(b, "await")
  /\ UNCHANGED <<turnVars, kind, detached, arrived, resolved, screen, ground, history, netVars>>

\* The future was resolved.  A bundle result still in the storage is written as
\* one output.
WakeBundle(b) ==
  /\ phase[b] = "await" /\ b \in arrived
  /\ kind[b] = "bundle" /\ b \in store.results
  /\ Finish(b, AddToolOutput(history, b, "result"))
  /\ store' = RemoveResult(store, b)
  /\ UNCHANGED resolved

WakeEach(b) ==
  /\ phase[b] = "await" /\ b \in arrived
  /\ kind[b] = "bundle" => b \notin store.results
  /\ ProcessEach(b, store, "result")

\* Mutant: the wait for a bundle has no timeout.
TimeoutSinglesOnly(b) ==
  /\ phase[b] = "await" /\ b \in store.futures /\ kind[b] = "single"
  /\ ProcessEach(b, DropFuture(store, b), "failure")

Timeout(b) ==
  /\ phase[b] = "await" /\ b \in store.futures
  /\ ProcessEach(b, DropFuture(store, b), "failure")

-----------------------------------------------------------------------------
(* Cancellation: a stop, or the connection's cleanup *)

\* The error is raised outside the generator ...
CancelOutside(t) ==
  /\ pc[t] \in {"lock", "closing"}
  /\ fate' = [fate EXCEPT ![t] = "cancel"]
  /\ HandlerCancelled(t, history)
  /\ UNCHANGED <<lock, cur, abandoned, batchVars, toolVars, netVars>>

\* ... inside it, where nothing needs to be cleaned up but the lock ...
CancelInside(t) ==
  /\ pc[t] \in {"context", "ready", "llm", "answered"}
  /\ fate' = [fate EXCEPT ![t] = "cancel"]
  /\ lock' = NoTurn
  /\ HandlerCancelled(t, history)
  /\ UNCHANGED <<cur, abandoned, batchVars, toolVars, netVars>>

\* ... while it prepares: run_loop's finally clause waits for a batch that was
\* never dispatched ...
CancelPreparing(t) ==
  /\ pc[t] \in {"prepare", "backend"}
  /\ fate' = [fate EXCEPT ![t] = "cancel"]
  /\ Goto(t, "tools")
  /\ Phase(cur[t], "collect")
  /\ UNCHANGED <<lock, cur, abandoned, kind, detached, toolVars, history, netVars>>

\* ... in a send: the handler ends and the generator is left behind ...
CancelSending(t) ==
  /\ Abandon(t)
  /\ fate' = [fate EXCEPT ![t] = "cancel"]
  /\ HandlerCancelled(t, history)
  /\ UNCHANGED <<lock, cur, kind, toolVars, netVars>>

\* ... while waiting.  The bundle's wait is inside the try, so that the finally
\* clause starts over; the single call's wait is in the finally clause itself.
CancelWaiting(t) ==
  LET b == cur[t] IN
  /\ pc[t] = "tools" /\ phase[b] = "await"
  /\ store' = DropFuture(store, b)
  /\ arrived' = arrived \ {b}
  /\ \/ /\ kind[b] = "bundle" /\ fate[t] = "run"
        /\ fate' = [fate EXCEPT ![t] = "cancel"]
        /\ Phase(b, "collect")
        /\ UNCHANGED <<pc, lock, history>>
     \/ /\ kind[b] = "single" \/ fate[t] # "run"
        /\ fate' = [fate EXCEPT ![t] = "cancel"]
        /\ Phase(b, "over")
        /\ lock' = NoTurn
        /\ HandlerCancelled(t, history)
  /\ UNCHANGED <<cur, abandoned, kind, detached, resolved, screen, ground, netVars>>

Cancel(t) ==
  /\ cancels[t] < MaxCancels
  /\ cancels' = [cancels EXCEPT ![t] = @ + 1]
  /\ \/ CancelOutside(t) \/ CancelInside(t) \/ CancelPreparing(t)
     \/ CancelSending(t) \/ CancelWaiting(t)

\* A TTL cleanup cancelled the future: its waiter sees a CancelledError too.
FutureExpired(t) ==
  /\ cur[t] # 0 /\ cur[t] \notin store.futures \cup arrived
  /\ CancelWaiting(t)
  /\ UNCHANGED cancels

DetachedExpired(b) ==
  /\ b \in detached /\ phase[b] = "await"
  /\ b \notin store.futures \cup arrived
  /\ Phase(b, "over")
  /\ UNCHANGED <<turnVars, kind, detached, toolVars, history, netVars>>

\* The TTS service is down: finalize_pending_tool_calls_on_cancel.
Finalize(t) ==
  /\ pc[t] = "tts"
  /\ history' = FinalizePending(history)
  /\ Goto(t, "done")
  /\ UNCHANGED <<fate, cancels, lock, cur, abandoned, batchVars, toolVars, netVars>>

-----------------------------------------------------------------------------
(* The SDK and the result handler *)

\* The local runtime ran the tool.  Results can be late, repeated or missing.
SdkReplies(m) ==
  /\ m[1] \in dispatched /\ msg[m] = "unsent"
  /\ msg' = [msg EXCEPT ![m] = "inbox"]
  /\ UNCHANGED <<turnVars, batchVars, toolVars, history, dispatched>>

\* Mutant: only the storage is searched, not the resolved-call registry.
SessionFoundStored(b) == b \in store.results \cup store.futures

\* get_session_for_request_id and get_session_for_bundle_id.
SessionFound(b) ==
  \/ b \in store.results \cup store.futures
  \/ kind[b] = "single" /\ <<b, 0>> \in resolved

\* The handler looks the session up, then processes the screenshot ...
RouteLookup(m) ==
  /\ msg[m] = "inbox"
  /\ \/ /\ SessionFound(m[1])
        /\ msg' = [msg EXCEPT ![m] = "routing"]
        /\ NewScreenshot \/ UNCHANGED <<screen, ground>>
     \/ /\ ~SessionFound(m[1])
        /\ msg' = [msg EXCEPT ![m] = "dropped"]
        /\ UNCHANGED <<screen, ground>>
  /\ UNCHANGED <<turnVars, batchVars, store, arrived, resolved, history, dispatched>>

\* ... and then stores the result and resolves the future, if there is one.
RouteStore(m) ==
  LET b == m[1] IN
  /\ msg[m] = "routing"
  /\ store' = DropFuture(StoreResult(store, b), b)
  /\ arrived' = IF b \in store.futures THEN arrived \cup {b} ELSE arrived
  /\ msg' = [msg EXCEPT ![m] = "done"]
  /\ UNCHANGED <<turnVars, batchVars, resolved, screen, ground, history, dispatched>>

-----------------------------------------------------------------------------
Prepare(t) == PrepareLocal(t) \/ PrepareFails(t) \/ PrepareBackend(t) \/ ExecuteRaises(t)

Model(t) ==
  \/ ModelAnswers(t) \/ ModelMalformed(t)
  \/ \E k \in {"single", "bundle"} : ModelCallsTools(t, k)

TurnStep(t) ==
  \/ AcquireLock(t) \/ NoModelSelected(t) \/ AddUserMessage(t) \/ CallModel(t) \/ Model(t)
  \/ Prepare(t) \/ BackendDone(t) \/ Sent(t) \/ SendFails(t) \/ CloseGenerator(t)
  \/ FutureExpired(t) \/ Finalize(t) \/ GeneratorEnds(t) \/ HandlerEnds(t)

BatchStep(b) ==
  \/ CollectStale(b) \/ CollectEarly(b) \/ StartWait(b)
  \/ WakeBundle(b) \/ WakeEach(b) \/ Timeout(b) \/ DetachedExpired(b)

Next ==
  \/ \E t \in Turns : Submit(t) \/ TurnStep(t) \/ Cancel(t)
  \/ \E b \in Batches : BatchStep(b)
  \/ \E m \in Messages : SdkReplies(m) \/ RouteLookup(m) \/ RouteStore(m)

Spec == Init /\ [][Next]_vars

\* The event loop runs every task that can proceed, the model answers and timers
\* fire.  Nothing is assumed of the user or of the SDK.
Fairness ==
  /\ \A t \in Turns : WF_vars(TurnStep(t))
  /\ \A b \in Batches : WF_vars(BatchStep(b))

FairSpec == Spec /\ Fairness

-----------------------------------------------------------------------------
(* Properties *)

RowTypes == {"user", "answer", "assistant", "tool", "unlinked"}
RealCalls == Batches \X (1..BundleSize)
Rows == [type : RowTypes, call : RealCalls \cup {NoCall}, from : Batches \cup {0},
         out : {"user", "answer", "error", "single", "bundle",
                "malformed", "result", "failure", "stale", "cancelled"}]

\* Types of the session's state.
TypeOK ==
  /\ pc \in [Turns -> PCs]
  /\ fate \in [Turns -> {"run", "error", "cancel"}]
  /\ cancels \in [Turns -> 0..MaxCancels]
  /\ lock \in Turns \cup {NoTurn}
  /\ cur \in [Turns -> Batches \cup {0}]
  /\ kind \in [Batches -> {"none", "single", "bundle", "malformed"}]
  /\ abandoned \subseteq Turns
  /\ phase \in [Batches -> {"none", "dropped", "collect", "await", "over"}]
  /\ detached \subseteq Batches
  /\ store \in [results : SUBSET Batches, futures : SUBSET Batches, stamps : SUBSET Batches]
  /\ arrived \subseteq Batches
  /\ resolved \subseteq Batches \X (0..BundleSize)
  /\ screen \in BOOLEAN
  /\ ground \in [Batches -> {"none", "current", "stale"}]
  /\ history \in [rows : Seq(Rows), staged : Seq(RealCalls), all : BOOLEAN]
  /\ dispatched \subseteq Batches
  /\ msg \in [Messages -> {"unsent", "inbox", "routing", "dropped", "done"}]

\* The generator of t exists and has entered the session lock: its handler task
\* runs it, or has left it behind and nobody has closed it yet.
InsideLock(t) == pc[t] \in Holding \/ t \in abandoned

\* The session lock is held exactly by a turn whose generator is inside it: no
\* path out of a turn (answer, error, stop at any point, a dropped connection)
\* leaks the lock, and no two turns are in the tool loop at once.
LockMatchesGenerator == \A t \in Turns : InsideLock(t) <=> lock = t

\* The storage never holds a result whose waiter is still asleep on an open
\* future: creating the future before looking at the storage, and storing before
\* resolving, close the window in which a wake-up could be lost.
NoLostWakeup ==
  \A b \in Batches : phase[b] = "await" /\ b \in store.results => b \notin store.futures

\* cleanup_old_results walks the timestamps: a stored result or an open future
\* without one would never be reclaimed.
Reclaimable == store.results \cup store.futures \subseteq store.stamps

\* The storage loses neither a wake-up nor an entry.
StorageSound == NoLostWakeup /\ Reclaimable

\* The ledger this session keeps: an assistant row asks for its calls, a tool row
\* answers one.  The feedback on a malformed call answers a call nobody asked.
LedgerEntry(r) ==
  CASE r.type = "assistant" -> [kind |-> "ask", calls |-> {CallIds(r.from, r.out)[i] : i \in DOMAIN CallIds(r.from, r.out)}]
    [] r.type = "tool" /\ r.out # "malformed" -> [kind |-> "answer", calls |-> {r.call}]
    [] OTHER -> [kind |-> "note", calls |-> {}]

Ledger == INSTANCE CallLedger WITH
  Callers <- Turns, Free <- NoTurn, Ids <- RealCalls, holder <- lock,
  log <- [i \in DOMAIN history.rows |-> LedgerEntry(history.rows[i])]

\* The session keeps that ledger: one turn at a time inside the lock, a history that
\* is only ever appended to, every call asked once and answered at most once.
KeepsLedger == Ledger!Spec

\* The result of a dispatched single call is never dropped as belonging to a
\* "stale/terminated session" while its turn may still be waiting for it.
SingleResultKept ==
  [][\A m \in Messages :
       msg[m] = "inbox" /\ msg'[m] = "dropped" /\ kind[m[1]] = "single"
         => phase[m[1]] = "over"]_vars

\* Every assistant row is followed at once by the answers to all of its calls.
Paired(rows) ==
  \A i \in DOMAIN rows : rows[i].type = "assistant" =>
    LET n == IF rows[i].out = "bundle" THEN BundleSize ELSE 1 IN
    /\ i + n <= Len(rows)
    /\ \A j \in 1..n : rows[i + j].type = "tool" /\ rows[i + j].call = <<rows[i].from, j>>

\* "... so the next LLM request has a valid assistant->tool_calls->tool_output
\* sequence" (finalize_pending_tool_calls_as_cancelled).
ModelSeesPairedCalls ==
  [][\A t \in Turns : pc[t] = "ready" /\ pc'[t] = "llm"
       => Paired(NormalizedForProvider(history.rows))]_vars

Misattached(r) == r.type = "tool" /\ r.out # "cancelled" /\ r.from # r.call[1]

\* Outputs carry no call id of their own: each takes the next staged one.  Even so
\* an output is attached to a call of another response only if it comes from a
\* generator that a stop or a failed send left suspended inside its batch.
OwnOutputUnlessOrphaned ==
  \A i \in DOMAIN history.rows :
    Misattached(history.rows[i]) => history.rows[i].from \in detached

\* Every turn that asks for the session ends: a missing result, a stop, a failing
\* send or an abandoned generator never blocks the turns behind it.
TurnsEnd == \A t \in Turns : pc[t] = "lock" ~> pc[t] = "done"

=============================================================================
