----------------------------- MODULE Compaction -----------------------------
(***************************************************************************)
(* The history of one agent session and the rewriting of it: turns append  *)
(* rows, CompactionEngine replaces old rows by a summary (before a turn,   *)
(* between its model requests, after a context overflow, or on request),   *)
(* rehydrate installs another history, end_session clears it.  All of them *)
(* but two hold the session lock: the finalisation of a stopped turn's     *)
(* open tool calls and end_session.  A summary is one model request long,  *)
(* so those two run while it is in flight.                                 *)
(*                                                                         *)
(* A batch of tool calls is one number: its ids are staged, consumed and   *)
(* answered together.  ToolTurns models how results reach a batch.         *)
(***************************************************************************)
EXTENDS Naturals, FiniteSets, FiniteSetsExt, Sequences, SequencesExt

CONSTANTS
  Turns,             \* queries
  Manuals,           \* compact-history requests
  None,
  KeepRecentUsers,   \* history_compaction_keep_recent_user_messages
  TailBudget,        \* history_compaction_target_tokens less the summary's
  TriggerTokens,     \* history_compaction_trigger_tokens
  Outputs,           \* what a tool returns: tokens of its text and of its screenshot
  QueryImage,        \* turn -> tokens of the image sent with the query, or 0
  Speech,            \* TTS shutdown separates a stop from its finalisation
  MaxAttempts,       \* MAX_COMPACTION_RECOVERY_ATTEMPTS
  MaxBatches,        \* bound: tool-calling responses of all turns
  MaxStops,          \* bound: stops
  MaxGens            \* bound: histories cleared by end_session or installed by rehydrate

ASSUME CompactionAssumption ==
  /\ KeepRecentUsers \in Nat \ {0}
  /\ TailBudget \in Nat \ {0}
  /\ Outputs \subseteq [text : Nat, image : Nat] /\ QueryImage \in [Turns -> Nat]
  /\ Speech \in BOOLEAN
  /\ MaxAttempts \in Nat /\ MaxBatches \in Nat
  /\ None \notin Turns \cup Manuals

VARIABLES
  history,   \* ConversationHistory.history
  staged,    \* _pending_tool_call_ids: a batch, or 0
  mark,      \* _last_provider_prompt_tokens, or 0
  holder,    \* the job that holds the session lock, or None
  pc,        \* where each job is
  snap,      \* current_messages of the compaction in flight
  tail,      \* its keep_tail_messages
  attempts,  \* compaction_recovery_attempts of the running turn
  batches,   \* batches so far
  gen,       \* ghost: how often the history was cleared or installed
  dropped,   \* ghost: batches whose staged ids were thrown away
  stops

vars == <<history, staged, mark, holder, pc, snap, tail, attempts,
          batches, gen, dropped, stops>>

Jobs == Turns \cup Manuals

\* A row: its role and type, its batch (calls and their outputs), the tokens of its text
\* and of its image, and the generation of the history it belongs to.
Kinds == {"query", "call", "tool", "output", "answer", "summary"}
IsUser(row) == row.kind \in {"query", "output"}

PromptTokens == 1   \* system prompt and tool schemas
Frame == 1          \* a message beside its text and image: its role, its ids, its calls
Size(row) == Frame + row.text + row.image
Tokens(h) ==
  LET sum[i \in 0..Len(h)] == IF i = 0 THEN 0 ELSE sum[i - 1] + Size(h[i])
  IN  sum[Len(h)]
Batches(h, kind) == {h[i].batch : i \in {j \in DOMAIN h : h[j].kind = kind}}

-----------------------------------------------------------------------------
(* ConversationHistory *)

\* _append_message for several rows of one kind.
Row(kind, batch, text, image, g) ==
  [kind |-> kind, batch |-> batch, text |-> text, image |-> image, gen |-> g]
Append1(h, kind, batch, text, image) == Append(h, Row(kind, batch, text, image, gen))

\* add_assistant_message, add_user_message.
Add(kind, batch) == history' = Append1(history, kind, batch, 0, 0)
AddQuery(t) == history' = Append1(history, "query", 0, 0, QueryImage[t])

\* add_tool_output: the staged ids or, without any, an unlinked user row.  A refused
\* bundle of two records its second output after the first consumed every id.
ToolOutputs(batch, out, both) ==
  LET first == Append1(history, IF staged # 0 THEN "tool" ELSE "output",
                       IF staged # 0 THEN staged ELSE batch, out.text, out.image)
      all == IF both THEN Append1(first, "output", batch, 0, 0) ELSE first
  IN /\ history' = all
     /\ staged' = 0

\* Mutant: the staged ids are dropped instead of answered.
FinalizeForgets ==
  /\ staged' = 0
  /\ UNCHANGED history

\* finalize_pending_tool_calls_as_cancelled.
FinalizePending ==
  IF staged = 0 THEN UNCHANGED <<history, staged>>
  ELSE /\ history' = Append1(history, "tool", staged, 0, 0)
       /\ staged' = 0

\* replace_with_stored_messages: clear(), which drops the staged ids, then append.
ReplaceWith(h) ==
  /\ history' = h
  /\ staged' = 0
  /\ dropped' = dropped \cup ({staged} \ {0})

-----------------------------------------------------------------------------
(* CompactionEngine *)

\* evaluate: the larger of the local estimate and the provider's high-water mark,
\* plus the query about to be added, against the trigger.
ShouldCompact(h, provider, force, pending) ==
  \/ force
  \/ LET local == PromptTokens + Tokens(h)
     IN Max({provider, local}) + pending >= TriggerTokens

\* _split_index_for_recent_user_messages: the first row to keep; 1 when there are
\* fewer queries than that.
SplitIndex(h) ==
  LET queries == {i \in DOMAIN h : h[i].kind = "query"}
      later(i) == {j \in queries : j >= i}
  IN IF \E i \in queries : Cardinality(later(i)) = KeepRecentUsers
     THEN CHOOSE i \in queries : Cardinality(later(i)) = KeepRecentUsers
     ELSE 1

\* Mutant: the tail is cut at any row.
TurnStartsAnywhere(h, split) == split .. Len(h) + 1

\* _count_leading_tail_turn_messages: a tail loses whole turns, up to a user row.
TurnStarts(h, split) == {split, Len(h) + 1} \cup {i \in split + 1 .. Len(h) : IsUser(h[i])}

\* _truncate_tail_message_for_budget: the text is cut, and the image goes with it; a row
\* whose text is not too large stays as it is.
Truncated(row) ==
  IF row.text > TailBudget THEN [row EXCEPT !.text = TailBudget, !.image = 0] ELSE row

\* _fit_tail_to_target_budget: drop leading turns until the tail fits or is one row;
\* a single row too large is truncated.
FitTail(h, split) ==
  LET fits(i) == \/ i >= Len(h)
                 \/ Tokens(SubSeq(h, i, Len(h))) <= TailBudget
      start == CHOOSE i \in TurnStarts(h, split) :
                 /\ fits(i)
                 /\ \A j \in TurnStarts(h, split) : j < i => ~fits(j)
      kept == SubSeq(h, start, Len(h))
  IN IF Len(kept) = 1 /\ Tokens(kept) > TailBudget
     THEN <<Truncated(kept[1])>>
     ELSE kept

\* _build_compaction_input: None when there is nothing to compact.
HasInput(h, minimal) == h # <<>> /\ (minimal \/ SplitIndex(h) > 1)
TailOf(h) == FitTail(h, IF SplitIndex(h) > 1 THEN SplitIndex(h) ELSE Len(h) + 1)

Summary == Row("summary", 0, 0, 0, snap[1].gen)

\* Mutants: the history is not compared again; rows appended meanwhile are forgotten.
StaleUnchecked == FALSE
ReplacementOnly == <<Summary>> \o tail

\* compact after the summary: keep rows appended meanwhile, give up when the history
\* is no longer an extension of what was summarised.
Stale == ~IsPrefix(snap, history)
Replacement == <<Summary>> \o tail \o SubSeq(history, Len(snap) + 1, Len(history))

Apply ==
  IF Stale THEN UNCHANGED <<history, staged, dropped, mark>>
  ELSE /\ ReplaceWith(Replacement)
       /\ mark' = 0

StartSummary(j, h, where) ==
  /\ pc' = [pc EXCEPT ![j] = where]
  /\ snap' = h
  /\ tail' = TailOf(h)

NoSummary == snap' = <<>> /\ tail' = <<>>

-----------------------------------------------------------------------------
(* A turn: AgentExecutor.process_query and InteractionLoop.run_loop *)

\* The top of the loop from the second iteration on: auto-mid, then the request.
LoopTop(t, h, provider) ==
  IF ShouldCompact(h, provider, FALSE, 0) /\ HasInput(h, FALSE)
  THEN StartSummary(t, h, "mid")
  ELSE /\ pc' = [pc EXCEPT ![t] = "ask"]
       /\ NoSummary

\* The turn leaves process_query: the lock is free.
Release(t, next) ==
  /\ holder' = IF holder = t THEN None ELSE holder
  /\ attempts' = IF holder = t THEN 0 ELSE attempts
  /\ pc' = [pc EXCEPT ![t] = next]
  /\ IF holder = t THEN NoSummary ELSE UNCHANGED <<snap, tail>>

\* A query or a compact-history request is received and asks for the lock.  compact-history
\* is refused while a query of the conversation is tracked; a stopped one no longer is.
Tracked(t) == pc[t] \in {"lock", "pre", "ask", "tools", "mid", "retry", "empty"}

Receive(j) ==
  /\ pc[j] = "new"
  /\ IF j \in Manuals /\ \E t \in Turns : Tracked(t)
     THEN pc' = [pc EXCEPT ![j] = "done"]
     ELSE pc' = [pc EXCEPT ![j] = "lock"]
  /\ UNCHANGED <<history, staged, mark, holder, snap, tail, attempts, batches,
                 gen, dropped, stops>>

\* process_query: compact before the query's row is appended, or append it and ask.  The
\* decision counts the text of the query and not its image.
BeginTurn(t) ==
  /\ pc[t] = "lock" /\ holder = None
  /\ holder' = t
  /\ IF ShouldCompact(history, mark, FALSE, 1) /\ HasInput(history, FALSE)
     THEN /\ StartSummary(t, history, "pre")
          /\ UNCHANGED <<history>>
     ELSE /\ AddQuery(t)
          /\ pc' = [pc EXCEPT ![t] = "ask"]
          /\ NoSummary
  /\ UNCHANGED <<staged, mark, attempts, batches, gen, dropped, stops>>

\* The summary before the query arrived, or failed; the query's row follows.
PreSummary(t) ==
  /\ pc[t] = "pre"
  /\ \/ /\ ~Stale
        /\ ReplaceWith(Append1(Replacement, "query", 0, 0, QueryImage[t]))
        /\ mark' = 0
     \/ /\ AddQuery(t)
        /\ UNCHANGED <<staged, dropped, mark>>
  /\ pc' = [pc EXCEPT ![t] = "ask"]
  /\ NoSummary
  /\ UNCHANGED <<holder, attempts, batches, gen, stops>>

\* The summary between two requests arrived, or failed.
MidSummary(t) ==
  /\ pc[t] = "mid"
  /\ \/ Apply
     \/ UNCHANGED <<history, staged, dropped, mark>>
  /\ pc' = [pc EXCEPT ![t] = "ask"]
  /\ NoSummary
  /\ UNCHANGED <<holder, attempts, batches, gen, stops>>

\* Mutant: a recovery is not counted, and always succeeds.
RecoverySummaryUncounted(t) ==
  /\ pc[t] \in {"retry", "empty"}
  /\ ~Stale
  /\ Apply
  /\ LoopTop(t, Replacement, 0)
  /\ UNCHANGED <<holder, attempts, batches, gen, stops>>

\* The summary that is to rescue an overflowing ("retry") or empty ("empty") request:
\* applied, the loop starts over; otherwise the turn ends with an error or, when an
\* empty response had its attempt left, with a fallback answer: one row either way.
RecoverySummary(t) ==
  /\ pc[t] \in {"retry", "empty"}
  /\ \/ /\ ~Stale
        /\ Apply
        /\ attempts' = attempts + 1
        /\ LoopTop(t, Replacement, 0)
        /\ UNCHANGED holder
     \/ /\ Add("answer", 0)
        /\ Release(t, "done")
        /\ UNCHANGED <<staged, dropped, mark>>
  /\ UNCHANGED <<batches, gen, stops>>

\* The provider's report of the prompt's size, if it makes one, kept as a high-water mark.
Reported == \/ UNCHANGED mark
            \/ mark' = Max({mark, PromptTokens + Tokens(history) + 1})

Answer(t) ==
  /\ pc[t] = "ask"
  /\ Reported
  /\ Add("answer", 0)
  /\ Release(t, "done")
  /\ UNCHANGED <<staged, batches, gen, dropped, stops>>

\* A response with tool calls: the assistant row, its ids staged in place of any
\* others; the calls are sent and waited for.
CallTools(t) ==
  /\ pc[t] = "ask"
  /\ batches < MaxBatches
  /\ Reported
  /\ Add("call", batches + 1)
  /\ staged' = batches + 1
  /\ dropped' = dropped \cup ({staged} \ {0})
  /\ batches' = batches + 1
  /\ pc' = [pc EXCEPT ![t] = "tools"]
  /\ UNCHANGED <<holder, snap, tail, attempts, gen, stops>>

\* The results are recorded and the loop starts over.
Results(t) ==
  /\ pc[t] = "tools"
  /\ \E out \in Outputs, both \in BOOLEAN : ToolOutputs(batches, out, both)
  /\ LoopTop(t, history', mark)
  /\ UNCHANGED <<mark, holder, attempts, batches, gen, dropped, stops>>

\* _attempt_compaction_recovery for a context overflow (forced) or an empty failed
\* response (only above the trigger).
Recover(t, force, where) ==
  /\ attempts < MaxAttempts
  /\ ShouldCompact(history, mark, force, 0)
  /\ HasInput(history, TRUE)
  /\ StartSummary(t, history, where)
  /\ UNCHANGED <<history, holder, attempts>>

GiveUp(t) ==
  /\ Add("answer", 0)
  /\ Release(t, "done")

Overflow(t) ==
  /\ pc[t] = "ask"
  /\ IF attempts < MaxAttempts /\ HasInput(history, TRUE)
     THEN Recover(t, TRUE, "retry")
     ELSE GiveUp(t)
  /\ UNCHANGED <<staged, mark, batches, gen, dropped, stops>>

EmptyFailed(t) ==
  /\ pc[t] = "ask"
  /\ IF /\ attempts < MaxAttempts
        /\ ShouldCompact(history, mark, FALSE, 0)
        /\ HasInput(history, TRUE)
     THEN Recover(t, FALSE, "empty")
     ELSE GiveUp(t)
  /\ UNCHANGED <<staged, mark, batches, gen, dropped, stops>>

\* A stop cancels the task wherever it waits.  Tool results it was waiting for are
\* not recorded if it is stopped again; then their ids stay staged.  The lock goes
\* with the generator; the open calls are answered after TTS is shut down.
Stop(t) ==
  /\ stops < MaxStops
  /\ Tracked(t)
  /\ stops' = stops + 1
  /\ IF Speech
     THEN /\ Release(t, "ending")
          /\ UNCHANGED <<history, staged>>
     ELSE /\ Release(t, "done")
          /\ FinalizePending
  /\ UNCHANGED <<mark, batches, gen, dropped>>

Finalize(t) ==
  /\ pc[t] = "ending"
  /\ FinalizePending
  /\ pc' = [pc EXCEPT ![t] = "done"]
  /\ UNCHANGED <<mark, holder, snap, tail, attempts, batches, gen, dropped,
                 stops>>

-----------------------------------------------------------------------------
(* The other writers *)

\* run_history_compaction, forced or not.
BeginManual(m) ==
  /\ pc[m] = "lock" /\ holder = None
  /\ \/ /\ HasInput(history, TRUE)
        /\ holder' = m
        /\ StartSummary(m, history, "manual")
     \/ /\ ~ShouldCompact(history, mark, FALSE, 0) \/ history = <<>>
        /\ pc' = [pc EXCEPT ![m] = "done"]
        /\ UNCHANGED <<holder, snap, tail>>
  /\ UNCHANGED <<history, staged, mark, attempts, batches, gen,
                 dropped, stops>>

ManualSummary(m) ==
  /\ pc[m] = "manual"
  /\ \/ Apply
     \/ UNCHANGED <<history, staged, dropped, mark>>
  /\ Release(m, "done")
  /\ UNCHANGED <<batches, gen, stops>>

\* rehydrate_conversation: install a transcript of one query and its answer.
Rehydrate ==
  /\ holder = None /\ gen < MaxGens
  /\ ReplaceWith(<<Row("query", 0, 0, 0, gen + 1), Row("answer", 0, 0, 0, gen + 1)>>)
  /\ gen' = gen + 1
  /\ UNCHANGED <<mark, holder, pc, snap, tail, attempts, batches, stops>>

\* session.cleanup() in end_session: clear(), without the session lock.
ClearHistory ==
  /\ gen < MaxGens
  /\ ReplaceWith(<<>>)
  /\ gen' = gen + 1
  /\ UNCHANGED <<mark, holder, pc, snap, tail, attempts, batches, stops>>

-----------------------------------------------------------------------------
Init ==
  /\ history = <<>> /\ staged = 0 /\ mark = 0
  /\ holder = None
  /\ pc = [j \in Jobs |-> "new"]
  /\ snap = <<>> /\ tail = <<>>
  /\ attempts = 0 /\ batches = 0
  /\ gen = 0 /\ dropped = {}
  /\ stops = 0

Turn(t) ==
  \/ BeginTurn(t) \/ PreSummary(t) \/ MidSummary(t) \/ RecoverySummary(t)
  \/ Answer(t) \/ CallTools(t) \/ Results(t) \/ Overflow(t) \/ EmptyFailed(t)
  \/ Finalize(t)

Next ==
  \/ \E j \in Jobs : Receive(j)
  \/ \E t \in Turns : Turn(t) \/ Stop(t)
  \/ \E m \in Manuals : BeginManual(m) \/ ManualSummary(m)
  \/ Rehydrate
  \/ ClearHistory

Spec == Init /\ [][Next]_vars

\* The model and the tools answer every request eventually; the lock is handed to
\* a job that waits for it.
FairSpec ==
  /\ Spec
  /\ \A t \in Turns : SF_vars(BeginTurn(t)) /\ WF_vars(Turn(t))
  /\ \A m \in Manuals : SF_vars(BeginManual(m)) /\ WF_vars(ManualSummary(m))

-----------------------------------------------------------------------------
(* Properties *)

Rows == [kind : Kinds, batch : 0..MaxBatches, text : Nat, image : Nat, gen : Nat]

\* The state keeps its types; only a job that holds the lock is past its beginning.
TypeOK ==
  /\ history \in Seq(Rows) /\ snap \in Seq(Rows) /\ tail \in Seq(Rows)
  /\ staged \in 0..batches /\ batches \in 0..MaxBatches
  /\ holder \in Jobs \cup {None}
  /\ \A j \in Jobs : (holder = j) <=> pc[j] \in {"pre", "ask", "tools", "mid", "retry",
                                                 "empty", "manual"}
  /\ attempts \in 0..MaxAttempts
  /\ dropped \subseteq 1..batches

\* What the history was cleared of, or replaced by another transcript, does not come
\* back with a compaction that had begun before (compact's stale check).
NothingClearedReturns == \A row \in ToSet(history) : row.gen = gen

\* Rows appended while a summary is in flight survive its application.
Appended == SubSeq(history, Len(snap) + 1, Len(history))
ConcurrentRowsSurvive ==
  [][snap # <<>> /\ IsPrefix(snap, history) /\ gen' = gen =>
       \/ IsPrefix(history, history')
       \/ \E i \in 1 .. Len(history') : IsPrefix(Appended, SubSeq(history', i, Len(history')))]_vars

\* Trimming the tail to its budget does not separate a tool output from its call: if
\* every output in the summarised history follows its call within the same turn, every
\* output in the kept tail does.
Linked(h) ==
  \A i \in DOMAIN h : h[i].kind = "tool" =>
    \E c \in 1 .. i - 1 : /\ h[c].kind = "call" /\ h[c].batch = h[i].batch
                          /\ \A q \in c .. i : h[q].kind # "query"
TailLinked == Linked(snap) => Linked(tail)

\* The kept tail fits its budget, or it is a single row with no more text than that; and a
\* recent turn is given up only for it: if all the retained turns fit, they are all kept.
TailFits ==
  /\ Tokens(tail) <= TailBudget \/ (Len(tail) = 1 /\ tail[1].text <= TailBudget)
  /\ LET recent == SubSeq(snap, SplitIndex(snap), Len(snap))
     IN SplitIndex(snap) > 1 /\ Tokens(recent) <= TailBudget => tail = recent

\* What the model is sent beside the summary is sound.
TailSound == TailLinked /\ TailFits

\* A call in the history is answered, or its id is still staged so that its results or
\* a stop will answer it, unless its staged id was dropped by a replaced history or by
\* the next batch.  And the state is well typed.
OpenCallsStaged ==
  /\ TypeOK
  /\ \A b \in Batches(history, "call") :
       b \in Batches(history, "tool") \cup {staged} \cup dropped

\* finalize_pending_tool_calls_as_cancelled writes outputs for every staged id "so the
\* next LLM request has a valid assistant->tool_calls->tool_output sequence"
\* (state.py:218-225): no request is built over a call that nobody is left to answer.
StoppedCallsAnswered ==
  (\A j \in Jobs : pc[j] \in {"new", "done"}) =>
    Batches(history, "call") \subseteq Batches(history, "tool")

\* Every request ends: a provider that overflows or fails at every request does not
\* keep a turn in the recovery loop.
JobsEnd == <>[](\A j \in Jobs : pc[j] \in {"new", "done"})

=============================================================================
