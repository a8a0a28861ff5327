---------------------------- MODULE Semanticizer ----------------------------
(***************************************************************************)
(* The memory summarizer of the local runtime: a background loop that      *)
(* turns the interaction rows of one user's conversations into semantic    *)
(* memories, a batch of rows of one conversation at a time.  A summary is  *)
(* stored first and its rows are marked afterwards, in another database;   *)
(* the hash of a batch's row ids, kept with the summary, is what tells     *)
(* after a crash that the batch was summarised.                            *)
(***************************************************************************)
EXTENDS Integers, FiniteSets, Sequences, SequencesExt, FiniteSetsExt

CONSTANTS
  Chats,         \* conversations
  MaxRows,       \* Bound: interaction rows stored
  MinBatch,      \* min_batch_size; min_batch_size_idle is 1
  MaxBatch,      \* max_batch_size
  MaxChats,      \* max_conversations_per_cycle
  MaxPerCycle,   \* max_summaries_per_cycle
  MaxFaults,     \* Bound: requests, additions and markings that fail, and crashes
  MaxDeletions   \* Bound: rows and summaries deleted, and clearings, by the user

ASSUME SemanticizerAssumption ==
  /\ MaxRows \in Nat /\ MinBatch \in Nat \ {0} /\ MaxBatch \in Nat \ {0}
  /\ MaxChats \in Nat \ {0} /\ MaxPerCycle \in Nat \ {0}
  /\ MaxFaults \in Nat /\ MaxDeletions \in Nat

Rows == 1..MaxRows  \* in the order of their timestamps

VARIABLES
  row,         \* row -> "absent", "raw", "marked" (is_semanticized) or "gone"
  chat,        \* row -> {} or its conversation_id
  aged,        \* rows older than idle_seconds and min_memory_age_seconds
  recent,      \* _last_activity_at is less than idle_seconds ago
  summaries,   \* the semantic memories: the source_memory_ids of each
  job,         \* what _run_loop is doing
  clearing,    \* clear_local_memory is between its two commits
  faults, deletions,
  empty,       \* History: rows of batches answered without a durable fact
  dropped,     \* History: rows of summaries the user removed
  interrupted  \* History: rows whose summary was stored and which were not marked

semanticizerVars ==
  <<row, chat, aged, recent, summaries, job, clearing, faults, deletions,
    empty, dropped, interrupted>>

store == <<row, chat, aged, recent>>
history == <<empty, dropped, interrupted>>
budget == <<faults, deletions>>

Resting == [at |-> "rest", todo |-> <<>>, done |-> 0, batch |-> {}]

SemanticizerInit ==
  /\ row = [r \in Rows |-> "absent"] /\ chat = [r \in Rows |-> {}]
  /\ aged = {} /\ recent = FALSE /\ summaries = <<>>
  /\ job = Resting /\ clearing = FALSE
  /\ faults = 0 /\ deletions = 0
  /\ empty = {} /\ dropped = {} /\ interrupted = {}

-----------------------------------------------------------------------------
(* The rows *)

Raw(c) == {r \in Rows : row[r] = "raw" /\ chat[r] = {c}}
AllRaw == {r \in Rows : row[r] = "raw"}

\* _handle_store_interaction and notify_new_memory.
StoreRow ==
  /\ \E r \in Rows, c \in Chats :
       /\ row[r] = "absent" /\ \A earlier \in 1..(r - 1) : row[earlier] # "absent"
       /\ row' = [row EXCEPT ![r] = "raw"] /\ chat' = [chat EXCEPT ![r] = {c}]
  /\ recent' = TRUE
  /\ UNCHANGED <<aged, summaries, job, clearing, budget, history>>

\* Time passes.
Age ==
  /\ recent \/ AllRaw \ aged # {}
  /\ recent' = FALSE /\ aged' = {r \in Rows : row[r] # "absent"}
  /\ UNCHANGED <<row, chat, summaries, job, clearing, budget, history>>

-----------------------------------------------------------------------------
(* One cycle *)

\* _should_run
ShouldRun ==
  \/ Cardinality(AllRaw) >= MinBatch
  \/ AllRaw # {} /\ ~recent

\* The conversations with raw rows, the one with the earliest row first.
IsWindows(w) ==
  /\ \A i \in DOMAIN w : Raw(w[i]) # {}
  /\ \A i, k \in DOMAIN w : i < k => Min(Raw(w[i])) < Min(Raw(w[k]))
  /\ \A c \in Chats : Raw(c) # {} =>
       \/ \E i \in DOMAIN w : w[i] = c
       \/ Len(w) = MaxChats /\ \A i \in DOMAIN w : Min(Raw(w[i])) < Min(Raw(c))

\* get_unsemanticized_conversation_windows: the only sequence of this kind.
Windows == {w \in UNION {[1..n -> Chats] : n \in 0..MaxChats} : IsWindows(w)}

BeginCycle ==
  /\ job.at = "rest" /\ ShouldRun
  /\ \E w \in Windows : job' = [Resting EXCEPT !.at = "next", !.todo = w]
  /\ UNCHANGED <<store, summaries, clearing, budget, history>>

\* get_unsemanticized_episodic_memories_by_conversation
FirstRows(c) == {r \in Raw(c) : Cardinality({o \in Raw(c) : o <= r}) <= MaxBatch}

\* Mutant: a small batch waits for more rows.
EnoughOnlyWhenFull(batch) == Cardinality(batch) >= MinBatch

\* _should_summarize_batch
Enough(batch) == Cardinality(batch) >= MinBatch \/ Max(batch) \in aged

\* The rest of the cycle goes on with the next conversation.
Advanced(by) == [job EXCEPT !.at = "next", !.todo = Tail(@), !.done = @ + by, !.batch = {}]

FetchBatch ==
  /\ job.at = "next" /\ job.todo # <<>> /\ job.done < MaxPerCycle
  /\ LET batch == FirstRows(Head(job.todo))
     IN job' = IF batch # {} /\ Enough(batch)
               THEN [job EXCEPT !.at = "check", !.batch = batch]
               ELSE Advanced(0)
  /\ UNCHANGED <<store, summaries, clearing, budget, history>>

EndCycle ==
  /\ job.at = "next" /\ (job.todo = <<>> \/ job.done >= MaxPerCycle)
  /\ job' = Resting
  /\ UNCHANGED <<store, summaries, clearing, budget, history>>

\* Mutant: no look at the hashes.
NeverSummarised(batch) == FALSE

\* semantic_summary_exists(_build_summary_hash(...))
Summarised(batch) == \E i \in DOMAIN summaries : summaries[i] = batch

CheckExists ==
  /\ job.at = "check"
  /\ job' = [job EXCEPT !.at = IF Summarised(job.batch) THEN "mark" ELSE "ask"]
  /\ UNCHANGED <<store, summaries, clearing, budget, history>>

\* The backend answers with durable facts or without one.
Answered ==
  /\ job.at = "ask"
  /\ \/ job' = [job EXCEPT !.at = "store"] /\ UNCHANGED empty
     \/ job' = [job EXCEPT !.at = "mark"] /\ empty' = empty \cup job.batch
  /\ UNCHANGED <<store, summaries, clearing, budget, dropped, interrupted>>

AddSummary ==
  /\ job.at = "store"
  /\ summaries' = Append(summaries, job.batch)
  /\ job' = [job EXCEPT !.at = "mark"]
  /\ UNCHANGED <<store, clearing, budget, history>>

\* _mark_semanticized
Mark ==
  /\ job.at = "mark"
  /\ row' = [r \in Rows |-> IF r \in job.batch /\ row[r] = "raw" THEN "marked" ELSE row[r]]
  /\ job' = Advanced(1)
  /\ UNCHANGED <<chat, aged, recent, summaries, clearing, budget, history>>

Unmarked == IF job.at = "mark" /\ Summarised(job.batch) THEN job.batch ELSE {}

\* An await of the batch raises: the request, the addition or the marking.
Fail ==
  /\ job.at \in {"ask", "store", "mark"} /\ faults < MaxFaults
  /\ faults' = faults + 1
  /\ interrupted' = interrupted \cup Unmarked
  /\ job' = Advanced(0)
  /\ UNCHANGED <<store, summaries, clearing, deletions, empty, dropped>>

\* The process ends and starts again: what is not in a database is gone.
Restart ==
  /\ faults < MaxFaults
  /\ faults' = faults + 1
  /\ interrupted' = interrupted \cup Unmarked
  /\ job' = Resting /\ recent' = FALSE /\ clearing' = FALSE
  /\ UNCHANGED <<row, chat, aged, summaries, deletions, empty, dropped>>

-----------------------------------------------------------------------------
(* The user *)

\* delete_episodic_memory
DeleteInteraction ==
  /\ deletions < MaxDeletions /\ deletions' = deletions + 1
  /\ \E r \in Rows : row[r] \in {"raw", "marked"} /\ row' = [row EXCEPT ![r] = "gone"]
  /\ UNCHANGED <<chat, aged, recent, summaries, job, clearing, faults, history>>

\* delete_semantic_memory
DeleteSummary ==
  /\ deletions < MaxDeletions
  /\ \E i \in DOMAIN summaries :
       summaries' = RemoveAt(summaries, i) /\ dropped' = dropped \cup summaries[i]
  /\ deletions' = deletions + 1
  /\ UNCHANGED <<store, job, clearing, faults, empty, interrupted>>

\* clear_local_memory: the episodic rows, then the semantic ones.
ClearRows ==
  /\ ~clearing /\ deletions < MaxDeletions
  /\ row' = [r \in Rows |-> IF row[r] = "absent" THEN "absent" ELSE "gone"]
  /\ clearing' = TRUE /\ deletions' = deletions + 1
  /\ UNCHANGED <<chat, aged, recent, summaries, job, faults, history>>

ClearSummaries ==
  /\ clearing /\ clearing' = FALSE
  /\ summaries' = <<>> /\ dropped' = dropped \cup UNION ToSet(summaries)
  /\ UNCHANGED <<store, job, budget, empty, interrupted>>

-----------------------------------------------------------------------------

Cycle == BeginCycle \/ FetchBatch \/ EndCycle \/ CheckExists \/ Answered \/ AddSummary \/ Mark

SemanticizerNext ==
  \/ StoreRow \/ Age \/ Cycle \/ Fail \/ Restart
  \/ DeleteInteraction \/ DeleteSummary \/ ClearRows \/ ClearSummaries

SemanticizerSpec == SemanticizerInit /\ [][SemanticizerNext]_semanticizerVars

\* The loop wakes up every interval_seconds, time passes, requests end.
SemanticizerFairness ==
  /\ WF_semanticizerVars(Cycle) /\ WF_semanticizerVars(Age)
  /\ WF_semanticizerVars(ClearSummaries)

-----------------------------------------------------------------------------
(* Properties *)

SemanticizerTypeOK ==
  /\ row \in [Rows -> {"absent", "raw", "marked", "gone"}]
  /\ chat \in [Rows -> SUBSET Chats]
  /\ aged \subseteq Rows /\ recent \in BOOLEAN /\ clearing \in BOOLEAN
  /\ summaries \in Seq((SUBSET Rows) \ {{}})
  /\ job.at \in {"rest", "next", "check", "ask", "store", "mark"}
  /\ job.todo \in Seq(Chats) /\ job.done \in 0..MaxPerCycle /\ job.batch \subseteq Rows
  /\ faults \in 0..MaxFaults /\ deletions \in 0..MaxDeletions
  /\ empty \subseteq Rows /\ dropped \subseteq Rows /\ interrupted \subseteq Rows

\* No row is lost: one that is marked is a source of a summary, or the backend found
\* nothing durable in its batch, or the user removed its summary; whatever fails or
\* crashes in between.  (_summarize_conversation_batch)
MarkedIsCovered ==
  \A r \in Rows : row[r] = "marked" =>
    r \in empty \cup dropped \/ \E i \in DOMAIN summaries : r \in summaries[i]

\* No row is summarised twice: never the same batch, and two batches that share a row
\* only when the summary was stored and the loop stopped before it marked the row.
\* (_build_summary_hash, semantic_summary_exists)
SummarisedOnce ==
  \A i, j \in DOMAIN summaries : i # j =>
    /\ summaries[i] # summaries[j]
    /\ summaries[i] \cap summaries[j] \subseteq interrupted

\* What was said is kept once.
SemanticizedOnce == SemanticizerTypeOK /\ MarkedIsCovered /\ SummarisedOnce

\* Every interaction row is semanticized or deleted in the end: small batches once they
\* have aged, those of later conversations after the earlier ones.
\* (_should_run, _should_summarize_batch)
AllSemanticized == <>[](AllRaw = {})

=============================================================================
