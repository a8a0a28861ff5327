---------------------------- MODULE Transcripts ----------------------------
(***************************************************************************)
(* The chat-event store of the local runtime, for one conversation: events *)
(* in the order of their message_index, and a graph of revisions, one of   *)
(* which is active.  The SDK's conversation runtime stamps an event with   *)
(* the revision it works on (its head) when the event arrives; the event   *)
(* is stored later, by a request that first reads the next index and then  *)
(* inserts.  Edits, retries and forks store a new display revision.        *)
(***************************************************************************)
EXTENDS Integers, FiniteSets, FiniteSetsExt

CONSTANTS
  Revisions,   \* revision ids
  Events,      \* conversation events
  Checkpoints, \* model histories, each stored as the checkpoint of a revision
  PageSize,    \* LocalRuntimeConversationStore.pageSize
  MaxPages     \* LocalRuntimeConversationStore.maxPages

ASSUME TranscriptsAssumption ==
  PageSize \in Nat \ {0} /\ MaxPages \in Nat \ {0} /\ Events \cap Checkpoints = {}

Writes == Events \cup Checkpoints

VARIABLES
  state,     \* revision -> "unused", "stored" or "deleted"
  parent,    \* revision -> {} or its parent_revision_id
  active,    \* the revisions with active = 1
  updated,   \* revision -> updated_at
  displayed, \* the revisions with a display_timeline_id
  write,     \* write -> its place, revision, created_at and index
  stored,    \* the events stored
  head,      \* the revision the SDK works on: {} before the first one
  clock,     \* timestamps given out
  raced      \* History: an index was read while another write had read one.

transcriptsVars ==
  <<state, parent, active, updated, displayed, write, stored, head, clock, raced>>

graph == <<state, parent, active, updated, displayed>>

NotSent == [at |-> "none", rev |-> {}, time |-> 0, index |-> 0]

TranscriptsInit ==
  /\ state = [r \in Revisions |-> "unused"] /\ parent = [r \in Revisions |-> {}]
  /\ active = {} /\ updated = [r \in Revisions |-> 0] /\ displayed = {}
  /\ write = [w \in Writes |-> NotSent] /\ stored = {}
  /\ head = {} /\ clock = 0 /\ raced = FALSE

-----------------------------------------------------------------------------
(* The revision graph *)

Stored == {r \in Revisions : state[r] = "stored"}

\* _revision_branch_order_expression: children of the active revision come first,
\* then the active one; the latest of them is current.
Rank(r) == IF parent[r] \cap active # {} THEN 2 ELSE IF r \in active THEN 1 ELSE 0

\* _select_current_revision_node; ties of updated_at are broken by the id.
CurrentAmong(rs) ==
  {r \in rs : \A o \in rs : \/ Rank(o) < Rank(r)
                            \/ Rank(o) = Rank(r) /\ updated[o] <= updated[r]}

Current == CurrentAmong(Stored)
CurrentDisplay == CurrentAmong(Stored \cap displayed)

\* Mutant: the write makes its revision active whatever is active now.
StaysActive(r) == FALSE

\* A revision with an active child does not become active.
ChildIsActive(r) == \E c \in active \ {r} : parent[c] = {r}

Activate(r) == IF ChildIsActive(r) THEN active \ {r} ELSE {r}

\* _upsert_revision_node
Upsert(r, base, shows, time) ==
  /\ state' = [state EXCEPT ![r] = "stored"]
  /\ active' = Activate(r)
  /\ parent' = [parent EXCEPT ![r] = IF base # {} THEN base ELSE @]
  /\ displayed' = IF shows THEN displayed \cup {r} ELSE displayed
  /\ updated' = [updated EXCEPT ![r] = time]

-----------------------------------------------------------------------------
(* The SDK *)

Fresh(r) == state[r] = "unused" /\ head # {r} /\ \A w \in Writes : write[w].rev # {r}

\* The first send of a conversation.
StartConversation ==
  /\ head = {}
  /\ \E r \in Revisions : Fresh(r) /\ head' = {r}
  /\ UNCHANGED <<graph, write, stored, clock, raced>>

\* An event or a checkpoint arrives or is made, for the revision at the head; events
\* wait in a queue and for the store.
Emit(w) ==
  /\ write[w].at = "none" /\ head # {}
  /\ write' = [write EXCEPT ![w] =
                 [at |-> "sent", rev |-> head, time |-> clock + 1, index |-> 0]]
  /\ clock' = clock + 1
  /\ UNCHANGED <<graph, stored, head, raced>>

\* replace_display_timeline: an edit, a retry or a fork of what is displayed.
Replace ==
  /\ head # {} /\ head \subseteq Stored
  /\ \E r \in Revisions :
       Fresh(r) /\ Upsert(r, head, TRUE, clock + 1) /\ head' = {r}
  /\ clock' = clock + 1
  /\ UNCHANGED <<write, stored, raced>>

\* checkoutRevision changes nothing in the store.
Checkout ==
  /\ \E r \in displayed : head' = {r}
  /\ UNCHANGED <<graph, write, stored, clock, raced>>

-----------------------------------------------------------------------------
(* The store *)

\* get_next_chat_event_index
NextIndex == 1 + Max({0} \cup {write[w].index : w \in stored})

\* append_chat_event up to its transaction.
ReadIndex(w) ==
  /\ w \in Events /\ write[w].at = "sent"
  /\ write' = [write EXCEPT ![w].at = "indexed", ![w].index = NextIndex]
  /\ raced' = (raced \/ \E o \in Writes : write[o].at = "indexed")
  /\ UNCHANGED <<graph, stored, head, clock>>

InsertEvent(w, r) ==
  /\ write[w].at = "indexed" /\ write[w].rev = {r}
  /\ Upsert(r, {}, FALSE, write[w].time)
  /\ stored' = stored \cup {w}
  /\ write' = [write EXCEPT ![w].at = "done"]
  /\ UNCHANGED <<head, clock, raced>>

\* replace_model_history_checkpoint
StoreCheckpoint(w, r) ==
  /\ w \in Checkpoints /\ write[w].at = "sent" /\ write[w].rev = {r}
  /\ Upsert(r, {}, FALSE, write[w].time)
  /\ write' = [write EXCEPT ![w].at = "done"]
  /\ UNCHANGED <<stored, head, clock, raced>>

\* delete_conversation; writes under way come after it.
DeleteConversation ==
  /\ Stored # {}
  /\ state' = [r \in Revisions |-> IF r \in Stored THEN "deleted" ELSE state[r]]
  /\ parent' = [r \in Revisions |-> {}] /\ active' = {} /\ displayed' = {}
  /\ updated' = [r \in Revisions |-> 0]
  /\ stored' = {} /\ head' = {}
  /\ raced' = (raced \/ \E w \in Writes : write[w].at = "indexed")
  /\ UNCHANGED <<write, clock>>

-----------------------------------------------------------------------------

Before(v, w) ==
  \/ write[v].index < write[w].index
  \/ write[v].index = write[w].index /\ write[v].time < write[w].time

\* ORDER BY message_index, timestamp LIMIT k
Limit(rows, k) == {w \in rows : Cardinality({v \in rows : Before(v, w)}) < k}

\* load_conversation_events
PageAfter(index) == Limit({w \in stored : write[w].index > index}, PageSize)

\* Mutant: the next page starts one row too late.
LastIndexAndOne(page) == Max({write[w].index : w \in page}) + 1

LastIndex(page) == Max({write[w].index : w \in page})

\* loadEvents asks for one page after the other, each after the last row of the one
\* before; it stops where asking again would give no row.
Loaded ==
  LET cursor[n \in 0..MaxPages] ==
        IF n = 0 THEN 0
        ELSE IF PageAfter(cursor[n - 1]) = {} THEN cursor[n - 1]
        ELSE LastIndex(PageAfter(cursor[n - 1]))
  IN UNION {PageAfter(cursor[n]) : n \in 0..(MaxPages - 1)}

-----------------------------------------------------------------------------

Late(w) == write[w].rev # head

Commit(w) == \E r \in Revisions : InsertEvent(w, r) \/ StoreCheckpoint(w, r)

TranscriptsNext ==
  \/ StartConversation \/ Replace \/ Checkout \/ DeleteConversation
  \/ \E w \in Writes : Emit(w) \/ ReadIndex(w) \/ Commit(w)

TranscriptsSpec == TranscriptsInit /\ [][TranscriptsNext]_transcriptsVars

-----------------------------------------------------------------------------
(* Properties *)

TranscriptsTypeOK ==
  /\ state \in [Revisions -> {"unused", "stored", "deleted"}]
  /\ parent \in [Revisions -> SUBSET Revisions]
  /\ active \subseteq Stored /\ displayed \subseteq Stored
  /\ updated \in [Revisions -> Nat]
  /\ \A w \in Writes : /\ write[w].at \in {"none", "sent", "indexed", "done"}
                       /\ write[w].rev \subseteq Revisions
                       /\ write[w].time \in 0..clock /\ write[w].index \in Nat
  /\ stored \subseteq {w \in Writes : write[w].at = "done"}
  /\ head \subseteq Revisions /\ clock \in Nat /\ raced \in BOOLEAN

\* A conversation with revisions has exactly one active revision and one current
\* one, whatever order the writes reach the store in.  (_upsert_revision_node)
OneHead ==
  Stored # {} => Cardinality(active) = 1 /\ Current # {} /\ (displayed # {} => CurrentDisplay # {})

\* A late write of the revision that was edited does not take the conversation back
\* from the edit.  (test_chat_event_store_keeps_child_revision_active_after_parent_
\* checkpoint)
ParentWriteIsInert ==
  [][\A w \in Writes :
       Late(w) /\ Commit(w) /\ head \subseteq active /\ (\E c \in head : parent[c] = write[w].rev)
       => Current' = Current /\ active' = active]_transcriptsVars

\* Reading page by page finds the events from the first one on, none left out between
\* two pages, as many as the pages asked for can hold, unless two appends read the same
\* index.  (get_next_chat_event_index, load_conversation_events, loadEvents)
PagesComplete == raced \/ Loaded = Limit(stored, MaxPages * PageSize)

\* The transcript stays whole: one head, and every event reachable.
TranscriptIsWhole == TranscriptsTypeOK /\ OneHead /\ PagesComplete

=============================================================================
