---------------------------- MODULE VectorIndex ----------------------------
(***************************************************************************)
(* The vectors of one kind of memory in the local store.  A vector has no  *)
(* key: the index gives it the next position, and a mapping, rebuilt at    *)
(* start from the rows' embedding ids, says which memory a position is.    *)
(* The rows are in a database; the index is written to a file after each   *)
(* addition, by another thread.  Vectors are never removed: when no        *)
(* indexed row is left, or rows and file do not agree, or the embedding    *)
(* space changes, the index starts again from nothing.                     *)
(*                                                                         *)
(* There are two kinds.  A change of the embedding space, which a search   *)
(* or an addition of either kind may bring, replaces both indexes at once  *)
(* and clears their mappings, ids and rows one kind after the other.       *)
(***************************************************************************)
EXTENDS Integers, FiniteSets, Sequences

CONSTANTS
  Memories,   \* memory ids, each stored once
  Others,     \* searches, and additions of the other kind
  Spaces,     \* embedding spaces of the SDK
  MaxStops    \* Bound: times the local runtime is closed or crashes

ASSUME VectorIndexAssumption == MaxStops \in Nat /\ Memories \cap Others = {}

VARIABLES
  second,    \* This is the kind that is cleared second (_MEMORY_ATTRS)
  embedding, \* DB: memory -> <<>> without a row, NoId or <<embedding_id>>
  file,      \* Disk: the vectors in the index file, <<>> without one
  metadata,  \* Disk: {} or the embedding space saved last
  index,     \* The memory each vector in the index was made from
  mapping,   \* vector_id_to_memory_id, as a set of pairs
  next,      \* next_vector_id
  add,       \* caller -> its place in add or search, its space and its vector id,
             \* and the vectors it saves when they are no longer the index
  delete,    \* memory -> its place in delete and the embedding_id it read
  stops,
  early,     \* History: memories deleted before their addition mapped them
  flaw       \* History: the index was replaced under an addition or a save, got a vector
             \* while it was being cleared, or a start that interrupted an operation
             \* took an index that is not the rows'.

vectorVars == <<second, embedding, file, metadata, index, mapping, next, add, delete, stops,
                early, flaw>>

Callers == Memories \cup Others

NoId == <<-1>>  \* embedding_id is NULL

NoAdd == [at |-> "none", space |-> {}, id |-> 0, saves |-> <<>>]
NoDelete == [at |-> "none", id |-> <<>>]

VectorInit ==
  /\ second \in BOOLEAN
  /\ embedding = [m \in Memories |-> <<>>] /\ file = <<>> /\ metadata = {}
  /\ index = <<>> /\ mapping = {} /\ next = 0
  /\ add = [c \in Callers |-> NoAdd] /\ delete = [m \in Memories |-> NoDelete]
  /\ stops = 0 /\ early = {} /\ flaw = FALSE

-----------------------------------------------------------------------------

HasId(m) == embedding[m] \notin {<<>>, NoId}
Indexed == {m \in Memories : HasId(m)}

At(places) == {c \in Callers : add[c].at \in places}

Saves == {"saving", "realigning"}

\* A save under way writes the index it was given; once that one is replaced, it
\* no longer grows.
Detached(a) ==
  [c \in Callers |-> IF a[c].at \in Saves /\ a[c].saves = <<>>
                     THEN [a[c] EXCEPT !.saves = <<index>>] ELSE a[c]]

\* The index is replaced while somebody has put a vector into it or is writing it.
ReplacedInUse == index # <<>> /\ At({"inserting", "inserted"} \cup Saves) # {}

\* Mutant: the ids go on.
ResetKeepingIds == index' = <<>> /\ mapping' = {} /\ next' = next

\* A new index, an empty mapping, ids from 0.
ResetIndex == index' = <<>> /\ mapping' = {} /\ next' = 0

-----------------------------------------------------------------------------
(* _ensure_external_embedding_space_alignment, in add, and the reset in search_by_embedding *)

\* _clear_all_vector_mappings: both indexes, and the mapping and ids of the first kind.
Realign(c, s) ==
  /\ add[c].at = "none" /\ metadata # {s}
  /\ IF second THEN index' = <<>> /\ UNCHANGED <<mapping, next>> ELSE ResetIndex
  /\ add' = [Detached(add) EXCEPT ![c] = [@ EXCEPT !.at = IF second THEN "reset" ELSE "cleared",
                                                   !.space = {s}]]
  /\ flaw' = (flaw \/ ReplacedInUse)
  /\ UNCHANGED <<second, embedding, file, metadata, delete, stops, early>>

\* The mapping and ids of the second kind, after the rows of the first.
ClearIds(c) ==
  /\ add[c].at = "reset"
  /\ mapping' = {} /\ next' = 0
  /\ add' = [add EXCEPT ![c].at = "cleared"]
  /\ UNCHANGED <<second, embedding, file, metadata, index, delete, stops, early, flaw>>

Nullified == [m \in Memories |-> IF HasId(m) THEN NoId ELSE embedding[m]]

ClearEmbeddings(c) ==
  /\ add[c].at = "cleared"
  /\ embedding' = Nullified
  /\ add' = [add EXCEPT ![c].at = "emptied"]
  /\ UNCHANGED <<second, file, metadata, index, mapping, next, delete, stops, early, flaw>>

\* save_indices_async is given the index.
SaveRealigned(c) ==
  /\ add[c].at = "emptied"
  /\ add' = [add EXCEPT ![c].at = "realigning"]
  /\ UNCHANGED <<second, embedding, file, metadata, index, mapping, next, delete, stops, early, flaw>>

Written(c) == IF add[c].saves = <<>> THEN index ELSE add[c].saves[1]

\* The vector goes into the index that is there now, whoever is still clearing it.
AddVector(m) ==
  /\ index' = Append(index, m) /\ next' = next + 1
  /\ add' = [add EXCEPT ![m] = [NoAdd EXCEPT !.at = "inserting", !.id = next]]
  /\ flaw' = (flaw \/ At({"reset", "cleared"}) # {})

\* The file is written and the metadata saved; then add goes on.
Realigned(c) ==
  /\ add[c].at = "realigning"
  /\ file' = Written(c) /\ metadata' = add[c].space
  /\ \/ c \in Memories /\ AddVector(c)
     \/ /\ c \in Others /\ add' = [add EXCEPT ![c] = NoAdd]
        /\ UNCHANGED <<index, next, flaw>>
  /\ UNCHANGED <<second, embedding, mapping, delete, stops, early>>

-----------------------------------------------------------------------------
(* add *)

\* Without an embedding there is only the row.
AddPlain(m) ==
  /\ add[m].at = "none"
  /\ embedding' = [embedding EXCEPT ![m] = NoId]
  /\ add' = [add EXCEPT ![m].at = "done"]
  /\ UNCHANGED <<second, file, metadata, index, mapping, next, delete, stops, early, flaw>>

\* In the space of the index: the vector is there before the row.
AddEmbedded(m, s) ==
  /\ add[m].at = "none" /\ metadata = {s}
  /\ AddVector(m)
  /\ UNCHANGED <<second, embedding, file, metadata, mapping, delete, stops, early>>

InsertRow(m) ==
  /\ add[m].at = "inserting"
  /\ embedding' = [embedding EXCEPT ![m] = <<add[m].id>>]
  /\ add' = [add EXCEPT ![m].at = "inserted"]
  /\ UNCHANGED <<second, file, metadata, index, mapping, next, delete, stops, early, flaw>>

\* INSERT raises; the vector stays.
InsertFails(m) ==
  /\ add[m].at = "inserting"
  /\ add' = [add EXCEPT ![m] = [NoAdd EXCEPT !.at = "failed"]]
  /\ UNCHANGED <<second, embedding, file, metadata, index, mapping, next, delete, stops, early, flaw>>

MapRow(m) ==
  /\ add[m].at = "inserted"
  /\ mapping' = {p \in mapping : p[1] # add[m].id} \cup {<<add[m].id, m>>}
  /\ add' = [add EXCEPT ![m].at = "saving"]
  /\ UNCHANGED <<second, embedding, file, metadata, index, next, delete, stops, early, flaw>>

\* An addition of the other kind saves the indexes of both.
SaveOther(c) ==
  /\ add[c].at = "none"
  /\ add' = [add EXCEPT ![c].at = "saving"]
  /\ UNCHANGED <<second, embedding, file, metadata, index, mapping, next, delete, stops, early, flaw>>

\* save_indices_async
Saved(c) ==
  /\ add[c].at = "saving"
  /\ file' = Written(c)
  /\ add' = [add EXCEPT ![c] = [NoAdd EXCEPT !.at = IF c \in Memories THEN "done" ELSE "none"]]
  /\ UNCHANGED <<second, embedding, metadata, index, mapping, next, delete, stops, early, flaw>>

-----------------------------------------------------------------------------
(* delete_episodic_memory, delete_semantic_memory: of any row that is there *)

SelectRow(m) ==
  /\ delete[m].at = "none" /\ embedding[m] # <<>>
  /\ delete' = [delete EXCEPT ![m] = [at |-> "selected", id |-> embedding[m]]]
  /\ UNCHANGED <<second, embedding, file, metadata, index, mapping, next, add, stops, early, flaw>>

DeleteRow(m) ==
  /\ delete[m].at = "selected"
  /\ embedding' = [embedding EXCEPT ![m] = <<>>]
  /\ delete' = [delete EXCEPT ![m].at = "deleted"]
  /\ early' = IF add[m].at = "inserted" THEN early \cup {m} ELSE early
  /\ UNCHANGED <<second, file, metadata, index, mapping, next, add, stops, flaw>>

\* The position the row had when it was read, if any, is dropped; then the indexed rows
\* are counted.
Unmap(m) ==
  /\ delete[m].at = "deleted"
  /\ mapping' = {p \in mapping : <<p[1]>> # delete[m].id}
  /\ delete' = [delete EXCEPT ![m] = [at |-> IF Indexed = {} THEN "empty" ELSE "done", id |-> <<>>]]
  /\ UNCHANGED <<second, embedding, file, metadata, index, next, add, stops, early, flaw>>

\* _cleanup_index_artifacts_if_empty
Cleanup(m) ==
  /\ delete[m].at = "empty"
  /\ ResetIndex /\ file' = <<>>
  /\ add' = Detached(add)
  /\ delete' = [delete EXCEPT ![m].at = "done"]
  /\ flaw' = (flaw \/ ReplacedInUse \/ Indexed # {})
  /\ UNCHANGED <<second, embedding, metadata, stops, early>>

-----------------------------------------------------------------------------
(* Close, crash and start *)

\* load_vector_mappings: one row for each id
RowIds == {<<embedding[m][1], m>> : m \in Indexed}
Loadings == {l \in SUBSET RowIds : /\ \A r \in RowIds : \E p \in l : p[1] = r[1]
                                   /\ \A p, q \in l : p[1] = q[1] => p = q}
NextAfter(loaded) == IF loaded = {} THEN 0 ELSE 1 + CHOOSE i \in {p[1] : p \in loaded} :
                                                     \A p \in loaded : p[1] <= i

\* _repair_index_mapping_mismatch
Agree(vectors, loaded) == loaded = {} \/ Len(vectors) = Cardinality(loaded)

\* The rows are those of the vectors.
IsTheirs(vectors) == RowIds = {<<i - 1, vectors[i]>> : i \in 1..Len(vectors)}

Underway ==
  \/ \E m \in Memories : add[m].at \notin {"none", "done"} \/ delete[m].at \notin {"none", "done"}
  \/ \E c \in Others : add[c].at \notin {"none", "saving"}

\* initialize, from the file that is there: close() saved the index, a crash did not.
Start(vectors) ==
  \E loaded \in Loadings :
    /\ IF Agree(vectors, loaded)
       THEN index' = vectors /\ mapping' = loaded /\ next' = NextAfter(loaded) /\ UNCHANGED embedding
       ELSE ResetIndex /\ embedding' = Nullified
    /\ file' = index'
    /\ add' = [c \in Callers |-> IF add[c].at = "none" \/ c \in Others
                                 THEN NoAdd ELSE [NoAdd EXCEPT !.at = "done"]]
    /\ delete' = [m \in Memories |-> IF delete[m].at \in {"none", "selected"}
                                     THEN NoDelete ELSE [NoDelete EXCEPT !.at = "done"]]
    /\ flaw' = (flaw \/ (Underway /\ Agree(vectors, loaded) /\ ~IsTheirs(vectors)))
    /\ UNCHANGED <<second, metadata, early>>

CloseSaved == stops < MaxStops /\ stops' = stops + 1 /\ Start(index)
CrashUnsaved == stops < MaxStops /\ stops' = stops + 1 /\ Start(file)

-----------------------------------------------------------------------------

VectorNext ==
  \/ CloseSaved \/ CrashUnsaved
  \/ \E c \in Callers :
       \/ ClearIds(c) \/ ClearEmbeddings(c) \/ SaveRealigned(c) \/ Realigned(c) \/ Saved(c)
       \/ \E s \in Spaces : Realign(c, s)
  \/ \E c \in Others : SaveOther(c)
  \/ \E m \in Memories :
       \/ AddPlain(m) \/ InsertRow(m) \/ InsertFails(m) \/ MapRow(m)
       \/ SelectRow(m) \/ DeleteRow(m) \/ Unmap(m) \/ Cleanup(m)
       \/ \E s \in Spaces : AddEmbedded(m, s)

VectorSpec == VectorInit /\ [][VectorNext]_vectorVars

-----------------------------------------------------------------------------
(* Properties *)

VectorTypeOK ==
  /\ \A m \in Memories : embedding[m] \in Seq(Nat \cup {-1}) /\ Len(embedding[m]) <= 1
  /\ file \in Seq(Memories) /\ index \in Seq(Memories) /\ metadata \subseteq Spaces
  /\ mapping \subseteq Nat \X Memories /\ next \in Nat
  /\ \A c \in Callers :
       /\ add[c].at \in {"none", "reset", "cleared", "emptied", "realigning", "inserting",
                         "inserted", "saving", "done", "failed"}
       /\ add[c].space \subseteq Spaces /\ add[c].id \in Nat
       /\ add[c].saves \in Seq(Seq(Memories)) /\ Len(add[c].saves) <= 1
  /\ \A m \in Memories : delete[m].at \in {"none", "selected", "deleted", "empty", "done"}
  /\ stops \in 0..MaxStops /\ second \in BOOLEAN /\ early \subseteq Memories /\ flaw \in BOOLEAN

\* While there are vectors, every mapped memory is found at its position and nowhere
\* else: the vector there was made from it.  And none is mapped that was deleted after
\* its addition mapped it, across deletions that leave vectors behind, realignments,
\* resets and restarts; and the state is well typed.  ("stale vectors cannot be resolved
\* back to memory IDs": delete_semantic_memory)
ResolvedIsOwn ==
  /\ VectorTypeOK
  /\ ~flaw => \A p \in mapping :
       /\ delete[p[2]].at = "done" => p[2] \in early
       /\ index # <<>> => p[1] < Len(index) /\ index[p[1] + 1] = p[2]

=============================================================================
