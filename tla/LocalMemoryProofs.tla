------------------------- MODULE LocalMemoryProofs -------------------------
(***************************************************************************)
(* Proofs about the local store of the runtime: the summarizer of          *)
(* conversations, the vectors of memories, and the transcript with its     *)
(* revisions and the pages it is read in.                                  *)
(***************************************************************************)
EXTENDS Semanticizer, VectorIndex, Transcripts, DataFacts, FiniteSetTheorems

-----------------------------------------------------------------------------
(* The summarizer: the inductive invariant *)

Job == [at : {"rest", "next", "check", "ask", "store", "mark"}, todo : Seq(Chats),
        done : 0..MaxPerCycle, batch : SUBSET Rows]

\* The types; and the loop works on a batch, with rows, of the first conversation.
LoopTypes ==
  /\ row \in [Rows -> {"absent", "raw", "marked", "gone"}]
  /\ chat \in [Rows -> SUBSET Chats]
  /\ aged \subseteq Rows /\ recent \in BOOLEAN /\ clearing \in BOOLEAN
  /\ summaries \in Seq((SUBSET Rows) \ {{}})
  /\ job \in Job
  /\ faults \in 0..MaxFaults /\ deletions \in 0..MaxDeletions
  /\ empty \subseteq Rows /\ dropped \subseteq Rows /\ interrupted \subseteq Rows
  /\ job.at \in {"check", "ask", "store", "mark"} =>
       job.todo # <<>> /\ job.done < MaxPerCycle /\ job.batch # {}

\* A row that has a summary, that never had to, or whose summary was removed.
Covered(r) == r \in empty \cup dropped \/ \E i \in DOMAIN summaries : r \in summaries[i]

\* A row that is raw and in a summary is about to be marked, or was interrupted.
RawOnce ==
  \A r \in Rows, i \in DOMAIN summaries :
    row[r] = "raw" /\ r \in summaries[i] =>
      r \in interrupted \/ (job.at = "mark" /\ Summarised(job.batch) /\ r \in job.batch)

\* A batch shares only interrupted rows with the summaries, and is not one of them
\* once that was checked; when it is to be marked all of it is covered.
BatchOnce ==
  /\ job.at \in {"check", "ask", "store"} =>
       \A i \in DOMAIN summaries : job.batch \cap summaries[i] \subseteq interrupted
  /\ job.at \in {"ask", "store"} => ~Summarised(job.batch)
  /\ job.at = "mark" => \A r \in job.batch : Covered(r)

\* Batches and summaries are of rows that were stored.
Present ==
  /\ \A r \in job.batch : row[r] # "absent"
  /\ \A i \in DOMAIN summaries : \A r \in summaries[i] : row[r] # "absent"

SummaryInv == LoopTypes /\ Present /\ RawOnce /\ BatchOnce /\ MarkedIsCovered /\ SummarisedOnce

-----------------------------------------------------------------------------
(* The summarizer: the invariant is kept *)

\* A sequence without its element i.
LEMMA RemoveFacts ==
  ASSUME NEW S, NEW s \in Seq(S), NEW i \in 1..Len(s)
  PROVE  /\ RemoveAt(s, i) \in Seq(S)
         /\ Len(RemoveAt(s, i)) = Len(s) - 1
         /\ \A k \in 1..(Len(s) - 1) : RemoveAt(s, i)[k] = s[IF k < i THEN k ELSE k + 1]
<1> DEFINE a == SubSeq(s, 1, i - 1)
           b == SubSeq(s, i + 1, Len(s))
<1>1. Len(s) \in Nat
  BY LenProperties
<1>2. /\ a \in Seq(S) /\ Len(a) = i - 1 /\ \A k \in 1..(i - 1) : a[k] = s[k]
      /\ b \in Seq(S) /\ Len(b) = Len(s) - i /\ \A k \in 1..(Len(s) - i) : b[k] = s[i + k]
  BY <1>1
<1> HIDE DEF a, b
<1>3. /\ a \o b \in Seq(S) /\ Len(a \o b) = Len(s) - 1
      /\ \A k \in 1..(i - 1) : (a \o b)[k] = s[k]
      /\ \A k \in 1..(Len(s) - i) : (a \o b)[(i - 1) + k] = s[i + k]
  <2>1. /\ a \o b \in Seq(S) /\ Len(a \o b) = Len(a) + Len(b)
        /\ \A k \in 1..Len(a) : (a \o b)[k] = a[k]
        /\ \A k \in 1..Len(b) : (a \o b)[Len(a) + k] = b[k]
    <3>1. a \in Seq(S) /\ b \in Seq(S)
      BY <1>2
    <3> QED
      BY <3>1, ConcatFacts
  <2>2. (i - 1) + (Len(s) - i) = Len(s) - 1
    BY <1>1
  <2> QED
    BY <1>2, <2>1, <2>2
<1>4. ASSUME NEW k \in 1..(Len(s) - 1) PROVE (a \o b)[k] = s[IF k < i THEN k ELSE k + 1]
  <2>1. CASE k < i
    BY <1>1, <1>3, <2>1
  <2>2. CASE ~(k < i)
    <3>1. PICK j \in 1..(Len(s) - i) : (i - 1) + j = k /\ i + j = k + 1
      <4>1. /\ k - (i - 1) \in 1..(Len(s) - i)
            /\ (i - 1) + (k - (i - 1)) = k /\ i + (k - (i - 1)) = k + 1
        BY <1>1, <2>2
      <4> QED
        BY <4>1
    <3>2. (a \o b)[(i - 1) + j] = s[i + j]
      BY <1>3
    <3> QED
      BY <2>2, <3>1, <3>2
  <2> QED
    BY <2>1, <2>2
<1> QED
  BY <1>3, <1>4 DEF RemoveAt, a, b

\* The windows are sequences of conversations.
LEMMA WindowsFacts == \A w \in Windows : w \in Seq(Chats)
<1>1. ASSUME NEW n \in 0..MaxChats, NEW w \in [1..n -> Chats] PROVE w \in Seq(Chats)
  BY SemanticizerAssumption
<1> QED
  BY <1>1 DEF Windows

LEMMA SummaryInitially == SemanticizerInit => SummaryInv
<1> SUFFICES ASSUME SemanticizerInit PROVE SummaryInv
  OBVIOUS
<1> USE DEF SemanticizerInit, Resting
<1>1. LoopTypes
  <2>1. <<>> \in Seq(Chats) /\ <<>> \in Seq((SUBSET Rows) \ {{}})
    OBVIOUS
  <2>2. job \in Job /\ job.at = "rest"
    BY <2>1, SemanticizerAssumption DEF Job
  <2>3. 0 \in 0..MaxFaults /\ 0 \in 0..MaxDeletions
    BY SemanticizerAssumption
  <2>4. row \in [Rows -> {"absent", "raw", "marked", "gone"}] /\ chat \in [Rows -> SUBSET Chats]
    OBVIOUS
  <2> QED
    BY <2>1, <2>2, <2>3, <2>4 DEF LoopTypes
<1>2. Present /\ RawOnce /\ BatchOnce /\ MarkedIsCovered /\ SummarisedOnce
  BY DEF Present, RawOnce, BatchOnce, MarkedIsCovered, SummarisedOnce
<1> QED
  BY <1>1, <1>2 DEF SummaryInv

\* What the loop's steps make of the job.
LEMMA JobFacts ==
  ASSUME LoopTypes
  PROVE  /\ Resting \in Job
         /\ \A w \in Windows : [Resting EXCEPT !.at = "next", !.todo = w] \in Job
         /\ job.todo # <<>> => Advanced(0) \in Job /\ Advanced(0).at = "next"
         /\ job.todo # <<>> /\ job.done < MaxPerCycle => Advanced(1) \in Job /\ Advanced(1).at = "next"
         /\ \A at \in {"next", "check", "ask", "store", "mark"} : [job EXCEPT !.at = at] \in Job
<1>1. 0 \in 0..MaxPerCycle /\ <<>> \in Seq(Chats)
  BY SemanticizerAssumption
<1>2. job \in Job
  BY DEF LoopTypes
<1>3. \A w \in Windows : w \in Seq(Chats)
  BY WindowsFacts
<1>4. ASSUME job.todo # <<>> PROVE Tail(job.todo) \in Seq(Chats)
  BY <1>2, <1>4 DEF Job
<1>5. job.done + 0 \in 0..MaxPerCycle /\ (job.done < MaxPerCycle => job.done + 1 \in 0..MaxPerCycle)
  BY <1>2, SemanticizerAssumption DEF Job
<1> QED
  BY <1>1, <1>2, <1>3, <1>4, <1>5 DEF Job, Resting, Advanced

LEMMA LoopTypesNext == LoopTypes /\ [SemanticizerNext]_semanticizerVars => LoopTypes'
<1> SUFFICES ASSUME LoopTypes, [SemanticizerNext]_semanticizerVars PROVE LoopTypes'
  OBVIOUS
<1> USE DEF LoopTypes
<1>0. Resting.at = "rest" /\ Resting \in Job
  BY JobFacts DEF Resting
<1>1. CASE StoreRow
  <2>1. PICK r \in Rows, c \in Chats :
          row' = [row EXCEPT ![r] = "raw"] /\ chat' = [chat EXCEPT ![r] = {c}]
    BY <1>1 DEF StoreRow
  <2>2. row' \in [Rows -> {"absent", "raw", "marked", "gone"}] /\ chat' \in [Rows -> SUBSET Chats]
    BY <2>1
  <2> QED
    BY <1>1, <2>2 DEF StoreRow, budget, history
<1>2. CASE Age
  BY <1>2 DEF Age, budget, history
<1>3. CASE BeginCycle
  <2>1. PICK w \in Windows : job' = [Resting EXCEPT !.at = "next", !.todo = w]
    BY <1>3 DEF BeginCycle
  <2>2. job' \in Job /\ job'.at = "next"
    BY <2>1, JobFacts DEF Resting
  <2> QED
    BY <1>3, <2>2 DEF BeginCycle, store, budget, history
<1>4. CASE FetchBatch
  <2> DEFINE batch == FirstRows(Head(job.todo))
  <2>1. CASE batch # {} /\ Enough(batch)
    <3>1. job' = [job EXCEPT !.at = "check", !.batch = batch] /\ job.todo # <<>> /\ job.done < MaxPerCycle
      BY <1>4, <2>1 DEF FetchBatch
    <3>2. batch \in SUBSET Rows
      BY DEF FirstRows, Raw
    <3> HIDE DEF batch
    <3>3. /\ job' \in Job /\ job'.batch = batch /\ job'.todo = job.todo /\ job'.done = job.done
      BY <3>1, <3>2 DEF Job
    <3> QED
      BY <1>4, <2>1, <3>1, <3>3 DEF FetchBatch, store, budget, history
  <2>2. CASE ~(batch # {} /\ Enough(batch))
    <3>1. job' = Advanced(0) /\ job.todo # <<>>
      BY <1>4, <2>2 DEF FetchBatch
    <3>2. job' \in Job /\ job'.at = "next"
      BY <3>1, JobFacts
    <3> QED
      BY <1>4, <3>2 DEF FetchBatch, store, budget, history
  <2> QED
    BY <2>1, <2>2
<1>5. CASE EndCycle
  BY <1>0, <1>5 DEF EndCycle, store, budget, history
<1>6. CASE CheckExists
  <2>1. PICK at \in {"mark", "ask"} : job' = [job EXCEPT !.at = at]
    BY <1>6 DEF CheckExists
  <2>2. job' \in Job /\ job'.batch = job.batch /\ job'.todo = job.todo /\ job'.done = job.done
    BY <2>1, JobFacts DEF Job
  <2> QED
    BY <1>6, <2>2 DEF CheckExists, store, budget, history
<1>7. CASE Answered
  <2>1. PICK at \in {"mark", "store"} : job' = [job EXCEPT !.at = at]
    BY <1>7 DEF Answered
  <2>2. job' \in Job /\ job'.batch = job.batch /\ job'.todo = job.todo /\ job'.done = job.done
    BY <2>1, JobFacts DEF Job
  <2>3. empty' \subseteq Rows
    BY <1>7 DEF Answered, Job
  <2> QED
    BY <1>7, <2>2, <2>3 DEF Answered, store, budget
<1>8. CASE AddSummary
  <2>1. job' = [job EXCEPT !.at = "mark"] /\ job.at = "store" /\ summaries' = Append(summaries, job.batch)
    BY <1>8 DEF AddSummary
  <2>2. job' \in Job /\ job'.batch = job.batch /\ job'.todo = job.todo /\ job'.done = job.done
    BY <2>1, JobFacts DEF Job
  <2>3. job.batch \in (SUBSET Rows) \ {{}}
    <3>1. job.batch \in SUBSET Rows /\ job.batch # {}
      BY <2>1 DEF Job
    <3> QED
      BY <3>1
  <2>4. summaries' \in Seq((SUBSET Rows) \ {{}})
    BY <2>1, <2>3, AppendProperties
  <2> QED
    BY <1>8, <2>1, <2>2, <2>4 DEF AddSummary, store, budget, history
<1>9. CASE Mark
  <2>1. job' = Advanced(1) /\ job.todo # <<>> /\ job.done < MaxPerCycle
    BY <1>9 DEF Mark
  <2>2. job' \in Job /\ job'.at = "next"
    BY <2>1, JobFacts
  <2>3. row' \in [Rows -> {"absent", "raw", "marked", "gone"}]
    BY <1>9 DEF Mark
  <2> QED
    BY <1>9, <2>2, <2>3 DEF Mark, budget, history
<1>10. CASE Fail
  <2>1. job' = Advanced(0) /\ job.todo # <<>>
    BY <1>10 DEF Fail
  <2>2. job' \in Job /\ job'.at = "next"
    BY <2>1, JobFacts
  <2>3. Unmarked \subseteq Rows
    BY DEF Unmarked, Job
  <2>4. faults' \in 0..MaxFaults
    BY <1>10, SemanticizerAssumption DEF Fail
  <2> QED
    BY <1>10, <2>2, <2>3, <2>4 DEF Fail, store
<1>11. CASE Restart
  <2>1. Unmarked \subseteq Rows
    BY DEF Unmarked, Job
  <2>2. faults' \in 0..MaxFaults
    BY <1>11, SemanticizerAssumption DEF Restart
  <2> QED
    BY <1>0, <1>11, <2>1, <2>2 DEF Restart
<1>12. CASE DeleteInteraction
  <2>1. deletions' \in 0..MaxDeletions
    BY <1>12, SemanticizerAssumption DEF DeleteInteraction
  <2>2. row' \in [Rows -> {"absent", "raw", "marked", "gone"}]
    BY <1>12 DEF DeleteInteraction
  <2> QED
    BY <1>12, <2>1, <2>2 DEF DeleteInteraction, history
<1>13. CASE DeleteSummary
  <2>1. deletions' \in 0..MaxDeletions
    BY <1>13, SemanticizerAssumption DEF DeleteSummary
  <2>2. PICK i \in DOMAIN summaries : summaries' = RemoveAt(summaries, i) /\ dropped' = dropped \cup summaries[i]
    BY <1>13 DEF DeleteSummary
  <2>3. i \in 1..Len(summaries)
    OBVIOUS
  <2>4. summaries' \in Seq((SUBSET Rows) \ {{}}) /\ summaries[i] \in (SUBSET Rows) \ {{}}
    BY <2>2, <2>3, RemoveFacts
  <2> QED
    BY <1>13, <2>1, <2>2, <2>4 DEF DeleteSummary, store
<1>14. CASE ClearRows
  <2>1. deletions' \in 0..MaxDeletions
    BY <1>14, SemanticizerAssumption DEF ClearRows
  <2>2. row' \in [Rows -> {"absent", "raw", "marked", "gone"}]
    BY <1>14 DEF ClearRows
  <2> QED
    BY <1>14, <2>1, <2>2 DEF ClearRows, history
<1>15. CASE ClearSummaries
  <2>1. \A i \in DOMAIN summaries : summaries[i] \subseteq Rows
    OBVIOUS
  <2>2. UNION ToSet(summaries) \subseteq Rows
    BY <2>1 DEF ToSet
  <2>3. <<>> \in Seq((SUBSET Rows) \ {{}})
    OBVIOUS
  <2> QED
    BY <1>15, <2>2, <2>3 DEF ClearSummaries, store, budget
<1>16. CASE UNCHANGED semanticizerVars
  BY <1>16 DEF semanticizerVars
<1> QED
  BY <1>1, <1>2, <1>3, <1>4, <1>5, <1>6, <1>7, <1>8, <1>9, <1>10, <1>11, <1>12, <1>13, <1>14,
     <1>15, <1>16 DEF SemanticizerNext, Cycle

\* Steps that only store or remove rows.
LEMMA RowsMove ==
  ASSUME SummaryInv, LoopTypes', UNCHANGED <<summaries, job, history>>,
         \A r \in Rows : /\ row'[r] = "raw" => row[r] \in {"raw", "absent"}
                         /\ row'[r] = "marked" => row[r] = "marked"
                         /\ row[r] # "absent" => row'[r] # "absent"
  PROVE  SummaryInv'
<1> USE DEF SummaryInv, LoopTypes, history
<1>1. \A i \in DOMAIN summaries : summaries[i] \subseteq Rows
  OBVIOUS
<1>2. job.batch \subseteq Rows
  BY DEF Job
<1>3. Present'
  BY <1>1, <1>2 DEF Present
<1>4. RawOnce'
  BY DEF Present, RawOnce, Summarised
<1>5. BatchOnce'
  BY DEF BatchOnce, Summarised, Covered
<1>6. MarkedIsCovered' /\ SummarisedOnce'
  BY DEF MarkedIsCovered, SummarisedOnce
<1> QED
  BY <1>3, <1>4, <1>5, <1>6

\* Steps between two batches, and those that leave one: what was stored for it and not
\* marked is interrupted.
LEMMA LeavesBatch ==
  ASSUME SummaryInv, LoopTypes', UNCHANGED <<row, summaries, empty, dropped>>,
         job'.at \in {"rest", "next"}, job'.batch = {},
         interrupted' = interrupted \cup Unmarked
  PROVE  SummaryInv'
<1> USE DEF SummaryInv
<1>1. Present'
  BY DEF Present
<1>2. RawOnce'
  BY DEF RawOnce, Unmarked
<1>3. BatchOnce'
  BY DEF BatchOnce
<1>4. MarkedIsCovered'
  BY DEF MarkedIsCovered
<1>5. SummarisedOnce'
  BY DEF SummarisedOnce
<1> QED
  BY <1>1, <1>2, <1>3, <1>4, <1>5

LEMMA SummaryNext == SummaryInv /\ [SemanticizerNext]_semanticizerVars => SummaryInv'
<1> SUFFICES ASSUME SummaryInv, [SemanticizerNext]_semanticizerVars PROVE SummaryInv'
  OBVIOUS
<1>0. LoopTypes /\ LoopTypes'
  BY LoopTypesNext DEF SummaryInv
<1>a. /\ row \in [Rows -> {"absent", "raw", "marked", "gone"}]
      /\ job \in Job /\ job.batch \subseteq Rows
      /\ DOMAIN summaries = 1..Len(summaries) /\ Len(summaries) \in Nat
      /\ \A i \in DOMAIN summaries : summaries[i] \subseteq Rows /\ summaries[i] # {}
  <2>1. summaries \in Seq((SUBSET Rows) \ {{}})
    BY <1>0 DEF LoopTypes
  <2>2. DOMAIN summaries = 1..Len(summaries) /\ Len(summaries) \in Nat
    BY <2>1
  <2>3. \A i \in DOMAIN summaries : summaries[i] \in (SUBSET Rows) \ {{}}
    BY <2>1
  <2> QED
    BY <1>0, <2>2, <2>3 DEF LoopTypes, Job
<1>1. CASE StoreRow \/ Age \/ DeleteInteraction \/ ClearRows \/ UNCHANGED semanticizerVars
  <2>1. UNCHANGED <<summaries, job, history>>
    BY <1>1 DEF StoreRow, Age, DeleteInteraction, ClearRows, semanticizerVars, history
  <2>2. \A r \in Rows : /\ row'[r] = "raw" => row[r] \in {"raw", "absent"}
                        /\ row'[r] = "marked" => row[r] = "marked"
                        /\ row[r] # "absent" => row'[r] # "absent"
    BY <1>1, <1>a DEF StoreRow, Age, DeleteInteraction, ClearRows, semanticizerVars
  <2> QED
    BY <1>0, <2>1, <2>2, RowsMove
<1>2. CASE BeginCycle \/ EndCycle
  <2>1. /\ UNCHANGED <<row, summaries, empty, dropped, interrupted>> /\ job.at \in {"rest", "next"}
        /\ job'.at \in {"rest", "next"} /\ job'.batch = {}
    <3>1. CASE BeginCycle
      <4>1. PICK w \in Windows : job' = [Resting EXCEPT !.at = "next", !.todo = w]
        BY <3>1 DEF BeginCycle
      <4>2. job'.at = "next" /\ job'.batch = {}
        BY <4>1 DEF Resting
      <4> QED
        BY <3>1, <4>2 DEF BeginCycle, store, history
    <3>2. CASE EndCycle
      BY <3>2 DEF EndCycle, store, history, Resting
    <3> QED
      BY <1>2, <3>1, <3>2
  <2> QED
    BY <1>0, <2>1, LeavesBatch DEF Unmarked
<1>3. CASE FetchBatch
  <2> DEFINE batch == FirstRows(Head(job.todo))
  <2>1. UNCHANGED <<row, summaries, empty, dropped, interrupted>> /\ job.at = "next" /\ job.todo # <<>>
    BY <1>3 DEF FetchBatch, store, history
  <2>2. CASE batch # {} /\ Enough(batch)
    <3>1. job' = [job EXCEPT !.at = "check", !.batch = batch]
      BY <1>3, <2>2 DEF FetchBatch
    <3>2. \A r \in batch : r \in Rows /\ row[r] = "raw"
      BY DEF FirstRows, Raw
    <3> HIDE DEF batch
    <3>3. job'.at = "check" /\ job'.batch = batch
      BY <1>a, <3>1 DEF Job
    <3>4. Present' /\ RawOnce' /\ BatchOnce'
      BY <1>a, <2>1, <3>2, <3>3 DEF SummaryInv, Present, RawOnce, BatchOnce
    <3> QED
      BY <1>0, <2>1, <3>4 DEF SummaryInv, MarkedIsCovered, SummarisedOnce
  <2>3. CASE ~(batch # {} /\ Enough(batch))
    <3>1. job' = Advanced(0)
      BY <1>3, <2>3 DEF FetchBatch
    <3>2. job'.at = "next" /\ job'.batch = {}
      BY <1>a, <3>1 DEF Advanced, Job
    <3> QED
      BY <1>0, <2>1, <3>2, LeavesBatch DEF Unmarked
  <2> QED
    BY <2>2, <2>3
<1>4. CASE CheckExists
  <2>1. /\ UNCHANGED <<row, summaries, empty, dropped, interrupted>> /\ job.at = "check"
        /\ job'.batch = job.batch /\ job'.at = IF Summarised(job.batch) THEN "mark" ELSE "ask"
    BY <1>4, <1>a DEF CheckExists, store, history, Job
  <2>2. Present' /\ RawOnce' /\ MarkedIsCovered' /\ SummarisedOnce'
    BY <2>1 DEF SummaryInv, Present, RawOnce, MarkedIsCovered, SummarisedOnce
  <2>3. BatchOnce'
    BY <2>1 DEF SummaryInv, BatchOnce, Covered, Summarised
  <2> QED
    BY <1>0, <2>2, <2>3 DEF SummaryInv
<1>5. CASE Answered
  <2>1. /\ UNCHANGED <<row, summaries, dropped, interrupted>> /\ job.at = "ask" /\ job'.batch = job.batch
        /\ \/ job'.at = "store" /\ empty' = empty
           \/ job'.at = "mark" /\ empty' = empty \cup job.batch
    BY <1>5, <1>a DEF Answered, store, Job
  <2>2. Present' /\ RawOnce' /\ MarkedIsCovered' /\ SummarisedOnce'
    BY <2>1 DEF SummaryInv, Present, RawOnce, MarkedIsCovered, SummarisedOnce
  <2>3. BatchOnce'
    BY <2>1 DEF SummaryInv, BatchOnce, Covered, Summarised
  <2> QED
    BY <1>0, <2>2, <2>3 DEF SummaryInv
<1>6. CASE AddSummary
  <2> DEFINE n == Len(summaries) + 1
  <2>1. /\ UNCHANGED <<row, empty, dropped, interrupted>> /\ job.at = "store"
        /\ job'.batch = job.batch /\ job'.at = "mark"
        /\ summaries' = Append(summaries, job.batch)
    BY <1>6, <1>a DEF AddSummary, store, history, Job
  <2>2. /\ DOMAIN summaries' = DOMAIN summaries \cup {n}
        /\ \A i \in DOMAIN summaries : summaries'[i] = summaries[i]
        /\ summaries'[n] = job.batch /\ n \notin DOMAIN summaries
    <3>1. summaries \in Seq((SUBSET Rows) \ {{}})
      BY <1>0 DEF LoopTypes
    <3> QED
      BY <1>a, <2>1, <3>1
  <2> HIDE DEF n
  <2>3. Summarised(job.batch)'
    BY <2>1, <2>2 DEF Summarised
  <2>4. Present' /\ MarkedIsCovered' /\ BatchOnce'
    BY <2>1, <2>2 DEF SummaryInv, Present, MarkedIsCovered, BatchOnce, Covered
  <2>5. RawOnce'
    BY <2>1, <2>2, <2>3 DEF SummaryInv, RawOnce
  <2>6. SummarisedOnce'
    <3>1. \A i \in DOMAIN summaries : summaries[i] # job.batch /\ job.batch \cap summaries[i] \subseteq interrupted
      BY <2>1 DEF SummaryInv, BatchOnce, Summarised
    <3> QED
      BY <2>1, <2>2, <3>1 DEF SummaryInv, SummarisedOnce
  <2> QED
    BY <1>0, <2>4, <2>5, <2>6 DEF SummaryInv
<1>7. CASE Mark
  <2>1. /\ UNCHANGED <<summaries, empty, dropped, interrupted>> /\ job.at = "mark"
        /\ row' = [r \in Rows |-> IF r \in job.batch /\ row[r] = "raw" THEN "marked" ELSE row[r]]
        /\ job'.batch = {} /\ job'.at = "next"
    BY <1>7, <1>a DEF Mark, history, Advanced, Job
  <2>2. Present'
    BY <1>a, <2>1 DEF SummaryInv, Present
  <2>3. RawOnce'
    BY <1>a, <2>1 DEF SummaryInv, RawOnce
  <2>4. BatchOnce' /\ SummarisedOnce'
    BY <2>1 DEF SummaryInv, BatchOnce, SummarisedOnce
  <2>5. MarkedIsCovered'
    BY <1>a, <2>1 DEF SummaryInv, MarkedIsCovered, BatchOnce, Covered
  <2> QED
    BY <1>0, <2>2, <2>3, <2>4, <2>5 DEF SummaryInv
<1>8. CASE Fail
  <2>1. /\ UNCHANGED <<row, summaries, empty, dropped>> /\ job'.at = "next" /\ job'.batch = {}
        /\ interrupted' = interrupted \cup Unmarked
    BY <1>8, <1>a DEF Fail, store, Advanced, Job
  <2> QED
    BY <1>0, <2>1, LeavesBatch
<1>9. CASE Restart
  <2>1. /\ UNCHANGED <<row, summaries, empty, dropped>> /\ job'.at = "rest" /\ job'.batch = {}
        /\ interrupted' = interrupted \cup Unmarked
    BY <1>9 DEF Restart, Resting
  <2> QED
    BY <1>0, <2>1, LeavesBatch
<1>10. CASE DeleteSummary
  <2>1. /\ UNCHANGED <<row, job, empty, interrupted>>
        /\ \E i \in DOMAIN summaries : summaries' = RemoveAt(summaries, i) /\ dropped' = dropped \cup summaries[i]
    BY <1>10 DEF DeleteSummary, store
  <2>2. PICK i \in 1..Len(summaries) : summaries' = RemoveAt(summaries, i) /\ dropped' = dropped \cup summaries[i]
    BY <1>a, <2>1
  <2>3. /\ DOMAIN summaries' = 1..(Len(summaries) - 1)
        /\ \A k \in 1..(Len(summaries) - 1) : summaries'[k] = summaries[IF k < i THEN k ELSE k + 1]
    <3>1. summaries \in Seq((SUBSET Rows) \ {{}})
      BY <1>0 DEF LoopTypes
    <3>2. /\ RemoveAt(summaries, i) \in Seq((SUBSET Rows) \ {{}})
          /\ Len(RemoveAt(summaries, i)) = Len(summaries) - 1
          /\ \A k \in 1..(Len(summaries) - 1) :
               RemoveAt(summaries, i)[k] = summaries[IF k < i THEN k ELSE k + 1]
      BY <3>1, RemoveFacts
    <3> QED
      BY <2>2, <3>2
  <2>4. \* A summary that is left was there, at a place of its own.
        \A k, m \in DOMAIN summaries' :
          \E p, q \in DOMAIN summaries : /\ summaries'[k] = summaries[p] /\ summaries'[m] = summaries[q]
                                         /\ k # m => p # q
                                         /\ p # i /\ q # i
    <3> SUFFICES ASSUME NEW k \in DOMAIN summaries', NEW m \in DOMAIN summaries'
                 PROVE  \E p, q \in DOMAIN summaries :
                          /\ summaries'[k] = summaries[p] /\ summaries'[m] = summaries[q]
                          /\ k # m => p # q
                          /\ p # i /\ q # i
      OBVIOUS
    <3> DEFINE p == IF k < i THEN k ELSE k + 1
               q == IF m < i THEN m ELSE m + 1
    <3>1. p \in DOMAIN summaries /\ q \in DOMAIN summaries /\ (k # m => p # q) /\ p # i /\ q # i
      BY <1>a, <2>3
    <3>2. summaries'[k] = summaries[p] /\ summaries'[m] = summaries[q]
      BY <2>3
    <3> HIDE DEF p, q
    <3> QED
      BY <3>1, <3>2
  <2>5. \* And what was there is left, or was removed.
        \A p \in DOMAIN summaries : summaries[p] \subseteq dropped' \/ \E k \in DOMAIN summaries' : summaries'[k] = summaries[p]
    <3> SUFFICES ASSUME NEW p \in DOMAIN summaries, p # i
                 PROVE  \E k \in DOMAIN summaries' : summaries'[k] = summaries[p]
      BY <2>2
    <3> DEFINE k == IF p < i THEN p ELSE p - 1
    <3>1. k \in 1..(Len(summaries) - 1) /\ (IF k < i THEN k ELSE k + 1) = p
      BY <1>a
    <3> HIDE DEF k
    <3> QED
      BY <2>3, <3>1
  <2>6. dropped \subseteq dropped'
    BY <2>2
  <2>7. Present' /\ MarkedIsCovered' /\ SummarisedOnce'
    <3>1. Present'
      BY <2>1, <2>4 DEF SummaryInv, Present
    <3>2. MarkedIsCovered'
      BY <2>1, <2>5, <2>6 DEF SummaryInv, MarkedIsCovered
    <3>3. SummarisedOnce'
      <4> SUFFICES ASSUME NEW k \in DOMAIN summaries', NEW m \in DOMAIN summaries', k # m
                   PROVE  summaries'[k] # summaries'[m] /\ summaries'[k] \cap summaries'[m] \subseteq interrupted'
        BY DEF SummarisedOnce
      <4> QED
        BY <2>1, <2>4 DEF SummaryInv, SummarisedOnce
    <3> QED
      BY <3>1, <3>2, <3>3
  <2>8. BatchOnce'
    <3>1. Summarised(job.batch)' => Summarised(job.batch)
      BY <2>1, <2>4 DEF Summarised
    <3>2. \A r : Covered(r) => Covered(r)'
      BY <2>1, <2>5, <2>6 DEF Covered
    <3> QED
      BY <2>1, <2>4, <3>1, <3>2 DEF SummaryInv, BatchOnce
  <2>9. RawOnce'
    <3> SUFFICES ASSUME NEW r \in Rows, NEW k \in DOMAIN summaries', row[r] = "raw", r \in summaries'[k],
                        r \notin interrupted
                 PROVE  job.at = "mark" /\ Summarised(job.batch)' /\ r \in job.batch
      BY <2>1 DEF RawOnce
    <3>1. PICK p \in DOMAIN summaries : summaries'[k] = summaries[p] /\ p # i
      BY <2>4
    <3>2. job.at = "mark" /\ Summarised(job.batch) /\ r \in job.batch
      BY <3>1 DEF SummaryInv, RawOnce
    <3>3. PICK q \in DOMAIN summaries : summaries[q] = job.batch
      BY <3>2 DEF Summarised
    <3>4. q = p
      BY <3>1, <3>2, <3>3 DEF SummaryInv, SummarisedOnce
    <3> QED
      BY <2>1, <3>1, <3>2, <3>3, <3>4 DEF Summarised
  <2> QED
    BY <1>0, <2>7, <2>8, <2>9 DEF SummaryInv
<1>11. CASE ClearSummaries
  <2>1. /\ UNCHANGED <<row, job, empty, interrupted>> /\ summaries' = <<>>
        /\ dropped' = dropped \cup UNION ToSet(summaries)
    BY <1>11 DEF ClearSummaries, store
  <2>2. DOMAIN summaries' = {}
    BY <2>1
  <2>3. \A i \in DOMAIN summaries : summaries[i] \subseteq dropped'
    BY <2>1 DEF ToSet
  <2>4. Present' /\ RawOnce' /\ SummarisedOnce'
    BY <2>1, <2>2 DEF SummaryInv, Present, RawOnce, SummarisedOnce
  <2>5. MarkedIsCovered' /\ BatchOnce'
    BY <2>1, <2>2, <2>3 DEF SummaryInv, MarkedIsCovered, BatchOnce, Covered, Summarised
  <2> QED
    BY <1>0, <2>4, <2>5 DEF SummaryInv
<1> QED
  BY <1>1, <1>2, <1>3, <1>4, <1>5, <1>6, <1>7, <1>8, <1>9, <1>10, <1>11 DEF SemanticizerNext, Cycle

\* What was said is summarised, and once: a marked row is in a summary or needs none, no
\* batch is stored twice, and only interrupted rows are in two; whatever fails, crashes
\* or is deleted in between.  (_summarize_conversation_batch, _build_summary_hash)
THEOREM SemanticizedTheorem == SemanticizerSpec => []SemanticizedOnce
<1>1. SummaryInv => SemanticizedOnce
  BY DEF SummaryInv, LoopTypes, Job, SemanticizedOnce, SemanticizerTypeOK
<1> QED
  BY <1>1, SummaryInitially, SummaryNext, PTL DEF SemanticizerSpec

-----------------------------------------------------------------------------
(* The vectors: the inductive invariant *)

AddState ==
  [at : {"none", "reset", "cleared", "emptied", "realigning", "inserting", "inserted", "saving",
         "done", "failed"},
   space : SUBSET Spaces, id : Nat, saves : {<<>>} \cup {<<v>> : v \in Seq(Memories)}]

Embeddings == {<<>>, NoId} \cup {<<i>> : i \in Nat}

DeleteState == [at : {"none", "selected", "deleted", "empty", "done"}, id : Embeddings]

VectorTypes ==
  /\ embedding \in [Memories -> Embeddings]
  /\ file \in Seq(Memories) /\ index \in Seq(Memories) /\ metadata \subseteq Spaces
  /\ mapping \subseteq Nat \X Memories /\ next \in Nat
  /\ add \in [Callers -> AddState] /\ delete \in [Memories -> DeleteState]
  /\ stops \in 0..MaxStops /\ second \in BOOLEAN /\ early \subseteq Memories /\ flaw \in BOOLEAN
  /\ \E n \in Nat : \A m \in Memories : HasId(m) => embedding[m][1] <= n

Gone(m) == delete[m].at \in {"deleted", "empty", "done"}

\* Only what has a row is deleted, and a row comes from an addition.
Order ==
  \A m \in Memories :
    /\ Gone(m) => embedding[m] = <<>>
    /\ embedding[m] # <<>> \/ delete[m].at # "none" => add[m].at \in {"inserted", "saving", "done"}
    /\ add[m].at = "inserted" /\ Gone(m) => m \in early

\* The vector of m is at position i of v.
Holds(v, i, m) == i < Len(v) /\ v[i + 1] = m

\* The row of m, if it is still there, has this id, and so has who deletes it.
RowIs(m, i) ==
  \/ embedding[m] = <<i>> /\ (delete[m].at = "selected" => delete[m].id = <<i>>)
  \/ delete[m] = [at |-> "deleted", id |-> <<i>>]

Clearing == \E c \in Callers : add[c].at \in {"reset", "cleared"}
Unreset == \E c \in Callers : add[c].at = "reset"

\* While somebody clears there are no vectors.  Additions under way keep their positions;
\* the mapping and the next id are true unless they are about to be cleared, and so are
\* the rows; what the mapping has can be taken out of it.
Positions ==
  /\ Clearing => index = <<>>
  /\ (\E c \in Callers : add[c].at = "cleared") => mapping = {}
  /\ \A c \in Callers : add[c].saves \in {<<>>, <<<<>>>>}
  /\ \A m \in Memories : add[m].at \in {"inserting", "inserted"} => Holds(index, add[m].id, m)
  /\ \A m \in Memories : add[m].at = "inserted" /\ ~Gone(m) => RowIs(m, add[m].id)
  /\ Unreset \/ (next = Len(index) /\ \A p \in mapping : Holds(index, p[1], p[2]))
  /\ \A p \in mapping : p[2] \in early \/ RowIs(p[2], p[1])
  /\ Clearing \/ \A m \in Indexed : Holds(index, embedding[m][1], m)

\* When no operation is under way the file is the index or empty, and an index in use has rows.
Artifacts ==
  /\ \/ file \in {index, <<>>}
     \/ \E m \in Memories : add[m].at \in {"inserting", "inserted", "saving", "failed"}
     \/ \E c \in Callers : add[c].at \in {"reset", "cleared", "emptied", "realigning"}
  /\ \/ index = <<>> \/ Indexed # {}
     \/ \E m \in Memories : add[m].at \in {"inserting", "failed"} \/ delete[m].at \in {"deleted", "empty"}

VectorInv == VectorTypes /\ Order /\ (flaw \/ (Positions /\ Artifacts))

-----------------------------------------------------------------------------
(* The vectors: the invariant is kept *)

\* A row has an id if it holds a number.
LEMMA IdFacts ==
  ASSUME NEW m \in Memories, embedding[m] \in Embeddings
  PROVE  HasId(m) => embedding[m][1] \in Nat /\ embedding[m] = <<embedding[m][1]>>
<1>1. \A i \in Nat : <<i>>[1] = i
  OBVIOUS
<1> QED
  BY <1>1 DEF HasId, Embeddings

\* What load_vector_mappings may find.
LEMMA LoadedFacts ==
  ASSUME VectorTypes, NEW loaded \in Loadings
  PROVE  /\ loaded \subseteq RowIds /\ loaded \subseteq Nat \X Memories
         /\ \A p \in loaded : p[2] \in Indexed /\ embedding[p[2]] = <<p[1]>>
         /\ loaded = {} <=> Indexed = {}
         /\ loaded # {} =>
              \E q \in loaded : NextAfter(loaded) = q[1] + 1 /\ \A p \in loaded : p[1] <= q[1]
         /\ NextAfter(loaded) \in Nat
<1>1. \A m \in Indexed : m \in Memories /\ embedding[m][1] \in Nat /\ embedding[m] = <<embedding[m][1]>>
  BY IdFacts DEF VectorTypes, Indexed
<1>2. /\ loaded \subseteq RowIds /\ loaded \subseteq Nat \X Memories
      /\ \A p \in loaded : p[2] \in Indexed /\ embedding[p[2]] = <<p[1]>>
      /\ loaded = {} <=> Indexed = {}
  <2>1. \A p \in RowIds : \E m \in Indexed : p = <<embedding[m][1], m>>
    BY DEF RowIds
  <2>2. loaded \subseteq RowIds /\ \A r \in RowIds : \E p \in loaded : p[1] = r[1]
    BY DEF Loadings
  <2>3. \A m \in Indexed : <<embedding[m][1], m>> \in RowIds
    BY DEF RowIds
  <2>4. RowIds \subseteq Nat \X Memories
    BY <1>1, <2>1
  <2>5. \A p \in RowIds : p[2] \in Indexed /\ embedding[p[2]] = <<p[1]>>
    BY <1>1, <2>1
  <2>6. loaded = {} <=> Indexed = {}
    BY <2>2, <2>3, <2>5
  <2> QED
    BY <2>2, <2>4, <2>5, <2>6
<1>3. ASSUME loaded # {}
      PROVE  \E q \in loaded : NextAfter(loaded) = q[1] + 1 /\ \A p \in loaded : p[1] <= q[1]
  <2> DEFINE T == {p[1] : p \in loaded}
  <2>1. T \subseteq Nat /\ T # {}
    BY <1>2, <1>3
  <2>2. PICK n \in Nat : \A m \in Memories : HasId(m) => embedding[m][1] <= n
    BY DEF VectorTypes
  <2>3. \A x \in T : x <= n
    <3> SUFFICES ASSUME NEW p \in loaded PROVE p[1] <= n
      OBVIOUS
    <3>1. p[2] \in Memories /\ HasId(p[2]) /\ embedding[p[2]] = <<p[1]>>
      BY <1>2 DEF Indexed
    <3> QED
      BY <2>2, <3>1
  <2>4. \E x \in T : \A y \in T : y <= x
    BY <2>1, <2>3, GreatestNat
  <2>5. \E x \in T : \A p \in loaded : p[1] <= x
    BY <2>4
  <2> DEFINE i == CHOOSE x \in T : \A p \in loaded : p[1] <= x
  <2>6. i \in T /\ \A p \in loaded : p[1] <= i
    BY <2>5
  <2>7. NextAfter(loaded) = 1 + i
    BY <1>3 DEF NextAfter
  <2> HIDE DEF i
  <2>8. PICK q \in loaded : i = q[1]
    BY <2>6
  <2>9. NextAfter(loaded) = q[1] + 1
    BY <2>1, <2>6, <2>7, <2>8
  <2> QED
    BY <2>6, <2>8, <2>9
<1>4. NextAfter(loaded) \in Nat
  <2>1. CASE loaded = {}
    BY <2>1 DEF NextAfter
  <2>2. CASE loaded # {}
    BY <1>2, <1>3, <2>2
  <2> QED
    BY <2>1, <2>2
<1> QED
  BY <1>2, <1>3, <1>4

\* What a caller may become.
LEMMA AddFacts ==
  ASSUME VectorTypes
  PROVE  /\ \A at \in {"none", "done", "failed"} :
              /\ [NoAdd EXCEPT !.at = at] \in AddState
              /\ [NoAdd EXCEPT !.at = at].at = at /\ [NoAdd EXCEPT !.at = at].saves = <<>>
         /\ NoAdd \in AddState /\ NoAdd.at = "none" /\ NoAdd.saves = <<>>
         /\ Detached(add) \in [Callers -> AddState]
         /\ \A c \in Callers : /\ Detached(add)[c] \in AddState
                               /\ Detached(add)[c].at = add[c].at /\ Detached(add)[c].id = add[c].id
                               /\ Detached(add)[c].saves \in {add[c].saves, <<index>>}
                               /\ add[c].at \notin Saves => Detached(add)[c] = add[c]
<1>1. /\ NoAdd \in AddState /\ NoAdd.at = "none" /\ NoAdd.saves = <<>>
      /\ \A at \in {"none", "done", "failed"} :
           /\ [NoAdd EXCEPT !.at = at] \in AddState
           /\ [NoAdd EXCEPT !.at = at].at = at /\ [NoAdd EXCEPT !.at = at].saves = <<>>
  BY DEF NoAdd, AddState
<1>t. add \in [Callers -> AddState] /\ index \in Seq(Memories)
  BY DEF VectorTypes
<1>2. ASSUME NEW c \in Callers
      PROVE  /\ Detached(add)[c] \in AddState
             /\ Detached(add)[c].at = add[c].at /\ Detached(add)[c].id = add[c].id
             /\ Detached(add)[c].saves \in {add[c].saves, <<index>>}
             /\ add[c].at \notin Saves => Detached(add)[c] = add[c]
  <2>1. add[c] \in AddState /\ <<index>> \in {<<v>> : v \in Seq(Memories)}
    BY <1>t
  <2>2. Detached(add)[c] = add[c] \/ Detached(add)[c] = [add[c] EXCEPT !.saves = <<index>>]
    BY DEF Detached
  <2>3. [add[c] EXCEPT !.saves = <<index>>] \in AddState
    BY <2>1 DEF AddState
  <2>4. add[c].at \notin Saves => Detached(add)[c] = add[c]
    BY DEF Detached
  <2> QED
    BY <2>1, <2>2, <2>3, <2>4 DEF AddState
<1>3. Detached(add) \in [Callers -> AddState]
  BY <1>2 DEF Detached
<1> QED
  BY <1>1, <1>2, <1>3

\* A caller that starts a realignment.
LEMMA RealignFacts ==
  ASSUME VectorTypes, NEW c \in Callers, NEW s \in Spaces, Realign(c, s)
  PROVE  /\ add' \in [Callers -> AddState]
         /\ add'[c].at = (IF second THEN "reset" ELSE "cleared")
         /\ add'[c].saves = add[c].saves
         /\ \A k \in Callers \ {c} : add'[k] = Detached(add)[k]
<1>1. /\ add' = [Detached(add) EXCEPT ![c] = [@ EXCEPT !.at = IF second THEN "reset" ELSE "cleared",
                                                       !.space = {s}]]
      /\ add[c].at = "none"
  BY DEF Realign
<1>2. Detached(add) \in [Callers -> AddState] /\ Detached(add)[c] = add[c]
  BY <1>1, AddFacts DEF Saves
<1> HIDE DEF Detached
<1>3. [Detached(add)[c] EXCEPT !.at = IF second THEN "reset" ELSE "cleared", !.space = {s}] \in AddState
  BY <1>2 DEF AddState
<1> QED
  BY <1>1, <1>2, <1>3 DEF AddState

\* A vector gets the next position.
LEMMA AddVectorFacts ==
  ASSUME VectorTypes, NEW m \in Memories, AddVector(m)
  PROVE  /\ index' \in Seq(Memories) /\ next' \in Nat /\ add' \in [Callers -> AddState]
         /\ Len(index') = Len(index) + 1 /\ index'[Len(index) + 1] = m
         /\ \A i \in 1..Len(index) : index'[i] = index[i]
         /\ add'[m].at = "inserting" /\ add'[m].id = next /\ add'[m].saves = <<>>
         /\ \A k \in Callers \ {m} : add'[k] = add[k]
<1>1. index \in Seq(Memories) /\ next \in Nat /\ add \in [Callers -> AddState] /\ m \in Callers
  BY DEF VectorTypes, Callers
<1>2. index' = Append(index, m) /\ next' = next + 1
      /\ add' = [add EXCEPT ![m] = [NoAdd EXCEPT !.at = "inserting", !.id = next]]
  BY DEF AddVector
<1>3. /\ [NoAdd EXCEPT !.at = "inserting", !.id = next] \in AddState
      /\ [NoAdd EXCEPT !.at = "inserting", !.id = next].at = "inserting"
      /\ [NoAdd EXCEPT !.at = "inserting", !.id = next].id = next
      /\ [NoAdd EXCEPT !.at = "inserting", !.id = next].saves = <<>>
  BY <1>1 DEF AddState, NoAdd
<1>4. add' \in [Callers -> AddState]
  BY <1>1, <1>2, <1>3
<1>5. /\ add'[m].at = "inserting" /\ add'[m].id = next /\ add'[m].saves = <<>>
      /\ \A k \in Callers \ {m} : add'[k] = add[k]
  BY <1>1, <1>2, <1>3
<1>6. /\ index' \in Seq(Memories) /\ Len(index') = Len(index) + 1 /\ index'[Len(index) + 1] = m
      /\ \A i \in 1..Len(index) : index'[i] = index[i]
  BY <1>1, <1>2
<1> QED
  BY <1>1, <1>2, <1>4, <1>5, <1>6

\* What a save writes.
LEMMA WrittenFacts ==
  ASSUME VectorTypes, NEW c \in Callers
  PROVE  Written(c) \in Seq(Memories) /\ (add[c].saves \in {<<>>, <<<<>>>>} => Written(c) \in {index, <<>>})
<1>1. index \in Seq(Memories) /\ add[c].saves \in {<<>>} \cup {<<v>> : v \in Seq(Memories)}
  BY DEF VectorTypes, AddState
<1>2. CASE add[c].saves = <<>>
  BY <1>1, <1>2 DEF Written
<1>3. CASE add[c].saves # <<>>
  <2>1. PICK v \in Seq(Memories) : add[c].saves = <<v>>
    BY <1>1, <1>3
  <2>2. Written(c) = v
    BY <1>3, <2>1 DEF Written
  <2>3. <<v>> = <<<<>>>> => v = <<>>
    OBVIOUS
  <2> QED
    BY <1>3, <2>1, <2>2, <2>3
<1> QED
  BY <1>2, <1>3

\* The rows keep their types.
EmbeddingTypes ==
  /\ embedding \in [Memories -> Embeddings]
  /\ \E n \in Nat : \A m \in Memories : HasId(m) => embedding[m][1] <= n

LEMMA EmbeddingTypesNext == VectorTypes /\ [VectorNext]_vectorVars => EmbeddingTypes'
<1> SUFFICES ASSUME VectorTypes, [VectorNext]_vectorVars PROVE EmbeddingTypes'
  OBVIOUS
<1>0. embedding \in [Memories -> Embeddings]
  BY DEF VectorTypes
<1>1. PICK n \in Nat : \A m \in Memories : HasId(m) => embedding[m][1] <= n
  BY DEF VectorTypes
<1>2. ASSUME \A m \in Memories : embedding'[m] \in {embedding[m], <<>>, NoId},
             embedding' \in [Memories -> Embeddings]
      PROVE  EmbeddingTypes'
  <2>1. \A m \in Memories : HasId(m)' => HasId(m) /\ embedding'[m] = embedding[m]
    BY <1>2 DEF HasId
  <2>2. \A m \in Memories : HasId(m)' => embedding'[m][1] <= n
    BY <1>1, <2>1
  <2> QED
    BY <1>2, <2>2 DEF EmbeddingTypes
<1>3. ASSUME NEW m \in Memories, InsertRow(m) PROVE EmbeddingTypes'
  <2>1. add[m].id \in Nat /\ embedding' = [embedding EXCEPT ![m] = <<add[m].id>>]
    BY <1>3 DEF InsertRow, VectorTypes, AddState, Callers
  <2>2. embedding' \in [Memories -> Embeddings]
    BY <1>0, <2>1 DEF Embeddings
  <2>3. \A k \in Memories : HasId(k)' => embedding'[k][1] <= n + add[m].id
    <3> SUFFICES ASSUME NEW k \in Memories, HasId(k)' PROVE embedding'[k][1] <= n + add[m].id
      OBVIOUS
    <3>1. CASE k = m
      <4>1. embedding'[k][1] = add[m].id
        BY <1>0, <2>1, <3>1
      <4> QED
        BY <2>1, <4>1
    <3>2. CASE k # m
      <4>1. embedding'[k] = embedding[k]
        BY <1>0, <2>1, <3>2
      <4>2. HasId(k)
        BY <4>1 DEF HasId
      <4>3. embedding[k][1] \in Nat /\ embedding[k][1] <= n
        BY <1>0, <1>1, <4>2, IdFacts
      <4> QED
        BY <2>1, <4>1, <4>3
    <3> QED
      BY <3>1, <3>2
  <2>4. n + add[m].id \in Nat
    BY <2>1
  <2> QED
    BY <2>2, <2>3, <2>4 DEF EmbeddingTypes
<1>4. Nullified \in [Memories -> Embeddings] /\ \A m \in Memories : Nullified[m] \in {embedding[m], NoId}
  BY <1>0 DEF Nullified, Embeddings
<1>5. CASE CloseSaved \/ CrashUnsaved
  <2>1. embedding' \in {embedding, Nullified}
    BY <1>5 DEF CloseSaved, CrashUnsaved, Start
  <2> QED
    BY <1>0, <1>2, <1>4, <2>1
<1>6. ASSUME NEW c \in Callers,
             \/ ClearIds(c) \/ ClearEmbeddings(c) \/ SaveRealigned(c) \/ Realigned(c) \/ Saved(c)
             \/ SaveOther(c) \/ \E s \in Spaces : Realign(c, s)
      PROVE  EmbeddingTypes'
  <2>1. embedding' \in {embedding, Nullified}
    BY <1>6 DEF ClearIds, ClearEmbeddings, SaveRealigned, Realigned, Saved, SaveOther, Realign
  <2> QED
    BY <1>0, <1>2, <1>4, <2>1
<1>7. ASSUME NEW m \in Memories,
             AddPlain(m) \/ InsertFails(m) \/ MapRow(m) \/ SelectRow(m) \/ DeleteRow(m)
               \/ Unmap(m) \/ Cleanup(m) \/ \E s \in Spaces : AddEmbedded(m, s)
      PROVE  EmbeddingTypes'
  <2>1. \/ embedding' = embedding \/ embedding' = [embedding EXCEPT ![m] = NoId]
        \/ embedding' = [embedding EXCEPT ![m] = <<>>]
    BY <1>7 DEF AddPlain, InsertFails, MapRow, SelectRow, DeleteRow, Unmap, Cleanup, AddEmbedded
  <2>2. embedding' \in [Memories -> Embeddings]
    BY <1>0, <2>1 DEF Embeddings
  <2> QED
    BY <1>0, <1>2, <2>1, <2>2
<1>8. CASE UNCHANGED vectorVars
  BY <1>0, <1>2, <1>8 DEF vectorVars
<1>9. \A c \in Others : c \in Callers
  BY DEF Callers
<1> QED
  BY <1>3, <1>5, <1>6, <1>7, <1>8, <1>9 DEF VectorNext

LEMMA VectorTypesNext == VectorTypes /\ [VectorNext]_vectorVars => VectorTypes'
<1> SUFFICES ASSUME VectorTypes, [VectorNext]_vectorVars PROVE VectorTypes'
  OBVIOUS
<1>0. EmbeddingTypes'
  BY EmbeddingTypesNext
<1>t. /\ file \in Seq(Memories) /\ index \in Seq(Memories) /\ metadata \subseteq Spaces
      /\ mapping \subseteq Nat \X Memories /\ next \in Nat
      /\ add \in [Callers -> AddState] /\ \A c \in Callers : add[c] \in AddState
      /\ delete \in [Memories -> DeleteState] /\ \A m \in Memories : embedding[m] \in Embeddings
      /\ stops \in 0..MaxStops /\ second \in BOOLEAN /\ early \subseteq Memories /\ flaw \in BOOLEAN
  BY DEF VectorTypes
<1>e. <<>> \in Seq(Memories) /\ Memories \subseteq Callers /\ Others \subseteq Callers
  BY DEF Callers
<1>1. CASE CloseSaved \/ CrashUnsaved
  <2>1. PICK vectors \in Seq(Memories) : Start(vectors)
    BY <1>1, <1>t DEF CloseSaved, CrashUnsaved
  <2>2. stops' \in 0..MaxStops
    BY <1>1, <1>t, VectorIndexAssumption DEF CloseSaved, CrashUnsaved
  <2>3. PICK loaded \in Loadings :
          /\ \/ index' = vectors /\ mapping' = loaded /\ next' = NextAfter(loaded)
             \/ index' = <<>> /\ mapping' = {} /\ next' = 0
          /\ file' = index' /\ UNCHANGED <<second, metadata, early>>
          /\ add' = [c \in Callers |-> IF add[c].at = "none" \/ c \in Others
                                       THEN NoAdd ELSE [NoAdd EXCEPT !.at = "done"]]
          /\ delete' = [m \in Memories |-> IF delete[m].at \in {"none", "selected"}
                                           THEN NoDelete ELSE [NoDelete EXCEPT !.at = "done"]]
          /\ flaw' \in BOOLEAN
    BY <2>1, <1>t DEF Start, ResetIndex
  <2>4. /\ index' \in Seq(Memories) /\ file' \in Seq(Memories)
        /\ mapping' \subseteq Nat \X Memories /\ next' \in Nat
    <3>1. loaded \subseteq Nat \X Memories /\ NextAfter(loaded) \in Nat
      BY LoadedFacts
    <3>2. (index' = vectors /\ file' = vectors) \/ (index' = <<>> /\ file' = <<>>)
      BY <2>3
    <3>3. (mapping' = loaded /\ next' = NextAfter(loaded)) \/ (mapping' = {} /\ next' = 0)
      BY <2>3
    <3>4. index' \in Seq(Memories) /\ file' \in Seq(Memories)
      BY <1>e, <2>1, <3>2
    <3>5. mapping' \subseteq Nat \X Memories /\ next' \in Nat
      BY <3>1, <3>3
    <3> QED
      BY <3>4, <3>5
  <2>5. add' \in [Callers -> AddState]
    BY <2>3, AddFacts
  <2>6. delete' \in [Memories -> DeleteState]
    BY <2>3 DEF DeleteState, NoDelete, Embeddings
  <2> QED
    BY <1>0, <1>t, <2>2, <2>3, <2>4, <2>5, <2>6 DEF VectorTypes, EmbeddingTypes
<1>2. ASSUME NEW c \in Callers, ClearIds(c) \/ ClearEmbeddings(c) \/ SaveRealigned(c) \/ SaveOther(c)
      PROVE  VectorTypes'
  <2>1. /\ UNCHANGED <<second, file, metadata, index, delete, stops, early, flaw>>
        /\ mapping' \in {mapping, {}} /\ next' \in {next, 0}
        /\ \E at \in {"cleared", "emptied", "realigning", "saving"} : add' = [add EXCEPT ![c].at = at]
    BY <1>2 DEF ClearIds, ClearEmbeddings, SaveRealigned, SaveOther
  <2>2. PICK at \in {"cleared", "emptied", "realigning", "saving"} : add' = [add EXCEPT ![c].at = at]
    BY <2>1
  <2>3. [add[c] EXCEPT !.at = at] \in AddState
    BY <1>t DEF AddState
  <2>4. add' \in [Callers -> AddState]
    BY <1>t, <2>2, <2>3
  <2>5. mapping' \subseteq Nat \X Memories /\ next' \in Nat
    BY <1>t, <2>1
  <2> QED
    BY <1>0, <1>t, <2>1, <2>4, <2>5 DEF VectorTypes, EmbeddingTypes
<1>3. ASSUME NEW m \in Memories, AddPlain(m) \/ InsertRow(m) \/ MapRow(m) PROVE VectorTypes'
  <2>1. /\ UNCHANGED <<second, file, metadata, index, next, delete, stops, early, flaw>>
        /\ mapping' \subseteq mapping \cup {<<add[m].id, m>>}
        /\ \E at \in {"done", "inserted", "saving"} : add' = [add EXCEPT ![m].at = at]
    BY <1>3 DEF AddPlain, InsertRow, MapRow
  <2>2. add' \in [Callers -> AddState] /\ <<add[m].id, m>> \in Nat \X Memories
    BY <1>e, <1>t, <2>1 DEF AddState
  <2>3. mapping' \subseteq Nat \X Memories
    BY <1>t, <2>1, <2>2
  <2> QED
    BY <1>0, <1>t, <2>1, <2>2, <2>3 DEF VectorTypes, EmbeddingTypes
<1>4. ASSUME NEW c \in Callers, Saved(c) PROVE VectorTypes'
  <2>1. file' \in Seq(Memories)
    BY <1>4, WrittenFacts DEF Saved
  <2>2. add' \in [Callers -> AddState]
    BY <1>4, <1>t, AddFacts DEF Saved
  <2> QED
    BY <1>0, <1>4, <1>t, <2>1, <2>2 DEF Saved, VectorTypes, EmbeddingTypes
<1>5. ASSUME NEW m \in Memories, NEW s \in Spaces, AddEmbedded(m, s) PROVE VectorTypes'
  <2>1. flaw' \in BOOLEAN /\ AddVector(m)
    BY <1>5 DEF AddEmbedded, AddVector
  <2> QED
    BY <1>0, <1>5, <1>t, <2>1, AddVectorFacts DEF AddEmbedded, VectorTypes, EmbeddingTypes
<1>6. ASSUME NEW c \in Callers, Realigned(c) PROVE VectorTypes'
  <2>1. metadata' \subseteq Spaces /\ file' \in Seq(Memories)
    <3>1. add[c].space \subseteq Spaces
      BY <1>t DEF AddState
    <3> QED
      BY <1>6, <3>1, WrittenFacts DEF Realigned
  <2>2. /\ index' \in Seq(Memories) /\ next' \in Nat /\ add' \in [Callers -> AddState] /\ flaw' \in BOOLEAN
    <3>1. CASE c \in Memories /\ AddVector(c)
      <4>1. flaw' \in BOOLEAN
        BY <3>1 DEF AddVector
      <4> QED
        BY <3>1, <4>1, AddVectorFacts
    <3>2. CASE add' = [add EXCEPT ![c] = NoAdd] /\ UNCHANGED <<index, next, flaw>>
      BY <1>t, <3>2, AddFacts
    <3> QED
      BY <1>6, <3>1, <3>2 DEF Realigned
  <2> QED
    BY <1>0, <1>6, <1>t, <2>1, <2>2 DEF Realigned, VectorTypes, EmbeddingTypes
<1>7. ASSUME NEW c \in Callers, NEW s \in Spaces, Realign(c, s) PROVE VectorTypes'
  <2>1. /\ UNCHANGED <<second, file, metadata, delete, stops, early>> /\ flaw' \in BOOLEAN
        /\ index' = <<>> /\ mapping' \in {mapping, {}} /\ next' \in {next, 0}
    BY <1>7 DEF Realign, ResetIndex
  <2>2. mapping' \subseteq Nat \X Memories /\ next' \in Nat /\ index' \in Seq(Memories)
    BY <1>e, <1>t, <2>1
  <2>3. add' \in [Callers -> AddState]
    BY <1>7, RealignFacts
  <2> QED
    BY <1>0, <1>t, <2>1, <2>2, <2>3 DEF VectorTypes, EmbeddingTypes
<1>8. ASSUME NEW m \in Memories, SelectRow(m) \/ DeleteRow(m) \/ Unmap(m) PROVE VectorTypes'
  <2>1. /\ UNCHANGED <<second, file, metadata, index, next, add, stops, flaw>>
        /\ mapping' \subseteq mapping /\ early' \subseteq early \cup {m}
    BY <1>8 DEF SelectRow, DeleteRow, Unmap
  <2>2. delete' \in [Memories -> DeleteState]
    <3>1. CASE SelectRow(m)
      BY <1>t, <3>1 DEF SelectRow, DeleteState
    <3>2. CASE DeleteRow(m)
      BY <1>t, <3>2 DEF DeleteRow, DeleteState
    <3>3. CASE Unmap(m)
      BY <1>t, <3>3 DEF Unmap, DeleteState, Embeddings
    <3> QED
      BY <1>8, <3>1, <3>2, <3>3
  <2> QED
    BY <1>0, <1>t, <2>1, <2>2 DEF VectorTypes, EmbeddingTypes
<1>9. ASSUME NEW m \in Memories, Cleanup(m) PROVE VectorTypes'
  <2>1. delete' \in [Memories -> DeleteState] /\ flaw' \in BOOLEAN
    BY <1>9, <1>t DEF Cleanup, DeleteState
  <2>2. add' \in [Callers -> AddState]
    BY <1>9, AddFacts DEF Cleanup
  <2> QED
    BY <1>0, <1>9, <1>e, <1>t, <2>1, <2>2 DEF Cleanup, ResetIndex, VectorTypes, EmbeddingTypes
<1>10. ASSUME NEW m \in Memories, InsertFails(m) PROVE VectorTypes'
  <2>1. add' \in [Callers -> AddState]
    BY <1>10, <1>t, AddFacts DEF InsertFails
  <2> QED
    BY <1>0, <1>10, <1>t, <2>1 DEF InsertFails, VectorTypes, EmbeddingTypes
<1>11. CASE UNCHANGED vectorVars
  BY <1>0, <1>11, <1>t DEF vectorVars, VectorTypes, EmbeddingTypes
<1> QED
  BY <1>e, <1>1, <1>2, <1>3, <1>4, <1>5, <1>6, <1>7, <1>8, <1>9, <1>10, <1>11 DEF VectorNext

LEMMA OrderNext == VectorTypes /\ Order /\ [VectorNext]_vectorVars => Order'
<1> SUFFICES ASSUME VectorTypes, Order, [VectorNext]_vectorVars, NEW k \in Memories
             PROVE  /\ Gone(k)' => embedding'[k] = <<>>
                    /\ embedding'[k] # <<>> \/ delete'[k].at # "none" =>
                         add'[k].at \in {"inserted", "saving", "done"}
                    /\ add'[k].at = "inserted" /\ Gone(k)' => k \in early'
  BY DEF Order
<1> DEFINE Kept == /\ Gone(k)' => embedding'[k] = <<>>
                   /\ embedding'[k] # <<>> \/ delete'[k].at # "none" =>
                        add'[k].at \in {"inserted", "saving", "done"}
                   /\ add'[k].at = "inserted" /\ Gone(k)' => k \in early'
<1>t. /\ embedding \in [Memories -> Embeddings] /\ add \in [Callers -> AddState]
      /\ delete \in [Memories -> DeleteState] /\ k \in Callers /\ k \notin Others
  BY VectorIndexAssumption DEF VectorTypes, Callers
<1>b. /\ Gone(k) => embedding[k] = <<>>
      /\ embedding[k] # <<>> \/ delete[k].at # "none" => add[k].at \in {"inserted", "saving", "done"}
      /\ add[k].at = "inserted" /\ Gone(k) => k \in early
  BY DEF Order
<1>n. Nullified[k] = <<>> <=> embedding[k] = <<>>
  BY <1>t DEF Nullified, HasId, NoId
<1>g. ASSUME UNCHANGED <<delete, early>>, embedding'[k] = <<>> <=> embedding[k] = <<>>,
             \/ add'[k].at = add[k].at
             \/ add'[k].at \in {"saving", "done"}
             \/ add[k].at \notin {"inserted", "saving", "done"} /\ add'[k].at # "inserted"
      PROVE  Kept
  BY <1>b, <1>g DEF Gone
<1>1. CASE CloseSaved \/ CrashUnsaved
  <2>1. PICK vectors : Start(vectors)
    BY <1>1 DEF CloseSaved, CrashUnsaved
  <2>2. embedding'[k] = <<>> <=> embedding[k] = <<>>
    BY <1>n, <2>1 DEF Start
  <2>3. /\ add'[k] = IF add[k].at = "none" THEN NoAdd ELSE [NoAdd EXCEPT !.at = "done"]
        /\ delete'[k] = IF delete[k].at \in {"none", "selected"} THEN NoDelete ELSE [NoDelete EXCEPT !.at = "done"]
    BY <1>t, <2>1 DEF Start
  <2>4. /\ add'[k].at = IF add[k].at = "none" THEN "none" ELSE "done"
        /\ delete'[k].at = IF delete[k].at \in {"none", "selected"} THEN "none" ELSE "done"
    BY <2>3 DEF NoAdd, NoDelete
  <2>5. delete[k].at \in {"none", "selected"} \/ Gone(k)
    BY <1>t DEF DeleteState, Gone
  <2> QED
    BY <1>b, <2>2, <2>4, <2>5 DEF Gone
<1>2. ASSUME NEW c \in Callers,
             \/ ClearIds(c) \/ ClearEmbeddings(c) \/ SaveRealigned(c) \/ Saved(c)
             \/ (c \in Others /\ SaveOther(c))
      PROVE  Kept
  <2>1. /\ UNCHANGED <<delete, early>> /\ embedding' \in {embedding, Nullified}
        /\ add[c].at \in {"reset", "cleared", "emptied", "saving"} \/ c \in Others
        /\ \/ \E at \in {"cleared", "emptied", "realigning", "saving"} :
                add[c].at # "saving" /\ add' = [add EXCEPT ![c].at = at]
           \/ add' = [add EXCEPT ![c] = [NoAdd EXCEPT !.at = IF c \in Memories THEN "done" ELSE "none"]]
    BY <1>2 DEF ClearIds, ClearEmbeddings, SaveRealigned, SaveOther, Saved
  <2>2. k # c => add'[k] = add[k]
    BY <1>t, <2>1
  <2>3. k = c => \/ add'[k].at = "done"
                 \/ add[k].at \in {"reset", "cleared", "emptied"} /\ add'[k].at # "inserted"
    BY <1>t, <2>1 DEF AddState, NoAdd
  <2>4. embedding'[k] = <<>> <=> embedding[k] = <<>>
    BY <1>n, <2>1
  <2> QED
    BY <1>g, <2>1, <2>2, <2>3, <2>4
<1>3. ASSUME NEW c \in Callers, NEW s \in Spaces, Realign(c, s) PROVE Kept
  <2>1. UNCHANGED <<delete, early, embedding>> /\ add[c].at = "none"
    BY <1>3 DEF Realign
  <2>2. k # c => add'[k].at = add[k].at
    BY <1>3, <1>t, RealignFacts, AddFacts
  <2>3. k = c => add'[k].at \in {"reset", "cleared"}
    BY <1>3, RealignFacts
  <2> QED
    BY <1>g, <2>1, <2>2, <2>3
<1>4. ASSUME NEW m \in Memories, AddVector(m), add[m].at \in {"none", "realigning"},
             UNCHANGED <<delete, early, embedding>>
      PROVE  Kept
  <2>1. k # m => add'[k] = add[k]
    BY <1>4, <1>t, AddVectorFacts
  <2>2. k = m => add'[k].at = "inserting"
    BY <1>4, AddVectorFacts
  <2> QED
    BY <1>4, <1>g, <2>1, <2>2
<1>5. ASSUME NEW c \in Callers, Realigned(c) PROVE Kept
  <2>1. CASE c \in Memories /\ AddVector(c)
    BY <1>4, <1>5, <2>1 DEF Realigned
  <2>2. CASE c \in Others /\ add' = [add EXCEPT ![c] = NoAdd]
    BY <1>5, <1>g, <1>t, <2>2 DEF Realigned
  <2> QED
    BY <1>5, <2>1, <2>2 DEF Realigned
<1>6. ASSUME NEW m \in Memories, NEW s \in Spaces, AddEmbedded(m, s) PROVE Kept
  BY <1>4, <1>6 DEF AddEmbedded
<1>7. ASSUME NEW m \in Memories, AddPlain(m) \/ InsertRow(m) PROVE Kept
  <2>1. /\ UNCHANGED <<delete, early>> /\ add[m].at \in {"none", "inserting"} /\ m \in Callers
        /\ \E e : embedding' = [embedding EXCEPT ![m] = e]
        /\ \E at \in {"done", "inserted"} : add' = [add EXCEPT ![m].at = at]
    BY <1>7 DEF AddPlain, InsertRow, Callers
  <2>2. CASE k # m
    <3>1. embedding'[k] = embedding[k] /\ add'[k] = add[k]
      BY <1>t, <2>1, <2>2
    <3> QED
      BY <1>g, <2>1, <3>1
  <2>3. CASE k = m
    <3>1. delete[k].at = "none" /\ add'[k].at \in {"done", "inserted"}
      BY <1>b, <1>t, <2>1, <2>3 DEF AddState
    <3> QED
      BY <2>1, <3>1 DEF Gone
  <2> QED
    BY <2>2, <2>3
<1>8. ASSUME NEW m \in Memories, InsertFails(m) \/ MapRow(m) PROVE Kept
  <2>1. /\ UNCHANGED <<delete, early, embedding>> /\ m \in Callers
        /\ \/ add[m].at = "inserting" /\ add' = [add EXCEPT ![m] = [NoAdd EXCEPT !.at = "failed"]]
           \/ add' = [add EXCEPT ![m].at = "saving"]
    BY <1>8 DEF InsertFails, MapRow, Callers
  <2>2. k # m => add'[k] = add[k]
    BY <1>t, <2>1
  <2>3. k = m => add'[k].at = "saving" \/ (add[k].at = "inserting" /\ add'[k].at = "failed")
    BY <1>t, <2>1 DEF AddState, NoAdd
  <2> QED
    BY <1>g, <2>1, <2>2, <2>3
<1>9. ASSUME NEW m \in Memories, SelectRow(m) PROVE Kept
  BY <1>9, <1>b, <1>t DEF SelectRow, Gone, DeleteState
<1>10. ASSUME NEW m \in Memories, DeleteRow(m) PROVE Kept
  <2>1. k # m => embedding'[k] = embedding[k] /\ delete'[k] = delete[k]
    BY <1>10, <1>t DEF DeleteRow
  <2>2. k = m => embedding'[k] = <<>> /\ delete'[k].at = "deleted" /\ delete[k].at = "selected"
    BY <1>10, <1>t DEF DeleteRow, DeleteState
  <2>3. add' = add /\ early \subseteq early' /\ (add[m].at = "inserted" => m \in early')
    BY <1>10 DEF DeleteRow
  <2> QED
    BY <1>b, <2>1, <2>2, <2>3 DEF Gone
<1>11. ASSUME NEW m \in Memories, Unmap(m) \/ Cleanup(m) PROVE Kept
  <2>1. /\ UNCHANGED <<early, embedding>> /\ add'[k].at = add[k].at /\ Gone(m)
    BY <1>11, <1>t, AddFacts DEF Unmap, Cleanup, Gone
  <2>2. (k # m => delete'[k] = delete[k]) /\ (k = m => Gone(k)')
    BY <1>11, <1>t DEF Unmap, Cleanup, Gone, DeleteState
  <2>3. Gone(k)' => Gone(k)
    BY <2>1, <2>2 DEF Gone
  <2>4. delete'[k].at = "none" => delete[k].at = "none"
    BY <2>1, <2>2 DEF Gone
  <2>5. delete'[k].at # "none" => delete[k].at # "none"
    BY <2>1, <2>2 DEF Gone
  <2> QED
    BY <1>b, <2>1, <2>3, <2>4, <2>5
<1>12. CASE UNCHANGED vectorVars
  BY <1>12, <1>g DEF vectorVars
<1>13. \A c \in Others : c \in Callers
  BY DEF Callers
<1> QED
  BY <1>1, <1>2, <1>3, <1>5, <1>6, <1>7, <1>8, <1>9, <1>10, <1>11, <1>12, <1>13 DEF VectorNext

\* As many different positions as there are vectors are all of them.
LEMMA AllPositions ==
  ASSUME NEW v \in Seq(Memories), NEW L, L \subseteq {<<i - 1, v[i]>> : i \in 1..Len(v)},
         Cardinality(L) = Len(v)
  PROVE  \A i \in 1..Len(v) : <<i - 1, v[i]>> \in L
<1> DEFINE n == Len(v)
           All == {<<i - 1, v[i]>> : i \in 1..n}
           f == [i \in 1..n |-> <<i - 1, v[i]>>]
<1>1. n \in Nat
  OBVIOUS
<1>2. IsFiniteSet(1..n) /\ Cardinality(1..n) = n
  <2> HIDE DEF n
  <2>1. 1 \in Int /\ n \in Int
    BY <1>1
  <2>2. IsFiniteSet(1..n) /\ Cardinality(1..n) = IF 1 > n THEN 0 ELSE n - 1 + 1
    BY <2>1, FS_Interval
  <2>3. (IF 1 > n THEN 0 ELSE n - 1 + 1) = n
    BY <1>1
  <2> QED
    BY <2>2, <2>3
<1>3. f \in Surjection(1..n, All)
  BY DEF Surjection
<1> HIDE DEF n, f
<1>4. IsFiniteSet(All) /\ Cardinality(All) <= n
  <2> HIDE DEF All
  <2> QED
    BY <1>2, <1>3, FS_Surjection
<1>5. L \in SUBSET All /\ Cardinality(L) = n
  BY DEF n
<1>6. All = L
  <2> HIDE DEF All
  <2>1. Cardinality(L) <= Cardinality(All) /\ (Cardinality(All) = Cardinality(L) => All = L)
    BY <1>4, <1>5, FS_Subset
  <2>2. Cardinality(All) \in Nat
    BY <1>4, FS_CardinalityType
  <2> QED
    BY <1>1, <1>4, <1>5, <2>1, <2>2
<1> QED
  BY <1>6 DEF n

\* A quiet start takes only an index that is the rows'.
LEMMA QuietStart ==
  ASSUME VectorTypes, Order, Positions, Artifacts, ~Underway,
         NEW vectors \in {index, file}, NEW loaded \in Loadings, Agree(vectors, loaded)
  PROVE  IsTheirs(vectors)
<1> DEFINE All == {<<i - 1, index[i]>> : i \in 1..Len(index)}
<1>t. /\ embedding \in [Memories -> Embeddings] /\ index \in Seq(Memories) /\ Len(index) \in Nat
      /\ \A m \in Memories : embedding[m] \in Embeddings
  BY DEF VectorTypes
<1>1. /\ \A m \in Memories : add[m].at \in {"none", "done"} /\ delete[m].at \in {"none", "done"}
      /\ \A c \in Callers : add[c].at \in {"none", "done", "saving"}
  BY DEF Underway, Callers
<1>2. vectors \in {index, <<>>} /\ (index = <<>> \/ Indexed # {})
  BY <1>1 DEF Artifacts
<1>3. \A m \in Indexed : m \in Memories /\ embedding[m][1] \in Nat /\ Holds(index, embedding[m][1], m)
  BY <1>1, <1>t, IdFacts DEF Positions, Clearing, Indexed
<1>4. RowIds \subseteq All
  <2> SUFFICES ASSUME NEW m \in Indexed
               PROVE  \E i \in 1..Len(index) : <<embedding[m][1], m>> = <<i - 1, index[i]>>
    BY DEF RowIds
  <2>1. embedding[m][1] + 1 \in 1..Len(index) /\ (embedding[m][1] + 1) - 1 = embedding[m][1]
    BY <1>3, <1>t DEF Holds
  <2> QED
    BY <1>3, <2>1 DEF Holds
<1>5. loaded \subseteq RowIds /\ (loaded = {} <=> Indexed = {}) /\ (RowIds = {} <=> Indexed = {})
  BY LoadedFacts DEF RowIds
<1>6. CASE Indexed = {}
  <2>1. vectors = <<>> /\ RowIds = {} /\ 1..Len(<<>>) = {}
    BY <1>2, <1>5, <1>6
  <2> QED
    BY <2>1 DEF IsTheirs
<1>7. CASE Indexed # {}
  <2>1. loaded # {} /\ Len(vectors) = Cardinality(loaded)
    BY <1>5, <1>7 DEF Agree
  <2>2. IsFiniteSet(1..Len(index))
    BY <1>t, FS_Interval
  <2>3. IsFiniteSet(All)
    <3> DEFINE f == [i \in 1..Len(index) |-> <<i - 1, index[i]>>]
    <3>1. f \in Surjection(1..Len(index), All)
      BY DEF Surjection
    <3> HIDE DEF f, All
    <3> QED
      BY <2>2, <3>1, FS_Surjection
  <2>4. IsFiniteSet(loaded)
    BY <1>4, <1>5, <2>3, FS_Subset
  <2>5. Cardinality(loaded) # 0
    BY <2>1, <2>4, FS_EmptySet
  <2>6. vectors = index
    BY <1>2, <2>1, <2>5
  <2>7. \A i \in 1..Len(index) : <<i - 1, index[i]>> \in loaded
    BY <1>4, <1>5, <1>t, <2>1, <2>6, AllPositions
  <2>8. RowIds = All
    BY <1>4, <1>5, <2>7
  <2> QED
    BY <2>6, <2>8 DEF IsTheirs
<1> QED
  BY <1>6, <1>7

\* A start that takes an index takes its rows', or it starts again.
LEMMA StartIsTrue ==
  ASSUME VectorTypes, Order, VectorTypes', NEW vectors \in Seq(Memories), NEW loaded \in Loadings,
         \/ /\ IsTheirs(vectors)
            /\ index' = vectors /\ mapping' = loaded /\ next' = NextAfter(loaded) /\ UNCHANGED embedding
         \/ ResetIndex /\ embedding' = Nullified,
         file' = index',
         \A c \in Callers : add'[c].at \in {"none", "done"} /\ add'[c].saves = <<>>,
         \A m \in Memories : delete'[m].at # "selected"
  PROVE  Positions' /\ Artifacts'
<1>0. ~Clearing' /\ ~Unreset' /\ Memories \subseteq Callers
  BY DEF Clearing, Unreset, Callers
<1>1. CASE ResetIndex /\ embedding' = Nullified
  <2>1. \A m \in Memories : ~HasId(m)'
    BY <1>1 DEF Nullified, HasId
  <2>2. Indexed' = {}
    BY <2>1 DEF Indexed
  <2> QED
    BY <1>0, <1>1, <2>2 DEF Positions, Artifacts, ResetIndex
<1>2. CASE /\ IsTheirs(vectors)
           /\ index' = vectors /\ mapping' = loaded /\ next' = NextAfter(loaded) /\ UNCHANGED embedding
  <2> DEFINE n == Len(vectors)
  <2>1. n \in Nat
    OBVIOUS
  <2>2. \A p : p \in RowIds <=> \E i \in 1..n : p = <<i - 1, vectors[i]>>
    BY <1>2 DEF IsTheirs
  <2>3. /\ loaded \subseteq RowIds /\ loaded \subseteq Nat \X Memories
        /\ \A p \in loaded : p[2] \in Indexed /\ embedding[p[2]] = <<p[1]>>
        /\ loaded = {} <=> Indexed = {}
        /\ loaded # {} =>
             \E q \in loaded : NextAfter(loaded) = q[1] + 1 /\ \A p \in loaded : p[1] <= q[1]
    BY LoadedFacts
  <2>4. \A p \in RowIds : p[1] < n /\ p[1] \in Nat /\ p = <<p[1], vectors[p[1] + 1]>>
    <3> SUFFICES ASSUME NEW i \in 1..n
                 PROVE  LET p == <<i - 1, vectors[i]>> IN p[1] < n /\ p[1] \in Nat /\ p = <<p[1], vectors[p[1] + 1]>>
      BY <2>2
    <3>1. i - 1 < n /\ i - 1 \in Nat /\ (i - 1) + 1 = i
      BY <2>1
    <3> QED
      BY <3>1
  <2>5. RowIds \subseteq loaded
    <3> SUFFICES ASSUME NEW r \in RowIds PROVE r \in loaded
      OBVIOUS
    <3>1. PICK p \in loaded : p[1] = r[1]
      BY DEF Loadings
    <3> QED
      BY <2>3, <2>4, <3>1
  <2>6. \A p \in RowIds : Holds(vectors, p[1], p[2])
    BY <2>4 DEF Holds
  <2>7. \A m \in Indexed : Holds(vectors, embedding[m][1], m)
    <3> SUFFICES ASSUME NEW m \in Indexed PROVE Holds(vectors, embedding[m][1], m)
      OBVIOUS
    <3>1. <<embedding[m][1], m>> \in RowIds
      BY DEF RowIds
    <3> QED
      BY <2>6, <3>1
  <2>8. NextAfter(loaded) = n
    <3>1. CASE n = 0
      <4>1. loaded = {}
        BY <2>2, <2>3, <3>1
      <4> QED
        BY <3>1, <4>1 DEF NextAfter
    <3>2. CASE n # 0
      <4>1. n \in 1..n /\ <<n - 1, vectors[n]>> \in loaded
        BY <2>1, <2>2, <2>5, <3>2
      <4>2. PICK q \in loaded : NextAfter(loaded) = q[1] + 1 /\ \A p \in loaded : p[1] <= q[1]
        BY <2>3, <4>1
      <4>3. n - 1 <= q[1] /\ q[1] < n /\ q[1] \in Nat
        BY <2>3, <2>4, <4>1, <4>2
      <4> QED
        BY <2>1, <4>2, <4>3
    <3> QED
      BY <3>1, <3>2
  <2>9. Indexed' = Indexed
    BY <1>2 DEF Indexed, HasId
  <2>10. \A p \in mapping' : RowIs(p[2], p[1])'
    <3> SUFFICES ASSUME NEW p \in loaded PROVE RowIs(p[2], p[1])'
      BY <1>2
    <3>1. p[2] \in Memories /\ embedding'[p[2]] = <<p[1]>>
      BY <1>2, <2>3 DEF Indexed
    <3> QED
      BY <3>1 DEF RowIs
  <2>11. next' = Len(index') /\ \A p \in mapping' : Holds(index', p[1], p[2])
    BY <1>2, <2>3, <2>6, <2>8
  <2>12. \A m \in Indexed' : Holds(index', embedding'[m][1], m)
    BY <1>2, <2>7, <2>9
  <2>13. Positions'
    BY <1>0, <2>10, <2>11, <2>12 DEF Positions
  <2>14. index' = <<>> \/ Indexed' # {}
    <3>1. CASE n = 0
      BY <1>2, <3>1
    <3>2. CASE n # 0
      <4>1. n \in 1..n
        BY <2>1, <3>2
      <4>2. <<n - 1, vectors[n]>> \in loaded
        BY <2>2, <2>5, <4>1
      <4> QED
        BY <2>3, <2>9, <4>2
    <3> QED
      BY <3>1, <3>2
  <2> QED
    BY <2>13, <2>14 DEF Artifacts
<1> QED
  BY <1>1, <1>2

\* An addition that puts its vector into the index.
LEMMA AddVectorIsTrue ==
  ASSUME VectorTypes, Positions, NEW m \in Memories, AddVector(m), ~flaw',
         UNCHANGED <<embedding, mapping, delete, early>>
  PROVE  Positions' /\ Artifacts'
<1>t. /\ index \in Seq(Memories) /\ Len(index) \in Nat /\ \A k \in Callers : add[k] \in AddState
      /\ m \in Callers /\ Memories \subseteq Callers /\ mapping \subseteq Nat \X Memories
  BY DEF VectorTypes, Callers
<1>1. /\ Len(index') = Len(index) + 1 /\ index'[Len(index) + 1] = m
      /\ \A i \in 1..Len(index) : index'[i] = index[i]
      /\ add'[m].at = "inserting" /\ add'[m].id = next /\ add'[m].saves = <<>>
      /\ \A k \in Callers \ {m} : add'[k] = add[k]
  BY AddVectorFacts
<1>2. ~Clearing /\ ~Unreset
  BY DEF AddVector, Clearing, Unreset, At
<1>3. ~Clearing' /\ ~Unreset'
  BY <1>1, <1>2, <1>t DEF Clearing, Unreset
<1>4. next = Len(index) /\ next' = Len(index')
  BY <1>1, <1>2 DEF Positions, AddVector
<1>5. \A i \in Nat : \A k : Holds(index, i, k) => Holds(index', i, k)
  BY <1>t, <1>1 DEF Holds
<1>6. Holds(index', next, m)
  BY <1>t, <1>1, <1>4 DEF Holds
<1>7. \A k \in Memories : add'[k].at \in {"inserting", "inserted"} => Holds(index', add'[k].id, k)
  <2> SUFFICES ASSUME NEW k \in Memories, add'[k].at \in {"inserting", "inserted"}, k # m
               PROVE  Holds(index', add'[k].id, k)
    BY <1>1, <1>6
  <2>1. add'[k] = add[k] /\ add[k].id \in Nat
    BY <1>1, <1>t DEF AddState
  <2> QED
    BY <1>5, <2>1 DEF Positions
<1>8. \A k \in Memories : add'[k].at = "inserted" /\ ~Gone(k)' => RowIs(k, add[k].id)'
  <2> SUFFICES ASSUME NEW k \in Memories, add'[k].at = "inserted", ~Gone(k)' PROVE RowIs(k, add[k].id)'
    OBVIOUS
  <2>1. add'[k] = add[k] /\ ~Gone(k)
    BY <1>1, <1>t DEF Gone
  <2>2. RowIs(k, add[k].id)
    BY <2>1 DEF Positions
  <2> QED
    BY <2>1, <2>2 DEF RowIs
<1>9. \A p \in mapping' : Holds(index', p[1], p[2]) /\ (p[2] \in early' \/ RowIs(p[2], p[1])')
  <2>1. \A p \in mapping : p[1] \in Nat /\ Holds(index, p[1], p[2]) /\ (p[2] \in early \/ RowIs(p[2], p[1]))
    BY <1>2, <1>t DEF Positions
  <2> QED
    BY <1>5, <2>1 DEF RowIs
<1>10. \A k \in Indexed' : Holds(index', embedding'[k][1], k)
  <2>1. \A k \in Indexed : embedding[k][1] \in Nat /\ Holds(index, embedding[k][1], k)
    BY <1>2, IdFacts DEF Positions, Indexed, VectorTypes
  <2>2. Indexed' = Indexed
    BY DEF Indexed, HasId
  <2> QED
    BY <1>5, <2>1, <2>2
<1>11. \A c \in Callers : add'[c].saves \in {<<>>, <<<<>>>>}
  BY <1>1 DEF Positions
<1>12. \A c \in Callers : add'[c].at # "cleared"
  BY <1>3 DEF Clearing
<1>13. Positions'
  BY <1>3, <1>4, <1>7, <1>8, <1>9, <1>10, <1>11, <1>12 DEF Positions
<1> QED
  BY <1>1, <1>13 DEF Artifacts

\* Steps that leave the index as it is and give no new ids.
LEMMA IndexKept ==
  ASSUME VectorTypes, Positions, UNCHANGED <<index, next>>, mapping' \subseteq mapping,
         \A c \in Callers : /\ add'[c].at \in {"reset", "cleared"} => add'[c].at = add[c].at
                            /\ add[c].at = "reset" => add'[c].at = "reset"
                            /\ add'[c].saves \in {<<>>, <<<<>>>>},
         \A m \in Memories : add'[m].at \in {"inserting", "inserted"} =>
                               add'[m].at = add[m].at /\ add'[m].id = add[m].id,
         \A m \in Memories : add'[m].at = "inserted" /\ ~Gone(m)' => RowIs(m, add[m].id)',
         \A p \in mapping' : p[2] \in early' \/ RowIs(p[2], p[1])',
         \/ Indexed' = {}
         \/ /\ Clearing => Clearing'
            /\ \A m \in Indexed' : m \in Indexed /\ embedding'[m] = embedding[m]
  PROVE  Positions'
<1>1. Clearing' => Clearing
  BY DEF Clearing
<1>2. Unreset => Unreset'
  BY DEF Unreset
<1>3. (\E c \in Callers : add'[c].at = "cleared") => mapping' = {}
  <2>1. (\E c \in Callers : add'[c].at = "cleared") => \E c \in Callers : add[c].at = "cleared"
    OBVIOUS
  <2> QED
    BY <2>1 DEF Positions
<1>4. \A m \in Memories : add'[m].at \in {"inserting", "inserted"} => Holds(index', add'[m].id, m)
  BY DEF Positions, Holds
<1>5. Unreset' \/ (next' = Len(index') /\ \A p \in mapping' : Holds(index', p[1], p[2]))
  BY <1>2 DEF Positions, Holds
<1>6. Clearing' \/ \A m \in Indexed' : Holds(index', embedding'[m][1], m)
  BY DEF Positions, Holds
<1> QED
  BY <1>1, <1>3, <1>4, <1>5, <1>6 DEF Positions

\* Whoever saves when the index is replaced saves an empty one, and nobody is adding.
LEMMA DetachedIsTrue ==
  ASSUME VectorTypes, Positions, ~ReplacedInUse
  PROVE  /\ \A c \in Callers : Detached(add)[c].saves \in {<<>>, <<<<>>>>}
         /\ \A m \in Memories : add[m].at \notin {"inserting", "inserted"}
<1>1. Memories \subseteq Callers /\ \A c \in Callers : add[c].saves \in {<<>>, <<<<>>>>}
  BY DEF Callers, Positions
<1>2. CASE index = <<>>
  <2>1. \A c \in Callers : Detached(add)[c].saves \in {<<>>, <<<<>>>>}
    BY <1>1, <1>2, AddFacts
  <2>2. ASSUME NEW m \in Memories, add[m].at \in {"inserting", "inserted"} PROVE FALSE
    <3>1. Holds(index, add[m].id, m) /\ add[m].id \in Nat
      BY <1>1, <2>2 DEF Positions, VectorTypes, AddState
    <3> QED
      BY <1>2, <3>1 DEF Holds
  <2> QED
    BY <2>1, <2>2
<1>3. CASE index # <<>>
  <2>1. \A c \in Callers : add[c].at \notin {"inserting", "inserted"} \cup Saves
    BY <1>3 DEF ReplacedInUse, At
  <2>2. \A c \in Callers : Detached(add)[c] = add[c]
    BY <2>1, AddFacts
  <2> QED
    BY <1>1, <2>1, <2>2
<1> QED
  BY <1>2, <1>3

LEMMA VectorInvNext == VectorInv /\ [VectorNext]_vectorVars => VectorInv'
<1> SUFFICES ASSUME VectorInv, [VectorNext]_vectorVars PROVE VectorInv'
  OBVIOUS
<1>0. VectorTypes /\ Order /\ VectorTypes' /\ Order'
  BY VectorTypesNext, OrderNext DEF VectorInv
<1>t. /\ embedding \in [Memories -> Embeddings] /\ add \in [Callers -> AddState]
      /\ \A c \in Callers : add[c] \in AddState
      /\ \A m \in Memories : embedding[m] \in Embeddings /\ delete[m] \in DeleteState
      /\ delete \in [Memories -> DeleteState] /\ mapping \subseteq Nat \X Memories
      /\ index \in Seq(Memories) /\ file \in Seq(Memories)
  BY <1>0 DEF VectorTypes
<1>m. Memories \subseteq Callers /\ Others \subseteq Callers /\ \A m \in Memories : m \notin Others
  BY VectorIndexAssumption DEF Callers
<1>h. ASSUME NEW i \in Nat, NEW m, index = <<>> PROVE ~Holds(index, i, m)
  BY <1>h DEF Holds
<1> SUFFICES ASSUME ~flaw' PROVE Positions' /\ Artifacts'
  BY <1>0 DEF VectorInv
<1>f. ~flaw /\ Positions /\ Artifacts
  <2>1. flaw => flaw'
    <3>1. CASE CloseSaved \/ CrashUnsaved
      BY <3>1 DEF CloseSaved, CrashUnsaved, Start
    <3>2. CASE \E c \in Callers :
                 \/ ClearIds(c) \/ ClearEmbeddings(c) \/ SaveRealigned(c) \/ Realigned(c) \/ Saved(c)
                 \/ SaveOther(c) \/ \E s \in Spaces : Realign(c, s)
      BY <3>2 DEF ClearIds, ClearEmbeddings, SaveRealigned, Realigned, Saved, SaveOther, Realign, AddVector
    <3>3. CASE \E m \in Memories :
                 \/ AddPlain(m) \/ InsertRow(m) \/ InsertFails(m) \/ MapRow(m)
                 \/ SelectRow(m) \/ DeleteRow(m) \/ Unmap(m) \/ Cleanup(m)
                 \/ \E s \in Spaces : AddEmbedded(m, s)
      BY <3>3 DEF AddPlain, InsertRow, InsertFails, MapRow, SelectRow, DeleteRow, Unmap, Cleanup,
                  AddEmbedded, AddVector
    <3>4. CASE UNCHANGED vectorVars
      BY <3>4 DEF vectorVars
    <3> QED
      BY <1>m, <3>1, <3>2, <3>3, <3>4 DEF VectorNext
  <2> QED
    BY <2>1 DEF VectorInv
<1>s. \A c \in Callers : add[c].saves \in {<<>>, <<<<>>>>}
  BY <1>f DEF Positions
<1>i. \A m \in Memories : add[m].at \in {"inserting", "inserted"} => Holds(index, add[m].id, m) /\ index # <<>>
  <2> SUFFICES ASSUME NEW m \in Memories, add[m].at \in {"inserting", "inserted"}
               PROVE  Holds(index, add[m].id, m) /\ index # <<>>
    OBVIOUS
  <2>1. Holds(index, add[m].id, m) /\ add[m].id \in Nat
    BY <1>f, <1>m, <1>t DEF Positions, AddState
  <2> QED
    BY <1>h, <2>1
<1>1. CASE CloseSaved \/ CrashUnsaved
  <2>1. PICK vectors \in {index, file} : Start(vectors)
    BY <1>1 DEF CloseSaved, CrashUnsaved
  <2>2. PICK loaded \in Loadings :
          /\ IF Agree(vectors, loaded)
             THEN index' = vectors /\ mapping' = loaded /\ next' = NextAfter(loaded) /\ UNCHANGED embedding
             ELSE ResetIndex /\ embedding' = Nullified
          /\ file' = index'
          /\ add' = [c \in Callers |-> IF add[c].at = "none" \/ c \in Others
                                       THEN NoAdd ELSE [NoAdd EXCEPT !.at = "done"]]
          /\ delete' = [m \in Memories |-> IF delete[m].at \in {"none", "selected"}
                                           THEN NoDelete ELSE [NoDelete EXCEPT !.at = "done"]]
          /\ flaw' = (flaw \/ (Underway /\ Agree(vectors, loaded) /\ ~IsTheirs(vectors)))
    BY <2>1 DEF Start
  <2>3. Agree(vectors, loaded) => IsTheirs(vectors)
    BY <1>0, <1>f, <2>2, QuietStart
  <2>4. \A c \in Callers : add'[c].at \in {"none", "done"} /\ add'[c].saves = <<>>
    BY <1>0, <2>2, AddFacts
  <2>5. \A m \in Memories : delete'[m].at # "selected"
    BY <2>2 DEF NoDelete
  <2>6. \/ /\ IsTheirs(vectors)
           /\ index' = vectors /\ mapping' = loaded /\ next' = NextAfter(loaded) /\ UNCHANGED embedding
        \/ ResetIndex /\ embedding' = Nullified
    BY <2>2, <2>3
  <2>7. file' = index' /\ vectors \in Seq(Memories)
    BY <1>t, <2>2
  <2> QED
    BY <1>0, <2>4, <2>5, <2>6, <2>7, StartIsTrue
<1>2. ASSUME NEW c \in Callers, NEW s \in Spaces, Realign(c, s) PROVE Positions' /\ Artifacts'
  <2>1. /\ index' = <<>> /\ UNCHANGED <<embedding, file, delete, early>> /\ ~ReplacedInUse
        /\ \/ second /\ UNCHANGED <<mapping, next>>
           \/ ~second /\ mapping' = {} /\ next' = 0
    BY <1>2 DEF Realign, ResetIndex
  <2>2. /\ add'[c].at = (IF second THEN "reset" ELSE "cleared") /\ add'[c].saves = add[c].saves
        /\ \A k \in Callers \ {c} : add'[k] = Detached(add)[k]
    BY <1>0, <1>2, RealignFacts
  <2>3. /\ \A k \in Callers : add'[k].saves \in {<<>>, <<<<>>>>}
        /\ \A k \in Callers \ {c} : add'[k].at = add[k].at
        /\ \A m \in Memories : add'[m].at \notin {"inserting", "inserted"}
    BY <1>0, <1>f, <1>m, <1>s, <2>1, <2>2, DetachedIsTrue, AddFacts
  <2>4. Clearing' /\ (second => Unreset')
    BY <2>2 DEF Clearing, Unreset
  <2>5. (\E k \in Callers : add'[k].at = "cleared") => mapping' = {}
    <3>1. CASE second
      <4>1. (\E k \in Callers : add'[k].at = "cleared") => \E k \in Callers : add[k].at = "cleared"
        BY <2>2, <2>3, <3>1
      <4> QED
        BY <1>f, <2>1, <3>1, <4>1 DEF Positions
    <3> QED
      BY <2>1, <3>1
  <2>6. Unreset' \/ (next' = Len(index') /\ \A p \in mapping' : Holds(index', p[1], p[2]))
    BY <2>1, <2>4
  <2>7. \A p \in mapping' : p[2] \in early' \/ RowIs(p[2], p[1])'
    <3>1. \A p \in mapping : p[2] \in early \/ RowIs(p[2], p[1])
      BY <1>f DEF Positions
    <3> QED
      BY <2>1, <3>1 DEF RowIs
  <2>8. Positions'
    BY <2>1, <2>3, <2>4, <2>5, <2>6, <2>7 DEF Positions
  <2> QED
    BY <2>1, <2>2, <2>8 DEF Artifacts
<1>3. ASSUME NEW m \in Memories, Cleanup(m) PROVE Positions' /\ Artifacts'
  <2>1. /\ index' = <<>> /\ mapping' = {} /\ next' = 0 /\ file' = <<>> /\ ~ReplacedInUse /\ Indexed = {}
        /\ add' = Detached(add) /\ embedding' = embedding
    BY <1>3 DEF Cleanup, ResetIndex
  <2>2. /\ \A k \in Callers : add'[k].saves \in {<<>>, <<<<>>>>}
        /\ \A k \in Memories : add'[k].at \notin {"inserting", "inserted"}
    BY <1>0, <1>f, <1>m, <2>1, DetachedIsTrue, AddFacts
  <2>3. Indexed' = {}
    BY <2>1 DEF Indexed, HasId
  <2>4. Positions'
    BY <2>1, <2>2, <2>3 DEF Positions
  <2> QED
    BY <2>1, <2>4 DEF Artifacts
<1>4. ASSUME NEW c \in Callers, ClearIds(c) PROVE Positions' /\ Artifacts'
  <2>1. /\ mapping' = {} /\ next' = 0 /\ add[c].at = "reset" /\ add' = [add EXCEPT ![c].at = "cleared"]
        /\ UNCHANGED <<embedding, file, index, delete, early>>
    BY <1>4 DEF ClearIds
  <2>2. index = <<>> /\ Clearing'
    <3>1. Clearing /\ add'[c].at = "cleared"
      BY <1>t, <2>1 DEF Clearing, AddState
    <3> QED
      BY <1>f, <3>1 DEF Positions, Clearing
  <2>3. /\ \A k \in Callers : add'[k].saves \in {<<>>, <<<<>>>>}
        /\ \A k \in Memories : add'[k].at \notin {"inserting", "inserted"}
    <3>1. \A k \in Callers : add'[k].saves = add[k].saves /\ add'[k].at \in {add[k].at, "cleared"}
      BY <1>t, <2>1 DEF AddState
    <3> QED
      BY <1>i, <1>m, <1>s, <2>2, <3>1
  <2>4. Positions'
    BY <2>1, <2>2, <2>3 DEF Positions
  <2>5. add'[c].at = "cleared"
    BY <1>t, <2>1 DEF AddState
  <2> QED
    BY <2>1, <2>2, <2>4, <2>5 DEF Artifacts
<1>5. ASSUME NEW c \in Callers, ClearEmbeddings(c) PROVE Positions' /\ Artifacts'
  <2>1. /\ add[c].at = "cleared" /\ add' = [add EXCEPT ![c].at = "emptied"] /\ embedding' = Nullified
        /\ UNCHANGED <<mapping, next, file, index, delete, early>>
    BY <1>5 DEF ClearEmbeddings
  <2>2. Indexed' = {}
    BY <2>1 DEF Indexed, HasId, Nullified
  <2>3. index = <<>> /\ mapping = {}
    BY <1>f, <2>1 DEF Positions, Clearing
  <2>4. /\ \A k \in Callers : add'[k].saves = add[k].saves
        /\ \A k \in Callers \ {c} : add'[k] = add[k]
        /\ add'[c].at = "emptied"
    BY <1>t, <2>1 DEF AddState
  <2>5. \A k \in Memories : add'[k].at \notin {"inserting", "inserted"}
    BY <1>i, <1>m, <2>3, <2>4
  <2>6. \A k \in Callers : /\ add'[k].at \in {"reset", "cleared"} => add'[k].at = add[k].at
                           /\ add[k].at = "reset" => add'[k].at = "reset"
                           /\ add'[k].saves \in {<<>>, <<<<>>>>}
    BY <1>s, <2>1, <2>4
  <2>7. Positions'
    BY <1>0, <1>f, <2>1, <2>2, <2>3, <2>5, <2>6, IndexKept
  <2> QED
    BY <2>1, <2>3, <2>4, <2>7 DEF Artifacts
<1>6. ASSUME NEW c \in Callers, NEW saved \in {"realigning", "saving", "none", "done", "failed"},
             c \in Others \/ saved \notin {"none"},
             UNCHANGED <<embedding, mapping, next, index, delete, early>>,
             \/ add' = [add EXCEPT ![c].at = saved]
             \/ add' = [add EXCEPT ![c] = [NoAdd EXCEPT !.at = saved]] /\ saved \in {"none", "done", "failed"},
             add[c].at \notin {"reset", "cleared"}
      PROVE  /\ Positions' /\ add'[c].at = saved /\ \A k \in Callers \ {c} : add'[k] = add[k]
             /\ Indexed' = Indexed
  <2>1. /\ \A k \in Callers \ {c} : add'[k] = add[k]
        /\ add'[c].at = saved /\ add'[c].saves \in {<<>>, add[c].saves}
    BY <1>0, <1>t, <1>6, AddFacts DEF AddState
  <2>2. Indexed' = Indexed /\ (Clearing => Clearing')
    BY <1>6, <2>1 DEF Indexed, HasId, Clearing
  <2>3. \A k \in Callers : /\ add'[k].at \in {"reset", "cleared"} => add'[k].at = add[k].at
                           /\ add[k].at = "reset" => add'[k].at = "reset"
                           /\ add'[k].saves \in {<<>>, <<<<>>>>}
    BY <1>s, <1>6, <2>1
  <2>4. \A k \in Memories : add'[k].at \in {"inserting", "inserted"} => add'[k] = add[k]
    BY <1>m, <2>1
  <2>5. \A k \in Memories : add'[k].at = "inserted" /\ ~Gone(k)' => RowIs(k, add[k].id)'
    BY <1>f, <1>6, <2>4 DEF Positions, Gone, RowIs
  <2>6. \A p \in mapping' : p[2] \in early' \/ RowIs(p[2], p[1])'
    BY <1>f, <1>6 DEF Positions, RowIs
  <2>7. Positions'
    BY <1>0, <1>f, <1>6, <2>2, <2>3, <2>4, <2>5, <2>6, IndexKept
  <2> QED
    BY <2>1, <2>2, <2>7
<1>7. ASSUME NEW c \in Callers, SaveRealigned(c) \/ (c \in Others /\ SaveOther(c)) PROVE Positions' /\ Artifacts'
  <2>1. PICK at \in {"realigning", "saving"} :
          /\ add' = [add EXCEPT ![c].at = at] /\ UNCHANGED <<embedding, mapping, next, index, file, delete, early>>
          /\ \/ add[c].at = "emptied" /\ at = "realigning"
             \/ add[c].at = "none"
    BY <1>7 DEF SaveRealigned, SaveOther
  <2>2. Positions' /\ add'[c].at = at /\ (\A k \in Callers \ {c} : add'[k] = add[k]) /\ Indexed' = Indexed
    BY <1>6, <2>1
  <2> QED
    BY <1>f, <1>m, <2>1, <2>2 DEF Artifacts
<1>8. ASSUME NEW c \in Callers, Saved(c) PROVE Positions' /\ Artifacts'
  <2>1. PICK at \in {"none", "done"} :
          /\ add' = [add EXCEPT ![c] = [NoAdd EXCEPT !.at = at]]
          /\ UNCHANGED <<embedding, mapping, next, index, delete, early>>
          /\ file' = Written(c) /\ add[c].at = "saving" /\ (c \in Others \/ at # "none")
    BY <1>8 DEF Saved, Callers
  <2>2. Positions' /\ add'[c].at = at /\ (\A k \in Callers \ {c} : add'[k] = add[k]) /\ Indexed' = Indexed
    BY <1>6, <2>1
  <2>3. file' \in {index', <<>>}
    BY <1>0, <1>s, <2>1, WrittenFacts
  <2> QED
    BY <1>f, <1>m, <2>1, <2>2, <2>3 DEF Artifacts
<1>9. ASSUME NEW c \in Callers, Realigned(c) PROVE Positions' /\ Artifacts'
  <2>1. CASE c \in Memories /\ AddVector(c)
    BY <1>0, <1>9, <1>f, <2>1, AddVectorIsTrue DEF Realigned
  <2>2. CASE c \in Others /\ add' = [add EXCEPT ![c] = NoAdd] /\ UNCHANGED <<index, next, flaw>>
    <3>1. NoAdd = [NoAdd EXCEPT !.at = "none"]
      BY DEF NoAdd
    <3>2. /\ add' = [add EXCEPT ![c] = [NoAdd EXCEPT !.at = "none"]]
          /\ UNCHANGED <<embedding, mapping, next, index, delete, early>>
          /\ file' = Written(c) /\ add[c].at = "realigning"
      BY <1>9, <2>2, <3>1 DEF Realigned
    <3>3. Positions' /\ add'[c].at = "none" /\ (\A k \in Callers \ {c} : add'[k] = add[k]) /\ Indexed' = Indexed
      BY <1>6, <2>2, <3>2
    <3>4. file' \in {index', <<>>}
      BY <1>0, <1>s, <3>2, WrittenFacts
    <3> QED
      BY <1>f, <1>m, <2>2, <3>2, <3>3, <3>4 DEF Artifacts
  <2> QED
    BY <1>9, <2>1, <2>2 DEF Realigned
<1>10. ASSUME NEW m \in Memories, NEW s \in Spaces, AddEmbedded(m, s) PROVE Positions' /\ Artifacts'
  BY <1>0, <1>10, <1>f, AddVectorIsTrue DEF AddEmbedded
<1>11. ASSUME NEW m \in Memories, AddPlain(m) PROVE Positions' /\ Artifacts'
  <2>1. /\ add[m].at = "none" /\ add' = [add EXCEPT ![m].at = "done"]
        /\ embedding' = [embedding EXCEPT ![m] = NoId]
        /\ UNCHANGED <<mapping, next, index, file, delete, early>>
    BY <1>11 DEF AddPlain
  <2>2. /\ add'[m].at = "done" /\ add'[m].saves = add[m].saves /\ \A k \in Callers \ {m} : add'[k] = add[k]
        /\ embedding'[m] = NoId /\ \A k \in Memories \ {m} : embedding'[k] = embedding[k]
    BY <1>m, <1>t, <2>1 DEF AddState
  <2>3. embedding[m] = <<>> /\ delete[m].at = "none"
    BY <1>0, <2>1 DEF Order
  <2>4. \A k \in Memories, i \in Nat : RowIs(k, i) => k # m /\ RowIs(k, i)'
    BY <2>1, <2>2, <2>3 DEF RowIs
  <2>5. Indexed' = Indexed /\ m \notin Indexed
    BY <2>2, <2>3 DEF Indexed, HasId
  <2>6. Clearing => Clearing'
    BY <2>1, <2>2 DEF Clearing
  <2>7. \A k \in Memories : add'[k].at = "inserted" /\ ~Gone(k)' => RowIs(k, add[k].id)'
    BY <1>f, <1>m, <1>t, <2>1, <2>2, <2>4 DEF Positions, Gone, AddState
  <2>8. \A p \in mapping' : p[2] \in early' \/ RowIs(p[2], p[1])'
    BY <1>f, <1>t, <2>1, <2>4 DEF Positions
  <2>9. \A k \in Callers : /\ add'[k].at \in {"reset", "cleared"} => add'[k].at = add[k].at
                           /\ add[k].at = "reset" => add'[k].at = "reset"
                           /\ add'[k].saves \in {<<>>, <<<<>>>>}
    BY <1>s, <2>1, <2>2
  <2>10. \A k \in Memories : add'[k].at \in {"inserting", "inserted"} => add'[k] = add[k]
    BY <1>m, <2>2
  <2>11. \A k \in Indexed' : k \in Indexed /\ embedding'[k] = embedding[k]
    BY <2>2, <2>5 DEF Indexed
  <2>12. Positions'
    BY <1>0, <1>f, <2>1, <2>6, <2>7, <2>8, <2>9, <2>10, <2>11, IndexKept
  <2> QED
    BY <1>f, <1>m, <2>1, <2>2, <2>5, <2>12 DEF Artifacts
<1>12. ASSUME NEW m \in Memories, InsertRow(m) PROVE Positions' /\ Artifacts'
  <2>1. /\ add[m].at = "inserting" /\ add' = [add EXCEPT ![m].at = "inserted"]
        /\ embedding' = [embedding EXCEPT ![m] = <<add[m].id>>]
        /\ UNCHANGED <<mapping, next, index, file, delete, early>>
    BY <1>12 DEF InsertRow
  <2>2. /\ add'[m].at = "inserted" /\ add'[m].saves = add[m].saves /\ add'[m].id = add[m].id
        /\ \A k \in Callers \ {m} : add'[k] = add[k]
        /\ embedding'[m] = <<add[m].id>> /\ \A k \in Memories \ {m} : embedding'[k] = embedding[k]
        /\ add[m].id \in Nat
    BY <1>m, <1>t, <2>1 DEF AddState
  <2>3. embedding[m] = <<>> /\ delete[m].at = "none"
    BY <1>0, <2>1 DEF Order
  <2>4. Holds(index, add[m].id, m) /\ index # <<>>
    BY <1>i, <2>1
  <2>5. ~Clearing /\ ~Unreset
    BY <1>f, <2>4 DEF Positions, Clearing, Unreset
  <2>6. ~Clearing' /\ ~Unreset'
    BY <2>2, <2>5 DEF Clearing, Unreset
  <2>7. RowIs(m, add[m].id)'
    BY <2>1, <2>2, <2>3 DEF RowIs
  <2>8. \A k \in Memories, i \in Nat : RowIs(k, i) => k # m /\ RowIs(k, i)'
    BY <2>1, <2>2, <2>3 DEF RowIs
  <2>9. \A k \in Memories : add'[k].at \in {"inserting", "inserted"} => Holds(index', add'[k].id, k)
    BY <1>i, <1>m, <2>1, <2>2, <2>4
  <2>10. \A k \in Memories : add'[k].at = "inserted" /\ ~Gone(k)' => RowIs(k, add[k].id)'
    BY <1>f, <1>m, <1>t, <2>1, <2>2, <2>7, <2>8 DEF Positions, Gone, AddState
  <2>11. \A p \in mapping' : p[2] \in early' \/ RowIs(p[2], p[1])'
    BY <1>f, <1>t, <2>1, <2>8 DEF Positions
  <2>12. \A k \in Indexed' : Holds(index', embedding'[k][1], k)
    <3> SUFFICES ASSUME NEW k \in Indexed' PROVE Holds(index', embedding'[k][1], k)
      OBVIOUS
    <3>1. CASE k = m
      BY <2>1, <2>2, <2>4, <3>1
    <3>2. CASE k # m
      <4>1. k \in Indexed /\ embedding'[k] = embedding[k]
        BY <2>2, <3>2 DEF Indexed, HasId
      <4> QED
        BY <1>f, <2>1, <2>5, <4>1 DEF Positions
    <3> QED
      BY <3>1, <3>2
  <2>13. next' = Len(index') /\ \A p \in mapping' : Holds(index', p[1], p[2])
    BY <1>f, <2>1, <2>5 DEF Positions
  <2>14. \A k \in Callers : add'[k].saves \in {<<>>, <<<<>>>>}
    BY <1>s, <2>2
  <2>15. \A k \in Callers : add'[k].at # "cleared"
    BY <2>6 DEF Clearing
  <2>16. Positions'
    BY <2>6, <2>9, <2>10, <2>11, <2>12, <2>13, <2>14, <2>15 DEF Positions
  <2>17. m \in Indexed'
    <3>1. <<add[m].id>> # NoId /\ <<add[m].id>> # <<>>
      BY <2>2 DEF NoId
    <3> QED
      BY <2>2, <3>1 DEF Indexed, HasId
  <2> QED
    BY <1>f, <1>m, <2>1, <2>2, <2>16, <2>17 DEF Artifacts
<1>13. ASSUME NEW m \in Memories, InsertFails(m) PROVE Positions' /\ Artifacts'
  <2>1. /\ add' = [add EXCEPT ![m] = [NoAdd EXCEPT !.at = "failed"]] /\ add[m].at = "inserting"
        /\ UNCHANGED <<embedding, mapping, next, index, file, delete, early>>
    BY <1>13 DEF InsertFails
  <2>2. Positions' /\ add'[m].at = "failed"
    BY <1>6, <1>m, <2>1
  <2> QED
    BY <2>2 DEF Artifacts
<1>14. ASSUME NEW m \in Memories, MapRow(m) PROVE Positions' /\ Artifacts'
  <2>1. /\ add[m].at = "inserted" /\ add' = [add EXCEPT ![m].at = "saving"]
        /\ mapping' = {p \in mapping : p[1] # add[m].id} \cup {<<add[m].id, m>>}
        /\ UNCHANGED <<embedding, next, index, file, delete, early>>
    BY <1>14 DEF MapRow
  <2>2. /\ add'[m].at = "saving" /\ add'[m].saves = add[m].saves
        /\ \A k \in Callers \ {m} : add'[k] = add[k]
        /\ add[m].id \in Nat
    BY <1>m, <1>t, <2>1 DEF AddState
  <2>3. Holds(index, add[m].id, m) /\ index # <<>>
    BY <1>i, <2>1
  <2>4. ~Clearing /\ ~Unreset
    BY <1>f, <2>3 DEF Positions, Clearing, Unreset
  <2>5. ~Clearing' /\ ~Unreset'
    BY <2>2, <2>4 DEF Clearing, Unreset
  <2>6. \A k \in Memories, i \in Nat : RowIs(k, i)' <=> RowIs(k, i)
    BY <2>1 DEF RowIs
  <2>7. m \in early \/ RowIs(m, add[m].id)
    BY <1>0, <1>f, <2>1 DEF Positions, Order
  <2>8. \A p \in mapping' : p[2] \in early' \/ RowIs(p[2], p[1])'
    BY <1>f, <1>t, <2>1, <2>2, <2>6, <2>7 DEF Positions
  <2>9. \A k \in Memories : add'[k].at \in {"inserting", "inserted"} => add'[k] = add[k]
    BY <1>m, <2>2
  <2>10. \A k \in Memories : add'[k].at = "inserted" /\ ~Gone(k)' => RowIs(k, add[k].id)'
    BY <1>f, <1>m, <1>t, <2>1, <2>6, <2>9 DEF Positions, Gone, AddState
  <2>11. next' = Len(index') /\ \A p \in mapping' : Holds(index', p[1], p[2])
    BY <1>f, <2>1, <2>3, <2>4 DEF Positions
  <2>12. \A k \in Indexed' : Holds(index', embedding'[k][1], k)
    BY <1>f, <2>1, <2>4 DEF Positions, Indexed, HasId
  <2>13. \A k \in Callers : add'[k].saves \in {<<>>, <<<<>>>>} /\ add'[k].at # "cleared"
    BY <1>s, <2>2, <2>5 DEF Clearing
  <2>14. \A k \in Memories : add'[k].at \in {"inserting", "inserted"} => Holds(index', add'[k].id, k)
    BY <1>i, <2>1, <2>9
  <2>15. Positions'
    BY <2>5, <2>8, <2>10, <2>11, <2>12, <2>13, <2>14 DEF Positions
  <2>16. Indexed' = Indexed
    BY <2>1 DEF Indexed, HasId
  <2> QED
    BY <1>f, <1>m, <2>1, <2>2, <2>15, <2>16 DEF Artifacts
<1>15. ASSUME NEW m \in Memories, UNCHANGED <<index, next, file, add>>, mapping' \subseteq mapping,
              \A k \in Memories : Gone(k) => Gone(k)',
              \A k \in Memories, i \in Nat : RowIs(k, i) /\ ~Gone(k)' => RowIs(k, i)',
              \A p \in mapping' : p[2] \in early \/ RowIs(p[2], p[1])',
              \A k \in Indexed' : k \in Indexed /\ embedding'[k] = embedding[k],
              early \subseteq early'
       PROVE  Positions'
  <2>1. Clearing => Clearing'
    BY <1>15 DEF Clearing
  <2>2. \A k \in Memories : add'[k].at = "inserted" /\ ~Gone(k)' => RowIs(k, add[k].id)'
    BY <1>f, <1>m, <1>t, <1>15 DEF Positions, AddState
  <2>3. \A p \in mapping' : p[2] \in early' \/ RowIs(p[2], p[1])'
    BY <1>15
  <2> QED
    BY <1>0, <1>f, <1>s, <1>15, <2>1, <2>2, <2>3, IndexKept
<1>16. ASSUME NEW m \in Memories, SelectRow(m) PROVE Positions' /\ Artifacts'
  <2>1. /\ delete[m].at = "none" /\ delete' = [delete EXCEPT ![m] = [at |-> "selected", id |-> embedding[m]]]
        /\ UNCHANGED <<embedding, mapping, next, index, file, add, early>>
    BY <1>16 DEF SelectRow
  <2>2. delete'[m] = [at |-> "selected", id |-> embedding[m]] /\ \A k \in Memories \ {m} : delete'[k] = delete[k]
    BY <1>t, <2>1
  <2>3. \A k \in Memories, i \in Nat : RowIs(k, i) => RowIs(k, i)'
    BY <2>1, <2>2 DEF RowIs
  <2>4. Indexed' = Indexed
    BY <2>1 DEF Indexed, HasId
  <2>5. \A k \in Memories : Gone(k) => Gone(k)'
    BY <2>1, <2>2 DEF Gone
  <2>6. \A p \in mapping' : p[2] \in early \/ RowIs(p[2], p[1])'
    BY <1>f, <1>t, <2>1, <2>3 DEF Positions
  <2>7. Positions'
    BY <1>15, <2>1, <2>3, <2>4, <2>5, <2>6
  <2> QED
    BY <1>f, <2>1, <2>2, <2>4, <2>7 DEF Artifacts
<1>17. ASSUME NEW m \in Memories, DeleteRow(m) PROVE Positions' /\ Artifacts'
  <2>1. /\ delete[m].at = "selected" /\ delete' = [delete EXCEPT ![m].at = "deleted"]
        /\ embedding' = [embedding EXCEPT ![m] = <<>>] /\ early \subseteq early'
        /\ UNCHANGED <<mapping, next, index, file, add>>
    BY <1>17 DEF DeleteRow
  <2>2. /\ delete'[m] = [at |-> "deleted", id |-> delete[m].id] /\ \A k \in Memories \ {m} : delete'[k] = delete[k]
        /\ embedding'[m] = <<>> /\ \A k \in Memories \ {m} : embedding'[k] = embedding[k]
    BY <1>t, <2>1 DEF DeleteState
  <2>3. \A k \in Memories, i \in Nat : RowIs(k, i) => RowIs(k, i)'
    BY <2>1, <2>2 DEF RowIs
  <2>4. \A k \in Indexed' : k \in Indexed /\ embedding'[k] = embedding[k]
    BY <2>2 DEF Indexed, HasId
  <2>5. \A k \in Memories : Gone(k) => Gone(k)'
    BY <2>1, <2>2 DEF Gone
  <2>6. \A p \in mapping' : p[2] \in early \/ RowIs(p[2], p[1])'
    BY <1>f, <1>t, <2>1, <2>3 DEF Positions
  <2>7. Positions'
    BY <1>15, <2>1, <2>3, <2>4, <2>5, <2>6
  <2> QED
    BY <1>f, <2>1, <2>2, <2>7 DEF Artifacts
<1>18. ASSUME NEW m \in Memories, Unmap(m) PROVE Positions' /\ Artifacts'
  <2> DEFINE at == IF Indexed = {} THEN "empty" ELSE "done"
  <2>1. /\ delete[m].at = "deleted" /\ delete' = [delete EXCEPT ![m] = [at |-> at, id |-> <<>>]]
        /\ mapping' = {p \in mapping : <<p[1]>> # delete[m].id}
        /\ UNCHANGED <<embedding, next, index, file, add, early>>
    BY <1>18 DEF Unmap
  <2>2. /\ delete'[m] = [at |-> at, id |-> <<>>] /\ \A k \in Memories \ {m} : delete'[k] = delete[k]
        /\ embedding[m] = <<>>
    BY <1>0, <1>t, <2>1 DEF Order, Gone
  <2>3. \A k \in Memories, i \in Nat : RowIs(k, i) /\ k # m => RowIs(k, i)'
    BY <2>1, <2>2 DEF RowIs
  <2>4. Indexed' = Indexed /\ \A k \in Indexed' : k \in Indexed /\ embedding'[k] = embedding[k]
    BY <2>1 DEF Indexed, HasId
  <2>5. Gone(m)' /\ \A k \in Memories : Gone(k) => Gone(k)'
    BY <2>1, <2>2 DEF Gone
  <2>6. ASSUME NEW p \in mapping' PROVE p[2] \in early \/ RowIs(p[2], p[1])'
    <3>1. p \in mapping /\ <<p[1]>> # delete[m].id /\ p[1] \in Nat /\ p[2] \in Memories
      BY <1>t, <2>1
    <3>2. ASSUME p[2] = m, RowIs(m, p[1]) PROVE FALSE
      BY <2>1, <2>2, <3>1, <3>2 DEF RowIs
    <3> QED
      BY <1>f, <2>3, <3>1, <3>2 DEF Positions
  <2>7. Positions'
    <3>1. \A k \in Memories, i \in Nat : RowIs(k, i) /\ ~Gone(k)' => RowIs(k, i)'
      BY <2>3, <2>5
    <3>2. mapping' \subseteq mapping
      BY <2>1
    <3> QED
      BY <1>15, <2>1, <2>4, <2>5, <2>6, <3>1, <3>2
  <2> QED
    BY <1>f, <2>1, <2>2, <2>4, <2>7 DEF Artifacts
<1>19. CASE UNCHANGED vectorVars
  <2>1. UNCHANGED vectorVars
    BY <1>19
  <2>2. Positions' <=> Positions
    BY <2>1 DEF vectorVars, Positions, Clearing, Unreset, Holds, Gone, RowIs, Indexed, HasId
  <2>3. Artifacts' <=> Artifacts
    BY <2>1 DEF vectorVars, Artifacts, Indexed, HasId
  <2> QED
    BY <1>f, <2>2, <2>3
<1> QED
  BY <1>m, <1>1, <1>2, <1>3, <1>4, <1>5, <1>7, <1>8, <1>9, <1>10, <1>11, <1>12, <1>13, <1>14, <1>16,
     <1>17, <1>18, <1>19 DEF VectorNext

LEMMA VectorInitially == VectorInit => VectorInv
<1> SUFFICES ASSUME VectorInit PROVE VectorInv
  OBVIOUS
<1>1. /\ second \in BOOLEAN /\ embedding = [m \in Memories |-> <<>>] /\ file = <<>> /\ metadata = {}
      /\ index = <<>> /\ mapping = {} /\ next = 0
      /\ add = [c \in Callers |-> NoAdd] /\ delete = [m \in Memories |-> NoDelete]
      /\ stops = 0 /\ early = {} /\ flaw = FALSE /\ Memories \subseteq Callers
  BY DEF VectorInit, Callers
<1>2. NoAdd \in AddState /\ NoAdd.at = "none" /\ NoAdd.saves = <<>>
  BY DEF NoAdd, AddState
<1>3. NoDelete \in DeleteState /\ NoDelete.at = "none"
  BY DEF NoDelete, DeleteState, Embeddings
<1>4. \A m \in Memories : embedding[m] = <<>> /\ delete[m] = NoDelete
  BY <1>1
<1>5. \A c \in Callers : add[c] = NoAdd
  BY <1>1
<1>6. VectorTypes
  <2>1. \A m \in Memories : HasId(m) => embedding[m][1] <= 0
    BY <1>4 DEF HasId
  <2>2. 0 \in 0..MaxStops /\ 0 \in Nat
    BY VectorIndexAssumption
  <2>3. embedding \in [Memories -> Embeddings]
    <3>1. <<>> \in Embeddings
      BY DEF Embeddings
    <3> QED
      BY <1>1, <3>1
  <2>4. add \in [Callers -> AddState] /\ delete \in [Memories -> DeleteState]
    BY <1>1, <1>2, <1>3
  <2>5. file \in Seq(Memories) /\ index \in Seq(Memories)
    BY <1>1
  <2>6. /\ metadata \subseteq Spaces /\ mapping \subseteq Nat \X Memories /\ next \in Nat
        /\ stops \in 0..MaxStops /\ early \subseteq Memories /\ flaw \in BOOLEAN
    BY <1>1, <2>2
  <2>7. \E n \in Nat : \A m \in Memories : HasId(m) => embedding[m][1] <= n
    BY <2>1, <2>2
  <2> QED
    BY <1>1, <2>3, <2>4, <2>5, <2>6, <2>7 DEF VectorTypes
<1>7. Order
  BY <1>1, <1>2, <1>3, <1>4, <1>5 DEF Order, Gone
<1>8. Indexed = {}
  BY <1>4 DEF Indexed, HasId
<1>9. Positions /\ Artifacts
  BY <1>1, <1>2, <1>3, <1>4, <1>5, <1>8 DEF Positions, Artifacts, Clearing, Unreset
<1> QED
  BY <1>6, <1>7, <1>9 DEF VectorInv

LEMMA VectorTypesTyped == VectorTypes => VectorTypeOK
<1> SUFFICES ASSUME VectorTypes PROVE VectorTypeOK
  OBVIOUS
<1>1. \A m \in Memories : embedding[m] \in Seq(Nat \cup {-1}) /\ Len(embedding[m]) <= 1
  <2>1. ASSUME NEW m \in Memories PROVE embedding[m] \in Seq(Nat \cup {-1}) /\ Len(embedding[m]) <= 1
    <3>1. embedding[m] \in {<<>>, <<-1>>} \cup {<<i>> : i \in Nat}
      BY DEF VectorTypes, Embeddings, NoId
    <3>2. CASE embedding[m] = <<>>
      BY <3>2
    <3>3. CASE \E i \in Nat \cup {-1} : embedding[m] = <<i>>
      BY <3>3
    <3> QED
      BY <3>1, <3>2, <3>3
  <2> QED
    BY <2>1
<1>2. ASSUME NEW c \in Callers
      PROVE  add[c].saves \in Seq(Seq(Memories)) /\ Len(add[c].saves) <= 1
  <2>1. add[c].saves \in {<<>>} \cup {<<v>> : v \in Seq(Memories)}
    BY DEF VectorTypes, AddState
  <2>2. CASE add[c].saves = <<>>
    BY <2>2
  <2>3. CASE \E v \in Seq(Memories) : add[c].saves = <<v>>
    BY <2>3
  <2> QED
    BY <2>1, <2>2, <2>3
<1> QED
  BY <1>1, <1>2 DEF VectorTypes, VectorTypeOK, AddState, DeleteState

\* While there are vectors, every mapped memory is found at its position and nowhere
\* else, and none is mapped that was deleted after its addition mapped it, for every set
\* of memories and searches.
THEOREM ResolvedTheorem == VectorSpec => []ResolvedIsOwn
<1>1. VectorInv => ResolvedIsOwn
  <2> SUFFICES ASSUME VectorInv PROVE ResolvedIsOwn
    OBVIOUS
  <2>1. VectorTypes /\ Order /\ VectorTypeOK
    BY VectorTypesTyped DEF VectorInv
  <2>2. ASSUME ~flaw, NEW p \in mapping
        PROVE  /\ delete[p[2]].at = "done" => p[2] \in early
               /\ index # <<>> => p[1] < Len(index) /\ index[p[1] + 1] = p[2]
    <3>1. Positions /\ p[1] \in Nat /\ p[2] \in Memories
      BY <2>1, <2>2 DEF VectorInv, VectorTypes
    <3>2. ASSUME delete[p[2]].at = "done" PROVE p[2] \in early
      <4>1. embedding[p[2]] = <<>>
        BY <2>1, <3>1, <3>2 DEF Order, Gone
      <4>2. ~RowIs(p[2], p[1])
        BY <3>2, <4>1 DEF RowIs
      <4> QED
        BY <3>1, <4>2 DEF Positions
    <3>3. ASSUME index # <<>> PROVE p[1] < Len(index) /\ index[p[1] + 1] = p[2]
      <4>1. ~Unreset
        BY <3>1, <3>3 DEF Positions, Clearing, Unreset
      <4> QED
        BY <2>2, <3>1, <4>1 DEF Positions, Holds
    <3> QED
      BY <3>2, <3>3
  <2> QED
    BY <2>1, <2>2 DEF ResolvedIsOwn
<1>2. VectorInit => VectorInv
  BY VectorInitially
<1>3. VectorInv /\ [VectorNext]_vectorVars => VectorInv'
  BY VectorInvNext
<1> QED
  BY <1>1, <1>2, <1>3, PTL DEF VectorSpec

-----------------------------------------------------------------------------
(* The transcript: the inductive invariant *)

Write == [at : {"none", "sent", "indexed", "done"}, rev : SUBSET Revisions, time : Nat, index : Nat]

TranscriptTypes ==
  /\ state \in [Revisions -> {"unused", "stored", "deleted"}]
  /\ parent \in [Revisions -> SUBSET Revisions]
  /\ displayed \subseteq Stored
  /\ updated \in [Revisions -> Nat]
  /\ write \in [Writes -> Write]
  /\ stored \subseteq {w \in Writes : write[w].at = "done"}
  /\ head \subseteq Revisions /\ clock \in Nat /\ raced \in BOOLEAN
  /\ \A r \in Revisions : updated[r] <= clock
  /\ \A w \in Writes : write[w].time <= clock
  /\ \E n \in Nat : \A w \in Writes : write[w].index <= n

\* One revision is active when there are any.
OneActive == (Stored = {} /\ active = {}) \/ \E r \in Stored : active = {r}

\* At most one revision is worked on, and a revision has at most one parent, which was
\* stored before it.
Graph ==
  /\ \A r, o \in head : r = o
  /\ \A r \in Revisions, p \in Revisions : p \in parent[r] =>
       /\ parent[r] = {p} /\ p # r /\ r \notin parent[p]
       /\ state[r] # "unused" /\ state[p] # "unused"

TranscriptInv == TranscriptTypes /\ OneActive /\ Graph

-----------------------------------------------------------------------------
(* The transcript: the invariant is kept *)

\* What storing a revision changes.
Upserted(r, base, time) ==
  /\ state' \in [Revisions -> {"unused", "stored", "deleted"}] /\ Stored' = Stored \cup {r}
  /\ state'[r] = "stored" /\ \A o \in Revisions \ {r} : state'[o] = state[o]
  /\ parent' \in [Revisions -> SUBSET Revisions]
  /\ parent'[r] = (IF base # {} THEN base ELSE parent[r])
  /\ \A o \in Revisions \ {r} : parent'[o] = parent[o]
  /\ updated' \in [Revisions -> Nat] /\ updated'[r] = time
  /\ \A o \in Revisions \ {r} : updated'[o] = updated[o]
  /\ displayed' \subseteq displayed \cup {r}
  /\ active' = Activate(r)

LEMMA UpsertFacts ==
  ASSUME TranscriptTypes, NEW r \in Revisions, NEW base \in SUBSET Revisions,
         NEW time \in Nat, \E shows \in BOOLEAN : Upsert(r, base, shows, time)
  PROVE  Upserted(r, base, time)
<1>1. /\ state' \in [Revisions -> {"unused", "stored", "deleted"}]
      /\ state'[r] = "stored" /\ \A o \in Revisions \ {r} : state'[o] = state[o]
  BY DEF TranscriptTypes, Upsert
<1>2. Stored' = Stored \cup {r}
  BY <1>1 DEF Stored
<1>3. /\ parent' \in [Revisions -> SUBSET Revisions]
      /\ parent'[r] = (IF base # {} THEN base ELSE parent[r])
      /\ \A o \in Revisions \ {r} : parent'[o] = parent[o]
  BY DEF TranscriptTypes, Upsert
<1>4. /\ updated' \in [Revisions -> Nat] /\ updated'[r] = time
      /\ \A o \in Revisions \ {r} : updated'[o] = updated[o]
  BY DEF TranscriptTypes, Upsert
<1> QED
  BY <1>1, <1>2, <1>3, <1>4 DEF Upsert, Upserted

\* One revision is active after it too.
LEMMA UpsertKeepsOneActive ==
  ASSUME OneActive, NEW r \in Revisions, active' = Activate(r), Stored' = Stored \cup {r}
  PROVE  OneActive'
<1>1. CASE ChildIsActive(r)
  <2>1. PICK c \in active : c # r
    BY <1>1 DEF ChildIsActive
  <2>2. active = {c} /\ c \in Stored
    BY <2>1 DEF OneActive
  <2>3. active' = {c}
    BY <1>1, <2>1, <2>2 DEF Activate
  <2> QED
    BY <2>2, <2>3 DEF OneActive
<1>2. CASE ~ChildIsActive(r)
  BY <1>2 DEF Activate, OneActive
<1> QED
  BY <1>1, <1>2

\* The next index is greater than those of the events stored.
LEMMA NextIndexFacts ==
  TranscriptTypes => /\ NextIndex \in Nat \ {0} /\ \A v \in stored : write[v].index < NextIndex
<1> SUFFICES ASSUME TranscriptTypes
             PROVE  NextIndex \in Nat \ {0} /\ \A v \in stored : write[v].index < NextIndex
  OBVIOUS
<1> DEFINE Indices == {0} \cup {write[w].index : w \in stored}
<1>1. PICK n \in Nat : \A w \in Writes : write[w].index <= n
  BY DEF TranscriptTypes
<1>2. Indices \subseteq Nat /\ Indices # {} /\ \A x \in Indices : x <= n
  BY <1>1 DEF TranscriptTypes, Write
<1>3. \E x \in Indices : \A y \in Indices : x >= y
  <2>1. \E x \in Indices : \A y \in Indices : y <= x
    BY <1>1, <1>2, GreatestNat
  <2> QED
    BY <1>2, <2>1
<1>4. Max(Indices) \in Indices /\ \A y \in Indices : Max(Indices) >= y
  BY <1>3 DEF Max
<1>5. \A v \in stored : write[v].index \in Indices
  OBVIOUS
<1>6. NextIndex = 1 + Max(Indices)
  BY DEF NextIndex
<1> HIDE DEF Indices, NextIndex
<1>7. Max(Indices) \in Nat
  BY <1>2, <1>4
<1>8. \A y \in Indices : y \in Nat /\ y < 1 + Max(Indices)
  BY <1>2, <1>4, <1>7
<1> QED
  BY <1>5, <1>6, <1>7, <1>8

\* What the store commits, and what stays as it is.
LEMMA CommitFacts ==
  ASSUME TranscriptTypes, NEW w \in Writes, Commit(w)
  PROVE  \E r \in Revisions :
           /\ write[w].rev = {r} /\ write[w].time \in Nat /\ Upsert(r, {}, FALSE, write[w].time)
           /\ write[w].at \in {"sent", "indexed"} /\ write' = [write EXCEPT ![w].at = "done"]
           /\ (stored' = stored \/ stored' = stored \cup {w}) /\ UNCHANGED <<head, clock, raced>>
<1>1. PICK r \in Revisions : InsertEvent(w, r) \/ StoreCheckpoint(w, r)
  BY DEF Commit
<1>2. write[w].time \in Nat
  BY DEF TranscriptTypes, Write
<1> QED
  BY <1>1, <1>2 DEF InsertEvent, StoreCheckpoint

LEMMA TranscriptInitially == TranscriptsInit => TranscriptInv
<1> SUFFICES ASSUME TranscriptsInit PROVE TranscriptInv
  OBVIOUS
<1>1. Stored = {}
  BY DEF TranscriptsInit, Stored
<1>2. NotSent \in Write
  BY DEF NotSent, Write
<1>3. write \in [Writes -> Write] /\ \A w \in Writes : write[w].time = 0 /\ write[w].index = 0
  BY <1>2 DEF TranscriptsInit, NotSent
<1>4. \E n \in Nat : \A w \in Writes : write[w].index <= n
  BY <1>3
<1>5. TranscriptTypes
  <2>1. /\ state \in [Revisions -> {"unused", "stored", "deleted"}]
        /\ parent \in [Revisions -> SUBSET Revisions]
        /\ updated \in [Revisions -> Nat] /\ \A r \in Revisions : updated[r] <= clock
    BY DEF TranscriptsInit
  <2>2. /\ displayed = {} /\ stored = {} /\ head = {} /\ clock = 0 /\ raced = FALSE
    BY DEF TranscriptsInit
  <2>3. clock \in Nat /\ raced \in BOOLEAN /\ \A w \in Writes : write[w].time <= clock
    <3>1. raced \in BOOLEAN
      BY <2>2, Zenon
    <3>2. clock \in Nat /\ \A w \in Writes : write[w].time <= clock
      BY <1>3, <2>2
    <3> QED
      BY <3>1, <3>2, Zenon
  <2>4. displayed \subseteq Stored /\ head \subseteq Revisions /\ stored \subseteq {w \in Writes : write[w].at = "done"}
    BY <2>2
  <2> QED
    BY <1>3, <1>4, <2>1, <2>3, <2>4 DEF TranscriptTypes
<1> QED
  BY <1>1, <1>5 DEF TranscriptInv, OneActive, Graph, TranscriptsInit

LEMMA TranscriptTypesNext == TranscriptTypes /\ Graph /\ [TranscriptsNext]_transcriptsVars => TranscriptTypes'
<1> SUFFICES ASSUME TranscriptTypes, Graph, [TranscriptsNext]_transcriptsVars PROVE TranscriptTypes'
  OBVIOUS
<1>t. /\ state \in [Revisions -> {"unused", "stored", "deleted"}]
      /\ parent \in [Revisions -> SUBSET Revisions] /\ displayed \subseteq Stored /\ Stored \subseteq Revisions
      /\ updated \in [Revisions -> Nat] /\ write \in [Writes -> Write]
      /\ stored \subseteq {w \in Writes : write[w].at = "done"}
      /\ head \subseteq Revisions /\ clock \in Nat /\ raced \in BOOLEAN
      /\ \A r \in Revisions : updated[r] <= clock
      /\ \A w \in Writes : write[w] \in Write /\ write[w].time <= clock
  BY DEF TranscriptTypes, Stored
<1>n. PICK n \in Nat : \A w \in Writes : write[w].index <= n
  BY DEF TranscriptTypes
<1>1. ASSUME NEW h \in SUBSET Revisions, head' = h, UNCHANGED <<graph, write, stored, clock, raced>>
      PROVE  TranscriptTypes'
  BY <1>1, <1>t, <1>n DEF TranscriptTypes, graph, Stored
<1>2. ASSUME NEW w \in Writes, Emit(w) PROVE TranscriptTypes'
  <2> DEFINE new == [at |-> "sent", rev |-> head, time |-> clock + 1, index |-> 0]
  <2>1. /\ write[w].at = "none" /\ write' = [write EXCEPT ![w] = new] /\ clock' = clock + 1
        /\ UNCHANGED <<state, parent, active, updated, displayed, stored, head, raced>>
    BY <1>2 DEF Emit, graph
  <2>2. new \in Write
    BY <1>t DEF Write
  <2> HIDE DEF new
  <2>3. write' \in [Writes -> Write] /\ write'[w] = new /\ \A v \in Writes \ {w} : write'[v] = write[v]
    BY <1>t, <2>1, <2>2
  <2>4. \A v \in Writes : write'[v].time <= clock'
    BY <1>t, <2>1, <2>3 DEF Write, new
  <2>5. \A v \in Writes : write'[v].index <= n
    BY <1>n, <2>3 DEF new
  <2>6. stored' \subseteq {v \in Writes : write'[v].at = "done"}
    BY <1>t, <2>1, <2>3
  <2>7. clock' \in Nat /\ \A r \in Revisions : updated'[r] <= clock'
    BY <1>t, <2>1
  <2> QED
    BY <1>t, <2>1, <2>3, <2>4, <2>5, <2>6, <2>7 DEF TranscriptTypes, Stored
<1>3. CASE Replace
  <2>1. PICK r \in Revisions : Upsert(r, head, TRUE, clock + 1) /\ head' = {r}
    BY <1>3 DEF Replace
  <2>2. clock' = clock + 1 /\ UNCHANGED <<write, stored, raced>>
    BY <1>3 DEF Replace
  <2>3. /\ state' \in [Revisions -> {"unused", "stored", "deleted"}] /\ Stored' = Stored \cup {r}
        /\ parent' \in [Revisions -> SUBSET Revisions] /\ displayed' \subseteq displayed \cup {r}
        /\ updated' \in [Revisions -> Nat] /\ updated'[r] = clock + 1
        /\ \A o \in Revisions \ {r} : updated'[o] = updated[o]
    <3>1. head \in SUBSET Revisions /\ clock + 1 \in Nat
      BY <1>t
    <3>2. \E shows \in BOOLEAN : Upsert(r, head, shows, clock + 1)
      BY <2>1
    <3>3. Upserted(r, head, clock + 1)
      BY <2>1, <3>1, <3>2, UpsertFacts
    <3> QED
      BY <3>3 DEF Upserted
  <2>4. \A o \in Revisions : updated'[o] <= clock'
    BY <1>t, <2>2, <2>3
  <2>5. \A v \in Writes : write'[v].time <= clock'
    BY <1>t, <2>2 DEF Write
  <2> QED
    BY <1>n, <1>t, <2>1, <2>2, <2>3, <2>4, <2>5 DEF TranscriptTypes
<1>4. ASSUME NEW w \in Writes, ReadIndex(w) PROVE TranscriptTypes'
  <2>1. /\ write' = [write EXCEPT ![w].at = "indexed", ![w].index = NextIndex]
        /\ write[w].at = "sent" /\ UNCHANGED <<state, parent, active, updated, displayed, stored, head, clock>>
        /\ raced' \in BOOLEAN
    BY <1>4, <1>t DEF ReadIndex, graph
  <2>2. NextIndex \in Nat
    BY NextIndexFacts
  <2> HIDE DEF NextIndex
  <2>3. /\ write' \in [Writes -> Write] /\ write'[w].time = write[w].time /\ write'[w].index = NextIndex
        /\ \A v \in Writes \ {w} : write'[v] = write[v]
    BY <1>t, <2>1, <2>2 DEF Write
  <2>4. PICK k \in Nat : n <= k /\ NextIndex <= k
    BY <2>2
  <2>5. \A v \in Writes : write'[v].index <= k /\ write'[v].time <= clock'
    BY <1>n, <1>t, <2>1, <2>2, <2>3, <2>4 DEF Write
  <2>6. stored' \subseteq {v \in Writes : write'[v].at = "done"}
    BY <1>t, <2>1, <2>3
  <2> QED
    BY <1>t, <2>1, <2>3, <2>5, <2>6 DEF TranscriptTypes, Stored
<1>5. ASSUME NEW w \in Writes, Commit(w) PROVE TranscriptTypes'
  <2>1. PICK r \in Revisions :
          /\ write[w].time \in Nat /\ Upsert(r, {}, FALSE, write[w].time)
          /\ write' = [write EXCEPT ![w].at = "done"]
          /\ (stored' = stored \/ stored' = stored \cup {w}) /\ UNCHANGED <<head, clock, raced>>
    BY <1>5, CommitFacts
  <2>2. /\ state' \in [Revisions -> {"unused", "stored", "deleted"}] /\ Stored' = Stored \cup {r}
        /\ parent' \in [Revisions -> SUBSET Revisions] /\ displayed' = displayed
        /\ updated' \in [Revisions -> Nat] /\ updated'[r] = write[w].time
        /\ \A o \in Revisions \ {r} : updated'[o] = updated[o]
    <3>1. {} \in SUBSET Revisions
      OBVIOUS
    <3>2. \E shows \in BOOLEAN : Upsert(r, {}, shows, write[w].time)
      BY <2>1
    <3>3. displayed' = displayed
      BY <2>1 DEF Upsert
    <3>4. Upserted(r, {}, write[w].time)
      BY <2>1, <3>1, <3>2, UpsertFacts
    <3> QED
      BY <3>3, <3>4 DEF Upserted
  <2>3. /\ write' \in [Writes -> Write] /\ write'[w].at = "done"
        /\ \A v \in Writes : write'[v].time = write[v].time /\ write'[v].index = write[v].index
        /\ \A v \in Writes \ {w} : write'[v] = write[v]
    BY <1>t, <2>1 DEF Write
  <2>4. \A o \in Revisions : updated'[o] <= clock'
    BY <1>t, <2>1, <2>2
  <2>5. stored' \subseteq {v \in Writes : write'[v].at = "done"}
    BY <1>t, <2>1, <2>3
  <2>6. \A v \in Writes : write'[v].time <= clock' /\ write'[v].index <= n
    BY <1>n, <1>t, <2>1, <2>3
  <2> QED
    BY <1>t, <2>1, <2>2, <2>3, <2>4, <2>5, <2>6 DEF TranscriptTypes
<1>6. CASE DeleteConversation
  <2>1. /\ state' = [r \in Revisions |-> IF r \in Stored THEN "deleted" ELSE state[r]]
        /\ parent' = [r \in Revisions |-> {}] /\ displayed' = {} /\ updated' = [r \in Revisions |-> 0]
        /\ stored' = {} /\ head' = {} /\ UNCHANGED <<write, clock>> /\ raced' \in BOOLEAN
    BY <1>6, <1>t DEF DeleteConversation
  <2>2. state' \in [Revisions -> {"unused", "stored", "deleted"}]
    <3> HIDE DEF Stored
    <3> QED
      BY <1>t, <2>1
  <2>3. /\ parent' \in [Revisions -> SUBSET Revisions] /\ updated' \in [Revisions -> Nat]
        /\ \A r \in Revisions : updated'[r] <= clock'
    BY <1>t, <2>1
  <2> QED
    BY <1>n, <1>t, <2>1, <2>2, <2>3 DEF TranscriptTypes
<1>7. CASE UNCHANGED transcriptsVars
  BY <1>1, <1>7, <1>t DEF transcriptsVars, graph
<1>8. CASE StartConversation \/ Checkout
  <2>1. \E r \in Revisions : head' = {r}
    BY <1>8, <1>t DEF StartConversation, Checkout
  <2> QED
    BY <1>1, <1>8, <2>1 DEF StartConversation, Checkout
<1> QED
  BY <1>2, <1>3, <1>4, <1>5, <1>6, <1>7, <1>8 DEF TranscriptsNext

LEMMA TranscriptNext == TranscriptInv /\ [TranscriptsNext]_transcriptsVars => TranscriptInv'
<1> SUFFICES ASSUME TranscriptInv, [TranscriptsNext]_transcriptsVars PROVE OneActive' /\ Graph'
  BY TranscriptTypesNext DEF TranscriptInv
<1>0. TranscriptTypes /\ OneActive /\ Graph
  BY DEF TranscriptInv
<1>g. /\ \A r, o \in head : r = o
      /\ \A r \in Revisions, p \in Revisions : p \in parent[r] =>
           /\ parent[r] = {p} /\ p # r /\ r \notin parent[p]
           /\ state[r] # "unused" /\ state[p] # "unused"
  BY <1>0 DEF Graph
<1>t. head \subseteq Revisions /\ Stored \subseteq Revisions
      /\ \A r \in Revisions : parent[r] \subseteq Revisions /\ (r \in Stored => state[r] = "stored")
  BY <1>0 DEF TranscriptTypes, Stored
<1>1. ASSUME UNCHANGED graph, head' = head \/ \E r \in Revisions : head' = {r}
      PROVE  OneActive' /\ Graph'
  BY <1>0, <1>1 DEF graph, OneActive, Graph, Stored
<1>2. CASE Replace
  <2>1. PICK r \in Revisions : Fresh(r) /\ Upsert(r, head, TRUE, clock + 1) /\ head' = {r}
    BY <1>2 DEF Replace
  <2>2. head \subseteq Stored /\ head # {} /\ state[r] = "unused"
    BY <1>2, <2>1 DEF Replace, Fresh
  <2>3. PICK h \in Stored : head = {h}
    BY <1>g, <2>2
  <2>4. h \in Revisions /\ h # r /\ state[h] = "stored"
    BY <1>t, <2>2, <2>3
  <2>5. /\ Stored' = Stored \cup {r} /\ state'[r] = "stored"
        /\ \A o \in Revisions \ {r} : state'[o] = state[o] /\ parent'[o] = parent[o]
        /\ parent'[r] = {h} /\ active' = Activate(r)
    <3>1. head \in SUBSET Revisions /\ clock + 1 \in Nat
      BY <1>0 DEF TranscriptTypes
    <3>2. \E shows \in BOOLEAN : Upsert(r, head, shows, clock + 1)
      BY <2>1
    <3>3. Upserted(r, head, clock + 1)
      BY <1>0, <2>1, <3>1, <3>2, UpsertFacts
    <3> QED
      BY <2>2, <2>3, <3>3 DEF Upserted
  <2>6. OneActive'
    BY <1>0, <2>5, UpsertKeepsOneActive
  <2>7. \A x \in Revisions : r \notin parent[x]
    BY <1>g, <2>2
  <2>8. ASSUME NEW x \in Revisions, NEW p \in Revisions, p \in parent'[x]
        PROVE  /\ parent'[x] = {p} /\ p # x /\ x \notin parent'[p]
               /\ state'[x] # "unused" /\ state'[p] # "unused"
    <3>1. CASE x = r
      <4>1. p = h
        BY <2>5, <2>8, <3>1
      <4>2. parent'[p] = parent[h]
        BY <2>4, <2>5, <4>1
      <4> QED
        BY <2>4, <2>5, <2>7, <3>1, <4>1, <4>2
    <3>2. CASE x # r
      <4>1. p \in parent[x] /\ p # r
        BY <2>5, <2>7, <2>8, <3>2
      <4> QED
        BY <1>g, <2>5, <3>2, <4>1
    <3> QED
      BY <3>1, <3>2
  <2>9. Graph'
    BY <2>1, <2>8 DEF Graph
  <2> QED
    BY <2>6, <2>9
<1>3. ASSUME NEW w \in Writes, Commit(w) PROVE OneActive' /\ Graph'
  <2>1. PICK r \in Revisions :
          write[w].time \in Nat /\ Upsert(r, {}, FALSE, write[w].time) /\ head' = head
    BY <1>0, <1>3, CommitFacts
  <2>2. /\ Stored' = Stored \cup {r} /\ state'[r] = "stored"
        /\ \A o \in Revisions \ {r} : state'[o] = state[o]
        /\ \A o \in Revisions : parent'[o] = parent[o]
        /\ active' = Activate(r)
    <3>1. {} \in SUBSET Revisions
      OBVIOUS
    <3>2. \E shows \in BOOLEAN : Upsert(r, {}, shows, write[w].time)
      BY <2>1
    <3>3. Upserted(r, {}, write[w].time)
      BY <1>0, <2>1, <3>1, <3>2, UpsertFacts
    <3> QED
      BY <3>3 DEF Upserted
  <2>3. OneActive'
    BY <1>0, <2>2, UpsertKeepsOneActive
  <2>4. Graph'
    BY <1>g, <2>1, <2>2 DEF Graph
  <2> QED
    BY <2>3, <2>4
<1>4. CASE DeleteConversation
  <2>1. /\ Stored' = {} /\ active' = {} /\ head' = {} /\ \A r \in Revisions : parent'[r] = {}
    BY <1>4 DEF DeleteConversation, Stored
  <2> QED
    BY <2>1 DEF OneActive, Graph
<1>5. CASE StartConversation \/ Checkout
  <2>1. \E r \in Revisions : head' = {r}
    BY <1>0, <1>5 DEF StartConversation, Checkout, TranscriptTypes, Stored
  <2> QED
    BY <1>1, <1>5, <2>1 DEF StartConversation, Checkout
<1>6. ASSUME NEW w \in Writes, Emit(w) \/ ReadIndex(w) PROVE OneActive' /\ Graph'
  BY <1>1, <1>6 DEF Emit, ReadIndex
<1>7. CASE UNCHANGED transcriptsVars
  BY <1>1, <1>7 DEF transcriptsVars, graph
<1> QED
  BY <1>2, <1>3, <1>4, <1>5, <1>6, <1>7 DEF TranscriptsNext

THEOREM TranscriptInvariant == TranscriptsSpec => []TranscriptInv
BY TranscriptInitially, TranscriptNext, PTL DEF TranscriptsSpec

\* Of revisions whose times are bounded one is current.
LEMMA SomeIsCurrent ==
  ASSUME TranscriptTypes, NEW rs \in SUBSET Revisions, rs # {}
  PROVE  CurrentAmong(rs) # {}
<1> DEFINE Ranks == {Rank(r) : r \in rs}
<1>1. \A r : Rank(r) \in 0..2
  BY DEF Rank
<1>2. Ranks \subseteq Nat /\ Ranks # {} /\ 2 \in Nat /\ \A x \in Ranks : x <= 2
  BY <1>1
<1>3. PICK top \in Ranks : \A y \in Ranks : y <= top
  BY <1>2, GreatestNat
<1> DEFINE Best == {r \in rs : Rank(r) = top}
           Times == {updated[r] : r \in Best}
<1>4. Best # {} /\ \A r \in rs : Rank(r) \in Nat /\ Rank(r) <= top
  BY <1>1, <1>3
<1>5. \A r \in rs : updated[r] \in Nat /\ updated[r] <= clock /\ clock \in Nat
  BY DEF TranscriptTypes
<1> HIDE DEF Ranks
<1>6. Times \subseteq Nat /\ Times # {} /\ clock \in Nat /\ \A x \in Times : x <= clock
  BY <1>4, <1>5 DEF TranscriptTypes
<1>7. PICK last \in Times : \A y \in Times : y <= last
  BY <1>6, GreatestNat
<1>8. PICK r \in Best : updated[r] = last
  BY <1>7
<1>9. ASSUME NEW o \in rs
      PROVE  Rank(o) < Rank(r) \/ (Rank(o) = Rank(r) /\ updated[o] <= updated[r])
  <2>1. CASE Rank(o) = top
    BY <1>7, <1>8, <2>1
  <2>2. CASE Rank(o) # top
    <3>1. Rank(o) <= top /\ Rank(r) = top /\ Rank(o) \in Nat /\ top \in Nat
      BY <1>2, <1>3, <1>4, <1>8
    <3> QED
      BY <2>2, <3>1
  <2> QED
    BY <2>1, <2>2
<1>10. r \in CurrentAmong(rs)
  BY <1>8, <1>9 DEF CurrentAmong
<1> QED
  BY <1>10

\* A conversation with revisions has exactly one active revision and one current one,
\* whatever order the writes reach the store in; and the state is well typed.
\* (_upsert_revision_node, _select_current_revision_node)
THEOREM OneHeadTheorem == TranscriptsSpec => [](TranscriptsTypeOK /\ OneHead)
<1>1. ASSUME TranscriptInv PROVE TranscriptsTypeOK /\ OneHead
  <2>1. TranscriptTypes /\ OneActive
    BY <1>1 DEF TranscriptInv
  <2>2. TranscriptsTypeOK
    BY <2>1 DEF TranscriptTypes, TranscriptsTypeOK, OneActive, Write
  <2>3. ASSUME Stored # {} PROVE Cardinality(active) = 1
    <3>1. PICK r \in Stored : active = {r}
      BY <2>1, <2>3 DEF OneActive
    <3> QED
      BY <3>1, FS_Singleton
  <2>4. Stored \subseteq Revisions /\ displayed \subseteq Stored
    BY <2>1 DEF TranscriptTypes, Stored
  <2>5. (Stored # {} => Current # {}) /\ (displayed # {} => CurrentDisplay # {})
    BY <2>1, <2>4, SomeIsCurrent DEF Current, CurrentDisplay
  <2> QED
    BY <2>2, <2>3, <2>5 DEF OneHead
<1> QED
  BY <1>1, TranscriptInvariant, PTL

\* Adding a revision that another one outranks, or giving it another time, leaves the
\* same ones current.
Best(rs, rank, time) ==
  {x \in rs : \A o \in rs : \/ rank[o] < rank[x]
                            \/ rank[o] = rank[x] /\ time[o] <= time[x]}

LEMMA OutrankedIsInert ==
  ASSUME NEW rs \in SUBSET Revisions, NEW r \in Revisions, NEW c \in rs, c # r,
         NEW rank \in [Revisions -> 0..2], rank[r] < rank[c], NEW time, NEW time2,
         \A o \in Revisions \ {r} : time2[o] = time[o], NEW more, more = rs \cup {r} \/ more = rs
  PROVE  Best(more, rank, time2) = Best(rs, rank, time)
<1>1. ASSUME NEW x \in Best(rs, rank, time) PROVE x \in Best(more, rank, time2)
  <2>1. x \in rs /\ \A o \in rs : rank[o] < rank[x] \/ (rank[o] = rank[x] /\ time[o] <= time[x])
    BY DEF Best
  <2>2. rank[r] < rank[x] /\ x # r
    <3>1. rank[c] <= rank[x] /\ rank[c] \in 0..2 /\ rank[x] \in 0..2 /\ rank[r] \in 0..2
      BY <2>1
    <3> QED
      BY <3>1
  <2>3. ASSUME NEW o \in more PROVE rank[o] < rank[x] \/ (rank[o] = rank[x] /\ time2[o] <= time2[x])
    BY <2>1, <2>2
  <2> QED
    BY <2>1, <2>3 DEF Best
<1>2. ASSUME NEW x \in Best(more, rank, time2) PROVE x \in Best(rs, rank, time)
  <2>1. x \in more /\ \A o \in more : rank[o] < rank[x] \/ (rank[o] = rank[x] /\ time2[o] <= time2[x])
    BY DEF Best
  <2>2. x # r
    <3>1. rank[c] <= rank[x] /\ rank[c] \in 0..2 /\ rank[x] \in 0..2 /\ rank[r] \in 0..2
      BY <2>1
    <3> QED
      BY <3>1
  <2>3. x \in rs /\ x \in Revisions \ {r}
    BY <2>1, <2>2
  <2>4. ASSUME NEW o \in rs PROVE rank[o] < rank[x] \/ (rank[o] = rank[x] /\ time[o] <= time[x])
    <3>1. CASE o = r
      <4>1. rank[c] <= rank[x] /\ rank[c] \in 0..2 /\ rank[x] \in 0..2 /\ rank[r] \in 0..2
        BY <2>1
      <4> QED
        BY <3>1, <4>1
    <3>2. CASE o # r
      BY <2>1, <2>3, <3>2
    <3> QED
      BY <3>1, <3>2
  <2> QED
    BY <2>3, <2>4 DEF Best
<1> QED
  BY <1>1, <1>2

\* A write of the revision whose child is worked on and active, however late it is,
\* leaves the active and the current revision as they are.  (_upsert_revision_node,
\* _revision_branch_order_expression)
THEOREM ParentWriteTheorem == TranscriptsSpec => ParentWriteIsInert
<1> DEFINE Inert == \A w \in Writes :
              Late(w) /\ Commit(w) /\ head \subseteq active /\ (\E c \in head : parent[c] = write[w].rev)
              => Current' = Current /\ active' = active
<1>1. TranscriptInv /\ [TranscriptsNext]_transcriptsVars => [Inert]_transcriptsVars
  <2> SUFFICES ASSUME TranscriptInv, NEW w \in Writes, Late(w), Commit(w), head \subseteq active,
                      NEW c \in head, parent[c] = write[w].rev
               PROVE  Current' = Current /\ active' = active
    OBVIOUS
  <2>0. TranscriptTypes /\ OneActive /\ Graph
    BY DEF TranscriptInv
  <2>1. PICK r \in Revisions :
          write[w].rev = {r} /\ write[w].time \in Nat /\ Upsert(r, {}, FALSE, write[w].time)
    BY <2>0, CommitFacts
  <2>2. Upserted(r, {}, write[w].time) /\ displayed' = displayed
    <3>1. {} \in SUBSET Revisions
      OBVIOUS
    <3>2. \E shows \in BOOLEAN : Upsert(r, {}, shows, write[w].time)
      BY <2>1
    <3>3. Upserted(r, {}, write[w].time)
      BY <2>0, <2>1, <3>1, <3>2, UpsertFacts
    <3> QED
      BY <2>1, <3>3 DEF Upsert
  <2>3. active = {c} /\ head = {c} /\ c \in Stored /\ c \in Revisions
    BY <2>0 DEF OneActive, Stored
  <2>4. r # c /\ parent[c] = {r} /\ c \notin parent[r]
    BY <2>0, <2>1, <2>3 DEF Late, Graph
  <2>5. active' = active
    <3>1. ChildIsActive(r)
      BY <2>3, <2>4 DEF ChildIsActive
    <3> QED
      BY <2>2, <2>3, <2>4, <3>1 DEF Upserted, Activate
  <2>6. /\ \A o \in Revisions : parent'[o] = parent[o]
        /\ \A o \in Revisions \ {r} : updated'[o] = updated[o]
        /\ Stored' = Stored \cup {r} /\ Stored \in SUBSET Revisions
    BY <2>2 DEF Upserted, Stored
  <2> DEFINE rank == [o \in Revisions |-> Rank(o)]
  <2>7. rank \in [Revisions -> 0..2]
    BY DEF Rank
  <2>8. rank[r] < rank[c]
    <3>1. Rank(r) = 0
      BY <2>0, <2>1, <2>3, <2>4 DEF Rank, TranscriptTypes
    <3>2. Rank(c) = 1
      BY <2>3, <2>4 DEF Rank
    <3> QED
      BY <2>3, <3>1, <3>2
  <2>9. \A o \in Revisions : Rank(o)' = rank[o] /\ Rank(o) = rank[o]
    BY <2>5, <2>6 DEF Rank
  <2> HIDE DEF rank
  <2>10. Current = Best(Stored, rank, updated)
    BY <2>6, <2>9 DEF Current, CurrentAmong, Best
  <2>11. Current' = Best(Stored \cup {r}, rank, updated')
    <3>1. Stored \cup {r} \subseteq Revisions
      BY <2>6
    <3> QED
      BY <2>6, <2>9, <3>1 DEF Current, CurrentAmong, Best
  <2>12. Best(Stored \cup {r}, rank, updated') = Best(Stored, rank, updated)
    BY <2>3, <2>4, <2>6, <2>7, <2>8, OutrankedIsInert
  <2> QED
    BY <2>5, <2>10, <2>11, <2>12
<1>2. TranscriptsSpec => [][Inert]_transcriptsVars
  BY <1>1, TranscriptInvariant, PTL DEF TranscriptsSpec
<1> QED
  BY <1>2 DEF ParentWriteIsInert

-----------------------------------------------------------------------------
(* The transcript page by page: the rows that come first *)

\* Elements in the order of their places, no two in the same place, and the k that come
\* first.
Placed(S, pos) ==
  IsFiniteSet(S) /\ \A v, w \in S : pos[v] \in Nat /\ (pos[v] = pos[w] => v = w)

Below(S, pos, w) == {v \in S : pos[v] < pos[w]}

Lowest(S, pos, k) == {w \in S : Cardinality(Below(S, pos, w)) < k}

LEMMA BelowFacts ==
  ASSUME NEW S, NEW pos, Placed(S, pos)
  PROVE  \A w \in S : /\ IsFiniteSet(Below(S, pos, w)) /\ Cardinality(Below(S, pos, w)) \in Nat
                      /\ \A v \in S : pos[v] < pos[w] =>
                           /\ Below(S, pos, v) \subseteq Below(S, pos, w)
                           /\ Cardinality(Below(S, pos, v)) < Cardinality(Below(S, pos, w))
<1> SUFFICES ASSUME NEW w \in S
             PROVE  /\ IsFiniteSet(Below(S, pos, w)) /\ Cardinality(Below(S, pos, w)) \in Nat
                    /\ \A v \in S : pos[v] < pos[w] =>
                         /\ Below(S, pos, v) \subseteq Below(S, pos, w)
                         /\ Cardinality(Below(S, pos, v)) < Cardinality(Below(S, pos, w))
  OBVIOUS
<1>1. \A v \in S : /\ Below(S, pos, v) \in SUBSET S /\ IsFiniteSet(Below(S, pos, v))
                   /\ Cardinality(Below(S, pos, v)) \in Nat
  <2> TAKE v \in S
  <2>1. Below(S, pos, v) \in SUBSET S /\ IsFiniteSet(S)
    BY DEF Below, Placed
  <2> QED
    BY <2>1, FS_Subset, FS_CardinalityType
<1>2. ASSUME NEW v \in S, pos[v] < pos[w]
      PROVE  /\ Below(S, pos, v) \subseteq Below(S, pos, w)
             /\ Cardinality(Below(S, pos, v)) < Cardinality(Below(S, pos, w))
  <2>1. pos[v] \in Nat /\ pos[w] \in Nat /\ \A u \in S : pos[u] \in Nat
    BY DEF Placed
  <2>2. Below(S, pos, v) \subseteq Below(S, pos, w)
    BY <1>2, <2>1 DEF Below
  <2>3. v \in Below(S, pos, w) /\ v \notin Below(S, pos, v)
    BY <1>2, <2>1 DEF Below
  <2>4. Below(S, pos, v) \in SUBSET Below(S, pos, w) /\ Below(S, pos, v) # Below(S, pos, w)
    BY <2>2, <2>3
  <2>5. /\ Cardinality(Below(S, pos, v)) <= Cardinality(Below(S, pos, w))
        /\ Cardinality(Below(S, pos, v)) # Cardinality(Below(S, pos, w))
    BY <1>1, <2>4, FS_Subset
  <2>6. Cardinality(Below(S, pos, v)) \in Nat /\ Cardinality(Below(S, pos, w)) \in Nat
    BY <1>1
  <2> QED
    BY <2>2, <2>5, <2>6
<1> QED
  BY <1>1, <1>2

\* What comes before one of the first k is one of them.
LEMMA LowestDown ==
  ASSUME NEW S, NEW pos, Placed(S, pos), NEW k \in Nat
  PROVE  \A w \in Lowest(S, pos, k), v \in S : pos[v] < pos[w] => v \in Lowest(S, pos, k)
<1> SUFFICES ASSUME NEW w \in S, Cardinality(Below(S, pos, w)) < k, NEW v \in S, pos[v] < pos[w]
             PROVE  Cardinality(Below(S, pos, v)) < k
  BY DEF Lowest
<1>1. Cardinality(Below(S, pos, v)) < Cardinality(Below(S, pos, w))
  BY BelowFacts
<1>2. Cardinality(Below(S, pos, v)) \in Nat /\ Cardinality(Below(S, pos, w)) \in Nat
  BY BelowFacts
<1> QED
  BY <1>1, <1>2

\* An element that comes first among some of them.
LEMMA FirstOf ==
  ASSUME NEW S, NEW pos, Placed(S, pos), NEW R, R \subseteq S, R # {}
  PROVE  \E m \in R : \A w \in R : w = m \/ pos[m] < pos[w]
<1> DEFINE Places == {pos[w] : w \in R}
<1>1. Places \subseteq Nat /\ Places # {}
  BY DEF Placed
<1> HIDE DEF Places
<1>2. PICK x \in Places : \A y \in Places : x <= y
  BY <1>1, LeastNat
<1>3. PICK m \in R : pos[m] = x
  BY DEF Places
<1>4. ASSUME NEW w \in R PROVE w = m \/ pos[m] < pos[w]
  <2>1. pos[w] \in Places
    BY DEF Places
  <2>2. x <= pos[w] /\ x \in Nat /\ pos[w] \in Nat
    BY <1>1, <1>2, <2>1
  <2>3. pos[w] = x => w = m
    BY <1>3 DEF Placed
  <2> QED
    BY <1>3, <2>2, <2>3
<1> QED
  BY <1>4

\* The first k are k, unless there are fewer.
LEMMA LowestCount ==
  ASSUME NEW S, NEW pos, Placed(S, pos), NEW k \in Nat
  PROVE  Lowest(S, pos, k) = S \/ Cardinality(Lowest(S, pos, k)) = k
<1> DEFINE Full(n) == Lowest(S, pos, n) = S \/ Cardinality(Lowest(S, pos, n)) = n
           T == {n \in Nat : ~Full(n)}
<1>1. SUFFICES ASSUME T # {} PROVE FALSE
  OBVIOUS
<1>2. PICK n \in T : \A y \in T : n <= y
  <2>1. T \subseteq Nat
    OBVIOUS
  <2> HIDE DEF T
  <2> QED
    BY <1>1, <2>1, LeastNat
<1>3. n \in Nat /\ ~Full(n)
  OBVIOUS
<1>4. n # 0
  <2> SUFFICES ASSUME n = 0 PROVE Full(n)
    BY <1>3
  <2>1. \A w \in S : ~(Cardinality(Below(S, pos, w)) < 0)
    BY BelowFacts
  <2>2. Lowest(S, pos, 0) = {}
    BY <2>1 DEF Lowest
  <2> QED
    BY <2>2, FS_EmptySet
<1> DEFINE F == Lowest(S, pos, n - 1)
<1>5. n - 1 \in Nat /\ n - 1 < n /\ Full(n - 1)
  <2>1. n - 1 \in Nat /\ ~(n <= n - 1)
    BY <1>3, <1>4
  <2>2. n - 1 \notin T
    BY <1>2, <2>1
  <2> QED
    BY <2>1, <2>2
<1>6. F \subseteq S /\ F \subseteq Lowest(S, pos, n)
  <2>1. ASSUME NEW w \in F PROVE w \in Lowest(S, pos, n)
    <3>1. w \in S /\ Cardinality(Below(S, pos, w)) < n - 1 /\ Cardinality(Below(S, pos, w)) \in Nat
      BY <2>1, BelowFacts DEF Lowest
    <3>2. Cardinality(Below(S, pos, w)) < n
      BY <1>3, <3>1
    <3> QED
      BY <3>1, <3>2 DEF Lowest
  <2> QED
    BY <2>1 DEF Lowest
<1>7. F # S /\ Cardinality(F) = n - 1
  <2>1. F # S
    <3> SUFFICES ASSUME F = S PROVE Full(n)
      BY <1>3
    <3>1. Lowest(S, pos, n) \subseteq S
      BY DEF Lowest
    <3> QED
      BY <1>6, <3>1
  <2> QED
    BY <1>5, <2>1
<1>8. PICK m \in S \ F : \A w \in S \ F : w = m \/ pos[m] < pos[w]
  <2>1. S \ F \subseteq S /\ S \ F # {}
    BY <1>6, <1>7
  <2> QED
    BY <2>1, FirstOf
<1>9. Below(S, pos, m) = F
  <2>1. ASSUME NEW v \in Below(S, pos, m) PROVE v \in F
    <3>1. v \in S /\ pos[v] < pos[m] /\ pos[v] \in Nat /\ pos[m] \in Nat
      BY <2>1 DEF Below, Placed
    <3>2. ~(v = m \/ pos[m] < pos[v])
      BY <3>1
    <3> QED
      BY <1>8, <3>1, <3>2
  <2>2. ASSUME NEW v \in F PROVE v \in Below(S, pos, m)
    <3>1. v \in S /\ v # m /\ pos[v] \in Nat /\ pos[m] \in Nat /\ pos[v] # pos[m]
      BY <1>6, <1>8 DEF Placed
    <3>2. ~(pos[m] < pos[v])
      BY <1>5, <1>8, <3>1, LowestDown
    <3> QED
      BY <3>1, <3>2 DEF Below
  <2> QED
    BY <2>1, <2>2
<1>10. Lowest(S, pos, n) = F \cup {m}
  <2>1. m \in Lowest(S, pos, n)
    BY <1>3, <1>5, <1>7, <1>9 DEF Lowest
  <2>2. ASSUME NEW w \in Lowest(S, pos, n), w \notin F, w # m PROVE FALSE
    <3>1. w \in S /\ Cardinality(Below(S, pos, w)) < n /\ pos[m] < pos[w]
      BY <1>8, <2>2 DEF Lowest
    <3>2. Cardinality(Below(S, pos, m)) < Cardinality(Below(S, pos, w))
      BY <3>1, BelowFacts
    <3>3. Cardinality(Below(S, pos, w)) \in Nat /\ Cardinality(Below(S, pos, m)) = n - 1
      BY <1>7, <1>9, <3>1, BelowFacts
    <3> QED
      BY <1>3, <3>1, <3>2, <3>3
  <2> QED
    BY <1>6, <2>1, <2>2
<1>11. Cardinality(Lowest(S, pos, n)) = n
  <2>1. IsFiniteSet(F)
    BY <1>6, FS_Subset DEF Placed
  <2>2. Cardinality(F \cup {m}) = Cardinality(F) + 1
    BY <1>8, <2>1, FS_AddElement
  <2> QED
    BY <1>3, <1>7, <1>10, <2>2
<1> QED
  BY <1>3, <1>11

UpTo(S, pos, c) == {v \in S : pos[v] <= c}
Beyond(S, pos, c) == {v \in S : pos[v] > c}

\* The first a + p are the first a and the first p after them.
LEMMA LowestSplit ==
  ASSUME NEW S, NEW pos, Placed(S, pos), NEW a \in Nat, NEW p \in Nat, NEW c \in Nat,
         UpTo(S, pos, c) = Lowest(S, pos, a)
  PROVE  /\ Placed(Beyond(S, pos, c), pos)
         /\ Lowest(S, pos, a + p) = UpTo(S, pos, c) \cup Lowest(Beyond(S, pos, c), pos, p)
<1> DEFINE D == UpTo(S, pos, c)
           R == Beyond(S, pos, c)
<1>1. /\ \A v \in S : pos[v] \in Nat /\ (v \in D <=> pos[v] <= c) /\ (v \in R <=> pos[v] > c)
      /\ D \subseteq S /\ R \subseteq S /\ IsFiniteSet(S)
  BY DEF Placed, UpTo, Beyond
<1>2. /\ IsFiniteSet(D) /\ IsFiniteSet(R) /\ Placed(R, pos)
  <2>1. IsFiniteSet(D) /\ IsFiniteSet(R)
    BY <1>1, FS_Subset
  <2> QED
    BY <1>1, <2>1 DEF Placed
<1>3. D # S => Cardinality(D) = a
  BY LowestCount
<1>d. D = Lowest(S, pos, a)
  OBVIOUS
<1> HIDE DEF D, R
<1>4. ASSUME NEW w \in R PROVE w \in Lowest(S, pos, a + p) <=> w \in Lowest(R, pos, p)
  <2>1. w \in S /\ pos[w] > c /\ pos[w] \in Nat /\ w \notin D
    <3>1. w \in S /\ pos[w] > c /\ pos[w] \in Nat
      BY <1>1
    <3> QED
      BY <1>1, <3>1
  <2>2. Below(S, pos, w) = D \cup Below(R, pos, w)
    <3>1. ASSUME NEW v \in S PROVE pos[v] < pos[w] <=> (v \in D \/ (v \in R /\ pos[v] < pos[w]))
      BY <1>1, <2>1
    <3> QED
      BY <1>1, <3>1 DEF Below
  <2>3. D \cap Below(R, pos, w) = {}
    <3>1. ASSUME NEW v \in R PROVE v \notin D
      BY <1>1
    <3> QED
      BY <3>1 DEF Below
  <2>4. IsFiniteSet(Below(R, pos, w)) /\ Cardinality(Below(R, pos, w)) \in Nat
    BY <1>2, BelowFacts
  <2>5. Cardinality(D) = a
    BY <1>3, <2>1
  <2>6. Cardinality(Below(S, pos, w)) = a + Cardinality(Below(R, pos, w))
    <3>1. IsFiniteSet(D)
      BY <1>2
    <3>2. Cardinality(D \cup Below(R, pos, w))
            = Cardinality(D) + Cardinality(Below(R, pos, w)) - Cardinality(D \cap Below(R, pos, w))
      BY <2>4, <3>1, FS_Union
    <3>3. Cardinality(D \cap Below(R, pos, w)) = 0
      <4>1. Cardinality({}) = 0
        BY FS_EmptySet
      <4> QED
        BY <2>3, <4>1
    <3>4. Cardinality(Below(S, pos, w)) = Cardinality(D \cup Below(R, pos, w))
      BY <2>2, Zenon
    <3>5. Cardinality(D \cup Below(R, pos, w)) = a + Cardinality(Below(R, pos, w)) - 0
      BY <2>5, <3>2, <3>3, Zenon
    <3>6. \A y \in Nat : a + y - 0 = a + y
      OBVIOUS
    <3> QED
      BY <2>4, <3>4, <3>5, <3>6, Zenon
  <2>7. Cardinality(Below(S, pos, w)) < a + p <=> Cardinality(Below(R, pos, w)) < p
    BY <2>4, <2>6
  <2> QED
    BY <2>1, <2>7 DEF Lowest
<1>5. ASSUME NEW w \in D PROVE w \in Lowest(S, pos, a + p)
  <2>1. w \in S /\ Cardinality(Below(S, pos, w)) < a /\ Cardinality(Below(S, pos, w)) \in Nat
    BY <1>5, <1>d, BelowFacts DEF Lowest
  <2>2. Cardinality(Below(S, pos, w)) < a + p
    BY <2>1
  <2> QED
    BY <2>1, <2>2 DEF Lowest
<1>6. \A w \in S : w \in D \/ w \in R
  BY <1>1
<1>7. Lowest(S, pos, a + p) \subseteq S /\ Lowest(R, pos, p) \subseteq R
  BY DEF Lowest
<1> QED
  BY <1>2, <1>4, <1>5, <1>6, <1>7 DEF D, R

\* A page that is asked for after the first a elements ends with the first a + p: they
\* are those up to its last one.
LEMMA LowestPage ==
  ASSUME NEW S, NEW pos, Placed(S, pos), NEW a \in Nat, NEW p \in Nat \ {0}, NEW c \in Nat,
         UpTo(S, pos, c) = Lowest(S, pos, a),
         NEW P, P = Lowest(Beyond(S, pos, c), pos, p)
  PROVE  /\ P \subseteq S /\ Lowest(S, pos, a + p) = Lowest(S, pos, a) \cup P
         /\ P = {} => UpTo(S, pos, c) = Lowest(S, pos, a + p)
         /\ P # {} => \E e \in P : /\ \A v \in P : pos[v] <= pos[e]
                                   /\ UpTo(S, pos, pos[e]) = Lowest(S, pos, a + p)
<1> DEFINE D == UpTo(S, pos, c)
           R == Beyond(S, pos, c)
<1>1. Placed(R, pos) /\ Lowest(S, pos, a + p) = D \cup P /\ P \subseteq R /\ R \subseteq S
  <2>1. D = Lowest(S, pos, a) /\ p \in Nat
    OBVIOUS
  <2>2. Placed(R, pos) /\ Lowest(S, pos, a + p) = D \cup Lowest(R, pos, p)
    BY <2>1, LowestSplit
  <2> QED
    BY <2>2 DEF Lowest, Beyond
<1>2. \A v \in S : pos[v] \in Nat /\ (v \in D <=> pos[v] <= c) /\ (v \in R <=> pos[v] > c)
  BY DEF Placed, UpTo, Beyond
<1>3. ASSUME P # {}
      PROVE  \E e \in P : /\ \A v \in P : pos[v] <= pos[e]
                          /\ UpTo(S, pos, pos[e]) = D \cup P
  <2> DEFINE Places == {pos[v] : v \in P}
  <2>1. IsFiniteSet(P) /\ P \subseteq S
    BY <1>1, FS_Subset DEF Placed
  <2>2. PICK e \in P : \A v \in P : pos[v] <= pos[e]
    <3> DEFINE Above == [v \in S |-> Cardinality(Below(S, pos, v))]
               Counts == {Above[v] : v \in P}
    <3>1. Counts \subseteq Nat /\ Counts # {} /\ a + p \in Nat /\ \A x \in Counts : x <= a + p
      <4>1. ASSUME NEW v \in P PROVE Above[v] \in Nat /\ Above[v] <= a + p
        <5>1. v \in Lowest(S, pos, a + p) /\ v \in S
          BY <1>1
        <5>2. Cardinality(Below(S, pos, v)) < a + p /\ Cardinality(Below(S, pos, v)) \in Nat
          BY <5>1, BelowFacts DEF Lowest
        <5>3. Above[v] = Cardinality(Below(S, pos, v))
          BY <5>1
        <5> HIDE DEF Above
        <5> QED
          BY <5>2, <5>3
      <4> HIDE DEF Above
      <4> QED
        BY <1>3, <4>1
    <3>2. PICK x \in Counts : \A y \in Counts : y <= x
      <4> HIDE DEF Counts
      <4> QED
        BY <3>1, GreatestNat
    <3>3. PICK e \in P : Above[e] = x
      BY <3>2
    <3>4. ASSUME NEW v \in P, ~(pos[v] <= pos[e]) PROVE FALSE
      <4>1. v \in S /\ e \in S /\ pos[e] \in Nat /\ pos[v] \in Nat
        BY <1>2, <2>1
      <4>2. pos[e] < pos[v]
        BY <3>4, <4>1
      <4>3. Cardinality(Below(S, pos, e)) < Cardinality(Below(S, pos, v))
        BY <4>1, <4>2, BelowFacts
      <4>4. Above[e] < Above[v]
        BY <4>1, <4>3
      <4>5. Above[v] <= Above[e] /\ Above[v] \in Nat /\ Above[e] \in Nat
        <5> HIDE DEF Above
        <5> QED
          BY <3>1, <3>2, <3>3
      <4> HIDE DEF Above
      <4> QED
        BY <4>4, <4>5
    <3> QED
      BY <3>4
  <2>3. ASSUME NEW v \in S PROVE pos[v] <= pos[e] <=> v \in D \cup P
    <3>1. e \in R /\ e \in S /\ pos[e] \in Nat /\ pos[v] \in Nat /\ pos[e] > c
      BY <1>1, <1>2
    <3>2. v \in D => pos[v] <= pos[e]
      BY <1>2, <3>1
    <3>3. v \in P => pos[v] <= pos[e]
      BY <2>2
    <3>4. ASSUME pos[v] <= pos[e], v \notin D PROVE v \in P
      <4>1. v \in R
        BY <1>2, <3>1, <3>4
      <4>2. CASE pos[v] = pos[e]
        BY <3>1, <4>2 DEF Placed
      <4>3. CASE pos[v] # pos[e]
        <5>1. pos[v] < pos[e] /\ p \in Nat
          BY <3>1, <3>4, <4>3
        <5> HIDE DEF R
        <5>2. v \in Lowest(R, pos, p)
          <6>1. P = Lowest(R, pos, p)
            BY DEF R
          <6> QED
            BY <1>1, <4>1, <5>1, <6>1, LowestDown
        <5> QED
          BY <5>2 DEF R
      <4> QED
        BY <4>2, <4>3
    <3> QED
      BY <3>2, <3>3, <3>4
  <2>4. UpTo(S, pos, pos[e]) = D \cup P
    <3>1. D \cup P \subseteq S
      BY <2>1 DEF UpTo
    <3> HIDE DEF D
    <3> QED
      BY <2>3, <3>1 DEF UpTo
  <2> QED
    BY <2>2, <2>4
<1> QED
  BY <1>1, <1>3

-----------------------------------------------------------------------------
(* The transcript page by page: the indexes of its writes *)

Numbered == {w \in Writes : write[w].at = "indexed"}

\* The events stored are finitely many and have an index; without a race, at most one
\* write has read its index, which is greater than those of the events stored, and these
\* have an index each.
Indexing ==
  /\ IsFiniteSet(stored)
  /\ \A w \in stored \cup Numbered : write[w].index # 0
  /\ raced \/ ( /\ \A v, w \in Numbered : v = w
                /\ \A v \in stored, w \in Numbered : write[v].index < write[w].index
                /\ \A v, w \in stored : write[v].index = write[w].index => v = w )

LEMMA IndexingInitially == TranscriptsInit => Indexing
BY FS_EmptySet DEF TranscriptsInit, Indexing, Numbered, NotSent

LEMMA IndexingNext ==
  TranscriptTypes /\ Indexing /\ [TranscriptsNext]_transcriptsVars => Indexing'
<1> SUFFICES ASSUME TranscriptTypes, Indexing, [TranscriptsNext]_transcriptsVars PROVE Indexing'
  OBVIOUS
<1>t. /\ write \in [Writes -> Write] /\ raced \in BOOLEAN /\ Numbered \subseteq Writes
      /\ stored \subseteq {w \in Writes : write[w].at = "done"}
      /\ \A w \in Writes : write[w] \in Write /\ write[w].index \in Nat
  BY DEF TranscriptTypes, Write, Numbered
<1>i. /\ IsFiniteSet(stored)
      /\ \A w \in stored \cup Numbered : write[w].index # 0
      /\ ~raced => /\ \A v, w \in Numbered : v = w
                   /\ \A v \in stored, w \in Numbered : write[v].index < write[w].index
                   /\ \A v, w \in stored : write[v].index = write[w].index => v = w
  BY DEF Indexing
<1>1. ASSUME stored' = stored, raced' = raced, Numbered' = Numbered,
             \A w \in stored \cup Numbered : write'[w].index = write[w].index
      PROVE  Indexing'
  BY <1>1, <1>i DEF Indexing
<1>2. ASSUME UNCHANGED <<write, stored, raced>> PROVE Indexing'
  <2>1. Numbered' = Numbered
    BY <1>2 DEF Numbered
  <2> QED
    BY <1>1, <1>2, <2>1
<1>3. ASSUME NEW w \in Writes, Emit(w) PROVE Indexing'
  <2> DEFINE new == [at |-> "sent", rev |-> head, time |-> clock + 1, index |-> 0]
  <2>1. /\ write[w].at = "none" /\ write' = [write EXCEPT ![w] = new] /\ stored' = stored /\ raced' = raced
    BY <1>3 DEF Emit
  <2>2. write'[w].at = "sent" /\ \A v \in Writes \ {w} : write'[v] = write[v]
    BY <1>t, <2>1
  <2>3. Numbered' = Numbered /\ w \notin Numbered /\ w \notin stored
    <3>1. \A v \in Writes : write'[v].at = "indexed" <=> write[v].at = "indexed"
      BY <2>1, <2>2
    <3> QED
      BY <1>t, <2>1, <3>1 DEF Numbered
  <2> QED
    BY <1>1, <1>t, <2>1, <2>2, <2>3
<1>4. ASSUME NEW w \in Writes, ReadIndex(w) PROVE Indexing'
  <2> HIDE DEF NextIndex
  <2>1. /\ write[w].at = "sent" /\ stored' = stored
        /\ write' = [write EXCEPT ![w].at = "indexed", ![w].index = NextIndex]
        /\ raced' = (raced \/ Numbered # {})
    <3>1. raced' = (raced \/ \E o \in Writes : write[o].at = "indexed")
      BY <1>4 DEF ReadIndex
    <3>2. (\E o \in Writes : write[o].at = "indexed") <=> Numbered # {}
      BY DEF Numbered
    <3> QED
      BY <1>4, <3>1, <3>2 DEF ReadIndex
  <2>2. NextIndex \in Nat \ {0} /\ \A v \in stored : write[v].index < NextIndex
    BY NextIndexFacts
  <2>3. /\ write'[w].at = "indexed" /\ write'[w].index = NextIndex
        /\ \A v \in Writes \ {w} : write'[v] = write[v]
    BY <1>t, <2>1 DEF Write
  <2>4. Numbered' = Numbered \cup {w} /\ w \notin Numbered /\ w \notin stored
    <3>1. \A v \in Writes : write'[v].at = "indexed" <=> v = w \/ write[v].at = "indexed"
      BY <2>3
    <3> QED
      BY <1>t, <2>1, <3>1 DEF Numbered
  <2>5. \A v \in stored' \cup Numbered' : write'[v].index # 0
    BY <1>i, <1>t, <2>1, <2>2, <2>3, <2>4
  <2>6. ASSUME ~raced'
        PROVE  /\ \A u, v \in Numbered' : u = v
               /\ \A u \in stored', v \in Numbered' : write'[u].index < write'[v].index
               /\ \A u, v \in stored' : write'[u].index = write'[v].index => u = v
    <3>1. ~raced /\ Numbered' = {w}
      BY <2>1, <2>4, <2>6
    <3>2. \A u \in stored : u # w /\ write'[u] = write[u]
      BY <1>t, <2>3, <2>4
    <3>3. \A u, v \in Numbered' : u = v
      BY <3>1
    <3>4. \A u \in stored', v \in Numbered' : write'[u].index < write'[v].index
      BY <2>1, <2>2, <2>3, <3>1, <3>2
    <3>5. \A u, v \in stored' : write'[u].index = write'[v].index => u = v
      BY <1>i, <2>1, <3>1, <3>2
    <3> QED
      BY <3>3, <3>4, <3>5
  <2> QED
    BY <1>i, <2>1, <2>5, <2>6 DEF Indexing
<1>5. ASSUME NEW w \in Writes, Commit(w) PROVE Indexing'
  <2>1. /\ write' = [write EXCEPT ![w].at = "done"] /\ raced' = raced
        /\ \/ stored' = stored
           \/ w \in Numbered /\ stored' = stored \cup {w}
    BY <1>5 DEF Commit, InsertEvent, StoreCheckpoint, Numbered
  <2>2. /\ write'[w].at = "done" /\ \A v \in Writes : write'[v].index = write[v].index
        /\ \A v \in Writes \ {w} : write'[v] = write[v]
    BY <1>t, <2>1 DEF Write
  <2>3. Numbered' = Numbered \ {w}
    <3>1. \A v \in Writes : write'[v].at = "indexed" <=> v # w /\ write[v].at = "indexed"
      BY <2>2
    <3> QED
      BY <3>1 DEF Numbered
  <2>4. IsFiniteSet(stored')
    BY <1>i, <2>1, FS_AddElement
  <2>5. \A v \in stored' \cup Numbered' : write'[v].index # 0
    BY <1>i, <1>t, <2>1, <2>2, <2>3
  <2>6. ASSUME ~raced'
        PROVE  /\ \A u, v \in Numbered' : u = v
               /\ \A u \in stored', v \in Numbered' : write'[u].index < write'[v].index
               /\ \A u, v \in stored' : write'[u].index = write'[v].index => u = v
    <3>1. ~raced
      BY <2>1, <2>6
    <3>2. CASE stored' = stored
      BY <1>i, <1>t, <2>2, <2>3, <3>1, <3>2
    <3>3. CASE w \in Numbered /\ stored' = stored \cup {w}
      <4>1. Numbered' = {}
        BY <1>i, <2>3, <3>1, <3>3
      <4>2. \A v \in stored : write[v].index < write[w].index /\ write[v].index \in Nat /\ write[w].index \in Nat
        BY <1>i, <1>t, <3>1, <3>3
      <4>3. \A v \in stored : write[v].index # write[w].index
        BY <4>2
      <4> QED
        BY <1>i, <1>t, <2>2, <3>1, <3>3, <4>1, <4>3
    <3> QED
      BY <2>1, <3>2, <3>3
  <2> QED
    BY <2>4, <2>5, <2>6 DEF Indexing
<1>6. CASE DeleteConversation
  <2>1. /\ stored' = {} /\ write' = write /\ raced' = (raced \/ Numbered # {}) /\ Numbered' = Numbered
    <3>1. raced' = (raced \/ \E o \in Writes : write[o].at = "indexed")
      BY <1>6 DEF DeleteConversation
    <3>2. (\E o \in Writes : write[o].at = "indexed") <=> Numbered # {}
      BY DEF Numbered
    <3> QED
      BY <1>6, <3>1, <3>2 DEF DeleteConversation, Numbered
  <2>2. IsFiniteSet(stored')
    BY <2>1, FS_EmptySet
  <2> QED
    BY <1>i, <2>1, <2>2 DEF Indexing
<1>7. CASE StartConversation \/ Replace \/ Checkout \/ UNCHANGED transcriptsVars
  BY <1>2, <1>7 DEF StartConversation, Replace, Checkout, transcriptsVars
<1> QED
  BY <1>3, <1>4, <1>5, <1>6, <1>7 DEF TranscriptsNext

-----------------------------------------------------------------------------
(* The transcript page by page: what loadEvents reads *)

\* The place of a write in the transcript, and where the page after it ends.
Place == [w \in Writes |-> write[w].index]

Ends(c) == IF PageAfter(c) = {} THEN c ELSE LastIndex(PageAfter(c))

\* The cursors of loadEvents.
Paging(n, f) ==
  f = [i \in 0..n |-> IF i = 0 THEN 0
                      ELSE IF PageAfter(f[i - 1]) = {} THEN f[i - 1]
                      ELSE LastIndex(PageAfter(f[i - 1]))]

LEMMA LimitIsLowest ==
  ASSUME TranscriptTypes, Indexing, ~raced
  PROVE  /\ Placed(stored, Place)
         /\ \A rows \in SUBSET stored : \A k : Limit(rows, k) = Lowest(rows, Place, k)
<1>1. \A w \in stored : /\ w \in Writes /\ Place[w] = write[w].index
                        /\ write[w].index \in Nat /\ write[w].time \in Nat
  BY DEF TranscriptTypes, Write, Place
<1> HIDE DEF Place
<1>2. \A v, w \in stored : write[v].index = write[w].index => v = w
  BY DEF Indexing
<1>3. Placed(stored, Place)
  BY <1>1, <1>2 DEF Placed, Indexing
<1>4. \A v, w \in stored : Before(v, w) <=> Place[v] < Place[w]
  <2> TAKE v \in stored, w \in stored
  <2>1. CASE v = w
    <3>1. ~(write[v].time < write[w].time) /\ ~(write[v].index < write[w].index)
      BY <1>1, <2>1
    <3> QED
      BY <1>1, <3>1 DEF Before
  <2>2. CASE v # w
    <3>1. write[v].index # write[w].index
      BY <1>2, <2>2
    <3> QED
      BY <1>1, <3>1 DEF Before
  <2> QED
    BY <2>1, <2>2
<1>5. ASSUME NEW rows \in SUBSET stored, NEW k PROVE Limit(rows, k) = Lowest(rows, Place, k)
  <2>1. \A w \in rows : {v \in rows : Before(v, w)} = Below(rows, Place, w)
    BY <1>4 DEF Below
  <2> QED
    BY <2>1 DEF Limit, Lowest
<1> QED
  BY <1>3, <1>5

LEMMA EndsNat ==
  ASSUME TranscriptTypes, NEW c \in Nat
  PROVE  Ends(c) \in Nat
<1> DEFINE P == PageAfter(c)
           Ix == {write[w].index : w \in P}
<1>1. PICK n \in Nat : \A w \in Writes : write[w].index <= n
  BY DEF TranscriptTypes
<1>2. P \subseteq stored /\ stored \subseteq Writes
  BY DEF PageAfter, Limit, TranscriptTypes
<1> HIDE DEF P
<1>3. Ix \subseteq Nat /\ (P # {} => Ix # {}) /\ \A x \in Ix : x <= n
  BY <1>1, <1>2 DEF TranscriptTypes, Write
<1>4. ASSUME P # {} PROVE Max(Ix) \in Nat
  <2> HIDE DEF Ix
  <2>1. PICK x \in Ix : \A y \in Ix : y <= x
    BY <1>1, <1>3, <1>4, GreatestNat
  <2>2. \A y \in Ix : x >= y
    BY <1>3, <2>1
  <2>3. Max(Ix) \in Ix
    BY <2>2 DEF Max
  <2> QED
    BY <1>3, <2>3
<1> QED
  BY <1>4 DEF Ends, LastIndex, P

LEMMA PagesLemma ==
  ASSUME TranscriptTypes, Indexing, ~raced
  PROVE  Loaded = Limit(stored, MaxPages * PageSize)
<1> DEFINE Upto(c) == UpTo(stored, Place, c)
           After(c) == Beyond(stored, Place, c)
           First(k) == Lowest(stored, Place, k)
<1>1. /\ Placed(stored, Place) /\ \A v \in stored : Place[v] \in Nat /\ Place[v] = write[v].index
      /\ \A rows \in SUBSET stored : \A k : Limit(rows, k) = Lowest(rows, Place, k)
  <2>1. \A v \in stored : Place[v] \in Nat /\ Place[v] = write[v].index
    BY DEF TranscriptTypes, Write, Place
  <2> QED
    BY <2>1, LimitIsLowest
<1>2. \A c : PageAfter(c) = Lowest(After(c), Place, PageSize)
  <2> TAKE c
  <2>1. {w \in stored : write[w].index > c} = After(c)
    BY <1>1 DEF Beyond
  <2>2. After(c) \in SUBSET stored
    BY DEF Beyond
  <2> HIDE DEF After
  <2> QED
    BY <1>1, <2>1, <2>2 DEF PageAfter
<1> HIDE DEF Place
<1>3. PageSize \in Nat \ {0} /\ MaxPages \in Nat \ {0}
  BY TranscriptsAssumption
<1>4. ASSUME NEW a \in Nat, NEW c \in Nat, Upto(c) = First(a)
      PROVE  /\ Ends(c) \in Nat /\ Upto(Ends(c)) = First(a + PageSize)
             /\ First(a) \cup PageAfter(c) = First(a + PageSize)
  <2> DEFINE P == PageAfter(c)
  <2>1. P = Lowest(Beyond(stored, Place, c), Place, PageSize)
    BY <1>2
  <2> HIDE DEF P
  <2>2. /\ P \subseteq stored /\ First(a + PageSize) = First(a) \cup P
        /\ P = {} => Upto(c) = First(a + PageSize)
        /\ P # {} => \E e \in P : /\ \A v \in P : Place[v] <= Place[e]
                                  /\ Upto(Place[e]) = First(a + PageSize)
    BY <1>1, <1>3, <1>4, <2>1, LowestPage
  <2>3. CASE P = {}
    BY <2>2, <2>3 DEF Ends, P
  <2>4. CASE P # {}
    <3>1. PICK e \in P : (\A v \in P : Place[v] <= Place[e]) /\ Upto(Place[e]) = First(a + PageSize)
      BY <2>2, <2>4
    <3> DEFINE Ix == {write[w].index : w \in P}
    <3>2. /\ Place[e] \in Ix /\ Place[e] \in Nat /\ \A x \in Ix : x \in Nat /\ x <= Place[e]
      BY <1>1, <2>2, <3>1
    <3>3. Max(Ix) = Place[e]
      <4> HIDE DEF Ix
      <4>1. \A y \in Ix : Place[e] >= y
        BY <3>2
      <4>2. Max(Ix) \in Ix /\ \A y \in Ix : Max(Ix) >= y
        BY <3>2, <4>1 DEF Max
      <4>3. Max(Ix) \in Nat /\ Max(Ix) <= Place[e] /\ Max(Ix) >= Place[e]
        BY <3>2, <4>2
      <4> QED
        BY <3>2, <4>3
    <3>4. Ends(c) = Place[e]
      BY <2>4, <3>3 DEF Ends, LastIndex, P
    <3> QED
      BY <2>2, <3>1, <3>2, <3>4 DEF P
  <2> QED
    BY <2>3, <2>4
<1>5. PICK cursor \in [0..MaxPages -> Nat] :
        cursor[0] = 0 /\ \A i \in 1..MaxPages : cursor[i] = Ends(cursor[i - 1])
  <2> DEFINE D == Nat
             follow == [c \in D |-> Ends(c)]
             step == [i \in 1..MaxPages |-> follow]
  <2>1. follow \in [D -> D] /\ \A c \in D : follow[c] = Ends(c)
    BY EndsNat
  <2> HIDE DEF follow
  <2>2. step \in [1..MaxPages -> [D -> D]] /\ 0 \in D /\ MaxPages \in Nat
    BY <1>3, <2>1
  <2>3. \A i \in 1..MaxPages : step[i] = follow
    OBVIOUS
  <2>4. \E f \in [0..MaxPages -> D] : f[0] = 0 /\ \A i \in 1..MaxPages : f[i] = step[i][f[i - 1]]
    <3> HIDE DEF step, D
    <3> QED
      BY <2>2, IterationExists
  <2>5. PICK f \in [0..MaxPages -> D] : f[0] = 0 /\ \A i \in 1..MaxPages : f[i] = step[i][f[i - 1]]
    BY <2>4
  <2> HIDE DEF step
  <2>6. ASSUME NEW i \in 1..MaxPages PROVE f[i] = Ends(f[i - 1])
    <3>1. i - 1 \in 0..MaxPages
      BY <1>3
    <3>2. f[i - 1] \in D
      BY <2>5, <3>1
    <3>3. f[i] = step[i][f[i - 1]] /\ step[i] = follow
      BY <2>3, <2>5
    <3> QED
      BY <2>1, <3>2, <3>3
  <2> QED
    BY <2>5, <2>6
<1> HIDE DEF Ends
<1>6. \E f : Paging(MaxPages, f)
  <2>1. \A i \in 0..MaxPages : i = 0 \/ (i \in 1..MaxPages /\ i # 0)
    BY <1>3
  <2>2. \A i \in 0..MaxPages : cursor[i] = IF i = 0 THEN 0 ELSE Ends(cursor[i - 1])
    BY <1>5, <2>1
  <2>3. cursor = [i \in 0..MaxPages |-> cursor[i]]
    BY <1>5
  <2>4. cursor = [i \in 0..MaxPages |-> IF i = 0 THEN 0 ELSE Ends(cursor[i - 1])]
    BY <2>2, <2>3
  <2>5. Paging(MaxPages, cursor)
    BY <2>4 DEF Paging, Ends
  <2> QED
    BY <2>5
<1> DEFINE f == CHOOSE g : Paging(MaxPages, g)
<1>7. Loaded = UNION {PageAfter(f[n]) : n \in 0..(MaxPages - 1)}
  BY DEF Loaded, Paging
<1>8. Paging(MaxPages, f)
  BY <1>6
<1> HIDE DEF f
<1>9. f[0] = 0 /\ \A i \in 1..MaxPages : f[i] = Ends(f[i - 1])
  <2>1. f = [i \in 0..MaxPages |-> IF i = 0 THEN 0 ELSE Ends(f[i - 1])]
    BY <1>8 DEF Paging, Ends
  <2>2. 0 \in 0..MaxPages /\ \A i \in 1..MaxPages : i \in 0..MaxPages /\ i # 0
    BY <1>3
  <2> QED
    BY <2>1, <2>2
<1> DEFINE Read(n) == UNION {PageAfter(f[i]) : i \in 0..(n - 1)}
           Good == {n \in 0..MaxPages : /\ f[n] \in Nat /\ Upto(f[n]) = First(n * PageSize)
                                         /\ Read(n) = First(n * PageSize)}
           Bad == (0..MaxPages) \ Good
<1> HIDE DEF Read
<1>10. ASSUME NEW n \in 0..MaxPages, n = 0 PROVE n \in Good
  <2>1. First(0) = {}
    <3>1. \A w \in stored : ~(Cardinality(Below(stored, Place, w)) < 0)
      BY <1>1, BelowFacts
    <3> QED
      BY <3>1 DEF First, Lowest
  <2>2. Upto(0) = {}
    <3>1. \A v \in stored : Place[v] # 0 /\ Place[v] \in Nat
      BY <1>1 DEF Indexing
    <3>2. \A v \in stored : ~(Place[v] <= 0)
      BY <3>1
    <3> QED
      BY <3>2 DEF Upto, UpTo
  <2>3. Read(n) = {}
    <3>1. 0..(n - 1) = {}
      BY <1>10
    <3> QED
      BY <3>1 DEF Read
  <2>4. n * PageSize = 0 /\ f[n] = 0
    BY <1>3, <1>9, <1>10
  <2>5. First(n * PageSize) = {} /\ Upto(f[n]) = {}
    BY <2>1, <2>2, <2>4, Zenon
  <2>6. f[n] \in Nat
    BY <2>4
  <2> QED
    BY <2>3, <2>5, <2>6
<1>11. ASSUME NEW n \in 0..MaxPages, n # 0, n - 1 \in Good PROVE n \in Good
  <2>1. n \in 1..MaxPages /\ n - 1 \in Nat /\ f[n] = Ends(f[n - 1])
    BY <1>3, <1>9, <1>11
  <2>2. (n - 1) * PageSize \in Nat /\ n * PageSize = (n - 1) * PageSize + PageSize
    BY <1>3, <2>1
  <2> DEFINE a == (n - 1) * PageSize
  <2>3. f[n - 1] \in Nat /\ Upto(f[n - 1]) = First(a) /\ Read(n - 1) = First(a)
    BY <1>11
  <2>4. a \in Nat /\ n * PageSize = a + PageSize
    BY <2>2
  <2> HIDE DEF a
  <2>5. /\ Ends(f[n - 1]) \in Nat /\ Upto(Ends(f[n - 1])) = First(a + PageSize)
        /\ First(a) \cup PageAfter(f[n - 1]) = First(a + PageSize)
    BY <1>4, <2>3, <2>4
  <2>6. Read(n) = Read(n - 1) \cup PageAfter(f[n - 1])
    <3>1. 0..(n - 1) = 0..(n - 1 - 1) \cup {n - 1}
      BY <2>1
    <3> QED
      BY <3>1 DEF Read
  <2> QED
    BY <2>1, <2>3, <2>4, <2>5, <2>6
<1>12. Bad = {}
  <2> SUFFICES ASSUME Bad # {} PROVE FALSE
    OBVIOUS
  <2> HIDE DEF Good
  <2>1. Bad \subseteq Nat
    OBVIOUS
  <2>2. PICK n \in Bad : \A m \in Bad : n <= m
    <3> HIDE DEF Bad
    <3> QED
      BY <2>1, LeastNat
  <2>3. n \in 0..MaxPages /\ n \notin Good /\ n # 0
    BY <1>10
  <2>4. n - 1 \in 0..MaxPages /\ ~(n <= n - 1)
    BY <1>3, <2>3
  <2>5. n - 1 \in Good
    BY <2>2, <2>4
  <2> QED
    BY <1>11, <2>3, <2>5
<1>13. MaxPages \in Good
  <2>1. MaxPages \in 0..MaxPages
    BY <1>3
  <2> HIDE DEF Good
  <2> QED
    BY <1>12, <2>1
<1>14. Limit(stored, MaxPages * PageSize) = First(MaxPages * PageSize)
  BY <1>1 DEF First
<1> QED
  BY <1>7, <1>13, <1>14 DEF Read

\* The transcript's inductive invariant with the indexes of its writes.
WholeInv == TranscriptInv /\ Indexing

LEMMA WholeInvariant == TranscriptsSpec => []WholeInv
<1>1. TranscriptsInit => WholeInv
  BY TranscriptInitially, IndexingInitially DEF WholeInv
<1>2. WholeInv /\ [TranscriptsNext]_transcriptsVars => WholeInv'
  BY TranscriptNext, IndexingNext DEF WholeInv, TranscriptInv
<1> QED
  BY <1>1, <1>2, PTL DEF TranscriptsSpec

\* The transcript stays whole: one head, and the pages that loadEvents asks for hold the
\* events from the first one on, none left out between two of them, unless two appends
\* read the same index.  (_upsert_revision_node, get_next_chat_event_index,
\* load_conversation_events, loadEvents)
THEOREM TranscriptTheorem == TranscriptsSpec => []TranscriptIsWhole
<1>1. WholeInv => PagesComplete
  BY PagesLemma DEF WholeInv, TranscriptInv, TranscriptTypes, PagesComplete
<1> QED
  BY <1>1, WholeInvariant, OneHeadTheorem, PTL DEF TranscriptIsWhole
=============================================================================
