-------------------------- MODULE ToolTurnsProofs --------------------------
(***************************************************************************)
(* Proofs about the tool loop, for every number of turns, batches, calls   *)
(* in a bundle, duplicated results and cancellations, and every set of     *)
(* faults: first the lock, the waits and the storage; then the             *)
(* conversation history, which implements CallLedger and in which an       *)
(* output that is attached to another batch's call comes from an orphaned  *)
(* generator; and, where no fault occurs, what the normalized history      *)
(* looks like to the model: calls with their answers right behind them.    *)
(***************************************************************************)
EXTENDS ToolTurns, FiniteSetTheorems, DataFacts

-----------------------------------------------------------------------------
(* The inductive invariant *)

\* The types of what controls the loop, ...
ControlTypes ==
  /\ pc \in [Turns -> PCs]
  /\ lock \in Turns \cup {NoTurn}
  /\ cur \in [Turns -> Batches \cup {0}]
  /\ kind \in [Batches -> {"none", "single", "bundle", "malformed"}]
  /\ phase \in [Batches -> {"none", "dropped", "collect", "await", "over"}]
  /\ abandoned \subseteq Turns
  /\ detached \subseteq Batches

\* ... and of the storage and the messages.
Stores == [results : SUBSET Batches, futures : SUBSET Batches, stamps : SUBSET Batches]
DataTypes ==
  /\ store \in Stores
  /\ dispatched \subseteq Batches
  /\ msg \in [Messages -> {"unsent", "inbox", "routing", "dropped", "done"}]

\* The handler of an abandoned generator is past the loop.
AbandonedEnded == \A t \in abandoned : pc[t] \in {"tts", "done"}

Used == {n \in Batches : kind[n] # "none"}

\* Batches are numbered in order, and an unused one is untouched.
Numbered ==
  /\ \E k \in Nat : Used = 1..k
  /\ \A b \in Batches : kind[b] = "none" => phase[b] = "none" /\ b \notin detached

\* A batch belongs to one turn.
OneOwner ==
  /\ \A t, u \in Turns : cur[t] = cur[u] /\ cur[t] # 0 => t = u
  /\ \A t \in Turns : cur[t] # 0 => kind[cur[t]] \in {"single", "bundle"}

Dispatching == {"prepare", "backend", "sending"}

\* A turn that dispatches has a batch nobody processes yet, ...
DispatchingBatch ==
  \A t \in Turns : pc[t] \in Dispatching =>
    cur[t] # 0 /\ phase[cur[t]] = "none" /\ cur[t] \notin detached

\* ... a turn that processes results has one in process, ...
ProcessingBatch ==
  \A t \in Turns : pc[t] = "tools" =>
    cur[t] # 0 /\ phase[cur[t]] \in {"collect", "await"} /\ cur[t] \notin detached

\* ... and a batch in process is processed by its turn or was detached from it.
ProcessedBatch ==
  \A b \in Batches :
    /\ phase[b] = "dropped" => b \in detached
    /\ phase[b] \in {"collect", "await"} =>
         b \in detached \/ \E t \in Turns : cur[t] = b /\ pc[t] = "tools"

Ownership == Numbered /\ OneOwner /\ DispatchingBatch /\ ProcessingBatch /\ ProcessedBatch

\* A dispatched single call stays registered until its batch is over, and only
\* dispatched calls are replied to.
RegisteredWhileOpen ==
  /\ \A b \in dispatched :
       /\ kind[b] \in {"single", "bundle"}
       /\ kind[b] = "single" /\ phase[b] # "over" => <<b, 0>> \in resolved
  /\ \A m \in Messages : msg[m] # "unsent" => m[1] \in dispatched

ControlInv == ControlTypes /\ Ownership /\ AbandonedEnded /\ LockMatchesGenerator
DataInv == DataTypes /\ NoLostWakeup /\ Reclaimable /\ RegisteredWhileOpen
LoopInv == ControlInv /\ DataInv

-----------------------------------------------------------------------------
(* Lemmas about the operators *)

\* What the storage's operations do to its three maps.
LEMMA StorageFacts ==
  ASSUME NEW s \in Stores, NEW b \in Batches, NEW old
  PROVE  /\ StoreResult(s, b) \in Stores /\ RemoveResult(s, b) \in Stores
         /\ CreateFuture(s, b) \in Stores /\ DropFuture(s, b) \in Stores
         /\ Expire(s, old) \in Stores
         /\ StoreResult(s, b).futures = s.futures
         /\ StoreResult(s, b).results = s.results \cup {b}
         /\ RemoveResult(s, b).futures = s.futures
         /\ RemoveResult(s, b).results = s.results \ {b}
         /\ CreateFuture(s, b).futures = s.futures \cup {b}
         /\ CreateFuture(s, b).results = s.results
         /\ DropFuture(s, b).futures = s.futures \ {b}
         /\ DropFuture(s, b).results = s.results
         /\ Expire(s, old).futures = s.futures \ old
         /\ Expire(s, old).results = s.results \ old
BY DEF Stores, StoreResult, RemoveResult, CreateFuture, DropFuture, Expire

\* Every operation keeps the timestamps complete, except that RemoveResult leaves
\* a future of the same id without one.
LEMMA StampFacts ==
  ASSUME NEW s \in Stores, NEW b \in Batches, NEW old,
         s.results \cup s.futures \subseteq s.stamps
  PROVE  /\ LET r == StoreResult(s, b) IN r.results \cup r.futures \subseteq r.stamps
         /\ LET r == CreateFuture(s, b) IN r.results \cup r.futures \subseteq r.stamps
         /\ LET r == DropFuture(s, b) IN r.results \cup r.futures \subseteq r.stamps
         /\ LET r == Expire(s, old) IN r.results \cup r.futures \subseteq r.stamps
         /\ LET r == DropFuture(RemoveResult(s, b), b)
            IN  r.results \cup r.futures \subseteq r.stamps
         /\ b \notin s.futures => LET r == RemoveResult(s, b)
                                  IN  r.results \cup r.futures \subseteq r.stamps
<1> USE DEF Stores
<1>1. LET r == StoreResult(s, b) IN r.results \cup r.futures \subseteq r.stamps
  BY DEF StoreResult
<1>2. LET r == CreateFuture(s, b) IN r.results \cup r.futures \subseteq r.stamps
  BY DEF CreateFuture
<1>3. LET r == DropFuture(s, b) IN r.results \cup r.futures \subseteq r.stamps
  BY DEF DropFuture
<1>4. LET r == Expire(s, old) IN r.results \cup r.futures \subseteq r.stamps
  BY DEF Expire
<1>5. LET r == DropFuture(RemoveResult(s, b), b)
      IN  r.results \cup r.futures \subseteq r.stamps
  BY DEF DropFuture, RemoveResult
<1>6. b \notin s.futures => LET r == RemoveResult(s, b)
                           IN  r.results \cup r.futures \subseteq r.stamps
  BY DEF RemoveResult
<1> QED
  BY <1>1, <1>2, <1>3, <1>4, <1>5, <1>6

\* The handler of a cancelled turn goes on to shut TTS down, or ends.
LEMMA HandlerCancelledMoves ==
  ASSUME NEW t \in Turns, NEW h, HandlerCancelled(t, h)
  PROVE  \E p \in {"tts", "done"} : pc' = [pc EXCEPT ![t] = p]
BY DEF HandlerCancelled, Goto

\* The next batch is the first unused number.
LEMMA NextBatchIsNext ==
  ASSUME NEW k \in Nat, Used = 1..k
  PROVE  NextBatch = k + 1
<1>1. Cardinality(1..k) = k
  BY FS_Interval
<1> QED
  BY <1>1 DEF NextBatch, Used

\* A batch in process is its turn's, unless it was detached.
LEMMA OwnerProcesses ==
  ASSUME Ownership, NEW b \in Batches, phase[b] \in {"collect", "await"}, b \notin detached
  PROVE  Owner(b) \in Turns /\ cur[Owner(b)] = b /\ pc[Owner(b)] = "tools"
<1>1. PICK t \in Turns : cur[t] = b /\ pc[t] = "tools"
  BY DEF Ownership, ProcessedBatch
<1>2. Owner(b) \in Turns /\ cur[Owner(b)] = b
  BY <1>1 DEF Owner
<1>3. b # 0
  BY DEF Batches
<1>4. Owner(b) = t
  BY <1>1, <1>2, <1>3 DEF Ownership, OneOwner
<1> QED
  BY <1>1, <1>4

-----------------------------------------------------------------------------
(* Every step of the loop makes one of these moves on its control state *)

SameBatches == UNCHANGED <<cur, kind, phase, detached>>
Outside == PCs \ (Dispatching \cup {"tools"})

\* A turn takes the lock, ...
Enter(t) ==
  /\ pc[t] = "lock" /\ lock = NoTurn
  /\ lock' = t /\ Goto(t, "context")
  /\ SameBatches /\ UNCHANGED abandoned

\* ... moves on without a batch, on the same side of the lock, ...
Proceed(t, p) ==
  /\ pc[t] \in Outside /\ (pc[t] \in Holding <=> p \in Holding)
  /\ Goto(t, p) /\ p \in Outside
  /\ pc[t] \in {"tts", "done"} => p \in {"tts", "done"}
  /\ SameBatches /\ UNCHANGED <<lock, abandoned>>

\* ... or leaves the lock.
Leave(t, p) ==
  /\ pc[t] \in Holding \cap Outside /\ p \in Outside \ Holding
  /\ Goto(t, p) /\ lock' = NoTurn
  /\ SameBatches /\ UNCHANGED abandoned

\* The model responds with a batch that is to be dispatched, or malformed.
Respond(t, k) ==
  /\ pc[t] = "llm" /\ NextBatch \in Batches
  /\ kind' = [kind EXCEPT ![NextBatch] = k]
  /\ \/ k \in {"single", "bundle"} /\ cur' = [cur EXCEPT ![t] = NextBatch] /\ Goto(t, "prepare")
     \/ k = "malformed" /\ UNCHANGED cur /\ Goto(t, "ready")
  /\ UNCHANGED <<lock, phase, detached, abandoned>>

\* The batch is dispatched, ...
Dispatch(t, p) ==
  /\ pc[t] \in Dispatching /\ p \in Dispatching
  /\ Goto(t, p)
  /\ SameBatches /\ UNCHANGED <<lock, abandoned>>

\* ... then processed by the turn, ...
Collect(t) ==
  /\ pc[t] \in Dispatching
  /\ Goto(t, "tools") /\ Phase(cur[t], "collect")
  /\ UNCHANGED <<lock, cur, kind, detached, abandoned>>

\* ... which may wait or start over, ...
Reprocess(b, p) ==
  /\ phase[b] \in {"collect", "await"} /\ p \in {"collect", "await"}
  /\ Phase(b, p)
  /\ UNCHANGED <<pc, lock, cur, kind, detached, abandoned>>

\* ... and which stays in the lock or leaves it when the batch is over.
Complete(t, p) ==
  /\ pc[t] = "tools" /\ p \in Outside
  /\ Goto(t, p) /\ Phase(cur[t], "over")
  /\ \/ p \in Holding /\ UNCHANGED lock
     \/ p \notin Holding /\ lock' = NoTurn
  /\ UNCHANGED <<cur, kind, detached, abandoned>>

\* The handler leaves its generator behind; later somebody closes it, and then
\* its batch gets over without the turn.
LeaveBehind(t, p) ==
  /\ Abandon(t)
  /\ Goto(t, p) /\ p \in {"tts", "done"}
  /\ UNCHANGED <<lock, cur, kind>>

CompleteDetached(b) ==
  /\ b \in detached /\ phase[b] \in {"collect", "await"}
  /\ Phase(b, "over")
  /\ UNCHANGED <<pc, lock, cur, kind, detached, abandoned>>

Untouched == UNCHANGED <<pc, lock, cur, kind, phase, detached, abandoned>>

ControlMove ==
  \/ \E t \in Turns : Enter(t) \/ Collect(t) \/ CloseGenerator(t)
  \/ \E t \in Turns, p \in PCs :
       \/ Proceed(t, p) \/ Leave(t, p) \/ Dispatch(t, p)
       \/ Complete(t, p) \/ LeaveBehind(t, p)
  \/ \E t \in Turns, k \in {"single", "bundle", "malformed"} : Respond(t, k)
  \/ \E b \in Batches, p \in {"collect", "await"} : Reprocess(b, p)
  \/ \E b \in Batches : CompleteDetached(b)
  \/ Untouched

\* The steps that end the processing of a batch.
Process(b) ==
  CollectStale(b) \/ CollectEarly(b) \/ WakeBundle(b) \/ WakeEach(b) \/ Timeout(b)

\* Moves keep the types of the control state.
LEMMA MoveTypes ==
  ASSUME ControlTypes, Ownership, ControlMove
  PROVE  ControlTypes'
<1> USE DEF ControlTypes
<1>1. ASSUME NEW t \in Turns, Enter(t) \/ Collect(t) \/ CloseGenerator(t) PROVE ControlTypes'
  <2>1. \A b \in Batches, p \in {"collect"} :
          [phase EXCEPT ![b] = p] \in [Batches -> {"none", "dropped", "collect", "await", "over"}]
    OBVIOUS
  <2>2. pc[t] \in Dispatching => cur[t] \in Batches
    BY DEF Ownership, DispatchingBatch
  <2> QED
    BY <1>1, <2>1, <2>2 DEF Enter, Collect, CloseGenerator, Goto, Phase, SameBatches, PCs
<1>2. ASSUME NEW t \in Turns, NEW p \in PCs, Proceed(t, p) \/ Leave(t, p) \/ Dispatch(t, p)
      PROVE  ControlTypes'
  BY <1>2 DEF Proceed, Leave, Dispatch, Goto, SameBatches
<1>3. ASSUME NEW t \in Turns, NEW p \in PCs, Complete(t, p) PROVE ControlTypes'
  BY <1>3 DEF Complete, Goto, Phase
<1>4. ASSUME NEW t \in Turns, NEW p \in PCs, LeaveBehind(t, p) PROVE ControlTypes'
  <2>1. pc[t] \in {"backend", "sending"} => cur[t] \in Batches
    BY DEF Ownership, DispatchingBatch, Dispatching
  <2> QED
    BY <1>4, <2>1 DEF LeaveBehind, Abandon, Goto, Phase
<1>5. ASSUME NEW t \in Turns, NEW k \in {"single", "bundle", "malformed"}, Respond(t, k)
      PROVE  ControlTypes'
  BY <1>5 DEF Respond, Goto, PCs
<1>6. ASSUME NEW b \in Batches, NEW p \in {"collect", "await"}, Reprocess(b, p) \/ CompleteDetached(b)
      PROVE  ControlTypes'
  BY <1>6 DEF Reprocess, CompleteDetached, Phase
<1>7. CASE Untouched
  BY <1>7 DEF Untouched
<1> QED
  BY <1>1, <1>2, <1>3, <1>4, <1>5, <1>6, <1>7 DEF ControlMove

\* Moves keep the batches' numbering, owners and progress.
LEMMA MoveOwnership ==
  ASSUME ControlTypes, Ownership, ControlMove
  PROVE  Ownership'
<1> USE DEF ControlTypes, Ownership
<1>1. ASSUME NEW t \in Turns, Enter(t) PROVE Ownership'
  BY <1>1 DEF Enter, Goto, SameBatches, Numbered, Used, OneOwner, DispatchingBatch, ProcessingBatch,
     ProcessedBatch, Dispatching
<1>2. ASSUME NEW t \in Turns, Collect(t) PROVE Ownership'
  BY <1>2 DEF Collect, Goto, Phase, Numbered, Used, OneOwner, DispatchingBatch, ProcessingBatch,
     ProcessedBatch, Dispatching
<1>3. ASSUME NEW t \in Turns, CloseGenerator(t) PROVE Ownership'
  BY <1>3 DEF CloseGenerator, Phase, Numbered, Used, OneOwner, DispatchingBatch, ProcessingBatch,
     ProcessedBatch, Dispatching
<1>4. ASSUME NEW t \in Turns, NEW p \in PCs, Proceed(t, p) PROVE Ownership'
  BY <1>4 DEF Proceed, Outside, Goto, SameBatches, Numbered, Used, OneOwner, DispatchingBatch,
     ProcessingBatch, ProcessedBatch, Dispatching
<1>5. ASSUME NEW t \in Turns, NEW p \in PCs, Leave(t, p) PROVE Ownership'
  BY <1>5 DEF Leave, Outside, Goto, SameBatches, Numbered, Used, OneOwner, DispatchingBatch,
     ProcessingBatch, ProcessedBatch, Dispatching
<1>6. ASSUME NEW t \in Turns, NEW p \in PCs, Dispatch(t, p) PROVE Ownership'
  BY <1>6 DEF Dispatch, Goto, SameBatches, Numbered, Used, OneOwner, DispatchingBatch,
     ProcessingBatch, ProcessedBatch, Dispatching
<1>7. ASSUME NEW t \in Turns, NEW p \in PCs, Complete(t, p) PROVE Ownership'
  BY <1>7 DEF Complete, Outside, Goto, Phase, Numbered, Used, OneOwner, DispatchingBatch,
     ProcessingBatch, ProcessedBatch, Dispatching
<1>8. ASSUME NEW t \in Turns, NEW p \in PCs, LeaveBehind(t, p) PROVE Ownership'
  BY <1>8 DEF LeaveBehind, Abandon, Yielding, Goto, Phase, Numbered, Used, OneOwner, DispatchingBatch,
     ProcessingBatch, ProcessedBatch, Dispatching
<1>9. ASSUME NEW t \in Turns, NEW k \in {"single", "bundle", "malformed"}, Respond(t, k)
      PROVE  Ownership'
  <2>1. PICK n \in Nat : Used = 1..n
    BY DEF Numbered
  <2>2. NextBatch = n + 1 /\ n + 1 \in Batches /\ kind[n + 1] = "none"
    BY <1>9, <2>1, NextBatchIsNext DEF Respond, Used
  <2>3. Used' = 1..(n + 1)
    BY <1>9, <2>1, <2>2 DEF Respond, Used
  <2>4. Numbered'
    BY <1>9, <2>2, <2>3 DEF Respond, Numbered
  <2>5. OneOwner'
    BY <1>9, <2>2 DEF Respond, OneOwner, Batches
  <2>6. DispatchingBatch' /\ ProcessingBatch'
    BY <1>9, <2>2 DEF Respond, Goto, DispatchingBatch, ProcessingBatch, Dispatching, Numbered, Batches
  <2>7. ProcessedBatch'
    BY <1>9, <2>2 DEF Respond, Goto, ProcessedBatch
  <2> QED
    BY <2>4, <2>5, <2>6, <2>7
<1>10. ASSUME NEW b \in Batches, NEW p \in {"collect", "await"}, Reprocess(b, p) PROVE Ownership'
  BY <1>10 DEF Reprocess, Phase, Numbered, Used, OneOwner, DispatchingBatch,
     ProcessingBatch, ProcessedBatch, Dispatching
<1>11. ASSUME NEW b \in Batches, CompleteDetached(b) PROVE Ownership'
  BY <1>11 DEF CompleteDetached, Phase, Numbered, Used, OneOwner, DispatchingBatch,
     ProcessingBatch, ProcessedBatch, Dispatching
<1>12. ASSUME Untouched PROVE Ownership'
  BY <1>12 DEF Untouched, Numbered, Used, OneOwner, DispatchingBatch, ProcessingBatch,
     ProcessedBatch, Dispatching
<1> QED
  BY <1>1, <1>2, <1>3, <1>4, <1>5, <1>6, <1>7, <1>8, <1>9, <1>10, <1>11, <1>12 DEF ControlMove

\* Moves keep the lock with the generator that is inside it.
LEMMA MoveLock ==
  ASSUME ControlTypes, Ownership, AbandonedEnded, LockMatchesGenerator, ControlMove
  PROVE  AbandonedEnded' /\ LockMatchesGenerator'
<1> USE ConstantsAssumption DEF ControlTypes, AbandonedEnded, LockMatchesGenerator, InsideLock, Holding
<1> DEFINE Goal == AbandonedEnded' /\ LockMatchesGenerator'
<1>1. ASSUME NEW t \in Turns, Enter(t) PROVE Goal
  BY <1>1 DEF Enter, Goto
<1>2. ASSUME NEW t \in Turns, Collect(t) PROVE Goal
  BY <1>2 DEF Collect, Goto, Dispatching
<1>3. ASSUME NEW t \in Turns, CloseGenerator(t) PROVE Goal
  BY <1>3 DEF CloseGenerator
<1>4. ASSUME NEW t \in Turns, NEW p \in PCs, Proceed(t, p) PROVE Goal
  BY <1>4 DEF Proceed, Goto
<1>5. ASSUME NEW t \in Turns, NEW p \in PCs, Leave(t, p) PROVE Goal
  BY <1>5 DEF Leave, Goto
<1>6. ASSUME NEW t \in Turns, NEW p \in PCs, Dispatch(t, p) PROVE Goal
  BY <1>6 DEF Dispatch, Goto, Dispatching
<1>7. ASSUME NEW t \in Turns, NEW p \in PCs, Complete(t, p) PROVE Goal
  BY <1>7 DEF Complete, Goto
<1>8. ASSUME NEW t \in Turns, NEW p \in PCs, LeaveBehind(t, p) PROVE Goal
  BY <1>8 DEF LeaveBehind, Abandon, Yielding, Goto
<1>9. ASSUME NEW t \in Turns, NEW k \in {"single", "bundle", "malformed"}, Respond(t, k) PROVE Goal
  BY <1>9 DEF Respond, Goto
<1>10. ASSUME NEW b \in Batches, NEW p \in {"collect", "await"}, Reprocess(b, p) PROVE Goal
  BY <1>10 DEF Reprocess
<1>11. ASSUME NEW b \in Batches, CompleteDetached(b) PROVE Goal
  BY <1>11 DEF CompleteDetached
<1>12. ASSUME Untouched PROVE Goal
  BY <1>12 DEF Untouched
<1> QED
  BY <1>1, <1>2, <1>3, <1>4, <1>5, <1>6, <1>7, <1>8, <1>9, <1>10, <1>11, <1>12 DEF ControlMove

-----------------------------------------------------------------------------
(* Every step makes one of these moves *)

\* Ending a batch completes it for its turn, or without one if it was detached.
LEMMA ProcessMoves ==
  ASSUME ControlTypes, Ownership, NEW b \in Batches, Process(b)
  PROVE  /\ phase[b] \in {"collect", "await"} /\ phase' = [phase EXCEPT ![b] = "over"]
         /\ UNCHANGED <<cur, kind, detached, abandoned, dispatched, msg>>
         /\ \/ CompleteDetached(b)
            \/ \E t \in Turns, p \in PCs : Complete(t, p)
<1>1. PICK h : Finish(b, h) /\ phase[b] \in {"collect", "await"}
  BY DEF Process, CollectStale, CollectEarly, WakeBundle, WakeEach, Timeout, ProcessEach
<1>2. phase' = [phase EXCEPT ![b] = "over"] /\ UNCHANGED <<cur, kind, detached, abandoned, dispatched, msg>>
  BY <1>1 DEF Finish, Phase, netVars
<1>3. CASE b \in detached
  BY <1>1, <1>2, <1>3 DEF Finish, CompleteDetached, Phase
<1>4. CASE b \notin detached
  <2> DEFINE t == Owner(b)
  <2>1. t \in Turns /\ cur[t] = b /\ pc[t] = "tools"
    BY <1>1, <1>4, OwnerProcesses
  <2>2. EndBatch(t, h)
    BY <1>1, <1>4 DEF Finish
  <2> HIDE DEF t
  <2>3. \E p \in {"ready", "answered", "tts", "done"} :
          /\ Goto(t, p)
          /\ IF p \in {"ready", "answered"} THEN UNCHANGED lock ELSE lock' = NoTurn
    <3>1. CASE fate[t] = "cancel" /\ HandlerCancelled(t, h) /\ lock' = NoTurn
      BY <2>1, <3>1, HandlerCancelledMoves DEF Goto
    <3> QED
      BY <2>2, <3>1 DEF EndBatch
  <2>4. \E p \in PCs : Complete(t, p)
    BY <1>2, <2>1, <2>3 DEF Complete, Outside, Dispatching, Holding, PCs, Phase
  <2> QED
    BY <1>1, <1>2, <2>1, <2>4
<1> QED
  BY <1>1, <1>2, <1>3, <1>4

\* A wait that is cancelled starts over, or ends the batch.
LEMMA CancelWaitingMoves ==
  ASSUME ControlTypes, Ownership, NEW t \in Turns, CancelWaiting(t)
  PROVE  ControlMove
<1>1. cur[t] \in Batches /\ pc[t] = "tools" /\ phase[cur[t]] = "await"
  BY DEF CancelWaiting, ControlTypes, Ownership, ProcessingBatch
<1>2. CASE Phase(cur[t], "collect") /\ UNCHANGED <<pc, lock, history>>
  <2>1. Reprocess(cur[t], "collect")
    BY <1>1, <1>2 DEF CancelWaiting, Reprocess
  <2> QED
    BY <1>1, <2>1 DEF ControlMove
<1>3. CASE Phase(cur[t], "over") /\ lock' = NoTurn /\ HandlerCancelled(t, history)
  <2>1. PICK p \in {"tts", "done"} : Goto(t, p)
    BY <1>3, HandlerCancelledMoves DEF Goto
  <2>2. Complete(t, p)
    BY <1>1, <1>3, <2>1 DEF CancelWaiting, Complete, Outside, Dispatching, Holding, PCs
  <2> QED
    BY <2>2 DEF ControlMove, PCs
<1> QED
  BY <1>2, <1>3 DEF CancelWaiting

\* The steps of a turn.
LEMMA TurnMoves ==
  ASSUME ControlTypes, Ownership, AbandonedEnded, NEW t \in Turns,
         Submit(t) \/ TurnStep(t) \/ Cancel(t)
  PROVE  ControlMove
<1> USE DEF Goto, SameBatches, batchVars
<1>1. CASE Submit(t)
  <2>1. Proceed(t, "lock")
    BY <1>1 DEF Submit, Proceed, Outside, PCs, Dispatching, Holding
  <2> QED
    BY <2>1 DEF ControlMove, PCs
<1>2. CASE AcquireLock(t)
  BY <1>2 DEF AcquireLock, Enter, ControlMove
<1>3. CASE NoModelSelected(t) \/ GeneratorEnds(t)
  <2>1. Leave(t, "closing")
    BY <1>3 DEF NoModelSelected, GeneratorEnds, Leave, Outside, PCs, Dispatching, Holding
  <2> QED
    BY <2>1 DEF ControlMove, PCs
<1>4. CASE AddUserMessage(t)
  <2>1. Proceed(t, "ready")
    BY <1>4 DEF AddUserMessage, Proceed, Outside, PCs, Dispatching, Holding
  <2> QED
    BY <2>1 DEF ControlMove, PCs
<1>5. CASE CallModel(t)
  <2>1. Proceed(t, "llm")
    BY <1>5 DEF CallModel, Proceed, Outside, PCs, Dispatching, Holding
  <2> QED
    BY <2>1 DEF ControlMove, PCs
<1>6. CASE ModelAnswers(t)
  <2>1. Proceed(t, "answered")
    BY <1>6 DEF ModelAnswers, Proceed, Outside, PCs, Dispatching, Holding
  <2> QED
    BY <2>1 DEF ControlMove, PCs
<1>7. CASE HandlerEnds(t) \/ Finalize(t)
  <2>1. Proceed(t, "done")
    BY <1>7 DEF HandlerEnds, Finalize, Proceed, Outside, PCs, Dispatching, Holding
  <2> QED
    BY <2>1 DEF ControlMove, PCs
<1>8. CASE ModelMalformed(t)
  <2>1. Respond(t, "malformed")
    BY <1>8 DEF ModelMalformed, Respond
  <2> QED
    BY <2>1 DEF ControlMove
<1>9. ASSUME NEW k \in {"single", "bundle"}, ModelCallsTools(t, k) PROVE ControlMove
  <2>1. Respond(t, k)
    BY <1>9 DEF ModelCallsTools, Respond
  <2> QED
    BY <2>1 DEF ControlMove
<1>10. CASE PrepareLocal(t) \/ ExecuteRaises(t) \/ BackendDone(t)
  <2>1. Dispatch(t, "sending")
    BY <1>10 DEF PrepareLocal, ExecuteRaises, BackendDone, Dispatch, Dispatching
  <2> QED
    BY <2>1 DEF ControlMove, PCs
<1>11. CASE PrepareFails(t) \/ PrepareBackend(t)
  <2>1. CASE \E p \in Dispatching : pc' = [pc EXCEPT ![t] = p] /\ UNCHANGED phase
    <3>1. PICK p \in Dispatching : Dispatch(t, p)
      BY <1>11, <2>1 DEF PrepareFails, PrepareBackend, Dispatch, Dispatching
    <3> QED
      BY <3>1 DEF ControlMove, PCs, Dispatching
  <2>2. CASE pc' = [pc EXCEPT ![t] = "tools"] /\ Phase(cur[t], "collect")
    <3>1. Collect(t)
      BY <1>11, <2>2 DEF PrepareFails, PrepareBackend, Collect, Dispatching
    <3> QED
      BY <3>1 DEF ControlMove
  <2> QED
    BY <1>11, <2>1, <2>2 DEF PrepareFails, PrepareBackend, Dispatching
<1>12. CASE Sent(t)
  BY <1>12 DEF Sent, Collect, Dispatching, ControlMove
<1>13. CASE SendFails(t)
  <2>1. LeaveBehind(t, "done")
    BY <1>13 DEF SendFails, LeaveBehind
  <2> QED
    BY <2>1 DEF ControlMove, PCs
<1>14. CASE CloseGenerator(t)
  BY <1>14 DEF ControlMove
<1>15. CASE FutureExpired(t)
  BY <1>15, CancelWaitingMoves DEF FutureExpired
<1>16. CASE Cancel(t)
  <2>1. CASE CancelOutside(t)
    <3>1. PICK p \in {"tts", "done"} : pc' = [pc EXCEPT ![t] = p]
      BY <2>1, HandlerCancelledMoves DEF CancelOutside
    <3>2. Proceed(t, p)
      BY <2>1, <3>1 DEF CancelOutside, Proceed, Outside, PCs, Dispatching, Holding
    <3> QED
      BY <3>2 DEF ControlMove, PCs
  <2>2. CASE CancelInside(t)
    <3>1. PICK p \in {"tts", "done"} : pc' = [pc EXCEPT ![t] = p]
      BY <2>2, HandlerCancelledMoves DEF CancelInside
    <3>2. Leave(t, p)
      BY <2>2, <3>1 DEF CancelInside, Leave, Outside, PCs, Dispatching, Holding
    <3> QED
      BY <3>2 DEF ControlMove, PCs
  <2>3. CASE CancelPreparing(t)
    BY <2>3 DEF CancelPreparing, Collect, Dispatching, ControlMove
  <2>4. CASE CancelSending(t)
    <3>1. PICK p \in {"tts", "done"} : pc' = [pc EXCEPT ![t] = p]
      BY <2>4, HandlerCancelledMoves DEF CancelSending
    <3>2. LeaveBehind(t, p)
      BY <2>4, <3>1 DEF CancelSending, LeaveBehind
    <3> QED
      BY <3>2 DEF ControlMove, PCs
  <2>5. CASE CancelWaiting(t)
    BY <2>5, CancelWaitingMoves
  <2> QED
    BY <1>16, <2>1, <2>2, <2>3, <2>4, <2>5 DEF Cancel
<1> QED
  BY <1>1, <1>2, <1>3, <1>4, <1>5, <1>6, <1>7, <1>8, <1>9, <1>10, <1>11, <1>12, <1>13, <1>14,
     <1>15, <1>16 DEF TurnStep, Prepare, Model

\* Every step.
LEMMA StepMoves ==
  ASSUME ControlTypes, Ownership, AbandonedEnded, [Next]_vars
  PROVE  ControlMove
<1>1. ASSUME NEW t \in Turns, Submit(t) \/ TurnStep(t) \/ Cancel(t) PROVE ControlMove
  BY <1>1, TurnMoves
<1>2. ASSUME NEW b \in Batches, Process(b) PROVE ControlMove
  BY <1>2, ProcessMoves DEF ControlMove
<1>3. ASSUME NEW b \in Batches, StartWait(b) PROVE ControlMove
  <2>1. Reprocess(b, "await")
    BY <1>3 DEF StartWait, Reprocess, turnVars
  <2> QED
    BY <2>1 DEF ControlMove
<1>4. ASSUME NEW b \in Batches, DetachedExpired(b) PROVE ControlMove
  BY <1>4 DEF DetachedExpired, CompleteDetached, turnVars, ControlMove
<1>5. ASSUME NEW m \in Messages, SdkReplies(m) \/ RouteLookup(m) \/ RouteStore(m) PROVE ControlMove
  BY <1>5 DEF SdkReplies, RouteLookup, RouteStore, turnVars, batchVars, Untouched, ControlMove
<1>6. CASE UNCHANGED vars
  BY <1>6 DEF vars, turnVars, batchVars, Untouched, ControlMove
<1> QED
  BY <1>1, <1>2, <1>3, <1>4, <1>5, <1>6 DEF Next, BatchStep, Process

-----------------------------------------------------------------------------
(* The storage and the registry *)

\* Ending a batch only takes entries out of the storage, and unregisters no call
\* but the batch's own.
LEMMA ProcessData ==
  ASSUME ControlTypes, DataTypes, NoLostWakeup, Reclaimable, NEW b \in Batches, Process(b)
  PROVE  /\ store' \in Stores
         /\ store'.results \subseteq store.results /\ store'.futures \subseteq store.futures
         /\ Reclaimable'
         /\ \A c \in Batches \ {b} : <<c, 0>> \in resolved => <<c, 0>> \in resolved'
<1> USE DEF DataTypes, Reclaimable
<1>1. CASE WakeBundle(b)
  <2>1. b \notin store.futures
    BY <1>1 DEF WakeBundle, NoLostWakeup
  <2> QED
    BY <1>1, <2>1, StorageFacts, StampFacts DEF WakeBundle
<1>2. ASSUME NEW s \in Stores, NEW out, ProcessEach(b, s, out),
             s.results \subseteq store.results, s.futures \subseteq store.futures,
             s.results \cup s.futures \subseteq s.stamps
      PROVE  /\ store' \in Stores
             /\ store'.results \subseteq store.results /\ store'.futures \subseteq store.futures
             /\ Reclaimable'
             /\ \A c \in Batches \ {b} : <<c, 0>> \in resolved => <<c, 0>> \in resolved'
  <2> DEFINE settled == IF kind[b] = "single" THEN DropFuture(RemoveResult(s, b), b) ELSE s
  <2>1. /\ settled \in Stores
        /\ settled.results \subseteq store.results /\ settled.futures \subseteq store.futures
        /\ settled.results \cup settled.futures \subseteq settled.stamps
    <3>1. RemoveResult(s, b) \in Stores /\ DropFuture(RemoveResult(s, b), b) \in Stores
      BY StorageFacts
    <3>2. LET r == DropFuture(RemoveResult(s, b), b)
          IN  r.results \subseteq s.results /\ r.futures \subseteq s.futures
      BY <3>1, StorageFacts
    <3> QED
      BY <1>2, <3>1, <3>2, StampFacts
  <2>2. PICK old : store' = Expire(settled, old)
    BY <1>2 DEF ProcessEach
  <2>3. resolved' = resolved \ {<<b, 0>>}
    BY <1>2 DEF ProcessEach
  <2> HIDE DEF settled
  <2> QED
    BY <2>1, <2>2, <2>3, StorageFacts, StampFacts
<1>3. CASE CollectStale(b) \/ WakeEach(b)
  BY <1>2, <1>3 DEF CollectStale, WakeEach
<1>4. CASE CollectEarly(b)
  <2> DEFINE s == DropFuture(RemoveResult(CreateFuture(store, b), b), b)
  <2>1. CreateFuture(store, b) \in Stores /\ RemoveResult(CreateFuture(store, b), b) \in Stores
    BY StorageFacts
  <2>2. s \in Stores /\ s.results \subseteq store.results /\ s.futures \subseteq store.futures
    BY <2>1, StorageFacts
  <2>3. s.results \cup s.futures \subseteq s.stamps
    BY <2>1, StampFacts
  <2>4. ProcessEach(b, s, "result")
    BY <1>4 DEF CollectEarly
  <2> QED
    BY <1>2, <2>2, <2>3, <2>4
<1>5. CASE Timeout(b)
  <2>1. ProcessEach(b, DropFuture(store, b), "failure")
    BY <1>5 DEF Timeout
  <2> QED
    BY <1>2, <2>1, StorageFacts, StampFacts
<1> QED
  BY <1>1, <1>3, <1>4, <1>5 DEF Process

\* What a turn's step does to the storage: nothing, or it stores a result for the
\* batch it has just prepared, or it drops the future of a wait that is cancelled.
LEMMA TurnStorage ==
  ASSUME ControlInv, NEW t \in Turns, Submit(t) \/ TurnStep(t) \/ Cancel(t)
  PROVE  /\ \A b \in Batches : phase'[b] = "await" => phase[b] = "await"
         /\ \/ store' = store
            \/ \E b \in Batches : store' = StoreResult(store, b) /\ phase[b] = "none"
            \/ \E b \in Batches : store' = DropFuture(store, b)
<1> USE DEF ControlInv, ControlTypes, Phase, batchVars, toolVars
<1> DEFINE Calm == \A b \in Batches : phase'[b] = "await" => phase[b] = "await"
           Goal == /\ Calm
                   /\ \/ store' = store
                      \/ \E b \in Batches : store' = StoreResult(store, b) /\ phase[b] = "none"
                      \/ \E b \in Batches : store' = DropFuture(store, b)
<1>1. CASE \/ Submit(t) \/ AcquireLock(t) \/ NoModelSelected(t) \/ AddUserMessage(t) \/ CallModel(t)
           \/ Model(t) \/ GeneratorEnds(t) \/ HandlerEnds(t) \/ Finalize(t)
  BY <1>1 DEF Submit, AcquireLock, NoModelSelected, AddUserMessage, CallModel, Model, ModelAnswers,
     ModelMalformed, ModelCallsTools, GeneratorEnds, HandlerEnds, Finalize
<1>2. CASE PrepareLocal(t) \/ ExecuteRaises(t) \/ Sent(t) \/ SendFails(t) \/ CloseGenerator(t)
  BY <1>2 DEF PrepareLocal, ExecuteRaises, Sent, SendFails, Abandon, CloseGenerator
<1>3. CASE PrepareFails(t) \/ PrepareBackend(t) \/ BackendDone(t)
  <2>1. cur[t] \in Batches /\ phase[cur[t]] = "none"
    BY <1>3 DEF PrepareFails, PrepareBackend, BackendDone, Ownership, DispatchingBatch, Dispatching
  <2>2. store' = store \/ store' = StoreResult(store, cur[t])
    BY <1>3 DEF PrepareFails, PrepareBackend, BackendDone
  <2>3. Calm
    BY <1>3 DEF PrepareFails, PrepareBackend, BackendDone
  <2> QED
    BY <2>1, <2>2, <2>3
<1>4. ASSUME CancelWaiting(t) PROVE Goal
  <2>1. cur[t] \in Batches /\ store' = DropFuture(store, cur[t])
    BY <1>4 DEF CancelWaiting, Ownership, ProcessingBatch
  <2>2. Calm
    BY <1>4 DEF CancelWaiting
  <2> QED
    BY <2>1, <2>2
<1>5. CASE FutureExpired(t)
  BY <1>4, <1>5 DEF FutureExpired
<1>6. CASE Cancel(t)
  BY <1>4, <1>6 DEF Cancel, CancelOutside, CancelInside, CancelPreparing, CancelSending, Abandon
<1> QED
  BY <1>1, <1>2, <1>3, <1>5, <1>6 DEF TurnStep, Prepare

\* The steps keep the storage's types and its timestamps, and store no result
\* beside the open future of a batch that is waited for.
LEMMA StorageStep ==
  ASSUME LoopInv, [Next]_vars
  PROVE  store' \in Stores /\ NoLostWakeup' /\ Reclaimable'
<1> USE DEF LoopInv, DataInv, DataTypes
<1> DEFINE Calm == \A b \in Batches : phase'[b] = "await" => phase[b] = "await"
           Goal == store' \in Stores /\ NoLostWakeup' /\ Reclaimable'
<1>1. ASSUME store' = store, Calm PROVE Goal
  BY <1>1 DEF NoLostWakeup, Reclaimable
<1>2. ASSUME NEW b \in Batches, store' = DropFuture(store, b), Calm PROVE Goal
  BY <1>2, StorageFacts, StampFacts DEF NoLostWakeup, Reclaimable
<1>3. ASSUME NEW t \in Turns, Submit(t) \/ TurnStep(t) \/ Cancel(t) PROVE Goal
  <2>1. Calm
    BY <1>3, TurnStorage
  <2>2. ASSUME NEW b \in Batches, store' = StoreResult(store, b), phase[b] = "none" PROVE Goal
    BY <2>1, <2>2, StorageFacts, StampFacts DEF NoLostWakeup, Reclaimable
  <2> QED
    BY <1>1, <1>2, <1>3, <2>1, <2>2, TurnStorage
<1>4. ASSUME NEW b \in Batches, Process(b) PROVE Goal
  <2>1. Calm
    BY <1>4, ProcessMoves DEF ControlInv, ControlTypes
  <2> QED
    BY <1>4, <2>1, ProcessData DEF ControlInv, NoLostWakeup
<1>5. ASSUME NEW b \in Batches, StartWait(b) PROVE Goal
  <2>1. /\ store' \in Stores /\ Reclaimable'
        /\ store'.results = store.results /\ store'.futures = store.futures \cup {b}
    BY <1>5, StorageFacts, StampFacts DEF StartWait, Reclaimable
  <2>2. NoLostWakeup'
    BY <1>5, <2>1 DEF StartWait, Phase, ControlInv, ControlTypes, NoLostWakeup
  <2> QED
    BY <2>1, <2>2
<1>6. ASSUME NEW b \in Batches, DetachedExpired(b) PROVE Goal
  BY <1>1, <1>6 DEF DetachedExpired, Phase, toolVars, ControlInv, ControlTypes
<1>7. ASSUME NEW m \in Messages, SdkReplies(m) \/ RouteLookup(m) PROVE Goal
  BY <1>1, <1>7 DEF SdkReplies, RouteLookup, batchVars, toolVars
<1>8. ASSUME NEW m \in Messages, RouteStore(m) PROVE Goal
  <2> DEFINE b == m[1]
             s == StoreResult(store, b)
  <2>1. b \in Batches
    BY DEF Messages
  <2>2. store' = DropFuture(s, b) /\ UNCHANGED phase
    BY <1>8 DEF RouteStore, batchVars
  <2> HIDE DEF b
  <2>3. /\ s \in Stores /\ s.results \cup s.futures \subseteq s.stamps
        /\ s.results = store.results \cup {b} /\ s.futures = store.futures
    BY <2>1, StorageFacts, StampFacts DEF Reclaimable
  <2> HIDE DEF s
  <2>4. /\ store' \in Stores /\ Reclaimable'
        /\ store'.results = store.results \cup {b} /\ store'.futures = store.futures \ {b}
    BY <2>1, <2>2, <2>3, StorageFacts, StampFacts DEF Reclaimable
  <2> QED
    BY <2>2, <2>4 DEF NoLostWakeup
<1>9. CASE UNCHANGED vars
  BY <1>1, <1>9 DEF vars, batchVars, toolVars
<1> QED
  BY <1>3, <1>4, <1>5, <1>6, <1>7, <1>8, <1>9 DEF Next, BatchStep, Process

\* A batch that is over stays over.
LEMMA OverForGood ==
  ASSUME ControlTypes, Ownership, ControlMove, NEW b \in Batches, phase[b] = "over"
  PROVE  phase'[b] = "over"
<1> USE DEF ControlTypes, Ownership
<1>1. ASSUME NEW t \in Turns, Enter(t) \/ Collect(t) \/ CloseGenerator(t) PROVE phase'[b] = "over"
  BY <1>1 DEF Enter, SameBatches, Collect, CloseGenerator, Phase, DispatchingBatch
<1>2. ASSUME NEW t \in Turns, NEW p \in PCs,
             Proceed(t, p) \/ Leave(t, p) \/ Dispatch(t, p) \/ Complete(t, p) \/ LeaveBehind(t, p)
      PROVE  phase'[b] = "over"
  BY <1>2 DEF Proceed, Leave, Dispatch, Complete, LeaveBehind, Abandon, SameBatches, Phase,
     DispatchingBatch, Dispatching
<1>3. ASSUME NEW t \in Turns, NEW k, Respond(t, k) PROVE phase'[b] = "over"
  BY <1>3 DEF Respond
<1>4. ASSUME NEW c \in Batches, NEW p, Reprocess(c, p) \/ CompleteDetached(c) PROVE phase'[b] = "over"
  BY <1>4 DEF Reprocess, CompleteDetached, Phase
<1> QED
  BY <1>1, <1>2, <1>3, <1>4 DEF ControlMove, Untouched

\* The kind of a batch is settled when the model responds.
LEMMA KindSettled ==
  ASSUME ControlTypes, Ownership, ControlMove, NEW b \in Batches, kind[b] # "none"
  PROVE  kind'[b] = kind[b]
<1>1. ASSUME NEW t \in Turns, NEW k, Respond(t, k) PROVE kind'[b] = kind[b]
  <2>1. PICK n \in Nat : Used = 1..n
    BY DEF Ownership, Numbered
  <2>2. NextBatch # b
    BY <2>1, NextBatchIsNext DEF Used
  <2> QED
    BY <1>1, <2>2 DEF Respond, ControlTypes
<1> QED
  BY <1>1 DEF ControlMove, Enter, Collect, CloseGenerator, Proceed, Leave, Dispatch, Complete, LeaveBehind,
     SameBatches, Reprocess, CompleteDetached, Untouched

\* A turn handles no message; it dispatches in PrepareLocal only, and unregisters
\* nothing.
LEMMA TurnNet ==
  ASSUME NEW t, Submit(t) \/ TurnStep(t) \/ Cancel(t)
  PROVE  /\ msg' = msg
         /\ resolved \subseteq resolved'
         /\ ~PrepareLocal(t) => dispatched' = dispatched
BY DEF netVars, toolVars, Submit, TurnStep, Cancel, AcquireLock, NoModelSelected, AddUserMessage,
   CallModel, Model, ModelAnswers, ModelMalformed, ModelCallsTools, Prepare, PrepareLocal, PrepareFails,
   PrepareBackend, ExecuteRaises, BackendDone, Sent, SendFails, CloseGenerator, FutureExpired,
   Finalize, GeneratorEnds, HandlerEnds, CancelOutside, CancelInside, CancelPreparing,
   CancelSending, CancelWaiting

\* Calls stay registered until their batch is over, and messages follow dispatches.
LEMMA RegistryStep ==
  ASSUME LoopInv, [Next]_vars
  PROVE  /\ dispatched' \subseteq Batches
         /\ msg' \in [Messages -> {"unsent", "inbox", "routing", "dropped", "done"}]
         /\ RegisteredWhileOpen'
<1> USE DEF LoopInv, ControlInv, DataInv, DataTypes
<1> DEFINE Goal == /\ dispatched' \subseteq Batches
                   /\ msg' \in [Messages -> {"unsent", "inbox", "routing", "dropped", "done"}]
                   /\ RegisteredWhileOpen'
<1>1. ControlMove
  BY StepMoves
<1>2. \A b \in Batches : /\ phase[b] = "over" => phase'[b] = "over"
                         /\ kind[b] # "none" => kind'[b] = kind[b]
  BY <1>1, OverForGood, KindSettled
\* Nothing is dispatched or received, and only calls that get over are unregistered.
<1>3. ASSUME UNCHANGED <<dispatched, msg>>,
             \A b \in Batches : <<b, 0>> \in resolved => <<b, 0>> \in resolved' \/ phase'[b] = "over"
      PROVE  Goal
  <2>1. ASSUME NEW b \in dispatched
        PROVE  /\ kind'[b] \in {"single", "bundle"}
               /\ kind'[b] = "single" /\ phase'[b] # "over" => <<b, 0>> \in resolved'
    <3>1. b \in Batches /\ kind[b] \in {"single", "bundle"} /\ kind'[b] = kind[b]
      BY <1>2 DEF RegisteredWhileOpen
    <3>2. phase'[b] # "over" => phase[b] # "over"
      BY <1>2, <3>1
    <3> QED
      BY <1>3, <3>1, <3>2 DEF RegisteredWhileOpen
  <2> QED
    BY <1>3, <2>1 DEF RegisteredWhileOpen
<1>4. ASSUME NEW t \in Turns, Submit(t) \/ TurnStep(t) \/ Cancel(t) PROVE Goal
  <2>1. CASE PrepareLocal(t)
    <3>1. cur[t] \in Batches /\ kind[cur[t]] \in {"single", "bundle"}
      BY <2>1 DEF PrepareLocal, ControlTypes, Ownership, OneOwner, DispatchingBatch, Dispatching
    <3>2. dispatched' = dispatched \cup {cur[t]} /\ resolved' = resolved \cup ResolvedIds(cur[t])
          /\ UNCHANGED <<kind, phase, msg>>
      BY <2>1 DEF PrepareLocal, batchVars
    <3>3. kind[cur[t]] = "single" => <<cur[t], 0>> \in resolved'
      BY <3>2 DEF ResolvedIds
    <3> QED
      BY <3>1, <3>2, <3>3 DEF RegisteredWhileOpen
  <2>2. CASE ~PrepareLocal(t)
    <3>1. UNCHANGED <<dispatched, msg>> /\ resolved \subseteq resolved'
      BY <1>4, <2>2, TurnNet
    <3> QED
      BY <1>3, <3>1
  <2> QED
    BY <2>1, <2>2
<1>5. ASSUME NEW b \in Batches, Process(b) PROVE Goal
  <2>1. UNCHANGED <<dispatched, msg>> /\ phase'[b] = "over"
    BY <1>5, ProcessMoves DEF ControlTypes
  <2>2. \A c \in Batches \ {b} : <<c, 0>> \in resolved => <<c, 0>> \in resolved'
    BY <1>5, ProcessData
  <2> QED
    BY <1>3, <2>1, <2>2
<1>6. ASSUME NEW b \in Batches, StartWait(b) \/ DetachedExpired(b) PROVE Goal
  BY <1>3, <1>6 DEF StartWait, DetachedExpired, netVars, toolVars
<1>7. ASSUME NEW m \in Messages, SdkReplies(m) \/ RouteLookup(m) \/ RouteStore(m) PROVE Goal
  <2>1. UNCHANGED <<kind, phase, resolved, dispatched>>
    BY <1>7 DEF SdkReplies, RouteLookup, RouteStore, batchVars, toolVars
  <2>2. \E p \in {"inbox", "routing", "dropped", "done"} : msg' = [msg EXCEPT ![m] = p]
    BY <1>7 DEF SdkReplies, RouteLookup, RouteStore
  <2>3. m[1] \in dispatched
    BY <1>7 DEF SdkReplies, RouteLookup, RouteStore, RegisteredWhileOpen
  <2> QED
    BY <2>1, <2>2, <2>3 DEF RegisteredWhileOpen
<1>8. CASE UNCHANGED vars
  BY <1>3, <1>8 DEF vars, netVars, toolVars
<1> QED
  BY <1>4, <1>5, <1>6, <1>7, <1>8 DEF Next, BatchStep, Process

-----------------------------------------------------------------------------
(* The theorems *)

LEMMA LoopInit == Init => LoopInv
<1> SUFFICES ASSUME Init PROVE LoopInv
  OBVIOUS
<1>1. ControlTypes /\ DataTypes
  BY ConstantsAssumption DEF Init, ControlTypes, DataTypes, Stores, EmptyStore, PCs
<1>2. Numbered
  <2>1. Used = 1..0
    BY DEF Init, Used
  <2> QED
    BY <2>1 DEF Init, Numbered
<1>3. OneOwner /\ DispatchingBatch /\ ProcessingBatch /\ ProcessedBatch
  BY DEF Init, OneOwner, DispatchingBatch, ProcessingBatch, ProcessedBatch, Dispatching
<1>4. AbandonedEnded /\ LockMatchesGenerator
  BY ConstantsAssumption DEF Init, AbandonedEnded, LockMatchesGenerator, InsideLock, Holding
<1>5. NoLostWakeup /\ Reclaimable /\ RegisteredWhileOpen
  BY DEF Init, NoLostWakeup, Reclaimable, RegisteredWhileOpen, EmptyStore
<1> QED
  BY <1>1, <1>2, <1>3, <1>4, <1>5 DEF LoopInv, ControlInv, DataInv, Ownership

LEMMA LoopStep == LoopInv /\ [Next]_vars => LoopInv'
<1> SUFFICES ASSUME LoopInv, [Next]_vars PROVE LoopInv'
  OBVIOUS
<1>1. ControlTypes /\ Ownership /\ AbandonedEnded /\ LockMatchesGenerator
  BY DEF LoopInv, ControlInv
<1>2. ControlMove
  BY <1>1, StepMoves
<1>3. ControlInv'
  BY <1>1, <1>2, MoveTypes, MoveOwnership, MoveLock DEF ControlInv
<1>4. DataInv'
  BY StorageStep, RegistryStep DEF DataInv, DataTypes
<1> QED
  BY <1>3, <1>4 DEF LoopInv

LEMMA LoopInvariant == Spec => []LoopInv
BY LoopInit, LoopStep, PTL DEF Spec

\* The session lock is held exactly by the turn whose generator is inside it: no way
\* out of process_query and run_loop leaks it, and no two turns share it.
THEOREM LockTheorem == Spec => []LockMatchesGenerator
<1>1. LoopInv => LockMatchesGenerator
  BY DEF LoopInv, ControlInv
<1> QED
  BY <1>1, LoopInvariant, PTL

\* ToolResultStorage loses no wake-up, and everything in it has the timestamp that
\* cleanup_old_results needs.
THEOREM StorageTheorem == Spec => []StorageSound
<1>1. LoopInv => StorageSound
  BY DEF LoopInv, DataInv, StorageSound
<1> QED
  BY <1>1, LoopInvariant, PTL

\* The result of a dispatched single call is dropped only when its batch is over.
THEOREM SingleResultTheorem == Spec => SingleResultKept
<1> DEFINE Kept == \A m \in Messages :
                     msg[m] = "inbox" /\ msg'[m] = "dropped" /\ kind[m[1]] = "single"
                       => phase[m[1]] = "over"
<1>1. ASSUME LoopInv, [Next]_vars PROVE Kept
  <2> SUFFICES ASSUME NEW m \in Messages, msg[m] = "inbox", msg'[m] = "dropped",
                      kind[m[1]] = "single"
               PROVE  phase[m[1]] = "over"
    OBVIOUS
  <2>1. ~SessionFound(m[1])
    \* Of all steps only RouteLookup drops a message.
    <3>1. ASSUME NEW b \in Batches, BatchStep(b) PROVE msg' = msg
      BY <1>1, <3>1, ProcessMoves DEF BatchStep, Process, StartWait, DetachedExpired, netVars,
         LoopInv, ControlInv
    <3>2. PICK n \in Messages : SdkReplies(n) \/ RouteLookup(n) \/ RouteStore(n)
      BY <1>1, <3>1, TurnNet DEF Next, vars, netVars
    <3>3. m = n /\ RouteLookup(m)
      BY <1>1, <3>2 DEF SdkReplies, RouteLookup, RouteStore, LoopInv, DataInv, DataTypes
    <3> QED
      BY <1>1, <3>3 DEF RouteLookup, LoopInv, DataInv, DataTypes
  <2>2. <<m[1], 0>> \notin resolved
    BY <2>1 DEF SessionFound
  <2> QED
    BY <1>1, <2>2 DEF LoopInv, DataInv, RegisteredWhileOpen
<1> QED
  BY <1>1, LoopInvariant, PTL DEF Spec, SingleResultKept

-----------------------------------------------------------------------------
(* The conversation history *)

Histories == [rows : Seq(Rows), staged : Seq(RealCalls), all : BOOLEAN]

\* The calls an assistant row asks for, and the rows that answer one.
Asks(r) == {CallIds(r.from, r.out)[i] : i \in DOMAIN CallIds(r.from, r.out)}
IsAnswer(r) == r.type = "tool" /\ r.out # "malformed"

\* Of the first n rows.
Asked(rows, n, c) == \E j \in 1..n : rows[j].type = "assistant" /\ c \in Asks(rows[j])
Answered(rows, n, c) == \E j \in 1..n : IsAnswer(rows[j]) /\ rows[j].call = c

\* The staged ids are open calls, each staged once.
StagedOpen(h) ==
  /\ \A i, j \in 1..Len(h.staged) : h.staged[i] = h.staged[j] => i = j
  /\ \A i \in 1..Len(h.staged) : /\ Asked(h.rows, Len(h.rows), h.staged[i])
                                 /\ ~Answered(h.rows, Len(h.rows), h.staged[i])

\* The ledger of a sequence of rows.
LogOf(rows) == [i \in DOMAIN rows |-> LedgerEntry(rows[i])]

\* s continues r as a ledger does.
Grows(r, s) ==
  /\ Len(s) >= Len(r)
  /\ \A i \in 1..Len(r) : s[i] = r[i]
  /\ \A i \in (Len(r) + 1)..Len(s) : Ledger!Follows(LogOf(s), i)

\* h becomes g by outputs for staged calls and by rows without calls.  Outputs are
\* from the batches of S, or stand in for an answer.
Processed(h, g, S) ==
  /\ g \in Histories /\ StagedOpen(g) /\ Grows(h.rows, g.rows)
  /\ \A i \in 1..Len(g.staged) : \E j \in 1..Len(h.staged) : g.staged[i] = h.staged[j]
  /\ \A i \in (Len(h.rows) + 1)..Len(g.rows) :
       /\ g.rows[i].type # "assistant"
       /\ g.rows[i].type = "tool" =>
            /\ g.rows[i].out = "cancelled" \/ g.rows[i].from \in S
            /\ \E j \in 1..Len(h.staged) : g.rows[i].call = h.staged[j]

\* What the history mentions belongs to a batch that exists.
Mentioned ==
  /\ \A i \in 1..Len(history.staged) : history.staged[i][1] \in Used
  /\ \A i \in 1..Len(history.rows) :
       /\ history.rows[i].type = "assistant" => history.rows[i].from \in Used
       /\ IsAnswer(history.rows[i]) => history.rows[i].call[1] \in Used

Busy == {"prepare", "backend", "sending", "tools"}

\* While a turn dispatches or processes its batch, nothing else is staged.
StagedOwn ==
  \A t \in Turns : pc[t] \in Busy =>
    \A i \in 1..Len(history.staged) : history.staged[i][1] = cur[t]

HistoryInv ==
  /\ history \in Histories /\ StagedOpen(history) /\ Mentioned /\ StagedOwn
  /\ OwnOutputUnlessOrphaned

-----------------------------------------------------------------------------
(* Lemmas about rows and the ledger *)

LEMMA EntryFacts ==
  ASSUME NEW r
  PROVE  /\ r.type = "assistant" => LedgerEntry(r) = [kind |-> "ask", calls |-> Asks(r)]
         /\ IsAnswer(r) => LedgerEntry(r) = [kind |-> "answer", calls |-> {r.call}]
         /\ r.type # "assistant" /\ ~IsAnswer(r) =>
              LedgerEntry(r) = [kind |-> "note", calls |-> {}]
BY DEF LedgerEntry, Asks, IsAnswer

LEMMA AskedFrom ==
  ASSUME NEW r, NEW c \in Asks(r)
  PROVE  c[1] = r.from
<1> DEFINE ids == CallIds(r.from, r.out)
           n == IF r.out = "bundle" THEN BundleSize ELSE 1
<1>1. ids = [i \in 1..n |-> <<r.from, i>>]
  BY DEF CallIds
<1>2. PICK i \in DOMAIN ids : c = ids[i]
  BY DEF Asks
<1> HIDE DEF n, ids
<1>3. c = <<r.from, i>>
  BY <1>1, <1>2
<1> QED
  BY <1>3

LEMMA AsksOf ==
  ASSUME NEW b \in Batches, NEW k \in {"single", "bundle"}, NEW r, r.from = b, r.out = k
  PROVE  /\ Asks(r) \subseteq RealCalls /\ \A c \in Asks(r) : c[1] = b
         /\ CallIds(b, k) \in Seq(RealCalls) /\ Len(CallIds(b, k)) \in Nat
         /\ \A i \in 1..Len(CallIds(b, k)) : /\ CallIds(b, k)[i] = <<b, i>>
                                             /\ CallIds(b, k)[i] \in Asks(r)
<1> DEFINE n == IF k = "bundle" THEN BundleSize ELSE 1
<1>1. n \in Nat /\ 1..n \subseteq 1..BundleSize
  BY ConstantsAssumption
<1>2. CallIds(b, k) = [i \in 1..n |-> <<b, i>>]
  BY DEF CallIds
<1> HIDE DEF n
<1>3. \A i \in 1..n : <<b, i>> \in RealCalls
  BY <1>1 DEF RealCalls
<1>4. CallIds(b, k) \in Seq(RealCalls)
  BY <1>1, <1>2, <1>3, IsASeq
<1>5. Len(CallIds(b, k)) = n
  BY <1>1, <1>2, <1>4, LenProperties
<1> QED
  BY <1>1, <1>2, <1>3, <1>4, <1>5 DEF Asks

\* An answer follows when its call is open, ...
LEMMA AnswerFollows ==
  ASSUME NEW rows \in Seq(Rows), NEW i \in 1..Len(rows), IsAnswer(rows[i]),
         rows[i].call \in RealCalls,
         Asked(rows, i - 1, rows[i].call), ~Answered(rows, i - 1, rows[i].call)
  PROVE  Ledger!Follows(LogOf(rows), i)
<1> DEFINE l == LogOf(rows)
           c == rows[i].call
<1>1. \A j \in 1..i : j \in DOMAIN rows /\ l[j] = LedgerEntry(rows[j])
  BY LenProperties DEF LogOf
<1>2. l[i] = [kind |-> "answer", calls |-> {c}]
  <2>1. l[i] = LedgerEntry(rows[i])
    BY <1>1
  <2> QED
    BY <2>1, EntryFacts
<1>3. l[i] \in Ledger!Entries
  BY <1>2 DEF Ledger!Entries
<1>4. c \in Ledger!Before(l, i, "ask")
  <2>1. PICK j \in 1..(i - 1) : rows[j].type = "assistant" /\ c \in Asks(rows[j])
    BY DEF Asked
  <2>2. l[j].kind = "ask" /\ c \in l[j].calls
    BY <1>1, <2>1, EntryFacts
  <2> QED
    BY <2>1, <2>2 DEF Ledger!Before
<1>5. c \notin Ledger!Before(l, i, "answer")
  <2>1. SUFFICES ASSUME NEW j \in 1..(i - 1), l[j].kind = "answer", c \in l[j].calls
                 PROVE  FALSE
    BY DEF Ledger!Before
  <2>2. l[j] = LedgerEntry(rows[j])
    BY <1>1
  <2>3. IsAnswer(rows[j]) /\ rows[j].call = c
    <3>1. rows[j].type # "assistant"
      BY <2>1, <2>2, EntryFacts
    <3>2. IsAnswer(rows[j])
      BY <2>1, <2>2, <3>1, EntryFacts
    <3> QED
      BY <2>1, <2>2, <3>2, EntryFacts
  <2> QED
    BY <2>3 DEF Answered
<1> QED
  BY <1>2, <1>3, <1>4, <1>5 DEF Ledger!Follows

\* ... a row without calls always does, ...
LEMMA NoteFollows ==
  ASSUME NEW rows \in Seq(Rows), NEW i \in 1..Len(rows), ~IsAnswer(rows[i]),
         rows[i].type # "assistant"
  PROVE  Ledger!Follows(LogOf(rows), i)
<1>1. LogOf(rows)[i] = LedgerEntry(rows[i])
  BY LenProperties DEF LogOf
<1>2. LogOf(rows)[i] = [kind |-> "note", calls |-> {}]
  BY <1>1, EntryFacts
<1> QED
  BY <1>2 DEF Ledger!Follows, Ledger!Entries

\* ... and an assistant row does when nothing mentions its calls yet.
LEMMA AskFollows ==
  ASSUME NEW rows \in Seq(Rows), NEW i \in 1..Len(rows), rows[i].type = "assistant",
         Asks(rows[i]) \subseteq RealCalls,
         \A c \in Asks(rows[i]) : ~Asked(rows, i - 1, c) /\ ~Answered(rows, i - 1, c)
  PROVE  Ledger!Follows(LogOf(rows), i)
<1> DEFINE l == LogOf(rows)
<1>1. \A j \in 1..i : j \in DOMAIN rows /\ l[j] = LedgerEntry(rows[j])
  BY LenProperties DEF LogOf
<1>2. l[i] = [kind |-> "ask", calls |-> Asks(rows[i])]
  BY <1>1, EntryFacts
<1>3. l[i] \in Ledger!Entries
  BY <1>2 DEF Ledger!Entries
<1>4. ASSUME NEW c \in Asks(rows[i]), NEW j \in 1..(i - 1), l[j].kind \in {"ask", "answer"}
      PROVE  c \notin l[j].calls
  <2>1. l[j] = LedgerEntry(rows[j])
    BY <1>1
  <2>2. ~(rows[j].type = "assistant" /\ c \in Asks(rows[j]))
        /\ ~(IsAnswer(rows[j]) /\ rows[j].call = c)
    BY DEF Asked, Answered
  <2>3. CASE rows[j].type = "assistant"
    BY <2>1, <2>2, <2>3, EntryFacts
  <2>4. CASE IsAnswer(rows[j])
    BY <2>1, <2>2, <2>4, EntryFacts
  <2>5. CASE rows[j].type # "assistant" /\ ~IsAnswer(rows[j])
    BY <1>4, <2>1, <2>5, EntryFacts
  <2> QED
    BY <2>3, <2>4, <2>5
<1>5. Asks(rows[i]) \cap (Ledger!Before(l, i, "ask") \cup Ledger!Before(l, i, "answer")) = {}
  BY <1>4 DEF Ledger!Before
<1> QED
  BY <1>2, <1>3, <1>5 DEF Ledger!Follows

\* Whether row i follows depends on the rows up to it.
LEMMA FollowsPrefix ==
  ASSUME NEW r \in Seq(Rows), NEW s \in Seq(Rows), Len(r) <= Len(s),
         \A j \in 1..Len(r) : s[j] = r[j],
         NEW i \in 1..Len(r), Ledger!Follows(LogOf(r), i)
  PROVE  Ledger!Follows(LogOf(s), i)
<1> DEFINE l == LogOf(r)
           m == LogOf(s)
<1>1. Len(r) \in Nat /\ Len(s) \in Nat /\ DOMAIN r = 1..Len(r) /\ DOMAIN s = 1..Len(s)
  BY LenProperties
<1>2. \A j \in 1..i : l[j] = m[j]
  BY <1>1 DEF LogOf
<1> HIDE DEF l, m
<1>3. ASSUME NEW k PROVE Ledger!Before(l, i, k) = Ledger!Before(m, i, k)
  <2>1. {j \in 1..(i - 1) : l[j].kind = k} = {j \in 1..(i - 1) : m[j].kind = k}
    BY <1>2
  <2>2. \A j \in {j \in 1..(i - 1) : m[j].kind = k} : l[j].calls = m[j].calls
    BY <1>2
  <2>3. {l[j].calls : j \in {j \in 1..(i - 1) : l[j].kind = k}}
          = {m[j].calls : j \in {j \in 1..(i - 1) : m[j].kind = k}}
    BY <2>1, <2>2
  <2> QED
    BY <2>3 DEF Ledger!Before
<1>4. Ledger!Follows(l, i)
  BY DEF l
<1>5. l[i] = m[i]
  BY <1>1, <1>2
<1>6. Ledger!Follows(m, i)
  BY <1>3, <1>4, <1>5 DEF Ledger!Follows
<1> QED
  BY <1>6 DEF m

LEMMA GrowsTrans ==
  ASSUME NEW r \in Seq(Rows), NEW s \in Seq(Rows), NEW u \in Seq(Rows), Grows(r, s), Grows(s, u)
  PROVE  Grows(r, u)
<1>1. Len(r) \in Nat /\ Len(s) \in Nat /\ Len(u) \in Nat
  BY LenProperties
<1>2. Len(r) <= Len(s) /\ Len(s) <= Len(u)
  BY DEF Grows
<1>3. \A j \in 1..Len(s) : u[j] = s[j]
  BY DEF Grows
<1>4. \A j \in 1..Len(r) : u[j] = r[j]
  BY <1>1, <1>2, <1>3 DEF Grows
<1>5. ASSUME NEW i \in (Len(r) + 1)..Len(u) PROVE Ledger!Follows(LogOf(u), i)
  <2>1. CASE i <= Len(s)
    <3>1. i \in 1..Len(s) /\ Ledger!Follows(LogOf(s), i)
      BY <1>1, <2>1 DEF Grows
    <3> QED
      BY <1>2, <1>3, <3>1, FollowsPrefix
  <2>2. CASE i > Len(s)
    BY <1>1, <2>2 DEF Grows
  <2> QED
    BY <1>1, <2>1, <2>2
<1> QED
  BY <1>1, <1>2, <1>4, <1>5 DEF Grows

-----------------------------------------------------------------------------
(* Lemmas about the operations of ConversationHistory *)

LEMMA HistoryTypes ==
  ASSUME NEW h \in Histories
  PROVE  /\ h.rows \in Seq(Rows) /\ h.staged \in Seq(RealCalls) /\ h.all \in BOOLEAN
         /\ Len(h.rows) \in Nat /\ Len(h.staged) \in Nat
         /\ DOMAIN h.rows = 1..Len(h.rows) /\ DOMAIN h.staged = 1..Len(h.staged)
<1>1. h.rows \in Seq(Rows) /\ h.staged \in Seq(RealCalls) /\ h.all \in BOOLEAN
  BY DEF Histories
<1> QED
  BY <1>1, LenProperties

\* Answers to the first n staged calls.
LEMMA AnswersStaged ==
  ASSUME NEW h \in Histories, NEW g \in Histories, NEW n \in Nat, NEW S,
         StagedOpen(h), n <= Len(h.staged),
         Len(g.rows) = Len(h.rows) + n,
         \A i \in 1..Len(h.rows) : g.rows[i] = h.rows[i],
         \A i \in 1..n : /\ IsAnswer(g.rows[Len(h.rows) + i])
                         /\ g.rows[Len(h.rows) + i].call = h.staged[i]
                         /\ \/ g.rows[Len(h.rows) + i].out = "cancelled"
                            \/ g.rows[Len(h.rows) + i].from \in S,
         Len(g.staged) = Len(h.staged) - n,
         \A i \in 1..Len(g.staged) : g.staged[i] = h.staged[i + n]
  PROVE  Processed(h, g, S)
<1> DEFINE m == Len(h.rows)
<1>1. /\ m \in Nat /\ Len(h.staged) \in Nat /\ Len(g.staged) \in Nat
      /\ g.rows \in Seq(Rows) /\ \A i \in 1..Len(h.staged) : h.staged[i] \in RealCalls
  BY HistoryTypes, ElementOfSeq
<1>2. ASSUME NEW i \in (m + 1)..Len(g.rows)
      PROVE  \E k \in 1..n : i = m + k
  <2>1. i - m \in 1..n /\ i = m + (i - m)
    BY <1>1
  <2> QED
    BY <2>1
<1>3. ASSUME NEW k \in 1..n
      PROVE  Asked(g.rows, (m + k) - 1, h.staged[k]) /\ ~Answered(g.rows, (m + k) - 1, h.staged[k])
  <2>1. k \in 1..Len(h.staged)
    BY <1>1
  <2>2. PICK j \in 1..m : h.rows[j].type = "assistant" /\ h.staged[k] \in Asks(h.rows[j])
    BY <2>1 DEF StagedOpen, Asked
  <2>3. j \in 1..((m + k) - 1) /\ g.rows[j] = h.rows[j]
    BY <1>1
  <2>4. ASSUME NEW i \in 1..((m + k) - 1), IsAnswer(g.rows[i]), g.rows[i].call = h.staged[k]
        PROVE  FALSE
    <3>1. CASE i <= m
      <4>1. i \in 1..m /\ g.rows[i] = h.rows[i]
        BY <1>1, <3>1
      <4>2. ~Answered(h.rows, m, h.staged[k])
        BY <2>1 DEF StagedOpen
      <4> QED
        BY <2>4, <4>1, <4>2 DEF Answered
    <3>2. CASE i > m
      <4>1. PICK p \in 1..n : i = m + p
        <5>1. i \in (m + 1)..Len(g.rows)
          BY <1>1, <3>2
        <5> QED
          BY <1>2, <5>1
      <4>2. p < k /\ p \in 1..Len(h.staged) /\ h.staged[p] = h.staged[k]
        BY <1>1, <2>4, <4>1
      <4> QED
        BY <2>1, <4>2 DEF StagedOpen
    <3> QED
      BY <1>1, <3>1, <3>2
  <2> QED
    BY <2>2, <2>3, <2>4 DEF Asked, Answered
<1>4. ASSUME NEW i \in (m + 1)..Len(g.rows)
      PROVE  /\ Ledger!Follows(LogOf(g.rows), i)
             /\ g.rows[i].type = "tool"
             /\ g.rows[i].out = "cancelled" \/ g.rows[i].from \in S
             /\ \E j \in 1..Len(h.staged) : g.rows[i].call = h.staged[j]
  <2>1. PICK k \in 1..n : i = m + k
    BY <1>2
  <2>2. /\ IsAnswer(g.rows[i]) /\ g.rows[i].call = h.staged[k]
        /\ g.rows[i].out = "cancelled" \/ g.rows[i].from \in S
    BY <2>1
  <2>3. i \in 1..Len(g.rows) /\ k \in 1..Len(h.staged)
    BY <1>1, <2>1
  <2>4. Ledger!Follows(LogOf(g.rows), i)
    BY <1>1, <1>3, <2>1, <2>2, <2>3, AnswerFollows
  <2> QED
    BY <2>2, <2>3, <2>4 DEF IsAnswer
<1>5. Grows(h.rows, g.rows)
  BY <1>1, <1>4 DEF Grows
<1>6. ASSUME NEW i \in 1..Len(g.staged)
      PROVE  /\ i + n \in 1..Len(h.staged) /\ g.staged[i] = h.staged[i + n]
             /\ Asked(g.rows, Len(g.rows), g.staged[i])
             /\ ~Answered(g.rows, Len(g.rows), g.staged[i])
  <2>1. i + n \in 1..Len(h.staged) /\ g.staged[i] = h.staged[i + n]
    BY <1>1
  <2>2. PICK j \in 1..m : h.rows[j].type = "assistant" /\ g.staged[i] \in Asks(h.rows[j])
    BY <2>1 DEF StagedOpen, Asked
  <2>3. j \in 1..Len(g.rows) /\ g.rows[j] = h.rows[j]
    BY <1>1
  <2>4. ASSUME NEW j2 \in 1..Len(g.rows), IsAnswer(g.rows[j2]), g.rows[j2].call = g.staged[i]
        PROVE  FALSE
    <3>1. CASE j2 <= m
      <4>1. j2 \in 1..m /\ g.rows[j2] = h.rows[j2]
        BY <1>1, <3>1
      <4>2. ~Answered(h.rows, m, g.staged[i])
        BY <2>1 DEF StagedOpen
      <4> QED
        BY <2>4, <4>1, <4>2 DEF Answered
    <3>2. CASE j2 > m
      <4>1. PICK p \in 1..n : j2 = m + p
        <5>1. j2 \in (m + 1)..Len(g.rows)
          BY <1>1, <3>2
        <5> QED
          BY <1>2, <5>1
      <4>2. p < i + n /\ p \in 1..Len(h.staged) /\ h.staged[p] = h.staged[i + n]
        BY <1>1, <2>1, <2>4, <4>1
      <4> QED
        BY <2>1, <4>2 DEF StagedOpen
    <3> QED
      BY <1>1, <3>1, <3>2
  <2> QED
    BY <2>1, <2>2, <2>3, <2>4 DEF Asked, Answered
<1>7. StagedOpen(g)
  <2>1. ASSUME NEW i \in 1..Len(g.staged), NEW j \in 1..Len(g.staged), g.staged[i] = g.staged[j]
        PROVE  i = j
    <3>1. /\ i + n \in 1..Len(h.staged) /\ j + n \in 1..Len(h.staged)
          /\ h.staged[i + n] = h.staged[j + n]
      BY <1>6, <2>1
    <3>2. i + n = j + n
      BY <3>1 DEF StagedOpen
    <3> QED
      BY <1>1, <3>2
  <2> QED
    BY <1>6, <2>1 DEF StagedOpen
<1> QED
  BY <1>4, <1>5, <1>6, <1>7 DEF Processed

\* A row without calls, and without effect on the staged ids.
LEMMA AddsNote ==
  ASSUME NEW h \in Histories, StagedOpen(h), NEW row \in Rows, NEW S,
         row.type # "tool", row.type # "assistant"
  PROVE  Processed(h, AddRow(h, row), S)
<1> DEFINE g == AddRow(h, row)
           m == Len(h.rows)
<1>1. /\ m \in Nat /\ h.rows \in Seq(Rows) /\ Len(h.staged) \in Nat
  BY HistoryTypes
<1>2. /\ g \in Histories /\ g.rows = Append(h.rows, row) /\ g.staged = h.staged
  BY <1>1, AppendProperties DEF AddRow, Histories
<1>3. /\ g.rows \in Seq(Rows) /\ Len(g.rows) = m + 1
      /\ \A i \in 1..m : g.rows[i] = h.rows[i]
      /\ g.rows[m + 1] = row
  BY <1>1, <1>2, AppendProperties
<1> HIDE DEF g
<1>4. ~IsAnswer(row)
  BY DEF IsAnswer
<1>5. ASSUME NEW i \in (m + 1)..Len(g.rows)
      PROVE  i = m + 1 /\ Ledger!Follows(LogOf(g.rows), i)
  <2>1. i = m + 1 /\ i \in 1..Len(g.rows)
    BY <1>1, <1>3
  <2> QED
    BY <1>3, <1>4, <2>1, NoteFollows
<1>6. Grows(h.rows, g.rows)
  BY <1>1, <1>3, <1>5 DEF Grows
<1>7. StagedOpen(g)
  <2>1. ASSUME NEW i \in 1..Len(h.staged)
        PROVE  /\ Asked(g.rows, Len(g.rows), h.staged[i])
               /\ ~Answered(g.rows, Len(g.rows), h.staged[i])
    <3>1. PICK j \in 1..m : h.rows[j].type = "assistant" /\ h.staged[i] \in Asks(h.rows[j])
      BY DEF StagedOpen, Asked
    <3>2. j \in 1..Len(g.rows) /\ g.rows[j] = h.rows[j]
      BY <1>1, <1>3
    <3>3. ASSUME NEW k \in 1..Len(g.rows), IsAnswer(g.rows[k]), g.rows[k].call = h.staged[i]
          PROVE  FALSE
      <4>1. k \in 1..m /\ g.rows[k] = h.rows[k]
        BY <1>1, <1>3, <1>4, <3>3
      <4> QED
        BY <3>3, <4>1 DEF StagedOpen, Answered
    <3> QED
      BY <3>1, <3>2, <3>3 DEF Asked, Answered
  <2> QED
    BY <1>2, <2>1 DEF StagedOpen
<1>8. \A i \in 1..Len(g.staged) : \E j \in 1..Len(h.staged) : g.staged[i] = h.staged[j]
  BY <1>2
<1> QED
  BY <1>2, <1>3, <1>5, <1>6, <1>7, <1>8 DEF Processed, g

LEMMA ProcessedRefl ==
  ASSUME NEW h \in Histories, StagedOpen(h), NEW S
  PROVE  Processed(h, h, S)
<1>1. Len(h.rows) \in Nat /\ Len(h.staged) \in Nat
  BY HistoryTypes
<1> QED
  BY <1>1 DEF Processed, Grows

LEMMA ProcessedTrans ==
  ASSUME NEW h \in Histories, NEW g, NEW k, NEW S, Processed(h, g, S), Processed(g, k, S)
  PROVE  Processed(h, k, S)
<1>1. g \in Histories /\ k \in Histories
  BY DEF Processed
<1>2. /\ h.rows \in Seq(Rows) /\ g.rows \in Seq(Rows) /\ k.rows \in Seq(Rows)
      /\ Len(h.rows) \in Nat /\ Len(g.rows) \in Nat /\ Len(k.rows) \in Nat
  BY <1>1, HistoryTypes
<1>3. Grows(h.rows, k.rows)
  BY <1>2, GrowsTrans DEF Processed
<1>4. \A i \in 1..Len(g.staged) : \E j \in 1..Len(h.staged) : g.staged[i] = h.staged[j]
  BY DEF Processed
<1>5. \A i \in 1..Len(k.staged) : \E j \in 1..Len(g.staged) : k.staged[i] = g.staged[j]
  BY DEF Processed
<1>6. \A i \in 1..Len(k.staged) : \E j \in 1..Len(h.staged) : k.staged[i] = h.staged[j]
  BY <1>4, <1>5
<1>7. ASSUME NEW i \in (Len(h.rows) + 1)..Len(k.rows)
      PROVE  /\ k.rows[i].type # "assistant"
             /\ k.rows[i].type = "tool" =>
                  /\ k.rows[i].out = "cancelled" \/ k.rows[i].from \in S
                  /\ \E j \in 1..Len(h.staged) : k.rows[i].call = h.staged[j]
  <2>1. CASE i <= Len(g.rows)
    <3>1. i \in 1..Len(g.rows) /\ i \in (Len(h.rows) + 1)..Len(g.rows)
      BY <1>2, <2>1
    <3>2. k.rows[i] = g.rows[i]
      BY <3>1 DEF Processed, Grows
    <3> QED
      BY <3>1, <3>2 DEF Processed
  <2>2. CASE i > Len(g.rows)
    <3>1. i \in (Len(g.rows) + 1)..Len(k.rows)
      BY <1>2, <2>2
    <3>2. k.rows[i].type # "assistant"
      BY <3>1 DEF Processed
    <3>3. ASSUME k.rows[i].type = "tool"
          PROVE  /\ k.rows[i].out = "cancelled" \/ k.rows[i].from \in S
                 /\ \E j \in 1..Len(h.staged) : k.rows[i].call = h.staged[j]
      <4>1. /\ k.rows[i].out = "cancelled" \/ k.rows[i].from \in S
            /\ \E j \in 1..Len(g.staged) : k.rows[i].call = g.staged[j]
        BY <3>1, <3>3 DEF Processed
      <4> QED
        BY <1>4, <4>1
    <3> QED
      BY <3>2, <3>3
  <2> QED
    BY <1>2, <2>1, <2>2
<1> QED
  BY <1>1, <1>3, <1>6, <1>7 DEF Processed

Outputs == {"stale", "result", "failure"}

\* The rows of a sequence of answers to all staged calls.
LEMMA AnswersAll ==
  ASSUME NEW h \in Histories, StagedOpen(h), NEW from \in Batches \cup {0}, NEW all \in BOOLEAN,
         NEW out \in Outputs \cup {"cancelled"}, NEW S, out = "cancelled" \/ from \in S
  PROVE  Processed(h, [rows |-> h.rows \o [i \in DOMAIN h.staged |-> ToolRow(h.staged[i], from, out)],
                       staged |-> <<>>, all |-> all], S)
<1> DEFINE new == [i \in DOMAIN h.staged |-> ToolRow(h.staged[i], from, out)]
           g == [rows |-> h.rows \o new, staged |-> <<>>, all |-> all]
           n == Len(h.staged)
<1>1. /\ n \in Nat /\ Len(h.rows) \in Nat /\ DOMAIN h.staged = 1..n /\ h.rows \in Seq(Rows)
      /\ \A i \in 1..n : h.staged[i] \in RealCalls
  BY HistoryTypes, ElementOfSeq
<1>2. \A i \in 1..n : ToolRow(h.staged[i], from, out) \in Rows
  BY <1>1 DEF ToolRow, Row, Rows, RowTypes, Outputs
<1>3. new \in Seq(Rows)
  BY <1>1, <1>2, IsASeq
<1>4. Len(new) = n
  BY <1>1, <1>3, LenProperties
<1> HIDE DEF new
<1>5. /\ h.rows \o new \in Seq(Rows) /\ Len(h.rows \o new) = Len(h.rows) + n
      /\ \A i \in 1..Len(h.rows) : (h.rows \o new)[i] = h.rows[i]
      /\ \A i \in 1..n : (h.rows \o new)[Len(h.rows) + i] = new[i]
  <2>1. /\ h.rows \o new \in Seq(Rows) /\ Len(h.rows \o new) = Len(h.rows) + Len(new)
        /\ \A i \in 1..Len(h.rows) : (h.rows \o new)[i] = h.rows[i]
        /\ \A i \in 1..Len(new) : (h.rows \o new)[Len(h.rows) + i] = new[i]
    BY <1>1, <1>3, ConcatFacts
  <2> HIDE DEF n
  <2> QED
    BY <1>4, <2>1
<1>6. \A i \in 1..n : new[i] = ToolRow(h.staged[i], from, out)
  BY <1>1 DEF new
<1>7. <<>> \in Seq(RealCalls) /\ Len(<<>>) = 0
  BY EmptySeq
<1>8. g \in Histories
  BY <1>5, <1>7 DEF Histories
<1>9. ASSUME NEW i \in 1..n
      PROVE  /\ IsAnswer(g.rows[Len(h.rows) + i])
             /\ g.rows[Len(h.rows) + i].call = h.staged[i]
             /\ g.rows[Len(h.rows) + i].out = out /\ g.rows[Len(h.rows) + i].from = from
  <2>1. g.rows[Len(h.rows) + i] = ToolRow(h.staged[i], from, out)
    BY <1>5, <1>6
  <2>2. /\ ToolRow(h.staged[i], from, out).type = "tool"
        /\ ToolRow(h.staged[i], from, out).call = h.staged[i]
        /\ ToolRow(h.staged[i], from, out).out = out
        /\ ToolRow(h.staged[i], from, out).from = from
    BY DEF ToolRow, Row
  <2>3. out # "malformed"
    BY DEF Outputs
  <2> HIDE DEF g
  <2> QED
    BY <2>1, <2>2, <2>3 DEF IsAnswer
<1>10. g.rows = h.rows \o new /\ g.staged = <<>>
  OBVIOUS
<1> HIDE DEF g
<1>11. Processed(h, g, S)
  <2>1. /\ Len(g.rows) = Len(h.rows) + n /\ \A i \in 1..Len(h.rows) : g.rows[i] = h.rows[i]
        /\ n \in Nat /\ n <= Len(h.staged)
    <3>1. n \in Nat /\ n <= Len(h.staged)
      BY <1>1
    <3> HIDE DEF n
    <3> QED
      BY <1>5, <1>10, <3>1
  <2>2. Len(g.staged) = Len(h.staged) - n /\ \A i \in 1..Len(g.staged) : g.staged[i] = h.staged[i + n]
    BY <1>1, <1>7, <1>10
  <2> HIDE DEF n
  <2> QED
    BY <1>8, <1>9, <2>1, <2>2, AnswersStaged
<1> QED
  BY <1>11 DEF g, new

LEMMA AddToolOutputProcessed ==
  ASSUME NEW h \in Histories, StagedOpen(h), NEW b \in Batches, NEW out \in Outputs
  PROVE  Processed(h, AddToolOutput(h, b, out), {b})
<1>1. CASE h.staged = <<>>
  <2>1. Row("unlinked", NoCall, b, out) \in Rows
    BY DEF Row, Rows, RowTypes, Outputs
  <2>2. Row("unlinked", NoCall, b, out).type = "unlinked"
    BY DEF Row
  <2>3. AddToolOutput(h, b, out) = AddRow(h, Row("unlinked", NoCall, b, out))
    BY <1>1 DEF AddToolOutput
  <2>4. Processed(h, AddRow(h, Row("unlinked", NoCall, b, out)), {b})
    BY <2>1, <2>2, AddsNote
  <2> QED
    BY <2>3, <2>4
<1>2. CASE h.staged # <<>> /\ h.all
  <2>1. AddToolOutput(h, b, out)
          = [rows |-> h.rows \o [i \in DOMAIN h.staged |-> ToolRow(h.staged[i], b, out)],
             staged |-> <<>>, all |-> FALSE]
    BY <1>2 DEF AddToolOutput
  <2>2. Processed(h, [rows |-> h.rows \o [i \in DOMAIN h.staged |-> ToolRow(h.staged[i], b, out)],
                      staged |-> <<>>, all |-> FALSE], {b})
    BY AnswersAll
  <2> QED
    BY <2>1, <2>2
<1>3. CASE h.staged # <<>> /\ ~h.all
  <2> DEFINE new == ToolRow(Head(h.staged), b, out)
             g == [rows |-> Append(h.rows, new), staged |-> Tail(h.staged), all |-> FALSE]
  <2>1. AddToolOutput(h, b, out) = g
    BY <1>3 DEF AddToolOutput
  <2>2. h.rows \in Seq(Rows) /\ h.staged \in Seq(RealCalls) /\ Len(h.rows) \in Nat /\ Len(h.staged) \in Nat
    BY HistoryTypes
  <2>3. /\ Head(h.staged) \in RealCalls /\ Tail(h.staged) \in Seq(RealCalls)
        /\ Head(h.staged) = h.staged[1] /\ Len(Tail(h.staged)) = Len(h.staged) - 1
        /\ \A i \in 1..(Len(h.staged) - 1) : Tail(h.staged)[i] = h.staged[i + 1]
        /\ 1 <= Len(h.staged)
    <3>1. Len(h.staged) # 0
      BY <1>3, <2>2, EmptySeq
    <3> QED
      BY <1>3, <2>2, <3>1, HeadTailProperties
  <2>4. new \in Rows
    BY <2>3 DEF ToolRow, Row, Rows, RowTypes, Outputs
  <2>5. IsAnswer(new) /\ new.call = h.staged[1] /\ new.from = b
    BY <2>3 DEF ToolRow, Row, IsAnswer, Outputs
  <2> HIDE DEF new
  <2>6. /\ g.rows \in Seq(Rows) /\ Len(g.rows) = Len(h.rows) + 1
        /\ \A i \in 1..Len(h.rows) : g.rows[i] = h.rows[i]
        /\ g.rows[Len(h.rows) + 1] = new
    BY <2>2, <2>4, AppendProperties
  <2>7. g \in Histories /\ g.staged = Tail(h.staged)
    BY <2>3, <2>6 DEF Histories
  <2> HIDE DEF g
  <2>8. Processed(h, g, {b})
    <3>1. \A i \in 1..1 : /\ IsAnswer(g.rows[Len(h.rows) + i])
                          /\ g.rows[Len(h.rows) + i].call = h.staged[i]
                          /\ g.rows[Len(h.rows) + i].from \in {b}
      BY <2>5, <2>6
    <3>2. \A i \in 1..Len(g.staged) : g.staged[i] = h.staged[i + 1]
      BY <2>3, <2>7
    <3>3. 1 \in Nat /\ Len(g.staged) = Len(h.staged) - 1
      BY <2>3, <2>7
    <3> QED
      BY <2>2, <2>3, <2>6, <2>7, <3>1, <3>2, <3>3, AnswersStaged
  <2> QED
    BY <2>1, <2>8
<1> QED
  BY <1>1, <1>2, <1>3, HistoryTypes

LEMMA FinalizeProcessed ==
  ASSUME NEW h \in Histories, StagedOpen(h), NEW S
  PROVE  Processed(h, FinalizePending(h), S) /\ FinalizePending(h).staged = <<>>
<1> DEFINE all == IF h.staged = <<>> THEN h.all ELSE FALSE
<1>1. all \in BOOLEAN
  BY HistoryTypes
<1> HIDE DEF all
<1>2. Processed(h, [rows |-> h.rows \o [i \in DOMAIN h.staged |-> ToolRow(h.staged[i], 0, "cancelled")],
                    staged |-> <<>>, all |-> all], S)
  BY <1>1, AnswersAll
<1> QED
  BY <1>2 DEF FinalizePending, all

\* The outputs of a batch, one after the other.
Outputting(h, b, out, n, f) ==
  f = [i \in 0..n |-> IF i = 0 THEN h ELSE AddToolOutput(f[i - 1], b, out)]

LEMMA OutputtingExists ==
  ASSUME NEW h, NEW b, NEW out, NEW n \in Nat
  PROVE  \E f : Outputting(h, b, out, n, f)
<1> DEFINE T == {k \in Nat : ~ \E f : Outputting(h, b, out, k, f)}
<1>1. SUFFICES ASSUME T # {} PROVE FALSE
  OBVIOUS
<1>2. PICK k \in T : \A y \in T : k <= y
  <2>1. T \subseteq Nat
    OBVIOUS
  <2> HIDE DEF T
  <2> QED
    BY <1>1, <2>1, LeastNat
<1>3. k \in Nat /\ ~ \E f : Outputting(h, b, out, k, f)
  OBVIOUS
<1>4. CASE k = 0
  <2>1. 0..0 = {0}
    OBVIOUS
  <2>2. Outputting(h, b, out, 0, [i \in 0..0 |-> h])
    BY <2>1 DEF Outputting
  <2> QED
    BY <1>3, <1>4, <2>2
<1>5. CASE k # 0
  <2>1. k - 1 \in Nat /\ ~(k <= k - 1)
    BY <1>3, <1>5
  <2>2. k - 1 \notin T
    BY <1>2, <2>1
  <2>3. PICK f : Outputting(h, b, out, k - 1, f)
    BY <2>1, <2>2
  <2> DEFINE g == [i \in 0..k |-> IF i = k THEN AddToolOutput(f[k - 1], b, out) ELSE f[i]]
  <2>4. ASSUME NEW i \in 0..k
        PROVE  g[i] = IF i = 0 THEN h ELSE AddToolOutput(g[i - 1], b, out)
    <3>1. CASE i = k
      <4>1. g[i] = AddToolOutput(f[k - 1], b, out) /\ g[i - 1] = f[k - 1]
        BY <1>3, <1>5, <2>1, <3>1
      <4> QED
        BY <1>5, <3>1, <4>1
    <3>2. CASE i # k /\ i # 0
      <4>1. i \in 0..(k - 1) /\ g[i] = f[i] /\ g[i - 1] = f[i - 1]
        BY <1>3, <2>1, <3>2
      <4>2. f[i] = AddToolOutput(f[i - 1], b, out)
        BY <2>3, <3>2, <4>1 DEF Outputting
      <4> QED
        BY <3>2, <4>1, <4>2
    <3>3. CASE i # k /\ i = 0
      <4>1. i \in 0..(k - 1) /\ g[i] = f[i]
        BY <1>3, <2>1, <3>3
      <4>2. f[i] = h
        BY <2>3, <3>3, <4>1 DEF Outputting
      <4> QED
        BY <3>3, <4>1, <4>2
    <3> QED
      BY <3>1, <3>2, <3>3
  <2>5. g = [i \in 0..k |-> g[i]]
    OBVIOUS
  <2> HIDE DEF g
  <2>6. Outputting(h, b, out, k, g)
    BY <2>4, <2>5 DEF Outputting
  <2> QED
    BY <1>3, <2>6
<1> QED
  BY <1>4, <1>5

LEMMA OutputtingProcessed ==
  ASSUME NEW h \in Histories, StagedOpen(h), NEW b \in Batches, NEW out \in Outputs,
         NEW n \in Nat, NEW f, Outputting(h, b, out, n, f), NEW m \in 0..n
  PROVE  Processed(h, f[m], {b})
<1> DEFINE T == {k \in 0..n : ~Processed(h, f[k], {b})}
<1>1. SUFFICES ASSUME T # {} PROVE FALSE
  OBVIOUS
<1>2. PICK k \in T : \A y \in T : k <= y
  <2>1. T \subseteq Nat
    OBVIOUS
  <2> HIDE DEF T
  <2> QED
    BY <1>1, <2>1, LeastNat
<1>3. k \in 0..n /\ ~Processed(h, f[k], {b})
  OBVIOUS
<1>4. f[k] = IF k = 0 THEN h ELSE AddToolOutput(f[k - 1], b, out)
  BY <1>3 DEF Outputting
<1>5. k # 0
  BY <1>3, <1>4, ProcessedRefl
<1>6. k - 1 \in 0..n /\ ~(k <= k - 1)
  BY <1>3, <1>5
<1>7. Processed(h, f[k - 1], {b})
  BY <1>2, <1>6
<1>8. f[k - 1] \in Histories /\ StagedOpen(f[k - 1])
  BY <1>7 DEF Processed
<1>9. Processed(f[k - 1], f[k], {b})
  BY <1>4, <1>5, <1>8, AddToolOutputProcessed
<1> QED
  BY <1>3, <1>7, <1>9, ProcessedTrans

LEMMA AddOutputsProcessed ==
  ASSUME NEW h \in Histories, StagedOpen(h), NEW b \in Batches, NEW out \in Outputs
  PROVE  Processed(h, AddOutputs(h, b, out), {b})
<1> DEFINE f == CHOOSE g : Outputting(h, b, out, BundleSize, g)
<1>1. Outputting(h, b, out, BundleSize, f)
  BY ConstantsAssumption, OutputtingExists
<1>2. Calls(b) \in 0..BundleSize
  BY ConstantsAssumption DEF Calls
<1>3. AddOutputs(h, b, out) = f[Calls(b)]
  BY DEF AddOutputs, Outputting
<1> HIDE DEF f
<1> QED
  BY <1>1, <1>2, <1>3, ConstantsAssumption, OutputtingProcessed

-----------------------------------------------------------------------------
(* What every step does to the history *)

\* Outputs come from batches in process.
OutputMove ==
  /\ kind' = kind
  /\ \E S \in SUBSET Batches : /\ \A b \in S : phase[b] \in {"collect", "await"}
                               /\ Processed(history, history', S)

HistoryMove ==
  \/ OutputMove
  \/ \E t \in Turns : ModelMalformed(t) \/ \E k \in {"single", "bundle"} : ModelCallsTools(t, k)

LEMMA OutputOf ==
  ASSUME history \in Histories, StagedOpen(history), kind' = kind,
         \/ history' = history
         \/ history' = FinalizePending(history)
         \/ \E row \in Rows : /\ row.type \notin {"tool", "assistant"}
                              /\ history' = AddRow(history, row)
  PROVE  OutputMove
<1>1. Processed(history, history', {})
  <2>1. CASE history' = history
    BY <2>1, ProcessedRefl
  <2>2. CASE history' = FinalizePending(history)
    BY <2>2, FinalizeProcessed
  <2>3. ASSUME NEW row \in Rows, row.type \notin {"tool", "assistant"}, history' = AddRow(history, row)
        PROVE  Processed(history, history', {})
    BY <2>3, AddsNote
  <2> QED
    BY <2>1, <2>2, <2>3
<1> QED
  BY <1>1 DEF OutputMove

LEMMA TurnWrites ==
  ASSUME history \in Histories, StagedOpen(history), NEW t \in Turns,
         Submit(t) \/ TurnStep(t) \/ Cancel(t)
  PROVE  HistoryMove
<1> DEFINE Plain == /\ kind' = kind
                    /\ \/ history' = history
                       \/ history' = FinalizePending(history)
                       \/ \E row \in Rows : /\ row.type \notin {"tool", "assistant"}
                                            /\ history' = AddRow(history, row)
<1>1. ASSUME Plain PROVE HistoryMove
  BY <1>1, OutputOf DEF HistoryMove
<1>2. CASE \/ Submit(t) \/ AcquireLock(t) \/ NoModelSelected(t) \/ CallModel(t) \/ Prepare(t)
           \/ BackendDone(t) \/ SendFails(t) \/ CloseGenerator(t) \/ GeneratorEnds(t) \/ HandlerEnds(t)
  <2>1. kind' = kind /\ history' = history
    BY <1>2 DEF batchVars, Submit, AcquireLock, NoModelSelected, CallModel, Prepare, PrepareLocal,
       PrepareFails, PrepareBackend, ExecuteRaises, BackendDone, SendFails, CloseGenerator,
       GeneratorEnds, HandlerEnds
  <2> QED
    BY <1>1, <2>1
<1>3. CASE AddUserMessage(t) \/ ModelAnswers(t) \/ Sent(t)
  <2>1. /\ Row("user", NoCall, 0, "user") \in Rows /\ Row("answer", NoCall, 0, "answer") \in Rows
        /\ Row("answer", NoCall, 0, "error") \in Rows
    BY DEF Row, Rows, RowTypes
  <2>2. /\ Row("user", NoCall, 0, "user").type = "user"
        /\ Row("answer", NoCall, 0, "answer").type = "answer"
        /\ Row("answer", NoCall, 0, "error").type = "answer"
    BY DEF Row
  <2>3. kind' = kind /\ \/ history' = history
                        \/ history' = AddRow(history, Row("user", NoCall, 0, "user"))
                        \/ history' = AddRow(history, Row("answer", NoCall, 0, "answer"))
                        \/ history' = AddRow(history, Row("answer", NoCall, 0, "error"))
    BY <1>3 DEF batchVars, AddUserMessage, ModelAnswers, Sent
  <2> QED
    BY <1>1, <2>1, <2>2, <2>3
<1>4. CASE ModelMalformed(t) \/ \E k \in {"single", "bundle"} : ModelCallsTools(t, k)
  BY <1>4 DEF HistoryMove
<1>5. CASE Finalize(t) \/ Cancel(t) \/ FutureExpired(t)
  <2>1. kind' = kind
    BY <1>5 DEF batchVars, Finalize, Cancel, CancelOutside, CancelInside, CancelPreparing,
       CancelSending, CancelWaiting, FutureExpired
  <2>2. history' \in {history, FinalizePending(history)}
    BY <1>5 DEF Finalize, Cancel, CancelOutside, CancelInside, CancelPreparing,
       CancelSending, CancelWaiting, FutureExpired, HandlerCancelled
  <2> QED
    BY <1>1, <2>1, <2>2
<1> QED
  BY <1>2, <1>3, <1>4, <1>5 DEF TurnStep, Model

LEMMA BatchWrites ==
  ASSUME history \in Histories, StagedOpen(history), NEW b \in Batches, Process(b)
  PROVE  HistoryMove
<1>1. PICK h : Finish(b, h) /\ Processed(history, h, {b}) /\ phase[b] \in {"collect", "await"}
  <2>1. ASSUME NEW s, NEW out \in Outputs, ProcessEach(b, s, out)
        PROVE  \E h : Finish(b, h) /\ Processed(history, h, {b})
    BY <2>1, AddOutputsProcessed DEF ProcessEach
  <2>2. CASE WakeBundle(b)
    <3>1. "result" \in Outputs
      BY DEF Outputs
    <3> QED
      BY <2>2, <3>1, AddToolOutputProcessed DEF WakeBundle
  <2>3. CASE CollectStale(b) \/ CollectEarly(b) \/ WakeEach(b) \/ Timeout(b)
    <3>1. \E s, out : out \in Outputs /\ ProcessEach(b, s, out)
      BY <2>3 DEF CollectStale, CollectEarly, WakeEach, Timeout, Outputs
    <3>2. phase[b] \in {"collect", "await"}
      BY <2>3 DEF CollectStale, CollectEarly, WakeEach, Timeout
    <3> QED
      BY <2>1, <3>1, <3>2
  <2> QED
    BY <2>2, <2>3 DEF Process
<1>2. kind' = kind /\ history' \in {h, FinalizePending(h)}
  BY <1>1 DEF Finish, EndBatch, HandlerCancelled
<1>3. h \in Histories /\ StagedOpen(h)
  BY <1>1 DEF Processed
<1>4. Processed(history, history', {b})
  <2>1. CASE history' = h
    BY <1>1, <2>1
  <2>2. CASE history' = FinalizePending(h)
    BY <1>1, <1>3, <2>2, FinalizeProcessed, ProcessedTrans
  <2> QED
    BY <1>2, <2>1, <2>2
<1>5. {b} \in SUBSET Batches /\ \A c \in {b} : phase[c] \in {"collect", "await"}
  BY <1>1
<1> QED
  BY <1>2, <1>4, <1>5 DEF HistoryMove, OutputMove

LEMMA StepWrites ==
  ASSUME history \in Histories, StagedOpen(history), [Next]_vars
  PROVE  HistoryMove
<1>1. ASSUME NEW t \in Turns, Submit(t) \/ TurnStep(t) \/ Cancel(t) PROVE HistoryMove
  BY <1>1, TurnWrites
<1>2. ASSUME NEW b \in Batches, Process(b) PROVE HistoryMove
  BY <1>2, BatchWrites
<1>3. ASSUME kind' = kind, history' = history PROVE HistoryMove
  BY <1>3, OutputOf DEF HistoryMove
<1>4. ASSUME NEW b \in Batches, StartWait(b) \/ DetachedExpired(b) PROVE HistoryMove
  BY <1>3, <1>4 DEF StartWait, DetachedExpired
<1>5. ASSUME NEW m \in Messages, SdkReplies(m) \/ RouteLookup(m) \/ RouteStore(m) PROVE HistoryMove
  BY <1>3, <1>5 DEF SdkReplies, RouteLookup, RouteStore, batchVars
<1>6. CASE UNCHANGED vars
  BY <1>3, <1>6 DEF vars, batchVars
<1> QED
  BY <1>1, <1>2, <1>4, <1>5, <1>6 DEF Next, BatchStep, Process

-----------------------------------------------------------------------------
(* The invariant is kept *)

\* No batch is forgotten, and an orphaned one stays so.
LEMMA BatchesStay ==
  ASSUME ControlTypes, Ownership, ControlMove
  PROVE  Used \subseteq Used' /\ detached \subseteq detached'
<1>1. Used \subseteq Used'
  BY KindSettled DEF Used
<1>2. detached \subseteq detached'
  BY DEF ControlMove, Enter, Collect, CloseGenerator, Proceed, Leave, Dispatch, Complete, LeaveBehind,
     Abandon, SameBatches, Respond, Reprocess, CompleteDetached, Untouched
<1> QED
  BY <1>1, <1>2

\* A turn gets busy with a batch by the model's response only.
LEMMA StaysBusy ==
  ASSUME ControlTypes, Ownership, ControlMove, kind' = kind, NEW t \in Turns, pc'[t] \in Busy
  PROVE  pc[t] \in Busy /\ cur'[t] = cur[t]
<1> USE DEF ControlTypes, Busy, Goto
<1> DEFINE Goal == pc[t] \in Busy /\ cur'[t] = cur[t]
<1>1. ASSUME NEW u \in Turns, Enter(u) \/ Collect(u) \/ CloseGenerator(u) PROVE Goal
  BY <1>1 DEF Enter, Collect, CloseGenerator, SameBatches, Dispatching
<1>2. ASSUME NEW u \in Turns, NEW p \in PCs,
             Proceed(u, p) \/ Leave(u, p) \/ Dispatch(u, p) \/ Complete(u, p) \/ LeaveBehind(u, p)
      PROVE  Goal
  BY <1>2 DEF Proceed, Leave, Dispatch, Complete, LeaveBehind, SameBatches, Dispatching, Outside
<1>3. ASSUME NEW u \in Turns, NEW k \in {"single", "bundle", "malformed"}, Respond(u, k) PROVE FALSE
  <2>1. PICK n \in Nat : Used = 1..n
    BY DEF Ownership, Numbered
  <2>2. NextBatch \in Batches /\ kind[NextBatch] = "none"
    BY <1>3, <2>1, NextBatchIsNext DEF Respond, Used
  <2>3. kind'[NextBatch] = k
    BY <1>3, <2>2 DEF Respond
  <2> QED
    BY <2>2, <2>3
<1>4. ASSUME NEW b \in Batches, NEW p, Reprocess(b, p) \/ CompleteDetached(b) PROVE Goal
  BY <1>4 DEF Reprocess, CompleteDetached
<1> QED
  BY <1>1, <1>2, <1>3, <1>4 DEF ControlMove, Untouched

LEMMA OutputKeeps ==
  ASSUME LoopInv, HistoryInv, ControlMove, OutputMove
  PROVE  HistoryInv'
<1>1. PICK S \in SUBSET Batches : /\ \A b \in S : phase[b] \in {"collect", "await"}
                                  /\ Processed(history, history', S)
  BY DEF OutputMove
<1>2. /\ ControlTypes /\ Ownership /\ kind' = kind
      /\ Used \subseteq Used' /\ detached \subseteq detached'
  BY BatchesStay DEF LoopInv, ControlInv, OutputMove
<1>3. history' \in Histories /\ StagedOpen(history')
  BY <1>1 DEF Processed
<1>4. /\ Len(history.rows) \in Nat /\ Len(history'.rows) \in Nat /\ Len(history.staged) \in Nat
      /\ DOMAIN history'.rows = 1..Len(history'.rows)
      /\ DOMAIN history.rows = 1..Len(history.rows)
  BY <1>3, HistoryTypes DEF HistoryInv
<1>5. \A i \in 1..Len(history'.staged) :
        \E j \in 1..Len(history.staged) : history'.staged[i] = history.staged[j]
  BY <1>1 DEF Processed
<1>6. \A i \in 1..Len(history.rows) : i \in 1..Len(history'.rows) /\ history'.rows[i] = history.rows[i]
  BY <1>1, <1>4 DEF Processed, Grows
<1>7. ASSUME NEW i \in (Len(history.rows) + 1)..Len(history'.rows)
      PROVE  /\ history'.rows[i].type # "assistant"
             /\ history'.rows[i].type = "tool" =>
                  /\ history'.rows[i].out = "cancelled" \/ history'.rows[i].from \in S
                  /\ \E j \in 1..Len(history.staged) : history'.rows[i].call = history.staged[j]
  BY <1>1 DEF Processed
<1>8. \A i \in 1..Len(history'.rows) :
        i \in 1..Len(history.rows) \/ i \in (Len(history.rows) + 1)..Len(history'.rows)
  BY <1>4
<1>9. Mentioned'
  <2>1. \A i \in 1..Len(history'.staged) : history'.staged[i][1] \in Used'
    BY <1>2, <1>5 DEF HistoryInv, Mentioned
  <2>2. ASSUME NEW i \in 1..Len(history'.rows)
        PROVE  /\ history'.rows[i].type = "assistant" => history'.rows[i].from \in Used'
               /\ IsAnswer(history'.rows[i]) => history'.rows[i].call[1] \in Used'
    <3>1. CASE i \in 1..Len(history.rows)
      BY <1>2, <1>6, <3>1 DEF HistoryInv, Mentioned
    <3>2. CASE i \in (Len(history.rows) + 1)..Len(history'.rows)
      <4>1. IsAnswer(history'.rows[i]) => history'.rows[i].call[1] \in Used
        BY <1>7, <3>2 DEF HistoryInv, Mentioned, IsAnswer
      <4> QED
        BY <1>2, <1>7, <3>2, <4>1
    <3> QED
      BY <1>8, <3>1, <3>2
  <2> QED
    BY <2>1, <2>2 DEF Mentioned
<1>10. StagedOwn'
  <2>1. ASSUME NEW t \in Turns, pc'[t] \in Busy, NEW i \in 1..Len(history'.staged)
        PROVE  history'.staged[i][1] = cur'[t]
    <3>1. pc[t] \in Busy /\ cur'[t] = cur[t]
      BY <1>2, <2>1, StaysBusy
    <3>2. PICK j \in 1..Len(history.staged) : history'.staged[i] = history.staged[j]
      BY <1>5
    <3>3. history.staged[j][1] = cur[t]
      BY <3>1 DEF HistoryInv, StagedOwn
    <3> QED
      BY <3>1, <3>2, <3>3
  <2> QED
    BY <2>1 DEF StagedOwn
<1>11. OwnOutputUnlessOrphaned'
  <2>1. ASSUME NEW i \in 1..Len(history'.rows), Misattached(history'.rows[i])
        PROVE  history'.rows[i].from \in detached'
    <3>1. CASE i \in 1..Len(history.rows)
      BY <1>2, <1>4, <1>6, <2>1, <3>1 DEF HistoryInv, OwnOutputUnlessOrphaned
    <3>2. CASE i \in (Len(history.rows) + 1)..Len(history'.rows)
      <4> DEFINE b == history'.rows[i].from
      <4>1. PICK j \in 1..Len(history.staged) : history'.rows[i].call = history.staged[j]
        BY <1>7, <2>1, <3>2 DEF Misattached
      <4>2. b \in S /\ b # history.staged[j][1]
        BY <1>7, <2>1, <3>2, <4>1 DEF Misattached
      <4>3. b \in Batches /\ phase[b] \in {"collect", "await"}
        BY <1>1, <4>2
      <4>4. ASSUME b \notin detached PROVE FALSE
        <5> HIDE DEF b
        <5>1. Owner(b) \in Turns /\ cur[Owner(b)] = b /\ pc[Owner(b)] = "tools"
          BY <1>2, <4>3, <4>4, OwnerProcesses
        <5>2. history.staged[j][1] = b
          BY <5>1 DEF HistoryInv, StagedOwn, Busy
        <5> QED
          BY <4>2, <5>2
      <4> QED
        BY <1>2, <4>4
    <3> QED
      BY <1>8, <3>1, <3>2
  <2> QED
    BY <1>4, <2>1 DEF OwnOutputUnlessOrphaned
<1> QED
  BY <1>3, <1>9, <1>10, <1>11 DEF HistoryInv

\* The model's next batch is new.
LEMMA NextBatchIsNew ==
  ASSUME ControlTypes, Ownership, NextBatch \in Batches
  PROVE  NextBatch \notin Used
<1>1. PICK n \in Nat : Used = 1..n
  BY DEF Ownership, Numbered
<1> QED
  BY <1>1, NextBatchIsNext

LEMMA MalformedKeeps ==
  ASSUME LoopInv, HistoryInv, ControlMove, NEW t \in Turns, ModelMalformed(t)
  PROVE  HistoryInv' /\ Grows(history.rows, history'.rows)
<1> DEFINE b == NextBatch
           row == ToolRow(<<b, 1>>, b, "malformed")
           m == Len(history.rows)
<1>1. /\ ControlTypes /\ Ownership /\ b \in Batches
      /\ Used \subseteq Used' /\ detached \subseteq detached'
  BY BatchesStay DEF LoopInv, ControlInv, ModelMalformed
<1>2. kind' = [kind EXCEPT ![b] = "malformed"]
      /\ history' = [rows |-> Append(history.rows, row), staged |-> <<>>, all |-> FALSE]
  BY DEF ModelMalformed
<1>3. b \in Used'
  BY <1>1, <1>2 DEF ControlTypes, Used
<1> HIDE DEF b
<1>4. <<b, 1>> \in RealCalls
  BY <1>1, ConstantsAssumption DEF RealCalls
<1>5. row \in Rows
  BY <1>1, <1>4 DEF ToolRow, Row, Rows, RowTypes
<1>6. /\ row.type = "tool" /\ row.out = "malformed" /\ row.call = <<b, 1>> /\ row.from = b
      /\ ~IsAnswer(row)
  BY DEF ToolRow, Row, IsAnswer
<1> HIDE DEF row
<1>7. /\ history.rows \in Seq(Rows) /\ m \in Nat /\ DOMAIN history.rows = 1..m
  BY HistoryTypes DEF HistoryInv
<1>8. /\ history'.rows \in Seq(Rows) /\ Len(history'.rows) = m + 1
      /\ DOMAIN history'.rows = 1..(m + 1)
      /\ \A i \in 1..m : history'.rows[i] = history.rows[i]
      /\ history'.rows[m + 1] = row
      /\ history'.staged = <<>>
  BY <1>2, <1>5, <1>7, AppendProperties, LenProperties
<1>9. <<>> \in Seq(RealCalls) /\ Len(<<>>) = 0
  BY EmptySeq
<1>10. history' \in Histories /\ StagedOpen(history')
  <2>1. history' \in Histories
    BY <1>2, <1>8, <1>9 DEF Histories
  <2> QED
    BY <1>8, <1>9, <2>1 DEF StagedOpen
<1>11. \A i \in 1..(m + 1) : i \in 1..m \/ i = m + 1
  BY <1>7
<1>12. Mentioned'
  <2>1. ASSUME NEW i \in 1..(m + 1)
        PROVE  /\ history'.rows[i].type = "assistant" => history'.rows[i].from \in Used'
               /\ IsAnswer(history'.rows[i]) => history'.rows[i].call[1] \in Used'
    <3>1. CASE i \in 1..m
      BY <1>1, <1>8, <3>1 DEF HistoryInv, Mentioned
    <3>2. CASE i = m + 1
      BY <1>6, <1>8, <3>2
    <3> QED
      BY <1>11, <3>1, <3>2
  <2> QED
    BY <1>8, <1>9, <2>1 DEF Mentioned
<1>13. StagedOwn'
  BY <1>8, <1>9 DEF StagedOwn
<1>14. OwnOutputUnlessOrphaned'
  <2>1. ASSUME NEW i \in 1..(m + 1), Misattached(history'.rows[i])
        PROVE  history'.rows[i].from \in detached'
    <3>1. CASE i \in 1..m
      BY <1>1, <1>7, <1>8, <2>1, <3>1 DEF HistoryInv, OwnOutputUnlessOrphaned
    <3>2. CASE i = m + 1
      BY <1>6, <1>8, <2>1, <3>2 DEF Misattached
    <3> QED
      BY <1>11, <3>1, <3>2
  <2> QED
    BY <1>8, <2>1 DEF OwnOutputUnlessOrphaned
<1>15. Grows(history.rows, history'.rows)
  <2>1. ASSUME NEW i \in (m + 1)..Len(history'.rows)
        PROVE  Ledger!Follows(LogOf(history'.rows), i)
    <3>1. i = m + 1 /\ i \in 1..Len(history'.rows)
      BY <1>7, <1>8
    <3>2. history'.rows[i].type # "assistant" /\ ~IsAnswer(history'.rows[i])
      BY <1>6, <1>8, <3>1
    <3> QED
      BY <1>8, <3>1, <3>2, NoteFollows
  <2> QED
    BY <1>7, <1>8, <2>1 DEF Grows
<1> QED
  BY <1>10, <1>12, <1>13, <1>14, <1>15 DEF HistoryInv

LEMMA CallsKeep ==
  ASSUME LoopInv, HistoryInv, ControlMove, NEW t \in Turns, NEW k \in {"single", "bundle"},
         ModelCallsTools(t, k)
  PROVE  HistoryInv' /\ Grows(history.rows, history'.rows)
<1> DEFINE b == NextBatch
           row == Row("assistant", NoCall, b, k)
           calls == CallIds(b, k)
           m == Len(history.rows)
<1>1. /\ ControlTypes /\ Ownership /\ LockMatchesGenerator /\ b \in Batches
      /\ Used \subseteq Used' /\ detached \subseteq detached'
  BY BatchesStay DEF LoopInv, ControlInv, ModelCallsTools
<1>2. /\ kind' = [kind EXCEPT ![b] = k] /\ cur' = [cur EXCEPT ![t] = b]
      /\ history' = [rows |-> Append(history.rows, row), staged |-> calls, all |-> k = "bundle"]
      /\ pc[t] = "llm" /\ pc' = [pc EXCEPT ![t] = "prepare"]
  BY DEF ModelCallsTools, Goto
<1>3. b \in Used' /\ b \notin Used
  BY <1>1, <1>2, NextBatchIsNew DEF ControlTypes, Used
<1> HIDE DEF b
<1>4. row \in Rows
  BY <1>1 DEF Row, Rows, RowTypes
<1>5. row.type = "assistant" /\ row.from = b /\ row.out = k /\ ~IsAnswer(row)
  BY DEF Row, IsAnswer
<1> HIDE DEF row
<1>6. /\ Asks(row) \subseteq RealCalls /\ \A c \in Asks(row) : c[1] = b
      /\ calls \in Seq(RealCalls) /\ Len(calls) \in Nat
      /\ \A i \in 1..Len(calls) : calls[i] = <<b, i>> /\ calls[i] \in Asks(row)
  BY <1>1, <1>5, AsksOf
<1> HIDE DEF calls
<1>7. /\ history.rows \in Seq(Rows) /\ m \in Nat /\ DOMAIN history.rows = 1..m
  BY HistoryTypes DEF HistoryInv
<1>8. /\ history'.rows \in Seq(Rows) /\ Len(history'.rows) = m + 1
      /\ DOMAIN history'.rows = 1..(m + 1)
      /\ \A i \in 1..m : history'.rows[i] = history.rows[i]
      /\ history'.rows[m + 1] = row
      /\ history'.staged = calls
  BY <1>2, <1>4, <1>7, AppendProperties, LenProperties
<1>9. \A i \in 1..(m + 1) : i \in 1..m \/ i = m + 1
  BY <1>7
<1>10. \A c \in Asks(row) : ~Asked(history'.rows, m, c) /\ ~Answered(history'.rows, m, c)
  <2>1. SUFFICES ASSUME NEW c \in Asks(row), NEW j \in 1..m
                 PROVE  /\ ~(history.rows[j].type = "assistant" /\ c \in Asks(history.rows[j]))
                        /\ ~(IsAnswer(history.rows[j]) /\ history.rows[j].call = c)
    BY <1>8 DEF Asked, Answered
  <2>2. c[1] \notin Used
    BY <1>3, <1>6
  <2>3. ASSUME c \in Asks(history.rows[j]) PROVE c[1] = history.rows[j].from
    BY <2>3, AskedFrom
  <2> QED
    BY <2>2, <2>3 DEF HistoryInv, Mentioned
<1>11. history' \in Histories
  BY <1>2, <1>6, <1>8 DEF Histories
<1>12. StagedOpen(history')
  <2>1. ASSUME NEW i \in 1..Len(calls)
        PROVE  Asked(history'.rows, m + 1, calls[i]) /\ ~Answered(history'.rows, m + 1, calls[i])
    <3>1. calls[i] \in Asks(row)
      BY <1>6
    <3>2. m + 1 \in 1..(m + 1)
      BY <1>7
    <3>3. Asked(history'.rows, m + 1, calls[i])
      BY <1>5, <1>8, <3>1, <3>2 DEF Asked
    <3>4. ~Answered(history'.rows, m + 1, calls[i])
      BY <1>5, <1>8, <1>9, <1>10, <3>1 DEF Answered
    <3> QED
      BY <3>3, <3>4
  <2>2. ASSUME NEW i \in 1..Len(calls), NEW j \in 1..Len(calls), calls[i] = calls[j] PROVE i = j
    BY <1>6, <2>2
  <2> QED
    BY <1>8, <2>1, <2>2 DEF StagedOpen
<1>13. Mentioned'
  <2>1. ASSUME NEW i \in 1..(m + 1)
        PROVE  /\ history'.rows[i].type = "assistant" => history'.rows[i].from \in Used'
               /\ IsAnswer(history'.rows[i]) => history'.rows[i].call[1] \in Used'
    <3>1. CASE i \in 1..m
      BY <1>1, <1>8, <3>1 DEF HistoryInv, Mentioned
    <3>2. CASE i = m + 1
      BY <1>3, <1>5, <1>8, <3>2
    <3> QED
      BY <1>9, <3>1, <3>2
  <2>2. \A i \in 1..Len(calls) : calls[i][1] \in Used'
    BY <1>3, <1>6
  <2> QED
    BY <1>8, <2>1, <2>2 DEF Mentioned
<1>14. StagedOwn'
  <2>1. ASSUME NEW u \in Turns, pc'[u] \in Busy, NEW i \in 1..Len(calls)
        PROVE  calls[i][1] = cur'[u]
    <3>1. CASE u = t
      BY <1>1, <1>2, <1>6, <3>1 DEF ControlTypes
    <3>2. CASE u # t
      <4>1. pc[u] \in Busy
        BY <1>1, <1>2, <2>1, <3>2 DEF ControlTypes
      <4>2. lock = u /\ lock = t
        BY <1>1, <1>2, <4>1 DEF LockMatchesGenerator, InsideLock, Holding, Busy
      <4> QED
        BY <3>2, <4>2
    <3> QED
      BY <3>1, <3>2
  <2> QED
    BY <1>8, <2>1 DEF StagedOwn
<1>15. OwnOutputUnlessOrphaned'
  <2>1. ASSUME NEW i \in 1..(m + 1), Misattached(history'.rows[i])
        PROVE  history'.rows[i].from \in detached'
    <3>1. CASE i \in 1..m
      BY <1>1, <1>7, <1>8, <2>1, <3>1 DEF HistoryInv, OwnOutputUnlessOrphaned
    <3>2. CASE i = m + 1
      BY <1>5, <1>8, <2>1, <3>2 DEF Misattached
    <3> QED
      BY <1>9, <3>1, <3>2
  <2> QED
    BY <1>8, <2>1 DEF OwnOutputUnlessOrphaned
<1>16. Grows(history.rows, history'.rows)
  <2>1. ASSUME NEW i \in (m + 1)..Len(history'.rows)
        PROVE  Ledger!Follows(LogOf(history'.rows), i)
    <3>1. i = m + 1 /\ i \in 1..Len(history'.rows) /\ i - 1 = m
      BY <1>7, <1>8
    <3>2. history'.rows[i] = row
      BY <1>8, <3>1
    <3> QED
      BY <1>5, <1>6, <1>8, <1>10, <3>1, <3>2, AskFollows
  <2> QED
    BY <1>7, <1>8, <2>1 DEF Grows
<1> QED
  BY <1>11, <1>12, <1>13, <1>14, <1>15, <1>16 DEF HistoryInv

\* Every step keeps the invariant, and continues the ledger.
LEMMA HistoryStep ==
  ASSUME LoopInv, HistoryInv, [Next]_vars
  PROVE  HistoryInv' /\ Grows(history.rows, history'.rows)
<1>1. ControlMove
  BY StepMoves DEF LoopInv, ControlInv
<1>2. HistoryMove
  BY StepWrites DEF HistoryInv
<1>3. CASE OutputMove
  <2>1. Grows(history.rows, history'.rows)
    BY <1>3 DEF OutputMove, Processed
  <2> QED
    BY <1>1, <1>3, <2>1, OutputKeeps
<1> QED
  BY <1>1, <1>2, <1>3, MalformedKeeps, CallsKeep DEF HistoryMove

LEMMA HistoryInit == Init => HistoryInv
<1> SUFFICES ASSUME Init PROVE HistoryInv
  OBVIOUS
<1>1. history = [rows |-> <<>>, staged |-> <<>>, all |-> FALSE]
  BY DEF Init
<1>2. <<>> \in Seq(Rows) /\ <<>> \in Seq(RealCalls) /\ Len(<<>>) = 0 /\ DOMAIN <<>> = {}
  OBVIOUS
<1>3. history \in Histories
  BY <1>1, <1>2 DEF Histories
<1> QED
  BY <1>1, <1>2, <1>3 DEF HistoryInv, StagedOpen, Mentioned, StagedOwn, OwnOutputUnlessOrphaned

LEMMA HistoryInvariant == Spec => [](LoopInv /\ HistoryInv)
BY LoopInit, LoopStep, HistoryInit, HistoryStep, PTL DEF Spec

-----------------------------------------------------------------------------
(* The types of what the invariants above do not speak of *)

OtherTypes ==
  /\ fate \in [Turns -> {"run", "error", "cancel"}]
  /\ cancels \in [Turns -> 0..MaxCancels]
  /\ arrived \subseteq Batches
  /\ resolved \subseteq Batches \X (0..BundleSize)
  /\ screen \in BOOLEAN
  /\ ground \in [Batches -> {"none", "current", "stale"}]

LEMMA TurnTypes ==
  ASSUME ControlTypes, Ownership, OtherTypes, NEW t \in Turns, Submit(t) \/ TurnStep(t) \/ Cancel(t)
  PROVE  OtherTypes'
<1> USE DEF OtherTypes
<1>1. CASE \/ Submit(t) \/ AcquireLock(t) \/ NoModelSelected(t) \/ AddUserMessage(t) \/ CallModel(t)
           \/ Model(t) \/ GeneratorEnds(t) \/ HandlerEnds(t) \/ Finalize(t) \/ PrepareFails(t)
           \/ BackendDone(t) \/ Sent(t) \/ SendFails(t) \/ CloseGenerator(t)
  BY <1>1 DEF toolVars, Submit, AcquireLock, NoModelSelected, AddUserMessage, CallModel, Model,
     ModelAnswers, ModelMalformed, ModelCallsTools, GeneratorEnds, HandlerEnds, Finalize, PrepareFails,
     BackendDone, Sent, SendFails, CloseGenerator
<1>2. CASE ExecuteRaises(t)
  BY <1>2 DEF ExecuteRaises, toolVars
<1>3. CASE PrepareLocal(t) \/ PrepareBackend(t)
  <2>1. cur[t] \in Batches
    BY <1>3 DEF PrepareLocal, PrepareBackend, ControlTypes, Ownership, DispatchingBatch, Dispatching
  <2>2. ResolvedIds(cur[t]) \subseteq Batches \X (0..BundleSize)
    BY <2>1, ConstantsAssumption DEF ResolvedIds
  <2>3. resolved' \subseteq Batches \X (0..BundleSize)
    BY <1>3, <2>2 DEF PrepareLocal, PrepareBackend
  <2>4. ground' \in [Batches -> {"none", "current", "stale"}]
    BY <1>3 DEF PrepareLocal, PrepareBackend
  <2> QED
    BY <1>3, <2>3, <2>4 DEF PrepareLocal, PrepareBackend
<1>4. ASSUME CancelWaiting(t) PROVE /\ fate' = [fate EXCEPT ![t] = "cancel"]
                                    /\ arrived' \subseteq arrived /\ UNCHANGED <<resolved, screen, ground>>
  BY <1>4 DEF CancelWaiting
<1>5. CASE FutureExpired(t)
  BY <1>4, <1>5 DEF FutureExpired
<1>6. CASE Cancel(t)
  <2>1. cancels' = [cancels EXCEPT ![t] = cancels[t] + 1] /\ cancels[t] < MaxCancels
    BY <1>6 DEF Cancel
  <2>2. cancels' \in [Turns -> 0..MaxCancels]
    BY <2>1, ConstantsAssumption
  <2>3. /\ fate' = [fate EXCEPT ![t] = "cancel"]
        /\ arrived' \subseteq arrived /\ UNCHANGED <<resolved, screen, ground>>
    BY <1>4, <1>6 DEF Cancel, CancelOutside, CancelInside, CancelPreparing, CancelSending, toolVars
  <2> QED
    BY <2>2, <2>3
<1> QED
  BY <1>1, <1>2, <1>3, <1>5, <1>6 DEF TurnStep, Prepare

LEMMA TypesStep ==
  ASSUME ControlTypes, Ownership, OtherTypes, [Next]_vars
  PROVE  OtherTypes'
<1> USE DEF OtherTypes
<1>1. ASSUME NEW t \in Turns, Submit(t) \/ TurnStep(t) \/ Cancel(t) PROVE OtherTypes'
  BY <1>1, TurnTypes
<1>2. ASSUME NEW b \in Batches, Process(b) PROVE OtherTypes'
  <2>1. PICK h : Finish(b, h)
    BY <1>2 DEF Process, CollectStale, CollectEarly, WakeBundle, WakeEach, Timeout, ProcessEach
  <2>2. resolved' \subseteq resolved
    BY <1>2 DEF Process, CollectStale, CollectEarly, WakeBundle, WakeEach, Timeout, ProcessEach
  <2> QED
    BY <2>1, <2>2 DEF Finish
<1>3. ASSUME NEW b \in Batches, StartWait(b) \/ DetachedExpired(b) PROVE OtherTypes'
  BY <1>3 DEF StartWait, DetachedExpired, turnVars, toolVars
<1>4. ASSUME NEW m \in Messages, SdkReplies(m) \/ RouteLookup(m) PROVE OtherTypes'
  <2>1. CASE NewScreenshot
    BY <1>4, <2>1 DEF SdkReplies, RouteLookup, NewScreenshot, turnVars, toolVars
  <2>2. CASE UNCHANGED <<screen, ground>>
    BY <1>4, <2>2 DEF SdkReplies, RouteLookup, turnVars, toolVars
  <2> QED
    BY <1>4, <2>1, <2>2 DEF SdkReplies, RouteLookup, toolVars
<1>5. ASSUME NEW m \in Messages, RouteStore(m) PROVE OtherTypes'
  <2>1. m[1] \in Batches
    BY DEF Messages
  <2> QED
    BY <1>5, <2>1 DEF RouteStore, turnVars
<1>6. CASE UNCHANGED vars
  BY <1>6 DEF vars, turnVars, toolVars
<1> QED
  BY <1>1, <1>2, <1>3, <1>4, <1>5, <1>6 DEF Next, BatchStep, Process

-----------------------------------------------------------------------------
(* The theorems *)

\* The types of the session's state.
THEOREM TypesTheorem == Spec => []TypeOK
<1>1. ASSUME Init PROVE OtherTypes
  <2>1. /\ fate = [t \in Turns |-> "run"] /\ cancels = [t \in Turns |-> 0]
        /\ arrived = {} /\ resolved = {} /\ ground = [b \in Batches |-> "none"]
    BY <1>1 DEF Init
  <2>2. screen \in BOOLEAN
    BY <1>1 DEF Init
  <2>3. 0 \in 0..MaxCancels
    BY ConstantsAssumption
  <2> QED
    BY <2>1, <2>2, <2>3 DEF OtherTypes
<1>2. LoopInv /\ OtherTypes /\ [Next]_vars => OtherTypes'
  BY TypesStep DEF LoopInv, ControlInv
<1>3. LoopInv /\ HistoryInv /\ OtherTypes => TypeOK
  BY DEF LoopInv, ControlInv, ControlTypes, DataInv, DataTypes, Stores, HistoryInv, Histories,
     OtherTypes, TypeOK
<1> QED
  BY <1>1, <1>2, <1>3, HistoryInvariant, PTL DEF Spec

\* An output that answers another response's call comes from a generator that a stop
\* or a failed send left suspended inside its batch.
THEOREM OwnOutputTheorem == Spec => []OwnOutputUnlessOrphaned
<1>1. HistoryInv => OwnOutputUnlessOrphaned
  BY DEF HistoryInv
<1> QED
  BY <1>1, HistoryInvariant, PTL

\* Only a turn that finds the lock free takes it.
LEMMA LockSteps ==
  ASSUME LoopInv, [Next]_vars
  PROVE  \/ \E t \in Turns : AcquireLock(t)
         \/ lock' \in {lock, NoTurn}
<1>1. ASSUME NEW t \in Turns, Submit(t) \/ TurnStep(t) \/ Cancel(t), ~AcquireLock(t)
      PROVE  lock' \in {lock, NoTurn}
  BY <1>1 DEF Submit, TurnStep, NoModelSelected, AddUserMessage, CallModel, Model, ModelAnswers,
     ModelMalformed, ModelCallsTools, Prepare, PrepareLocal, PrepareFails, PrepareBackend, ExecuteRaises,
     BackendDone, Sent, SendFails, CloseGenerator, FutureExpired, Finalize, GeneratorEnds, HandlerEnds,
     Cancel, CancelOutside, CancelInside, CancelPreparing, CancelSending, CancelWaiting
<1>2. ASSUME NEW b \in Batches, Process(b) PROVE lock' \in {lock, NoTurn}
  <2>1. PICK h : Finish(b, h)
    BY <1>2 DEF Process, CollectStale, CollectEarly, WakeBundle, WakeEach, Timeout, ProcessEach
  <2> QED
    BY <2>1 DEF Finish, EndBatch
<1>3. ASSUME NEW b \in Batches, StartWait(b) \/ DetachedExpired(b) PROVE lock' \in {lock, NoTurn}
  BY <1>3 DEF StartWait, DetachedExpired, turnVars
<1>4. ASSUME NEW m \in Messages, SdkReplies(m) \/ RouteLookup(m) \/ RouteStore(m)
      PROVE  lock' \in {lock, NoTurn}
  BY <1>4 DEF SdkReplies, RouteLookup, RouteStore, turnVars
<1>5. CASE UNCHANGED vars
  BY <1>5 DEF vars, turnVars
<1> QED
  BY <1>1, <1>2, <1>3, <1>4, <1>5 DEF Next, BatchStep, Process

\* A history that grows is a ledger that grows.
LEMMA LedgerGrows ==
  ASSUME history \in Histories, history' \in Histories, Grows(history.rows, history'.rows)
  PROVE  Ledger!Grow
<1> DEFINE l == LogOf(history.rows)
           m == LogOf(history'.rows)
<1>1. /\ Len(history.rows) \in Nat /\ Len(history'.rows) \in Nat
      /\ DOMAIN history.rows = 1..Len(history.rows) /\ DOMAIN history'.rows = 1..Len(history'.rows)
  BY HistoryTypes
<1>2. Len(l) = Len(history.rows) /\ Len(m) = Len(history'.rows)
  BY <1>1 DEF LogOf
<1>3. \A i \in 1..Len(history.rows) : m[i] = l[i]
  BY <1>1 DEF LogOf, Grows
<1>4. \A i \in (Len(history.rows) + 1)..Len(history'.rows) : Ledger!Follows(m, i)
  BY DEF Grows
<1>5. Len(history.rows) <= Len(history'.rows)
  BY DEF Grows
<1> HIDE DEF l, m
<1>6. /\ Len(m) >= Len(l)
      /\ \A i \in 1..Len(l) : m[i] = l[i]
      /\ \A i \in (Len(l) + 1)..Len(m) : Ledger!Follows(m, i)
  BY <1>1, <1>2, <1>3, <1>4, <1>5
<1> QED
  BY <1>6 DEF Ledger!Grow, l, m, LogOf

\* The session is a CallLedger: one turn at a time inside the lock, rows only ever
\* appended, every tool call asked once and answered at most once, after it was asked.
THEOREM LedgerTheorem == Spec => KeepsLedger
<1>1. Init => Ledger!Init
  BY DEF Init, Ledger!Init
<1>2. ASSUME LoopInv, HistoryInv, [Next]_vars, HistoryInv'
      PROVE  [Ledger!Next]_(Ledger!vars)
  <2>1. Grows(history.rows, history'.rows)
    BY <1>2, HistoryStep
  <2>2. Ledger!Grow
    BY <1>2, <2>1, LedgerGrows DEF HistoryInv
  <2>3. CASE \E t \in Turns : AcquireLock(t)
    BY <2>3 DEF AcquireLock, Ledger!Next, Ledger!Enter
  <2>4. CASE lock' \in {lock, NoTurn}
    BY <2>2, <2>4 DEF Ledger!Next, Ledger!Leave
  <2> QED
    BY <1>2, <2>3, <2>4, LockSteps
<1> QED
  BY <1>1, <1>2, HistoryInvariant, PTL DEF Spec, KeepsLedger, Ledger!Spec

-----------------------------------------------------------------------------
(* The answers to an assistant row's calls *)

\* How many rows answer the calls of an assistant row, and that they do so at once.
Width(r) == IF r.out = "bundle" THEN BundleSize ELSE 1
Settled(rows, i) ==
  /\ i + Width(rows[i]) <= Len(rows)
  /\ \A j \in 1..Width(rows[i]) : rows[i + j].type = "tool" /\ rows[i + j].call = <<rows[i].from, j>>

LEMMA WidthFacts ==
  ASSUME NEW r
  PROVE  /\ Width(r) \in Nat \ {0} /\ DOMAIN CallIds(r.from, r.out) = 1..Width(r)
         /\ CallIds(r.from, r.out) # <<>> /\ Len(CallIds(r.from, r.out)) = Width(r)
         /\ \A j \in 1..Width(r) : CallIds(r.from, r.out)[j] = <<r.from, j>>
<1> DEFINE n == Width(r)
           s == [i \in 1..n |-> <<r.from, i>>]
<1>1. n \in Nat \ {0}
  BY ConstantsAssumption DEF Width
<1>2. CallIds(r.from, r.out) = s
  BY DEF CallIds, Width
<1> HIDE DEF n
<1>3. DOMAIN s = 1..n /\ \A j \in 1..n : s[j] = <<r.from, j>>
  OBVIOUS
<1>4. Len(s) = n
  BY <1>1
<1>5. s # <<>>
  <2>1. 1 \in DOMAIN s
    BY <1>1, <1>3
  <2> QED
    BY <2>1
<1> HIDE DEF s
<1> QED
  BY <1>1, <1>2, <1>3, <1>4, <1>5 DEF n

LEMMA PairedSettled ==
  ASSUME NEW rows \in Seq(Rows)
  PROVE  Paired(rows) <=> \A i \in 1..Len(rows) : rows[i].type = "assistant" => Settled(rows, i)
<1>1. DOMAIN rows = 1..Len(rows)
  BY LenProperties
<1> QED
  BY <1>1 DEF Paired, Settled, Width

-----------------------------------------------------------------------------
(* The rows that are kept for the provider *)

\* f[i] is what is kept of the first i rows.
Keeping(rows, f) ==
  f = [i \in 0..Len(rows) |->
         IF i = 0 THEN <<>> ELSE IF Orphan(rows, i) THEN f[i - 1] ELSE Append(f[i - 1], rows[i])]

LEMMA KeepingExists ==
  ASSUME NEW rows \in Seq(Rows)
  PROVE  \E f \in [0..Len(rows) -> Seq(Rows)] : Keeping(rows, f)
<1> DEFINE n == Len(rows)
           D == Seq(Rows)
           none == <<>>
           step == [i \in 1..n |-> [s \in D |-> IF Orphan(rows, i) THEN s ELSE Append(s, rows[i])]]
<1>1. n \in Nat /\ none \in D /\ \A i \in 1..n : rows[i] \in Rows
  BY LenProperties, EmptySeq, ElementOfSeq
<1>2. \A i \in 1..n, s \in D : Append(s, rows[i]) \in D
  BY <1>1, AppendProperties
<1>3. /\ step \in [1..n -> [D -> D]]
      /\ \A i \in 1..n, s \in D : step[i][s] = IF Orphan(rows, i) THEN s ELSE Append(s, rows[i])
  <2> HIDE DEF D
  <2> QED
    BY <1>2
<1> HIDE DEF D, step
<1>4. PICK f \in [0..n -> D] : f[0] = none /\ \A i \in 1..n : f[i] = step[i][f[i - 1]]
  <2>0. n \in Nat /\ none \in D /\ step \in [1..n -> [D -> D]]
    BY <1>1, <1>3
  <2> HIDE DEF n, none
  <2>1. \E f \in [0..n -> D] : f[0] = none /\ \A i \in 1..n : f[i] = step[i][f[i - 1]]
    BY <2>0, IterationExists
  <2> QED
    BY <2>1
<1>5. ASSUME NEW i \in 0..n
      PROVE  f[i] = IF i = 0 THEN <<>> ELSE IF Orphan(rows, i) THEN f[i - 1] ELSE Append(f[i - 1], rows[i])
  <2>1. CASE i = 0
    BY <1>4, <2>1
  <2>2. CASE i # 0
    <3>1. i \in 1..n /\ i - 1 \in 0..n
      BY <1>1, <2>2
    <3>2. f[i - 1] \in D
      BY <3>1
    <3> QED
      BY <1>3, <1>4, <2>2, <3>1, <3>2
  <2> QED
    BY <2>1, <2>2
<1>6. f = [i \in 0..n |-> f[i]]
  OBVIOUS
<1>7. Keeping(rows, f)
  BY <1>5, <1>6 DEF Keeping
<1> QED
  BY <1>7 DEF D

LEMMA KeptIs ==
  ASSUME NEW rows \in Seq(Rows)
  PROVE  \E f \in [0..Len(rows) -> Seq(Rows)] :
            Keeping(rows, f) /\ NormalizedForProvider(rows) = f[Len(rows)]
<1> DEFINE f == CHOOSE g : Keeping(rows, g)
<1>1. PICK g \in [0..Len(rows) -> Seq(Rows)] : Keeping(rows, g)
  BY KeepingExists
<1>2. Keeping(rows, f)
  BY <1>1
<1>3. NormalizedForProvider(rows) = f[Len(rows)]
  BY DEF NormalizedForProvider, Keeping
<1> HIDE DEF f
<1>4. f = g
  <2> DEFINE T == {k \in 0..Len(rows) : f[k] # g[k]}
  <2>1. ASSUME T # {} PROVE FALSE
    <3>1. Len(rows) \in Nat
      BY LenProperties
    <3>2. PICK k \in T : \A y \in T : k <= y
      <4>1. T \subseteq Nat
        BY <3>1
      <4> HIDE DEF T
      <4> QED
        BY <2>1, <4>1, LeastNat
    <3>3. k \in 0..Len(rows) /\ f[k] # g[k]
      OBVIOUS
    <3>4. k # 0
      BY <1>1, <1>2, <3>3 DEF Keeping
    <3>5. k - 1 \in 0..Len(rows) /\ ~(k <= k - 1)
      BY <3>1, <3>3, <3>4
    <3>6. f[k - 1] = g[k - 1]
      BY <3>2, <3>5
    <3> QED
      BY <1>1, <1>2, <3>3, <3>4, <3>6 DEF Keeping
  <2>2. \A k \in 0..Len(rows) : f[k] = g[k]
    BY <2>1
  <2>3. f = [k \in 0..Len(rows) |-> f[k]]
    BY <1>2 DEF Keeping
  <2> QED
    BY <2>2, <2>3
<1> QED
  BY <1>1, <1>2, <1>3, <1>4

\* A row that is no orphan is kept at the end of what is kept so far, and stays there.
Stands(rows, f, k) ==
  /\ \A i \in 1..k : ~Orphan(rows, i) => Len(f[i]) \in 1..Len(f[k]) /\ f[k][Len(f[i])] = rows[i]
  /\ \A q \in 1..Len(f[k]) : \E i \in 1..k : ~Orphan(rows, i) /\ q = Len(f[i])

LEMMA KeptStands ==
  ASSUME NEW rows \in Seq(Rows), NEW f \in [0..Len(rows) -> Seq(Rows)], Keeping(rows, f),
         NEW m \in 0..Len(rows)
  PROVE  Stands(rows, f, m)
<1> DEFINE n == Len(rows)
           T == {k \in 0..n : ~Stands(rows, f, k)}
<1>0. n \in Nat /\ \A i \in 1..n : rows[i] \in Rows
  BY LenProperties, ElementOfSeq
<1>1. SUFFICES ASSUME T # {} PROVE FALSE
  OBVIOUS
<1>2. PICK k \in T : \A y \in T : k <= y
  <2>1. T \subseteq Nat
    BY <1>0
  <2> HIDE DEF T
  <2> QED
    BY <1>1, <2>1, LeastNat
<1>3. k \in 0..n /\ ~Stands(rows, f, k)
  OBVIOUS
<1>4. CASE k = 0
  <2>1. f[0] = <<>> /\ Len(<<>>) = 0
    BY <1>0 DEF Keeping
  <2> QED
    BY <1>3, <1>4, <2>1 DEF Stands
<1>5. CASE k # 0
  <2>1. k \in 1..n /\ k - 1 \in 0..n /\ ~(k <= k - 1)
    BY <1>3, <1>5
  <2>2. Stands(rows, f, k - 1)
    BY <1>2, <2>1
  <2>3. f[k] = IF Orphan(rows, k) THEN f[k - 1] ELSE Append(f[k - 1], rows[k])
    BY <1>3, <1>5 DEF Keeping
  <2>4. f[k - 1] \in Seq(Rows) /\ rows[k] \in Rows
    BY <1>0, <2>1
  <2>5. \A i \in 1..k : i \in 1..(k - 1) \/ i = k
    BY <2>1
  <2>6. \A i \in 1..(k - 1) : i \in 1..k
    BY <2>1
  <2>7. CASE Orphan(rows, k)
    BY <1>3, <2>2, <2>3, <2>5, <2>6, <2>7 DEF Stands
  <2>8. CASE ~Orphan(rows, k)
    <3> DEFINE p == Len(f[k - 1])
    <3>1. /\ p \in Nat /\ Len(f[k]) = p + 1 /\ f[k][p + 1] = rows[k]
          /\ \A q \in 1..p : f[k][q] = f[k - 1][q]
      BY <2>3, <2>4, <2>8, AppendProperties, LenProperties
    <3>2. \A q \in 1..(p + 1) : q \in 1..p \/ q = p + 1
      BY <3>1
    <3>3. \A q \in 1..p : q \in 1..(p + 1)
      BY <3>1
    <3>4. p + 1 \in 1..(p + 1) /\ k \in 1..k
      BY <2>1, <3>1
    <3>5. ASSUME NEW i \in 1..k, ~Orphan(rows, i)
          PROVE  Len(f[i]) \in 1..Len(f[k]) /\ f[k][Len(f[i])] = rows[i]
      <4>1. CASE i \in 1..(k - 1)
        <5>1. Len(f[i]) \in 1..p /\ f[k - 1][Len(f[i])] = rows[i]
          BY <2>2, <3>5, <4>1 DEF Stands
        <5> QED
          BY <3>1, <3>3, <5>1
      <4>2. CASE i = k
        BY <3>1, <3>4, <4>2
      <4> QED
        BY <2>5, <4>1, <4>2
    <3>6. ASSUME NEW q \in 1..Len(f[k])
          PROVE  \E i \in 1..k : ~Orphan(rows, i) /\ q = Len(f[i])
      <4>1. CASE q \in 1..p
        BY <2>2, <2>6, <4>1 DEF Stands
      <4>2. CASE q = p + 1
        BY <2>8, <3>1, <3>4, <4>2
      <4> QED
        BY <3>1, <3>2, <4>1, <4>2
    <3> QED
      BY <1>3, <3>5, <3>6 DEF Stands
  <2> QED
    BY <2>7, <2>8
<1> QED
  BY <1>4, <1>5

\* Rows that follow each other and are no orphans are kept next to each other.
LEMMA KeptTogether ==
  ASSUME NEW rows \in Seq(Rows), NEW f \in [0..Len(rows) -> Seq(Rows)], Keeping(rows, f),
         NEW i \in 0..Len(rows), NEW w \in Nat, i + w <= Len(rows),
         \A j \in 1..w : ~Orphan(rows, i + j), NEW m \in 0..w
  PROVE  Len(f[i + m]) = Len(f[i]) + m
<1> DEFINE n == Len(rows)
           T == {k \in 0..w : Len(f[i + k]) # Len(f[i]) + k}
<1>0. n \in Nat /\ \A k \in 1..n : rows[k] \in Rows
  BY LenProperties, ElementOfSeq
<1>1. SUFFICES ASSUME T # {} PROVE FALSE
  OBVIOUS
<1>2. PICK k \in T : \A y \in T : k <= y
  <2>1. T \subseteq Nat
    BY <1>0
  <2> HIDE DEF T
  <2> QED
    BY <1>1, <2>1, LeastNat
<1>3. k \in 0..w /\ Len(f[i + k]) # Len(f[i]) + k
  OBVIOUS
<1>4. Len(f[i]) \in Nat
  BY <1>0, LenProperties
<1>5. k # 0
  BY <1>0, <1>3, <1>4
<1>6. /\ k \in 1..w /\ k - 1 \in 0..w /\ ~(k <= k - 1)
      /\ i + k \in 1..n /\ i + k \in 0..n /\ i + k # 0
      /\ i + (k - 1) \in 0..n /\ (i + k) - 1 = i + (k - 1)
  BY <1>0, <1>3, <1>5
<1>7. Len(f[i + (k - 1)]) = Len(f[i]) + (k - 1)
  BY <1>2, <1>6
<1>8. f[i + k] = Append(f[i + (k - 1)], rows[i + k])
  <2>1. ~Orphan(rows, i + k)
    BY <1>6
  <2> QED
    BY <1>6, <2>1 DEF Keeping
<1>9. f[i + (k - 1)] \in Seq(Rows) /\ rows[i + k] \in Rows
  BY <1>0, <1>6
<1>10. Len(f[i + k]) = Len(f[i + (k - 1)]) + 1
  BY <1>8, <1>9, AppendProperties
<1> QED
  BY <1>3, <1>4, <1>7, <1>10

\* Dropping the orphans keeps a call's answers behind it.
LEMMA NormalizedPaired ==
  ASSUME NEW rows \in Seq(Rows), Paired(rows)
  PROVE  Paired(NormalizedForProvider(rows))
<1> DEFINE n == Len(rows)
<1>1. PICK f \in [0..n -> Seq(Rows)] : Keeping(rows, f) /\ NormalizedForProvider(rows) = f[n]
  BY KeptIs
<1>2. n \in Nat /\ n \in 0..n /\ f[n] \in Seq(Rows)
  BY LenProperties
<1>3. Stands(rows, f, n)
  BY <1>1, <1>2, KeptStands
<1>4. ASSUME NEW q \in 1..Len(f[n]), f[n][q].type = "assistant" PROVE Settled(f[n], q)
  <2>1. PICK i \in 1..n : ~Orphan(rows, i) /\ q = Len(f[i])
    BY <1>3 DEF Stands
  <2>2. f[n][q] = rows[i]
    BY <1>3, <2>1 DEF Stands
  <2>3. Settled(rows, i)
    BY <1>4, <2>2, PairedSettled
  <2> DEFINE w == Width(rows[i])
  <2>4. w \in Nat \ {0} /\ i + w <= n /\ i \in 0..n
    BY <1>2, <2>3, WidthFacts DEF Settled
  <2>5. ASSUME NEW j \in 1..w
        PROVE  /\ ~Orphan(rows, i + j) /\ i + j \in 1..n /\ j \in 0..w
               /\ rows[i + j].type = "tool" /\ rows[i + j].call = <<rows[i].from, j>>
    <3>1. rows[i + j].type = "tool" /\ rows[i + j].call = <<rows[i].from, j>>
      BY <2>3 DEF Settled
    <3>2. i \in 1..((i + j) - 1) /\ i + j \in 1..n /\ j \in 0..w
      BY <1>2, <2>4
    <3>3. rows[i].type = "assistant" /\ rows[i].from = rows[i + j].call[1]
      BY <1>4, <2>2, <3>1
    <3>4. ~Orphan(rows, i + j)
      BY <3>2, <3>3 DEF Orphan
    <3> QED
      BY <3>1, <3>2, <3>4
  <2> HIDE DEF w
  <2>6. \A m \in 0..w : Len(f[i + m]) = q + m
    <3>1. \A j \in 1..w : ~Orphan(rows, i + j)
      BY <2>5
    <3>2. ASSUME NEW m \in 0..w PROVE Len(f[i + m]) = Len(f[i]) + m
      BY <1>1, <2>4, <3>1, KeptTogether
    <3> QED
      BY <2>1, <3>2
  <2>7. ASSUME NEW j \in 1..w PROVE q + j \in 1..Len(f[n]) /\ f[n][q + j] = rows[i + j]
    <3>1. Len(f[i + j]) = q + j
      BY <2>5, <2>6
    <3> QED
      BY <1>3, <2>5, <3>1 DEF Stands
  <2>8. q + w <= Len(f[n])
    <3>1. w \in 1..w
      BY <2>4
    <3>2. q + w \in 1..Len(f[n])
      BY <2>7, <3>1
    <3>3. Len(f[n]) \in Nat
      BY <1>2, LenProperties
    <3> QED
      BY <3>2, <3>3
  <2> QED
    BY <2>2, <2>5, <2>7, <2>8 DEF Settled, w
<1> QED
  BY <1>1, <1>2, <1>4, PairedSettled

-----------------------------------------------------------------------------
(* Tool calls and their answers *)

\* Every assistant row is followed at once by its answers, or it is the last row and
\* all of its calls are staged; and nothing else is staged.
Awaits(h, i) == i = Len(h.rows) /\ h.staged = CallIds(h.rows[i].from, h.rows[i].out)
Tidy(h) ==
  /\ \A i \in 1..Len(h.rows) : h.rows[i].type = "assistant" => Settled(h.rows, i) \/ Awaits(h, i)
  /\ h.staged # <<>> =>
       \E i \in 1..Len(h.rows) : /\ h.rows[i].type = "assistant" /\ Awaits(h, i)
                                 /\ h.all <=> h.rows[i].out = "bundle"

\* Nothing is staged.
Clear(h) == Tidy(h) /\ h.staged = <<>>

LEMMA SettledStays ==
  ASSUME NEW r \in Seq(Rows), NEW s \in Seq(Rows), Len(r) <= Len(s),
         \A i \in 1..Len(r) : s[i] = r[i], NEW i \in 1..Len(r), Settled(r, i)
  PROVE  Settled(s, i)
<1>1. Len(r) \in Nat /\ Len(s) \in Nat
  BY LenProperties
<1>2. s[i] = r[i]
  OBVIOUS
<1> DEFINE w == Width(r[i])
<1>3. w \in Nat \ {0}
  BY WidthFacts
<1>4. i + w <= Len(r) /\ \A j \in 1..w : r[i + j].type = "tool" /\ r[i + j].call = <<r[i].from, j>>
  BY DEF Settled
<1>5. Width(s[i]) = w
  BY <1>2
<1> HIDE DEF w
<1>6. i + w <= Len(s) /\ \A j \in 1..w : i + j \in 1..Len(r)
  BY <1>1, <1>3, <1>4
<1>7. \A j \in 1..w : s[i + j].type = "tool" /\ s[i + j].call = <<s[i].from, j>>
  BY <1>2, <1>4, <1>6
<1> QED
  BY <1>5, <1>6, <1>7 DEF Settled

\* All staged calls are answered at once.
LEMMA AnsweringClears ==
  ASSUME NEW h \in Histories, Tidy(h), NEW g \in Histories, g.staged = <<>>,
         Len(g.rows) = Len(h.rows) + Len(h.staged),
         \A i \in 1..Len(h.rows) : g.rows[i] = h.rows[i],
         \A j \in 1..Len(h.staged) : /\ g.rows[Len(h.rows) + j].type = "tool"
                                     /\ g.rows[Len(h.rows) + j].call = h.staged[j]
  PROVE  Clear(g)
<1> DEFINE m == Len(h.rows)
           k == Len(h.staged)
<1>1. /\ m \in Nat /\ k \in Nat /\ Len(g.rows) = m + k
      /\ h.rows \in Seq(Rows) /\ g.rows \in Seq(Rows) /\ m <= Len(g.rows)
  <2>1. m \in Nat /\ k \in Nat /\ h.rows \in Seq(Rows) /\ g.rows \in Seq(Rows)
    BY HistoryTypes
  <2>2. Len(g.rows) = m + k
    OBVIOUS
  <2>3. m <= m + k
    <3>1. m \in Nat /\ k \in Nat
      BY <2>1
    <3> HIDE DEF m, k
    <3> QED
      BY <3>1
  <2> QED
    BY <2>1, <2>2, <2>3
<1>2. ASSUME NEW i \in 1..m, h.rows[i].type = "assistant" PROVE Settled(g.rows, i)
  <2>1. CASE Settled(h.rows, i)
    BY <1>1, <2>1, SettledStays
  <2>2. CASE Awaits(h, i)
    <3> DEFINE r == h.rows[i]
               w == Width(r)
    <3>1. i = m /\ h.staged = CallIds(r.from, r.out) /\ g.rows[i] = r
      BY <2>2 DEF Awaits
    <3>2. k = w /\ \A j \in 1..w : h.staged[j] = <<r.from, j>>
      BY <3>1, WidthFacts
    <3> HIDE DEF w, r
    <3>3. \A j \in 1..w : g.rows[i + j].type = "tool" /\ g.rows[i + j].call = <<r.from, j>>
      BY <3>1, <3>2
    <3>4. i + w <= Len(g.rows)
      BY <1>1, <3>1, <3>2
    <3>5. Width(g.rows[i]) = w
      BY <3>1 DEF w
    <3> QED
      BY <3>1, <3>3, <3>4, <3>5 DEF Settled
  <2> QED
    BY <1>2, <2>1, <2>2 DEF Tidy
<1>3. ASSUME NEW i \in 1..(m + k), g.rows[i].type = "assistant" PROVE Settled(g.rows, i)
  <2>1. CASE i \in 1..m
    BY <1>2, <1>3, <2>1
  <2>2. CASE i \notin 1..m
    <3>1. i - m \in 1..k /\ m + (i - m) = i
      <4>1. m \in Nat /\ k \in Nat /\ i \in 1..(m + k)
        BY <1>1
      <4> HIDE DEF m, k
      <4> QED
        BY <2>2, <4>1
    <3>2. g.rows[m + (i - m)].type = "tool"
      BY <3>1
    <3>3. g.rows[i].type = "tool"
      BY <3>1, <3>2
    <3> QED
      BY <1>3, <3>3
  <2> QED
    BY <2>1, <2>2
<1> QED
  BY <1>1, <1>3 DEF Clear, Tidy

\* A row that asks for nothing, when nothing is staged.
LEMMA NoteClears ==
  ASSUME NEW h \in Histories, Clear(h), NEW row \in Rows, row.type # "assistant",
         NEW g \in Histories, g.rows = Append(h.rows, row), g.staged = <<>>
  PROVE  Clear(g)
<1> DEFINE m == Len(h.rows)
<1>1. /\ m \in Nat /\ h.rows \in Seq(Rows) /\ g.rows \in Seq(Rows) /\ Len(g.rows) = m + 1
      /\ \A i \in 1..m : g.rows[i] = h.rows[i]
      /\ g.rows[m + 1] = row /\ m <= Len(g.rows)
  <2>1. m \in Nat /\ h.rows \in Seq(Rows) /\ g.rows \in Seq(Rows)
    BY HistoryTypes
  <2>2. /\ Len(g.rows) = m + 1
        /\ \A i \in 1..m : g.rows[i] = h.rows[i]
        /\ g.rows[m + 1] = row
    BY <2>1, AppendProperties
  <2> QED
    BY <2>1, <2>2
<1>2. ASSUME NEW i \in 1..m, h.rows[i].type = "assistant" PROVE Settled(h.rows, i)
  <2>1. ~Awaits(h, i)
    BY WidthFacts DEF Awaits, Clear
  <2> QED
    BY <1>2, <2>1 DEF Clear, Tidy
<1>3. ASSUME NEW i \in 1..(m + 1), g.rows[i].type = "assistant" PROVE Settled(g.rows, i)
  <2>1. i \in 1..m
    <3>1. i \in 1..m \/ i = m + 1
      BY <1>1
    <3> QED
      BY <1>1, <1>3, <3>1
  <2> QED
    BY <1>1, <1>2, <1>3, <2>1, SettledStays
<1> QED
  BY <1>1, <1>3 DEF Clear, Tidy

\* The staged calls of a tidy history are a bundle's, or one.
LEMMA OneStaged ==
  ASSUME NEW h \in Histories, Tidy(h), h.staged # <<>>, ~h.all
  PROVE  Len(h.staged) = 1
<1>1. PICK i \in 1..Len(h.rows) : Awaits(h, i) /\ (h.all <=> h.rows[i].out = "bundle")
  BY DEF Tidy
<1>2. Width(h.rows[i]) = 1
  BY <1>1 DEF Width
<1> QED
  BY <1>1, <1>2, WidthFacts DEF Awaits

LEMMA AnswersClear ==
  ASSUME NEW h \in Histories, Tidy(h), NEW from, NEW out, NEW g \in Histories, g.staged = <<>>,
         g.rows = h.rows \o [i \in DOMAIN h.staged |-> ToolRow(h.staged[i], from, out)],
         [i \in DOMAIN h.staged |-> ToolRow(h.staged[i], from, out)] \in Seq(Rows)
  PROVE  Clear(g)
<1> DEFINE new == [i \in DOMAIN h.staged |-> ToolRow(h.staged[i], from, out)]
           n == Len(h.staged)
<1>1. n \in Nat /\ DOMAIN h.staged = 1..n /\ h.rows \in Seq(Rows) /\ Len(h.rows) \in Nat
  BY HistoryTypes
<1>2. Len(new) = n /\ \A j \in 1..n : new[j] = ToolRow(h.staged[j], from, out)
  BY <1>1
<1>3. new \in Seq(Rows) /\ g.rows = h.rows \o new
  OBVIOUS
<1> HIDE DEF new
<1>4. /\ Len(g.rows) = Len(h.rows) + n
      /\ \A i \in 1..Len(h.rows) : g.rows[i] = h.rows[i]
      /\ \A j \in 1..n : g.rows[Len(h.rows) + j] = new[j]
  <2>1. h.rows \in Seq(Rows) /\ new \in Seq(Rows) /\ Len(new) = n
    BY <1>1, <1>2, <1>3
  <2> DEFINE r == h.rows
  <2>2. /\ Len(r \o new) = Len(r) + n
        /\ \A i \in 1..Len(r) : (r \o new)[i] = r[i]
        /\ \A j \in 1..n : (r \o new)[Len(r) + j] = new[j]
    <3>1. r \in Seq(Rows) /\ new \in Seq(Rows)
      BY <2>1
    <3>2. /\ Len(r \o new) = Len(r) + Len(new)
          /\ \A i \in 1..Len(r) : (r \o new)[i] = r[i]
          /\ \A j \in 1..Len(new) : (r \o new)[Len(r) + j] = new[j]
      <4> HIDE DEF r
      <4> QED
        BY <3>1, ConcatFacts
    <3> QED
      BY <2>1, <3>2
  <2> QED
    BY <1>3, <2>2
<1>5. \A j \in 1..n : /\ g.rows[Len(h.rows) + j].type = "tool"
                      /\ g.rows[Len(h.rows) + j].call = h.staged[j]
  BY <1>2, <1>4 DEF ToolRow, Row
<1> QED
  BY <1>4, <1>5, AnsweringClears

\* finalize_pending_tool_calls_as_cancelled answers what is staged.
LEMMA FinalizeClears ==
  ASSUME NEW h \in Histories, StagedOpen(h), Tidy(h)
  PROVE  Clear(FinalizePending(h))
<1> DEFINE g == FinalizePending(h)
           new == [i \in DOMAIN h.staged |-> ToolRow(h.staged[i], 0, "cancelled")]
<1>1. g \in Histories /\ g.staged = <<>>
  BY FinalizeProcessed DEF Processed
<1>2. g.rows = h.rows \o new
  BY DEF FinalizePending
<1>3. new \in Seq(Rows)
  <2>1. /\ Len(h.staged) \in Nat /\ DOMAIN h.staged = 1..Len(h.staged)
        /\ \A i \in 1..Len(h.staged) : h.staged[i] \in RealCalls
    BY HistoryTypes, ElementOfSeq
  <2>2. \A i \in 1..Len(h.staged) : ToolRow(h.staged[i], 0, "cancelled") \in Rows
    BY <2>1 DEF ToolRow, Row, Rows, RowTypes
  <2> QED
    BY <2>1, <2>2
<1> HIDE DEF g
<1> QED
  BY <1>1, <1>2, <1>3, AnswersClear DEF g

\* An output answers all that is staged: a bundle's calls, or one.
LEMMA AddToolOutputClears ==
  ASSUME NEW h \in Histories, StagedOpen(h), Tidy(h), NEW b \in Batches, NEW out \in Outputs
  PROVE  Clear(AddToolOutput(h, b, out))
<1> DEFINE g == AddToolOutput(h, b, out)
<1>1. g \in Histories
  BY AddToolOutputProcessed DEF Processed
<1>2. /\ Len(h.staged) \in Nat /\ DOMAIN h.staged = 1..Len(h.staged)
      /\ \A i \in 1..Len(h.staged) : h.staged[i] \in RealCalls
      /\ h.rows \in Seq(Rows) /\ Len(h.rows) \in Nat /\ h.staged \in Seq(RealCalls)
  BY HistoryTypes, ElementOfSeq
<1>3. \A i \in 1..Len(h.staged) : ToolRow(h.staged[i], b, out) \in Rows
  BY <1>2 DEF ToolRow, Row, Rows, RowTypes, Outputs
<1>4. CASE h.staged = <<>>
  <2> DEFINE row == Row("unlinked", NoCall, b, out)
  <2>1. row \in Rows /\ row.type # "assistant"
    BY DEF Row, Rows, RowTypes, Outputs
  <2>2. g = AddRow(h, row)
    BY <1>4 DEF AddToolOutput
  <2> HIDE DEF row
  <2>3. g.rows = Append(h.rows, row) /\ g.staged = <<>>
    BY <1>4, <2>2 DEF AddRow, Histories
  <2> HIDE DEF g
  <2> QED
    BY <1>1, <1>4, <2>1, <2>3, NoteClears DEF Clear, g
<1>5. CASE h.staged # <<>> /\ h.all
  <2> DEFINE new == [i \in DOMAIN h.staged |-> ToolRow(h.staged[i], b, out)]
  <2>1. g = [rows |-> h.rows \o new, staged |-> <<>>, all |-> FALSE]
    BY <1>5 DEF AddToolOutput
  <2>2. new \in Seq(Rows)
    BY <1>2, <1>3
  <2>3. g.rows = h.rows \o new /\ g.staged = <<>>
    BY <2>1
  <2> HIDE DEF g
  <2>4. Clear(g)
    BY <1>1, <2>2, <2>3, AnswersClear
  <2> QED
    BY <2>4 DEF g
<1>6. CASE h.staged # <<>> /\ ~h.all
  <2> DEFINE row == ToolRow(h.staged[1], b, out)
  <2>1. Len(h.staged) = 1
    BY <1>6, OneStaged
  <2>2. Head(h.staged) = h.staged[1] /\ Tail(h.staged) = <<>>
    <3> DEFINE s == h.staged
    <3>1. s \in Seq(RealCalls) /\ s # <<>> /\ Len(s) = 1
      BY <1>2, <1>6, <2>1
    <3> HIDE DEF s
    <3>2. Head(s) = s[1] /\ Tail(s) \in Seq(RealCalls) /\ Len(Tail(s)) = 0
      BY <3>1, HeadTailProperties
    <3>3. Tail(s) = <<>>
      BY <3>2, EmptySeq
    <3> QED
      BY <3>2, <3>3 DEF s
  <2>3. g = [rows |-> Append(h.rows, row), staged |-> <<>>, all |-> FALSE]
    BY <1>6, <2>2 DEF AddToolOutput
  <2>4. row \in Rows /\ row.type = "tool" /\ row.call = h.staged[1]
    BY <1>3, <2>1 DEF ToolRow, Row
  <2> HIDE DEF row
  <2>5. g.rows = Append(h.rows, row) /\ g.staged = <<>>
    BY <2>3
  <2> HIDE DEF g
  <2>6. /\ Len(g.rows) = Len(h.rows) + 1
        /\ \A i \in 1..Len(h.rows) : g.rows[i] = h.rows[i]
        /\ g.rows[Len(h.rows) + 1] = row
    BY <1>2, <2>4, <2>5, AppendProperties
  <2>7. Len(g.rows) = Len(h.rows) + Len(h.staged)
    BY <2>1, <2>6
  <2>8. \A j \in 1..Len(h.staged) : /\ g.rows[Len(h.rows) + j].type = "tool"
                                    /\ g.rows[Len(h.rows) + j].call = h.staged[j]
    <3>1. \A j \in 1..Len(h.staged) : j = 1
      BY <2>1
    <3> QED
      BY <2>4, <2>6, <3>1
  <2>9. Clear(g)
    BY <1>1, <2>5, <2>6, <2>7, <2>8, AnsweringClears
  <2> QED
    BY <2>9 DEF g
<1> QED
  BY <1>4, <1>5, <1>6

LEMMA AddOutputsClear ==
  ASSUME NEW h \in Histories, StagedOpen(h), Tidy(h), NEW b \in Batches, NEW out \in Outputs
  PROVE  Clear(AddOutputs(h, b, out))
<1> DEFINE f == CHOOSE g : Outputting(h, b, out, BundleSize, g)
<1>1. Outputting(h, b, out, BundleSize, f)
  BY ConstantsAssumption, OutputtingExists
<1>2. Calls(b) \in 0..BundleSize /\ Calls(b) >= 1
  BY ConstantsAssumption DEF Calls
<1>3. AddOutputs(h, b, out) = f[Calls(b)]
  BY DEF AddOutputs, Outputting
<1> HIDE DEF f
<1> DEFINE T == {k \in 1..BundleSize : ~Clear(f[k])}
<1>4. ASSUME T # {} PROVE FALSE
  <2>1. PICK k \in T : \A y \in T : k <= y
    <3>1. T \subseteq Nat
      OBVIOUS
    <3> HIDE DEF T
    <3> QED
      BY <1>4, <3>1, LeastNat
  <2>2. k \in 1..BundleSize /\ ~Clear(f[k])
    OBVIOUS
  <2>3. k \in 0..BundleSize /\ k # 0 /\ k - 1 \in 0..BundleSize /\ ~(k <= k - 1)
        /\ (k = 1 \/ k - 1 \in 1..BundleSize)
    BY <2>2, ConstantsAssumption
  <2>4. f[k] = AddToolOutput(f[k - 1], b, out)
    BY <1>1, <2>3 DEF Outputting
  <2>5. f[k - 1] \in Histories /\ StagedOpen(f[k - 1])
    BY <1>1, <2>3, ConstantsAssumption, OutputtingProcessed DEF Processed
  <2>6. Tidy(f[k - 1])
    <3>1. CASE k = 1
      <4>1. f[0] = h
        BY <1>1, ConstantsAssumption DEF Outputting
      <4> QED
        BY <3>1, <4>1
    <3>2. CASE k - 1 \in 1..BundleSize
      BY <2>1, <2>3, <3>2 DEF Clear
    <3> QED
      BY <2>3, <3>1, <3>2
  <2> QED
    BY <2>2, <2>4, <2>5, <2>6, AddToolOutputClears
<1>5. Calls(b) \in 1..BundleSize
  BY <1>2, ConstantsAssumption
<1> QED
  BY <1>3, <1>4, <1>5

\* Without faults, what is staged is what the turn inside the loop waits for.
AwaitInv ==
  /\ Tidy(history)
  /\ history.staged # <<>> => \E t \in Turns : pc[t] \in Busy
  /\ fate \in [Turns -> {"run", "cancel"}]

\* Nothing is staged while the turn with the lock is not busy with a batch.
LEMMA Unstaged ==
  ASSUME LoopInv, AwaitInv, NEW t \in Turns, pc[t] \in Holding \ Busy
  PROVE  Clear(history)
<1>1. ASSUME NEW u \in Turns, pc[u] \in Busy PROVE FALSE
  <2>1. InsideLock(t) /\ InsideLock(u)
    BY <1>1 DEF InsideLock, Holding, Busy
  <2>2. lock = t /\ lock = u
    BY <2>1 DEF LoopInv, ControlInv, LockMatchesGenerator
  <2> QED
    BY <1>1, <2>2
<1> QED
  BY <1>1 DEF AwaitInv, Clear

\* The history stays, and so do the turns that are busy, ...
LEMMA StaysAwaiting ==
  ASSUME AwaitInv, history' = history, \A t \in Turns : pc[t] \in Busy => pc'[t] \in Busy
  PROVE  Tidy(history') /\ (history'.staged # <<>> => \E t \in Turns : pc'[t] \in Busy)
BY DEF AwaitInv

\* ... or nothing is staged any more, ...
LEMMA ClearAwaits ==
  ASSUME Clear(history')
  PROVE  Tidy(history') /\ (history'.staged # <<>> => \E t \in Turns : pc'[t] \in Busy)
BY DEF Clear

\* ... or the model has called tools.
LEMMA CallsAwait ==
  ASSUME LoopInv, HistoryInv, AwaitInv, HistoryInv', NEW t \in Turns,
         NEW k \in {"single", "bundle"}, ModelCallsTools(t, k)
  PROVE  Tidy(history') /\ (history'.staged # <<>> => \E u \in Turns : pc'[u] \in Busy)
<1> DEFINE b == NextBatch
           row == Row("assistant", NoCall, b, k)
           m == Len(history.rows)
<1>1. Clear(history)
  BY Unstaged DEF ModelCallsTools, Holding, Busy
<1>2. /\ b \in Batches
      /\ history' = [rows |-> Append(history.rows, row), staged |-> CallIds(b, k), all |-> k = "bundle"]
      /\ pc'[t] \in Busy
  BY DEF ModelCallsTools, Goto, Busy, LoopInv, ControlInv, ControlTypes
<1>3. row \in Rows /\ row.type = "assistant" /\ row.from = b /\ row.out = k
  <2>1. NoCall \in RealCalls \cup {NoCall} /\ "assistant" \in RowTypes
    BY DEF RowTypes
  <2> HIDE DEF b
  <2> QED
    BY <1>2, <2>1 DEF Row, Rows
<1> HIDE DEF row, b
<1>4. /\ m \in Nat /\ history.rows \in Seq(Rows) /\ history'.rows \in Seq(Rows)
      /\ history \in Histories /\ history' \in Histories
  BY HistoryTypes DEF HistoryInv
<1>5. /\ history'.rows = Append(history.rows, row) /\ history'.staged = CallIds(b, k)
      /\ history'.all <=> k = "bundle"
  BY <1>2
<1>6. /\ Len(history'.rows) = m + 1
      /\ \A i \in 1..m : history'.rows[i] = history.rows[i]
      /\ history'.rows[m + 1] = row
  BY <1>3, <1>4, <1>5, AppendProperties
<1>7. m <= Len(history'.rows) /\ m + 1 \in 1..(m + 1)
  BY <1>4, <1>6
<1>8. Awaits(history', m + 1)
  BY <1>3, <1>5, <1>6 DEF Awaits
<1>9. ASSUME NEW i \in 1..m, history.rows[i].type = "assistant" PROVE Settled(history'.rows, i)
  <2>1. ~Awaits(history, i)
    BY <1>1, WidthFacts DEF Awaits, Clear
  <2>2. Settled(history.rows, i)
    BY <1>1, <1>9, <2>1 DEF Clear, Tidy
  <2> QED
    BY <1>4, <1>6, <1>7, <2>2, SettledStays
<1>10. ASSUME NEW i \in 1..(m + 1), history'.rows[i].type = "assistant"
       PROVE  Settled(history'.rows, i) \/ Awaits(history', i)
  <2>1. i \in 1..m \/ i = m + 1
    BY <1>4
  <2> QED
    BY <1>6, <1>8, <1>9, <1>10, <2>1
<1>11. /\ history'.rows[m + 1].type = "assistant"
       /\ history'.all <=> history'.rows[m + 1].out = "bundle"
  BY <1>3, <1>5, <1>6
<1>12. Tidy(history')
  BY <1>6, <1>7, <1>8, <1>10, <1>11 DEF Tidy
<1> QED
  BY <1>2, <1>12

LEMMA TurnAwaits ==
  ASSUME Faults = {}, LoopInv, HistoryInv, AwaitInv, HistoryInv', NEW t \in Turns,
         Submit(t) \/ TurnStep(t) \/ Cancel(t)
  PROVE  AwaitInv'
<1> DEFINE Goal == Tidy(history') /\ (history'.staged # <<>> => \E u \in Turns : pc'[u] \in Busy)
<1>1. pc \in [Turns -> PCs] /\ history \in Histories /\ StagedOpen(history) /\ history' \in Histories
      /\ Tidy(history) /\ fate[t] # "error"
  BY DEF LoopInv, ControlInv, ControlTypes, HistoryInv, AwaitInv
<1>2. ASSUME NEW p, pc' = [pc EXCEPT ![t] = p], pc[t] \in Busy => p \in Busy, history' = history
      PROVE  Goal
  <2>1. \A u \in Turns : pc[u] \in Busy => pc'[u] \in Busy
    BY <1>1, <1>2
  <2> QED
    BY <1>2, <2>1, StaysAwaiting
<1>3. ASSUME Clear(history') PROVE Goal
  BY <1>3, ClearAwaits
<1>4. ASSUME HandlerCancelled(t, history) PROVE Goal
  <2>1. history' = FinalizePending(history)
    BY <1>4 DEF HandlerCancelled
  <2> QED
    BY <1>1, <1>3, <2>1, FinalizeClears
<1>5. ASSUME pc' = pc, history' = history PROVE Goal
  BY <1>5, StaysAwaiting
<1>6. ASSUME NEW k \in {"single", "bundle"}, ModelCallsTools(t, k) PROVE Goal
  BY <1>6, CallsAwait
<1>7. fate' \in [Turns -> {"run", "cancel"}]
  <2>1. fate' = fate \/ fate' = [fate EXCEPT ![t] = "cancel"]
    BY DEF TurnStep, Submit, AcquireLock, NoModelSelected, AddUserMessage, CallModel, Model, ModelAnswers,
       ModelMalformed, ModelCallsTools, Prepare, PrepareLocal, PrepareFails, PrepareBackend, ExecuteRaises,
       BackendDone, Sent, SendFails, CloseGenerator, FutureExpired, Finalize, GeneratorEnds, HandlerEnds,
       Cancel, CancelOutside, CancelInside, CancelPreparing, CancelSending, CancelWaiting
  <2>2. fate \in [Turns -> {"run", "cancel"}]
    BY DEF AwaitInv
  <2> QED
    BY <2>1, <2>2
<1>8. SUFFICES Goal
  BY <1>7 DEF AwaitInv
<1> HIDE DEF Goal
<1>9. CASE \/ Submit(t) \/ AcquireLock(t) \/ NoModelSelected(t) \/ CallModel(t) \/ GeneratorEnds(t)
           \/ HandlerEnds(t)
  <2>1. \E p : pc' = [pc EXCEPT ![t] = p] /\ pc[t] \notin Busy /\ history' = history
    BY <1>9 DEF Goto, Submit, AcquireLock, NoModelSelected, CallModel, GeneratorEnds, HandlerEnds, Busy
  <2> QED
    BY <1>2, <2>1
<1>10. CASE Prepare(t) \/ BackendDone(t) \/ Sent(t)
  <2>1. ~ExecuteRaises(t)
    BY DEF ExecuteRaises
  <2>2. \E p \in Busy : pc' = [pc EXCEPT ![t] = p] /\ history' = history
    BY <1>1, <1>10, <2>1 DEF Goto, Prepare, PrepareLocal, PrepareFails, PrepareBackend, BackendDone, Sent, Busy
  <2> QED
    BY <1>2, <2>2
<1>11. CASE CloseGenerator(t)
  <2>1. pc' = pc /\ history' = history
    BY <1>11 DEF CloseGenerator
  <2> QED
    BY <1>5, <2>1
<1>12. CASE AddUserMessage(t) \/ ModelAnswers(t) \/ ModelMalformed(t)
  <2>1. Clear(history)
    BY <1>12, Unstaged DEF AddUserMessage, ModelAnswers, ModelMalformed, Holding, Busy
  <2>2. PICK row \in Rows : /\ row.type # "assistant" /\ history'.rows = Append(history.rows, row)
                            /\ history'.staged = <<>>
    <3>1. CASE AddUserMessage(t)
      <4> DEFINE row == Row("user", NoCall, 0, "user")
      <4>1. row \in Rows /\ row.type # "assistant"
        BY DEF Row, Rows, RowTypes
      <4>2. history' = AddRow(history, row)
        BY <3>1 DEF AddUserMessage
      <4> HIDE DEF row
      <4> QED
        BY <1>1, <2>1, <4>1, <4>2 DEF AddRow, Histories, Clear
    <3>2. CASE ModelAnswers(t)
      <4> DEFINE row == Row("answer", NoCall, 0, "answer")
      <4>1. row \in Rows /\ row.type # "assistant"
        BY DEF Row, Rows, RowTypes
      <4>2. history' = AddRow(history, row)
        BY <3>2 DEF ModelAnswers
      <4> HIDE DEF row
      <4> QED
        BY <1>1, <2>1, <4>1, <4>2 DEF AddRow, Histories, Clear
    <3>3. CASE ModelMalformed(t)
      <4> DEFINE b == NextBatch
                 row == ToolRow(<<b, 1>>, b, "malformed")
      <4>1. b \in Batches
        BY <3>3 DEF ModelMalformed
      <4>2. history' = [rows |-> Append(history.rows, row), staged |-> <<>>, all |-> FALSE]
        BY <3>3 DEF ModelMalformed
      <4> HIDE DEF b
      <4>3. <<b, 1>> \in RealCalls
        BY <4>1, ConstantsAssumption DEF RealCalls
      <4>4. row \in Rows /\ row.type # "assistant"
        BY <4>1, <4>3 DEF ToolRow, Row, Rows, RowTypes
      <4> HIDE DEF row
      <4> QED
        BY <4>2, <4>4
    <3> QED
      BY <1>12, <3>1, <3>2, <3>3
  <2>3. Clear(history')
    BY <1>1, <2>1, <2>2, NoteClears
  <2> QED
    BY <1>3, <2>3
<1>13. ASSUME CancelWaiting(t) PROVE Goal
  <2>1. CASE HandlerCancelled(t, history)
    BY <1>4, <2>1
  <2>2. CASE UNCHANGED <<pc, history>>
    BY <1>5, <2>2
  <2> QED
    BY <1>13, <2>1, <2>2 DEF CancelWaiting
<1>14. CASE Cancel(t) \/ FutureExpired(t)
  <2>1. CASE CancelPreparing(t)
    <3>1. "tools" \in Busy /\ pc' = [pc EXCEPT ![t] = "tools"] /\ history' = history
      BY <2>1 DEF CancelPreparing, Goto, Busy
    <3> QED
      BY <1>2, <3>1
  <2>2. CASE CancelOutside(t) \/ CancelInside(t) \/ CancelSending(t)
    BY <1>4, <2>2 DEF CancelOutside, CancelInside, CancelSending
  <2> QED
    BY <1>13, <1>14, <2>1, <2>2 DEF Cancel, FutureExpired
<1>15. CASE Finalize(t)
  BY <1>1, <1>3, <1>15, FinalizeClears DEF Finalize
<1>16. ~SendFails(t)
  BY DEF SendFails
<1> QED
  BY <1>9, <1>10, <1>11, <1>12, <1>6, <1>14, <1>15, <1>16 DEF TurnStep, Model

LEMMA AwaitStep ==
  ASSUME Faults = {}, LoopInv, HistoryInv, AwaitInv, [Next]_vars, HistoryInv'
  PROVE  AwaitInv'
<1>1. ASSUME NEW t \in Turns, Submit(t) \/ TurnStep(t) \/ Cancel(t) PROVE AwaitInv'
  BY <1>1, TurnAwaits
<1>2. ASSUME pc' = pc, history' = history, fate' = fate PROVE AwaitInv'
  BY <1>2 DEF AwaitInv
<1>3. ASSUME NEW b \in Batches, StartWait(b) \/ DetachedExpired(b) PROVE AwaitInv'
  BY <1>2, <1>3 DEF StartWait, DetachedExpired, turnVars
<1>4. ASSUME NEW m \in Messages, SdkReplies(m) \/ RouteLookup(m) \/ RouteStore(m) PROVE AwaitInv'
  BY <1>2, <1>4 DEF SdkReplies, RouteLookup, RouteStore, turnVars
<1>5. ASSUME NEW b \in Batches, Process(b) PROVE AwaitInv'
  <2>1. history \in Histories /\ StagedOpen(history) /\ Tidy(history)
    BY DEF HistoryInv, AwaitInv
  <2>2. PICK h : Finish(b, h) /\ h \in Histories /\ StagedOpen(h) /\ Clear(h)
    <3>1. ASSUME NEW s, NEW out \in Outputs, ProcessEach(b, s, out)
          PROVE  \E h : Finish(b, h) /\ h \in Histories /\ StagedOpen(h) /\ Clear(h)
      <4>1. LET h == AddOutputs(history, b, out) IN
              Finish(b, h) /\ h \in Histories /\ StagedOpen(h) /\ Clear(h)
        BY <2>1, <3>1, AddOutputsProcessed, AddOutputsClear DEF ProcessEach, Processed
      <4> QED
        BY <4>1
    <3>2. CASE WakeBundle(b)
      <4>1. "result" \in Outputs
        BY DEF Outputs
      <4>2. LET h == AddToolOutput(history, b, "result") IN
              Finish(b, h) /\ h \in Histories /\ StagedOpen(h) /\ Clear(h)
        BY <2>1, <3>2, <4>1, AddToolOutputProcessed, AddToolOutputClears DEF WakeBundle, Processed
      <4> QED
        BY <4>2
    <3>3. CASE CollectStale(b) \/ CollectEarly(b) \/ WakeEach(b) \/ Timeout(b)
      <4>1. \E s, out : out \in Outputs /\ ProcessEach(b, s, out)
        BY <3>3 DEF CollectStale, CollectEarly, WakeEach, Timeout, Outputs
      <4> QED
        BY <3>1, <4>1
    <3> QED
      BY <1>5, <3>2, <3>3 DEF Process
  <2>3. fate' = fate /\ history' \in {h, FinalizePending(h)}
    BY <2>2 DEF Finish, EndBatch, HandlerCancelled
  <2>4. Clear(history')
    BY <2>2, <2>3, FinalizeClears DEF Clear
  <2> QED
    BY <2>3, <2>4, ClearAwaits DEF AwaitInv
<1>6. CASE UNCHANGED vars
  BY <1>2, <1>6 DEF vars, turnVars
<1> QED
  BY <1>1, <1>3, <1>4, <1>5, <1>6 DEF Next, BatchStep, Process

LEMMA AwaitInit ==
  ASSUME Init
  PROVE  AwaitInv
<1>1. history = [rows |-> <<>>, staged |-> <<>>, all |-> FALSE] /\ fate = [t \in Turns |-> "run"]
  BY DEF Init
<1>2. Len(<<>>) = 0
  OBVIOUS
<1> QED
  BY <1>1, <1>2 DEF AwaitInv, Tidy

\* While neither speech nor a fault comes between, every request for the model holds
\* the answers to an assistant row's calls right behind it.
THEOREM PairedTheorem == ASSUME Faults = {} PROVE Spec => ModelSeesPairedCalls
<1> DEFINE Sees == \A t \in Turns : pc[t] = "ready" /\ pc'[t] = "llm"
                                       => Paired(NormalizedForProvider(history.rows))
<1>1. LoopInv /\ HistoryInv /\ AwaitInv => Sees
  <2> SUFFICES ASSUME LoopInv, HistoryInv, AwaitInv, NEW t \in Turns, pc[t] = "ready"
               PROVE  Paired(NormalizedForProvider(history.rows))
    OBVIOUS
  <2>1. Clear(history)
    BY Unstaged DEF Holding, Busy
  <2>2. history.rows \in Seq(Rows)
    BY HistoryTypes DEF HistoryInv
  <2>3. ASSUME NEW i \in 1..Len(history.rows), history.rows[i].type = "assistant"
        PROVE  Settled(history.rows, i)
    <3>1. ~Awaits(history, i)
      BY <2>1, WidthFacts DEF Awaits, Clear
    <3> QED
      BY <2>1, <2>3, <3>1 DEF Clear, Tidy
  <2>4. Paired(history.rows)
    BY <2>2, <2>3, PairedSettled
  <2> QED
    BY <2>2, <2>4, NormalizedPaired
<1>2. LoopInv /\ HistoryInv /\ AwaitInv /\ [Next]_vars /\ HistoryInv' => AwaitInv'
  BY AwaitStep
<1>3. Init => AwaitInv
  BY AwaitInit
<1> QED
  BY <1>1, <1>2, <1>3, HistoryInvariant, PTL DEF Spec, ModelSeesPairedCalls

=============================================================================
