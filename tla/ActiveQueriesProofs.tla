------------------------ MODULE ActiveQueriesProofs ------------------------
(***************************************************************************)
(* Proofs about query admission and cancellation, for every number of      *)
(* users, tasks, conversations and turns, and every value of the caps and  *)
(* of the grace period.                                                    *)
(***************************************************************************)
EXTENDS ActiveQueries, FiniteSetTheorems, TLAPS

-----------------------------------------------------------------------------
(* Lemmas about the scopes of stop requests *)

\* The four candidate keys of a query are exactly the scopes that cover it.
LEMMA CandidatesAreCovers ==
  ASSUME NEW q \in Queries, NEW k \in Keys
  PROVE  k \in CandidateKeys(q.conv, q.turn) <=> Covers(k[1], k[2], q)
<1>1. CandidateKeys(q.conv, q.turn) =
        {<<q.conv, q.turn>>, <<q.conv, NoRef>>, <<NoRef, q.turn>>, <<NoRef, NoRef>>}
  BY DEF CandidateKeys, PendingStopCandidates
<1>2. k = <<k[1], k[2]>>
  BY DEF Keys
<1> QED
  BY <1>1, <1>2 DEF Covers

\* Candidate keys are keys.
LEMMA CandidatesAreKeys ==
  ASSUME NEW c \in OptConvs, NEW r \in OptTurns
  PROVE  CandidateKeys(c, r) \subseteq Keys
BY DEF CandidateKeys, PendingStopCandidates, Keys, OptConvs, OptTurns

\* When no candidate is live, consume_pending_stop_request drops all of them.
LEMMA NothingLiveDropsAll ==
  ASSUME NEW u, NEW c, NEW r, ~HasLiveStop(u, c, r)
  PROVE  ConsumedKeys(u, c, r) = CandidateKeys(c, r)
<1>1. \A i \in 1..4 : ~Live(u, PendingStopCandidates(c, r)[i])
  BY DEF HasLiveStop, CandidateKeys
<1> QED
  BY <1>1, Zenon DEF ConsumedKeys, CandidateKeys

\* Dropping latches keeps the table's type and only ever zeroes entries.
LEMMA WithoutFacts ==
  ASSUME pending \in [Users -> [Keys -> Nat]], NEW u \in Users, NEW keys
  PROVE  /\ Without(u, keys) \in [Users -> [Keys -> Nat]]
         /\ \A v \in Users, k \in Keys :
              Without(u, keys)[v][k] = IF v = u /\ k \in keys THEN 0 ELSE pending[v][k]
BY DEF Without

-----------------------------------------------------------------------------
(* Types *)

\* The initial states are typed.
LEMMA TypeInit == Init => TypeOK
BY ConstantsAssumption DEF Init, TypeOK, Statuses

\* Every step keeps the types.
LEMMA TypeStep == TypeOK /\ [Next]_vars => TypeOK'
<1> SUFFICES ASSUME TypeOK, [Next]_vars PROVE TypeOK'
  OBVIOUS
<1> USE DEF TypeOK
<1>0. \A t \in Tasks : query[t] \in Queries /\ query[t].user \in Users
  BY DEF Queries
<1>1. ASSUME NEW t \in Tasks, Receive(t) PROVE TypeOK'
  BY <1>1 DEF Receive, Statuses
<1>2. ASSUME NEW t \in Tasks, RejectUserLimit(t) PROVE TypeOK'
  BY <1>2 DEF RejectUserLimit, Statuses
<1>3. ASSUME NEW t \in Tasks, RejectGlobalLimit(t) PROVE TypeOK'
  BY <1>3 DEF RejectGlobalLimit, Statuses, Pruned
<1>4. ASSUME NEW t \in Tasks, SwallowStopped(t) PROVE TypeOK'
  <2>1. pending' \in [Users -> [Keys -> Nat]]
    BY <1>0, <1>4, WithoutFacts DEF SwallowStopped
  <2> QED
    BY <1>4, <2>1 DEF SwallowStopped, Statuses, Pruned
<1>5. ASSUME NEW t \in Tasks, Register(t) PROVE TypeOK'
  <2>1. pending' \in [Users -> [Keys -> Nat]]
    BY <1>0, <1>5, WithoutFacts DEF Register
  <2> QED
    BY <1>5, <2>1 DEF Register, Statuses, Pruned
<1>6. ASSUME NEW t \in Tasks, Finish(t) PROVE TypeOK'
  BY <1>6 DEF Finish, Statuses
<1>7. ASSUME NEW t \in Tasks, ConnectionCancel(t) PROVE TypeOK'
  BY <1>7 DEF ConnectionCancel, Statuses
<1>8. ASSUME NEW u \in Users, NEW c \in OptConvs, NEW r \in OptTurns, StopRunning(u, c, r)
      PROVE  TypeOK'
  <2>1. pending' \in [Users -> [Keys -> Nat]]
    BY <1>8, WithoutFacts DEF StopRunning
  <2> QED
    BY <1>8, <2>1 DEF StopRunning, Statuses
<1>9. ASSUME NEW u \in Users, NEW c \in OptConvs, NEW r \in OptTurns, StopIdle(u, c, r)
      PROVE  TypeOK'
  <2>1. now + Grace \in Nat /\ <<c, r>> \in Keys
    BY ConstantsAssumption DEF Keys
  <2>2. pending' \in [Users -> [Keys -> Nat]]
    BY <1>9, <2>1 DEF StopIdle, RegisterPendingStop
  <2>3. stops' \in Seq(StopRequests)
    BY <1>9 DEF StopIdle, RegisterPendingStop, StopRequests
  <2> QED
    BY <1>9, <2>2, <2>3 DEF StopIdle
<1>10. ASSUME NEW u \in Users, EndSession(u) \/ ClearUserState(u) PROVE TypeOK'
  <2>1. CASE EndSession(u)
    <3>1. ending[u] + 1 \in Nat
      OBVIOUS
    <3> QED
      BY <2>1, <3>1 DEF EndSession
  <2>2. CASE ClearUserState(u)
    <3>1. ending[u] - 1 \in Nat
      BY <2>2 DEF ClearUserState
    <3>2. ending' \in [Users -> Nat]
      BY <2>2, <3>1 DEF ClearUserState
    <3>3. tracked' \subseteq Tasks
      BY <2>2 DEF ClearUserState
    <3>4. CASE pending' = pending
      BY <2>2, <3>2, <3>3, <3>4 DEF ClearUserState
    <3>5. CASE pending' = [pending EXCEPT ![u] = [k \in Keys |-> 0]]
      <4>1. pending' \in [Users -> [Keys -> Nat]]
        BY <3>5
      <4> QED
        BY <2>2, <3>2, <3>3, <4>1 DEF ClearUserState
    <3> QED
      BY <2>2, <3>4, <3>5 DEF ClearUserState
  <2> QED
    BY <1>10, <2>1, <2>2
<1>11. CASE Tick
  BY <1>11 DEF Tick
<1>12. CASE UNCHANGED vars
  BY <1>12 DEF vars
<1> QED
  BY <1>1, <1>2, <1>3, <1>4, <1>5, <1>6, <1>7, <1>8, <1>9, <1>10, <1>11, <1>12
     DEF Next, TaskStep

\* The tracker's state and the handler tasks keep their types.
THEOREM TypeCorrect == Spec => []TypeOK
<1> QED
  BY TypeInit, TypeStep, PTL DEF Spec

-----------------------------------------------------------------------------
(* What the tracker holds *)

\* While an end_session is in progress, the queries of its user that can still run
\* are the ones a reconnected client sent since it began.
EndingSpares ==
  \A t \in Tasks :
    status[t] \in {"queued", "executing"} /\ ending[query[t].user] > 0 => t \in overlapped

\* No end_session is in progress at first.
LEMMA SparesInit == Init => EndingSpares
BY DEF Init, EndingSpares

\* A step that starts no handler task and no end_session keeps EndingSpares.
LEMMA SparesKept ==
  ASSUME TypeOK, EndingSpares, query' = query, overlapped \subseteq overlapped',
         \A u \in Users : ending'[u] > 0 => ending[u] > 0,
         \A t \in Tasks : status'[t] \in {"queued", "executing"} => status[t] \in {"queued", "executing"}
  PROVE  EndingSpares'
<1>1. \A t \in Tasks : query[t].user \in Users
  BY DEF TypeOK, Queries
<1> QED
  BY <1>1 DEF EndingSpares

\* Every step keeps EndingSpares: end_session starts only after the connection has
\* cancelled its tasks, and what is received afterwards is overlapped.
LEMMA SparesStep == TypeOK /\ EndingSpares /\ [Next]_vars => EndingSpares'
<1> SUFFICES ASSUME TypeOK, EndingSpares, [Next]_vars PROVE EndingSpares'
  OBVIOUS
<1>0. /\ status \in [Tasks -> Statuses] /\ ending \in [Users -> Nat]
      /\ \A t \in Tasks : query[t].user \in Users
  BY DEF TypeOK, Queries
<1>1. ASSUME NEW t \in Tasks, Receive(t) PROVE EndingSpares'
  BY <1>0, <1>1 DEF Receive, EndingSpares
<1>2. ASSUME NEW t \in Tasks,
             \/ RejectUserLimit(t) \/ RejectGlobalLimit(t) \/ SwallowStopped(t)
             \/ Register(t) \/ Finish(t) \/ ConnectionCancel(t)
      PROVE  EndingSpares'
  <2>1. query' = query /\ overlapped' = overlapped /\ ending' = ending
    BY <1>2 DEF RejectUserLimit, RejectGlobalLimit, SwallowStopped, Register, Finish, ConnectionCancel
  <2>2. \A s \in Tasks : status'[s] \in {"queued", "executing"} => status[s] \in {"queued", "executing"}
    BY <1>0, <1>2 DEF RejectUserLimit, RejectGlobalLimit, SwallowStopped, Register, UnderLimits,
                      Finish, ConnectionCancel
  <2> QED
    BY <2>1, <2>2, SparesKept
<1>3. ASSUME NEW u \in Users, NEW c \in OptConvs, NEW r \in OptTurns,
             StopRunning(u, c, r) \/ StopIdle(u, c, r)
      PROVE  EndingSpares'
  <2>1. query' = query /\ overlapped' = overlapped /\ ending' = ending
    BY <1>3 DEF StopRunning, StopIdle
  <2>2. \A s \in Tasks : status'[s] \in {"queued", "executing"} => status[s] \in {"queued", "executing"}
    BY <1>0, <1>3 DEF StopRunning, StopIdle
  <2> QED
    BY <2>1, <2>2, SparesKept
<1>4. ASSUME NEW u \in Users, EndSession(u) PROVE EndingSpares'
  BY <1>0, <1>4 DEF EndSession, EndingSpares
<1>5. ASSUME NEW u \in Users, ClearUserState(u) PROVE EndingSpares'
  <2>1. \A v \in Users : ending'[v] > 0 => ending[v] > 0
    BY <1>0, <1>5 DEF ClearUserState
  <2> QED
    BY <1>5, <2>1, SparesKept DEF ClearUserState
<1>6. CASE Tick \/ UNCHANGED vars
  BY <1>6, SparesKept DEF Tick, vars
<1> QED
  BY <1>1, <1>2, <1>3, <1>4, <1>5, <1>6 DEF Next, TaskStep

\* The tracker holds finitely many tasks, only running ones, and within caps.
Admission == IsFiniteSet(tracked) /\ ExecutingIsTracked /\ CapsRespected

\* A step that only takes tasks out of the tracker keeps it within the caps.
LEMMA CapsShrink ==
  ASSUME TypeOK, IsFiniteSet(tracked), CapsRespected, query' = query, tracked' \subseteq tracked
  PROVE  IsFiniteSet(tracked') /\ CapsRespected'
<1>1. IsFiniteSet(tracked') /\ Cardinality(tracked') <= Cardinality(tracked)
  BY FS_Subset
<1>2. /\ Cardinality(tracked) \in Nat /\ Cardinality(tracked') \in Nat
      /\ Cardinality(tracked) <= MaxGlobal /\ MaxGlobal \in Nat
  BY <1>1, FS_CardinalityType, ConstantsAssumption DEF CapsRespected
<1>3. ASSUME NEW u \in Users PROVE Cardinality(TrackedOf(u)') <= MaxPerUser
  <2>1. IsFiniteSet(TrackedOf(u))
    BY FS_Subset DEF TrackedOf
  <2>2. TrackedOf(u)' \subseteq TrackedOf(u)
    BY DEF TrackedOf
  <2>3. /\ IsFiniteSet(TrackedOf(u)')
        /\ Cardinality(TrackedOf(u)') <= Cardinality(TrackedOf(u))
    BY <2>1, <2>2, FS_Subset
  <2>4. /\ Cardinality(TrackedOf(u)) \in Nat /\ Cardinality(TrackedOf(u)') \in Nat
        /\ Cardinality(TrackedOf(u)) <= MaxPerUser /\ MaxPerUser \in Nat
    BY <2>1, <2>3, FS_CardinalityType, ConstantsAssumption DEF CapsRespected
  <2> QED
    BY <2>3, <2>4
<1>4. Cardinality(tracked') <= MaxGlobal
  BY <1>1, <1>2
<1> QED
  BY <1>1, <1>3, <1>4 DEF CapsRespected

\* One more element fits under a bound that was not reached.
LEMMA OneMore ==
  ASSUME NEW S, NEW x, IsFiniteSet(S), NEW n \in Nat, Cardinality(S) < n
  PROVE  IsFiniteSet(S \cup {x}) /\ Cardinality(S \cup {x}) <= n
<1>1. Cardinality(S) \in Nat
  BY FS_CardinalityType
<1>2. CASE x \in S
  <2>1. S \cup {x} = S
    BY <1>2
  <2> QED
    BY <1>1, <2>1
<1>3. CASE x \notin S
  <2>1. IsFiniteSet(S \cup {x}) /\ Cardinality(S \cup {x}) = Cardinality(S) + 1
    BY <1>3, FS_AddElement
  <2> QED
    BY <1>1, <2>1
<1> QED
  BY <1>2, <1>3

\* The limit checks leave room for the task that is then registered.
LEMMA CapsRegister ==
  ASSUME TypeOK, IsFiniteSet(tracked), CapsRespected, NEW t \in Tasks, Register(t)
  PROVE  IsFiniteSet(tracked') /\ CapsRespected'
<1>1. /\ tracked' = Pruned \cup {t} /\ query' = query
      /\ CountOf(query[t].user) < MaxPerUser /\ CountAll < MaxGlobal
      /\ MaxPerUser \in Nat /\ MaxGlobal \in Nat
  BY ConstantsAssumption DEF Register, UnderLimits
<1>2. IsFiniteSet(Pruned)
  BY FS_Subset DEF Pruned
<1>3. IsFiniteSet(tracked')
  BY <1>1, <1>2, FS_AddElement
<1>4. Cardinality(tracked') <= MaxGlobal
  BY <1>1, <1>2, OneMore DEF CountAll
<1>5. ASSUME NEW u \in Users PROVE Cardinality(TrackedOf(u)') <= MaxPerUser
  <2> DEFINE before == {s \in Pruned : query[s].user = u}
  <2>1. IsFiniteSet(before) /\ Cardinality(before) \in Nat
    BY <1>2, FS_Subset, FS_CardinalityType
  <2>2. CASE query[t].user = u
    <3>1. TrackedOf(u)' = before \cup {t}
      BY <1>1, <2>2 DEF TrackedOf
    <3>2. Cardinality(before) < MaxPerUser
      BY <1>1, <2>2 DEF CountOf
    <3> HIDE DEF before
    <3> QED
      BY <1>1, <2>1, <3>1, <3>2, OneMore
  <2>3. CASE query[t].user # u
    <3>1. TrackedOf(u)' \subseteq TrackedOf(u)
      BY <1>1, <2>3 DEF TrackedOf, Pruned
    <3>2. IsFiniteSet(TrackedOf(u))
      BY FS_Subset DEF TrackedOf
    <3>3. /\ IsFiniteSet(TrackedOf(u)')
          /\ Cardinality(TrackedOf(u)') <= Cardinality(TrackedOf(u))
      BY <3>1, <3>2, FS_Subset
    <3>4. /\ Cardinality(TrackedOf(u)) \in Nat /\ Cardinality(TrackedOf(u)') \in Nat
          /\ Cardinality(TrackedOf(u)) <= MaxPerUser
      BY <3>2, <3>3, FS_CardinalityType DEF CapsRespected
    <3> QED
      BY <1>1, <3>3, <3>4
  <2> QED
    BY <2>2, <2>3
<1> QED
  BY <1>3, <1>4, <1>5 DEF CapsRespected

\* The tracker starts empty.
LEMMA AdmissionInit == Init => Admission
<1> SUFFICES ASSUME Init PROVE Admission
  OBVIOUS
<1>1. tracked = {} /\ \A t \in Tasks : status[t] = "absent"
  BY DEF Init
<1>2. \A u \in Users : TrackedOf(u) = {}
  BY <1>1 DEF TrackedOf
<1>3. CapsRespected
  BY <1>1, <1>2, FS_EmptySet, ConstantsAssumption DEF CapsRespected
<1> QED
  BY <1>1, <1>3, FS_EmptySet DEF Admission, ExecutingIsTracked

\* Every step keeps Admission.
LEMMA AdmissionStep == TypeOK /\ EndingSpares /\ Admission /\ [Next]_vars => Admission'
<1> SUFFICES ASSUME TypeOK, EndingSpares, Admission, [Next]_vars PROVE Admission'
  OBVIOUS
<1> USE DEF TypeOK, Admission
<1>0. \A t \in Tasks : status[t] \in Statuses
  OBVIOUS
\* A tracked task is running, so that pruning finds nothing to drop.
<1>a. \A t \in tracked : ~Done(t) /\ t \in Tasks
  BY DEF ExecutingIsTracked, Running, Done
<1>b. Pruned = tracked
  BY <1>a DEF Pruned
<1>1. ASSUME NEW t \in Tasks, Receive(t) PROVE Admission'
  <2>1. ExecutingIsTracked'
    BY <1>1 DEF Receive, ExecutingIsTracked, Running
  <2> QED
    BY <1>1, <2>1, CapsShrink DEF Receive
<1>2. ASSUME NEW t \in Tasks, RejectUserLimit(t) PROVE Admission'
  <2>1. ExecutingIsTracked'
    BY <1>2, <1>a DEF RejectUserLimit, ExecutingIsTracked, Running
  <2> QED
    BY <1>2, <2>1, CapsShrink DEF RejectUserLimit
<1>3. ASSUME NEW t \in Tasks, RejectGlobalLimit(t) PROVE Admission'
  <2>1. ExecutingIsTracked'
    BY <1>3, <1>b DEF RejectGlobalLimit, ExecutingIsTracked, Running
  <2> QED
    BY <1>3, <1>b, <2>1, CapsShrink DEF RejectGlobalLimit
<1>4. ASSUME NEW t \in Tasks, SwallowStopped(t) PROVE Admission'
  <2>1. ExecutingIsTracked'
    BY <1>4, <1>b DEF SwallowStopped, UnderLimits, ExecutingIsTracked, Running
  <2> QED
    BY <1>4, <1>b, <2>1, CapsShrink DEF SwallowStopped
<1>5. ASSUME NEW t \in Tasks, Register(t) PROVE Admission'
  <2>1. ExecutingIsTracked'
    BY <1>5, <1>b DEF Register, UnderLimits, ExecutingIsTracked, Running
  <2> QED
    BY <1>5, <2>1, CapsRegister
<1>6. ASSUME NEW t \in Tasks, Finish(t) PROVE Admission'
  <2>1. ExecutingIsTracked'
    BY <1>6 DEF Finish, ExecutingIsTracked, Running
  <2> QED
    BY <1>6, <2>1, CapsShrink DEF Finish
<1>7. ASSUME NEW t \in Tasks, ConnectionCancel(t) PROVE Admission'
  <2>1. ExecutingIsTracked'
    BY <1>7 DEF ConnectionCancel, ExecutingIsTracked, Running
  <2> QED
    BY <1>7, <2>1, CapsShrink DEF ConnectionCancel
<1>8. ASSUME NEW u \in Users, NEW c \in OptConvs, NEW r \in OptTurns, StopRunning(u, c, r)
      PROVE  Admission'
  <2>1. ExecutingIsTracked'
    <3>1. \A t \in Tasks : status'[t] = "executing" =>
             status[t] = "executing" /\ t \notin StopHits(u, c, r)
      BY <1>8 DEF StopRunning
    <3>2. tracked' = tracked \ StopHits(u, c, r)
      BY <1>8, <1>a DEF StopRunning
    <3>3. \A t \in tracked' : status'[t] = status[t]
      BY <1>8, <3>2, <1>a DEF StopRunning
    <3> QED
      BY <1>8, <3>1, <3>2, <3>3 DEF StopRunning, ExecutingIsTracked, Running
  <2> QED
    BY <1>8, <2>1, CapsShrink DEF StopRunning
<1>9. ASSUME NEW u \in Users, NEW c \in OptConvs, NEW r \in OptTurns, StopIdle(u, c, r)
      PROVE  Admission'
  <2>1. tracked' = tracked
    BY <1>9, <1>a DEF StopIdle
  <2>2. ExecutingIsTracked'
    BY <1>9, <2>1 DEF StopIdle, ExecutingIsTracked, Running
  <2> QED
    BY <1>9, <2>1, <2>2, CapsShrink DEF StopIdle
<1>10. ASSUME NEW u \in Users, EndSession(u) \/ ClearUserState(u) PROVE Admission'
  <2>1. ExecutingIsTracked'
    <3>1. CASE EndSession(u)
      BY <3>1 DEF EndSession, ExecutingIsTracked, Running
    <3>2. CASE ClearUserState(u)
      BY <3>2 DEF ClearUserState, TrackedOf, ExecutingIsTracked, Running, EndingSpares
    <3> QED
      BY <1>10, <3>1, <3>2
  <2> QED
    BY <1>10, <2>1, CapsShrink DEF EndSession, ClearUserState
<1>11. CASE Tick
  <2>1. ExecutingIsTracked'
    BY <1>11 DEF Tick, ExecutingIsTracked, Running
  <2> QED
    BY <1>11, <2>1, CapsShrink DEF Tick
<1>12. CASE UNCHANGED vars
  <2>1. ExecutingIsTracked'
    BY <1>12 DEF vars, ExecutingIsTracked, Running
  <2> QED
    BY <1>12, <2>1, CapsShrink DEF vars
<1> QED
  BY <1>1, <1>2, <1>3, <1>4, <1>5, <1>6, <1>7, <1>8, <1>9, <1>10, <1>11, <1>12
     DEF Next, TaskStep

\* register_active_query_task_with_limits never lets the tracker hold more than
\* a user's cap or the global cap, for any caps.
THEOREM CapsTheorem == Spec => []WithinCaps
<1>1. TypeOK /\ Admission => WithinCaps
  BY DEF Admission, WithinCaps
<1> QED
  BY <1>1, TypeInit, TypeStep, SparesInit, SparesStep, AdmissionInit, AdmissionStep, PTL DEF Spec

\* An executing query is tracked unless its client reconnected during end_session,
\* and only running ones are tracked.
THEOREM ExecutingTheorem == Spec => []ExecutingIsTracked
<1>1. Admission => ExecutingIsTracked
  BY DEF Admission
<1> QED
  BY <1>1, TypeInit, TypeStep, SparesInit, SparesStep, AdmissionInit, AdmissionStep, PTL DEF Spec

-----------------------------------------------------------------------------
(* Latches *)

\* Every armed latch was left by an unmatched stop with exactly its scope, and
\* expires one grace period after it.
LatchesFromStops ==
  \A u \in Users, k \in Keys : pending[u][k] # 0 =>
    \E i \in DOMAIN stops :
      /\ stops[i].user = u /\ <<stops[i].conv, stops[i].turn>> = k
      /\ stops[i].at <= now /\ pending[u][k] = stops[i].at + Grace

Latches == LatchesFromStops /\ SwallowJustified /\ TrackedNotLatched

\* Appending to the stop requests keeps the earlier ones where they are.
LEMMA AppendKeeps ==
  ASSUME NEW seq \in Seq(StopRequests), NEW r \in StopRequests
  PROVE  /\ \A i \in DOMAIN seq : i \in DOMAIN Append(seq, r) /\ Append(seq, r)[i] = seq[i]
         /\ Len(seq) + 1 \in DOMAIN Append(seq, r)
         /\ Append(seq, r)[Len(seq) + 1] = r
OBVIOUS

\* A step that stops nobody, arms nothing and swallows nothing keeps the latch
\* invariants, provided that what it starts to track is not latched.
LEMMA LatchesKept ==
  ASSUME TypeOK, Latches,
         query' = query, stops' = stops, now' = now, swallowedAt' = swallowedAt,
         \A u \in Users, k \in Keys : pending'[u][k] \in {0, pending[u][k]},
         \A t \in Tasks : status'[t] = "stop-consumed" => status[t] = "stop-consumed",
         \A t \in tracked' \ tracked : \A k \in Keys :
            Covers(k[1], k[2], query[t]) => pending'[query[t].user][k] = 0,
         tracked' \subseteq Tasks
  PROVE  Latches'
<1>1. LatchesFromStops'
  BY DEF Latches, LatchesFromStops
<1>2. SwallowJustified'
  BY DEF Latches, SwallowJustified, Covers
<1>3. TrackedNotLatched'
  <2> SUFFICES ASSUME NEW t \in tracked', NEW k \in Keys, Covers(k[1], k[2], query[t])
               PROVE  pending'[query[t].user][k] = 0
    BY DEF TrackedNotLatched, Covers
  <2>1. query[t].user \in Users
    BY DEF TypeOK, Queries
  <2> QED
    BY <2>1 DEF Latches, TrackedNotLatched
<1> QED
  BY <1>1, <1>2, <1>3 DEF Latches

\* There are no latches at first.
LEMMA LatchesInit == Init => Latches
BY DEF Init, Latches, LatchesFromStops, SwallowJustified, TrackedNotLatched

\* Every step keeps the latch invariants.
LEMMA LatchesStep == TypeOK /\ Admission /\ Latches /\ [Next]_vars => Latches'
<1> SUFFICES ASSUME TypeOK, Admission, Latches, [Next]_vars PROVE Latches'
  OBVIOUS
<1>0. /\ status \in [Tasks -> Statuses] /\ query \in [Tasks -> Queries]
      /\ tracked \subseteq Tasks /\ now \in Nat /\ stops \in Seq(StopRequests)
      /\ pending \in [Users -> [Keys -> Nat]] /\ swallowedAt \in [Tasks -> Nat]
      /\ Grace \in Nat \ {0}
  BY ConstantsAssumption DEF TypeOK
<1>a. \A t \in Tasks : query[t].user \in Users /\ query[t].conv \in OptConvs /\ query[t].turn \in OptTurns
  BY <1>0 DEF Queries, OptTurns
<1>b. \A t \in tracked : ~Done(t)
  BY DEF Admission, ExecutingIsTracked, Running, Done
\* The steps of the handler that leave the latches alone.
<1>1. ASSUME NEW t \in Tasks,
             Receive(t) \/ RejectUserLimit(t) \/ RejectGlobalLimit(t) \/ Finish(t) \/ ConnectionCancel(t)
      PROVE  Latches'
  <2>1. /\ query' = query /\ stops' = stops /\ now' = now /\ swallowedAt' = swallowedAt
        /\ pending' = pending
    BY <1>1 DEF Receive, RejectUserLimit, RejectGlobalLimit, Finish, ConnectionCancel
  <2>2. tracked' \subseteq tracked
    BY <1>1 DEF Receive, RejectUserLimit, RejectGlobalLimit, Finish, ConnectionCancel, Pruned
  <2>3. \A s \in Tasks : status'[s] = "stop-consumed" => status[s] = "stop-consumed"
    BY <1>0, <1>1 DEF Receive, RejectUserLimit, RejectGlobalLimit, Finish, ConnectionCancel
  <2> QED
    BY <1>0, <2>1, <2>2, <2>3, LatchesKept
\* A live latch swallows the query.
<1>2. ASSUME NEW t \in Tasks, SwallowStopped(t) PROVE Latches'
  <2> DEFINE q == query[t]
  <2>1. /\ query' = query /\ stops' = stops /\ now' = now
        /\ pending' = Without(q.user, ConsumedKeys(q.user, q.conv, q.turn))
        /\ tracked' \subseteq tracked
        /\ swallowedAt' = [swallowedAt EXCEPT ![t] = now]
        /\ status' = [status EXCEPT ![t] = "stop-consumed"]
        /\ HasLiveStop(q.user, q.conv, q.turn)
    BY <1>2 DEF SwallowStopped, Pruned
  <2>2. \A u \in Users, k \in Keys : pending'[u][k] \in {0, pending[u][k]}
    BY <1>0, <1>a, <2>1, WithoutFacts
  <2>3. LatchesFromStops'
    BY <2>1, <2>2 DEF Latches, LatchesFromStops
  <2>4. TrackedNotLatched'
    <3> SUFFICES ASSUME NEW s \in tracked', NEW k \in Keys, Covers(k[1], k[2], query[s])
                 PROVE  pending'[query[s].user][k] = 0
      BY <2>1 DEF TrackedNotLatched, Covers
    <3>1. query[s].user \in Users /\ s \in tracked
      BY <1>0, <1>a, <2>1
    <3> QED
      BY <2>2, <3>1 DEF Latches, TrackedNotLatched
  <2>5. PICK k \in CandidateKeys(q.conv, q.turn) : pending[q.user][k] > now
    BY <2>1 DEF HasLiveStop, Live
  <2>6. k \in Keys /\ Covers(k[1], k[2], q)
    BY <1>0, <1>a, <2>5, CandidatesAreKeys, CandidatesAreCovers
  <2>7. pending[q.user][k] # 0
    BY <1>0, <1>a, <2>5, <2>6
  <2>8. PICK i \in DOMAIN stops :
          /\ stops[i].user = q.user /\ <<stops[i].conv, stops[i].turn>> = k
          /\ stops[i].at <= now /\ pending[q.user][k] = stops[i].at + Grace
    BY <1>a, <2>6, <2>7 DEF Latches, LatchesFromStops
  <2>9. SwallowJustified'
    <3> SUFFICES ASSUME NEW s \in Tasks, status'[s] = "stop-consumed"
                 PROVE  \E j \in DOMAIN stops :
                          /\ stops[j].user = query[s].user
                          /\ Covers(stops[j].conv, stops[j].turn, query[s])
                          /\ stops[j].at <= swallowedAt'[s]
                          /\ swallowedAt'[s] < stops[j].at + Grace
      BY <2>1 DEF SwallowJustified, Covers
    <3>1. CASE s = t
      <4>1. swallowedAt'[s] = now
        BY <1>0, <2>1, <3>1
      <4>2. Covers(stops[i].conv, stops[i].turn, q)
        BY <2>6, <2>8
      <4> QED
        BY <2>5, <2>8, <3>1, <4>1, <4>2
    <3>2. CASE s # t
      <4>1. status[s] = "stop-consumed" /\ swallowedAt'[s] = swallowedAt[s]
        BY <1>0, <2>1, <3>2
      <4> QED
        BY <4>1 DEF Latches, SwallowJustified
    <3> QED
      BY <3>1, <3>2
  <2> QED
    BY <2>3, <2>4, <2>9 DEF Latches
\* No live latch covers the query, and the expired ones that do are dropped.
<1>3. ASSUME NEW t \in Tasks, Register(t) PROVE Latches'
  <2> DEFINE q == query[t]
  <2>1. /\ query' = query /\ stops' = stops /\ now' = now /\ swallowedAt' = swallowedAt
        /\ pending' = Without(q.user, CandidateKeys(q.conv, q.turn))
        /\ tracked' \subseteq tracked \cup {t}
        /\ status' = [status EXCEPT ![t] = "executing"]
    BY <1>3, NothingLiveDropsAll DEF Register, Pruned
  <2>2. \A u \in Users, k \in Keys :
          pending'[u][k] = IF u = q.user /\ k \in CandidateKeys(q.conv, q.turn)
                           THEN 0 ELSE pending[u][k]
    BY <1>0, <1>a, <2>1, WithoutFacts
  <2>3. \A k \in Keys : Covers(k[1], k[2], q) => pending'[q.user][k] = 0
    BY <1>0, <1>a, <2>2, CandidatesAreCovers
  <2>4. \A s \in Tasks : status'[s] = "stop-consumed" => status[s] = "stop-consumed"
    BY <1>0, <2>1
  <2>5. \A s \in tracked' \ tracked : s = t
    BY <2>1
  <2>6. tracked' \subseteq Tasks
    BY <1>0, <2>1
  <2>7. \A u \in Users, k \in Keys : pending'[u][k] \in {0, pending[u][k]}
    BY <2>2
  <2> QED
    BY <2>1, <2>3, <2>4, <2>5, <2>6, <2>7, LatchesKept
<1>4. ASSUME NEW u \in Users, NEW c \in OptConvs, NEW r \in OptTurns, StopRunning(u, c, r)
      PROVE  Latches'
  <2>1. /\ query' = query /\ stops' = stops /\ now' = now /\ swallowedAt' = swallowedAt
        /\ tracked' \subseteq tracked
    BY <1>4 DEF StopRunning
  <2>2. \A v \in Users, k \in Keys : pending'[v][k] \in {0, pending[v][k]}
    BY <1>0, <1>4, WithoutFacts DEF StopRunning
  <2>3. \A s \in Tasks : status'[s] = "stop-consumed" => status[s] = "stop-consumed"
    BY <1>0, <1>4 DEF StopRunning
  <2> QED
    BY <1>0, <2>1, <2>2, <2>3, LatchesKept
\* A stop is latched only when no tracked query is in its scope.
<1>5. ASSUME NEW u \in Users, NEW c \in OptConvs, NEW r \in OptTurns, StopIdle(u, c, r)
      PROVE  Latches'
  <2> DEFINE req == [user |-> u, conv |-> c, turn |-> r, at |-> now]
  <2>1. /\ query' = query /\ now' = now /\ swallowedAt' = swallowedAt /\ status' = status
        /\ tracked' \subseteq tracked
        /\ stops' = Append(stops, req)
        /\ pending' = [pending EXCEPT ![u][<<c, r>>] = now + Grace]
        /\ StopHits(u, c, r) = {}
    BY <1>5 DEF StopIdle, RegisterPendingStop
  <2>2. <<c, r>> \in Keys /\ req \in StopRequests
    BY <1>0 DEF Keys, StopRequests
  <2>3. \A v \in Users, k \in Keys :
          pending'[v][k] = IF v = u /\ k = <<c, r>> THEN now + Grace ELSE pending[v][k]
    BY <1>0, <2>1, <2>2
  <2>4. /\ \A i \in DOMAIN stops : i \in DOMAIN stops' /\ stops'[i] = stops[i]
        /\ Len(stops) + 1 \in DOMAIN stops' /\ stops'[Len(stops) + 1] = req
    BY <1>0, <2>1, <2>2, AppendKeeps
  <2>5. LatchesFromStops'
    <3> SUFFICES ASSUME NEW v \in Users, NEW k \in Keys, pending'[v][k] # 0
                 PROVE  \E i \in DOMAIN stops' :
                          /\ stops'[i].user = v /\ <<stops'[i].conv, stops'[i].turn>> = k
                          /\ stops'[i].at <= now /\ pending'[v][k] = stops'[i].at + Grace
      BY <2>1 DEF LatchesFromStops
    <3>1. CASE v = u /\ k = <<c, r>>
      <4> DEFINE n == Len(stops) + 1
      <4>1. n \in DOMAIN stops' /\ stops'[n] = req /\ pending'[v][k] = now + Grace
        BY <2>3, <2>4, <3>1
      <4>2. /\ stops'[n].user = v /\ <<stops'[n].conv, stops'[n].turn>> = k
            /\ stops'[n].at = now
        BY <3>1, <4>1
      <4>3. stops'[n].at <= now
        BY <1>0, <4>2
      <4> QED
        BY <4>1, <4>2, <4>3
    <3>2. CASE ~(v = u /\ k = <<c, r>>)
      <4>1. pending'[v][k] = pending[v][k]
        BY <2>3, <3>2
      <4>2. PICK i \in DOMAIN stops :
              /\ stops[i].user = v /\ <<stops[i].conv, stops[i].turn>> = k
              /\ stops[i].at <= now /\ pending[v][k] = stops[i].at + Grace
        BY <4>1 DEF Latches, LatchesFromStops
      <4> QED
        BY <2>4, <4>1, <4>2
    <3> QED
      BY <3>1, <3>2
  <2>6. SwallowJustified'
    BY <2>1, <2>4 DEF Latches, SwallowJustified, Covers
  <2>7. TrackedNotLatched'
    <3> SUFFICES ASSUME NEW s \in tracked', NEW k \in Keys, Covers(k[1], k[2], query[s])
                 PROVE  pending'[query[s].user][k] = 0
      BY <2>1 DEF TrackedNotLatched, Covers
    <3>1. s \in tracked /\ s \in Tasks /\ query[s].user \in Users /\ ~Done(s)
      BY <1>0, <1>a, <1>b, <2>1
    <3>2. ~(query[s].user = u /\ Covers(c, r, query[s]))
      BY <2>1, <3>1 DEF StopHits, TrackedOf
    <3>3. ~(query[s].user = u /\ k = <<c, r>>)
      BY <3>2
    <3> QED
      BY <2>3, <3>1, <3>3 DEF Latches, TrackedNotLatched
  <2> QED
    BY <2>5, <2>6, <2>7 DEF Latches
<1>6. ASSUME NEW u \in Users, EndSession(u) \/ ClearUserState(u) PROVE Latches'
  <2>1. /\ query' = query /\ stops' = stops /\ now' = now /\ swallowedAt' = swallowedAt
        /\ status' = status /\ tracked' \subseteq tracked
    BY <1>6 DEF EndSession, ClearUserState
  <2>2. \A v \in Users, k \in Keys : pending'[v][k] \in {0, pending[v][k]}
    <3>1. CASE pending' = pending
      BY <3>1
    <3>2. CASE pending' = [pending EXCEPT ![u] = [k \in Keys |-> 0]]
      BY <1>0, <3>2
    <3> QED
      BY <1>6, <3>1, <3>2 DEF EndSession, ClearUserState
  <2> QED
    BY <1>0, <2>1, <2>2, LatchesKept
<1>7. CASE Tick
  <2>1. /\ query' = query /\ stops' = stops /\ now' = now + 1 /\ swallowedAt' = swallowedAt
        /\ status' = status /\ tracked' = tracked /\ pending' = pending
    BY <1>7 DEF Tick
  <2>2. \A i \in DOMAIN stops : stops[i].at \in Nat
    <3>1. \A i \in DOMAIN stops : stops[i] \in StopRequests
      BY <1>0
    <3> QED
      BY <3>1 DEF StopRequests
  <2>3. LatchesFromStops'
    BY <1>0, <2>1, <2>2 DEF Latches, LatchesFromStops
  <2> QED
    BY <2>1, <2>3 DEF Latches, SwallowJustified, TrackedNotLatched, Covers
<1>8. CASE UNCHANGED vars
  BY <1>8 DEF vars, Latches, LatchesFromStops, SwallowJustified, TrackedNotLatched, Covers
<1> QED
  BY <1>1, <1>2, <1>3, <1>4, <1>5, <1>6, <1>7, <1>8 DEF Next, TaskStep

\* A query is swallowed only because of a stop of its own user that covers it
\* and is less than a grace period old.
THEOREM SwallowTheorem == Spec => []SwallowJustified
<1>1. Latches => SwallowJustified
  BY DEF Latches
<1> QED
  BY <1>1, TypeInit, TypeStep, SparesInit, SparesStep, AdmissionInit, AdmissionStep,
     LatchesInit, LatchesStep, PTL DEF Spec

\* A tracked query is covered by no armed latch: a stop acts on the query or is
\* latched, never both.
THEOREM TrackedNotLatchedTheorem == Spec => []TrackedNotLatched
<1>1. Latches => TrackedNotLatched
  BY DEF Latches
<1> QED
  BY <1>1, TypeInit, TypeStep, SparesInit, SparesStep, AdmissionInit, AdmissionStep,
     LatchesInit, LatchesStep, PTL DEF Spec

\* No query starts to execute past a live latch that covers it.
THEOREM StopHonouredTheorem == Spec => StopHonoured
<1> DEFINE Honoured ==
      \A t \in Tasks : status[t] = "queued" /\ status'[t] = "executing" =>
        \A k \in Keys : Covers(k[1], k[2], query[t]) => ~Live(query[t].user, k)
<1>1. TypeOK /\ [Next]_vars => [Honoured]_vars
  <2> SUFFICES ASSUME TypeOK, Next, NEW t \in Tasks,
                      status[t] = "queued", status'[t] = "executing",
                      NEW k \in Keys, Covers(k[1], k[2], query[t])
               PROVE  ~Live(query[t].user, k)
    OBVIOUS
  <2>0. status \in [Tasks -> Statuses] /\ query[t] \in Queries
    BY DEF TypeOK
  <2>1. Register(t)
    <3>1. ASSUME NEW s \in Tasks,
                 \/ Receive(s) \/ RejectUserLimit(s) \/ RejectGlobalLimit(s)
                 \/ SwallowStopped(s) \/ Finish(s) \/ ConnectionCancel(s)
          PROVE  FALSE
      BY <2>0, <3>1 DEF Receive, RejectUserLimit, RejectGlobalLimit, SwallowStopped, Finish, ConnectionCancel
    <3>2. ASSUME NEW s \in Tasks, Register(s) PROVE s = t
      BY <2>0, <3>2 DEF Register
    <3>3. ASSUME NEW u \in Users, NEW c \in OptConvs, NEW r \in OptTurns,
                 StopRunning(u, c, r) \/ StopIdle(u, c, r)
          PROVE  FALSE
      BY <2>0, <3>3 DEF StopRunning, StopIdle
    <3>4. ASSUME NEW u \in Users, EndSession(u) \/ ClearUserState(u) PROVE FALSE
      BY <3>4 DEF EndSession, ClearUserState
    <3>5. CASE Tick
      BY <3>5 DEF Tick
    <3> QED
      BY <3>1, <3>2, <3>3, <3>4, <3>5 DEF Next, TaskStep
  <2>2. ~HasLiveStop(query[t].user, query[t].conv, query[t].turn)
    BY <2>1 DEF Register
  <2>3. k \in CandidateKeys(query[t].conv, query[t].turn)
    BY <2>0, CandidatesAreCovers
  <2> QED
    BY <2>2, <2>3 DEF HasLiveStop
<1> QED
  BY <1>1, TypeInit, TypeStep, PTL DEF Spec, StopHonoured

-----------------------------------------------------------------------------
(* Counting stops *)

\* The sets that LatchConservation counts are finite, and it holds.
Conservation ==
  /\ \A u \in Users : IsFiniteSet(Swallowed(u)) /\ IsFiniteSet(Armed(u))
  /\ LatchConservation

\* Each user's stops are among finitely many.
LEMMA StopsFinite ==
  ASSUME TypeOK, NEW u \in Users
  PROVE  IsFiniteSet(StopsOf(u)) /\ Cardinality(StopsOf(u)) \in Nat
<1>1. DOMAIN stops = 1..Len(stops) /\ Len(stops) \in Nat
  BY DEF TypeOK
<1>2. IsFiniteSet(1..Len(stops))
  BY <1>1, FS_Interval
<1> QED
  BY <1>1, <1>2, FS_Subset, FS_CardinalityType DEF StopsOf

\* When a candidate is live, consume_pending_stop_request drops a live latch.
LEMMA LiveConsumed ==
  ASSUME NEW u, NEW c, NEW r, HasLiveStop(u, c, r)
  PROVE  \E k \in ConsumedKeys(u, c, r) : Live(u, k)
<1> DEFINE cand == PendingStopCandidates(c, r)
           First(i) == i \in 1..4 /\ Live(u, cand[i]) /\ \A m \in 1..4 : m < i => ~Live(u, cand[m])
<1>1. PICK i \in 1..4 : Live(u, cand[i])
  BY DEF HasLiveStop, CandidateKeys
<1>2. \E n \in 1..4 : First(n)
  <2> HIDE DEF cand
  <2>1. i = 1 \/ i = 2 \/ i = 3 \/ i = 4
    OBVIOUS
  <2>2. CASE Live(u, cand[1])
    <3>1. First(1)
      BY <2>2
    <3> QED
      BY <3>1
  <2>3. CASE ~Live(u, cand[1]) /\ Live(u, cand[2])
    <3>1. First(2)
      BY <2>3
    <3> QED
      BY <3>1
  <2>4. CASE ~Live(u, cand[1]) /\ ~Live(u, cand[2]) /\ Live(u, cand[3])
    <3>1. First(3)
      BY <2>4
    <3> QED
      BY <3>1
  <2>5. CASE ~Live(u, cand[1]) /\ ~Live(u, cand[2]) /\ ~Live(u, cand[3])
    <3>1. First(4)
      BY <1>1, <2>1, <2>5
    <3> QED
      BY <3>1
  <2> QED
    BY <2>2, <2>3, <2>4, <2>5
<1>3. PICK n \in 1..4 : First(n)
  BY <1>2
<1>4. cand[n] \in ConsumedKeys(u, c, r)
  BY <1>3 DEF ConsumedKeys
<1> QED
  BY <1>3, <1>4

\* For one user: no new swallowed query, no new latch, no stop forgotten.
LEMMA ConservationKept ==
  ASSUME TypeOK, TypeOK', Conservation, NEW u \in Users,
         Swallowed(u)' = Swallowed(u), Armed(u)' \subseteq Armed(u), StopsOf(u)' = StopsOf(u)
  PROVE  /\ IsFiniteSet(Swallowed(u)') /\ IsFiniteSet(Armed(u)')
         /\ Cardinality(Swallowed(u)') + Cardinality(Armed(u)') <= Cardinality(StopsOf(u)')
<1>1. /\ IsFiniteSet(Swallowed(u)) /\ IsFiniteSet(Armed(u))
      /\ Cardinality(Swallowed(u)) + Cardinality(Armed(u)) <= Cardinality(StopsOf(u))
  BY DEF Conservation, LatchConservation
<1>2. IsFiniteSet(Armed(u)') /\ Cardinality(Armed(u)') <= Cardinality(Armed(u))
  BY <1>1, FS_Subset
<1>3. /\ Cardinality(Swallowed(u)) \in Nat /\ Cardinality(Armed(u)) \in Nat
      /\ Cardinality(Armed(u)') \in Nat /\ Cardinality(StopsOf(u)) \in Nat
  BY <1>1, <1>2, FS_CardinalityType, StopsFinite
<1> QED
  BY <1>1, <1>2, <1>3

\* At first nothing is swallowed, armed or stopped.
LEMMA ConservationInit == Init => Conservation
<1> SUFFICES ASSUME Init PROVE Conservation
  OBVIOUS
<1>1. ASSUME NEW u \in Users PROVE Swallowed(u) = {} /\ Armed(u) = {} /\ StopsOf(u) = {}
  BY DEF Init, Swallowed, Armed, StopsOf
<1> QED
  BY <1>1, FS_EmptySet DEF Conservation, LatchConservation

\* A swallowed query uses up a live latch of its user.
LEMMA ConservationSwallow ==
  ASSUME TypeOK, TypeOK', Conservation, NEW t \in Tasks, SwallowStopped(t)
  PROVE  Conservation'
<1> DEFINE q == query[t]
<1>0. /\ status \in [Tasks -> Statuses] /\ query \in [Tasks -> Queries] /\ now \in Nat
      /\ pending \in [Users -> [Keys -> Nat]]
      /\ q.user \in Users /\ q.conv \in OptConvs /\ q.turn \in OptTurns
  BY DEF TypeOK, Queries, OptTurns
<1>1. /\ query' = query /\ stops' = stops /\ status[t] = "queued"
      /\ status' = [status EXCEPT ![t] = "stop-consumed"]
      /\ pending' = Without(q.user, ConsumedKeys(q.user, q.conv, q.turn))
      /\ HasLiveStop(q.user, q.conv, q.turn)
  BY DEF SwallowStopped, UnderLimits
<1>2. \A u \in Users : \A k \in Keys :
        pending'[u][k] = IF u = q.user /\ k \in ConsumedKeys(q.user, q.conv, q.turn)
                         THEN 0 ELSE pending[u][k]
  BY <1>0, <1>1, WithoutFacts
<1>3. \A u \in Users : StopsOf(u)' = StopsOf(u)
  BY <1>1 DEF StopsOf
<1>4. ASSUME NEW u \in Users
      PROVE  /\ IsFiniteSet(Swallowed(u)') /\ IsFiniteSet(Armed(u)')
             /\ Cardinality(Swallowed(u)') + Cardinality(Armed(u)') <= Cardinality(StopsOf(u)')
  <2>1. CASE u # q.user
    <3>1. Swallowed(u)' = Swallowed(u)
      BY <1>0, <1>1, <2>1 DEF Swallowed
    <3>2. Armed(u)' \subseteq Armed(u)
      BY <1>2, <2>1 DEF Armed
    <3> QED
      BY <1>3, <3>1, <3>2, ConservationKept
  <2>2. CASE u = q.user
    <3>1. Swallowed(u)' = Swallowed(u) \cup {t} /\ t \notin Swallowed(u)
      BY <1>0, <1>1, <2>2 DEF Swallowed
    <3>2. PICK k \in ConsumedKeys(u, q.conv, q.turn) : Live(u, k)
      BY <1>1, <2>2, LiveConsumed
    <3>3. k \in Keys
      <4>1. k \in CandidateKeys(q.conv, q.turn)
        BY <3>2 DEF ConsumedKeys, CandidateKeys
      <4> QED
        BY <1>0, <4>1, CandidatesAreKeys
    <3>4. k \in Armed(u) /\ Armed(u)' \subseteq Armed(u) \ {k}
      <4>1. pending[u][k] # 0
        BY <1>0, <3>2, <3>3 DEF Live
      <4> QED
        BY <1>2, <2>2, <3>2, <3>3, <4>1 DEF Armed
    <3>5. /\ IsFiniteSet(Swallowed(u)) /\ IsFiniteSet(Armed(u))
          /\ Cardinality(Swallowed(u)) + Cardinality(Armed(u)) <= Cardinality(StopsOf(u))
      BY DEF Conservation, LatchConservation
    <3>6. /\ IsFiniteSet(Swallowed(u)')
          /\ Cardinality(Swallowed(u)') = Cardinality(Swallowed(u)) + 1
      BY <3>1, <3>5, FS_AddElement
    <3>7. IsFiniteSet(Armed(u) \ {k}) /\ Cardinality(Armed(u) \ {k}) = Cardinality(Armed(u)) - 1
      BY <3>4, <3>5, FS_RemoveElement
    <3>8. IsFiniteSet(Armed(u)') /\ Cardinality(Armed(u)') <= Cardinality(Armed(u) \ {k})
      BY <3>4, <3>7, FS_Subset
    <3>9. /\ Cardinality(Swallowed(u)) \in Nat /\ Cardinality(Armed(u)) \in Nat
          /\ Cardinality(Armed(u)') \in Nat /\ Cardinality(StopsOf(u)) \in Nat
      BY <3>5, <3>8, FS_CardinalityType, StopsFinite
    <3> QED
      BY <1>3, <3>5, <3>6, <3>7, <3>8, <3>9
  <2> QED
    BY <2>1, <2>2
<1> QED
  BY <1>4 DEF Conservation, LatchConservation

\* A stop that finds nothing to cancel arms at most one more latch.
LEMMA ConservationStop ==
  ASSUME TypeOK, TypeOK', Conservation, NEW v \in Users, NEW c \in OptConvs, NEW r \in OptTurns,
         StopIdle(v, c, r)
  PROVE  Conservation'
<1> DEFINE req == [user |-> v, conv |-> c, turn |-> r, at |-> now]
<1>0. /\ pending \in [Users -> [Keys -> Nat]] /\ now \in Nat /\ stops \in Seq(StopRequests)
      /\ req \in StopRequests
  BY DEF TypeOK, StopRequests
<1>1. /\ query' = query /\ status' = status /\ stops' = Append(stops, req)
      /\ pending' = [pending EXCEPT ![v][<<c, r>>] = now + Grace]
  BY DEF StopIdle, RegisterPendingStop
<1>2. ASSUME NEW u \in Users
      PROVE  /\ IsFiniteSet(Swallowed(u)') /\ IsFiniteSet(Armed(u)')
             /\ Cardinality(Swallowed(u)') + Cardinality(Armed(u)') <= Cardinality(StopsOf(u)')
  <2>1. Swallowed(u)' = Swallowed(u)
    BY <1>1 DEF Swallowed
  <2>2. /\ Len(stops) \in Nat /\ DOMAIN stops = 1..Len(stops)
        /\ DOMAIN stops' = 1..(Len(stops) + 1)
        /\ \A i \in DOMAIN stops : stops'[i] = stops[i]
        /\ stops'[Len(stops) + 1] = req
    BY <1>0, <1>1
  <2>3. CASE u # v
    <3>1. Armed(u)' \subseteq Armed(u)
      BY <1>0, <1>1, <2>3 DEF Armed
    <3>2. StopsOf(u)' = StopsOf(u)
      BY <2>2, <2>3 DEF StopsOf
    <3> QED
      BY <2>1, <3>1, <3>2, ConservationKept
  <2>4. CASE u = v
    <3>1. Armed(u)' \subseteq Armed(u) \cup {<<c, r>>}
      BY <1>0, <1>1, <2>4 DEF Armed
    <3>2. StopsOf(u)' = StopsOf(u) \cup {Len(stops) + 1} /\ Len(stops) + 1 \notin StopsOf(u)
      BY <2>2, <2>4 DEF StopsOf
    <3>3. /\ IsFiniteSet(Swallowed(u)) /\ IsFiniteSet(Armed(u)) /\ IsFiniteSet(StopsOf(u))
          /\ Cardinality(Swallowed(u)) + Cardinality(Armed(u)) <= Cardinality(StopsOf(u))
      BY StopsFinite DEF Conservation, LatchConservation
    <3>4. Cardinality(StopsOf(u)') = Cardinality(StopsOf(u)) + 1
      BY <3>2, <3>3, FS_AddElement
    <3>5. /\ IsFiniteSet(Armed(u) \cup {<<c, r>>})
          /\ Cardinality(Armed(u) \cup {<<c, r>>}) <= Cardinality(Armed(u)) + 1
      <4>1. Cardinality(Armed(u)) \in Nat
        BY <3>3, FS_CardinalityType
      <4>2. Cardinality(Armed(u)) + 1 \in Nat /\ Cardinality(Armed(u)) < Cardinality(Armed(u)) + 1
        BY <4>1
      <4> QED
        BY <3>3, <4>2, OneMore
    <3>6. /\ IsFiniteSet(Armed(u)')
          /\ Cardinality(Armed(u)') <= Cardinality(Armed(u) \cup {<<c, r>>})
      BY <3>1, <3>5, FS_Subset
    <3>7. /\ Cardinality(Swallowed(u)) \in Nat /\ Cardinality(Armed(u)) \in Nat
          /\ Cardinality(Armed(u)') \in Nat /\ Cardinality(StopsOf(u)) \in Nat
          /\ Cardinality(Armed(u) \cup {<<c, r>>}) \in Nat
      BY <3>3, <3>5, <3>6, FS_CardinalityType
    <3> QED
      BY <2>1, <3>3, <3>4, <3>5, <3>6, <3>7
  <2> QED
    BY <2>3, <2>4
<1> QED
  BY <1>2 DEF Conservation, LatchConservation

\* Every step keeps the count.
LEMMA ConservationStep == TypeOK /\ TypeOK' /\ Conservation /\ [Next]_vars => Conservation'
<1> SUFFICES ASSUME TypeOK, TypeOK', Conservation, [Next]_vars PROVE Conservation'
  OBVIOUS
<1>0. /\ status \in [Tasks -> Statuses] /\ pending \in [Users -> [Keys -> Nat]]
      /\ \A t \in Tasks : query[t].user \in Users
  BY DEF TypeOK, Queries
<1>a. ASSUME query' = query, stops' = stops,
             \A t \in Tasks : status'[t] = "stop-consumed" <=> status[t] = "stop-consumed",
             \A u \in Users, k \in Keys : pending'[u][k] \in {0, pending[u][k]}
      PROVE  Conservation'
  <2>1. ASSUME NEW u \in Users
        PROVE  /\ Swallowed(u)' = Swallowed(u) /\ Armed(u)' \subseteq Armed(u)
               /\ StopsOf(u)' = StopsOf(u)
    BY <1>a DEF Swallowed, Armed, StopsOf
  <2> QED
    BY <2>1, ConservationKept DEF Conservation, LatchConservation
<1>1. ASSUME NEW t \in Tasks,
             \/ Receive(t) \/ RejectUserLimit(t) \/ RejectGlobalLimit(t)
             \/ Finish(t) \/ ConnectionCancel(t)
      PROVE  Conservation'
  <2>1. query' = query /\ stops' = stops /\ pending' = pending
    BY <1>1 DEF Receive, RejectUserLimit, RejectGlobalLimit, Finish, ConnectionCancel
  <2>2. \A s \in Tasks : status'[s] = "stop-consumed" <=> status[s] = "stop-consumed"
    BY <1>0, <1>1 DEF Receive, RejectUserLimit, RejectGlobalLimit, Finish, ConnectionCancel, Running
  <2> QED
    BY <1>a, <2>1, <2>2
<1>2. ASSUME NEW t \in Tasks, SwallowStopped(t) PROVE Conservation'
  BY <1>2, ConservationSwallow
<1>3. ASSUME NEW t \in Tasks, Register(t) PROVE Conservation'
  <2>1. query' = query /\ stops' = stops
    BY <1>3 DEF Register
  <2>2. \A s \in Tasks : status'[s] = "stop-consumed" <=> status[s] = "stop-consumed"
    BY <1>0, <1>3 DEF Register, UnderLimits
  <2>3. \A u \in Users, k \in Keys : pending'[u][k] \in {0, pending[u][k]}
    BY <1>0, <1>3, WithoutFacts DEF Register
  <2> QED
    BY <1>a, <2>1, <2>2, <2>3
<1>4. ASSUME NEW u \in Users, NEW c \in OptConvs, NEW r \in OptTurns, StopRunning(u, c, r)
      PROVE  Conservation'
  <2>1. query' = query /\ stops' = stops
    BY <1>4 DEF StopRunning
  <2>2. \A s \in Tasks : status'[s] = "stop-consumed" <=> status[s] = "stop-consumed"
    BY <1>0, <1>4 DEF StopRunning, StopHits, Done
  <2>3. \A v \in Users, k \in Keys : pending'[v][k] \in {0, pending[v][k]}
    BY <1>0, <1>4, WithoutFacts DEF StopRunning
  <2> QED
    BY <1>a, <2>1, <2>2, <2>3
<1>5. ASSUME NEW u \in Users, NEW c \in OptConvs, NEW r \in OptTurns, StopIdle(u, c, r)
      PROVE  Conservation'
  BY <1>5, ConservationStop
<1>6. ASSUME NEW u \in Users, EndSession(u) \/ ClearUserState(u) PROVE Conservation'
  <2>1. query' = query /\ stops' = stops /\ status' = status
    BY <1>6 DEF EndSession, ClearUserState
  <2>2. \A v \in Users, k \in Keys : pending'[v][k] \in {0, pending[v][k]}
    BY <1>0, <1>6 DEF EndSession, ClearUserState
  <2> QED
    BY <1>a, <2>1, <2>2
<1>7. CASE Tick \/ UNCHANGED vars
  BY <1>a, <1>7 DEF Tick, vars
<1> QED
  BY <1>1, <1>2, <1>3, <1>4, <1>5, <1>6, <1>7 DEF Next, TaskStep

\* A user's armed latches and swallowed queries never outnumber the stops that
\* were answered "not-running": a stop cannot swallow two queries.
THEOREM ConservationTheorem == Spec => []LatchConservation
<1>1. Conservation => LatchConservation
  BY DEF Conservation
<1>2. TypeOK /\ Conservation /\ [Next]_vars => TypeOK' /\ Conservation'
  BY TypeStep, ConservationStep
<1> QED
  BY <1>1, <1>2, TypeInit, ConservationInit, PTL DEF Spec

\* A swallowed query has a stop that covers it and lived, and a stop swallows at most one.
THEOREM SwallowsTheorem == Spec => []SwallowsMatchStops
<1>1. SwallowJustified /\ LatchConservation => SwallowsMatchStops
  BY DEF SwallowsMatchStops
<1> QED
  BY <1>1, SwallowTheorem, ConservationTheorem, PTL

=============================================================================
