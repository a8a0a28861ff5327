---------------------------- MODULE ActiveQueries ----------------------------
(***************************************************************************)
(* Query admission and cancellation in the backend: the ActiveQueryTracker *)
(* (every method runs under one RLock, so each is one step), the query     *)
(* handler that registers its own asyncio task with it, and the stop-query *)
(* handler.  A stop that finds nothing to cancel leaves a latch ("pending  *)
(* stop") that swallows the next matching query within the grace period.   *)
(*                                                                         *)
(* A task is one query message being handled.  Conversation and turn refs  *)
(* are validated by the message schema before they get here, so the        *)
(* tracker's strip-and-blank-to-None normalisation leaves them unchanged.  *)
(***************************************************************************)
EXTENDS Integers, FiniteSets, Sequences

CONSTANTS
  Users,
  Tasks,        \* query-handler tasks; one per query message
  Convs, Turns, \* conversation refs and turn refs (query message ids)
  NoRef,        \* an absent ref (None)
  MaxPerUser,   \* config.max_active_queries_per_user
  MaxGlobal,    \* config.max_active_queries_global
  Grace,        \* _PENDING_STOP_GRACE_SECONDS, in clock ticks
  MaxTime,      \* bound: the clock stops here
  MaxStops,     \* bound: unmatched stop requests in a behaviour
  MaxEndings    \* bound: end_session calls of one user in progress at once

ASSUME ConstantsAssumption ==
  /\ NoRef \notin Convs /\ NoRef \notin Turns
  /\ MaxPerUser \in Nat /\ MaxGlobal \in Nat
  /\ Grace \in Nat \ {0}
  /\ MaxTime \in Nat /\ MaxStops \in Nat /\ MaxEndings \in Nat

OptConvs == Convs \cup {NoRef}
OptTurns == Turns \cup {NoRef}
Keys == OptConvs \X OptTurns

VARIABLES
  status,     \* task -> its place in QueryMessageHandler.handle_typed
  query,      \* task -> the message it handles
  tracked,    \* the tasks in active_query_tasks
  pending,    \* user -> key -> expires_at; 0 when the key is absent
  now,        \* time.monotonic()
  ending,     \* user -> end_session calls that have not cleared the tracker yet
  \* History, read by the properties only.
  stops,      \* the stop requests that were answered "not-running"
  swallowedAt,\* task -> when a latch swallowed it
  overlapped  \* tasks received while an end_session of their user was in progress

vars == <<status, query, tracked, pending, now, ending, stops, swallowedAt, overlapped>>

Statuses == {"absent", "queued", "executing", "cancelling", "done",
             "user-limit", "global-limit", "stop-consumed"}
Queries == [user : Users, conv : OptConvs, turn : Turns]
StopRequests == [user : Users, conv : OptConvs, turn : OptTurns, at : Nat]

Done(t) == status[t] \in {"done", "user-limit", "global-limit", "stop-consumed"}
Running(t) == status[t] \in {"executing", "cancelling"}
TrackedOf(u) == {t \in tracked : query[t].user = u}

\* The scope test shared by cancel_active_query_task and the latch: an absent
\* ref in the request matches every query.
Covers(c, r, q) == c \in {NoRef, q.conv} /\ r \in {NoRef, q.turn}

Init ==
  /\ status = [t \in Tasks |-> "absent"]
  /\ query \in [Tasks -> Queries]
  /\ tracked = {}
  /\ pending = [u \in Users |-> [k \in Keys |-> 0]]
  /\ now = 0
  /\ stops = <<>>
  /\ swallowedAt = [t \in Tasks |-> 0]
  /\ ending = [u \in Users |-> 0]
  /\ overlapped = {}

-----------------------------------------------------------------------------
(* The latch *)

\* Mutant: the (None, turn) scope is forgotten.
PendingStopCandidatesNoTurn(c, r) == <<<<c, r>>, <<c, NoRef>>, <<c, r>>, <<NoRef, NoRef>>>>

\* From the most to the least specific.
PendingStopCandidates(c, r) == <<<<c, r>>, <<c, NoRef>>, <<NoRef, r>>, <<NoRef, NoRef>>>>

CandidateKeys(c, r) == {PendingStopCandidates(c, r)[i] : i \in 1..4}

Live(u, k) == pending[u][k] > now

HasLiveStop(u, c, r) == \E k \in CandidateKeys(c, r) : Live(u, k)

\* Mutant: a live latch is honoured but not removed.
ConsumedKeysKept(u, c, r) == {k \in CandidateKeys(c, r) : ~Live(u, k)}

\* consume_pending_stop_request walks the candidates in order, dropping the
\* expired ones, and takes the first live one.
ConsumedKeys(u, c, r) ==
  LET cand == PendingStopCandidates(c, r)
  IN  {cand[i] : i \in {n \in 1..4 : \A m \in 1..4 : m < n => ~Live(u, cand[m])}}

Without(u, keys) ==
  [pending EXCEPT ![u] = [k \in Keys |-> IF k \in keys THEN 0 ELSE pending[u][k]]]

RegisterPendingStop(u, c, r) ==
  /\ pending' = [pending EXCEPT ![u][<<c, r>>] = now + Grace]
  /\ stops' = Append(stops, [user |-> u, conv |-> c, turn |-> r, at |-> now])

-----------------------------------------------------------------------------
(* The query handler *)

\* The websocket loop creates the handler's task.  The client may have connected
\* again before end_session is done with its previous connection.
Receive(t) ==
  /\ status[t] = "absent"
  /\ status' = [status EXCEPT ![t] = "queued"]
  /\ overlapped' = IF ending[query[t].user] > 0 THEN overlapped \cup {t} ELSE overlapped
  /\ UNCHANGED <<query, tracked, pending, now, ending, stops, swallowedAt>>

\* Both counts drop finished tasks from the tracker first.
Pruned == {t \in tracked : ~Done(t)}
\* Mutant: the global cap is off by one.
CountAllOffByOne == Cardinality(Pruned) - 1

CountOf(u) == Cardinality({t \in Pruned : query[t].user = u})
CountAll == Cardinality(Pruned)

\* The handler's first step: register_active_query_task_with_limits.
RejectUserLimit(t) ==
  /\ status[t] = "queued"
  /\ CountOf(query[t].user) >= MaxPerUser
  /\ tracked' = {s \in tracked : query[s].user = query[t].user => ~Done(s)}
  /\ status' = [status EXCEPT ![t] = "user-limit"]
  /\ UNCHANGED <<query, pending, now, stops, swallowedAt, ending, overlapped>>

RejectGlobalLimit(t) ==
  /\ status[t] = "queued"
  /\ CountOf(query[t].user) < MaxPerUser
  /\ CountAll >= MaxGlobal
  /\ tracked' = Pruned
  /\ status' = [status EXCEPT ![t] = "global-limit"]
  /\ UNCHANGED <<query, pending, now, stops, swallowedAt, ending, overlapped>>

UnderLimits(t) ==
  /\ status[t] = "queued"
  /\ CountOf(query[t].user) < MaxPerUser
  /\ CountAll < MaxGlobal

SwallowStopped(t) ==
  LET q == query[t] IN
  /\ UnderLimits(t)
  /\ HasLiveStop(q.user, q.conv, q.turn)
  /\ pending' = Without(q.user, ConsumedKeys(q.user, q.conv, q.turn))
  /\ tracked' = Pruned
  /\ status' = [status EXCEPT ![t] = "stop-consumed"]
  /\ swallowedAt' = [swallowedAt EXCEPT ![t] = now]
  /\ UNCHANGED <<query, now, stops, ending, overlapped>>

Register(t) ==
  LET q == query[t] IN
  /\ UnderLimits(t)
  /\ ~HasLiveStop(q.user, q.conv, q.turn)
  /\ pending' = Without(q.user, ConsumedKeys(q.user, q.conv, q.turn))
  /\ tracked' = Pruned \cup {t}
  /\ status' = [status EXCEPT ![t] = "executing"]
  /\ UNCHANGED <<query, now, stops, swallowedAt, ending, overlapped>>

\* Mutant: the finally clause clears every task of the user.
FinishClearsUser(t) ==
  /\ Running(t)
  /\ tracked' = tracked \ TrackedOf(query[t].user)
  /\ status' = [status EXCEPT ![t] = "done"]
  /\ UNCHANGED <<query, pending, now, stops, swallowedAt, ending, overlapped>>

\* The finally clause: clear_active_query_task, then the task ends, whether the
\* execution returned, failed, or unwound from a CancelledError.
Finish(t) ==
  /\ Running(t)
  /\ tracked' = tracked \ {t}
  /\ status' = [status EXCEPT ![t] = "done"]
  /\ UNCHANGED <<query, pending, now, stops, swallowedAt, ending, overlapped>>

-----------------------------------------------------------------------------
(* The stop handler and the connection *)

\* Mutant: an unscoped stop does not match a query that has a conversation.
StopHitsExact(u, c, r) ==
  {t \in TrackedOf(u) : ~Done(t) /\ c = query[t].conv /\ r \in {NoRef, query[t].turn}}

StopHits(u, c, r) == {t \in TrackedOf(u) : ~Done(t) /\ Covers(c, r, query[t])}

\* cancel_active_query_task when it finds something: the tasks are signalled
\* and forgotten at once, and every latch that would match them is dropped.
StopRunning(u, c, r) ==
  LET hits == StopHits(u, c, r) IN
  /\ hits # {}
  /\ status' = [t \in Tasks |-> IF t \in hits THEN "cancelling" ELSE status[t]]
  /\ tracked' = {t \in tracked \ hits : query[t].user = u => ~Done(t)}
  /\ pending' = Without(u, CandidateKeys(c, r) \cup
                  UNION {CandidateKeys(query[t].conv, query[t].turn) : t \in hits})
  /\ UNCHANGED <<query, now, stops, swallowedAt, ending, overlapped>>

\* ... and when it does not: the request is latched.
StopIdle(u, c, r) ==
  /\ StopHits(u, c, r) = {}
  /\ Len(stops) < MaxStops
  /\ tracked' = {t \in tracked : query[t].user = u => ~Done(t)}
  /\ RegisterPendingStop(u, c, r)
  /\ UNCHANGED <<status, query, now, swallowedAt, ending, overlapped>>

\* TaskManager.cleanup cancels a handler task when its connection closes.  A
\* task that has not started never runs; a running one stays tracked until its
\* finally clause.
ConnectionCancel(t) ==
  /\ \/ status[t] = "queued" /\ status' = [status EXCEPT ![t] = "done"]
     \/ status[t] = "executing" /\ status' = [status EXCEPT ![t] = "cancelling"]
  /\ UNCHANGED <<query, tracked, pending, now, ending, stops, swallowedAt, overlapped>>

\* The user's last connection has cancelled its handler tasks (the ones that
\* outlive the cancellation timeout are still unwinding) and calls end_session ...
EndSession(u) ==
  /\ \A t \in Tasks : query[t].user = u => status[t] \notin {"queued", "executing"}
  /\ ending[u] < MaxEndings
  /\ ending' = [ending EXCEPT ![u] = @ + 1]
  /\ UNCHANGED <<status, query, tracked, pending, now, stops, swallowedAt, overlapped>>

\* ... which, when the sessions are cleaned up, calls clear_user_state.  It returns
\* without doing so when another end_session has left no session to clean up.
ClearUserState(u) ==
  /\ ending[u] > 0
  /\ ending' = [ending EXCEPT ![u] = @ - 1]
  /\ \/ /\ tracked' = tracked \ TrackedOf(u)
        /\ pending' = [pending EXCEPT ![u] = [k \in Keys |-> 0]]
     \/ UNCHANGED <<tracked, pending>>
  /\ UNCHANGED <<status, query, now, stops, swallowedAt, overlapped>>

Tick ==
  /\ now < MaxTime
  /\ now' = now + 1
  /\ UNCHANGED <<status, query, tracked, pending, stops, swallowedAt, ending, overlapped>>

TaskStep(t) ==
  \/ Receive(t) \/ RejectUserLimit(t) \/ RejectGlobalLimit(t)
  \/ SwallowStopped(t) \/ Register(t) \/ Finish(t) \/ ConnectionCancel(t)

Next ==
  \/ \E t \in Tasks : TaskStep(t)
  \/ \E u \in Users, c \in OptConvs, r \in OptTurns : StopRunning(u, c, r) \/ StopIdle(u, c, r)
  \/ \E u \in Users : EndSession(u) \/ ClearUserState(u)
  \/ Tick

Spec == Init /\ [][Next]_vars

-----------------------------------------------------------------------------
(* Properties *)

\* Types of the tracker's state and of the handler tasks.
TypeOK ==
  /\ status \in [Tasks -> Statuses]
  /\ query \in [Tasks -> Queries]
  /\ tracked \subseteq Tasks
  /\ pending \in [Users -> [Keys -> Nat]]
  /\ now \in Nat
  /\ stops \in Seq(StopRequests)
  /\ swallowedAt \in [Tasks -> Nat]
  /\ ending \in [Users -> Nat]
  /\ overlapped \subseteq Tasks

\* register_active_query_task_with_limits keeps the tracker within both caps,
\* whatever registers, finishes, stops and cleanups happen in between.
CapsRespected ==
  /\ \A u \in Users : Cardinality(TrackedOf(u)) <= MaxPerUser
  /\ Cardinality(tracked) <= MaxGlobal

\* The above, and the state is well typed.
WithinCaps == TypeOK /\ CapsRespected

\* The tracker holds every executing query and no query that has ended: no path
\* through the handler's finally, stops, connection cleanup and clear_user_state
\* loses or leaks an entry, save for a query that a reconnecting client sent while
\* end_session was still busy with its previous connection.
ExecutingIsTracked ==
  /\ \A t \in Tasks : status[t] = "executing" => t \in tracked \cup overlapped
  /\ \A t \in tracked : Running(t)

\* A query is swallowed without an answer only because of a stop request of the
\* same user whose scope covers it and whose grace period had not run out.
SwallowJustified ==
  \A t \in Tasks : status[t] = "stop-consumed" =>
    \E i \in DOMAIN stops :
      /\ stops[i].user = query[t].user
      /\ Covers(stops[i].conv, stops[i].turn, query[t])
      /\ stops[i].at <= swallowedAt[t]
      /\ swallowedAt[t] < stops[i].at + Grace

Swallowed(u) == {t \in Tasks : status[t] = "stop-consumed" /\ query[t].user = u}
Armed(u) == {k \in Keys : pending[u][k] # 0}
StopsOf(u) == {i \in DOMAIN stops : stops[i].user = u}

\* One stop request swallows at most one query: the latches still armed and the
\* queries already swallowed never outnumber a user's unmatched stops.
LatchConservation ==
  \A u \in Users :
    Cardinality(Swallowed(u)) + Cardinality(Armed(u)) <= Cardinality(StopsOf(u))

\* A stop swallows only what it covers and while it lives, and at most one query.
SwallowsMatchStops == SwallowJustified /\ LatchConservation

\* A query never starts past a live latch that covers it: the four candidate
\* keys the tracker tries are all the scopes a stop can have been sent with.
StopHonoured ==
  [][\A t \in Tasks : status[t] = "queued" /\ status'[t] = "executing" =>
       \A k \in Keys : Covers(k[1], k[2], query[t]) => ~Live(query[t].user, k)]_vars

\* No latch covers a query that is being tracked: a stop that was latched before
\* the query registered was consumed or dropped then, and one that arrives later
\* cancels the query instead.  So a stop that cancels a query leaves nothing
\* behind that would swallow the same turn sent again.
TrackedNotLatched ==
  \A t \in tracked : \A k \in Keys :
    Covers(k[1], k[2], query[t]) => pending[query[t].user][k] = 0

=============================================================================
