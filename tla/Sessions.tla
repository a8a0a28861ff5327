------------------------------ MODULE Sessions ------------------------------
(***************************************************************************)
(* The sessions of one user: websocket connections that open and close,    *)
(* the tasks their messages become, the registry of sessions, the per-user *)
(* lock, each session's own lock, and the user's settings on their way     *)
(* into sessions that may be busy with a turn.                             *)
(*                                                                         *)
(* Everything runs on one event loop: a step extends from one suspension   *)
(* to the next.  Acquiring a free asyncio.Lock does not suspend.  A lock   *)
(* that is released with waiters is unlocked until the first of them runs; *)
(* only try_update_config, which asks locked(), can tell.                  *)
(***************************************************************************)
EXTENDS Integers, FiniteSets, Sequences

CONSTANTS
  Conns,        \* websocket connections of the user
  Overriding,   \* those that open with overrides of their own
  Queries, Settings, Compactions, \* messages by type
  Refs,         \* conversation refs, None included
  AsksFor,      \* message -> the conversation refs it may carry
  None,         \* no ref, connection or lock
  Deferred, Global, \* the deferred update task; update_all_sessions_config
  Locks,        \* bound: lock objects, reused once nobody refers to them
  MaxSessions,  \* bound: sessions created in a behaviour
  MaxTasks,     \* config.websocket_max_concurrent_tasks
  MaxGlobal     \* bound: global config changes

ASSUME SessionsAssumption ==
  /\ None \notin Conns \cup Locks
  /\ IsFiniteSet(Conns) /\ Overriding \subseteq Conns
  /\ Conns \cap (Queries \cup Settings \cup Compactions) = {}
  /\ Settings \cap (Queries \cup Compactions) = {}
  /\ Deferred # Global
  /\ {Deferred, Global} \cap (Conns \cup Queries \cup Settings \cup Compactions) = {}
  /\ AsksFor \in [Queries \cup Settings \cup Compactions -> SUBSET Refs]
  /\ MaxSessions \in Nat /\ MaxTasks \in Nat /\ MaxGlobal \in Nat

Work == Queries \cup Compactions
Jobs == Work \cup Settings
Ids == 1..MaxSessions
Actors == Jobs \cup Conns \cup {Deferred, Global}

\* An effective config: the user's override over the base config.
Values == {0, 1}
Configs == [value : Values, base : 0..MaxGlobal]

VARIABLES
  count,      \* active_connection_counts
  override,   \* user_config_overrides
  changed,    \* if _user_config_versions has moved since the deferred task's round began
  base,       \* the base config
  reg,        \* active_sessions: ids in insertion order
  ref, cfg,   \* conversation ref and config of the sessions created so far
  userLock,   \* user_locks: a lock object, or None
  locks,      \* lock object -> its holder followed by its waiters
  slock,      \* session -> the holder of its lock followed by its waiters
  held,       \* sessions whose lock is locked
  pc,         \* actor -> where it is
  job,        \* message -> [by, ref]: its connection and conversation
  cancelled,  \* tasks that were asked to stop
  lockOf,     \* actor -> the lock object it holds or waits for
  todo,       \* actor -> the sessions it still has to visit
  plan,       \* actor -> the config it applies to them, and if some were busy
  flaws       \* what has gone wrong so far, see Flaws

userVars == <<override, changed, base>>
regVars == <<reg, ref>>
lockVars == <<userLock, locks, lockOf>>
vars == <<count, userVars, regVars, cfg, lockVars, slock, held, pc, job, cancelled,
          todo, plan, flaws>>

NoJob == [by |-> None, ref |-> None]
NoPlan == [config |-> [value |-> 0, base |-> 0], busy |-> FALSE, size |-> 0]

\* Flaws of the code that a run of its own shows or the properties exclude: sessions
\* "ended" while a connection is open; and two that leave a session a "config" that is
\* not the newest: a settings handler that had to queue for a session (or gave up
\* there), and settings or sessions that come while update_all_sessions_config goes
\* along the sessions, see Crossed.
Flaws == {"ended", "config"}

Init ==
  /\ count = 0
  /\ override = 0 /\ changed = FALSE /\ base = 0
  /\ reg = <<>> /\ ref = <<>> /\ cfg = <<>>
  /\ userLock = None /\ locks = [l \in Locks |-> <<>>]
  /\ slock = [s \in Ids |-> <<>>] /\ held = {}
  /\ pc = [a \in Actors |-> "idle"]
  /\ job = [j \in Jobs |-> NoJob]
  /\ cancelled = {}
  /\ lockOf = [a \in Actors |-> None]
  /\ todo = [a \in Actors |-> <<>>]
  /\ plan = [a \in Actors |-> NoPlan]
  /\ flaws = {}

\* build_effective_config
Effective == [value |-> override, base |-> base]
Registered == {reg[i] : i \in DOMAIN reg}

\* SessionRegistry.get_session.  Without a ref it is the latest conversation, the
\* one of the newest session: sessions are only removed all together.
Lookup(r) ==
  IF r # None THEN {s \in Registered : ref[s] = r}
  ELSE {s \in Registered : s = reg[Len(reg)]}

\* a leaves a queue, where it is once at most.
Without(q, a) ==
  IF \E i \in DOMAIN q : q[i] = a
  THEN LET i == CHOOSE k \in DOMAIN q : q[k] = a
       IN  SubSeq(q, 1, i - 1) \o SubSeq(q, i + 1, Len(q))
  ELSE q

-----------------------------------------------------------------------------
(* The per-user lock *)

\* get_user_lock: the lock in the dictionary, or a new one put there.
LockObjects ==
  IF userLock # None THEN {userLock}
  ELSE LET free == {l \in Locks : locks[l] = <<>> /\ \A a \in Actors : lockOf[a] # l}
       IN  {l \in free : l = CHOOSE k \in free : TRUE}

\* a waits for l.
Waits(a, l) ==
  /\ locks' = [locks EXCEPT ![l] = Append(@, a)]
  /\ lockOf' = [lockOf EXCEPT ![a] = l]

\* a runs a critical section without a suspension: on arrival, or in its turn.
PassesThrough(l) == locks[l] = <<>> /\ UNCHANGED <<locks, lockOf>>
HasLock(a) == lockOf[a] # None /\ locks[lockOf[a]] # <<>> /\ Head(locks[lockOf[a]]) = a
Leaves(a) ==
  /\ locks' = [locks EXCEPT ![lockOf[a]] = Tail(@)]
  /\ lockOf' = [lockOf EXCEPT ![a] = None]

\* Global is between two sessions, and what happens under l is not excluded: a lock is
\* removed from the dictionary while others still wait for it (remove_user_lock), and
\* the next one to ask for the user's lock gets a new one.
Crossed(l) == pc[Global] = "slock" /\ lockOf[Global] # l

-----------------------------------------------------------------------------
(* Session locks and the work done under them *)

\* A query or compaction handler goes on to the lock of the session it got.
Join(j, s) ==
  /\ slock' = [slock EXCEPT ![s] = Append(@, j)]
  /\ held' = IF slock[s] = <<>> THEN held \cup {s} ELSE held
  /\ pc' = [pc EXCEPT ![j] = IF slock[s] = <<>> THEN "running" ELSE "slock"]

Create(j) ==
  LET s == Len(ref) + 1 IN
  /\ s \in Ids
  /\ ref' = Append(ref, job[j].ref)
  /\ cfg' = Append(cfg, Effective)
  /\ Join(j, s)

\* A new session for the registry, under l.
Store(j, l) ==
  /\ Create(j)
  /\ flaws' = IF Crossed(l) THEN flaws \cup {"config"} ELSE flaws

\* Mutant: the registry is not looked at again once the lock is held.
GetOrCreateUnchecked(j, l) ==
  /\ Store(j, l)
  /\ reg' = Append(SelectSeq(reg, LAMBDA s : ref[s] # job[j].ref), Len(ref) + 1)

\* The locked part of get_or_create_session, under l.
GetOrCreate(j, l) ==
  \/ \E s \in Lookup(job[j].ref) : Join(j, s) /\ UNCHANGED <<regVars, cfg, flaws>>
  \/ /\ Lookup(job[j].ref) = {}
     /\ Store(j, l)
     /\ reg' = Append(reg, Len(ref) + 1)

\* has_active_query_task: a query registers before it looks its session up.
HasActiveQuery(r) ==
  \E q \in Queries \ cancelled :
    /\ r # None => job[q].ref = r
    /\ pc[q] \in {"ulock", "slock", "running"}

\* A task that is done is forgotten.
Forget ==
  /\ job' = [j \in Jobs |-> IF pc'[j] = "done" THEN NoJob ELSE job[j]]
  /\ cancelled' = {j \in cancelled : pc'[j] # "done"}

WorkRest == <<count, userVars, todo, plan>>

\* A compaction request is refused while a query of its conversation is active.
Refused(j) ==
  /\ j \in Compactions /\ pc[j] = "start" /\ HasActiveQuery(job[j].ref)
  /\ pc' = [pc EXCEPT ![j] = "done"]
  /\ Forget /\ UNCHANGED <<WorkRest, flaws, regVars, cfg, slock, held, lockVars>>

\* get_or_create_session: the lock is only for creating.
FindSession(j) ==
  /\ j \in Work /\ pc[j] = "start" /\ j \notin cancelled
  /\ j \in Compactions => ~HasActiveQuery(job[j].ref)
  /\ UNCHANGED <<WorkRest, job, cancelled>>
  /\ \/ /\ \E s \in Lookup(job[j].ref) : Join(j, s)
        /\ UNCHANGED <<flaws, regVars, cfg, lockVars>>
     \/ /\ Lookup(job[j].ref) = {}
        /\ \E l \in LockObjects :
             /\ userLock' = l
             /\ \/ PassesThrough(l) /\ GetOrCreate(j, l)
                \/ /\ locks[l] # <<>> /\ Waits(j, l)
                   /\ pc' = [pc EXCEPT ![j] = "ulock"]
                   /\ UNCHANGED <<flaws, regVars, cfg, slock, held>>

FindSessionLocked(j) ==
  /\ j \in Work /\ pc[j] = "ulock" /\ j \notin cancelled /\ HasLock(j)
  /\ Leaves(j) /\ GetOrCreate(j, lockOf[j])
  /\ UNCHANGED <<WorkRest, job, cancelled, userLock>>

\* The first waiter runs and takes the session lock.
TakeSession(j) ==
  /\ j \in Work /\ pc[j] = "slock" /\ j \notin cancelled
  /\ \E s \in Ids \ held :
       slock[s] # <<>> /\ Head(slock[s]) = j /\ held' = held \cup {s}
  /\ pc' = [pc EXCEPT ![j] = "running"]
  /\ UNCHANGED <<WorkRest, flaws, job, cancelled, regVars, cfg, slock, lockVars>>

\* a gives up the session lock it holds, or its place among the waiters.
LeavesSessions(a) ==
  /\ slock' = [s \in Ids |-> Without(slock[s], a)]
  /\ held' = {s \in held : Head(slock[s]) # a}

\* Mutant: an exception skips the release.
EndWorkKeepingLock(j) ==
  /\ j \in Work /\ pc[j] = "running"
  /\ pc' = [pc EXCEPT ![j] = "done"]
  /\ Forget /\ UNCHANGED <<WorkRest, flaws, regVars, cfg, lockVars, slock, held>>

\* A turn or a compaction ends, fails, or has finished unwinding.
EndWork(j) ==
  /\ j \in Work /\ pc[j] = "running"
  /\ LeavesSessions(j)
  /\ pc' = [pc EXCEPT ![j] = "done"]
  /\ Forget /\ UNCHANGED <<WorkRest, flaws, regVars, cfg, lockVars>>

\* A cancelled task leaves the queue it waits in.
CancelWaiting(j) ==
  /\ j \in cancelled /\ pc[j] \in {"start", "ulock", "slock"}
  /\ LeavesSessions(j)
  /\ locks' = [l \in Locks |-> Without(locks[l], j)]
  /\ lockOf' = [lockOf EXCEPT ![j] = None]
  /\ todo' = [todo EXCEPT ![j] = <<>>]
  /\ pc' = [pc EXCEPT ![j] = "done"]
  /\ flaws' = IF j \in Settings /\ pc[j] = "slock" THEN flaws \cup {"config"} ELSE flaws
  /\ Forget /\ UNCHANGED <<count, userVars, regVars, cfg, userLock, plan>>

-----------------------------------------------------------------------------
(* Settings on their way into the sessions *)

\* Where a must wait on its way along the sessions in list, q being the queues of
\* their locks.  A settings handler waits only where the lock is unlocked but has a
\* waiter: it passes the locked() test and queues.
Stops(a, list, config, q) ==
  {i \in DOMAIN list :
     /\ q[list[i]] # <<>>
     /\ a # Global => cfg[list[i]] # config
     /\ a \notin {Global, Deferred} => list[i] \notin held}

\* The end of the loop, after each kind of visitor.
AfterLoop(a) == CASE a = Global -> "leave" [] a = Deferred -> "check"
                  [] a \in Conns -> "open" [] OTHER -> "done"

\* Mutant: the deferred update task is not scheduled.
NeverScheduled(a, busy) == FALSE

\* A settings handler leaves the busy sessions to the deferred task, which it
\* starts unless one is running.
Scheduled(a, busy) == busy /\ pc[Deferred] = "idle"

\* a applies plan p to the sessions of got and to the sessions of list until it has
\* to wait, q being the queues of the locks; flawed says what has gone wrong already.
Visit(a, got, list, p, q, flawed) ==
  LET stops == Stops(a, list, p.config, q)
      last  == IF stops = {} THEN Len(list) ELSE (CHOOSE i \in stops : \A k \in stops : i <= k) - 1
      idle  == got \cup {list[i] : i \in {k \in 1..last : q[list[k]] = <<>>}}
      busy  == p.busy \/ \E i \in 1..last : q[list[i]] # <<>> /\ cfg[list[i]] # p.config
  IN  /\ cfg' = [s \in DOMAIN cfg |-> IF s \in idle THEN p.config ELSE cfg[s]]
      /\ plan' = [plan EXCEPT ![a] = IF stops = {} THEN NoPlan ELSE [p EXCEPT !.busy = busy]]
      /\ slock' = IF stops = {} THEN q ELSE [q EXCEPT ![list[last + 1]] = Append(@, a)]
      /\ todo' = [todo EXCEPT ![a] = SubSeq(list, last + 1, Len(list))]
      /\ pc' = [b \in Actors |->
                  IF b = a THEN IF stops # {} THEN "slock" ELSE AfterLoop(a)
                  ELSE IF b = Deferred /\ stops = {} /\ Scheduled(a, busy) THEN "start"
                  ELSE pc[b]]
      /\ flaws' = IF flawed \/ (stops # {} /\ a \notin {Global, Deferred})
                  THEN flaws \cup {"config"} ELSE flaws

PlanOf(config) == [config |-> config, busy |-> FALSE, size |-> Len(reg)]

\* The part of update_session_config under l, then the loop over the sessions.
ApplyUpdate(a, v, l) ==
  /\ override' = v
  /\ changed' = (changed \/ (v # override /\ pc[Deferred] \in {"slock", "check"}))
  /\ Visit(a, {}, reg, PlanOf([value |-> v, base |-> base]), slock, v # override /\ Crossed(l))

UpdateRest == <<regVars, held, base>>

\* update_session_config, by a settings handler or by a connection that opens.
RequestUpdate(a, v) ==
  \E l \in LockObjects :
    /\ userLock' = l
    /\ \/ PassesThrough(l) /\ ApplyUpdate(a, v, l)
       \/ /\ locks[l] # <<>> /\ Waits(a, l)
          /\ pc' = [pc EXCEPT ![a] = "ulock"]
          /\ UNCHANGED <<override, changed, cfg, slock, todo, plan, flaws>>

\* What a asks for: a settings handler for the default, a connection that opens for
\* overrides of its own.
Asked(a) == IF a \in Conns THEN 1 ELSE 0

UpdateSettings(j) ==
  /\ j \in Settings /\ pc[j] = "start" /\ j \notin cancelled
  /\ RequestUpdate(j, Asked(j))
  /\ Forget /\ UNCHANGED <<UpdateRest, count>>

UpdateLocked(a) ==
  /\ a \in Settings \cup Conns /\ pc[a] = "ulock" /\ a \notin cancelled /\ HasLock(a)
  /\ Leaves(a) /\ ApplyUpdate(a, Asked(a), lockOf[a])
  /\ Forget /\ UNCHANGED <<UpdateRest, count, userLock>>

\* A visitor gets the session lock it waited for, applies its config and goes on.
\* update_all_sessions_config iterates over the registry itself: when that has
\* changed size meanwhile, the iteration raises.
ApplyWaited(a) ==
  /\ pc[a] = "slock" /\ a \notin Work \cup cancelled
  /\ \E s \in Ids \ held :
       /\ slock[s] # <<>> /\ Head(slock[s]) = a
       /\ LET rest == IF a = Global /\ Len(reg) # plan[a].size THEN <<>> ELSE Tail(todo[a])
          IN  Visit(a, {s}, rest, plan[a], [slock EXCEPT ![s] = Tail(@)], FALSE)
  /\ Forget /\ UNCHANGED <<UpdateRest, count, override, changed, lockVars>>

\* A round of _run_deferred_session_config_update: snapshot under the lock.  The
\* task keeps the lock object for the check at the end of the round.
BeginRound ==
  /\ changed' = FALSE
  /\ Visit(Deferred, {}, reg, PlanOf(Effective), slock, FALSE)

DeferredRest == <<count, override, base, regVars, held, job, cancelled>>

DeferredStart ==
  /\ pc[Deferred] = "start"
  /\ \E l \in LockObjects :
       /\ userLock' = l
       /\ lockOf' = [lockOf EXCEPT ![Deferred] = l]
       /\ \/ locks[l] = <<>> /\ BeginRound /\ UNCHANGED locks
          \/ /\ locks[l] # <<>> /\ locks' = [locks EXCEPT ![l] = Append(@, Deferred)]
             /\ pc' = [pc EXCEPT ![Deferred] = "ulock"]
             /\ UNCHANGED <<changed, cfg, slock, todo, plan, flaws>>
  /\ UNCHANGED DeferredRest

DeferredLocked ==
  /\ pc[Deferred] = "ulock" /\ HasLock(Deferred)
  /\ locks' = [locks EXCEPT ![lockOf[Deferred]] = Tail(@)]
  /\ BeginRound
  /\ UNCHANGED <<DeferredRest, userLock, lockOf>>

\* The check at the end of a round, under the lock object of its beginning.
DeferredCheck ==
  /\ pc[Deferred] = "check"
  /\ UNCHANGED <<DeferredRest, userLock, cfg, slock, todo, plan, flaws>>
  /\ LET l == lockOf[Deferred] IN
     \/ /\ locks[l] = <<>> \/ HasLock(Deferred)
        /\ locks' = [locks EXCEPT ![l] = Without(@, Deferred)]
        /\ lockOf' = [lockOf EXCEPT ![Deferred] = None]
        /\ pc' = [pc EXCEPT ![Deferred] = IF changed THEN "start" ELSE "idle"]
        /\ changed' = FALSE
     \/ /\ \A i \in DOMAIN locks[l] : locks[l][i] # Deferred
        /\ locks[l] # <<>>
        /\ locks' = [locks EXCEPT ![l] = Append(@, Deferred)]
        /\ UNCHANGED <<pc, lockOf, changed>>

\* update_all_sessions_config holds the user lock while it visits the sessions.
VisitAll(l, config) ==
  /\ locks' = [locks EXCEPT ![l] = IF @ = <<>> THEN <<Global>> ELSE @]
  /\ Visit(Global, {}, reg, PlanOf(config), slock, FALSE)

GlobalRest == <<count, override, changed, regVars, held, job, cancelled>>

UpdateAll ==
  /\ pc[Global] = "idle" /\ base < MaxGlobal
  /\ base' = base + 1
  /\ UNCHANGED GlobalRest
  /\ \/ /\ reg = <<>>
        /\ UNCHANGED <<lockVars, cfg, slock, todo, plan, pc, flaws>>
     \/ /\ reg # <<>>
        /\ \E l \in LockObjects :
             /\ userLock' = l /\ lockOf' = [lockOf EXCEPT ![Global] = l]
             /\ \/ locks[l] = <<>> /\ VisitAll(l, [Effective EXCEPT !.base = base + 1])
                \/ /\ locks[l] # <<>> /\ locks' = [locks EXCEPT ![l] = Append(@, Global)]
                   /\ pc' = [pc EXCEPT ![Global] = "ulock"]
                   /\ UNCHANGED <<cfg, slock, todo, plan, flaws>>

UpdateAllLocked ==
  /\ pc[Global] = "ulock" /\ HasLock(Global)
  /\ VisitAll(lockOf[Global], Effective)
  /\ UNCHANGED <<GlobalRest, base, userLock, lockOf>>

UpdateAllEnd ==
  /\ pc[Global] = "leave"
  /\ Leaves(Global)
  /\ pc' = [pc EXCEPT ![Global] = "idle"]
  /\ UNCHANGED <<GlobalRest, base, userLock, cfg, slock, todo, plan, flaws>>

-----------------------------------------------------------------------------
(* Connections *)

ConnRest == <<userVars, regVars, cfg, lockVars, slock, held, todo, plan, flaws>>

\* The handshake succeeds, without overrides.
OpenPlain(c) ==
  /\ c \in Conns \ Overriding /\ pc[c] = "idle"
  /\ count' = count + 1
  /\ pc' = [pc EXCEPT ![c] = "open"]
  /\ UNCHANGED <<ConnRest, job, cancelled>>

\* With overrides: the router first updates the sessions of the user.
OpenWithOverrides(c) ==
  /\ c \in Overriding /\ pc[c] = "idle"
  /\ count' = count + 1
  /\ RequestUpdate(c, Asked(c))
  /\ Forget /\ UNCHANGED UpdateRest

Live(c) == {j \in Jobs : job[j].by = c /\ pc[j] \notin {"idle", "done"}}

\* A message becomes a task of its connection, or is refused.
Receive(c, j) ==
  /\ c \in Conns /\ pc[c] = "open" /\ pc[j] = "idle"
  /\ \E r \in AsksFor[j] :
       job' = IF Cardinality(Live(c)) < MaxTasks
              THEN [job EXCEPT ![j] = [by |-> c, ref |-> r]] ELSE job
  /\ pc' = [pc EXCEPT ![j] = IF Cardinality(Live(c)) < MaxTasks THEN "start" ELSE "done"]
  /\ UNCHANGED <<ConnRest, count, cancelled>>

\* Mutant: the tasks are left to finish by themselves.
CloseUncancelled(c) ==
  /\ c \in Conns /\ pc[c] = "open"
  /\ pc' = [pc EXCEPT ![c] = "closing"]
  /\ UNCHANGED <<ConnRest, count, job, cancelled>>

\* The client disconnects: TaskManager.cleanup cancels the tasks.
Close(c) ==
  /\ c \in Conns /\ pc[c] = "open"
  /\ cancelled' = cancelled \cup Live(c)
  /\ pc' = [pc EXCEPT ![c] = "closing"]
  /\ UNCHANGED <<ConnRest, count, job>>

\* The locked part of end_session and the end of the connection.  The cleanup of a
\* session does not suspend: nothing registers background tasks with it.
EndAll(c, l) ==
  /\ reg' = <<>>
  /\ pc' = [pc EXCEPT ![c] = "closed", ![Deferred] = IF reg = <<>> THEN @ ELSE "idle"]
  /\ flaws' = IF count' > 0 /\ reg # <<>> THEN flaws \cup {"ended"} ELSE flaws
  /\ IF reg = <<>>
     THEN UNCHANGED <<override, changed, slock, held, todo, plan>>
     ELSE /\ override' = 0 /\ changed' = FALSE
          /\ LeavesSessions(Deferred)
          /\ todo' = [todo EXCEPT ![Deferred] = <<>>]
          /\ plan' = [plan EXCEPT ![Deferred] = NoPlan]

\* The locks once c has ended the sessions under l: the deferred task, cancelled,
\* leaves its queue, and the dictionary forgets l.
LocksAfter(c, l) ==
  IF reg = <<>>
  THEN /\ UNCHANGED userLock
       /\ locks' = [locks EXCEPT ![l] = Without(@, c)]
       /\ lockOf' = [lockOf EXCEPT ![c] = None]
  ELSE /\ userLock' = None
       /\ locks' = [k \in Locks |-> Without(Without(locks[k], c), Deferred)]
       /\ lockOf' = [lockOf EXCEPT ![c] = None, ![Deferred] = None]

\* The tasks have ended, or have had their time (one that was cancelled while it
\* waited ends at once); cleanup_connection goes on to
\* end_session if this was the last connection.
Cleanup(c) ==
  /\ c \in Conns /\ pc[c] = "closing"
  /\ \A j \in Live(c) : pc[j] = "running" \/ j \notin cancelled
  /\ count' = count - 1
  /\ UNCHANGED <<base, ref, cfg, job, cancelled>>
  /\ IF count' > 0 \/ reg = <<>>
     THEN /\ pc' = [pc EXCEPT ![c] = "closed"]
          /\ UNCHANGED <<override, changed, reg, lockVars, slock, held, todo, plan, flaws>>
     ELSE \E l \in LockObjects :
            \/ /\ locks[l] = <<>>
               /\ EndAll(c, l) /\ LocksAfter(c, l)
            \/ /\ locks[l] # <<>> /\ Waits(c, l) /\ userLock' = l
               /\ pc' = [pc EXCEPT ![c] = "eulock"]
               /\ UNCHANGED <<override, changed, reg, slock, held, todo, plan, flaws>>

EndSessions(c) ==
  /\ c \in Conns /\ pc[c] = "eulock" /\ HasLock(c)
  /\ count' = count
  /\ EndAll(c, lockOf[c])
  /\ LocksAfter(c, lockOf[c])
  /\ UNCHANGED <<base, ref, cfg, job, cancelled>>

-----------------------------------------------------------------------------
WorkNext(j) ==
  Refused(j) \/ FindSession(j) \/ FindSessionLocked(j) \/ TakeSession(j) \/ EndWork(j)
DeferredNext == DeferredStart \/ DeferredLocked \/ DeferredCheck
ConnNext(c) == Cleanup(c) \/ EndSessions(c)

Next ==
  \/ \E j \in Jobs : WorkNext(j) \/ CancelWaiting(j) \/ UpdateSettings(j)
  \/ \E a \in Actors : UpdateLocked(a) \/ ApplyWaited(a)
  \/ DeferredNext
  \/ UpdateAll \/ UpdateAllLocked \/ UpdateAllEnd
  \/ \E c \in Conns : OpenPlain(c) \/ OpenWithOverrides(c) \/ Close(c) \/ ConnNext(c)
  \/ \E c \in Conns, j \in Jobs : Receive(c, j)

Spec == Init /\ [][Next]_vars

\* The event loop runs every task that is ready, and turns end.
Fairness ==
  /\ \A j \in Jobs : WF_vars(WorkNext(j)) /\ WF_vars(CancelWaiting(j)) /\ WF_vars(UpdateSettings(j))
  /\ \A a \in Actors : WF_vars(UpdateLocked(a)) /\ WF_vars(ApplyWaited(a))
  /\ WF_vars(DeferredNext) /\ WF_vars(UpdateAllLocked \/ UpdateAllEnd)
  /\ \A c \in Conns : WF_vars(ConnNext(c))

FairSpec == Spec /\ Fairness

-----------------------------------------------------------------------------
TypeOK ==
  /\ count \in 0..Cardinality(Conns)
  /\ override \in Values /\ base \in 0..MaxGlobal /\ changed \in BOOLEAN
  /\ ref \in Seq(Refs) /\ Len(ref) <= MaxSessions
  /\ DOMAIN cfg = DOMAIN ref /\ \A s \in DOMAIN cfg : cfg[s] \in Configs
  /\ Registered \subseteq DOMAIN ref
  /\ userLock \in Locks \cup {None} /\ held \subseteq Ids
  /\ \A s \in held : slock[s] # <<>>
  /\ lockOf \in [Actors -> Locks \cup {None}]
  /\ cancelled \subseteq Jobs /\ flaws \subseteq Flaws

\* Turns of one conversation never run side by side, as long as sessions end only
\* after their connections: whatever creates, looks up and ends sessions, there is
\* one session, hence one lock, per conversation.  (A cancelled turn may still be
\* unwinding on a session that was ended.)
RunsOn(j, s) == j \notin cancelled /\ pc[j] = "running" /\ Head(slock[s]) = j

TurnsAreSerial ==
  "ended" \notin flaws =>
    \A s, t \in DOMAIN ref :
      s # t /\ ref[s] = ref[t] /\ slock[s] # <<>> /\ slock[t] # <<>> =>
        ~\E j, k \in Work : RunsOn(j, s) /\ RunsOn(k, t)

\* When no update is under way every session of the user has the effective config,
\* those that were busy when the settings changed included.
Quiet == /\ pc[Deferred] = "idle" /\ pc[Global] = "idle"
         /\ \A a \in Settings \cup Conns : pc[a] \notin {"ulock", "slock"}
SettingsArrive ==
  Quiet /\ "config" \notin flaws => \A s \in Registered : cfg[s] = Effective

\* After the last connection nothing is left in the registry, and nothing that is
\* still running will put a session there.  And the state is well typed.
NothingLeftBehind ==
  /\ TypeOK
  /\ (count = 0 /\ \A c \in Conns : pc[c] # "eulock") => reg = <<>>

\* "Clean up session only after the final active connection for this user closes."
EndsOnlyWithLastConnection ==
  [][Registered # {} /\ Registered' = {} => count' = 0]_vars

\* Every message that was accepted is done with in the end, and so is every
\* connection that closes: nobody waits forever on the locks.
JobsEnd ==
  <>[](/\ \A a \in Jobs \cup {Deferred, Global} : pc[a] \in {"idle", "done"}
       /\ \A c \in Conns : pc[c] \in {"idle", "open", "closed"})

=============================================================================
