------------------------------- MODULE Outbox -------------------------------
(***************************************************************************)
(* SafeWebSocket: many coroutines send through one bounded priority queue  *)
(* that a single sender task empties, and close() travels through the same *)
(* queue.  A coroutine that sends waits for the future of its message.     *)
(*                                                                         *)
(* asyncio.wait_for runs the queue's put() as a task of its own, so the    *)
(* check that the sender is alive and the put are two steps.  A timed-out  *)
(* put is tried again from the check, with a new sequence number.          *)
(***************************************************************************)
EXTENDS Integers, FiniteSets

CONSTANTS
  Senders,      \* coroutines that send one message each
  AudioSenders, \* those whose message is an audio chunk
  Closers,      \* coroutines that call close()
  MaxQueueSize  \* max_queue_size

ASSUME QueueAssumption ==
  /\ Senders \cap Closers = {} /\ AudioSenders \subseteq Senders
  /\ MaxQueueSize \in Nat \ {0}

Procs == Senders \cup Closers

VARIABLES
  pc,         \* coroutine -> its place in send_json / close
  drawn,      \* <<p, q>>, both put or being put: p's _enqueue_sequence number is lower
  queue,      \* the coroutines whose item is in _send_queue
  future,     \* coroutine -> the state of the future it created
  task,       \* _sender_task and its place in _sender_loop
  current,    \* the item _sender_loop is sending; {} or one coroutine
  closed,     \* _closed
  event,      \* _close_event
  wire,       \* the underlying socket: "open" or "closed"
  \* History, read by the properties only.
  writes,     \* sender -> how often its message was written to the socket
  ahead       \* <<p, q>>: p's item, still queued, was queued when q's put began

vars == <<pc, drawn, queue, future, task, current, closed, event,
          wire, writes, ahead>>

Init ==
  /\ pc = [p \in Procs |-> "idle"]
  /\ drawn = {}
  /\ queue = {}
  /\ future = [p \in Procs |-> "none"]
  /\ task = "none" /\ current = {}
  /\ closed = FALSE /\ event = FALSE /\ wire = "open"
  /\ writes = [p \in Senders |-> 0] /\ ahead = {}

-----------------------------------------------------------------------------
(* Putting an item into the queue *)

Priority(p) == CASE p \in Closers -> 2
                 [] p \in AudioSenders -> 0
                 [] OTHER -> 1

Before(p, q) == Priority(p) < Priority(q) \/ (Priority(p) = Priority(q) /\ <<p, q>> \in drawn)

\* Nothing cancels the sender task (see OutcomeIsTrue), so it is stopping
\* exactly when it is done.
Stopping == task = "done"

\* The loop of _enqueue up to the put: a sender gives up when the socket is
\* closed, anyone when the sender task has stopped.
BeginPut(p) ==
  /\ LET put == {q \in Procs \ {p} : q \in queue \/ pc[q] = "put"}
     IN  drawn' = (drawn \cap (put \X put)) \cup (put \X {p})
  /\ ahead' = {a \in ahead : a[1] \in queue /\ a[2] # p} \cup ((queue \cap Senders) \X {p})

\* _send_message and the first pass through _enqueue.
Send(p) ==
  /\ pc[p] = "idle" /\ p \in Senders
  /\ UNCHANGED <<queue, current, closed, event, wire, writes>>
  /\ IF closed \/ Stopping
     THEN /\ pc' = [pc EXCEPT ![p] = "failed"]
          /\ UNCHANGED <<drawn, future, task, ahead>>
     ELSE /\ task' = IF task = "none" THEN "get" ELSE task
          /\ future' = [future EXCEPT ![p] = "pending"]
          /\ pc' = [pc EXCEPT ![p] = "put"]
          /\ BeginPut(p)

\* The put succeeds, whatever has become of the sender task since the check.
Put(p) ==
  /\ pc[p] = "put" /\ Cardinality(queue) < MaxQueueSize
  /\ queue' = queue \cup {p}
  /\ pc' = [pc EXCEPT ![p] = "await"]
  /\ UNCHANGED <<drawn, future, task, current, closed, event, wire, writes, ahead>>

\* Closing through the sender failed: close the socket directly.
CloseDirect(p) ==
  /\ wire' = "closed"
  /\ pc' = [pc EXCEPT ![p] = "flushed"]

\* The put timed out on a full queue: check again and retry.
PutTimeout(p) ==
  /\ pc[p] = "put" /\ Cardinality(queue) = MaxQueueSize
  /\ UNCHANGED <<queue, future, task, current, closed, event, writes>>
  /\ \/ /\ Stopping /\ p \in Closers
        /\ CloseDirect(p)
        /\ UNCHANGED <<drawn, ahead>>
     \/ /\ p \in Senders /\ (closed \/ Stopping)
        /\ pc' = [pc EXCEPT ![p] = "failed"]
        /\ UNCHANGED <<drawn, ahead, wire>>
     \/ /\ ~Stopping /\ (p \in Senders => ~closed)
        /\ BeginPut(p)
        /\ UNCHANGED <<pc, wire>>

\* The coroutine resumes when the future of its message is resolved.
Resume(p) ==
  /\ pc[p] = "await" /\ future[p] \in {"ok", "error"}
  /\ UNCHANGED <<drawn, queue, future, task, current, closed, event, writes, ahead>>
  /\ \/ /\ p \in Senders
        /\ pc' = [pc EXCEPT ![p] = IF future[p] = "ok" THEN "sent" ELSE "failed"]
        /\ UNCHANGED wire
     \/ /\ p \in Closers /\ future[p] = "ok"
        /\ pc' = [pc EXCEPT ![p] = "flushed"]
        /\ UNCHANGED wire
     \/ /\ p \in Closers /\ future[p] = "error"
        /\ CloseDirect(p)

\* A stop, or the clean-up of its connection, cancels a coroutine that sends.  A
\* queued item stays in the queue.
Cancel(p) ==
  /\ p \in Senders /\ pc[p] \in {"put", "await"} /\ future[p] = "pending"
  /\ pc' = [pc EXCEPT ![p] = "cancelled"]
  /\ future' = [future EXCEPT ![p] = "cancelled"]
  /\ UNCHANGED <<drawn, queue, task, current, closed, event, wire, writes, ahead>>

-----------------------------------------------------------------------------
(* close() *)

\* A second close() returns at once; without a sender task the socket is closed
\* directly; otherwise the close is queued behind the messages.
Close(p) ==
  /\ pc[p] = "idle" /\ p \in Closers
  /\ UNCHANGED <<queue, current, task, writes>>
  /\ closed' = TRUE
  /\ \/ /\ closed
        /\ pc' = [pc EXCEPT ![p] = "returned"]
        /\ UNCHANGED <<drawn, future, ahead, event, wire>>
     \/ /\ ~closed /\ task = "none"
        /\ wire' = "closed" /\ event' = TRUE
        /\ pc' = [pc EXCEPT ![p] = "flushed"]
        /\ UNCHANGED <<drawn, future, ahead>>
     \/ /\ ~closed /\ task # "none"
        /\ future' = [future EXCEPT ![p] = "pending"]
        /\ pc' = [pc EXCEPT ![p] = "put"]
        /\ BeginPut(p)
        /\ UNCHANGED <<event, wire>>

\* The finally clause of close() waits for the event.
CloseReturn(p) ==
  /\ pc[p] = "flushed" /\ event
  /\ pc' = [pc EXCEPT ![p] = "returned"]
  /\ UNCHANGED <<drawn, queue, future, task, current, closed, event, wire,
                 writes, ahead>>

-----------------------------------------------------------------------------
(* The sender task *)

\* Mutant: takes any item, in no order.
TakeAny ==
  /\ task = "get"
  /\ \E p \in queue :
       /\ queue' = queue \ {p} /\ current' = {p}
  /\ task' = "send"
  /\ UNCHANGED <<pc, drawn, future, closed, event, wire, writes, ahead>>

Take ==
  /\ task = "get"
  /\ \E p \in queue :
       /\ \A q \in queue \ {p} : Before(p, q)
       /\ queue' = queue \ {p} /\ current' = {p}
  /\ task' = "send"
  /\ UNCHANGED <<pc, drawn, future, closed, event, wire, writes, ahead>>

Resolved(procs, outcome) ==
  [p \in Procs |-> IF p \in procs /\ future[p] = "pending" THEN outcome ELSE future[p]]

\* Mutant: the futures of the messages still queued are left alone.
StopLeavingQueue(failed, resolved) ==
  /\ task' = "done" /\ closed' = TRUE /\ event' = TRUE
  /\ queue' = {}
  /\ future' = [p \in Procs |-> IF p \in failed THEN "error" ELSE resolved[p]]

\* The finally clause of _sender_loop: everything still queued fails.
Stop(failed, resolved) ==
  /\ task' = "done" /\ closed' = TRUE /\ event' = TRUE
  /\ queue' = {}
  /\ future' = [p \in Procs |-> IF p \in queue \cup failed /\ future[p] = "pending"
                                THEN "error" ELSE resolved[p]]

\* Mutant: a message is reported as sent before it is written.
WriteEarly ==
  /\ task = "send"
  /\ \E p \in current :
       IF p \in Closers
       THEN /\ wire' = "closed" /\ UNCHANGED writes
            /\ Stop({}, Resolved({p}, "ok"))
       ELSE /\ task' = "get"
            /\ future' = Resolved({p}, "ok")
            /\ \/ writes' = [writes EXCEPT ![p] = @ + 1]
               \/ UNCHANGED writes
            /\ UNCHANGED <<queue, closed, event, wire>>
  /\ current' = {}
  /\ UNCHANGED <<pc, drawn, ahead>>

\* The write succeeds; after a close the loop ends.
Write ==
  /\ task = "send"
  /\ \E p \in current :
       IF p \in Closers
       THEN /\ wire' = "closed" /\ UNCHANGED writes
            /\ Stop({}, Resolved({p}, "ok"))
       ELSE /\ task' = "get"
            /\ writes' = [writes EXCEPT ![p] = @ + 1]
            /\ future' = Resolved({p}, "ok")
            /\ UNCHANGED <<queue, closed, event, wire>>
  /\ current' = {}
  /\ UNCHANGED <<pc, drawn, ahead>>

\* The write raises: its coroutine gets the exception and the loop ends.
WriteFails ==
  /\ task = "send"
  /\ Stop(current, future)
  /\ current' = {}
  /\ UNCHANGED <<pc, drawn, wire, writes, ahead>>

Next ==
  \/ \E p \in Procs : Send(p) \/ Put(p) \/ PutTimeout(p) \/ Resume(p) \/ Cancel(p)
  \/ \E p \in Closers : Close(p) \/ CloseReturn(p)
  \/ Take \/ Write \/ WriteFails

Spec == Init /\ [][Next]_vars

\* The event loop runs every ready coroutine, and a write to the socket ends.
OutboxFairness ==
  /\ WF_vars(Take) /\ WF_vars(Write \/ WriteFails)
  /\ \A p \in Procs : WF_vars(Put(p) \/ PutTimeout(p)) /\ WF_vars(Resume(p))
  /\ \A p \in Closers : WF_vars(CloseReturn(p))

-----------------------------------------------------------------------------
(* Properties *)

TypeOK ==
  /\ pc \in [Procs -> {"idle", "put", "await", "sent", "failed", "cancelled", "flushed", "returned"}]
  /\ drawn \subseteq Procs \X Procs
  /\ queue \subseteq Procs /\ Cardinality(queue) <= MaxQueueSize
  /\ future \in [Procs -> {"none", "pending", "ok", "error", "cancelled"}]
  /\ task \in {"none", "get", "send", "done"}
  /\ current \subseteq Procs /\ (task = "send" <=> current # {})
  /\ closed \in BOOLEAN /\ event \in BOOLEAN /\ wire \in {"open", "closed"}
  /\ writes \in [Senders -> Nat]
  /\ ahead \subseteq Senders \X Procs

\* What a coroutine is told about its message is true: a send that returned was
\* written exactly once, one that raised was not written at all.  close() never waits
\* out its one-second limit for the sender's event: by the time it waits, the event is
\* set, so the fallback that cancels the sender is dead code.  And the state is well
\* typed, the bound of the queue included.
OutcomeIsTrue ==
  /\ TypeOK
  /\ \A p \in Senders : /\ pc[p] = "sent" => writes[p] = 1
                        /\ pc[p] = "failed" => writes[p] = 0
  /\ \A p \in Closers : pc[p] = "flushed" => event

\* Nothing is written to a socket that close() has closed, whichever way; and a message
\* overtakes one that was already queued when it arrived only by being audio: retried
\* puts and the race for free slots never reorder the others.
WritesInOrder ==
  [][\A p \in Senders :
       writes'[p] # writes[p] =>
         /\ wire = "open"
         /\ \A q \in queue :
              <<q, p>> \in ahead => p \in AudioSenders /\ q \notin AudioSenders]_vars

\* Whoever's message is in the queue when the sender task ends is answered by the
\* drain, or by the write that failed; and in the end nobody waits, but for those whose
\* put came after the drain.
QueuedIsAnswered ==
  /\ [][task # "done" /\ task' = "done" =>
         \A p \in queue \cup current : future'[p] # "pending"]_vars
  /\ <>[](\A p \in Procs :
            pc[p] = "await" => task = "done" /\ p \in queue /\ future[p] = "pending")

=============================================================================
