--------------------------- MODULE ServicesProofs ---------------------------
(***************************************************************************)
(* The safety of three services that share no state; every theorem is      *)
(* about one of them.  SafeWebSocket of the backend (Outbox), for any      *)
(* number of senders and closers and any size of the queue; the session of *)
(* the client (ManagedSocket), for any number of callers, sockets and      *)
(* closes; and the control of runs (RunControl), for any number of runs,   *)
(* workers, workspaces and faults.                                         *)
(***************************************************************************)
EXTENDS Outbox, ManagedSocket, RunControl, FiniteSetTheorems, SequenceTheorems, TLAPS

-----------------------------------------------------------------------------
(* SafeWebSocket *)

\* A message the sender task has not dealt with yet.
Held(p) == p \in queue \/ p \in current

\* Where a coroutine is and what its future says agree; only a message somebody waited
\* for is held, and held once.
PlaceInv ==
  /\ IsFiniteSet(queue)
  /\ \A p \in Procs :
       /\ pc[p] = "idle" => future[p] = "none"
       /\ pc[p] = "put" => future[p] = "pending"
       /\ pc[p] = "cancelled" <=> future[p] = "cancelled"
       /\ Held(p) => pc[p] \in {"await", "cancelled"} /\ future[p] \in {"pending", "cancelled"}
       /\ p \notin queue \cap current
       /\ \A q \in current : p \in current => p = q

\* A message is unwritten while it is held, and until its future says otherwise.
WriteInv ==
  \A p \in Senders :
    /\ future[p] \in {"none", "pending", "error"} \/ Held(p) => writes[p] = 0
    /\ future[p] = "ok" \/ pc[p] = "sent" => writes[p] = 1
    /\ pc[p] = "failed" => ~Held(p) /\ future[p] \in {"none", "error", "pending"}
    /\ pc[p] = "await" /\ future[p] = "pending" => Held(p)

\* Whoever is told that the socket closed is told by a sender task that has ended, or
\* never started.
CloseInv ==
  /\ task = "done" => closed /\ event
  /\ wire = "closed" => task = "done" \/ (task = "none" /\ closed)
  /\ \A p \in Closers : /\ future[p] \in {"ok", "error"} => task = "done"
                        /\ pc[p] = "flushed" => event
  /\ task = "none" => queue = {} /\ current = {} /\ \A p \in Procs : future[p] = "none"

\* The numbers drawn are an order, and they agree with the history: what was queued
\* before a put began has the lower number, so only its priority can hold it back.
OrderInv ==
  /\ \A p, q \in Procs : <<p, q>> \in drawn => <<q, p>> \notin drawn
  /\ \A q, p \in Procs : <<q, p>> \in ahead =>
       /\ pc[q] \notin {"idle", "put"}
       /\ q \in queue /\ (p \in queue \/ pc[p] = "put") => <<q, p>> \in drawn
       /\ q \in queue /\ p \in current /\ p \in Senders =>
            p \in AudioSenders /\ q \notin AudioSenders

OutboxInv == TypeOK /\ PlaceInv /\ WriteInv /\ CloseInv /\ OrderInv

-----------------------------------------------------------------------------

LEMMA OutboxInit == Init => OutboxInv
<1> SUFFICES ASSUME Init PROVE OutboxInv
  OBVIOUS
<1>1. IsFiniteSet({}) /\ Cardinality({}) = 0
  BY FS_EmptySet
<1>2. TypeOK
  <2>1. Cardinality(queue) <= MaxQueueSize
    BY <1>1, QueueAssumption DEF Init
  <2>2. closed \in BOOLEAN /\ event \in BOOLEAN
    BY DEF Init
  <2> QED
    BY <2>1, <2>2 DEF Init, TypeOK
<1>3. PlaceInv
  BY <1>1 DEF Init, PlaceInv, Held
<1>4. WriteInv
  BY DEF Init, WriteInv, Held, Procs
<1>5. CloseInv
  BY DEF Init, CloseInv, Procs
<1>6. OrderInv
  BY DEF Init, OrderInv
<1> QED
  BY <1>2, <1>3, <1>4, <1>5, <1>6 DEF OutboxInv

\* What the start of a put does to the order.
LEMMA BeginPutFacts ==
  ASSUME TypeOK, OrderInv, NEW p \in Procs, p \notin queue, p \notin current, BeginPut(p),
         pc[p] \in {"idle", "put"}
  PROVE  /\ drawn' \subseteq Procs \X Procs
         /\ ahead' \subseteq Senders \X Procs
         /\ \A a, b \in Procs : <<a, b>> \in drawn' => <<b, a>> \notin drawn'
         /\ \A b, a \in Procs : <<b, a>> \in ahead' =>
              /\ b \in queue /\ b # p
              /\ a # p => <<b, a>> \in ahead
              /\ a = p => <<b, a>> \in drawn'
              /\ a # p /\ (a \in queue \/ pc[a] = "put") => <<b, a>> \in drawn'
<1> DEFINE put == {q \in Procs \ {p} : q \in queue \/ pc[q] = "put"}
<1>1. drawn' = (drawn \cap (put \X put)) \cup (put \X {p})
  BY DEF BeginPut
<1>2. ahead' = {a \in ahead : a[1] \in queue /\ a[2] # p} \cup ((queue \cap Senders) \X {p})
  BY DEF BeginPut
<1>3. put \subseteq Procs /\ p \notin put
  OBVIOUS
<1>4. \A q \in Procs : q \in put <=> q # p /\ (q \in queue \/ pc[q] = "put")
  OBVIOUS
<1>5. queue \subseteq Procs /\ drawn \subseteq Procs \X Procs /\ ahead \subseteq Senders \X Procs
      /\ Senders \subseteq Procs
  BY DEF TypeOK, Procs
<1> HIDE DEF put
<1>6. drawn' \subseteq Procs \X Procs /\ ahead' \subseteq Senders \X Procs
  BY <1>1, <1>2, <1>3, <1>5
<1>7. \A a, b \in Procs : <<a, b>> \in drawn' <=>
        (<<a, b>> \in drawn /\ a \in put /\ b \in put) \/ (a \in put /\ b = p)
  BY <1>1
<1>8. \A b, a \in Procs : <<b, a>> \in ahead' <=>
        (<<b, a>> \in ahead /\ b \in queue /\ a # p) \/ (b \in queue /\ b \in Senders /\ a = p)
  BY <1>2
<1>9. \A a, b \in Procs : <<a, b>> \in drawn' => <<b, a>> \notin drawn'
  BY <1>7, <1>3 DEF OrderInv
<1>10. ASSUME NEW b \in Procs, NEW a \in Procs, <<b, a>> \in ahead'
       PROVE  /\ b \in queue /\ b # p
              /\ a # p => <<b, a>> \in ahead
              /\ a = p => <<b, a>> \in drawn'
              /\ a # p /\ (a \in queue \/ pc[a] = "put") => <<b, a>> \in drawn'
  BY <1>10, <1>8, <1>7, <1>4 DEF OrderInv
<1> QED
  BY <1>6, <1>9, <1>10

-----------------------------------------------------------------------------
(* The sender task *)

\* The end of the sender task: everything it had not dealt with is answered.
Ended ==
  /\ task' = "done" /\ closed' /\ event' /\ queue' = {} /\ current' = {}
  /\ UNCHANGED <<pc, drawn, writes, ahead>>
  /\ future' \in [Procs -> {"none", "pending", "ok", "error", "cancelled"}]
  /\ closed' \in BOOLEAN /\ event' \in BOOLEAN /\ wire' \in {wire, "closed"}
  /\ \A q \in Procs :
       /\ future'[q] = future[q] \/ (future[q] = "pending" /\ Held(q))
       /\ future'[q] \in {future[q], "error"} \/ (q \in Closers /\ future'[q] = "ok")
       /\ Held(q) => future'[q] # "pending"

LEMMA WriteFailsEnds == ASSUME TypeOK, PlaceInv, WriteFails PROVE Ended
<1>1. /\ task' = "done" /\ closed' = TRUE /\ event' = TRUE /\ queue' = {} /\ current' = {}
      /\ UNCHANGED <<pc, drawn, writes, ahead, wire>>
      /\ future' = [p \in Procs |-> IF p \in queue \cup current /\ future[p] = "pending"
                                    THEN "error" ELSE future[p]]
  BY DEF WriteFails, Stop
<1>2. closed' /\ event' /\ closed' \in BOOLEAN /\ event' \in BOOLEAN
  BY <1>1
<1>3. /\ future' \in [Procs -> {"none", "pending", "ok", "error", "cancelled"}]
      /\ \A q \in Procs :
           future'[q] = IF (q \in queue \/ q \in current) /\ future[q] = "pending"
                        THEN "error" ELSE future[q]
  BY <1>1 DEF TypeOK
<1> HIDE DEF Held
<1>4. \A q \in Procs :
       /\ future'[q] = future[q] \/ (future[q] = "pending" /\ Held(q))
       /\ future'[q] \in {future[q], "error"}
       /\ Held(q) => future'[q] # "pending"
  BY <1>3 DEF Held
<1> QED
  BY <1>1, <1>2, <1>3, <1>4 DEF Ended

\* A write of p's message that does not end the task.
Written(p) ==
  /\ p \in Senders /\ current = {p} /\ task' = "get" /\ current' = {}
  /\ UNCHANGED <<pc, drawn, ahead, queue, closed, event, wire>>
  /\ writes' = [writes EXCEPT ![p] = writes[p] + 1]
  /\ future' \in [Procs -> {"none", "pending", "ok", "error", "cancelled"}]
  /\ \A q \in Procs : q # p => future'[q] = future[q]
  /\ future'[p] = IF future[p] = "pending" THEN "ok" ELSE future[p]

LEMMA WriteCases ==
  ASSUME TypeOK, PlaceInv, Write
  PROVE  Ended \/ \E p \in current : Written(p)
<1>1. PICK p \in current :
        IF p \in Closers
        THEN /\ wire' = "closed" /\ UNCHANGED writes
             /\ Stop({}, Resolved({p}, "ok"))
        ELSE /\ task' = "get"
             /\ writes' = [writes EXCEPT ![p] = @ + 1]
             /\ future' = Resolved({p}, "ok")
             /\ UNCHANGED <<queue, closed, event, wire>>
  BY Zenon DEF Write
<1>2. current' = {} /\ UNCHANGED <<pc, drawn, ahead>>
  BY DEF Write
<1>3. p \in Procs /\ current = {p} /\ Held(p) /\ p \notin queue
  BY DEF TypeOK, PlaceInv, Held
<1>4. Resolved({p}, "ok") =
        [q \in Procs |-> IF q \in {p} /\ future[q] = "pending" THEN "ok" ELSE future[q]]
  BY Zenon DEF Resolved
<1> DEFINE R == Resolved({p}, "ok")
<1>5. /\ R \in [Procs -> {"none", "pending", "ok", "error", "cancelled"}]
      /\ \A q \in Procs : q # p => R[q] = future[q]
      /\ R[p] = IF future[p] = "pending" THEN "ok" ELSE future[p]
  BY <1>3, <1>4 DEF TypeOK
<1> HIDE DEF R
<1>6. CASE p \in Closers
  <2>1. /\ task' = "done" /\ closed' = TRUE /\ event' = TRUE /\ queue' = {}
        /\ wire' = "closed" /\ UNCHANGED writes
        /\ future' = [q \in Procs |-> IF q \in queue \cup {} /\ future[q] = "pending"
                                      THEN "error" ELSE R[q]]
    BY <1>1, <1>6 DEF Stop, R
  <2>2. closed' /\ event' /\ closed' \in BOOLEAN /\ event' \in BOOLEAN
    BY <2>1
  <2>3. /\ future' \in [Procs -> {"none", "pending", "ok", "error", "cancelled"}]
        /\ \A q \in Procs :
             future'[q] = IF q \in queue /\ future[q] = "pending" THEN "error" ELSE R[q]
    BY <2>1, <1>5
  <2>4. ASSUME NEW q \in Procs
        PROVE  /\ future'[q] = future[q] \/ (future[q] = "pending" /\ Held(q))
               /\ future'[q] \in {future[q], "error"} \/ (q \in Closers /\ future'[q] = "ok")
               /\ Held(q) => future'[q] # "pending"
    BY <2>3, <1>5, <1>3, <1>6 DEF Held
  <2> QED
    BY <2>1, <2>2, <2>3, <2>4, <1>2 DEF Ended
<1>7. CASE p \notin Closers
  <2>1. p \in Senders
    BY <1>3, <1>7 DEF Procs
  <2>2. future' = R /\ task' = "get" /\ UNCHANGED <<queue, closed, event, wire>>
        /\ writes' = [writes EXCEPT ![p] = writes[p] + 1]
    BY <1>1, <1>7 DEF R
  <2> QED
    BY <2>1, <2>2, <1>2, <1>3, <1>5 DEF Written
<1> QED
  BY <1>6, <1>7

LEMMA TakeFacts ==
  ASSUME TypeOK, PlaceInv, OrderInv, Take
  PROVE  \E p \in queue :
           /\ queue' = queue \ {p} /\ current' = {p} /\ current = {}
           /\ p \in Senders => \A q \in Senders :
                q \in queue' /\ <<q, p>> \in ahead => p \in AudioSenders /\ q \notin AudioSenders
<1>1. PICK p \in queue : /\ \A q \in queue \ {p} : Before(p, q)
                         /\ queue' = queue \ {p} /\ current' = {p}
  BY DEF Take
<1>2. current = {}
  BY DEF TypeOK, Take
<1>3. ASSUME p \in Senders, NEW q \in Senders, q \in queue', <<q, p>> \in ahead
      PROVE  p \in AudioSenders /\ q \notin AudioSenders
  <2>1. p \in Procs /\ q \in Procs /\ q \in queue /\ p \in queue /\ Before(p, q)
    BY <1>1, <1>3 DEF Procs
  <2>2. <<q, p>> \in drawn
    BY <2>1, <1>3 DEF OrderInv
  <2>3. <<p, q>> \notin drawn
    BY <2>1, <2>2 DEF OrderInv
  <2>4. p \notin Closers /\ q \notin Closers
    BY <1>3, QueueAssumption
  <2>5. /\ Priority(p) = IF p \in AudioSenders THEN 0 ELSE 1
        /\ Priority(q) = IF q \in AudioSenders THEN 0 ELSE 1
    BY <2>4 DEF Priority
  <2>6. Priority(p) < Priority(q)
    BY <2>1, <2>3 DEF Before
  <2> QED
    BY <2>5, <2>6
<1> QED
  BY <1>1, <1>2, <1>3

-----------------------------------------------------------------------------
(* The steps of a coroutine *)

\* A step in which the coroutine p moves, and holds no message before or after; what it
\* leaves alone.
Moves(p) ==
  /\ UNCHANGED <<queue, current, writes>>
  /\ pc' \in [Procs -> {"idle", "put", "await", "sent", "failed", "cancelled", "flushed", "returned"}]
  /\ \A q \in Procs : q # p => pc'[q] = pc[q]
  /\ future' \in [Procs -> {"none", "pending", "ok", "error", "cancelled"}]
  /\ \A q \in Procs : q # p => future'[q] = future[q]

\* The start of a put.
Starts(p) ==
  /\ Moves(p) /\ pc[p] \in {"idle", "put"} /\ pc'[p] = "put" /\ future'[p] = "pending"
  /\ BeginPut(p) /\ UNCHANGED <<event, wire>> /\ task # "done" /\ task' \in {task, "get"}
  /\ closed' \in BOOLEAN /\ (task' # task => ~closed /\ task = "none")
  /\ (closed => closed') /\ task' # "none"

\* A step of p after which it has given up or been answered: what it then knows.
Leaves(p) ==
  /\ Moves(p) /\ UNCHANGED <<drawn, ahead, task>>
  /\ pc[p] \in {"idle", "put", "await", "flushed"}
  /\ pc'[p] \in {"sent", "failed", "flushed", "returned"} /\ future'[p] = future[p]
  /\ pc'[p] = "sent" => p \in Senders /\ pc[p] = "await" /\ future[p] = "ok"
  /\ pc'[p] = "failed" => p \in Senders /\ (pc[p] \in {"idle", "put"} \/ future[p] = "error")
  /\ pc'[p] = "flushed" =>
       p \in Closers /\ (task = "done" \/ future[p] \in {"ok", "error"} \/ event')
  /\ (closed => closed') /\ (event => event') /\ closed' \in BOOLEAN /\ event' \in BOOLEAN
  /\ wire' \in {wire, "closed"}
  /\ wire' # wire => \/ p \in Closers /\ (task = "done" \/ future[p] = "error")
                     \/ task = "none" /\ closed'
  /\ pc[p] = "await" => future[p] \in {"ok", "error"}

LEMMA SendCases ==
  ASSUME TypeOK, PlaceInv, NEW p \in Procs, Send(p)
  PROVE  Starts(p) \/ Leaves(p)
<1>1. CASE closed \/ Stopping
  <2>1. /\ pc' = [pc EXCEPT ![p] = "failed"] /\ pc[p] = "idle" /\ p \in Senders
        /\ UNCHANGED <<queue, current, closed, event, wire, writes, drawn, future, task, ahead>>
    BY <1>1 DEF Send
  <2>2. closed' \in BOOLEAN /\ event' \in BOOLEAN /\ (closed => closed') /\ (event => event')
    BY <2>1 DEF TypeOK
  <2>3. Moves(p) /\ pc'[p] = "failed"
    BY <2>1 DEF Moves, TypeOK
  <2> QED
    BY <2>1, <2>2, <2>3 DEF Leaves
<1>2. CASE ~(closed \/ Stopping)
  <2>1. /\ pc' = [pc EXCEPT ![p] = "put"] /\ pc[p] = "idle"
        /\ future' = [future EXCEPT ![p] = "pending"]
        /\ task' = IF task = "none" THEN "get" ELSE task
        /\ UNCHANGED <<queue, current, closed, event, wire, writes>> /\ BeginPut(p)
    BY <1>2 DEF Send
  <2>2. closed' \in BOOLEAN /\ (closed => closed') /\ ~closed /\ task # "done"
    BY <2>1, <1>2 DEF TypeOK, Stopping
  <2>3. Moves(p) /\ pc'[p] = "put" /\ future'[p] = "pending"
    BY <2>1 DEF Moves, TypeOK
  <2> QED
    BY <2>1, <2>2, <2>3 DEF Starts
<1> QED
  BY <1>1, <1>2

LEMMA PutTimeoutCases ==
  ASSUME TypeOK, PlaceInv, CloseInv, NEW p \in Procs, PutTimeout(p)
  PROVE  Starts(p) \/ Leaves(p)
<1>1. pc[p] = "put" /\ future[p] = "pending"
      /\ UNCHANGED <<queue, future, task, current, closed, event, writes>>
  BY DEF PutTimeout, PlaceInv
<1>2. closed' \in BOOLEAN /\ event' \in BOOLEAN /\ (closed => closed') /\ (event => event')
  BY <1>1 DEF TypeOK
<1>3. CASE /\ Stopping /\ p \in Closers
           /\ CloseDirect(p)
           /\ UNCHANGED <<drawn, ahead>>
  <2>1. wire' = "closed" /\ task = "done" /\ pc' = [pc EXCEPT ![p] = "flushed"]
    BY <1>3 DEF CloseDirect, Stopping
  <2>2. Moves(p) /\ pc'[p] = "flushed"
    BY <1>1, <2>1 DEF Moves, TypeOK
  <2> QED
    BY <1>1, <1>2, <1>3, <2>1, <2>2 DEF Leaves
<1>4. CASE /\ p \in Senders /\ (closed \/ Stopping)
           /\ pc' = [pc EXCEPT ![p] = "failed"]
           /\ UNCHANGED <<drawn, ahead, wire>>
  <2>1. Moves(p) /\ pc'[p] = "failed"
    BY <1>1, <1>4 DEF Moves, TypeOK
  <2> QED
    BY <1>1, <1>2, <1>4, <2>1 DEF Leaves
<1>5. CASE /\ ~Stopping /\ (p \in Senders => ~closed)
           /\ BeginPut(p)
           /\ UNCHANGED <<pc, wire>>
  <2>1. task # "done" /\ task # "none"
    BY <1>1, <1>5 DEF Stopping, CloseInv
  <2>2. Moves(p) /\ pc'[p] = "put"
    BY <1>1, <1>5 DEF Moves, TypeOK
  <2> QED
    BY <1>1, <1>2, <1>5, <2>1, <2>2 DEF Starts
<1> QED
  BY <1>3, <1>4, <1>5 DEF PutTimeout

LEMMA ResumeLeaves ==
  ASSUME TypeOK, PlaceInv, NEW p \in Procs, Resume(p)
  PROVE  Leaves(p)
<1>1. pc[p] = "await" /\ future[p] \in {"ok", "error"}
      /\ UNCHANGED <<drawn, queue, future, task, current, closed, event, writes, ahead>>
  BY DEF Resume
<1>2. closed' \in BOOLEAN /\ event' \in BOOLEAN /\ (closed => closed') /\ (event => event')
  BY <1>1 DEF TypeOK
<1>3. CASE /\ p \in Senders /\ UNCHANGED wire
           /\ pc' = [pc EXCEPT ![p] = IF future[p] = "ok" THEN "sent" ELSE "failed"]
  <2>1. Moves(p) /\ pc'[p] = IF future[p] = "ok" THEN "sent" ELSE "failed"
    BY <1>1, <1>3 DEF Moves, TypeOK
  <2> QED
    BY <1>1, <1>2, <1>3, <2>1 DEF Leaves
<1>4. CASE /\ p \in Closers /\ (wire' = wire \/ (future[p] = "error" /\ wire' = "closed"))
           /\ pc' = [pc EXCEPT ![p] = "flushed"]
  <2>1. Moves(p) /\ pc'[p] = "flushed"
    BY <1>1, <1>4 DEF Moves, TypeOK
  <2> QED
    BY <1>1, <1>2, <1>4, <2>1 DEF Leaves
<1> QED
  BY <1>3, <1>4 DEF Resume, CloseDirect

LEMMA CloseCases ==
  ASSUME TypeOK, PlaceInv, CloseInv, NEW p \in Closers, Close(p)
  PROVE  Starts(p) \/ Leaves(p)
<1>1. pc[p] = "idle" /\ future[p] = "none" /\ p \in Procs /\ closed' = TRUE
      /\ UNCHANGED <<queue, current, task, writes>>
  BY DEF Close, PlaceInv, Procs
<1>2. closed' /\ closed' \in BOOLEAN
  BY <1>1
<1>3. CASE closed /\ pc' = [pc EXCEPT ![p] = "returned"]
           /\ UNCHANGED <<drawn, future, ahead, event, wire>>
  <2>1. Moves(p) /\ pc'[p] = "returned"
    BY <1>1, <1>3 DEF Moves, TypeOK
  <2>2. event' \in BOOLEAN /\ (event => event')
    BY <1>3 DEF TypeOK
  <2> QED
    BY <1>1, <1>2, <1>3, <2>1, <2>2 DEF Leaves
<1>4. CASE ~closed /\ task = "none" /\ wire' = "closed" /\ event' = TRUE
           /\ pc' = [pc EXCEPT ![p] = "flushed"] /\ UNCHANGED <<drawn, future, ahead>>
  <2>1. Moves(p) /\ pc'[p] = "flushed"
    BY <1>1, <1>4 DEF Moves, TypeOK
  <2>2. event' \in BOOLEAN /\ event'
    BY <1>4
  <2> QED
    BY <1>1, <1>2, <1>4, <2>1, <2>2 DEF Leaves
<1>5. CASE ~closed /\ task # "none" /\ future' = [future EXCEPT ![p] = "pending"]
           /\ pc' = [pc EXCEPT ![p] = "put"] /\ BeginPut(p) /\ UNCHANGED <<event, wire>>
  <2>1. Moves(p) /\ pc'[p] = "put" /\ future'[p] = "pending"
    BY <1>1, <1>5 DEF Moves, TypeOK
  <2>2. task # "done"
    BY <1>5 DEF CloseInv
  <2> QED
    BY <1>1, <1>2, <1>5, <2>1, <2>2 DEF Starts
<1> QED
  BY <1>3, <1>4, <1>5 DEF Close

LEMMA CloseReturnLeaves ==
  ASSUME TypeOK, NEW p \in Closers, CloseReturn(p)
  PROVE  Leaves(p)
<1>1. pc[p] = "flushed" /\ p \in Procs /\ pc' = [pc EXCEPT ![p] = "returned"]
      /\ UNCHANGED <<drawn, queue, future, task, current, closed, event, wire, writes, ahead>>
  BY DEF CloseReturn, Procs
<1>2. Moves(p) /\ pc'[p] = "returned"
  BY <1>1 DEF Moves, TypeOK
<1>3. closed' \in BOOLEAN /\ event' \in BOOLEAN /\ (closed => closed') /\ (event => event')
  BY <1>1 DEF TypeOK
<1> QED
  BY <1>1, <1>2, <1>3 DEF Leaves

-----------------------------------------------------------------------------
(* Every kind of step keeps the invariant *)

LEMMA StartsKeeps == ASSUME OutboxInv, NEW p \in Procs, Starts(p) PROVE OutboxInv'
<1> USE DEF OutboxInv
<1>1. /\ UNCHANGED <<queue, current, writes, event, wire>>
      /\ pc' \in [Procs -> {"idle", "put", "await", "sent", "failed", "cancelled", "flushed", "returned"}]
      /\ \A q \in Procs : q # p => pc'[q] = pc[q]
      /\ future' \in [Procs -> {"none", "pending", "ok", "error", "cancelled"}]
      /\ \A q \in Procs : q # p => future'[q] = future[q]
      /\ pc[p] \in {"idle", "put"} /\ pc'[p] = "put" /\ future'[p] = "pending"
  BY DEF Starts, Moves
<1>2. /\ task # "done" /\ task' \in {task, "get"} /\ closed' \in BOOLEAN
      /\ (task' # task => ~closed /\ task = "none") /\ (closed => closed') /\ task' # "none"
      /\ BeginPut(p)
  BY DEF Starts
<1>3. p \notin queue /\ p \notin current /\ future[p] \in {"none", "pending"}
  BY <1>1 DEF PlaceInv, Held
<1>4. /\ drawn' \subseteq Procs \X Procs
      /\ ahead' \subseteq Senders \X Procs
      /\ \A a, b \in Procs : <<a, b>> \in drawn' => <<b, a>> \notin drawn'
      /\ \A b, a \in Procs : <<b, a>> \in ahead' =>
           /\ b \in queue /\ b # p
           /\ a # p => <<b, a>> \in ahead
           /\ a = p => <<b, a>> \in drawn'
           /\ a # p /\ (a \in queue \/ pc[a] = "put") => <<b, a>> \in drawn'
  BY <1>1, <1>2, <1>3, BeginPutFacts
<1>5. TypeOK'
  <2>1. task' = "send" <=> current' # {}
    BY <1>1, <1>2 DEF TypeOK, CloseInv
  <2>2. event' \in BOOLEAN
    BY <1>1 DEF TypeOK
  <2> QED
    BY <1>1, <1>2, <1>4, <2>1, <2>2 DEF TypeOK
<1>6. PlaceInv'
  BY <1>1, <1>3 DEF PlaceInv, Held
<1>7. WriteInv'
  BY <1>1, <1>3 DEF WriteInv, Held, Procs
<1>8. CloseInv'
  BY <1>1, <1>2 DEF CloseInv, Procs
<1>9. OrderInv'
  <2>1. ASSUME NEW q \in Procs, NEW a \in Procs, <<q, a>> \in ahead'
        PROVE  /\ pc'[q] \notin {"idle", "put"}
               /\ a \in queue' \/ pc'[a] = "put" => <<q, a>> \in drawn'
               /\ a \in current' /\ a \in Senders => a \in AudioSenders /\ q \notin AudioSenders
    <3>1. q \in queue /\ q # p /\ pc'[q] \in {"await", "cancelled"}
      BY <1>1, <1>4, <2>1 DEF PlaceInv, Held
    <3>2. CASE a = p
      BY <1>1, <1>3, <1>4, <2>1, <3>1, <3>2
    <3>3. CASE a # p
      <4>1. <<q, a>> \in ahead
        BY <1>4, <2>1, <3>3
      <4>2. a \in queue' \/ pc'[a] = "put" => <<q, a>> \in drawn'
        BY <1>1, <1>4, <2>1, <3>3
      <4>3. a \in current' /\ a \in Senders => a \in AudioSenders /\ q \notin AudioSenders
        BY <1>1, <3>1, <4>1 DEF OrderInv
      <4> QED
        BY <3>1, <4>2, <4>3
    <3> QED
      BY <3>2, <3>3
  <2> QED
    BY <1>4, <2>1 DEF OrderInv
<1> QED
  BY <1>5, <1>6, <1>7, <1>8, <1>9

LEMMA LeavesKeeps == ASSUME OutboxInv, NEW p \in Procs, Leaves(p) PROVE OutboxInv'
<1> USE DEF OutboxInv
<1>1. /\ UNCHANGED <<queue, current, writes, drawn, ahead, task>>
      /\ pc' \in [Procs -> {"idle", "put", "await", "sent", "failed", "cancelled", "flushed", "returned"}]
      /\ \A q \in Procs : q # p => pc'[q] = pc[q]
      /\ future' \in [Procs -> {"none", "pending", "ok", "error", "cancelled"}]
      /\ \A q \in Procs : future'[q] = future[q]
      /\ pc[p] \in {"idle", "put", "await", "flushed"}
      /\ pc'[p] \in {"sent", "failed", "flushed", "returned"}
      /\ pc[p] = "await" => future[p] \in {"ok", "error"}
  BY DEF Leaves, Moves
<1>2. /\ pc'[p] = "sent" => p \in Senders /\ pc[p] = "await" /\ future[p] = "ok"
      /\ pc'[p] = "failed" => p \in Senders /\ (pc[p] \in {"idle", "put"} \/ future[p] = "error")
      /\ pc'[p] = "flushed" =>
           p \in Closers /\ (task = "done" \/ future[p] \in {"ok", "error"} \/ event')
  BY DEF Leaves
<1>3. /\ (closed => closed') /\ (event => event') /\ closed' \in BOOLEAN /\ event' \in BOOLEAN
      /\ wire' \in {wire, "closed"}
      /\ wire' # wire => \/ p \in Closers /\ (task = "done" \/ future[p] = "error")
                         \/ task = "none" /\ closed'
  BY DEF Leaves
<1>4. TypeOK'
  BY <1>1, <1>3 DEF TypeOK
<1>5. p \notin queue /\ p \notin current
  BY <1>1 DEF PlaceInv, Held
<1>6. PlaceInv'
  BY <1>1, <1>5 DEF PlaceInv, Held
<1>7. WriteInv'
  <2>1. ASSUME NEW q \in Senders
        PROVE  /\ future[q] \in {"none", "pending", "error"} \/ Held(q) => writes[q] = 0
               /\ future[q] = "ok" \/ pc'[q] = "sent" => writes[q] = 1
               /\ pc'[q] = "failed" => ~Held(q) /\ future[q] \in {"none", "error", "pending"}
               /\ pc'[q] = "await" /\ future[q] = "pending" => Held(q)
    <3>1. CASE q = p
      BY <1>1, <1>2, <1>5, <3>1 DEF WriteInv, PlaceInv, Held
    <3>2. CASE q # p
      BY <1>1, <3>2 DEF WriteInv, Procs
    <3> QED
      BY <3>1, <3>2
  <2> QED
    BY <2>1, <1>1 DEF WriteInv, Held, Procs
<1>8. CloseInv'
  <2>1. task' = "done" => closed' /\ event'
    BY <1>1, <1>3 DEF CloseInv
  <2>2. wire' = "closed" => task' = "done" \/ (task' = "none" /\ closed')
    BY <1>1, <1>3 DEF CloseInv
  <2>3. \A q \in Closers : /\ future'[q] \in {"ok", "error"} => task' = "done"
                           /\ pc'[q] = "flushed" => event'
    BY <1>1, <1>2, <1>3 DEF CloseInv, Procs
  <2> QED
    BY <1>1, <2>1, <2>2, <2>3 DEF CloseInv
<1>9. OrderInv'
  BY <1>1 DEF OrderInv
<1> QED
  BY <1>4, <1>6, <1>7, <1>8, <1>9

LEMMA PutKeeps == ASSUME OutboxInv, NEW p \in Procs, Put(p) PROVE OutboxInv'
<1> USE DEF OutboxInv
<1>1. /\ pc[p] = "put" /\ Cardinality(queue) < MaxQueueSize
      /\ queue' = queue \cup {p} /\ pc' = [pc EXCEPT ![p] = "await"]
      /\ UNCHANGED <<drawn, future, task, current, closed, event, wire, writes, ahead>>
  BY DEF Put
<1>2. /\ pc' \in [Procs -> {"idle", "put", "await", "sent", "failed", "cancelled", "flushed", "returned"}]
      /\ \A q \in Procs : q # p => pc'[q] = pc[q]
      /\ pc'[p] = "await"
  BY <1>1 DEF TypeOK
<1>3. p \notin queue /\ p \notin current /\ future[p] = "pending"
  BY <1>1 DEF PlaceInv, Held
<1>4. IsFiniteSet(queue') /\ Cardinality(queue') = Cardinality(queue) + 1 /\ Cardinality(queue) \in Nat
  BY <1>1, <1>3, FS_AddElement, FS_CardinalityType DEF PlaceInv
<1>5. TypeOK'
  <2>1. Cardinality(queue') <= MaxQueueSize
    BY <1>1, <1>4, QueueAssumption
  <2>2. queue' \subseteq Procs
    BY <1>1 DEF TypeOK
  <2>3. closed' \in BOOLEAN /\ event' \in BOOLEAN
    BY <1>1 DEF TypeOK
  <2> QED
    BY <1>1, <1>2, <2>1, <2>2, <2>3 DEF TypeOK
<1>6. PlaceInv'
  BY <1>1, <1>2, <1>3, <1>4 DEF PlaceInv, Held
<1>7. WriteInv'
  BY <1>1, <1>2, <1>3 DEF WriteInv, Held, Procs
<1>8. CloseInv'
  BY <1>1, <1>2, <1>3 DEF CloseInv, Procs
<1>9. OrderInv'
  BY <1>1, <1>2, <1>3 DEF OrderInv
<1> QED
  BY <1>5, <1>6, <1>7, <1>8, <1>9

LEMMA CancelKeeps == ASSUME OutboxInv, NEW p \in Procs, Cancel(p) PROVE OutboxInv'
<1> USE DEF OutboxInv
<1>1. /\ p \in Senders /\ pc[p] \in {"put", "await"} /\ future[p] = "pending"
      /\ pc' = [pc EXCEPT ![p] = "cancelled"] /\ future' = [future EXCEPT ![p] = "cancelled"]
      /\ UNCHANGED <<drawn, queue, task, current, closed, event, wire, writes, ahead>>
  BY DEF Cancel
<1>2. /\ pc' \in [Procs -> {"idle", "put", "await", "sent", "failed", "cancelled", "flushed", "returned"}]
      /\ \A q \in Procs : q # p => pc'[q] = pc[q] /\ future'[q] = future[q]
      /\ future' \in [Procs -> {"none", "pending", "ok", "error", "cancelled"}]
      /\ pc'[p] = "cancelled" /\ future'[p] = "cancelled"
  BY <1>1 DEF TypeOK
<1>3. TypeOK'
  <2>1. closed' \in BOOLEAN /\ event' \in BOOLEAN
    BY <1>1 DEF TypeOK
  <2> QED
    BY <1>1, <1>2, <2>1 DEF TypeOK
<1>4. PlaceInv'
  BY <1>1, <1>2 DEF PlaceInv, Held
<1>5. WriteInv'
  BY <1>1, <1>2 DEF WriteInv, Held, Procs
<1>6. CloseInv'
  BY <1>1, <1>2, QueueAssumption DEF CloseInv, Procs
<1>7. OrderInv'
  BY <1>1, <1>2 DEF OrderInv
<1> QED
  BY <1>3, <1>4, <1>5, <1>6, <1>7

LEMMA TakeKeeps == ASSUME OutboxInv, Take PROVE OutboxInv'
<1> USE DEF OutboxInv
<1>1. task = "get" /\ task' = "send"
      /\ UNCHANGED <<pc, drawn, future, closed, event, wire, writes, ahead>>
  BY DEF Take
<1>2. PICK p \in queue :
        /\ queue' = queue \ {p} /\ current' = {p} /\ current = {}
        /\ p \in Senders => \A q \in Senders :
             q \in queue' /\ <<q, p>> \in ahead => p \in AudioSenders /\ q \notin AudioSenders
  BY TakeFacts
<1>3. IsFiniteSet(queue') /\ Cardinality(queue') = Cardinality(queue) - 1 /\ Cardinality(queue) \in Nat
  BY <1>2, FS_RemoveElement, FS_CardinalityType DEF PlaceInv
<1>4. TypeOK'
  <2>1. Cardinality(queue') <= MaxQueueSize
    BY <1>3, QueueAssumption DEF TypeOK
  <2>2. closed' \in BOOLEAN /\ event' \in BOOLEAN
    BY <1>1 DEF TypeOK
  <2>3. queue' \subseteq Procs /\ current' \subseteq Procs /\ current' # {}
    BY <1>2 DEF TypeOK
  <2> QED
    BY <1>1, <2>1, <2>2, <2>3 DEF TypeOK
<1>5. \A q \in Procs : Held(q)' <=> Held(q)
  BY <1>2 DEF Held
<1>6. PlaceInv'
  BY <1>1, <1>2, <1>3, <1>5 DEF PlaceInv
<1>7. WriteInv'
  BY <1>1, <1>5 DEF WriteInv, Procs
<1>8. CloseInv'
  BY <1>1 DEF CloseInv
<1>9. OrderInv'
  <2>1. ahead' \subseteq Senders \X Procs
    BY <1>1 DEF TypeOK
  <2>2. \A q, a \in Procs : <<q, a>> \in ahead' => q \in Senders
    BY <2>1
  <2> QED
    BY <1>1, <1>2, <2>2 DEF OrderInv
<1> QED
  BY <1>4, <1>6, <1>7, <1>8, <1>9

LEMMA EndedKeeps == ASSUME OutboxInv, Ended PROVE OutboxInv'
<1> USE DEF OutboxInv
<1>1. /\ task' = "done" /\ closed' /\ event' /\ queue' = {} /\ current' = {}
      /\ UNCHANGED <<pc, drawn, writes, ahead>>
      /\ future' \in [Procs -> {"none", "pending", "ok", "error", "cancelled"}]
      /\ closed' \in BOOLEAN /\ event' \in BOOLEAN /\ wire' \in {wire, "closed"}
  BY DEF Ended
<1>2. \A q \in Procs :
       /\ future'[q] = future[q] \/ (future[q] = "pending" /\ Held(q))
       /\ future'[q] \in {future[q], "error"} \/ (q \in Closers /\ future'[q] = "ok")
       /\ Held(q) => future'[q] # "pending"
  BY DEF Ended
<1>3. TypeOK'
  <2>1. Cardinality(queue') <= MaxQueueSize
    BY <1>1, FS_EmptySet, QueueAssumption
  <2> QED
    BY <1>1, <2>1 DEF TypeOK
<1>4. \A q \in Procs : ~Held(q)'
  BY <1>1 DEF Held
<1>5. PlaceInv'
  <2>1. ASSUME NEW q \in Procs
        PROVE  /\ pc[q] = "idle" => future'[q] = "none"
               /\ pc[q] = "put" => future'[q] = "pending"
               /\ pc[q] = "cancelled" <=> future'[q] = "cancelled"
    BY <1>2 DEF PlaceInv
  <2>2. IsFiniteSet(queue')
    BY <1>1, FS_EmptySet
  <2> QED
    BY <1>1, <1>4, <2>1, <2>2 DEF PlaceInv
<1>6. WriteInv'
  <2>1. ASSUME NEW q \in Senders
        PROVE  /\ future'[q] \in {"none", "pending", "error"} => writes[q] = 0
               /\ future'[q] = "ok" \/ pc[q] = "sent" => writes[q] = 1
               /\ pc[q] = "failed" => future'[q] \in {"none", "error", "pending"}
               /\ pc[q] = "await" => future'[q] # "pending"
    <3>1. q \in Procs /\ q \notin Closers
      BY QueueAssumption DEF Procs
    <3> QED
      BY <1>2, <3>1 DEF WriteInv
  <2> QED
    BY <1>1, <1>4, <2>1 DEF WriteInv, Procs
<1>7. CloseInv'
  BY <1>1 DEF CloseInv
<1>8. OrderInv'
  BY <1>1 DEF OrderInv
<1> QED
  BY <1>3, <1>5, <1>6, <1>7, <1>8

LEMMA WrittenKeeps == ASSUME OutboxInv, task = "send", NEW p, Written(p) PROVE OutboxInv'
<1> USE DEF OutboxInv
<1>1. /\ p \in Senders /\ p \in Procs /\ current = {p} /\ task' = "get" /\ current' = {}
      /\ UNCHANGED <<pc, drawn, ahead, queue, closed, event, wire>>
      /\ writes' = [writes EXCEPT ![p] = writes[p] + 1]
      /\ future' \in [Procs -> {"none", "pending", "ok", "error", "cancelled"}]
      /\ \A q \in Procs : q # p => future'[q] = future[q]
      /\ future'[p] = IF future[p] = "pending" THEN "ok" ELSE future[p]
  BY DEF Written, Procs
<1>2. Held(p) /\ p \notin queue /\ future[p] \in {"pending", "cancelled"} /\ writes[p] = 0
  BY <1>1 DEF PlaceInv, WriteInv, Held
<1>3. writes' \in [Senders -> Nat] /\ writes'[p] = 1 /\ \A q \in Senders : q # p => writes'[q] = writes[q]
  BY <1>1, <1>2 DEF TypeOK
<1>4. TypeOK'
  <2>1. closed' \in BOOLEAN /\ event' \in BOOLEAN
    BY <1>1 DEF TypeOK
  <2> QED
    BY <1>1, <1>3, <2>1 DEF TypeOK
<1>5. \A q \in Procs : Held(q)' <=> Held(q) /\ q # p
  BY <1>1, <1>2 DEF Held
<1>6. PlaceInv'
  BY <1>1, <1>2, <1>5 DEF PlaceInv
<1>7. WriteInv'
  <2>1. ASSUME NEW q \in Senders
        PROVE  /\ future'[q] \in {"none", "pending", "error"} \/ Held(q)' => writes'[q] = 0
               /\ future'[q] = "ok" \/ pc'[q] = "sent" => writes'[q] = 1
               /\ pc'[q] = "failed" => ~Held(q)' /\ future'[q] \in {"none", "error", "pending"}
               /\ pc'[q] = "await" /\ future'[q] = "pending" => Held(q)'
    <3>1. q \in Procs /\ (Held(q)' <=> Held(q) /\ q # p)
      BY <1>5 DEF Procs
    <3>2. CASE q = p
      BY <1>1, <1>2, <1>3, <3>1, <3>2 DEF PlaceInv
    <3>3. CASE q # p
      BY <1>1, <1>3, <3>1, <3>3 DEF WriteInv
    <3> QED
      BY <3>2, <3>3
  <2> QED
    BY <2>1 DEF WriteInv
<1>8. CloseInv'
  BY <1>1, QueueAssumption DEF CloseInv, Procs
<1>9. OrderInv'
  BY <1>1 DEF OrderInv
<1> QED
  BY <1>4, <1>6, <1>7, <1>8, <1>9

LEMMA OutboxNext == ASSUME OutboxInv, [Next]_vars PROVE OutboxInv'
<1> USE DEF OutboxInv
<1>1. ASSUME NEW p \in Procs, Send(p) PROVE OutboxInv'
  BY <1>1, SendCases, StartsKeeps, LeavesKeeps
<1>2. ASSUME NEW p \in Procs, Put(p) PROVE OutboxInv'
  BY <1>2, PutKeeps
<1>3. ASSUME NEW p \in Procs, PutTimeout(p) PROVE OutboxInv'
  BY <1>3, PutTimeoutCases, StartsKeeps, LeavesKeeps
<1>4. ASSUME NEW p \in Procs, Resume(p) PROVE OutboxInv'
  BY <1>4, ResumeLeaves, LeavesKeeps
<1>5. ASSUME NEW p \in Procs, Cancel(p) PROVE OutboxInv'
  BY <1>5, CancelKeeps
<1>6. ASSUME NEW p \in Closers, Close(p) PROVE OutboxInv'
  BY <1>6, CloseCases, StartsKeeps, LeavesKeeps DEF Procs
<1>7. ASSUME NEW p \in Closers, CloseReturn(p) PROVE OutboxInv'
  BY <1>7, CloseReturnLeaves, LeavesKeeps DEF Procs
<1>8. CASE Take
  BY <1>8, TakeKeeps
<1>9. CASE Write
  BY <1>9, WriteCases, EndedKeeps, WrittenKeeps DEF Write
<1>10. CASE WriteFails
  BY <1>10, WriteFailsEnds, EndedKeeps
<1>11. CASE UNCHANGED vars
  BY <1>11 DEF vars, TypeOK, PlaceInv, WriteInv, CloseInv, OrderInv, Held
<1> QED
  BY <1>1, <1>2, <1>3, <1>4, <1>5, <1>6, <1>7, <1>8, <1>9, <1>10, <1>11 DEF Next

LEMMA OutboxInvariant == Spec => []OutboxInv
BY OutboxInit, OutboxNext, PTL DEF Spec

-----------------------------------------------------------------------------
(* The properties of the runs *)

\* What a coroutine is told about its message is true (_enqueue_and_await), and close()
\* waits for an event that is set.
THEOREM OutcomeTheorem == Spec => []OutcomeIsTrue
<1>1. OutboxInv => OutcomeIsTrue
  <2> SUFFICES ASSUME OutboxInv PROVE OutcomeIsTrue
    OBVIOUS
  <2>1. \A p \in Senders : /\ pc[p] = "sent" => writes[p] = 1
                           /\ pc[p] = "failed" => writes[p] = 0
    BY DEF OutboxInv, WriteInv
  <2>2. \A p \in Closers : pc[p] = "flushed" => event
    BY DEF OutboxInv, CloseInv
  <2> QED
    BY <2>1, <2>2 DEF OutcomeIsTrue, OutboxInv
<1> QED
  BY <1>1, OutboxInvariant, PTL

\* A message is written to an open socket only, and overtakes one that was queued when
\* it arrived only as audio overtakes other messages (_sender_loop and its priority queue).
THEOREM OrderTheorem == Spec => WritesInOrder
<1> DEFINE Ordered ==
      \A p \in Senders :
        writes'[p] # writes[p] =>
          /\ wire = "open"
          /\ \A q \in queue : <<q, p>> \in ahead => p \in AudioSenders /\ q \notin AudioSenders
<1>1. OutboxInv /\ [Next]_vars => [Ordered]_vars
  <2> SUFFICES ASSUME OutboxInv, [Next]_vars, NEW p \in Senders, writes'[p] # writes[p]
               PROVE  /\ wire = "open"
                      /\ \A q \in queue :
                           <<q, p>> \in ahead => p \in AudioSenders /\ q \notin AudioSenders
    OBVIOUS
  <2>1. Write
    <3>1. ~Write => UNCHANGED writes
      BY DEF Next, vars, Send, Put, PutTimeout, Resume, Cancel, Close, CloseReturn, Take, WriteFails
    <3> QED
      BY <3>1
  <2>2. PICK r \in current : Written(r)
    BY <2>1, WriteCases DEF OutboxInv, Ended
  <2>3. r = p /\ current = {p}
    BY <2>2 DEF Written, OutboxInv, TypeOK
  <2>4. wire = "open"
    BY <2>1 DEF Write, OutboxInv, CloseInv, TypeOK
  <2>5. ASSUME NEW q \in queue, <<q, p>> \in ahead
        PROVE  p \in AudioSenders /\ q \notin AudioSenders
    BY <2>3, <2>5 DEF OutboxInv, OrderInv, TypeOK, Procs
  <2> QED
    BY <2>4, <2>5
<1>2. Spec => [][Ordered]_vars
  BY <1>1, OutboxInvariant, PTL DEF Spec
<1> QED
  BY <1>2 DEF WritesInOrder

\* Whoever's message is in the queue or being written when the sender task ends is
\* answered by that step.
THEOREM DrainTheorem ==
  Spec => [][task # "done" /\ task' = "done" =>
               \A p \in queue \cup current : future'[p] # "pending"]_vars
<1> DEFINE Drains == task # "done" /\ task' = "done" =>
                       \A p \in queue \cup current : future'[p] # "pending"
<1>1. OutboxInv /\ [Next]_vars => [Drains]_vars
  <2> SUFFICES ASSUME OutboxInv, [Next]_vars, task # "done", task' = "done"
               PROVE  \A p \in queue \cup current : future'[p] # "pending"
    OBVIOUS
  <2>1. Write \/ WriteFails
    <3>1. ~Write /\ ~WriteFails => task' \in {task, "get", "send"}
      BY DEF Next, vars, Send, Put, PutTimeout, Resume, Cancel, Close, CloseReturn, Take
    <3> QED
      BY <3>1
  <2>2. Ended
    BY <2>1, WriteCases, WriteFailsEnds DEF OutboxInv, Written
  <2> QED
    BY <2>2 DEF Ended, Held, OutboxInv, TypeOK
<1> QED
  BY <1>1, OutboxInvariant, PTL DEF Spec
-----------------------------------------------------------------------------
(* The session of the client *)

Socket ==
  [ready : {"connecting", "open", "closing", "closed"}, opened : BOOLEAN,
   hand : {"none", "building", "sent", "lost", "failed"}]
Session ==
  [socket : Nat, maintain : BOOLEAN, shaken : BOOLEAN,
   reason : {"", "close", "idle-timeout", "handshake-failed"},
   retry : BOOLEAN, idle : BOOLEAN, fallback : BOOLEAN]

Places == {"new", "before", "waiting", "connected", "failed"}

SocketTypeOK ==
  /\ sockets \in Seq(Socket)
  /\ session \in Session /\ session.socket <= Len(sockets)
  /\ ensure \in [Requests -> Places]
  /\ reasonOf \in 0 .. Len(sockets)
  /\ gaveUp \in BOOLEAN

HooksRun == \E r \in Requests : ensure[r] = "before"

\* The socket an intended close is about is on its way out, and a session that wants
\* a connection nevertheless has a caller that is about to open one.
ReasonInv ==
  session.reason # "" /\ reasonOf = session.socket /\ session.socket # 0 =>
    /\ sockets[session.socket].ready \in {"closing", "closed"}
    /\ session.maintain => gaveUp \/ HooksRun

\* A handshake is built on a socket that has opened; when it is done for the session's
\* socket it was sent, or the socket is on its way out.
HandInv ==
  /\ \A i \in 1 .. Len(sockets) : sockets[i].ready = "connecting" => sockets[i].hand = "none"
  /\ session.shaken /\ session.socket # 0 =>
       \/ sockets[session.socket].hand = "sent"
       \/ session.socket \in borrowed
       \/ sockets[session.socket].ready \in {"closing", "closed"}

LeftBehind ==
  \A i \in 1 .. Len(sockets) :
    sockets[i].ready \in {"connecting", "open"} => i = session.socket \/ i \in displaced

SocketInv == SocketTypeOK /\ TriesWhileWanted /\ ReasonInv /\ HandInv /\ LeftBehind

-----------------------------------------------------------------------------

LEMMA SessionInit ==
  ASSUME SocketInit
  PROVE  /\ session.socket = 0 /\ session.reason = "" /\ session \in Session
         /\ ~session.maintain /\ ~session.shaken /\ ~session.retry /\ ~session.idle
<1>1. PICK f \in BOOLEAN :
        session = [socket |-> 0, maintain |-> FALSE, shaken |-> FALSE, reason |-> "",
                   retry |-> FALSE, idle |-> FALSE, fallback |-> f]
  BY Zenon DEF SocketInit
<1> QED
  BY <1>1 DEF Session

LEMMA SocketInitInv == SocketInit => SocketInv
<1> SUFFICES ASSUME SocketInit PROVE SocketInv
  OBVIOUS
<1>1. sockets \in Seq(Socket) /\ Len(sockets) = 0
  BY EmptySeq DEF SocketInit
<1>2. session.socket = 0
  BY SessionInit
<1>3. SocketTypeOK
  <2>1. ensure \in [Requests -> Places]
        /\ reasonOf = 0 /\ gaveUp \in BOOLEAN
    BY DEF SocketInit, Places
  <2>2. session \in Session
    BY SessionInit
  <2>3. session.socket <= Len(sockets)
    BY <1>1, <1>2
  <2> QED
    BY <1>1, <2>1, <2>2, <2>3 DEF SocketTypeOK
<1>4. TriesWhileWanted
  BY SessionInit DEF TriesWhileWanted
<1>5. ReasonInv /\ HandInv /\ LeftBehind
  BY <1>1, <1>2 DEF ReasonInv, HandInv, LeftBehind
<1> QED
  BY <1>3, <1>4, <1>5 DEF SocketInv

\* What connect() does if it creates a socket ...
Created(c) ==
  LET n == Len(sockets) + 1 IN
  /\ sockets' \in Seq(Socket) /\ Len(sockets') = n
  /\ \A i \in 1 .. Len(sockets) : sockets'[i] = sockets[i]
  /\ sockets'[n] = NewSocket
  /\ session' \in Session /\ session'.socket = n /\ session'.maintain
  /\ ~session'.shaken /\ session'.reason = c.reason
  /\ gaveUp' = FALSE
  /\ displaced \subseteq displaced'
  /\ c.socket # 0 => /\ sockets[c.socket].ready # "connecting"
                     /\ sockets[c.socket].ready = "open" => c.socket \in displaced'

\* ... and if the session is open or connecting.
Kept(c) ==
  /\ c.socket # 0 /\ sockets[c.socket].ready \in {"connecting", "open"}
  /\ session' \in Session /\ session'.maintain
  /\ session'.socket = c.socket /\ session'.shaken = c.shaken /\ session'.reason = c.reason
  /\ UNCHANGED <<sockets, displaced, gaveUp>>

LEMMA NewSocketFacts == NewSocket \in Socket /\ NewSocket.ready = "connecting" /\ NewSocket.hand = "none"
BY DEF NewSocket, Socket

LEMMA TakesFacts ==
  ASSUME NEW c \in Session, sockets \in Seq(Socket)
  PROVE  /\ TakesSocket(c) \in Session
         /\ TakesSocket(c).socket = Len(sockets) + 1 /\ TakesSocket(c).maintain
         /\ ~TakesSocket(c).shaken /\ TakesSocket(c).reason = c.reason
<1>1. Len(sockets) + 1 \in Nat
  BY LenProperties
<1> DEFINE n == Len(sockets) + 1
<1>2. TakesSocket(c) = [c EXCEPT !.maintain = TRUE, !.socket = n, !.shaken = FALSE]
  BY DEF TakesSocket
<1>3. n \in Nat
  BY <1>1
<1> HIDE DEF n
<1>4. /\ TakesSocket(c) \in Session /\ TakesSocket(c).socket = n /\ TakesSocket(c).maintain
      /\ ~TakesSocket(c).shaken /\ TakesSocket(c).reason = c.reason
  BY <1>2, <1>3 DEF Session
<1> QED
  BY <1>4 DEF n

LEMMA ConnectFacts ==
  ASSUME SocketTypeOK, NEW c \in Session, c.socket <= Len(sockets), Connect(c)
  PROVE  Created(c) \/ Kept(c)
<1> USE DEF SocketTypeOK
<1>1. CASE CanCreate(c, sockets)
  <2>1. /\ sockets' = Append(sockets, NewSocket) /\ session' = TakesSocket(c) /\ gaveUp' = FALSE
        /\ displaced' = displaced \cup {i \in {c.socket} : Ready(sockets, i) = "open"}
    BY <1>1 DEF Connect
  <2>2. /\ sockets' \in Seq(Socket) /\ Len(sockets') = Len(sockets) + 1
        /\ \A i \in 1 .. Len(sockets) : sockets'[i] = sockets[i]
        /\ sockets'[Len(sockets) + 1] = NewSocket
    BY <2>1, NewSocketFacts, AppendProperties
  <2>3. c.socket # 0 => /\ sockets[c.socket].ready # "connecting"
                        /\ sockets[c.socket].ready = "open" => c.socket \in displaced'
    BY <1>1, <2>1 DEF CanCreate, Ready
  <2> QED
    BY <2>1, <2>2, <2>3, TakesFacts DEF Created
<1>2. CASE ~CanCreate(c, sockets)
  <2>1. session' = [c EXCEPT !.maintain = TRUE] /\ UNCHANGED <<sockets, displaced, gaveUp>>
    BY <1>2 DEF Connect
  <2>2. c.socket # 0 /\ sockets[c.socket].ready \in {"connecting", "open"}
    BY <1>2 DEF CanCreate, SessionOpen, Ready
  <2> QED
    BY <2>1, <2>2 DEF Kept, Session
<1> QED
  BY <1>1, <1>2

\* connect() keeps the invariant, whoever calls it.
LEMMA CreatedKeeps ==
  ASSUME SocketInv, NEW c \in Session, Created(c), c.socket = session.socket,
         UNCHANGED <<reasonOf, borrowed>>,
         ensure' \in [Requests -> Places]
  PROVE  SocketInv'
<1> DEFINE n == Len(sockets) + 1
<1>1. Len(sockets) \in Nat /\ reasonOf < n /\ n \in Nat \ {0}
  BY LenProperties DEF SocketInv, SocketTypeOK
<1>2. \A i \in 1 .. n : i # n => i \in 1 .. Len(sockets)
  BY <1>1
<1> USE DEF Created
<1>3. SocketTypeOK'
  <2>1. sockets' \in Seq(Socket)
    OBVIOUS
  <2>2. session' \in Session
    OBVIOUS
  <2>3. session'.socket <= Len(sockets')
    BY <1>1
  <2>4. reasonOf' \in 0 .. Len(sockets')
    BY <1>1 DEF SocketInv, SocketTypeOK
  <2>5. gaveUp' \in BOOLEAN
    OBVIOUS
  <2> QED
    BY <2>1, <2>2, <2>3, <2>4, <2>5 DEF SocketTypeOK
<1>4. LeftBehind'
  BY <1>1, <1>2 DEF SocketInv, SocketTypeOK, LeftBehind
<1>5. HandInv'
  BY <1>1, <1>2, NewSocketFacts DEF SocketInv, HandInv
<1>6. session'.socket # 0 /\ session'.maintain /\ reasonOf' # session'.socket
  BY <1>1
<1>7. ReasonInv' /\ TriesWhileWanted'
  BY <1>6 DEF ReasonInv, TriesWhileWanted
<1> QED
  BY <1>3, <1>4, <1>5, <1>7 DEF SocketInv

LEMMA KeptKeeps ==
  ASSUME SocketInv, NEW c \in Session, Kept(c), c.socket = session.socket,
         c.shaken = session.shaken, c.reason = session.reason,
         UNCHANGED <<reasonOf, borrowed>>,
         ensure' \in [Requests -> Places]
  PROVE  SocketInv'
<1> USE DEF Kept
<1>1. SocketTypeOK' /\ LeftBehind' /\ HandInv'
  BY DEF SocketInv, SocketTypeOK, LeftBehind, HandInv
<1>2. ReasonInv' /\ TriesWhileWanted'
  BY DEF SocketInv, ReasonInv, TriesWhileWanted
<1> QED
  BY <1>1, <1>2 DEF SocketInv

-----------------------------------------------------------------------------
(* What the helpers change *)

\* syncIdleTimer touches the idle timer only, which is off unless a connection is wanted.
SameBut(c) ==
  /\ session' \in Session
  /\ session'.socket = c.socket /\ session'.maintain = c.maintain /\ session'.shaken = c.shaken
  /\ session'.reason = c.reason /\ session'.retry = c.retry
  /\ ~c.maintain => ~session'.idle

LEMMA SyncIdleFacts ==
  ASSUME NEW c \in Session, NEW ss, SyncIdle(c, ss)
  PROVE  SameBut(c)
<1>1. PICK on \in BOOLEAN : session' = [c EXCEPT !.idle = on] /\ (~c.maintain => ~on)
  BY DEF SyncIdle
<1> QED
  BY <1>1 DEF SameBut, Session

LEMMA SettleFacts ==
  ASSUME ensure \in [Requests -> Places], NEW how \in {"connected", "failed"}, Settle(how)
  PROVE  ensure' \in [Requests -> Places] /\ (HooksRun => HooksRun')
BY DEF Settle, HooksRun, Places

\* One socket changes.
StaysOrMoves(i) ==
  /\ sockets' \in Seq(Socket) /\ Len(sockets') = Len(sockets)
  /\ \A j \in 1 .. Len(sockets) : j # i => sockets'[j] = sockets[j]

LEMMA UpdateFacts ==
  ASSUME sockets \in Seq(Socket), NEW i \in 1 .. Len(sockets), NEW s \in Socket,
         sockets' = [sockets EXCEPT ![i] = s]
  PROVE  StaysOrMoves(i) /\ sockets'[i] = s
BY ExceptSeq DEF StaysOrMoves

Readies == {"connecting", "open", "closing", "closed"}
Hands == {"none", "building", "sent", "lost", "failed"}

LEMMA WithReady ==
  ASSUME NEW s \in Socket, NEW r \in Readies
  PROVE  /\ [s EXCEPT !.ready = r] \in Socket
         /\ [s EXCEPT !.ready = r].ready = r /\ [s EXCEPT !.ready = r].hand = s.hand
BY DEF Socket, Readies

LEMMA WithHand ==
  ASSUME NEW s \in Socket, NEW h \in Hands
  PROVE  /\ [s EXCEPT !.hand = h] \in Socket
         /\ [s EXCEPT !.hand = h].ready = s.ready /\ [s EXCEPT !.hand = h].hand = h
BY DEF Socket, Hands

LEMMA SessionSocket ==
  ASSUME SocketTypeOK PROVE session.socket # 0 => session.socket \in 1 .. Len(sockets)
<1>1. session.socket \in Nat /\ session.socket <= Len(sockets)
  BY DEF SocketTypeOK, Session
<1>2. Len(sockets) \in Nat
  BY LenProperties DEF SocketTypeOK
<1> QED
  BY <1>1, <1>2

LEMMA ReasonMoves ==
  ASSUME SocketTypeOK, ReasonInv, NEW i \in 1 .. Len(sockets), StaysOrMoves(i),
         sockets[i].ready \in {"closing", "closed"} => sockets'[i].ready \in {"closing", "closed"},
         session'.socket = session.socket, session'.reason = session.reason,
         session'.maintain = session.maintain, UNCHANGED <<reasonOf, gaveUp>>,
         HooksRun => HooksRun'
  PROVE  ReasonInv'
<1>2. session.socket # 0 => session.socket \in 1 .. Len(sockets)
  BY SessionSocket
<1> SUFFICES ASSUME session.reason # "", reasonOf = session.socket, session.socket # 0
             PROVE  /\ sockets'[session.socket].ready \in {"closing", "closed"}
                    /\ session.maintain => gaveUp \/ HooksRun'
  BY DEF ReasonInv
<1>1. sockets[session.socket].ready \in {"closing", "closed"} /\ (session.maintain => gaveUp \/ HooksRun)
  BY DEF ReasonInv
<1>3. sockets'[session.socket].ready \in {"closing", "closed"}
  BY <1>1, <1>2 DEF StaysOrMoves
<1>4. session.maintain => gaveUp \/ HooksRun'
  BY <1>1, Zenon
<1> QED
  BY <1>3, <1>4, Zenon

\* A socket that is open or connecting is closed; there may be none.
Closes(k) ==
  /\ sockets' \in Seq(Socket) /\ Len(sockets') = Len(sockets)
  /\ \A j \in 1 .. Len(sockets) :
       /\ j # k => sockets'[j] = sockets[j]
       /\ j = k => sockets'[j].ready \in {"closing", "closed"}
       /\ sockets'[j].hand = sockets[j].hand

LEMMA ClosesFacts ==
  ASSUME sockets \in Seq(Socket), NEW k, CloseSocket(k) PROVE Closes(k)
<1>1. /\ Len(sockets) \in Nat /\ DOMAIN sockets = 1 .. Len(sockets)
      /\ \A j \in 1 .. Len(sockets) : sockets[j] \in Socket
  BY LenProperties, ElementOfSeq
<1> DEFINE New(j) == IF j = k /\ sockets[j].ready \in {"connecting", "open"}
                     THEN [sockets[j] EXCEPT !.ready = "closing"] ELSE sockets[j]
<1>2. ASSUME NEW j \in 1 .. Len(sockets)
      PROVE  /\ New(j) \in Socket /\ New(j).hand = sockets[j].hand
             /\ j # k => New(j) = sockets[j]
             /\ j = k => New(j).ready \in {"closing", "closed"}
  <2>1. /\ sockets[j] \in Socket /\ "closing" \in Readies
        /\ sockets[j].ready \in {"connecting", "open", "closing", "closed"}
    BY <1>1 DEF Readies, Socket
  <2>2. CASE New(j) = sockets[j] /\ ~(j = k /\ sockets[j].ready \in {"connecting", "open"})
    BY <2>1, <2>2
  <2>3. CASE j = k /\ New(j) = [sockets[j] EXCEPT !.ready = "closing"]
    BY <2>1, <2>3, WithReady
  <2> QED
    BY <2>2, <2>3
<1>3. sockets' = [j \in 1 .. Len(sockets) |-> New(j)]
  BY <1>1 DEF CloseSocket
<1> HIDE DEF New
<1>4. sockets' \in Seq(Socket) /\ Len(sockets') = Len(sockets)
  BY <1>1, <1>2, <1>3, IsASeq
<1> QED
  BY <1>2, <1>3, <1>4 DEF Closes

LEMMA AtSocket == ASSUME sockets \in Seq(Socket), NEW i \in 1 .. Len(sockets) PROVE sockets[i] \in Socket
BY ElementOfSeq

-----------------------------------------------------------------------------
(* ensureConnected *)

LEMMA EnsureStep == ASSUME SocketInv, NEW r \in Requests, EnsureConnected(r) PROVE SocketInv'
<1>1. /\ session' = [session EXCEPT !.maintain = TRUE, !.retry = FALSE, !.idle = FALSE]
      /\ ensure' = [ensure EXCEPT ![r] = "before"]
      /\ UNCHANGED <<sockets, reasonOf, gaveUp, displaced, borrowed>>
  BY DEF EnsureConnected
<1>2. session \in Session
  BY DEF SocketInv, SocketTypeOK
<1>3. /\ session' \in Session /\ session'.maintain
      /\ session'.socket = session.socket /\ session'.shaken = session.shaken
      /\ session'.reason = session.reason
  BY <1>1, <1>2 DEF Session
<1>4. ensure' \in [Requests -> Places] /\ HooksRun'
  BY <1>1 DEF SocketInv, SocketTypeOK, Places, HooksRun
<1>5. SocketTypeOK' /\ HandInv' /\ LeftBehind'
  BY <1>1, <1>3, <1>4 DEF SocketInv, SocketTypeOK, HandInv, LeftBehind
<1>6. TriesWhileWanted' /\ ReasonInv'
  BY <1>1, <1>3, <1>4 DEF SocketInv, TriesWhileWanted, ReasonInv, HooksRun
<1> QED
  BY <1>5, <1>6 DEF SocketInv

\* The hook, the constructor and the waiter's timeout fail the attempt.
LEMMA FailStep ==
  ASSUME SocketInv, NEW r \in Requests, BeforeConnectThrows(r) \/ CreateThrows(r) \/ WaitTimesOut(r)
  PROVE  SocketInv'
<1> USE DEF Places
<1>1. CASE WaitTimesOut(r)
  <2>1. ensure[r] = "waiting" /\ ensure' = [ensure EXCEPT ![r] = "failed"]
        /\ UNCHANGED <<sockets, session, reasonOf, gaveUp, displaced, borrowed>>
    BY <1>1 DEF WaitTimesOut
  <2>2. ensure' \in [Requests -> Places] /\ (HooksRun => HooksRun')
    BY <2>1 DEF SocketInv, SocketTypeOK, HooksRun
  <2>3. SocketTypeOK' /\ HandInv' /\ LeftBehind'
    BY <2>1, <2>2 DEF SocketInv, SocketTypeOK, HandInv, LeftBehind
  <2>4. TriesWhileWanted' /\ ReasonInv'
    BY <2>1, <2>2 DEF SocketInv, TriesWhileWanted, ReasonInv, HooksRun
  <2> QED
    BY <2>3, <2>4 DEF SocketInv
<1>2. CASE BeforeConnectThrows(r) \/ CreateThrows(r)
  <2>1. gaveUp' = TRUE /\ UNCHANGED <<sockets, reasonOf, displaced, borrowed>>
        /\ ensure' \in [Requests -> Places]
        /\ session' \in {session, [session EXCEPT !.maintain = TRUE]}
    BY <1>2 DEF SocketInv, SocketTypeOK, BeforeConnectThrows, CreateThrows
  <2>2. session \in Session
    BY DEF SocketInv, SocketTypeOK
  <2>3. /\ session' \in Session
        /\ session'.socket = session.socket /\ session'.shaken = session.shaken
        /\ session'.reason = session.reason
        /\ ~session'.maintain => ~session'.retry /\ ~session'.idle
    BY <2>1, <2>2 DEF Session, SocketInv, TriesWhileWanted
  <2>4. SocketTypeOK' /\ HandInv' /\ LeftBehind'
    BY <2>1, <2>3 DEF SocketInv, SocketTypeOK, HandInv, LeftBehind
  <2>5. TriesWhileWanted' /\ ReasonInv'
    BY <2>1, <2>3 DEF SocketInv, TriesWhileWanted, ReasonInv
  <2> QED
    BY <2>4, <2>5 DEF SocketInv
<1> QED
  BY <1>1, <1>2

LEMMA ConnectStep ==
  ASSUME SocketInv, NEW c \in Session, Connect(c), c.socket = session.socket,
         c.shaken = session.shaken, c.reason = session.reason,
         UNCHANGED <<reasonOf, borrowed>>, ensure' \in [Requests -> Places]
  PROVE  SocketInv'
BY ConnectFacts, CreatedKeeps, KeptKeeps DEF SocketInv, SocketTypeOK

\* A step that changes neither the sockets nor what the session knows of them, on a
\* session that has a socket which is open or is kept.
LEMMA IdleStep ==
  ASSUME SocketInv, SameBut(session), UNCHANGED <<sockets, reasonOf, gaveUp, displaced, borrowed>>,
         ensure' \in [Requests -> Places], Ready(sockets, session.socket) = "open"
  PROVE  SocketInv'
<1>1. session.socket # 0 /\ sockets[session.socket].ready = "open"
  BY DEF Ready
<1>2. SocketTypeOK' /\ HandInv' /\ LeftBehind'
  BY DEF SocketInv, SocketTypeOK, HandInv, LeftBehind, SameBut
<1>3. TriesWhileWanted' /\ ReasonInv'
  BY <1>1 DEF SocketInv, TriesWhileWanted, ReasonInv, SameBut
<1> QED
  BY <1>2, <1>3 DEF SocketInv

LEMMA BeforeDoneStep == ASSUME SocketInv, NEW r \in Requests, BeforeConnectDone(r) PROVE SocketInv'
<1>1. session \in Session /\ ensure \in [Requests -> Places]
  BY DEF SocketInv, SocketTypeOK
<1>2. UNCHANGED <<reasonOf, borrowed>>
  BY DEF BeforeConnectDone
<1>3. CASE SessionOpen(session, sockets)
  <2>1. /\ ensure' = [ensure EXCEPT ![r] = "connected"] /\ SyncIdle(session, sockets)
        /\ UNCHANGED <<sockets, gaveUp, displaced>>
    BY <1>3 DEF BeforeConnectDone
  <2>2. ensure' \in [Requests -> Places]
    BY <1>1, <2>1 DEF Places
  <2>3. Ready(sockets, session.socket) = "open"
    BY <1>3 DEF SessionOpen
  <2>4. SameBut(session)
    BY <1>1, <2>1, SyncIdleFacts
  <2> QED
    BY <1>2, <2>1, <2>2, <2>3, <2>4, IdleStep
<1>4. CASE ~SessionOpen(session, sockets)
  <2>1. ensure' = [ensure EXCEPT ![r] = "waiting"] /\ Connect(session)
    BY <1>4 DEF BeforeConnectDone
  <2>2. ensure' \in [Requests -> Places]
    BY <1>1, <2>1 DEF Places
  <2> QED
    BY <1>1, <1>2, <2>1, <2>2, ConnectStep
<1> QED
  BY <1>3, <1>4

LEMMA TrafficStep == ASSUME SocketInv, Traffic PROVE SocketInv'
<1>1. SameBut(session)
  BY SyncIdleFacts DEF Traffic, SocketInv, SocketTypeOK
<1> QED
  BY <1>1, IdleStep DEF Traffic, SocketInv, SocketTypeOK

LEMMA RetryStep == ASSUME SocketInv, RetryFires PROVE SocketInv'
<1> DEFINE c == [session EXCEPT !.retry = FALSE]
<1>1. session \in Session /\ ensure \in [Requests -> Places]
  BY DEF SocketInv, SocketTypeOK
<1>2. /\ c \in Session /\ c.socket = session.socket /\ c.shaken = session.shaken
      /\ c.reason = session.reason /\ c.maintain = session.maintain /\ c.idle = session.idle
  BY <1>1 DEF Session
<1>3. UNCHANGED <<ensure, reasonOf, borrowed>>
  BY DEF RetryFires
<1>4. CASE Connect(c)
  BY <1>1, <1>2, <1>3, <1>4, ConnectStep
<1>5. CASE NoNewSocket(c) /\ UNCHANGED <<sockets, displaced>>
  <2>1. session' = [c EXCEPT !.maintain = TRUE] /\ gaveUp' = TRUE
    BY <1>5 DEF NoNewSocket
  <2> HIDE DEF c
  <2>2. /\ session' \in Session /\ session'.socket = c.socket /\ session'.shaken = c.shaken
        /\ session'.reason = c.reason /\ session'.maintain
    BY <1>2, <2>1 DEF Session
  <2>3. SocketTypeOK' /\ HandInv' /\ LeftBehind'
    BY <1>2, <1>3, <1>5, <2>1, <2>2 DEF SocketInv, SocketTypeOK, HandInv, LeftBehind
  <2>4. TriesWhileWanted' /\ ReasonInv'
    BY <1>2, <1>3, <1>5, <2>1, <2>2 DEF SocketInv, TriesWhileWanted, ReasonInv
  <2> QED
    BY <2>3, <2>4 DEF SocketInv
<1> QED
  BY <1>4, <1>5 DEF RetryFires

-----------------------------------------------------------------------------
(* Events of a socket, the idle timer and close() *)

LEMMA OpensStep == ASSUME SocketInv, NEW i \in DOMAIN sockets, Opens(i) PROVE SocketInv'
<1>1. sockets \in Seq(Socket) /\ i \in 1 .. Len(sockets)
  BY DEF SocketInv, SocketTypeOK
<1> DEFINE o == (session.socket = i)
           h == IF session.socket = i THEN "building" ELSE "none"
           s == [sockets[i] EXCEPT !.ready = "open", !.opened = o, !.hand = h]
<1>2. s \in Socket /\ s.ready = "open"
  <2>1. o \in BOOLEAN /\ h \in Hands /\ "open" \in Readies
    BY DEF Hands, Readies
  <2>2. sockets[i] \in Socket
    BY <1>1, AtSocket
  <2> HIDE DEF o, h
  <2>3. \A x \in Socket : [x EXCEPT !.ready = "open", !.opened = o, !.hand = h] \in Socket
               /\ [x EXCEPT !.ready = "open", !.opened = o, !.hand = h].ready = "open"
    BY <2>1 DEF Socket, Hands
  <2> QED
    BY <2>2, <2>3
<1>3. sockets' = [sockets EXCEPT ![i] = s] /\ sockets[i].ready = "connecting"
      /\ UNCHANGED <<session, ensure, reasonOf, gaveUp, displaced, borrowed>>
  BY DEF Opens
<1> HIDE DEF s
<1>4. StaysOrMoves(i) /\ sockets'[i] = s
  BY <1>1, <1>2, <1>3, UpdateFacts
<1>5. sockets[i].hand = "none"
  BY <1>1, <1>3 DEF SocketInv, HandInv
<1>6. SocketTypeOK' /\ LeftBehind' /\ HandInv'
  BY <1>1, <1>2, <1>3, <1>4, <1>5 DEF SocketInv, SocketTypeOK, LeftBehind, HandInv, StaysOrMoves
<1>7. TriesWhileWanted'
  BY <1>3 DEF SocketInv, TriesWhileWanted
<1>8. ReasonInv'
  BY <1>1, <1>3, <1>4, ReasonMoves DEF SocketInv, HooksRun
<1> QED
  BY <1>6, <1>7, <1>8 DEF SocketInv

LEMMA HandshakeDoneStep == ASSUME SocketInv, NEW i \in DOMAIN sockets, HandshakeDone(i) PROVE SocketInv'
<1>1. /\ sockets \in Seq(Socket) /\ i \in 1 .. Len(sockets) /\ sockets[i] \in Socket
      /\ session \in Session /\ ensure \in [Requests -> Places]
  BY AtSocket DEF SocketInv, SocketTypeOK
<1> DEFINE h == IF sockets[i].ready = "open" THEN "sent" ELSE "lost"
           s == [sockets[i] EXCEPT !.hand = h]
           c == [session EXCEPT !.shaken = TRUE]
<1>2. s \in Socket /\ s.ready = sockets[i].ready /\ s.hand = h
  <2>1. h \in Hands
    BY DEF Hands
  <2> HIDE DEF h
  <2> QED
    BY <1>1, <2>1, WithHand
<1>3. /\ sockets' = [sockets EXCEPT ![i] = s] /\ sockets[i].hand = "building"
      /\ Settle("connected") /\ SyncIdle(c, sockets)
      /\ borrowed' = borrowed \cup ({session.socket} \ {i})
      /\ UNCHANGED <<reasonOf, gaveUp, displaced>>
  BY DEF HandshakeDone
<1>4. /\ c \in Session /\ c.socket = session.socket /\ c.maintain = session.maintain
      /\ c.reason = session.reason /\ c.retry = session.retry
  BY <1>1 DEF Session
<1>5. SameBut(c)
  BY <1>3, <1>4, SyncIdleFacts
<1> HIDE DEF s, c
<1>6. StaysOrMoves(i) /\ sockets'[i] = s
  BY <1>1, <1>2, <1>3, UpdateFacts
<1>7. ensure' \in [Requests -> Places] /\ (HooksRun => HooksRun')
  BY <1>1, <1>3, SettleFacts
<1>8. sockets[i].ready # "connecting" /\ sockets[i].ready \in {"connecting", "open", "closing", "closed"}
  BY <1>1, <1>3 DEF SocketInv, HandInv, Socket
<1>9. SocketTypeOK' /\ LeftBehind'
  BY <1>1, <1>2, <1>3, <1>4, <1>5, <1>6, <1>7
  DEF SocketInv, SocketTypeOK, LeftBehind, StaysOrMoves, SameBut
<1>10. HandInv'
  BY <1>1, <1>2, <1>3, <1>4, <1>5, <1>6, <1>8 DEF SocketInv, SocketTypeOK, HandInv, StaysOrMoves, SameBut
<1>11. TriesWhileWanted'
  BY <1>3, <1>4, <1>5, <1>7 DEF SocketInv, TriesWhileWanted, SameBut, HooksRun
<1>12. ReasonInv'
  BY <1>1, <1>2, <1>3, <1>4, <1>5, <1>6, <1>7, ReasonMoves DEF SocketInv, SameBut
<1> QED
  BY <1>9, <1>10, <1>11, <1>12 DEF SocketInv

LEMMA HandshakeThrowsStep ==
  ASSUME SocketInv, NEW i \in DOMAIN sockets, HandshakeThrows(i) PROVE SocketInv'
<1>1. /\ sockets \in Seq(Socket) /\ i \in 1 .. Len(sockets) /\ sockets[i] \in Socket
      /\ session \in Session /\ ensure \in [Requests -> Places]
  BY AtSocket DEF SocketInv, SocketTypeOK
<1>2. ensure' \in [Requests -> Places] /\ (HooksRun => HooksRun')
  BY <1>1, SettleFacts DEF HandshakeThrows
<1>3. sockets[i].hand = "building" /\ UNCHANGED <<displaced, borrowed>>
  BY DEF HandshakeThrows
<1>4. sockets[i].ready \in {"open", "closing", "closed"}
  BY <1>1, <1>3 DEF SocketInv, HandInv, Socket
<1>5. CASE session.socket = i
  <2> DEFINE x == IF sockets[i].ready = "open" THEN "closing" ELSE sockets[i].ready
             y == [sockets[i] EXCEPT !.hand = "failed"]
             s == [y EXCEPT !.ready = x]
  <2>1. s \in Socket /\ s.ready \in {"closing", "closed"}
    <3>1. x \in {"closing", "closed"} /\ x \in Readies /\ "failed" \in Hands
      BY <1>4 DEF Readies, Hands
    <3>2. y \in Socket
      BY <1>1, <3>1, WithHand
    <3> HIDE DEF x, y
    <3> QED
      BY <3>1, <3>2, WithReady
  <2>2. /\ session' = [session EXCEPT !.reason = "handshake-failed", !.socket = 0, !.shaken = FALSE]
        /\ reasonOf' = i /\ gaveUp' = TRUE
    BY <1>5 DEF HandshakeThrows
  <2>3. sockets' = [sockets EXCEPT ![i] = s]
    BY <1>1, <1>5 DEF HandshakeThrows, Socket
  <2> HIDE DEF s
  <2>4. StaysOrMoves(i) /\ sockets'[i] = s
    BY <1>1, <2>1, <2>3, UpdateFacts
  <2>5. /\ session' \in Session /\ session'.socket = 0
        /\ session'.maintain = session.maintain /\ session'.retry = session.retry
        /\ session'.idle = session.idle
    BY <1>1, <2>2 DEF Session
  <2>6. SocketTypeOK' /\ LeftBehind' /\ HandInv'
    BY <1>1, <1>2, <1>3, <1>5, <2>1, <2>2, <2>4, <2>5
    DEF SocketInv, SocketTypeOK, LeftBehind, HandInv, StaysOrMoves
  <2>7. TriesWhileWanted' /\ ReasonInv'
    BY <1>2, <2>2, <2>5 DEF SocketInv, TriesWhileWanted, ReasonInv
  <2> QED
    BY <2>6, <2>7 DEF SocketInv
<1>6. CASE session.socket # i
  <2> DEFINE s == [sockets[i] EXCEPT !.hand = "failed"]
  <2>1. s \in Socket /\ s.ready = sockets[i].ready
    BY <1>1, WithHand DEF Hands
  <2>2. sockets' = [sockets EXCEPT ![i] = s] /\ UNCHANGED <<session, reasonOf, gaveUp>>
    BY <1>6 DEF HandshakeThrows
  <2> HIDE DEF s
  <2>3. StaysOrMoves(i) /\ sockets'[i] = s
    BY <1>1, <2>1, <2>2, UpdateFacts
  <2>4. SocketTypeOK' /\ LeftBehind' /\ HandInv'
    BY <1>1, <1>2, <1>3, <1>4, <1>6, <2>1, <2>2, <2>3
    DEF SocketInv, SocketTypeOK, LeftBehind, HandInv, StaysOrMoves
  <2>5. TriesWhileWanted'
    BY <1>2, <2>2 DEF SocketInv, TriesWhileWanted, HooksRun
  <2>6. ReasonInv'
    BY <1>1, <1>2, <2>1, <2>2, <2>3, ReasonMoves DEF SocketInv
  <2> QED
    BY <2>4, <2>5, <2>6 DEF SocketInv
<1> QED
  BY <1>5, <1>6

LEMMA ErrorsStep == ASSUME SocketInv, NEW i \in DOMAIN sockets, Errors(i) PROVE SocketInv'
<1>1. /\ sockets \in Seq(Socket) /\ i \in 1 .. Len(sockets) /\ sockets[i] \in Socket
      /\ session \in Session /\ ensure \in [Requests -> Places] /\ Len(sockets) \in Nat
  BY AtSocket, LenProperties DEF SocketInv, SocketTypeOK
<1> DEFINE s == [sockets[i] EXCEPT !.ready = "closing"]
           failed == [sockets EXCEPT ![i] = s]
<1>2. s \in Socket /\ s.ready = "closing" /\ s.hand = sockets[i].hand
  BY <1>1, WithReady DEF Readies
<1> HIDE DEF s
<1>3. /\ failed \in Seq(Socket) /\ Len(failed) = Len(sockets) /\ failed[i] = s
      /\ \A j \in 1 .. Len(sockets) : j # i => failed[j] = sockets[j]
  BY <1>1, <1>2, ExceptSeq
<1>4. failed = [sockets EXCEPT ![i].ready = "closing"]
  BY DEF s
<1> HIDE DEF failed
<1>5. UNCHANGED <<reasonOf, displaced, borrowed>> /\ sockets[i].ready = "connecting"
  BY DEF Errors
\* Nobody is left with the socket, or the session keeps it until it has closed.
<1>6. ASSUME sockets' = failed, UNCHANGED <<session, gaveUp>>, ensure' \in [Requests -> Places],
             HooksRun => HooksRun'
      PROVE  SocketInv'
  <2>1. StaysOrMoves(i) /\ sockets'[i] = s
    BY <1>3, <1>6 DEF StaysOrMoves
  <2>2. SocketTypeOK'
    BY <1>1, <1>5, <1>6, <2>1 DEF SocketInv, SocketTypeOK, StaysOrMoves
  <2>5. LeftBehind'
    BY <1>1, <1>2, <1>5, <1>6, <2>1 DEF SocketInv, LeftBehind, StaysOrMoves
  <2>6. HandInv'
    <3>1. session.socket # 0 => session.socket \in 1 .. Len(sockets)
      BY SessionSocket DEF SocketInv
    <3> QED
      BY <1>2, <1>5, <1>6, <2>1, <3>1 DEF SocketInv, HandInv, StaysOrMoves
  <2>3. TriesWhileWanted'
    BY <1>6 DEF SocketInv, TriesWhileWanted, HooksRun
  <2>4. ReasonInv'
    BY <1>1, <1>2, <1>5, <1>6, <2>1, ReasonMoves DEF SocketInv
  <2> QED
    BY <2>2, <2>3, <2>4, <2>5, <2>6 DEF SocketInv
\* The next endpoint is tried at once ...
<1>7. ASSUME session.socket = i, sockets' = Append(failed, NewSocket),
             session' = TakesSocket(session), gaveUp' = FALSE, UNCHANGED ensure
      PROVE  SocketInv'
  <2> DEFINE n == Len(sockets) + 1
  <2>1. /\ sockets' \in Seq(Socket) /\ Len(sockets') = n /\ n \in Nat \ {0} /\ reasonOf < n
        /\ \A j \in 1 .. Len(sockets) : sockets'[j] = failed[j]
        /\ sockets'[n] = NewSocket
    <3>1. reasonOf < n /\ n \in Nat \ {0}
      BY <1>1 DEF SocketInv, SocketTypeOK
    <3>2. /\ Append(failed, NewSocket) \in Seq(Socket)
          /\ Len(Append(failed, NewSocket)) = Len(failed) + 1
          /\ \A j \in 1 .. Len(failed) : Append(failed, NewSocket)[j] = failed[j]
          /\ Append(failed, NewSocket)[Len(failed) + 1] = NewSocket
      BY <1>3, NewSocketFacts, AppendProperties
    <3> QED
      BY <1>3, <1>7, <3>1, <3>2
  <2>2. /\ session' \in Session /\ session'.socket = n /\ session'.maintain /\ ~session'.shaken
    BY <1>1, <1>7, TakesFacts
  <2>3. \A j \in 1 .. n : j # n => j \in 1 .. Len(sockets)
    BY <1>1
  <2>4. SocketTypeOK'
    <3>1. reasonOf' \in 0 .. Len(sockets') /\ session'.socket <= Len(sockets')
      BY <1>5, <2>1, <2>2 DEF SocketInv, SocketTypeOK
    <3> QED
      BY <1>1, <1>7, <2>1, <2>2, <3>1 DEF SocketTypeOK
  <2>5. LeftBehind'
    BY <1>2, <1>3, <1>5, <1>7, <2>1, <2>2, <2>3 DEF SocketInv, LeftBehind
  <2>6. HandInv'
    BY <1>2, <1>3, <1>5, <2>1, <2>2, <2>3, NewSocketFacts DEF SocketInv, HandInv
  <2>7. TriesWhileWanted' /\ ReasonInv'
    <3>1. session'.socket # 0 /\ reasonOf' # session'.socket
      BY <1>5, <2>1, <2>2
    <3> QED
      BY <2>2, <3>1 DEF TriesWhileWanted, ReasonInv
  <2> QED
    BY <2>4, <2>5, <2>6, <2>7 DEF SocketInv
\* ... unless there is no socket to be had.
<1>8. ASSUME session.socket = i, sockets' = failed, UNCHANGED ensure,
             NoNewSocket([session EXCEPT !.socket = 0, !.shaken = FALSE])
      PROVE  SocketInv'
  <2>1. /\ session' = [session EXCEPT !.socket = 0, !.shaken = FALSE, !.maintain = TRUE]
        /\ gaveUp' = TRUE
    BY <1>8 DEF NoNewSocket
  <2>2. session' \in Session /\ session'.socket = 0 /\ session'.maintain
    BY <1>1, <2>1 DEF Session
  <2>3. StaysOrMoves(i) /\ sockets'[i] = s
    BY <1>3, <1>8 DEF StaysOrMoves
  <2>4. SocketTypeOK' /\ LeftBehind' /\ HandInv'
    BY <1>1, <1>2, <1>5, <1>8, <2>1, <2>2, <2>3
    DEF SocketInv, SocketTypeOK, LeftBehind, HandInv, StaysOrMoves
  <2>5. TriesWhileWanted' /\ ReasonInv'
    BY <2>1, <2>2 DEF TriesWhileWanted, ReasonInv
  <2> QED
    BY <2>4, <2>5 DEF SocketInv
<1> QED
  <2>1. CASE session.socket # i
    BY <1>1, <1>4, <1>6, <2>1 DEF Errors, HooksRun
  <2>2. CASE session.socket = i /\ session.maintain /\ session.fallback
    BY <1>4, <1>7, <1>8, <2>2 DEF Errors
  <2>3. CASE session.socket = i /\ ~(session.maintain /\ session.fallback)
    BY <1>1, <1>4, <1>6, <2>3, SettleFacts DEF Errors
  <2> QED
    BY <2>1, <2>2, <2>3

LEMMA ClosedStep == ASSUME SocketInv, NEW i \in DOMAIN sockets, Closed(i) PROVE SocketInv'
<1>1. /\ sockets \in Seq(Socket) /\ i \in 1 .. Len(sockets) /\ sockets[i] \in Socket
      /\ session \in Session /\ ensure \in [Requests -> Places]
  BY AtSocket DEF SocketInv, SocketTypeOK
<1> DEFINE s == [sockets[i] EXCEPT !.ready = "closed"]
<1>2. s \in Socket /\ s.ready = "closed" /\ s.hand = sockets[i].hand
  BY <1>1, WithReady DEF Readies
<1>3. sockets' = [sockets EXCEPT ![i] = s] /\ UNCHANGED <<reasonOf, displaced, borrowed>>
  BY DEF Closed
<1> HIDE DEF s
<1>4. StaysOrMoves(i) /\ sockets'[i] = s
  BY <1>1, <1>2, <1>3, UpdateFacts
<1>5. ensure' \in [Requests -> Places] /\ (HooksRun => HooksRun')
  BY <1>1, SettleFacts DEF Closed, HooksRun
<1>6. CASE session.socket # i
  <2>1. UNCHANGED <<session, ensure, gaveUp>>
    BY <1>6 DEF Closed
  <2>2. SocketTypeOK' /\ LeftBehind' /\ HandInv'
    BY <1>1, <1>2, <1>3, <1>4, <2>1 DEF SocketInv, SocketTypeOK, LeftBehind, HandInv, StaysOrMoves
  <2>3. TriesWhileWanted'
    BY <2>1 DEF SocketInv, TriesWhileWanted
  <2>4. ReasonInv'
    BY <1>1, <1>2, <1>3, <1>4, <1>5, <2>1, ReasonMoves DEF SocketInv
  <2> QED
    BY <2>2, <2>3, <2>4 DEF SocketInv
<1>7. CASE session.socket = i
  <2>1. /\ session' = [session EXCEPT !.socket = 0, !.shaken = FALSE, !.idle = FALSE,
                                      !.reason = "", !.retry = session.retry \/ Reconnects(i)]
        /\ gaveUp' = (gaveUp \/ (session.reason # "" /\ reasonOf # i))
    BY <1>1, <1>7 DEF Closed, Session
  <2> DEFINE again == session.retry \/ Reconnects(i)
  <2>2. again \in BOOLEAN
    BY <1>1 DEF Session
  <2> HIDE DEF again
  <2>3. /\ session' \in Session /\ session'.socket = 0 /\ ~session'.idle
        /\ session'.maintain = session.maintain /\ session'.retry = again
    BY <1>1, <2>1, <2>2 DEF Session, again
  <2>4. SocketTypeOK'
    <3>1. gaveUp' \in BOOLEAN
      BY <2>1 DEF SocketInv, SocketTypeOK
    <3> QED
      BY <1>1, <1>3, <1>4, <1>5, <2>3, <3>1 DEF SocketInv, SocketTypeOK, StaysOrMoves
  <2>9. LeftBehind' /\ HandInv'
    BY <1>1, <1>2, <1>3, <1>4, <1>7, <2>3 DEF SocketInv, SocketTypeOK, LeftBehind, HandInv, StaysOrMoves
  <2>5. session.maintain => again \/ gaveUp' \/ HooksRun
    <3>1. session.socket # 0
      BY <1>1, <1>7
    <3>2. CASE session.reason = ""
      BY <3>2, Zenon DEF again, Reconnects
    <3>3. CASE session.reason # "" /\ reasonOf # i
      BY <2>1, <3>3, Zenon
    <3>4. CASE session.reason # "" /\ reasonOf = i
      BY <1>7, <2>1, <3>1, <3>4, Zenon DEF SocketInv, ReasonInv
    <3> QED
      BY <3>2, <3>3, <3>4
  <2>6. ~session.maintain => ~again
    BY Zenon DEF SocketInv, TriesWhileWanted, again, Reconnects
  <2>7. TriesWhileWanted'
    BY <1>5, <2>3, <2>5, <2>6 DEF TriesWhileWanted, HooksRun
  <2>8. ReasonInv'
    BY <2>3 DEF ReasonInv
  <2> QED
    BY <2>4, <2>7, <2>8, <2>9 DEF SocketInv
<1> QED
  BY <1>6, <1>7

LEMMA IdleFiresStep == ASSUME SocketInv, IdleFires PROVE SocketInv'
<1>1. session \in Session /\ sockets \in Seq(Socket)
  BY DEF SocketInv, SocketTypeOK
<1>2. /\ session' = [session EXCEPT !.reason = "idle-timeout", !.maintain = FALSE,
                                    !.retry = FALSE, !.idle = FALSE]
      /\ reasonOf' = session.socket /\ CloseSocket(session.socket)
      /\ UNCHANGED <<ensure, gaveUp, displaced, borrowed>>
  BY DEF IdleFires
<1>3. /\ session' \in Session /\ session'.socket = session.socket
      /\ session'.shaken = session.shaken
      /\ ~session'.maintain /\ ~session'.retry /\ ~session'.idle
  BY <1>1, <1>2 DEF Session
<1>4. Closes(session.socket)
  BY <1>1, <1>2, ClosesFacts
<1>5. session.socket # 0 => session.socket \in 1 .. Len(sockets)
  BY SessionSocket DEF SocketInv
<1>6. SocketTypeOK'
  <2>1. session'.socket <= Len(sockets') /\ reasonOf' \in 0 .. Len(sockets')
    <3>1. Len(sockets') = Len(sockets) /\ Len(sockets) \in Nat
      BY <1>1, <1>4, LenProperties DEF Closes
    <3>2. session.socket \in 0 .. Len(sockets)
      BY <3>1, SessionSocket DEF SocketInv
    <3> QED
      BY <1>2, <1>3, <3>1, <3>2
  <2> QED
    BY <1>2, <1>3, <1>4, <2>1 DEF SocketInv, SocketTypeOK, Closes
<1>7. LeftBehind'
  BY <1>2, <1>3, <1>4 DEF SocketInv, LeftBehind, Closes
<1>8. HandInv'
  BY <1>2, <1>3, <1>4, <1>5 DEF SocketInv, HandInv, Closes
<1>9. TriesWhileWanted'
  BY <1>3 DEF TriesWhileWanted
<1>10. ReasonInv'
  BY <1>3, <1>4, <1>5 DEF ReasonInv, Closes
<1> QED
  BY <1>6, <1>7, <1>8, <1>9, <1>10 DEF SocketInv

LEMMA CloseSessionStep == ASSUME SocketInv, CloseSession PROVE SocketInv'
<1>1. session \in Session /\ sockets \in Seq(Socket) /\ ensure \in [Requests -> Places]
  BY DEF SocketInv, SocketTypeOK
<1>2. session' = LetGo /\ reasonOf' = session.socket /\ CloseSocket(session.socket)
      /\ Settle("failed") /\ UNCHANGED <<gaveUp, displaced, borrowed>>
  BY DEF CloseSession
<1>3. session' \in Session /\ session'.socket = 0 /\ ~session'.maintain
      /\ ~session'.retry /\ ~session'.idle
  BY <1>1, <1>2 DEF Session, LetGo
<1>4. Closes(session.socket)
  BY <1>1, <1>2, ClosesFacts
<1>5. ensure' \in [Requests -> Places]
  BY <1>1, <1>2, SettleFacts
<1>6. SocketTypeOK'
  <2>1. session'.socket <= Len(sockets') /\ reasonOf' \in 0 .. Len(sockets')
    <3>1. Len(sockets') = Len(sockets) /\ Len(sockets) \in Nat
      BY <1>1, <1>4, LenProperties DEF Closes
    <3>2. session.socket \in 0 .. Len(sockets)
      BY <3>1, SessionSocket DEF SocketInv
    <3> QED
      BY <1>2, <1>3, <3>1, <3>2
  <2> QED
    BY <1>2, <1>3, <1>4, <1>5, <2>1 DEF SocketInv, SocketTypeOK, Closes
<1>7. LeftBehind'
  BY <1>2, <1>3, <1>4 DEF SocketInv, LeftBehind, Closes
<1>8. HandInv'
  BY <1>2, <1>3, <1>4 DEF SocketInv, HandInv, Closes
<1>9. TriesWhileWanted' /\ ReasonInv'
  BY <1>3 DEF TriesWhileWanted, ReasonInv
<1> QED
  BY <1>6, <1>7, <1>8, <1>9 DEF SocketInv

-----------------------------------------------------------------------------
(* The theorems *)

LEMMA SocketStep == SocketInv /\ [SocketNext]_socketVars => SocketInv'
<1> SUFFICES ASSUME SocketInv, [SocketNext]_socketVars PROVE SocketInv'
  OBVIOUS
<1>1. CASE UNCHANGED socketVars
  BY <1>1 DEF socketVars, SocketInv, SocketTypeOK, TriesWhileWanted, ReasonInv, HandInv, LeftBehind, HooksRun
<1>2. ASSUME NEW r \in Requests,
             EnsureConnected(r) \/ BeforeConnectThrows(r) \/ BeforeConnectDone(r)
               \/ CreateThrows(r) \/ WaitTimesOut(r)
      PROVE  SocketInv'
  BY <1>2, EnsureStep, FailStep, BeforeDoneStep
<1>3. ASSUME NEW i \in DOMAIN sockets,
             Opens(i) \/ HandshakeDone(i) \/ HandshakeThrows(i) \/ Errors(i) \/ Closed(i)
      PROVE  SocketInv'
  BY <1>3, OpensStep, HandshakeDoneStep, HandshakeThrowsStep, ErrorsStep, ClosedStep
<1>4. CASE RetryFires \/ Traffic \/ IdleFires \/ CloseSession
  BY <1>4, RetryStep, TrafficStep, IdleFiresStep, CloseSessionStep
<1> QED
  BY <1>1, <1>2, <1>3, <1>4 DEF SocketNext

THEOREM SocketInvariant == SocketSpec => []SocketInv
BY SocketInitInv, SocketStep, PTL DEF SocketSpec

\* While a connection is wanted the session tries for one, unless an attempt ended in a
\* way that nothing retries; while none is wanted no timer is armed.
THEOREM TriesTheorem == SocketSpec => []TriesWhileWanted
<1>1. SocketInv => TriesWhileWanted
  BY DEF SocketInv
<1> QED
  BY <1>1, SocketInvariant, PTL

\* Messages follow the handshake of their own socket and no socket is left behind alive,
\* with the exceptions the property names.
THEOREM ShakenTheorem == SocketSpec => []OneShakenSocket
<1>1. ASSUME SocketInv PROVE OneShakenSocket
  <2>1. SessionOpen(session, sockets) =>
          sockets[session.socket].hand = "sent" \/ session.socket \in borrowed
    BY <1>1 DEF SocketInv, HandInv, SessionOpen, Ready
  <2>2. DOMAIN sockets = 1 .. Len(sockets)
    BY <1>1, LenProperties DEF SocketInv, SocketTypeOK
  <2> QED
    BY <1>1, <2>1, <2>2 DEF SocketInv, LeftBehind, OneShakenSocket
<1> QED
  BY <1>1, SocketInvariant, PTL

-----------------------------------------------------------------------------
(* The control of runs *)

\* A run is in one queue, once, and has no worker yet.
Idle(r, s) == Home[r] = s /\ status[r] # "none" /\ assigned[r] = {}
Distinct(q) == \A i, j \in 1..Len(q) : q[i] = q[j] => i = j
QueueInv ==
  \A s \in Workspaces :
    Distinct(runQueue[s]) /\ \A i \in 1..Len(runQueue[s]) : Idle(runQueue[s][i], s)

\* What a worker has to do with a run it does because the run is its own, and it has
\* not sent the query of a run it is still to dispatch.
AssignInv ==
  /\ \A r \in Runs : /\ sends[r] <= 1
                     /\ assigned[r] = {} => sends[r] = 0
                     /\ status[r] = "none" => assigned[r] = {}
  /\ \A w \in Workers :
       /\ \A r \in tick[w].run \cup tick[w].post \cup mapped[w] : assigned[r] = {w}
       /\ tick[w].at \in {"answered", "posting", "sending"} =>
            \A r \in tick[w].run : sends[r] = 0
  /\ \A r \in Runs : relay[r] # "none" => assigned[r] # {}

\* A stopped run that a worker executes, or is about to, has its command on the way.
StopSafe(w) ==
  /\ tick[w].at \notin {"answered", "posting"} => tick[w].stop = {}
  /\ \A r \in mapped[w] :
       status[r] = "stopped" => r \in stopPending \cup tick[w].stop \cup halted \cup lost
  /\ tick[w].at \in {"answered", "posting"} =>
       \A r \in tick[w].run : status[r] = "stopped" => r \in stopPending
StopInv == \A w \in Workers : StopSafe(w)

IInv == RunTypeOK /\ QueueInv /\ AssignInv /\ StopInv

USE DEF Terminal, Active, Waiting

-----------------------------------------------------------------------------
(* Assignment *)

\* No run in a queue is reserved, so a heartbeat drops what it pops before the run it
\* takes, and the rest of the queue moves up.
LEMMA AssignFacts ==
  ASSUME RunTypeOK, QueueInv, NEW w \in Workers, NEW n \in 1 .. Len(runQueue[Home[w]]) + 1,
         IsFirst(n, w), Assign(n, w)
  PROVE  /\ Taken(n, w) \subseteq Runs
         /\ \A r \in Taken(n, w) :
              /\ n <= Len(runQueue[Home[w]]) /\ r = runQueue[Home[w]][n]
              /\ status[r] \in Waiting /\ assigned[r] = {}
         /\ runQueue' = [runQueue EXCEPT ![Home[w]] = SubSeq(@, n + 1, Len(@))]
         /\ SubSeq(runQueue[Home[w]], n + 1, Len(runQueue[Home[w]])) \in Seq(Runs)
         /\ skipped' \subseteq Runs
<1> DEFINE q == runQueue[Home[w]]
<1>1. Home[w] \in Workspaces /\ q \in Seq(Runs)
  BY RunsAssumption DEF RunTypeOK
<1>2. /\ Len(q) \in Nat /\ DOMAIN q = 1..Len(q)
      /\ \A i \in 1..Len(q) : q[i] \in Runs
  BY <1>1
<1>3. /\ Popped(n, w) \in Seq(Runs)
      /\ Len(Popped(n, w)) = n - 1
      /\ \A i \in 1 .. n - 1 : Popped(n, w)[i] = q[i]
  BY <1>1, <1>2 DEF Popped
<1>4. \A i \in DOMAIN Popped(n, w) : i \in 1 .. n - 1 /\ Popped(n, w)[i] \in Runs
  BY <1>3
<1>5. \A i \in DOMAIN Popped(n, w) : ~ Reserved(Popped(n, w)[i], w)
  <2>1. \A i \in 1..Len(q) : assigned[q[i]] = {}
    BY <1>1 DEF QueueInv, Idle
  <2> QED
    BY <1>2, <1>3, <1>4, <2>1 DEF Reserved
<1>6. BackToFront(n, w) = <<>>
  BY <1>5 DEF BackToFront
<1>7. SubSeq(q, n + 1, Len(q)) \in Seq(Runs)
  BY <1>1, <1>2
<1>8. BackToFront(n, w) \o SubSeq(q, n + 1, Len(q)) = SubSeq(q, n + 1, Len(q))
  BY <1>6, <1>7, ConcatEmptySeq
<1>9. runQueue' = [runQueue EXCEPT ![Home[w]] = SubSeq(@, n + 1, Len(@))]
  BY <1>8 DEF Assign
<1>10. /\ Taken(n, w) \subseteq Runs
       /\ \A r \in Taken(n, w) : n <= Len(q) /\ r = q[n]
  BY <1>2 DEF Taken
<1>11. \A r \in Taken(n, w) : status[r] \in Waiting /\ assigned[r] = {}
  <2>1. n <= Len(q) => status[q[n]] \in Waiting
    BY DEF IsFirst, Eligible
  <2>2. \A i \in 1..Len(q) : assigned[q[i]] = {}
    BY <1>1 DEF QueueInv, Idle
  <2>3. ASSUME NEW r \in Taken(n, w) PROVE n \in 1..Len(q) /\ r = q[n]
    BY <1>2, <1>10
  <2> QED
    BY <2>1, <2>2, <2>3
<1>12. skipped' \subseteq Runs
  BY <1>4 DEF Assign, RunTypeOK
<1> QED
  BY <1>7, <1>9, <1>10, <1>11, <1>12


-----------------------------------------------------------------------------
(* The invariant *)

THEOREM RunInitInv == RunInit => IInv
<1> SUFFICES ASSUME RunInit PROVE IInv
  OBVIOUS
<1>1. [NoTick EXCEPT !.at = "off"] = [at |-> "off", run |-> {}, stop |-> {}, post |-> {}]
  BY DEF NoTick
<1>2. RunTypeOK
  BY <1>1, RunsAssumption DEF RunInit, RunTypeOK, Ticks
<1>3. QueueInv
  BY DEF RunInit, QueueInv, Distinct
<1>4. AssignInv /\ StopInv
  BY <1>1 DEF RunInit, AssignInv, StopInv, StopSafe
<1> QED
  BY <1>2, <1>3, <1>4 DEF IInv



Statuses == {"none"} \cup Active \cup Terminal

LEMMA StatusType ==
  ASSUME status \in [Runs -> Statuses], revived \subseteq Runs,
         NEW f \in [Runs -> Statuses], Becomes(f)
  PROVE  status' \in [Runs -> Statuses] /\ revived' \subseteq Runs
BY DEF Becomes

LEMMA IngestType ==
  ASSUME status \in [Runs -> Statuses], revived \subseteq Runs, NEW r \in Runs,
         NEW ends \in BOOLEAN, Ingest(r, ends)
  PROVE  status' \in [Runs -> Statuses] /\ revived' \subseteq Runs
BY DEF Ingest, SetStatus, Becomes, Statuses

\* What a tick becomes.
LEMMA TickType ==
  ASSUME NEW t \in Ticks, NEW R \in SUBSET Runs, NEW T \in SUBSET Runs
  PROVE  /\ NoTick \in Ticks /\ [NoTick EXCEPT !.at = "off"] \in Ticks
         /\ [NoTick EXCEPT !.at = "asked"] \in Ticks
         /\ [at |-> "answered", run |-> R, stop |-> T, post |-> {}] \in Ticks
         /\ \A a \in {"sending", "acking", "erring"} : [t EXCEPT !.at = a] \in Ticks
         /\ [t EXCEPT !.at = "answered", !.post = {}] \in Ticks
         /\ \A a \in {"posting", "answered"} :
              [t EXCEPT !.stop = R, !.post = T, !.at = a] \in Ticks
BY DEF Ticks, NoTick

LEMMA TypeStep ==
  ASSUME RunTypeOK, QueueInv, [RunNext]_runVars
  PROVE  RunTypeOK'
<1> USE RunsAssumption
<1> DEFINE Service == /\ assigned' \in [Runs -> SUBSET Workers]
                      /\ runQueue' \in [Workspaces -> Seq(Runs)]
                      /\ stopPending' \subseteq Runs /\ skipped' \subseteq Runs
                      /\ controls' \in 0..MaxControls
           Worker == /\ tick' \in [Workers -> Ticks]
                     /\ mapped' \in [Workers -> SUBSET Runs]
                     /\ live' \subseteq Runs /\ relay' \in [Runs -> {"none", "sent", "answered"}]
                     /\ sends' \in [Runs -> Nat] /\ halted' \subseteq Runs
           Fault == faults' \in 0..MaxFaults /\ lost' \subseteq Runs
           Status == status' \in [Runs -> Statuses] /\ revived' \subseteq Runs
<1>a. Service /\ Worker /\ Fault /\ Status => RunTypeOK'
  BY DEF RunTypeOK, Statuses
<1>b. UNCHANGED <<status, revived>> => Status
  BY DEF RunTypeOK, Statuses
<1>c. UNCHANGED <<serviceVars, skipped>> => Service
  BY DEF RunTypeOK, serviceVars
<1>d. UNCHANGED workerVars => Worker
  BY DEF RunTypeOK, workerVars
<1>e. UNCHANGED faultVars => Fault
  BY DEF RunTypeOK, faultVars
<1>f. ASSUME NEW f \in [Runs -> Statuses], Becomes(f) PROVE Status
  BY <1>f, StatusType DEF RunTypeOK, Statuses
<1>g. ASSUME NEW r \in Runs, NEW v \in Statuses, SetStatus(r, v) PROVE Status
  <2>1. [status EXCEPT ![r] = v] \in [Runs -> Statuses]
    BY DEF RunTypeOK, Statuses
  <2> QED
    BY <1>f, <1>g, <2>1 DEF SetStatus
<1>h. ASSUME NEW r \in Runs, NEW ends \in BOOLEAN, Ingest(r, ends) PROVE Status
  BY <1>h, IngestType DEF RunTypeOK, Statuses
<1>i. faults < MaxFaults /\ faults' = faults + 1 => faults' \in 0..MaxFaults
  BY DEF RunTypeOK
<1>j. Control => controls' \in 0..MaxControls
  BY DEF RunTypeOK, Control
<1>k. ASSUME NEW w \in Workers, NEW t \in Ticks PROVE [tick EXCEPT ![w] = t] \in [Workers -> Ticks]
  BY DEF RunTypeOK
<1>1. ASSUME NEW r \in Runs, CreateRun(r) PROVE RunTypeOK'
  <2>1. Service
    BY <1>1, AppendProperties DEF CreateRun, RunTypeOK
  <2> QED
    BY <1>1, <2>1, <1>a, <1>d, <1>e, <1>g DEF CreateRun, Statuses
<1>2. ASSUME NEW r \in Runs, PauseRun(r) \/ ResumeRun(r) PROVE RunTypeOK'
  <2>1. Service
    BY <1>2, <1>j DEF PauseRun, ResumeRun, RunTypeOK
  <2> QED
    BY <1>2, <2>1, <1>a, <1>d, <1>e, <1>g DEF PauseRun, ResumeRun, Statuses
<1>3. ASSUME NEW runs \in SUBSET Runs, StopRuns(runs) PROVE RunTypeOK'
  <2>1. Service
    BY <1>3, <1>j DEF StopRuns, RunTypeOK
  <2>2. [r \in Runs |-> IF r \in runs THEN "stopped" ELSE status[r]] \in [Runs -> Statuses]
    BY DEF RunTypeOK, Statuses
  <2> QED
    BY <1>3, <2>1, <2>2, <1>a, <1>d, <1>e, <1>f DEF StopRuns
<1>4. ASSUME NEW w \in Workers, StartWorker(w) \/ Poll(w) PROVE RunTypeOK'
  <2>1. Worker
    BY <1>4, <1>k, TickType DEF StartWorker, Poll, Polls, RunTypeOK
  <2> QED
    BY <1>4, <2>1, <1>a, <1>b, <1>c, <1>e DEF StartWorker, Poll, Polls
<1>5. ASSUME NEW w \in Workers, NEW n \in 1 .. Len(runQueue[Home[w]]) + 1, Heartbeat(w, n)
      PROVE  RunTypeOK'
  <2>1. /\ Taken(n, w) \subseteq Runs /\ skipped' \subseteq Runs
        /\ runQueue' = [runQueue EXCEPT ![Home[w]] = SubSeq(@, n + 1, Len(@))]
        /\ SubSeq(runQueue[Home[w]], n + 1, Len(runQueue[Home[w]])) \in Seq(Runs)
    BY <1>5, AssignFacts DEF Heartbeat
  <2>2. Commands(w) \subseteq Runs
    BY DEF Commands, RunTypeOK
  <2>3. Service
    <3>1. assigned' \in [Runs -> SUBSET Workers]
      BY <1>5 DEF Heartbeat, Assign, Bind, RunTypeOK
    <3>2. runQueue' \in [Workspaces -> Seq(Runs)]
      BY <2>1 DEF RunTypeOK
    <3> QED
      BY <1>5, <2>1, <3>1, <3>2 DEF Heartbeat, RunTypeOK
  <2>4. Status
    <3>1. [r \in Runs |-> IF r \in Taken(n, w) THEN "queued" ELSE status[r]] \in [Runs -> Statuses]
      BY DEF RunTypeOK, Statuses
    <3> QED
      BY <1>5, <1>f, <3>1 DEF Heartbeat, Assign, Bind
  <2>5. Worker
    <3>1. tick' \in [Workers -> Ticks]
      <4>1. [at |-> "answered", run |-> Taken(n, w), stop |-> Commands(w), post |-> {}] \in Ticks
        BY <2>1, <2>2 DEF Ticks
      <4>2. \/ tick' = [tick EXCEPT ![w] = [at |-> "answered", run |-> Taken(n, w),
                                            stop |-> Commands(w), post |-> {}]]
            \/ tick' = [tick EXCEPT ![w] = NoTick]
        BY <1>5 DEF Heartbeat
      <4>3. NoTick \in Ticks
        BY DEF NoTick, Ticks
      <4> QED
        BY <4>1, <4>2, <4>3, <1>k
    <3> QED
      BY <1>5, <3>1 DEF Heartbeat, RunTypeOK
  <2>6. Fault
    BY <1>5, <2>1, <2>2, <1>e, <1>i DEF Heartbeat, RunTypeOK
  <2> QED
    BY <1>a, <2>3, <2>4, <2>5, <2>6
<1>6. ASSUME NEW w \in Workers, ApplyStop(w) \/ Dispatch(w) \/ Sent(w) \/ NotSent(w)
      PROVE  RunTypeOK'
  <2>0. tick[w] \in Ticks /\ tick[w].run \subseteq Runs /\ tick[w].stop \subseteq Runs
    BY DEF RunTypeOK, Ticks
  <2>1. ASSUME ApplyStop(w) PROVE Worker
    <3>1. PICK r \in tick[w].stop :
            /\ tick' = [tick EXCEPT ![w] =
                     [@ EXCEPT !.stop = tick[w].stop \ {r}, !.post = {r} \cap mapped[w],
                               !.at = IF r \in mapped[w] THEN "posting" ELSE "answered"]]
            /\ halted' = halted \cup ({r} \cap mapped[w])
      BY <2>1 DEF ApplyStop
    <3>2. [tick[w] EXCEPT !.stop = tick[w].stop \ {r}, !.post = {r} \cap mapped[w],
                          !.at = IF r \in mapped[w] THEN "posting" ELSE "answered"] \in Ticks
      <4>1. tick[w].stop \ {r} \in SUBSET Runs /\ {r} \cap mapped[w] \in SUBSET Runs
        BY <2>0
      <4> QED
        BY <2>0, <4>1, TickType
    <3>3. tick' \in [Workers -> Ticks]
      <4> DEFINE t == [tick[w] EXCEPT !.stop = tick[w].stop \ {r}, !.post = {r} \cap mapped[w],
                          !.at = IF r \in mapped[w] THEN "posting" ELSE "answered"]
      <4>1. t \in Ticks
        BY <3>2
      <4>2. tick' = [tick EXCEPT ![w] = t]
        BY <3>1
      <4> HIDE DEF t
      <4> QED
        BY <4>1, <4>2, <1>k
    <3> QED
      BY <2>0, <2>1, <3>1, <3>3 DEF ApplyStop, RunTypeOK
  <2>2. ASSUME Dispatch(w) \/ Sent(w) \/ NotSent(w) PROVE Worker
    <3>1. tick' \in [Workers -> Ticks]
      <4>1. \/ tick' = [tick EXCEPT ![w] = NoTick]
            \/ \E a \in {"sending", "acking", "erring"} :
                 tick' = [tick EXCEPT ![w] = [tick[w] EXCEPT !.at = a]]
        <5>1. ASSUME Dispatch(w)
              PROVE  \/ tick' = [tick EXCEPT ![w] = NoTick]
                     \/ tick' = [tick EXCEPT ![w] = [tick[w] EXCEPT !.at = "sending"]]
          BY <5>1 DEF Dispatch
        <5>2. ASSUME Sent(w)
              PROVE  tick' = [tick EXCEPT ![w] = [tick[w] EXCEPT !.at = "acking"]]
          BY <5>2, Zenon DEF Sent
        <5>3. ASSUME NotSent(w)
              PROVE  \/ tick' = [tick EXCEPT ![w] = NoTick]
                     \/ tick' = [tick EXCEPT ![w] = [tick[w] EXCEPT !.at = "erring"]]
          BY <5>3 DEF NotSent
        <5> QED
          BY <2>2, <5>1, <5>2, <5>3
      <4>2. NoTick \in Ticks /\ \A a \in {"sending", "acking", "erring"} :
              [tick[w] EXCEPT !.at = a] \in Ticks
        BY <2>0, TickType
      <4> QED
        BY <4>1, <4>2, <1>k
    <3> QED
      <4>1. CASE Dispatch(w)
        <5>1. mapped' \in [Workers -> SUBSET Runs]
          <6>1. CASE UNCHANGED mapped
            BY <6>1 DEF RunTypeOK
          <6>2. CASE \E r \in tick[w].run : mapped' = [mapped EXCEPT ![w] = @ \cup {r}]
            BY <2>0, <6>2 DEF RunTypeOK
          <6> QED
            BY <4>1, <6>1, <6>2 DEF Dispatch
        <5> QED
          BY <3>1, <4>1, <5>1 DEF Dispatch, RunTypeOK
      <4>3. CASE NotSent(w)
        BY <3>1, <4>3 DEF NotSent, RunTypeOK
      <4>2. CASE Sent(w)
        <5>1. PICK r \in tick[w].run : sends' = [sends EXCEPT ![r] = @ + 1] /\ live' = live \cup {r}
          BY <4>2, Zenon DEF Sent
        <5>2. sends' \in [Runs -> Nat] /\ live' \subseteq Runs
          BY <2>0, <5>1 DEF RunTypeOK
        <5> QED
          BY <3>1, <4>2, <5>2 DEF Sent, RunTypeOK
      <4> QED
        BY <2>2, <4>1, <4>2, <4>3
  <2>3. Fault
    BY <1>6, <2>0, <1>e DEF ApplyStop, Dispatch, Sent, NotSent, faultVars, RunTypeOK
  <2> QED
    BY <1>6, <2>1, <2>2, <2>3, <1>a, <1>b, <1>c DEF ApplyStop, Dispatch, Sent, NotSent, TickRest
<1>7. ASSUME NEW w \in Workers, Posted(w) \/ Acknowledge(w) \/ ErrorPosted(w) \/ RequestLost(w)
      PROVE  RunTypeOK'
  <2>0. tick[w] \in Ticks /\ tick[w].run \subseteq Runs /\ tick[w].stop \subseteq Runs
        /\ tick[w].post \subseteq Runs
    BY DEF RunTypeOK, Ticks
  <2>1. Status
    BY <1>7, <2>0, <1>b, <1>g, <1>h DEF Posted, Acknowledge, ErrorPosted, RequestLost, Statuses
  <2>2. Worker
    <3>1. tick' \in [Workers -> Ticks]
      <4>1. \/ tick' = [tick EXCEPT ![w] = NoTick]
            \/ tick' = [tick EXCEPT ![w] = [tick[w] EXCEPT !.at = "answered", !.post = {}]]
        <5>1. ASSUME Posted(w)
              PROVE  \/ tick' = [tick EXCEPT ![w] = NoTick]
                     \/ tick' = [tick EXCEPT ![w] = [tick[w] EXCEPT !.at = "answered", !.post = {}]]
          BY <5>1 DEF Posted
        <5>2. ASSUME Acknowledge(w) \/ ErrorPosted(w) \/ RequestLost(w)
              PROVE  tick' = [tick EXCEPT ![w] = NoTick]
          BY <5>2 DEF Acknowledge, ErrorPosted, RequestLost
        <5> QED
          BY <1>7, <5>1, <5>2
      <4>2. NoTick \in Ticks /\ [tick[w] EXCEPT !.at = "answered", !.post = {}] \in Ticks
        BY <2>0, TickType
      <4> QED
        BY <4>1, <4>2, <1>k
    <3> QED
      BY <1>7, <3>1 DEF Posted, Acknowledge, ErrorPosted, RequestLost, RunTypeOK
  <2>3. Fault
    BY <1>7, <2>0, <1>e, <1>i DEF Posted, Acknowledge, ErrorPosted, RequestLost, RunTypeOK
  <2> QED
    BY <1>7, <2>1, <2>2, <2>3, <1>a, <1>c DEF Posted, Acknowledge, ErrorPosted, RequestLost, TickRest
<1>8. ASSUME NEW w \in Workers, NEW r \in Runs, RelayEvent(w, r) \/ RelayEnd(w, r) \/ ClearMapping(w, r)
      PROVE  RunTypeOK'
  <2>1. Status
    BY <1>8, <1>b, <1>h DEF RelayEvent, RelayEnd, ClearMapping
  <2>2. Worker
    <3>1. CASE RelayEvent(w, r)
      BY <1>d, <3>1 DEF RelayEvent
    <3>2. CASE RelayEnd(w, r)
      BY <3>2 DEF RelayEnd, RunTypeOK
    <3>3. CASE ClearMapping(w, r)
      BY <3>3 DEF ClearMapping, RunTypeOK
    <3> QED
      BY <1>8, <3>1, <3>2, <3>3
  <2> QED
    BY <1>8, <2>1, <2>2, <1>a, <1>c, <1>e DEF RelayEvent, RelayEnd, ClearMapping
<1>9. ASSUME NEW r \in Runs, RelayArrives(r) \/ RelayLost(r) PROVE RunTypeOK'
  <2>1. Status
    BY <1>9, <1>b, <1>h DEF RelayArrives, RelayLost
  <2>2. Worker
    BY <1>9 DEF RelayArrives, RelayLost, RunTypeOK
  <2>3. Fault
    BY <1>9, <1>e, <1>i DEF RelayArrives, RelayLost, RunTypeOK
  <2> QED
    BY <1>9, <2>1, <2>2, <2>3, <1>a, <1>c DEF RelayArrives, RelayLost
<1>10. ASSUME NEW w \in Workers, RestartWorker(w) PROVE RunTypeOK'
  <2>0. tick[w].run \subseteq Runs /\ tick[w].stop \subseteq Runs
    BY DEF RunTypeOK, Ticks
  <2>1. Worker
    <3>1. tick' \in [Workers -> Ticks]
      <4>1. [NoTick EXCEPT !.at = "off"] \in Ticks
        BY DEF NoTick, Ticks
      <4> QED
        BY <1>10, <4>1, <1>k DEF RestartWorker
    <3> QED
      BY <1>10, <3>1 DEF RestartWorker, RunTypeOK
  <2>2. Fault
    BY <1>10, <2>0, <1>i DEF RestartWorker, RunTypeOK
  <2> QED
    BY <1>10, <2>1, <2>2, <1>a, <1>b, <1>c DEF RestartWorker
<1>11. CASE UNCHANGED runVars
  BY <1>11, <1>a, <1>b, <1>c, <1>d, <1>e DEF runVars, serviceVars, workerVars, faultVars
<1>12. \A s : ActiveIn(s) \subseteq Runs
  BY DEF ActiveIn
<1> QED
  BY <1>1, <1>2, <1>3, <1>4, <1>5, <1>6, <1>7, <1>8, <1>9, <1>10, <1>11, <1>12
     DEF RunNext, ClientNext, StopRun, StopAllRuns, TickNext

-----------------------------------------------------------------------------
(* Statuses *)

\* Only create_run gives a status to a run that has none, and a run becomes active
\* again only by being revived.
Steady ==
  /\ \A r \in Runs : (status'[r] = "none") <=> (status[r] = "none")
  /\ \A r \in Runs : status'[r] \in Active => status[r] \in Active \/ r \in revived'
  /\ revived \subseteq revived'

LEMMA BecomesSteady ==
  ASSUME RunTypeOK, NEW f \in [Runs -> Statuses], Becomes(f),
         \A r \in Runs : (f[r] = "none") <=> (status[r] = "none")
  PROVE  Steady
BY DEF Becomes, Steady, RunTypeOK, Statuses

LEMMA SetSteady ==
  ASSUME RunTypeOK, NEW r \in Runs, NEW v \in Statuses \ {"none"}, status[r] # "none",
         SetStatus(r, v)
  PROVE  Steady
<1>1. [status EXCEPT ![r] = v] \in [Runs -> Statuses]
  BY DEF RunTypeOK, Statuses
<1>2. \A q \in Runs : ([status EXCEPT ![r] = v][q] = "none") <=> (status[q] = "none")
  BY DEF RunTypeOK
<1> QED
  BY <1>1, <1>2, BecomesSteady DEF SetStatus

LEMMA IngestSteady ==
  ASSUME RunTypeOK, NEW r \in Runs, NEW ends \in BOOLEAN, status[r] # "none", Ingest(r, ends)
  PROVE  Steady
<1>1. CASE UNCHANGED <<status, revived>>
  BY <1>1 DEF Steady
<1>2. CASE SetStatus(r, "over") \/ SetStatus(r, "running")
  BY <1>2, SetSteady DEF Statuses
<1> QED
  BY <1>1, <1>2 DEF Ingest

\* The runs that a worker deals with.
LEMMA OwnRuns ==
  ASSUME RunTypeOK, AssignInv
  PROVE  \A w \in Workers : \A r \in tick[w].run \cup tick[w].post \cup mapped[w] :
           r \in Runs /\ assigned[r] = {w} /\ status[r] # "none"
<1>1. ASSUME NEW w \in Workers, NEW r \in tick[w].run \cup tick[w].post \cup mapped[w]
      PROVE  r \in Runs /\ assigned[r] = {w}
  BY <1>1 DEF AssignInv, RunTypeOK, Ticks
<1> QED
  BY <1>1 DEF AssignInv

LEMMA StatusStep ==
  ASSUME RunTypeOK, QueueInv, AssignInv, [RunNext]_runVars
  PROVE  Steady \/ \E r \in Runs : CreateRun(r)
<1>a. UNCHANGED <<status, revived>> => Steady
  BY DEF Steady
<1>b. \A w \in Workers : \A r \in tick[w].run \cup tick[w].post \cup mapped[w] :
        r \in Runs /\ status[r] # "none"
  BY OwnRuns
<1>1. ASSUME NEW r \in Runs, PauseRun(r) \/ ResumeRun(r) PROVE Steady
  BY <1>1, SetSteady DEF PauseRun, ResumeRun, Statuses
<1>2. ASSUME NEW runs \in SUBSET Runs, StopRuns(runs), \A r \in runs : status[r] # "none"
      PROVE  Steady
  <2> DEFINE f == [r \in Runs |-> IF r \in runs THEN "stopped" ELSE status[r]]
  <2>1. f \in [Runs -> Statuses] /\ \A r \in Runs : (f[r] = "none") <=> (status[r] = "none")
    BY <1>2 DEF RunTypeOK, Statuses
  <2>2. Becomes(f)
    BY <1>2 DEF StopRuns
  <2> HIDE DEF f
  <2> QED
    BY <2>1, <2>2, BecomesSteady
<1>3. ASSUME NEW w \in Workers, NEW n \in 1 .. Len(runQueue[Home[w]]) + 1, Heartbeat(w, n)
      PROVE  Steady
  <2> DEFINE f == [r \in Runs |-> IF r \in Taken(n, w) THEN "queued" ELSE status[r]]
  <2>1. \A r \in Taken(n, w) : r \in Runs /\ status[r] \in Waiting
    BY <1>3, AssignFacts DEF Heartbeat
  <2>2. f \in [Runs -> Statuses] /\ \A r \in Runs : (f[r] = "none") <=> (status[r] = "none")
    BY <2>1 DEF RunTypeOK, Statuses
  <2>3. Becomes(f)
    BY <1>3 DEF Heartbeat, Assign, Bind
  <2> HIDE DEF f
  <2> QED
    BY <2>2, <2>3, BecomesSteady
<1>4. ASSUME NEW w \in Workers, Posted(w) \/ ErrorPosted(w) PROVE Steady
  BY <1>4, <1>b, IngestSteady DEF Posted, ErrorPosted
<1>5. ASSUME NEW w \in Workers, Acknowledge(w) PROVE Steady
  <2>1. PICK r \in tick[w].run :
          IF assigned[r] = {w} THEN SetStatus(r, "running") ELSE UNCHANGED <<status, revived>>
    BY <1>5 DEF Acknowledge
  <2> QED
    BY <2>1, <1>a, <1>b, SetSteady DEF Statuses
<1>6. ASSUME NEW w \in Workers, NEW r \in Runs, RelayEvent(w, r) PROVE Steady
  BY <1>6, <1>b, IngestSteady DEF RelayEvent
<1>7. ASSUME NEW r \in Runs, RelayArrives(r) PROVE Steady
  <2>1. status[r] # "none"
    BY <1>7 DEF RelayArrives, AssignInv
  <2> QED
    BY <1>7, <2>1, IngestSteady DEF RelayArrives
<1>8. ASSUME NEW w \in Workers,
             \/ StartWorker(w) \/ Poll(w) \/ RestartWorker(w) \/ ApplyStop(w) \/ Dispatch(w)
             \/ Sent(w) \/ NotSent(w) \/ RequestLost(w)
      PROVE  Steady
  BY <1>8, <1>a DEF StartWorker, Poll, Polls, RestartWorker, ApplyStop, Dispatch, Sent, NotSent,
                    RequestLost
<1>9. ASSUME NEW w \in Workers, NEW r \in Runs,
             RelayEnd(w, r) \/ ClearMapping(w, r) \/ RelayLost(r)
      PROVE  Steady
  BY <1>9, <1>a DEF RelayEnd, ClearMapping, RelayLost
<1>10. ASSUME NEW r \in Runs, RelayLost(r) PROVE Steady
  BY <1>10, <1>a DEF RelayLost
<1>11. CASE UNCHANGED runVars
  BY <1>11, <1>a DEF runVars
<1>12. \A s : ActiveIn(s) \subseteq Runs /\ \A r \in ActiveIn(s) : status[r] # "none"
  BY DEF ActiveIn
<1>13. ASSUME NEW r \in Runs, StopRun(r) PROVE Steady
  BY <1>13, <1>2 DEF StopRun
<1>14. ASSUME NEW s \in Workspaces, StopAllRuns(s) PROVE Steady
  BY <1>14, <1>2, <1>12 DEF StopAllRuns
<1> QED
  BY <1>1, <1>3, <1>4, <1>5, <1>6, <1>7, <1>8, <1>9, <1>10, <1>11, <1>13, <1>14
     DEF RunNext, ClientNext, TickNext

-----------------------------------------------------------------------------
(* The queues *)

\* Only create_run and heartbeats touch the queues and the assignments.
LEMMA ServiceStep ==
  ASSUME [RunNext]_runVars
  PROVE  \/ \E r \in Runs : CreateRun(r)
         \/ \E w \in Workers : \E n \in 1 .. Len(runQueue[Home[w]]) + 1 : Heartbeat(w, n)
         \/ UNCHANGED <<assigned, runQueue, skipped>>
<1>1. ASSUME NEW r \in Runs, PauseRun(r) \/ ResumeRun(r) \/ StopRun(r) \/ RelayArrives(r) \/ RelayLost(r)
      PROVE  UNCHANGED <<assigned, runQueue, skipped>>
  BY <1>1 DEF PauseRun, ResumeRun, StopRun, StopRuns, RelayArrives, RelayLost, serviceVars
<1>2. ASSUME NEW s \in Workspaces, StopAllRuns(s) PROVE UNCHANGED <<assigned, runQueue, skipped>>
  BY <1>2 DEF StopAllRuns, StopRuns
<1>3. ASSUME NEW w \in Workers, StartWorker(w) \/ Poll(w) \/ RestartWorker(w)
      PROVE  UNCHANGED <<assigned, runQueue, skipped>>
  BY <1>3 DEF StartWorker, Poll, Polls, RestartWorker, serviceVars
<1>4. ASSUME NEW w \in Workers,
             \/ ApplyStop(w) \/ Posted(w) \/ Dispatch(w) \/ Sent(w) \/ NotSent(w)
             \/ Acknowledge(w) \/ ErrorPosted(w) \/ RequestLost(w)
      PROVE  UNCHANGED <<assigned, runQueue, skipped>>
  BY <1>4 DEF ApplyStop, Posted, Dispatch, Sent, NotSent, Acknowledge, ErrorPosted, RequestLost,
              TickRest, serviceVars
<1>5. ASSUME NEW w \in Workers, NEW r \in Runs,
             RelayEvent(w, r) \/ RelayEnd(w, r) \/ ClearMapping(w, r)
      PROVE  UNCHANGED <<assigned, runQueue, skipped>>
  BY <1>5 DEF RelayEvent, RelayEnd, ClearMapping, serviceVars
<1>6. CASE UNCHANGED runVars
  BY <1>6 DEF runVars
<1> QED
  BY <1>1, <1>2, <1>3, <1>4, <1>5, <1>6 DEF RunNext, ClientNext, TickNext

LEMMA DistinctAppend ==
  ASSUME NEW q \in Seq(Runs), Distinct(q), NEW r \in Runs, \A i \in 1..Len(q) : q[i] # r
  PROVE  Distinct(Append(q, r))
<1>1. /\ Len(q) \in Nat /\ Len(Append(q, r)) = Len(q) + 1 /\ Append(q, r)[Len(q) + 1] = r
      /\ \A i \in 1..Len(q) : Append(q, r)[i] = q[i]
  BY AppendProperties
<1>2. \A i \in 1..Len(q) + 1 : i \in 1..Len(q) \/ i = Len(q) + 1
  BY <1>1
<1> QED
  BY <1>1, <1>2 DEF Distinct

LEMMA DistinctTail ==
  ASSUME NEW q \in Seq(Runs), Distinct(q), NEW n \in 1..Len(q) + 1
  PROVE  LET t == SubSeq(q, n + 1, Len(q)) IN
         /\ Distinct(t)
         /\ \A i \in 1..Len(t) : n + i \in 1..Len(q) /\ n + i # n /\ t[i] = q[n + i]
<1> DEFINE t == SubSeq(q, n + 1, Len(q))
<1>1. \A i \in 1..Len(t) : i \in Nat /\ n + i \in 1..Len(q) /\ n + i # n /\ t[i] = q[n + i]
  OBVIOUS
<1>2. Distinct(t)
  <2> SUFFICES ASSUME NEW i \in 1..Len(t), NEW j \in 1..Len(t), t[i] = t[j] PROVE i = j
    BY DEF Distinct
  <2>1. n + i = n + j
    BY <1>1 DEF Distinct
  <2> QED
    BY <1>1, <2>1
<1> QED
  BY <1>1, <1>2

IdleNext(r, s) == Home[r] = s /\ status'[r] # "none" /\ assigned'[r] = {}

LEMMA QueueStep ==
  ASSUME RunTypeOK, QueueInv, AssignInv, [RunNext]_runVars
  PROVE  QueueInv'
<1> USE RunsAssumption
<1>0. \A s \in Workspaces : /\ runQueue[s] \in Seq(Runs) /\ Len(runQueue[s]) \in Nat
                            /\ \A i \in 1..Len(runQueue[s]) : runQueue[s][i] \in Runs
  BY DEF RunTypeOK
<1>1. ASSUME NEW r \in Runs, CreateRun(r) PROVE QueueInv'
  <2>1. /\ status[r] = "none" /\ assigned' = assigned /\ Home[r] \in Workspaces
        /\ status' = [status EXCEPT ![r] = "awaiting_worker"]
        /\ runQueue' = [runQueue EXCEPT ![Home[r]] = Append(runQueue[Home[r]], r)]
    BY <1>1 DEF CreateRun, SetStatus, Becomes
  <2>2. \A s \in Workspaces : \A i \in 1..Len(runQueue[s]) :
          runQueue[s][i] \in Runs \ {r} /\ Idle(runQueue[s][i], s)
    BY <1>0, <2>1 DEF QueueInv, Idle
  <2>3. /\ \A s \in Workspaces, x \in Runs \ {r} : Idle(x, s) => IdleNext(x, s)
        /\ IdleNext(r, Home[r])
    BY <2>1 DEF Idle, IdleNext, AssignInv, RunTypeOK
  <2>4. ASSUME NEW s \in Workspaces, s # Home[r]
        PROVE  runQueue'[s] = runQueue[s]
    BY <2>1, <2>4 DEF RunTypeOK
  <2>5. runQueue'[Home[r]] = Append(runQueue[Home[r]], r)
    BY <2>1 DEF RunTypeOK
  <2>6. Distinct(runQueue'[Home[r]])
    BY <1>0, <2>1, <2>2, <2>5, DistinctAppend DEF QueueInv
  <2>7. ASSUME NEW i \in 1..Len(runQueue'[Home[r]])
        PROVE  IdleNext(runQueue'[Home[r]][i], Home[r])
    <3> DEFINE q == runQueue[Home[r]]
    <3>1. /\ q \in Seq(Runs) /\ Len(q) \in Nat /\ runQueue'[Home[r]] = Append(q, r)
          /\ \A j \in 1..Len(q) : q[j] \in Runs \ {r} /\ Idle(q[j], Home[r])
      BY <1>0, <2>1, <2>2, <2>5
    <3> HIDE DEF q
    <3>2. /\ i \in 1..Len(q) \/ i = Len(q) + 1
          /\ Append(q, r)[Len(q) + 1] = r /\ \A j \in 1..Len(q) : Append(q, r)[j] = q[j]
      BY <3>1, AppendProperties
    <3>3. CASE i = Len(q) + 1
      BY <2>3, <3>1, <3>2, <3>3
    <3>4. CASE i \in 1..Len(q)
      <4>1. runQueue'[Home[r]][i] = q[i] /\ q[i] \in Runs \ {r} /\ Idle(q[i], Home[r])
        BY <3>1, <3>2, <3>4
      <4> QED
        BY <2>1, <2>3, <4>1
    <3> QED
      BY <3>2, <3>3, <3>4
  <2>8. ASSUME NEW s \in Workspaces
        PROVE  /\ Distinct(runQueue'[s])
               /\ \A i \in 1..Len(runQueue'[s]) : IdleNext(runQueue'[s][i], s)
    <3>1. CASE s = Home[r]
      BY <2>6, <2>7, <3>1
    <3>2. CASE s # Home[r]
      <4>1. Distinct(runQueue[s])
        BY DEF QueueInv
      <4> QED
        BY <2>2, <2>3, <2>4, <3>2, <4>1
    <3> QED
      BY <3>1, <3>2
  <2> QED
    BY <2>8 DEF QueueInv, Idle, IdleNext
<1>2. ASSUME NEW w \in Workers, NEW n \in 1 .. Len(runQueue[Home[w]]) + 1, Heartbeat(w, n)
      PROVE  QueueInv'
  <2> DEFINE h == Home[w]
             t == SubSeq(runQueue[h], n + 1, Len(runQueue[h]))
  <2>1. h \in Workspaces
    OBVIOUS
  <2>2. /\ runQueue' = [runQueue EXCEPT ![h] = t]
        /\ \A r \in Taken(n, w) : r \in Runs /\ n \in 1..Len(runQueue[h]) /\ r = runQueue[h][n]
    <3>1. Assign(n, w) /\ IsFirst(n, w)
      BY <1>2 DEF Heartbeat
    <3>2. /\ Taken(n, w) \subseteq Runs
          /\ \A r \in Taken(n, w) : n <= Len(runQueue[Home[w]]) /\ r = runQueue[Home[w]][n]
          /\ runQueue' = [runQueue EXCEPT ![Home[w]] = SubSeq(@, n + 1, Len(@))]
      BY <3>1, AssignFacts
    <3>3. n \in Nat /\ n >= 1 /\ Len(runQueue[h]) \in Nat
      BY <1>0, <2>1
    <3> QED
      BY <2>1, <3>2, <3>3
  <2>3. \A r \in Runs : r \notin Taken(n, w) => assigned'[r] = assigned[r] /\ status'[r] = status[r]
    BY <1>2 DEF Heartbeat, Assign, Bind, Becomes, RunTypeOK
  <2>4. \A s \in Workspaces, r \in Runs : r \notin Taken(n, w) /\ Idle(r, s) => IdleNext(r, s)
    BY <2>3 DEF Idle, IdleNext
  <2>5. ASSUME NEW s \in Workspaces, s # h PROVE runQueue'[s] = runQueue[s]
    BY <2>2, <2>5 DEF RunTypeOK
  <2>6. ASSUME NEW s \in Workspaces, s # h, NEW i \in 1..Len(runQueue[s])
        PROVE  runQueue[s][i] \notin Taken(n, w)
    <3>1. Idle(runQueue[s][i], s) /\ \A j \in 1..Len(runQueue[h]) : Idle(runQueue[h][j], h)
      BY <2>1 DEF QueueInv
    <3> QED
      BY <2>2, <2>6, <3>1 DEF Idle
  <2>7. runQueue'[h] = t
    BY <2>1, <2>2 DEF RunTypeOK
  <2>8. /\ Distinct(t)
        /\ \A i \in 1..Len(t) : n + i \in 1..Len(runQueue[h]) /\ n + i # n /\ t[i] = runQueue[h][n + i]
    BY <1>0, <2>1, DistinctTail DEF QueueInv
  <2>9. ASSUME NEW i \in 1..Len(t) PROVE IdleNext(t[i], h)
    <3>1. /\ n + i \in 1..Len(runQueue[h]) /\ n + i # n /\ t[i] = runQueue[h][n + i]
          /\ t[i] \in Runs /\ Idle(t[i], h)
      BY <1>0, <2>1, <2>8 DEF QueueInv
    <3>2. t[i] \notin Taken(n, w)
      BY <2>1, <2>2, <3>1 DEF QueueInv, Distinct
    <3> HIDE DEF t
    <3> QED
      BY <2>1, <2>4, <3>1, <3>2
  <2> HIDE DEF t
  <2>10. ASSUME NEW s \in Workspaces
         PROVE  /\ Distinct(runQueue'[s])
                /\ \A i \in 1..Len(runQueue'[s]) : IdleNext(runQueue'[s][i], s)
    <3>1. CASE s = h
      BY <2>7, <2>8, <2>9, <3>1
    <3>2. CASE s # h
      <4>1. /\ Distinct(runQueue[s])
            /\ \A i \in 1..Len(runQueue[s]) : runQueue[s][i] \in Runs /\ Idle(runQueue[s][i], s)
        BY <1>0 DEF QueueInv
      <4> QED
        BY <2>4, <2>5, <2>6, <3>2, <4>1
    <3> QED
      BY <3>1, <3>2
  <2> QED
    BY <2>10 DEF QueueInv, Idle, IdleNext
<1>3. ASSUME UNCHANGED <<assigned, runQueue>> PROVE QueueInv'
  <2>1. \A r \in Runs : status[r] # "none" => status'[r] # "none"
    <3>1. CASE Steady
      BY <3>1 DEF Steady
    <3>2. CASE \E r \in Runs : CreateRun(r)
      BY <3>2 DEF CreateRun, SetStatus, Becomes, RunTypeOK
    <3> QED
      BY <3>1, <3>2, StatusStep
  <2> QED
    BY <1>0, <1>3, <2>1 DEF QueueInv, Idle, Distinct
<1> QED
  BY <1>1, <1>2, <1>3, ServiceStep

-----------------------------------------------------------------------------
(* What the workers do *)

\* Nothing new comes to a worker, or to the relays of a run that has none.
NothingNew ==
  /\ UNCHANGED <<assigned, sends>>
  /\ \A w \in Workers :
       /\ tick'[w].run \cup tick'[w].post \cup mapped'[w]
            \subseteq tick[w].run \cup tick[w].post \cup mapped[w]
       /\ tick'[w].at \in {"answered", "posting", "sending"} =>
            tick[w].at \in {"answered", "posting", "sending"} /\ tick'[w].run \subseteq tick[w].run
  /\ \A r \in Runs : relay'[r] # "none" => assigned[r] # {}

LEMMA NothingNewStep ==
  ASSUME RunTypeOK, AssignInv, NothingNew,
         \A r \in Runs : status'[r] = "none" => status[r] = "none"
  PROVE  AssignInv'
<1>1. ASSUME NEW w \in Workers, NEW r \in tick'[w].run \cup tick'[w].post \cup mapped'[w]
      PROVE  assigned'[r] = {w}
  BY <1>1 DEF NothingNew, AssignInv
<1>2. ASSUME NEW w \in Workers, tick'[w].at \in {"answered", "posting", "sending"},
             NEW r \in tick'[w].run
      PROVE  sends'[r] = 0
  BY <1>2 DEF NothingNew, AssignInv
<1>3. \A r \in Runs : /\ sends'[r] <= 1
                      /\ assigned'[r] = {} => sends'[r] = 0
                      /\ status'[r] = "none" => assigned'[r] = {}
                      /\ relay'[r] # "none" => assigned'[r] # {}
  BY DEF NothingNew, AssignInv
<1> QED
  BY <1>1, <1>2, <1>3 DEF AssignInv

LEMMA AssignStep ==
  ASSUME RunTypeOK, QueueInv, AssignInv, [RunNext]_runVars
  PROVE  AssignInv'
<1>0. \A r \in Runs : status'[r] = "none" => status[r] = "none"
  <2>1. CASE Steady
    BY <2>1 DEF Steady
  <2>2. CASE \E r \in Runs : CreateRun(r)
    BY <2>2 DEF CreateRun, SetStatus, Becomes, RunTypeOK
  <2> QED
    BY <2>1, <2>2, StatusStep
<1>a. /\ \A w \in Workers : tick[w] \in Ticks
      /\ \A r \in Runs : relay[r] # "none" => assigned[r] # {}
      /\ tick \in [Workers -> Ticks] /\ mapped \in [Workers -> SUBSET Runs]
      /\ relay \in [Runs -> {"none", "sent", "answered"}]
  BY DEF RunTypeOK, AssignInv
<1>b. ASSUME UNCHANGED <<assigned, tick, mapped, sends>>,
             \A r \in Runs : relay'[r] # "none" => assigned[r] # {}
      PROVE  AssignInv'
  BY <1>b, <1>0, NothingNewStep DEF NothingNew
<1>1. ASSUME NEW r \in Runs, CreateRun(r) \/ PauseRun(r) \/ ResumeRun(r) PROVE AssignInv'
  BY <1>1, <1>a, <1>b DEF CreateRun, PauseRun, ResumeRun, workerVars
<1>2. ASSUME NEW runs \in SUBSET Runs, StopRuns(runs) PROVE AssignInv'
  BY <1>2, <1>a, <1>b DEF StopRuns, workerVars
<1>3. ASSUME NEW r \in Runs, RelayArrives(r) PROVE AssignInv'
  BY <1>3, <1>a, <1>b DEF RelayArrives, serviceVars
<1>4. ASSUME NEW r \in Runs, RelayLost(r) PROVE AssignInv'
  BY <1>4, <1>a, <1>b DEF RelayLost, serviceVars
<1>5. ASSUME NEW w \in Workers, NEW r \in Runs, RelayEvent(w, r) PROVE AssignInv'
  BY <1>5, <1>a, <1>b DEF RelayEvent, serviceVars, workerVars
<1>6. ASSUME NEW w \in Workers, NEW r \in Runs, RelayEnd(w, r) PROVE AssignInv'
  <2>1. assigned[r] # {}
    BY <1>6, OwnRuns DEF RelayEnd
  <2>2. \A q \in Runs : relay'[q] # "none" => assigned[q] # {}
    BY <1>6, <1>a, <2>1 DEF RelayEnd
  <2> QED
    BY <1>6, <1>b, <2>2 DEF RelayEnd, serviceVars
<1>7. ASSUME NEW w \in Workers, NEW r \in Runs, ClearMapping(w, r) PROVE AssignInv'
  <2>1. /\ UNCHANGED <<assigned, sends, tick>> /\ \A v \in Workers : mapped'[v] \subseteq mapped[v]
        /\ \A q \in Runs : relay'[q] # "none" => relay[q] # "none"
    BY <1>7, <1>a DEF ClearMapping, serviceVars
  <2> QED
    BY <2>1, <1>0, <1>a, NothingNewStep DEF NothingNew
<1>8. ASSUME NEW w \in Workers, StartWorker(w) \/ Poll(w) PROVE AssignInv'
  <2>1. /\ UNCHANGED <<assigned, sends, mapped, relay>>
        /\ tick' = [tick EXCEPT ![w] = [NoTick EXCEPT !.at = "asked"]]
    BY <1>8 DEF StartWorker, Poll, Polls, serviceVars
  <2>2. \A v \in Workers : tick'[v] = tick[v] \/ /\ tick'[v].run = {} /\ tick'[v].post = {}
                                                 /\ tick'[v].at = "asked"
    BY <2>1, <1>a DEF NoTick
  <2> QED
    BY <2>1, <2>2, <1>0, <1>a, NothingNewStep DEF NothingNew
<1>9. ASSUME NEW w \in Workers, RestartWorker(w) PROVE AssignInv'
  <2>1. /\ UNCHANGED <<assigned, sends>>
        /\ tick' = [tick EXCEPT ![w] = [NoTick EXCEPT !.at = "off"]]
        /\ \A v \in Workers : mapped'[v] \subseteq mapped[v]
        /\ \A q \in Runs : relay'[q] # "none" => relay[q] # "none"
    BY <1>9, <1>a DEF RestartWorker, serviceVars
  <2>2. \A v \in Workers : tick'[v] = tick[v] \/ /\ tick'[v].run = {} /\ tick'[v].post = {}
                                                 /\ tick'[v].at = "off"
    BY <2>1, <1>a DEF NoTick
  <2> QED
    BY <2>1, <2>2, <1>0, <1>a, NothingNewStep DEF NothingNew
<1>10. ASSUME NEW w \in Workers, NEW n \in 1 .. Len(runQueue[Home[w]]) + 1, Heartbeat(w, n)
       PROVE  AssignInv'
  <2>1. \A r \in Taken(n, w) : r \in Runs /\ assigned[r] = {} /\ status[r] \in Waiting
    BY <1>10, AssignFacts DEF Heartbeat
  <2>2. /\ UNCHANGED <<sends, mapped, relay>>
        /\ assigned' = [r \in Runs |-> IF r \in Taken(n, w) THEN {w} ELSE assigned[r]]
    BY <1>10 DEF Heartbeat, Assign, Bind
  <2>3. \/ tick' = [tick EXCEPT ![w] = [at |-> "answered", run |-> Taken(n, w),
                                        stop |-> Commands(w), post |-> {}]]
        \/ tick' = [tick EXCEPT ![w] = NoTick]
    BY <1>10 DEF Heartbeat
  <2>4. \A v \in Workers : \/ v # w /\ tick'[v] = tick[v]
                           \/ v = w /\ tick'[v].post = {} /\ tick'[v].run \subseteq Taken(n, w)
    BY <2>3, <1>a DEF NoTick
  <2>5. ASSUME NEW v \in Workers, NEW r \in tick[v].run \cup tick[v].post \cup mapped[v]
        PROVE  assigned'[r] = {v}
    <3>1. r \in Runs /\ assigned[r] = {v}
      BY OwnRuns
    <3> QED
      BY <2>1, <2>2, <3>1
  <2>6. ASSUME NEW v \in Workers, NEW r \in tick'[v].run \cup tick'[v].post \cup mapped'[v]
        PROVE  assigned'[r] = {v}
    <3>1. CASE r \in tick[v].run \cup tick[v].post \cup mapped[v]
      BY <2>5, <3>1
    <3>2. CASE v = w /\ r \in Taken(n, w)
      BY <2>1, <2>2, <3>2
    <3> QED
      BY <2>2, <2>4, <3>1, <3>2
  <2>7. ASSUME NEW v \in Workers, tick'[v].at \in {"answered", "posting", "sending"},
               NEW r \in tick'[v].run
        PROVE  sends'[r] = 0
    BY <2>1, <2>2, <2>4, <2>7 DEF AssignInv
  <2>8. \A r \in Runs : /\ sends'[r] <= 1
                        /\ assigned'[r] = {} => sends'[r] = 0
                        /\ status'[r] = "none" => assigned'[r] = {}
                        /\ relay'[r] # "none" => assigned'[r] # {}
    BY <1>0, <2>1, <2>2 DEF AssignInv
  <2> QED
    BY <2>6, <2>7, <2>8 DEF AssignInv
<1>11. ASSUME NEW w \in Workers, Sent(w) PROVE AssignInv'
  <2>1. PICK r \in tick[w].run : sends' = [sends EXCEPT ![r] = @ + 1] /\ live' = live \cup {r}
    BY <1>11, Zenon DEF Sent
  <2>2. /\ tick[w].at = "sending" /\ tick' = [tick EXCEPT ![w] = [tick[w] EXCEPT !.at = "acking"]]
    BY <1>11, Zenon DEF Sent
  <2>3. UNCHANGED <<assigned, mapped, relay>>
    BY <1>11 DEF Sent, TickRest, serviceVars
  <2>4. r \in Runs /\ assigned[r] = {w} /\ sends[r] = 0
    BY <2>1, <2>2, OwnRuns DEF AssignInv
  <2>5. \A v \in Workers : \/ v # w /\ tick'[v] = tick[v]
                           \/ /\ v = w /\ tick'[v].at = "acking" /\ tick'[v].run = tick[v].run
                              /\ tick'[v].post = tick[v].post
    BY <2>2, <1>a DEF Ticks
  <2>6. sends'[r] = 1 /\ \A q \in Runs : q # r => sends'[q] = sends[q]
    BY <2>1, <2>4 DEF RunTypeOK
  <2>7. ASSUME NEW v \in Workers, NEW q \in tick'[v].run \cup tick'[v].post \cup mapped'[v]
        PROVE  q \in Runs /\ assigned'[q] = {v}
    BY <2>3, <2>5, OwnRuns
  <2>8. ASSUME NEW v \in Workers, tick'[v].at \in {"answered", "posting", "sending"},
               NEW q \in tick'[v].run
        PROVE  sends'[q] = 0
    <3>1. v # w /\ tick'[v] = tick[v] /\ q \in Runs /\ assigned[q] = {v}
      BY <2>3, <2>5, <2>7, <2>8
    <3>2. sends[q] = 0
      BY <2>8, <3>1 DEF AssignInv
    <3> QED
      BY <2>4, <2>6, <3>1, <3>2
  <2>9. \A q \in Runs : /\ sends'[q] <= 1
                        /\ assigned'[q] = {} => sends'[q] = 0
                        /\ status'[q] = "none" => assigned'[q] = {}
                        /\ relay'[q] # "none" => assigned'[q] # {}
    BY <1>0, <2>3, <2>4, <2>6 DEF AssignInv
  <2> QED
    BY <2>7, <2>8, <2>9 DEF AssignInv
<1>12. ASSUME NEW w \in Workers, ApplyStop(w) PROVE AssignInv'
  <2>1. PICK r \in tick[w].stop :
          tick' = [tick EXCEPT ![w] =
                     [@ EXCEPT !.stop = tick[w].stop \ {r}, !.post = {r} \cap mapped[w],
                               !.at = IF r \in mapped[w] THEN "posting" ELSE "answered"]]
    BY <1>12 DEF ApplyStop
  <2>2. \A v \in Workers : \/ tick'[v] = tick[v]
                           \/ /\ v = w /\ tick[v].at = "answered" /\ tick'[v].run = tick[v].run
                              /\ tick'[v].post \subseteq mapped[v]
    BY <1>12, <2>1, <1>a DEF Ticks, ApplyStop
  <2>3. UNCHANGED <<assigned, sends, mapped, relay>>
    BY <1>12 DEF ApplyStop, TickRest, serviceVars
  <2> QED
    BY <2>2, <2>3, <1>0, <1>a, NothingNewStep DEF NothingNew
<1>13. ASSUME NEW w \in Workers, Dispatch(w) PROVE AssignInv'
  <2>1. UNCHANGED <<assigned, sends, relay>> /\ tick[w].at = "answered"
    BY <1>13 DEF Dispatch, TickRest, serviceVars
  <2>2. \/ tick' = [tick EXCEPT ![w] = NoTick] /\ UNCHANGED mapped
        \/ /\ tick' = [tick EXCEPT ![w] = [tick[w] EXCEPT !.at = "sending"]]
           /\ \E r \in tick[w].run : mapped' = [mapped EXCEPT ![w] = @ \cup {r}]
    BY <1>13 DEF Dispatch
  <2>3. \A v \in Workers : /\ tick'[v].run \subseteq tick[v].run /\ tick'[v].post \subseteq tick[v].post
                           /\ \/ v # w /\ tick'[v] = tick[v]
                              \/ v = w
    BY <2>2, <1>a DEF Ticks, NoTick
  <2>4. \A v \in Workers : mapped'[v] \subseteq mapped[v] \cup tick[v].run
    BY <2>2, <1>a
  <2> QED
    BY <2>1, <2>3, <2>4, <1>0, <1>a, NothingNewStep DEF NothingNew
<1>14. ASSUME NEW w \in Workers, NotSent(w) PROVE AssignInv'
  <2>1. UNCHANGED <<assigned, sends, relay>> /\ mapped' = [mapped EXCEPT ![w] = @ \ tick[w].run]
    BY <1>14 DEF NotSent, TickRest, serviceVars
  <2>2. \/ tick' = [tick EXCEPT ![w] = NoTick]
        \/ tick' = [tick EXCEPT ![w] = [tick[w] EXCEPT !.at = "erring"]]
    BY <1>14 DEF NotSent
  <2>3. \A v \in Workers : \/ tick'[v] = tick[v]
                           \/ /\ tick'[v].at \in {"idle", "erring"} /\ tick'[v].run \subseteq tick[v].run
                              /\ tick'[v].post \subseteq tick[v].post
    BY <2>2, <1>a DEF Ticks, NoTick
  <2>4. \A v \in Workers : mapped'[v] \subseteq mapped[v]
    BY <2>1, <1>a
  <2> QED
    BY <2>1, <2>3, <2>4, <1>0, <1>a, NothingNewStep DEF NothingNew
<1>15. ASSUME NEW w \in Workers, Posted(w) \/ Acknowledge(w) \/ ErrorPosted(w) \/ RequestLost(w)
       PROVE  AssignInv'
  <2>1. UNCHANGED <<assigned, sends, relay, mapped>>
    BY <1>15 DEF Posted, Acknowledge, ErrorPosted, RequestLost, TickRest, serviceVars
  <2>2. \/ tick' = [tick EXCEPT ![w] = NoTick]
        \/ /\ tick[w].at = "posting"
           /\ tick' = [tick EXCEPT ![w] = [tick[w] EXCEPT !.at = "answered", !.post = {}]]
    <3>1. CASE Posted(w)
      BY <3>1 DEF Posted
    <3>2. CASE Acknowledge(w) \/ ErrorPosted(w) \/ RequestLost(w)
      BY <3>2 DEF Acknowledge, ErrorPosted, RequestLost
    <3> QED
      BY <1>15, <3>1, <3>2
  <2>3. \A v \in Workers : \/ tick'[v] = tick[v]
                           \/ tick'[v].at = "idle" /\ tick'[v].run = {} /\ tick'[v].post = {}
                           \/ /\ tick[v].at = "posting" /\ tick'[v].run = tick[v].run
                              /\ tick'[v].post = {}
    <3>1. CASE tick' = [tick EXCEPT ![w] = NoTick]
      BY <3>1, <1>a DEF NoTick
    <3>2. CASE /\ tick[w].at = "posting"
               /\ tick' = [tick EXCEPT ![w] = [tick[w] EXCEPT !.at = "answered", !.post = {}]]
      <4>1. \A v \in Workers : v # w => tick'[v] = tick[v]
        BY <3>2, <1>a
      <4>2. tick'[w] = [tick[w] EXCEPT !.at = "answered", !.post = {}]
        BY <3>2, <1>a
      <4>3. tick'[w].run = tick[w].run /\ tick'[w].post = {}
        BY <4>2, <1>a DEF Ticks
      <4> QED
        BY <3>2, <4>1, <4>3
    <3> QED
      BY <2>2, <3>1, <3>2
  <2> QED
    BY <2>1, <2>3, <1>0, <1>a, NothingNewStep DEF NothingNew
<1>16. CASE UNCHANGED runVars
  BY <1>16, <1>a, <1>b DEF runVars
<1>17. \A s : ActiveIn(s) \subseteq Runs
  BY DEF ActiveIn
<1> QED
  BY <1>1, <1>2, <1>3, <1>4, <1>5, <1>6, <1>7, <1>8, <1>9, <1>10, <1>11, <1>12, <1>13, <1>14,
     <1>15, <1>16, <1>17
     DEF RunNext, ClientNext, StopRun, StopAllRuns, TickNext

-----------------------------------------------------------------------------
(* The stop commands *)

\* No command of w is drained, and what it was told is applied or lost.
Calm(w) ==
  /\ \A r \in tick[w].run \cup mapped[w] : r \in stopPending => r \in stopPending'
  /\ mapped'[w] \subseteq mapped[w]
  /\ tick[w].stop \cap mapped'[w] \subseteq tick'[w].stop \cup halted' \cup lost'
  /\ halted \subseteq halted' /\ lost \subseteq lost'
  /\ tick'[w].at \in {"answered", "posting"} =>
       tick[w].at \in {"answered", "posting"} /\ tick'[w].run \subseteq tick[w].run
  /\ tick'[w].at \notin {"answered", "posting"} => tick'[w].stop = {}

StopsKnown == \A r \in Runs : status'[r] = "stopped" => status[r] = "stopped" \/ r \in stopPending'

LEMMA CalmStep ==
  ASSUME RunTypeOK, NEW w \in Workers, StopSafe(w), Calm(w), StopsKnown
  PROVE  StopSafe(w)'
<1>1. mapped[w] \subseteq Runs /\ tick[w].run \subseteq Runs
  BY DEF RunTypeOK, Ticks
<1>2. ASSUME NEW r \in mapped'[w], status'[r] = "stopped"
      PROVE  r \in stopPending' \cup tick'[w].stop \cup halted' \cup lost'
  BY <1>1, <1>2 DEF StopSafe, Calm, StopsKnown
<1>3. ASSUME tick'[w].at \in {"answered", "posting"}, NEW r \in tick'[w].run, status'[r] = "stopped"
      PROVE  r \in stopPending'
  BY <1>1, <1>3 DEF StopSafe, Calm, StopsKnown
<1>4. tick'[w].at \notin {"answered", "posting"} => tick'[w].stop = {}
  BY DEF Calm
<1> QED
  BY <1>2, <1>3, <1>4 DEF StopSafe

\* Only stop_run and stop_all_runs stop a run, and they leave a command.
LEMMA KnownStep ==
  ASSUME RunTypeOK, [RunNext]_runVars
  PROVE  StopsKnown
<1>a. UNCHANGED <<status, revived>> => StopsKnown
  BY DEF StopsKnown
<1>b. ASSUME NEW r \in Runs, NEW v \in Statuses \ {"stopped"}, SetStatus(r, v) PROVE StopsKnown
  BY <1>b DEF SetStatus, Becomes, StopsKnown, RunTypeOK
<1>c. ASSUME NEW r \in Runs, NEW ends \in BOOLEAN, Ingest(r, ends) PROVE StopsKnown
  BY <1>c, <1>a, <1>b DEF Ingest, Statuses
<1>1. ASSUME NEW r \in Runs, CreateRun(r) \/ PauseRun(r) \/ ResumeRun(r) PROVE StopsKnown
  BY <1>1, <1>b DEF CreateRun, PauseRun, ResumeRun, Statuses
<1>2. ASSUME NEW runs \in SUBSET Runs, StopRuns(runs) PROVE StopsKnown
  BY <1>2 DEF StopRuns, Becomes, StopsKnown
<1>3. ASSUME NEW w \in Workers, NEW n \in 1 .. Len(runQueue[Home[w]]) + 1, Heartbeat(w, n)
      PROVE  StopsKnown
  BY <1>3 DEF Heartbeat, Assign, Bind, Becomes, StopsKnown
<1>4. ASSUME NEW w \in Workers, Posted(w) \/ ErrorPosted(w) PROVE StopsKnown
  <2>1. tick[w].run \subseteq Runs /\ tick[w].post \subseteq Runs
    BY DEF RunTypeOK, Ticks
  <2> QED
    BY <1>4, <2>1, <1>c DEF Posted, ErrorPosted
<1>5. ASSUME NEW w \in Workers, Acknowledge(w) PROVE StopsKnown
  <2>1. PICK r \in tick[w].run :
          IF assigned[r] = {w} THEN SetStatus(r, "running") ELSE UNCHANGED <<status, revived>>
    BY <1>5 DEF Acknowledge
  <2>2. r \in Runs
    BY DEF RunTypeOK, Ticks
  <2> QED
    BY <2>1, <2>2, <1>a, <1>b DEF Statuses
<1>6. ASSUME NEW w \in Workers, NEW r \in Runs, RelayEvent(w, r) \/ RelayArrives(r) PROVE StopsKnown
  BY <1>6, <1>c DEF RelayEvent, RelayArrives
<1>7. ASSUME NEW r \in Runs, RelayArrives(r) PROVE StopsKnown
  BY <1>7, <1>c DEF RelayArrives
<1>8. ASSUME NEW w \in Workers,
             \/ StartWorker(w) \/ Poll(w) \/ RestartWorker(w) \/ ApplyStop(w) \/ Dispatch(w)
             \/ Sent(w) \/ NotSent(w) \/ RequestLost(w)
      PROVE  StopsKnown
  BY <1>8, <1>a DEF StartWorker, Poll, Polls, RestartWorker, ApplyStop, Dispatch, Sent, NotSent,
                    RequestLost
<1>9. ASSUME NEW w \in Workers, NEW r \in Runs, RelayEnd(w, r) \/ ClearMapping(w, r) PROVE StopsKnown
  BY <1>9, <1>a DEF RelayEnd, ClearMapping
<1>10. ASSUME NEW r \in Runs, RelayLost(r) PROVE StopsKnown
  BY <1>10, <1>a DEF RelayLost
<1>11. CASE UNCHANGED runVars
  BY <1>11, <1>a DEF runVars
<1>12. \A s : ActiveIn(s) \subseteq Runs
  BY DEF ActiveIn
<1> QED
  BY <1>1, <1>2, <1>3, <1>4, <1>5, <1>6, <1>7, <1>8, <1>9, <1>10, <1>11, <1>12
     DEF RunNext, ClientNext, StopRun, StopAllRuns, TickNext

LEMMA StopStep ==
  ASSUME RunTypeOK, QueueInv, AssignInv, StopInv, [RunNext]_runVars
  PROVE  StopInv'
<1>a. /\ tick \in [Workers -> Ticks] /\ \A w \in Workers : tick[w] \in Ticks
      /\ mapped \in [Workers -> SUBSET Runs]
  BY DEF RunTypeOK
<1>b. ASSUME NEW w \in Workers
      PROVE  tick[w].at \notin {"answered", "posting"} => tick[w].stop = {}
  BY DEF StopInv, StopSafe
<1>c. ASSUME \A w \in Workers : Calm(w) PROVE StopInv'
  BY <1>c, CalmStep, KnownStep DEF StopInv
<1>d. ASSUME UNCHANGED <<tick, mapped, halted>>, stopPending \subseteq stopPending',
             lost \subseteq lost'
      PROVE  StopInv'
  BY <1>b, <1>c, <1>d DEF Calm
<1>1. ASSUME NEW r \in Runs, CreateRun(r) \/ PauseRun(r) \/ ResumeRun(r) PROVE StopInv'
  BY <1>1, <1>d DEF CreateRun, PauseRun, ResumeRun, workerVars, faultVars
<1>2. ASSUME NEW runs \in SUBSET Runs, StopRuns(runs) PROVE StopInv'
  BY <1>2, <1>d DEF StopRuns, workerVars, faultVars
<1>3. ASSUME NEW r \in Runs, RelayArrives(r) \/ RelayLost(r) PROVE StopInv'
  BY <1>3, <1>d DEF RelayArrives, RelayLost, serviceVars, faultVars
<1>4. ASSUME NEW w \in Workers, NEW r \in Runs, RelayEvent(w, r) \/ RelayEnd(w, r) PROVE StopInv'
  BY <1>4, <1>d DEF RelayEvent, RelayEnd, serviceVars, workerVars, faultVars
<1>5. ASSUME NEW w \in Workers, NEW r \in Runs, ClearMapping(w, r) PROVE StopInv'
  <2>1. /\ UNCHANGED <<tick, halted, lost, stopPending>>
        /\ \A v \in Workers : mapped'[v] \subseteq mapped[v]
    BY <1>5, <1>a DEF ClearMapping, serviceVars, faultVars
  <2> QED
    BY <2>1, <1>b, <1>c DEF Calm
<1>6. ASSUME NEW w \in Workers, StartWorker(w) \/ Poll(w) PROVE StopInv'
  <2>1. /\ UNCHANGED <<mapped, halted, lost, stopPending>> /\ tick[w].at \in {"off", "idle"}
        /\ tick' = [tick EXCEPT ![w] = [NoTick EXCEPT !.at = "asked"]]
    BY <1>6 DEF StartWorker, Poll, Polls, serviceVars, faultVars
  <2>2. \A v \in Workers : \/ v # w /\ tick'[v] = tick[v]
                           \/ v = w /\ tick'[v].at = "asked" /\ tick'[v].stop = {}
    BY <2>1, <1>a DEF NoTick
  <2> QED
    BY <2>1, <2>2, <1>b, <1>c DEF Calm
<1>7. ASSUME NEW w \in Workers, RestartWorker(w) PROVE StopInv'
  <2>1. /\ UNCHANGED <<halted, stopPending>> /\ \A v \in Workers : mapped'[v] \subseteq mapped[v]
        /\ tick' = [tick EXCEPT ![w] = [NoTick EXCEPT !.at = "off"]]
        /\ lost' = lost \cup tick[w].run \cup tick[w].stop \cup mapped[w]
    BY <1>7, <1>a DEF RestartWorker, serviceVars
  <2>2. \A v \in Workers : \/ v # w /\ tick'[v] = tick[v]
                           \/ v = w /\ tick'[v].at = "off" /\ tick'[v].stop = {}
    BY <2>1, <1>a DEF NoTick
  <2> QED
    BY <2>1, <2>2, <1>b, <1>c DEF Calm
<1>8. ASSUME NEW w \in Workers, NEW n \in 1 .. Len(runQueue[Home[w]]) + 1, Heartbeat(w, n)
      PROVE  StopInv'
  <2>1. \A r \in Taken(n, w) : r \in Runs /\ assigned[r] = {} /\ status[r] \in Waiting
    BY <1>8, AssignFacts DEF Heartbeat
  <2>2. /\ UNCHANGED <<mapped, halted>> /\ stopPending' = stopPending \ Commands(w)
        /\ assigned' = [r \in Runs |-> IF r \in Taken(n, w) THEN {w} ELSE assigned[r]]
        /\ status' = [r \in Runs |-> IF r \in Taken(n, w) THEN "queued" ELSE status[r]]
    BY <1>8 DEF Heartbeat, Assign, Bind, Becomes
  <2>3. ASSUME NEW v \in Workers, v # w PROVE StopSafe(v)'
    <3>1. UNCHANGED halted /\ lost \subseteq lost' /\ tick'[v] = tick[v]
      <4>1. \/ tick' = [tick EXCEPT ![w] = [at |-> "answered", run |-> Taken(n, w),
                                            stop |-> Commands(w), post |-> {}]]
            \/ tick' = [tick EXCEPT ![w] = NoTick]
        BY <1>8 DEF Heartbeat
      <4> QED
        BY <1>8, <1>a, <2>3, <4>1 DEF Heartbeat, faultVars
    <3>2. \A r \in tick[v].run \cup mapped[v] : r \notin Commands(w)
      <4>1. ASSUME NEW r \in tick[v].run \cup mapped[v] PROVE r \in Runs /\ assigned[r] = {v}
        BY OwnRuns
      <4>2. \A r \in tick[v].run \cup mapped[v] : assigned'[r] = {v}
        BY <2>1, <2>2, <4>1
      <4> QED
        BY <2>3, <4>2 DEF Commands
    <3>3. Calm(v)
      BY <1>b, <2>2, <3>1, <3>2 DEF Calm
    <3> QED
      BY <3>3, CalmStep, KnownStep DEF StopInv
  <2>4. StopSafe(w)'
    <3>1. tick[w].stop = {}
      BY <1>8, <1>b DEF Heartbeat
    <3>2. \/ tick'[w] = [at |-> "answered", run |-> Taken(n, w), stop |-> Commands(w), post |-> {}]
             /\ lost' = lost
          \/ tick'[w] = NoTick /\ lost' = lost \cup Taken(n, w) \cup Commands(w)
      BY <1>8, <1>a DEF Heartbeat, faultVars
    <3>3. ASSUME NEW r \in mapped'[w], status'[r] = "stopped"
          PROVE  r \in stopPending' \cup tick'[w].stop \cup halted' \cup lost'
      <4>1. r \in Runs /\ r \in mapped[w]
        BY <2>2, <3>3, <1>a
      <4>2. status[r] = "stopped"
        BY <2>2, <3>3, <4>1
      <4>3. r \in stopPending \cup halted \cup lost
        BY <3>1, <4>1, <4>2 DEF StopInv, StopSafe
      <4> QED
        BY <2>2, <3>2, <4>3
    <3>4. \A r \in tick'[w].run : status'[r] # "stopped"
      BY <2>1, <2>2, <3>2 DEF NoTick
    <3>5. tick'[w].at \notin {"answered", "posting"} => tick'[w].stop = {}
      BY <3>2 DEF NoTick
    <3> QED
      BY <3>3, <3>4, <3>5 DEF StopSafe
  <2> QED
    BY <2>3, <2>4 DEF StopInv
<1>9. ASSUME NEW w \in Workers, Sent(w) PROVE StopInv'
  <2>1. /\ UNCHANGED <<mapped, halted, lost, stopPending>> /\ tick[w].at = "sending"
        /\ tick' = [tick EXCEPT ![w] = [tick[w] EXCEPT !.at = "acking"]]
    BY <1>9, Zenon DEF Sent, TickRest, serviceVars, faultVars
  <2>2. \A v \in Workers : \/ tick'[v] = tick[v]
                           \/ v = w /\ tick'[v].at = "acking" /\ tick'[v].stop = tick[v].stop
    BY <2>1, <1>a DEF Ticks
  <2> QED
    BY <2>1, <2>2, <1>b, <1>c DEF Calm
<1>10. ASSUME NEW w \in Workers, ApplyStop(w) PROVE StopInv'
  <2>1. PICK r \in tick[w].stop :
          /\ tick' = [tick EXCEPT ![w] =
                     [@ EXCEPT !.stop = tick[w].stop \ {r}, !.post = {r} \cap mapped[w],
                               !.at = IF r \in mapped[w] THEN "posting" ELSE "answered"]]
          /\ halted' = halted \cup ({r} \cap mapped[w])
    BY <1>10 DEF ApplyStop
  <2>2. UNCHANGED <<mapped, lost, stopPending>> /\ tick[w].at = "answered"
    BY <1>10 DEF ApplyStop, TickRest, serviceVars, faultVars
  <2>3. \A v \in Workers : \/ v # w /\ tick'[v] = tick[v]
                           \/ /\ v = w /\ tick'[v].at \in {"answered", "posting"}
                              /\ tick'[v].run = tick[v].run /\ tick'[v].stop = tick[v].stop \ {r}
    BY <2>1, <1>a DEF Ticks
  <2> QED
    BY <2>1, <2>2, <2>3, <1>b, <1>c DEF Calm
<1>11. ASSUME NEW w \in Workers, Dispatch(w) PROVE StopInv'
  <2>1. /\ UNCHANGED <<halted, stopPending, status>> /\ lost \subseteq lost'
        /\ tick[w].at = "answered" /\ tick[w].stop = {}
    BY <1>11 DEF Dispatch, TickRest, serviceVars
  <2>2. \/ tick' = [tick EXCEPT ![w] = NoTick] /\ UNCHANGED mapped
        \/ /\ tick' = [tick EXCEPT ![w] = [tick[w] EXCEPT !.at = "sending"]]
           /\ \E r \in tick[w].run : mapped' = [mapped EXCEPT ![w] = @ \cup {r}]
    BY <1>11 DEF Dispatch
  <2>3. tick'[w].stop = {} /\ tick'[w].at \in {"idle", "sending"}
    BY <2>1, <2>2, <1>a DEF NoTick, Ticks
  <2>4. mapped'[w] \subseteq mapped[w] \cup tick[w].run
    BY <2>2, <1>a
  <2>5. StopSafe(w)'
    <3>1. ASSUME NEW r \in mapped'[w], status'[r] = "stopped"
          PROVE  r \in stopPending' \cup halted' \cup lost'
      BY <2>1, <2>4, <3>1 DEF StopInv, StopSafe
    <3> QED
      BY <2>3, <3>1 DEF StopSafe
  <2>6. ASSUME NEW v \in Workers, v # w PROVE StopSafe(v)'
    <3>1. tick'[v] = tick[v] /\ mapped'[v] = mapped[v]
      BY <2>2, <2>6, <1>a
    <3>2. Calm(v)
      BY <2>1, <3>1, <1>b DEF Calm
    <3> QED
      BY <3>2, CalmStep, KnownStep DEF StopInv
  <2> QED
    BY <2>5, <2>6 DEF StopInv
<1>12. ASSUME NEW w \in Workers, NotSent(w) PROVE StopInv'
  <2>1. /\ UNCHANGED <<halted, stopPending>> /\ lost \subseteq lost' /\ tick[w].at = "sending"
        /\ mapped' = [mapped EXCEPT ![w] = @ \ tick[w].run]
    BY <1>12 DEF NotSent, TickRest, serviceVars
  <2>2. \/ tick' = [tick EXCEPT ![w] = NoTick]
        \/ tick' = [tick EXCEPT ![w] = [tick[w] EXCEPT !.at = "erring"]]
    BY <1>12 DEF NotSent
  <2>3. \A v \in Workers : \/ tick'[v] = tick[v]
                           \/ /\ v = w /\ tick'[v].at \in {"idle", "erring"}
                              /\ tick'[v].stop = {} \/ tick'[v].stop = tick[v].stop
    BY <2>2, <1>a DEF Ticks, NoTick
  <2>4. \A v \in Workers : mapped'[v] \subseteq mapped[v]
    BY <2>1, <1>a
  <2> QED
    BY <2>1, <2>3, <2>4, <1>b, <1>c DEF Calm
<1>13. ASSUME NEW w \in Workers, Posted(w) PROVE StopInv'
  <2>1. UNCHANGED <<mapped, halted, stopPending>> /\ tick[w].at = "posting"
    BY <1>13 DEF Posted, TickRest, serviceVars
  <2>2. \/ /\ tick' = [tick EXCEPT ![w] = [tick[w] EXCEPT !.at = "answered", !.post = {}]]
           /\ lost' = lost
        \/ /\ tick' = [tick EXCEPT ![w] = NoTick]
           /\ lost' = lost \cup tick[w].run \cup tick[w].stop
    BY <1>13 DEF Posted, faultVars
  <2>3. ASSUME NEW v \in Workers, v # w PROVE tick'[v] = tick[v]
    BY <2>2, <2>3, <1>a
  <2>4. CASE /\ tick' = [tick EXCEPT ![w] = [tick[w] EXCEPT !.at = "answered", !.post = {}]]
             /\ lost' = lost
    <3>1. tick'[w] = [tick[w] EXCEPT !.at = "answered", !.post = {}]
      BY <2>4, <1>a
    <3>2. tick'[w].stop = tick[w].stop /\ tick'[w].at = "answered" /\ tick'[w].run = tick[w].run
      BY <3>1, <1>a DEF Ticks
    <3> QED
      BY <2>1, <2>3, <2>4, <3>2, <1>b, <1>c DEF Calm
  <2>5. CASE /\ tick' = [tick EXCEPT ![w] = NoTick]
             /\ lost' = lost \cup tick[w].run \cup tick[w].stop
    <3>1. tick'[w].at = "idle" /\ tick'[w].stop = {}
      BY <2>5, <1>a DEF NoTick
    <3> QED
      BY <2>1, <2>3, <2>5, <3>1, <1>b, <1>c DEF Calm
  <2> QED
    BY <2>2, <2>4, <2>5
<1>14. ASSUME NEW w \in Workers, Acknowledge(w) \/ ErrorPosted(w) \/ RequestLost(w) PROVE StopInv'
  <2>1. /\ UNCHANGED <<mapped, halted, stopPending>> /\ tick' = [tick EXCEPT ![w] = NoTick]
        /\ lost \subseteq lost'
        /\ tick[w].at = "posting" => tick[w].stop \subseteq lost'
        /\ tick[w].at # "answered"
    BY <1>14 DEF Acknowledge, ErrorPosted, RequestLost, TickRest, serviceVars, faultVars
  <2>2. \A v \in Workers : \/ v # w /\ tick'[v] = tick[v]
                           \/ v = w /\ tick'[v].at = "idle" /\ tick'[v].stop = {}
    BY <2>1, <1>a DEF NoTick
  <2> QED
    BY <2>1, <2>2, <1>b, <1>c DEF Calm
<1>15. CASE UNCHANGED runVars
  BY <1>15, <1>d DEF runVars
<1>16. \A s : ActiveIn(s) \subseteq Runs
  BY DEF ActiveIn
<1> QED
  BY <1>1, <1>2, <1>3, <1>4, <1>5, <1>6, <1>7, <1>8, <1>9, <1>10, <1>11, <1>12, <1>13, <1>14,
     <1>15, <1>16
     DEF RunNext, ClientNext, StopRun, StopAllRuns, TickNext

-----------------------------------------------------------------------------
(* The limit of a workspace *)

LEMMA AddOne ==
  ASSUME NEW S, NEW T, NEW x, IsFiniteSet(S), T \subseteq S \cup {x}
  PROVE  Cardinality(T) \in Nat /\ Cardinality(T) <= Cardinality(S) + 1
<1>1. /\ IsFiniteSet(S \cup {x})
      /\ Cardinality(S \cup {x}) = Cardinality(S) \/ Cardinality(S \cup {x}) = Cardinality(S) + 1
  BY FS_AddElement
<1>2. Cardinality(S) \in Nat /\ Cardinality(S \cup {x}) \in Nat
  BY <1>1, FS_CardinalityType
<1>3. IsFiniteSet(T) /\ Cardinality(T) <= Cardinality(S \cup {x})
  BY <1>1, FS_Subset
<1>4. Cardinality(T) \in Nat
  BY <1>3, FS_CardinalityType
<1> QED
  BY <1>1, <1>2, <1>3, <1>4

LEMMA CapStep ==
  ASSUME RunTypeOK, QueueInv, AssignInv, CapPerWorkspace, [RunNext]_runVars
  PROVE  CapPerWorkspace'
<1> USE RunsAssumption
<1> DEFINE A(s) == ActiveIn(s) \ revived
<1>0. \A s : /\ ActiveIn(s) \subseteq Runs /\ ActiveIn(s)' \subseteq Runs
             /\ IsFiniteSet(ActiveIn(s)) /\ IsFiniteSet(A(s))
             /\ Cardinality(ActiveIn(s)) \in Nat /\ Cardinality(A(s)) \in Nat
  <2>1. \A s : ActiveIn(s) \subseteq Runs /\ ActiveIn(s)' \subseteq Runs /\ A(s) \subseteq Runs
    BY DEF ActiveIn
  <2> QED
    BY <2>1, FS_Subset, FS_CardinalityType
<1>1. SUFFICES ASSUME NEW s \in Workspaces
               PROVE  Cardinality(A(s)') <= MaxActive
  BY DEF CapPerWorkspace
<1>2. Cardinality(A(s)) <= MaxActive
  BY DEF CapPerWorkspace
<1>3. ASSUME A(s)' \subseteq A(s) PROVE Cardinality(A(s)') <= MaxActive
  <2>1. /\ Cardinality(A(s)') <= Cardinality(A(s)) /\ IsFiniteSet(A(s)')
    BY <1>0, <1>3, FS_Subset
  <2>2. Cardinality(A(s)') \in Nat
    BY <2>1, FS_CardinalityType
  <2> QED
    BY <1>0, <1>2, <2>1, <2>2
<1>4. CASE Steady
  <2>1. A(s)' \subseteq A(s)
    BY <1>4 DEF Steady, ActiveIn
  <2> QED
    BY <2>1, <1>3
<1>5. ASSUME NEW r \in Runs, CreateRun(r) PROVE Cardinality(A(s)') <= MaxActive
  <2>1. /\ status[r] = "none" /\ status' = [status EXCEPT ![r] = "awaiting_worker"]
        /\ Cardinality(ActiveIn(Home[r])) < MaxActive
        /\ revived \subseteq revived'
    BY <1>5 DEF CreateRun, SetStatus, Becomes
  <2>2. A(s)' \subseteq ActiveIn(s) \cup {r} /\ (s # Home[r] => A(s)' \subseteq A(s))
    BY <2>1 DEF ActiveIn, RunTypeOK
  <2>3. CASE s # Home[r]
    BY <2>2, <2>3, <1>3
  <2>4. CASE s = Home[r]
    <3>1. Cardinality(A(s)') \in Nat /\ Cardinality(A(s)') <= Cardinality(ActiveIn(s)) + 1
      BY <1>0, <2>2, AddOne
    <3>2. Cardinality(ActiveIn(s)) < MaxActive /\ Cardinality(ActiveIn(s)) \in Nat
      <4>1. ActiveIn(Home[r]) = ActiveIn(s)
        BY <2>4
      <4> QED
        BY <1>0, <2>1, <4>1
    <3>3. \A k, m \in Nat : k <= m + 1 /\ m < MaxActive => k <= MaxActive
      OBVIOUS
    <3> HIDE DEF A
    <3> QED
      BY <3>1, <3>2, <3>3
  <2> QED
    BY <2>3, <2>4
<1> QED
  BY <1>4, <1>5, StatusStep

-----------------------------------------------------------------------------
(* Runs that wait *)

\* A run that was created and has no worker is in the queue of its workspace, or was
\* taken out of it while it was paused or ended.
WaitingIsQueued ==
  \A r \in Runs : status[r] # "none" /\ assigned[r] = {} =>
    r \in skipped \/ \E i \in 1..Len(runQueue[Home[r]]) : runQueue[Home[r]][i] = r

\* Only a heartbeat takes runs out of a queue: the one it assigns, and those it skips.
LEMMA WaitingStep ==
  ASSUME RunTypeOK, QueueInv, AssignInv, WaitingIsQueued, [RunNext]_runVars
  PROVE  WaitingIsQueued'
<1>0. /\ \A r \in Runs : Home[r] \in Workspaces
      /\ \A s \in Workspaces : runQueue[s] \in Seq(Runs) /\ Len(runQueue[s]) \in Nat
  BY RunsAssumption DEF RunTypeOK
<1>1. ASSUME NEW r \in Runs, CreateRun(r) PROVE WaitingIsQueued'
  <2>1. /\ UNCHANGED <<assigned, skipped>> /\ status' = [status EXCEPT ![r] = "awaiting_worker"]
        /\ runQueue' = [runQueue EXCEPT ![Home[r]] = Append(runQueue[Home[r]], r)]
    BY <1>1 DEF CreateRun, SetStatus, Becomes
  <2> DEFINE q == runQueue[Home[r]]
  <2>2. /\ runQueue'[Home[r]] = Append(q, r) /\ q \in Seq(Runs)
        /\ \A s \in Workspaces \ {Home[r]} : runQueue'[s] = runQueue[s]
    BY <1>0, <2>1 DEF RunTypeOK
  <2>3. /\ Len(Append(q, r)) = Len(q) + 1 /\ Append(q, r)[Len(q) + 1] = r
        /\ \A i \in 1..Len(q) : i \in 1..Len(Append(q, r)) /\ Append(q, r)[i] = q[i]
        /\ Len(q) + 1 \in 1..Len(Append(q, r))
    <3>1. Len(q) \in Nat
      BY <1>0
    <3> QED
      BY <2>2, <3>1, AppendProperties
  <2>4. ASSUME NEW x \in Runs, status'[x] # "none", assigned'[x] = {}
        PROVE  x \in skipped' \/ \E i \in 1..Len(runQueue'[Home[x]]) : runQueue'[Home[x]][i] = x
    <3>1. CASE x = r
      BY <2>2, <2>3, <3>1
    <3>2. CASE x # r
      <4>1. x \in skipped \/ \E i \in 1..Len(runQueue[Home[x]]) : runQueue[Home[x]][i] = x
        BY <2>1, <2>4, <3>2 DEF WaitingIsQueued, RunTypeOK
      <4>2. CASE Home[x] = Home[r]
        BY <2>1, <2>2, <2>3, <4>1, <4>2
      <4>3. CASE Home[x] # Home[r]
        BY <1>0, <2>1, <2>2, <4>1, <4>3
      <4> QED
        BY <4>2, <4>3
    <3> QED
      BY <3>1, <3>2
  <2> QED
    BY <2>4 DEF WaitingIsQueued
<1>2. ASSUME NEW w \in Workers, NEW n \in 1 .. Len(runQueue[Home[w]]) + 1, Heartbeat(w, n)
      PROVE  WaitingIsQueued'
  <2> DEFINE h == Home[w]
             q == runQueue[h]
             t == SubSeq(q, n + 1, Len(q))
  <2>1. /\ h \in Workspaces /\ q \in Seq(Runs) /\ Len(q) \in Nat /\ n \in 1..Len(q) + 1
        /\ \A i \in 1..Len(q) : q[i] \in Runs /\ Home[q[i]] = h
    BY <1>0, RunsAssumption DEF QueueInv, Idle
  <2>2. Assign(n, w) /\ IsFirst(n, w)
    BY <1>2 DEF Heartbeat
  <2>3. /\ runQueue' = [runQueue EXCEPT ![h] = t] /\ Taken(n, w) \subseteq Runs
    BY <2>2, AssignFacts
  <2>4. runQueue'[h] = t /\ \A s \in Workspaces \ {h} : runQueue'[s] = runQueue[s]
    BY <2>1, <2>3 DEF RunTypeOK
  <2>5. \A r \in Runs : assigned'[r] = {} => r \notin Taken(n, w) /\ assigned[r] = {} /\ status'[r] = status[r]
    BY <2>2 DEF Assign, Bind, Becomes, RunTypeOK
  <2>6. \A r \in Runs : n \in 1..Len(q) /\ r = q[n] => r \in Taken(n, w)
    BY <2>1 DEF Taken
  <2>7. ASSUME NEW i \in 1..Len(q), i < n PROVE q[i] \in skipped'
    <3>1. /\ Popped(n, w) \in Seq(Runs) /\ Len(Popped(n, w)) = n - 1
          /\ \A k \in 1 .. n - 1 : Popped(n, w)[k] = q[k]
      BY <2>1 DEF Popped
    <3>2. i \in 1..(n - 1) /\ i \in DOMAIN Popped(n, w) /\ Popped(n, w)[i] = q[i]
      BY <2>1, <2>7, <3>1
    <3>3. assigned[q[i]] = {}
      BY <2>1 DEF QueueInv, Idle
    <3>4. ~ Reserved(Popped(n, w)[i], w)
      BY <3>2, <3>3 DEF Reserved
    <3>5. skipped' = skipped \cup {Popped(n, w)[k] :
                        k \in {m \in DOMAIN Popped(n, w) : ~ Reserved(Popped(n, w)[m], w)}}
      BY <2>2 DEF Assign
    <3> QED
      BY <3>2, <3>4, <3>5
  <2>8. Len(t) = Len(q) - n \/ (n = Len(q) + 1 /\ Len(t) = 0)
    BY <2>1
  <2>9. ASSUME NEW i \in 1..Len(q), n < i PROVE i - n \in 1..Len(t) /\ t[i - n] = q[i]
    <3>1. n + (i - n) = i /\ i - n \in 1..(Len(q) - n) /\ Len(q) - n \in Nat
      BY <2>1, <2>9
    <3> QED
      BY <2>1, <2>9, <3>1
  <2> HIDE DEF t
  <2>10. ASSUME NEW r \in Runs, status'[r] # "none", assigned'[r] = {}
         PROVE  r \in skipped' \/ \E i \in 1..Len(runQueue'[Home[r]]) : runQueue'[Home[r]][i] = r
    <3>1. /\ r \notin Taken(n, w)
          /\ r \in skipped \/ \E i \in 1..Len(runQueue[Home[r]]) : runQueue[Home[r]][i] = r
      BY <2>5, <2>10 DEF WaitingIsQueued
    <3>2. skipped \subseteq skipped'
      BY <2>2 DEF Assign
    <3>3. CASE Home[r] # h
      BY <1>0, <2>4, <3>1, <3>2, <3>3
    <3>4. ASSUME Home[r] = h, NEW i \in 1..Len(q), q[i] = r
          PROVE  r \in skipped' \/ \E k \in 1..Len(t) : t[k] = r
      <4>1. i # n
        BY <2>6, <3>1, <3>4
      <4>2. i < n \/ n < i
        BY <2>1, <4>1
      <4> QED
        BY <2>7, <2>9, <3>4, <4>2
    <3> QED
      BY <2>4, <3>1, <3>2, <3>3, <3>4
  <2> QED
    BY <2>10 DEF WaitingIsQueued
<1>3. ASSUME UNCHANGED <<assigned, runQueue, skipped>> PROVE WaitingIsQueued'
  <2>1. (\A r \in Runs : status'[r] # "none" => status[r] # "none") \/ \E r \in Runs : CreateRun(r)
    BY StatusStep DEF Steady
  <2> QED
    BY <1>1, <1>3, <2>1 DEF WaitingIsQueued
<1> QED
  BY <1>1, <1>2, <1>3, ServiceStep

-----------------------------------------------------------------------------
(* The theorems *)

THEOREM RunInvariant == RunSpec => [](IInv /\ CapPerWorkspace)
<1>1. RunInit => IInv /\ CapPerWorkspace
  <2>1. ASSUME RunInit PROVE CapPerWorkspace
    <3>1. \A s : ActiveIn(s) = {}
      BY <2>1 DEF RunInit, ActiveIn
    <3> QED
      BY <3>1, FS_EmptySet, RunsAssumption DEF CapPerWorkspace
  <2> QED
    BY <2>1, RunInitInv
<1>2. IInv /\ CapPerWorkspace /\ [RunNext]_runVars => (IInv /\ CapPerWorkspace)'
  BY TypeStep, QueueStep, AssignStep, StopStep, CapStep DEF IInv
<1> QED
  BY <1>1, <1>2, PTL DEF RunSpec

\* The query of a run is sent at most once, whatever requests are lost and workers
\* restart, and the state is well typed.
THEOREM SentOnceTheorem == RunSpec => []SentOnce
<1>1. IInv => SentOnce
  BY DEF IInv, AssignInv, SentOnce
<1> QED
  BY <1>1, RunInvariant, PTL

\* create_run keeps a workspace within its limit, but for the runs that were revived.
THEOREM CapTheorem == RunSpec => []CapPerWorkspace
BY RunInvariant, PTL

\* A stop of a run that a worker executes is on its way, applied, or was lost.
THEOREM StopReachesTheorem == RunSpec => []StopReachesWorker
<1>1. IInv => StopReachesWorker
  BY DEF IInv, StopInv, StopSafe, StopReachesWorker
<1> QED
  BY <1>1, RunInvariant, PTL

\* The code that skips runs reserved for other workers never meets one.
THEOREM AssignmentTheorem == RunSpec => AssignmentIsFinal
<1> DEFINE Final == \A r \in Runs : assigned[r] # {} => assigned'[r] = assigned[r]
<1>1. ASSUME IInv, [RunNext]_runVars PROVE Final
  <2>1. CASE \E r \in Runs : CreateRun(r)
    BY <2>1 DEF CreateRun
  <2>2. ASSUME NEW w \in Workers, NEW n \in 1 .. Len(runQueue[Home[w]]) + 1, Heartbeat(w, n)
        PROVE  Final
    <3>1. \A r \in Taken(n, w) : assigned[r] = {}
      BY <1>1, <2>2, AssignFacts DEF IInv, Heartbeat
    <3> QED
      BY <2>2, <3>1 DEF Heartbeat, Assign, Bind
  <2>3. CASE UNCHANGED <<assigned, runQueue>>
    BY <2>3
  <2> QED
    BY <1>1, <2>1, <2>2, <2>3, ServiceStep
<1> HIDE DEF Final
<1>2. IInv /\ [RunNext]_runVars => [Final]_runVars
  BY <1>1
<1>3. RunSpec => [][Final]_runVars
  BY <1>2, RunInvariant, PTL DEF RunSpec
<1> QED
  BY <1>3 DEF AssignmentIsFinal, Final

\* No run is forgotten: what create_run puts in a queue stays there until a heartbeat
\* assigns it or skips it, whatever is paused, resumed, stopped, lost or restarted.
THEOREM WaitingTheorem == RunSpec => []WaitingIsQueued
<1>1. RunInit => WaitingIsQueued
  BY DEF RunInit, WaitingIsQueued
<1>2. IInv /\ WaitingIsQueued /\ [RunNext]_runVars => WaitingIsQueued'
  BY WaitingStep DEF IInv
<1> QED
  BY <1>1, <1>2, RunInvariant, PTL DEF RunSpec

=============================================================================
