--------------------------- MODULE SessionsProofs ---------------------------
(***************************************************************************)
(* Proofs about the sessions of a user: one session per conversation, none *)
(* once the last connection is gone, the newest settings in each, and no   *)
(* circle of waiting among the locks.                                      *)
(***************************************************************************)
EXTENDS Sessions, DataFacts, FiniteSetTheorems

-----------------------------------------------------------------------------
(* The inductive invariant *)

\* The connections that connection_counts counts.
Counted == {c \in Conns : pc[c] \in {"ulock", "slock", "open", "closing"}}

Plans == [config : Configs, busy : BOOLEAN, size : Nat]

Types ==
  /\ count \in Nat /\ IsFiniteSet(Counted) /\ count = Cardinality(Counted)
  /\ override \in Values /\ base \in 0..MaxGlobal /\ changed \in BOOLEAN
  /\ reg \in Seq(Ids) /\ ref \in Seq(Refs) /\ Len(ref) <= MaxSessions
  /\ cfg \in Seq(Configs) /\ Len(cfg) = Len(ref)
  /\ Registered \subseteq DOMAIN ref
  /\ userLock \in Locks \cup {None} /\ lockOf \in [Actors -> Locks \cup {None}]
  /\ slock \in [Ids -> Seq(Actors)]
  /\ held \subseteq Ids /\ \A s \in held : slock[s] # <<>>
  /\ job \in [Jobs -> [by : Conns \cup {None}, ref : Refs \cup {None}]]
  /\ cancelled \subseteq Jobs
  /\ plan \in [Actors -> Plans]
  /\ flaws \subseteq Flaws
  /\ DOMAIN pc = Actors

\* j is in the queue q.
In(q, j) == \E i \in DOMAIN q : q[i] = j

\* A task is in a queue once.
Single(q) == \A i, k \in DOMAIN q : q[i] = q[k] /\ q[i] \in Work => i = k

\* What waits for or holds the lock of a session works on it: unless it was cancelled,
\* on one that is registered.
Queued ==
  \A s \in Ids : /\ Single(slock[s])
                 /\ \A j \in Work : In(slock[s], j) =>
                      /\ pc[j] \in {"slock", "running"}
                      /\ "ended" \in flaws \/ j \in cancelled \/ s \in Registered

\* No two registered sessions are of the same conversation.
Distinct == \A s, t \in Registered : ref[s] = ref[t] => s = t

\* A task's connection is open, or has cancelled it.
LiveOpen ==
  \A j \in Jobs : pc[j] \notin {"idle", "done"} =>
    /\ job[j].by \in Conns /\ job[j].ref \in Refs
    /\ j \in cancelled \/ pc[job[j].by] = "open"

\* Sessions are there for a connection, or for the one that is about to end them.
Attended == reg = <<>> \/ count > 0 \/ \E c \in Conns : pc[c] = "eulock"

SessionsInv == Types /\ Queued /\ Distinct /\ LiveOpen /\ Attended

-----------------------------------------------------------------------------
(* Queues *)

\* q2 holds only work that q holds, and each of it once if q does.
Fewer(q2, q) ==
  /\ q2 \in Seq(Actors)
  /\ Single(q) => Single(q2)
  /\ \A j \in Work : In(q2, j) => In(q, j)

\* What Without leaves of a queue that a is in: all but one place of a.
LEMMA WithoutPlaces ==
  ASSUME NEW q \in Seq(Actors), NEW a, In(q, a)
  PROVE  \E i \in 1..Len(q) :
           /\ q[i] = a
           /\ Without(q, a) \in Seq(Actors) /\ Len(Without(q, a)) = Len(q) - 1
           /\ \A k \in 1..(Len(q) - 1) : Without(q, a)[k] = IF k < i THEN q[k] ELSE q[k + 1]
<1>l. Len(q) \in Nat /\ DOMAIN q = 1..Len(q) /\ \A k \in 1..Len(q) : q[k] \in Actors
  BY LenProperties
<1> DEFINE i == CHOOSE k \in DOMAIN q : q[k] = a
           left == SubSeq(q, 1, i - 1)
           right == SubSeq(q, i + 1, Len(q))
           w == left \o right
<1>1. i \in 1..Len(q) /\ q[i] = a
  BY <1>l DEF In
<1>2. Without(q, a) = w
  BY DEF Without, In
<1> HIDE DEF i
<1>n. Len(q) \in Nat /\ i \in Nat /\ i >= 1 /\ i <= Len(q)
  BY <1>l, <1>1
<1>3. /\ left \in Seq(Actors) /\ Len(left) = i - 1 /\ \A k \in 1..(i - 1) : left[k] = q[k]
  BY <1>l, <1>1, SubSeqProperties
<1>4. /\ right \in Seq(Actors) /\ Len(right) = Len(q) - i
      /\ \A k \in 1..(Len(q) - i) : right[k] = q[i + k]
  <2>1. i + 1 \in Int /\ Len(q) \in Int /\ \A k \in (i + 1)..Len(q) : q[k] \in Actors
    BY <1>l, <1>1
  <2>2. /\ right \in Seq(Actors) /\ Len(right) = IF i + 1 <= Len(q) THEN Len(q) - (i + 1) + 1 ELSE 0
        /\ \A k \in 1..(Len(q) - (i + 1) + 1) : right[k] = q[(i + 1) + k - 1]
    BY <2>1, SubSeqProperties
  <2> HIDE DEF right
  <2>3. Len(q) - (i + 1) + 1 = Len(q) - i
    BY <1>l, <1>1
  <2>4. Len(right) = Len(q) - i
    <3>1. CASE i + 1 <= Len(q)
      BY <2>2, <2>3, <3>1
    <3>2. CASE ~(i + 1 <= Len(q))
      <4>1. Len(q) - i = 0
        BY <1>n, <3>2
      <4> QED
        BY <2>2, <3>2, <4>1
    <3> QED
      BY <3>1, <3>2
  <2>5. ASSUME NEW k \in 1..(Len(q) - i) PROVE right[k] = q[i + k]
    <3>1. (i + 1) + k - 1 = i + k /\ k \in 1..(Len(q) - (i + 1) + 1)
      BY <1>l, <1>1, <2>3
    <3> QED
      BY <2>2, <3>1
  <2> QED
    BY <2>2, <2>4, <2>5
<1> HIDE DEF left, right
<1>5. /\ w \in Seq(Actors) /\ Len(w) = Len(left) + Len(right)
      /\ \A k \in 1..(Len(left) + Len(right)) :
           w[k] = IF k <= Len(left) THEN left[k] ELSE right[k - Len(left)]
  BY <1>3, <1>4, ConcatProperties
<1>6. Len(w) = Len(q) - 1
  BY <1>l, <1>1, <1>3, <1>4, <1>5
<1>7. ASSUME NEW k \in 1..(Len(q) - 1) PROVE w[k] = IF k < i THEN q[k] ELSE q[k + 1]
  <2>1. w[k] = IF k <= i - 1 THEN left[k] ELSE right[k - (i - 1)]
    BY <1>l, <1>1, <1>3, <1>4, <1>5
  <2>2. CASE k < i
    BY <1>1, <1>3, <2>1, <2>2
  <2>3. CASE ~(k < i)
    <3>1. k - (i - 1) \in 1..(Len(q) - i) /\ i + (k - (i - 1)) = k + 1 /\ ~(k <= i - 1)
      BY <1>l, <1>1, <2>3
    <3> QED
      BY <1>4, <2>1, <2>3, <3>1
  <2> QED
    BY <2>2, <2>3
<1> QED
  BY <1>1, <1>2, <1>5, <1>6, <1>7

LEMMA WithoutFacts ==
  ASSUME NEW q \in Seq(Actors), NEW a
  PROVE  /\ Fewer(Without(q, a), q)
         /\ Single(q) /\ a \in Work => ~In(Without(q, a), a)
         /\ q # <<>> /\ Head(q) # a => Without(q, a) # <<>>
<1>l. Len(q) \in Nat /\ DOMAIN q = 1..Len(q)
  BY LenProperties
<1>1. CASE ~In(q, a)
  BY <1>1, <1>l DEF Without, Fewer, In
<1>2. CASE In(q, a)
  <2> DEFINE w == Without(q, a)
  <2>1. PICK i \in 1..Len(q) :
          /\ q[i] = a /\ w \in Seq(Actors) /\ Len(w) = Len(q) - 1
          /\ \A k \in 1..(Len(q) - 1) : w[k] = IF k < i THEN q[k] ELSE q[k + 1]
    BY <1>2, WithoutPlaces
  <2> HIDE DEF w
  <2>2. DOMAIN w = 1..(Len(q) - 1)
    BY <2>1, LenProperties
  \* The place in q of the k-th element of w.
  <2> DEFINE Place(k) == IF k < i THEN k ELSE k + 1
  <2>3. \A k \in DOMAIN w : Place(k) \in DOMAIN q /\ Place(k) # i /\ w[k] = q[Place(k)]
    BY <1>l, <2>1, <2>2
  <2>4. \A k, n \in DOMAIN w : Place(k) = Place(n) => k = n
    BY <1>l, <2>1, <2>2
  <2> HIDE DEF Place
  <2>5. \A j : In(w, j) => In(q, j)
    BY <2>3 DEF In
  <2>6. Single(q) => Single(w)
    BY <2>3, <2>4 DEF Single
  <2>7. Single(q) /\ a \in Work => ~In(w, a)
    BY <1>l, <2>1, <2>3 DEF In, Single
  <2>8. q # <<>> /\ Head(q) # a => w # <<>>
    <3> SUFFICES ASSUME q[1] # a PROVE Len(w) # 0
      BY DEF w
    <3> QED
      BY <1>l, <2>1
  <2> QED
    BY <2>1, <2>5, <2>6, <2>7, <2>8 DEF Fewer, w
<1> QED
  BY <1>1, <1>2

LEMMA TailFacts ==
  ASSUME NEW q \in Seq(Actors), q # <<>>
  PROVE  Fewer(Tail(q), q)
<1>1. /\ Tail(q) \in Seq(Actors) /\ Len(Tail(q)) = Len(q) - 1 /\ Len(q) \in Nat
      /\ \A i \in 1..(Len(q) - 1) : Tail(q)[i] = q[i + 1]
  BY HeadTailProperties, LenProperties
<1>2. DOMAIN q = 1..Len(q) /\ DOMAIN Tail(q) = 1..(Len(q) - 1)
  BY <1>1, LenProperties
<1>3. \A j : In(Tail(q), j) => In(q, j)
  BY <1>1, <1>2 DEF In
<1>4. Single(q) => Single(Tail(q))
  BY <1>1, <1>2 DEF Single
<1> QED
  BY <1>1, <1>3, <1>4 DEF Fewer

LEMMA AppendFacts ==
  ASSUME NEW q \in Seq(Actors), NEW a \in Actors
  PROVE  /\ Append(q, a) \in Seq(Actors) /\ Append(q, a) # <<>>
         /\ \A j : In(Append(q, a), j) <=> In(q, j) \/ j = a
         /\ Single(q) /\ (a \notin Work \/ ~In(q, a)) => Single(Append(q, a))
<1> DEFINE w == Append(q, a)
<1>1. /\ w \in Seq(Actors) /\ Len(w) = Len(q) + 1 /\ Len(q) \in Nat /\ w[Len(q) + 1] = a
      /\ \A i \in 1..Len(q) : w[i] = q[i]
  BY AppendProperties, LenProperties
<1>2. DOMAIN q = 1..Len(q) /\ DOMAIN w = 1..(Len(q) + 1)
  BY <1>1, LenProperties
<1> HIDE DEF w
<1>3. \A j : In(w, j) <=> In(q, j) \/ j = a
  BY <1>1, <1>2 DEF In
<1>4. Single(q) /\ (a \notin Work \/ ~In(q, a)) => Single(w)
  BY <1>1, <1>2 DEF In, Single
<1>5. w # <<>>
  BY <1>1
<1> QED
  BY <1>1, <1>3, <1>4, <1>5 DEF w

-----------------------------------------------------------------------------
(* What the steps have in common *)

LEMMA ActorFacts ==
  /\ Work \subseteq Jobs /\ Settings \subseteq Jobs /\ Jobs \subseteq Actors /\ Conns \subseteq Actors
  /\ Jobs \cap Conns = {} /\ Settings \cap Work = {}
  /\ Deferred \in Actors \ (Jobs \cup Conns) /\ Global \in Actors \ (Jobs \cup Conns)
  /\ Deferred # Global /\ None \notin Conns
  /\ \A a : AfterLoop(a) \in {"leave", "check", "open", "done"}
  /\ \A c \in Conns : AfterLoop(c) = "open"
  /\ \A j \in Settings : AfterLoop(j) = "done"
BY SessionsAssumption DEF Jobs, Work, Actors, AfterLoop

\* What a visitor changes, q being the queues when it comes.
Visited(a, q) ==
  /\ cfg' \in Seq(Configs) /\ Len(cfg') = Len(cfg)
  /\ plan' \in [Actors -> Plans]
  /\ slock' \in [Ids -> Seq(Actors)]
  /\ \A s \in Ids : Fewer(slock'[s], q[s]) /\ (q[s] # <<>> => slock'[s] # <<>>)
  /\ DOMAIN pc' = Actors /\ (a \in Jobs \cup Conns => pc'[a] \in {"ulock", "slock", AfterLoop(a)})
  /\ \A b \in Actors \ {a, Deferred} : pc'[b] = pc[b]
  /\ (flaws' = flaws \/ flaws' = flaws \cup {"config"})

LEMMA VisitFacts ==
  ASSUME Types, NEW a \in Actors \ Work, NEW got, NEW list, NEW p \in Plans,
         NEW q \in [Ids -> Seq(Actors)], NEW flawed, Visit(a, got, list, p, q, flawed)
  PROVE  Visited(a, q)
<1> DEFINE stops == Stops(a, list, p.config, q)
           last == IF stops = {} THEN Len(list) ELSE (CHOOSE i \in stops : \A k \in stops : i <= k) - 1
           idle == got \cup {list[i] : i \in {k \in 1..last : q[list[k]] = <<>>}}
           busy == p.busy \/ \E i \in 1..last : q[list[i]] # <<>> /\ cfg[list[i]] # p.config
<1>1. /\ cfg' = [s \in DOMAIN cfg |-> IF s \in idle THEN p.config ELSE cfg[s]]
      /\ plan' = [plan EXCEPT ![a] = IF stops = {} THEN NoPlan ELSE [p EXCEPT !.busy = busy]]
      /\ slock' = IF stops = {} THEN q ELSE [q EXCEPT ![list[last + 1]] = Append(@, a)]
      /\ pc' = [b \in Actors |->
                  IF b = a THEN IF stops # {} THEN "slock" ELSE AfterLoop(a)
                  ELSE IF b = Deferred /\ stops = {} /\ Scheduled(a, busy) THEN "start"
                  ELSE pc[b]]
      /\ flaws' = IF flawed \/ (stops # {} /\ a \notin {Global, Deferred})
                  THEN flaws \cup {"config"} ELSE flaws
  BY DEF Visit
<1>2. busy \in BOOLEAN
  OBVIOUS
<1> HIDE DEF stops, last, idle, busy
<1>3. cfg' \in Seq(Configs) /\ Len(cfg') = Len(cfg)
  <2>1. /\ cfg \in Seq(Configs) /\ Len(cfg) \in Nat /\ DOMAIN cfg = 1..Len(cfg)
        /\ \A s \in 1..Len(cfg) : cfg[s] \in Configs
    BY LenProperties DEF Types
  <2>2. p.config \in Configs
    BY DEF Plans
  <2>3. cfg' \in [1..Len(cfg) -> Configs]
    BY <1>1, <2>1, <2>2
  <2> QED
    BY <2>1, <2>3
<1>4. plan' \in [Actors -> Plans]
  <2>1. NoPlan \in Plans
    BY SessionsAssumption DEF NoPlan, Plans, Configs, Values
  <2>2. [p EXCEPT !.busy = busy] \in Plans
    BY <1>2 DEF Plans
  <2> QED
    BY <1>1, <2>1, <2>2 DEF Types
<1>5. slock' \in [Ids -> Seq(Actors)] /\ \A s \in Ids : Fewer(slock'[s], q[s]) /\ (q[s] # <<>> => slock'[s] # <<>>)
  <2>1. ASSUME NEW s \in Ids PROVE Fewer(q[s], q[s])
    BY DEF Fewer
  <2>2. CASE stops = {}
    BY <1>1, <2>1, <2>2
  <2>3. CASE stops # {}
    <3>1. slock' = [q EXCEPT ![list[last + 1]] = Append(@, a)]
      BY <1>1, <2>3
    <3>2. ASSUME NEW s \in Ids PROVE Append(q[s], a) \in Seq(Actors) /\ Append(q[s], a) # <<>> /\ Fewer(Append(q[s], a), q[s])
      BY AppendFacts DEF Fewer
    <3>3. slock' \in [Ids -> Seq(Actors)] /\ \A s \in Ids : slock'[s] = q[s] \/ slock'[s] = Append(q[s], a)
      BY <3>1, <3>2
    <3> QED
      BY <2>1, <3>2, <3>3
  <2> QED
    BY <2>2, <2>3
<1>6. /\ DOMAIN pc' = Actors /\ pc'[a] \in {"slock", AfterLoop(a)}
      /\ \A b \in Actors \ {a, Deferred} : pc'[b] = pc[b]
  BY <1>1
<1> QED
  BY <1>1, <1>3, <1>4, <1>5, <1>6 DEF Visited

\* The connections that are counted, when one more is.
LEMMA CountMore ==
  ASSUME Types, NEW c \in Conns, c \notin Counted, Counted' = Counted \cup {c}, count' = count + 1
  PROVE  count' \in Nat /\ IsFiniteSet(Counted') /\ count' = Cardinality(Counted')
BY FS_AddElement DEF Types

LEMMA WaitFacts ==
  ASSUME Types, NEW a \in Actors, pc' = [pc EXCEPT ![a] = "ulock"], UNCHANGED <<cfg, slock, plan, flaws>>
  PROVE  Visited(a, slock)
BY DEF Types, Visited, Fewer

\* A task that is not done keeps what it is for.
LEMMA ForgetFacts ==
  ASSUME Types, Forget \/ UNCHANGED <<job, cancelled>>
  PROVE  /\ job' \in [Jobs -> [by : Conns \cup {None}, ref : Refs \cup {None}]]
         /\ cancelled' \subseteq cancelled
         /\ \A j \in Jobs : pc'[j] # "done" => job'[j] = job[j] /\ (j \in cancelled => j \in cancelled')
<1>1. CASE Forget
  <2>1. NoJob \in [by : Conns \cup {None}, ref : Refs \cup {None}]
    BY DEF NoJob
  <2> QED
    BY <1>1, <2>1 DEF Types, Forget
<1>2. CASE UNCHANGED <<job, cancelled>>
  BY <1>2 DEF Types
<1> QED
  BY <1>1, <1>2

\* A step of a visitor: it leaves the sessions, the work and the open connections as they are.
LEMMA VisitorStep ==
  ASSUME SessionsInv, NEW a \in Actors \ Work, NEW q, Visited(a, q),
         \A s \in Ids : Fewer(q[s], slock[s]) /\ (s \in held => q[s] # <<>>),
         a \in Settings => pc[a] \in {"start", "ulock", "slock"},
         a \in Conns => pc[a] \in {"idle", "ulock", "slock"},
         UNCHANGED <<reg, ref, held>>,
         override' \in Values, base' \in 0..MaxGlobal, changed' \in BOOLEAN,
         userLock' \in Locks \cup {None}, lockOf' \in [Actors -> Locks \cup {None}],
         Forget \/ UNCHANGED <<job, cancelled>>,
         \/ count' = count /\ (a \in Conns => pc[a] \in {"ulock", "slock"})
         \/ count' = count + 1 /\ a \in Conns /\ pc[a] = "idle"
  PROVE  SessionsInv'
<1>0. Types /\ Queued /\ Distinct /\ LiveOpen /\ Attended
  BY DEF SessionsInv
<1>1. /\ \A b \in Actors \ {a, Deferred} : pc'[b] = pc[b]
      /\ a \in Jobs \cup Conns => pc'[a] \in {"ulock", "slock", AfterLoop(a)}
  BY DEF Visited
<1>2. /\ \A j \in Work : pc'[j] = pc[j]
      /\ \A j \in Settings : \/ pc'[j] = pc[j]
                             \/ pc[j] \in {"start", "ulock", "slock"} /\ pc'[j] \in {"ulock", "slock", "done"}
      /\ \A c \in Conns : \/ pc'[c] = pc[c]
                          \/ c = a /\ pc[c] \in {"idle", "ulock", "slock"} /\ pc'[c] \in {"ulock", "slock", "open"}
  BY <1>1, ActorFacts
<1>3. /\ cancelled' \subseteq cancelled
      /\ \A j \in Jobs : pc'[j] # "done" => job'[j] = job[j] /\ (j \in cancelled => j \in cancelled')
  BY <1>0, ForgetFacts
<1>4. Registered' = Registered
  BY DEF Registered
<1>5. count' >= count /\ count' \in Nat /\ IsFiniteSet(Counted') /\ count' = Cardinality(Counted')
  <2>1. CASE count' = count /\ (a \in Conns => pc[a] \in {"ulock", "slock"})
    <3>1. Counted' = Counted
      BY <1>2, <2>1 DEF Counted
    <3> QED
      BY <1>0, <2>1, <3>1 DEF Types
  <2>2. CASE count' = count + 1 /\ a \in Conns /\ pc[a] = "idle"
    <3>1. Counted' = Counted \cup {a} /\ a \notin Counted
      BY <1>1, <1>2, <2>2, ActorFacts DEF Counted
    <3>2. count' \in Nat /\ IsFiniteSet(Counted') /\ count' = Cardinality(Counted')
      BY <1>0, <2>2, <3>1, CountMore
    <3> QED
      BY <1>0, <2>2, <3>2 DEF Types
  <2> QED
    BY <2>1, <2>2
<1>6. Types'
  <2>1. job' \in [Jobs -> [by : Conns \cup {None}, ref : Refs \cup {None}]]
    BY <1>0, ForgetFacts
  <2>2. cancelled' \subseteq Jobs /\ flaws' \subseteq Flaws
    BY <1>0, <1>3 DEF Types, Visited, Flaws
  <2>3. \A s \in held' : slock'[s] # <<>>
    BY <1>0 DEF Types, Visited
  <2> QED
    BY <1>0, <1>4, <1>5, <2>1, <2>2, <2>3 DEF Types, Visited
<1>7. Queued'
  <2> SUFFICES ASSUME NEW s \in Ids
               PROVE  /\ Single(slock'[s])
                      /\ \A j \in Work : In(slock'[s], j) =>
                           /\ pc'[j] \in {"slock", "running"}
                           /\ "ended" \in flaws' \/ j \in cancelled' \/ s \in Registered'
    BY DEF Queued
  <2>1. /\ Single(slock[s]) => Single(slock'[s])
        /\ \A j \in Work : In(slock'[s], j) => In(slock[s], j)
    BY DEF Visited, Fewer
  <2>2. "ended" \in flaws => "ended" \in flaws'
    BY DEF Visited
  <2> QED
    BY <1>0, <1>2, <1>3, <1>4, <2>1, <2>2, ActorFacts DEF Queued
<1>8. Distinct'
  BY <1>0, <1>4 DEF Distinct
<1>9. LiveOpen'
  <2> SUFFICES ASSUME NEW j \in Jobs, pc'[j] \notin {"idle", "done"}
               PROVE  /\ job'[j].by \in Conns /\ job'[j].ref \in Refs
                      /\ j \in cancelled' \/ pc'[job'[j].by] = "open"
    BY DEF LiveOpen
  <2>1. pc[j] \notin {"idle", "done"}
    BY <1>2 DEF Jobs
  <2>2. job'[j] = job[j] /\ (j \in cancelled => j \in cancelled')
    BY <1>3
  <2> QED
    BY <1>0, <1>2, <2>1, <2>2 DEF LiveOpen
<1>10. Attended'
  BY <1>0, <1>2, <1>5 DEF Attended, Types
<1> QED
  BY <1>6, <1>7, <1>8, <1>9, <1>10 DEF SessionsInv

-----------------------------------------------------------------------------
(* The visitors, action by action *)

LEMMA PlanFacts ==
  ASSUME Types, NEW config \in Configs
  PROVE  PlanOf(config) \in Plans
<1>1. Len(reg) \in Nat
  BY LenProperties DEF Types
<1> QED
  BY <1>1 DEF PlanOf, Plans

LEMMA LockFacts ==
  ASSUME Types
  PROVE  LockObjects \subseteq Locks
BY DEF LockObjects, Types

LEMMA ApplyFacts ==
  ASSUME Types, NEW a \in Actors \ Work, NEW v \in Values, NEW l, ApplyUpdate(a, v, l)
  PROVE  Visited(a, slock) /\ override' \in Values /\ changed' \in BOOLEAN
<1>1. PlanOf([value |-> v, base |-> base]) \in Plans
  BY PlanFacts DEF Configs, Types
<1>2. Visited(a, slock)
  BY <1>1, VisitFacts DEF ApplyUpdate, Types
<1> QED
  BY <1>2 DEF ApplyUpdate, Types

LEMMA RequestFacts ==
  ASSUME Types, NEW a \in Actors \ Work, NEW v \in Values, RequestUpdate(a, v)
  PROVE  /\ Visited(a, slock) /\ override' \in Values /\ changed' \in BOOLEAN
         /\ userLock' \in Locks \cup {None} /\ lockOf' \in [Actors -> Locks \cup {None}]
<1>1. PICK l \in LockObjects :
        /\ userLock' = l
        /\ \/ PassesThrough(l) /\ ApplyUpdate(a, v, l)
           \/ /\ locks[l] # <<>> /\ Waits(a, l)
              /\ pc' = [pc EXCEPT ![a] = "ulock"]
              /\ UNCHANGED <<override, changed, cfg, slock, todo, plan, flaws>>
  BY DEF RequestUpdate
<1>2. l \in Locks
  BY LockFacts
<1>3. CASE PassesThrough(l) /\ ApplyUpdate(a, v, l)
  BY <1>1, <1>2, <1>3, ApplyFacts DEF PassesThrough, Types
<1>4. CASE /\ Waits(a, l)
           /\ pc' = [pc EXCEPT ![a] = "ulock"]
           /\ UNCHANGED <<override, changed, cfg, slock, todo, plan, flaws>>
  BY <1>1, <1>2, <1>4, WaitFacts DEF Waits, Types
<1> QED
  BY <1>1, <1>3, <1>4

LEMMA SameQueues ==
  ASSUME Types
  PROVE  \A s \in Ids : Fewer(slock[s], slock[s]) /\ (s \in held => slock[s] # <<>>)
BY DEF Types, Fewer

LEMMA UpdateSettingsStep ==
  ASSUME SessionsInv, NEW j \in Jobs, UpdateSettings(j)
  PROVE  SessionsInv'
<1>1. Types /\ j \in Settings /\ pc[j] = "start" /\ j \in Actors \ Work /\ j \notin Conns /\ Asked(j) \in Values
  BY ActorFacts DEF SessionsInv, UpdateSettings, Asked, Values
<1>2. /\ Visited(j, slock) /\ override' \in Values /\ changed' \in BOOLEAN
      /\ userLock' \in Locks \cup {None} /\ lockOf' \in [Actors -> Locks \cup {None}]
  BY <1>1, RequestFacts DEF UpdateSettings
<1> QED
  BY <1>1, <1>2, SameQueues, VisitorStep DEF UpdateSettings, UpdateRest, regVars, Types

LEMMA OpenWithOverridesStep ==
  ASSUME SessionsInv, NEW c \in Conns, OpenWithOverrides(c)
  PROVE  SessionsInv'
<1>1. Types /\ pc[c] = "idle" /\ c \in Actors \ Work /\ c \notin Settings /\ Asked(c) \in Values
  BY ActorFacts DEF SessionsInv, OpenWithOverrides, Asked, Values
<1>2. /\ Visited(c, slock) /\ override' \in Values /\ changed' \in BOOLEAN
      /\ userLock' \in Locks \cup {None} /\ lockOf' \in [Actors -> Locks \cup {None}]
  BY <1>1, RequestFacts DEF OpenWithOverrides
<1> QED
  BY <1>1, <1>2, SameQueues, VisitorStep DEF OpenWithOverrides, UpdateRest, regVars, Types

LEMMA UpdateLockedStep ==
  ASSUME SessionsInv, NEW a \in Actors, UpdateLocked(a)
  PROVE  SessionsInv'
<1>1. Types /\ pc[a] = "ulock" /\ a \in Actors \ Work /\ Asked(a) \in Values
  BY ActorFacts DEF SessionsInv, UpdateLocked, Asked, Values
<1>2. Visited(a, slock) /\ override' \in Values /\ changed' \in BOOLEAN
  BY <1>1, ApplyFacts DEF UpdateLocked
<1>3. lockOf' \in [Actors -> Locks \cup {None}]
  BY <1>1 DEF UpdateLocked, Leaves, Types
<1> QED
  BY <1>1, <1>2, <1>3, SameQueues, VisitorStep DEF UpdateLocked, UpdateRest, regVars, Types

LEMMA ApplyWaitedStep ==
  ASSUME SessionsInv, NEW a \in Actors, ApplyWaited(a)
  PROVE  SessionsInv'
<1>1. Types /\ pc[a] = "slock" /\ a \in Actors \ Work
  BY DEF SessionsInv, ApplyWaited
<1>2. PICK s \in Ids \ held :
        /\ slock[s] # <<>>
        /\ LET rest == IF a = Global /\ Len(reg) # plan[a].size THEN <<>> ELSE Tail(todo[a])
           IN  Visit(a, {s}, rest, plan[a], [slock EXCEPT ![s] = Tail(@)], FALSE)
  BY DEF ApplyWaited
<1> DEFINE q == [slock EXCEPT ![s] = Tail(@)]
<1>3. Fewer(Tail(slock[s]), slock[s])
  BY <1>1, <1>2, TailFacts DEF Types
<1>4. q \in [Ids -> Seq(Actors)] /\ \A t \in Ids : Fewer(q[t], slock[t]) /\ (t \in held => q[t] # <<>>)
  BY <1>1, <1>3, SameQueues DEF Types, Fewer
<1>5. Visited(a, q)
  <2>1. plan[a] \in Plans
    BY <1>1 DEF Types
  <2> QED
    BY <1>1, <1>2, <1>4, <2>1, VisitFacts
<1> HIDE DEF q
<1> QED
  BY <1>1, <1>4, <1>5, VisitorStep
  DEF ApplyWaited, UpdateRest, regVars, lockVars, Types

LEMMA EffectiveFacts == Types => Effective \in Configs /\ Deferred \in Actors \ Work /\ Global \in Actors \ Work
BY ActorFacts DEF Types, Effective, Configs

LEMMA BeginRoundFacts ==
  ASSUME Types, BeginRound
  PROVE  Visited(Deferred, slock) /\ changed' \in BOOLEAN
<1>1. PlanOf(Effective) \in Plans
  BY PlanFacts, EffectiveFacts
<1>2. Visited(Deferred, slock)
  BY <1>1, VisitFacts, EffectiveFacts DEF BeginRound, Types
<1> QED
  BY <1>2 DEF BeginRound

LEMMA DeferredStep ==
  ASSUME SessionsInv, DeferredNext
  PROVE  SessionsInv'
<1>1. /\ Types /\ Deferred \in Actors \ Work /\ Deferred \notin Settings /\ Deferred \notin Conns
      /\ \A s \in Ids : Fewer(slock[s], slock[s]) /\ (s \in held => slock[s] # <<>>)
  BY ActorFacts, SameQueues DEF SessionsInv
<1>2. SUFFICES /\ Visited(Deferred, slock) /\ changed' \in BOOLEAN /\ UNCHANGED DeferredRest
               /\ userLock' \in Locks \cup {None} /\ lockOf' \in [Actors -> Locks \cup {None}]
  BY <1>1, VisitorStep DEF DeferredRest, regVars, Types
<1>3. CASE DeferredStart
  <2>1. PICK l \in LockObjects :
          /\ userLock' = l
          /\ lockOf' = [lockOf EXCEPT ![Deferred] = l]
          /\ \/ BeginRound
             \/ /\ pc' = [pc EXCEPT ![Deferred] = "ulock"]
                /\ UNCHANGED <<changed, cfg, slock, todo, plan, flaws>>
    BY <1>3 DEF DeferredStart
  <2>2. l \in Locks
    BY <1>1, LockFacts
  <2>3. Visited(Deferred, slock) /\ changed' \in BOOLEAN
    BY <1>1, <2>1, BeginRoundFacts, WaitFacts DEF Types
  <2> QED
    BY <1>1, <1>3, <2>1, <2>2, <2>3 DEF DeferredStart, Types
<1>4. CASE DeferredLocked
  BY <1>1, <1>4, BeginRoundFacts DEF DeferredLocked, Types
<1>5. CASE DeferredCheck
  <2>1. Visited(Deferred, slock)
    BY <1>1, <1>5 DEF DeferredCheck, Visited, Types, Jobs
  <2> QED
    BY <1>1, <1>5, <2>1 DEF DeferredCheck, Types
<1> QED
  BY <1>3, <1>4, <1>5 DEF DeferredNext

LEMMA UpdateAllStep ==
  ASSUME SessionsInv, UpdateAll \/ UpdateAllLocked \/ UpdateAllEnd
  PROVE  SessionsInv'
<1>1. /\ Types /\ Global \in Actors \ Work /\ Global \notin Settings /\ Global \notin Conns
      /\ \A s \in Ids : Fewer(slock[s], slock[s]) /\ (s \in held => slock[s] # <<>>)
  BY ActorFacts, SameQueues DEF SessionsInv
<1>2. SUFFICES /\ Visited(Global, slock) /\ base' \in 0..MaxGlobal /\ UNCHANGED GlobalRest
               /\ userLock' \in Locks \cup {None} /\ lockOf' \in [Actors -> Locks \cup {None}]
  BY <1>1, VisitorStep DEF GlobalRest, regVars, Types
<1>3. ASSUME NEW l, NEW config \in Configs, VisitAll(l, config) PROVE Visited(Global, slock)
  <2>1. PlanOf(config) \in Plans
    BY <1>1, PlanFacts
  <2> QED
    BY <1>1, <1>3, <2>1, VisitFacts DEF VisitAll, Types
<1>4. CASE UpdateAll
  <2>1. base' \in 0..MaxGlobal /\ [Effective EXCEPT !.base = base + 1] \in Configs
    BY <1>1, <1>4, SessionsAssumption DEF UpdateAll, Types, Effective, Configs
  <2>2. CASE reg = <<>>
    <3>1. UNCHANGED <<lockVars, cfg, slock, todo, plan, pc, flaws>>
      BY <1>4, <2>2 DEF UpdateAll
    <3>2. Visited(Global, slock)
      BY <1>1, <3>1 DEF Visited, Types, Jobs
    <3> QED
      BY <1>1, <1>4, <2>1, <3>1, <3>2 DEF UpdateAll, lockVars, Types
  <2>3. CASE reg # <<>>
    <3>1. PICK l \in LockObjects :
            /\ userLock' = l /\ lockOf' = [lockOf EXCEPT ![Global] = l]
            /\ \/ VisitAll(l, [Effective EXCEPT !.base = base + 1])
               \/ /\ pc' = [pc EXCEPT ![Global] = "ulock"]
                  /\ UNCHANGED <<cfg, slock, todo, plan, flaws>>
      BY <1>4, <2>3 DEF UpdateAll
    <3>2. l \in Locks
      BY <1>1, LockFacts
    <3>3. Visited(Global, slock)
      BY <1>1, <1>3, <2>1, <3>1, WaitFacts
    <3> QED
      BY <1>1, <1>4, <2>1, <3>1, <3>2, <3>3 DEF UpdateAll, Types
  <2> QED
    BY <2>2, <2>3
<1>5. CASE UpdateAllLocked
  <2>1. Visited(Global, slock)
    BY <1>1, <1>3, <1>5, EffectiveFacts DEF UpdateAllLocked
  <2> QED
    BY <1>1, <1>5, <2>1 DEF UpdateAllLocked, Types
<1>6. CASE UpdateAllEnd
  <2>1. Visited(Global, slock)
    BY <1>1, <1>6, ActorFacts DEF UpdateAllEnd, Visited, Types, Jobs
  <2> QED
    BY <1>1, <1>6, <2>1 DEF UpdateAllEnd, Leaves, Types
<1> QED
  BY <1>4, <1>5, <1>6

-----------------------------------------------------------------------------
(* Queries and compactions *)

\* The step of a task that neither visits sessions nor joins one: it goes on to run,
\* or is done.
LEMMA TaskStep ==
  ASSUME SessionsInv, NEW j \in Jobs, NEW x \in {"running", "done"},
         pc[j] \notin {"idle", "done"}, pc' = [pc EXCEPT ![j] = x],
         Forget \/ UNCHANGED <<job, cancelled>>,
         slock' \in [Ids -> Seq(Actors)], \A s \in Ids : Fewer(slock'[s], slock[s]),
         x = "done" /\ j \in Work => \A s \in Ids : ~In(slock'[s], j),
         held' \subseteq Ids, \A s \in held' : slock'[s] # <<>>,
         flaws' = flaws \/ flaws' = flaws \cup {"config"},
         lockOf' \in [Actors -> Locks \cup {None}],
         UNCHANGED <<count, userVars, regVars, cfg, userLock, plan>>
  PROVE  SessionsInv'
<1>0. /\ Types /\ Queued /\ Distinct /\ LiveOpen /\ Attended
      /\ UNCHANGED <<count, override, changed, base, reg, ref, cfg, userLock, plan>>
  BY DEF SessionsInv, userVars, regVars
<1>1. /\ DOMAIN pc' = Actors /\ \A b \in Actors \ {j} : pc'[b] = pc[b]
      /\ pc'[j] = x /\ \A c \in Conns : c # j /\ c \in Actors
  BY <1>0, ActorFacts DEF Types
<1>2. /\ job' \in [Jobs -> [by : Conns \cup {None}, ref : Refs \cup {None}]]
      /\ cancelled' \subseteq cancelled
      /\ \A k \in Jobs : pc'[k] # "done" => job'[k] = job[k] /\ (k \in cancelled => k \in cancelled')
  BY <1>0, ForgetFacts
<1>3. Registered' = Registered /\ Counted' = Counted
  BY <1>0, <1>1 DEF Registered, Counted
<1>4. Types'
  <2>1. flaws' \subseteq Flaws
    BY <1>0 DEF Types, Flaws
  <2> QED
    BY <1>0, <1>1, <1>2, <1>3, <2>1 DEF Types
<1>5. Queued'
  <2> SUFFICES ASSUME NEW s \in Ids
               PROVE  /\ Single(slock'[s])
                      /\ \A k \in Work : In(slock'[s], k) =>
                           /\ pc'[k] \in {"slock", "running"}
                           /\ "ended" \in flaws' \/ k \in cancelled' \/ s \in Registered'
    BY DEF Queued
  <2>1. /\ Single(slock'[s])
        /\ \A k \in Work : In(slock'[s], k) => In(slock[s], k)
    BY <1>0 DEF Queued, Fewer
  <2>2. ASSUME NEW k \in Work, In(slock'[s], k)
        PROVE  /\ pc'[k] \in {"slock", "running"}
               /\ "ended" \in flaws' \/ k \in cancelled' \/ s \in Registered'
    <3>1. /\ pc[k] \in {"slock", "running"}
          /\ "ended" \in flaws \/ k \in cancelled \/ s \in Registered
      BY <1>0, <2>1, <2>2 DEF Queued
    <3>2. pc'[k] \in {"slock", "running"} /\ k \in Jobs
      BY <1>1, <2>2, <3>1, ActorFacts
    <3> QED
      BY <1>2, <1>3, <3>1, <3>2
  <2> QED
    BY <2>1, <2>2
<1>6. Distinct'
  BY <1>0, <1>3 DEF Distinct
<1>7. LiveOpen'
  <2> SUFFICES ASSUME NEW k \in Jobs, pc'[k] \notin {"idle", "done"}
               PROVE  /\ job'[k].by \in Conns /\ job'[k].ref \in Refs
                      /\ k \in cancelled' \/ pc'[job'[k].by] = "open"
    BY DEF LiveOpen
  <2>1. pc[k] \notin {"idle", "done"}
    BY <1>1, ActorFacts
  <2> QED
    BY <1>0, <1>1, <1>2, <2>1 DEF LiveOpen
<1>8. Attended'
  BY <1>0, <1>1 DEF Attended
<1> QED
  BY <1>4, <1>5, <1>6, <1>7, <1>8 DEF SessionsInv

LEMMA LeavesFacts ==
  ASSUME Types, NEW a \in Actors, LeavesSessions(a)
  PROVE  /\ slock' \in [Ids -> Seq(Actors)] /\ \A s \in Ids : Fewer(slock'[s], slock[s])
         /\ held' \subseteq Ids /\ \A s \in held' : slock'[s] # <<>>
         /\ Queued /\ a \in Work => \A s \in Ids : ~In(slock'[s], a)
<1>1. \A s \in Ids : /\ slock[s] \in Seq(Actors) /\ Fewer(Without(slock[s], a), slock[s])
                     /\ Single(slock[s]) /\ a \in Work => ~In(Without(slock[s], a), a)
                     /\ slock[s] # <<>> /\ Head(slock[s]) # a => Without(slock[s], a) # <<>>
  BY WithoutFacts DEF Types
<1>2. slock' = [s \in Ids |-> Without(slock[s], a)] /\ held' = {s \in held : Head(slock[s]) # a}
  BY DEF LeavesSessions
<1>3. slock' \in [Ids -> Seq(Actors)] /\ \A s \in Ids : slock'[s] = Without(slock[s], a)
  BY <1>1, <1>2 DEF Fewer
<1>4. held' \subseteq Ids /\ \A s \in held' : s \in Ids /\ slock[s] # <<>> /\ Head(slock[s]) # a
  BY <1>2 DEF Types
<1> QED
  BY <1>1, <1>3, <1>4 DEF Queued

LEMMA TaskSteps ==
  ASSUME SessionsInv, NEW j \in Jobs, Refused(j) \/ TakeSession(j) \/ EndWork(j) \/ CancelWaiting(j)
  PROVE  SessionsInv'
<1>1. /\ Types /\ Queued /\ j \in Actors
      /\ slock \in [Ids -> Seq(Actors)] /\ \A s \in Ids : Fewer(slock[s], slock[s])
      /\ held \subseteq Ids /\ \A s \in held : slock[s] # <<>>
      /\ lockOf \in [Actors -> Locks \cup {None}]
  BY ActorFacts, SameQueues DEF SessionsInv, Types
<1>2. CASE Refused(j)
  <2>1. \A s \in Ids : j \in Work => ~In(slock[s], j)
    BY <1>1, <1>2 DEF Refused, Queued
  <2> QED
    BY <1>1, <1>2, <2>1, TaskStep DEF Refused, WorkRest, lockVars
<1>3. CASE TakeSession(j)
  <2>1. PICK s \in Ids : slock[s] # <<>> /\ held' = held \cup {s}
    BY <1>3 DEF TakeSession
  <2>2. held' \subseteq Ids /\ \A t \in held' : slock[t] # <<>>
    BY <1>1, <2>1
  <2> QED
    BY <1>1, <1>3, <2>2, TaskStep DEF TakeSession, WorkRest, lockVars
<1>4. CASE EndWork(j)
  <2>1. LeavesSessions(j)
    BY <1>4 DEF EndWork
  <2>2. /\ slock' \in [Ids -> Seq(Actors)] /\ \A s \in Ids : Fewer(slock'[s], slock[s])
        /\ held' \subseteq Ids /\ \A s \in held' : slock'[s] # <<>>
        /\ j \in Work => \A s \in Ids : ~In(slock'[s], j)
    BY <1>1, <2>1, LeavesFacts
  <2> QED
    BY <1>1, <1>4, <2>2, TaskStep DEF EndWork, WorkRest, lockVars
<1>5. CASE CancelWaiting(j)
  <2>1. LeavesSessions(j)
    BY <1>5 DEF CancelWaiting
  <2>2. /\ slock' \in [Ids -> Seq(Actors)] /\ \A s \in Ids : Fewer(slock'[s], slock[s])
        /\ held' \subseteq Ids /\ \A s \in held' : slock'[s] # <<>>
        /\ j \in Work => \A s \in Ids : ~In(slock'[s], j)
    BY <1>1, <2>1, LeavesFacts
  <2>3. lockOf' \in [Actors -> Locks \cup {None}] /\ (flaws' = flaws \/ flaws' = flaws \cup {"config"})
    BY <1>1, <1>5 DEF CancelWaiting
  <2> QED
    BY <1>1, <1>5, <2>2, <2>3, TaskStep DEF CancelWaiting
<1> QED
  BY <1>2, <1>3, <1>4, <1>5

\* A task that was not cancelled has a connection that is open, so one is counted.
LEMMA LiveCounted ==
  ASSUME Types, LiveOpen, NEW j \in Jobs, pc[j] \notin {"idle", "done"}, j \notin cancelled
  PROVE  job[j].by \in Counted /\ count > 0
<1>1. job[j].by \in Counted
  BY DEF LiveOpen, Counted
<1>2. count # 0
  BY <1>1, FS_EmptySet DEF Types
<1> QED
  BY <1>1, <1>2 DEF Types

\* The locked part of get_or_create_session finds the session of the conversation,
\* or adds one where there was none.
LEMMA GetOrCreateStep ==
  ASSUME SessionsInv, NEW j \in Work, pc[j] \in {"start", "ulock"}, j \notin cancelled,
         NEW l, GetOrCreate(j, l), UNCHANGED <<WorkRest, job, cancelled>>,
         userLock' \in Locks \cup {None}, lockOf' \in [Actors -> Locks \cup {None}]
  PROVE  SessionsInv'
<1>0. /\ Types /\ Queued /\ Distinct /\ LiveOpen /\ Attended
      /\ UNCHANGED <<count, override, changed, base, plan, job, cancelled>>
      /\ j \in Jobs /\ j \in Actors /\ j \notin Conns
  BY ActorFacts DEF SessionsInv, userVars, WorkRest
<1>f. flaws' = flaws \/ flaws' = flaws \cup {"config"}
  BY DEF GetOrCreate, Store
<1>1. count > 0 /\ job[j].ref \in Refs
  BY <1>0, LiveCounted DEF LiveOpen
<1>l. /\ Len(ref) \in Nat /\ DOMAIN ref = 1..Len(ref) /\ DOMAIN cfg = 1..Len(ref)
      /\ Registered \subseteq 1..Len(ref)
  BY <1>0, LenProperties DEF Types
\* The session j goes on to, and what is registered then.
<1>2. PICK s \in Ids :
        /\ Join(j, s) /\ Registered' = Registered \cup {s}
        /\ reg' \in Seq(Ids) /\ reg' # <<>> /\ ref' \in Seq(Refs) /\ Len(ref') <= MaxSessions
        /\ cfg' \in Seq(Configs) /\ Len(cfg') = Len(ref') /\ Registered' \subseteq DOMAIN ref'
        /\ \A t \in Registered : ref'[t] = ref[t]
        /\ s \notin Registered => \A t \in Registered : ref'[t] # ref'[s]
  <2>1. CASE \E s \in Lookup(job[j].ref) : Join(j, s) /\ UNCHANGED <<regVars, cfg, flaws>>
    <3>1. PICK s \in Lookup(job[j].ref) : Join(j, s) /\ UNCHANGED <<regVars, cfg>>
      BY <2>1
    <3>2. s \in Registered /\ s \in Ids
      BY DEF Lookup, Registered, Types, SessionsInv
    <3>3. reg' = reg /\ ref' = ref /\ cfg' = cfg /\ Registered' = Registered /\ reg # <<>>
      BY <3>1, <3>2 DEF regVars, Registered
    <3> QED
      BY <1>0, <3>1, <3>2, <3>3 DEF Types
  <2>2. CASE Lookup(job[j].ref) = {} /\ Create(j) /\ reg' = Append(reg, Len(ref) + 1)
    <3> DEFINE s == Len(ref) + 1
    <3>1. /\ s \in Ids /\ Join(j, s) /\ ref' = Append(ref, job[j].ref) /\ cfg' = Append(cfg, Effective)
          /\ s \notin Registered
      BY <1>l, <2>2 DEF Create
    <3>2. /\ reg' \in Seq(Ids) /\ Len(reg) \in Nat /\ Len(reg') = Len(reg) + 1
          /\ DOMAIN reg = 1..Len(reg) /\ DOMAIN reg' = 1..(Len(reg) + 1)
          /\ reg'[Len(reg) + 1] = s /\ \A i \in 1..Len(reg) : reg'[i] = reg[i]
      BY <1>0, <2>2, <3>1, AppendProperties, LenProperties DEF Types
    <3>3. /\ ref' \in Seq(Refs) /\ Len(ref') = Len(ref) + 1 /\ DOMAIN ref' = 1..(Len(ref) + 1)
          /\ ref'[s] = job[j].ref /\ \A i \in 1..Len(ref) : ref'[i] = ref[i]
      BY <1>0, <1>1, <3>1, AppendProperties, LenProperties DEF Types
    <3>4. cfg' \in Seq(Configs) /\ Len(cfg') = Len(ref')
      <4>1. Effective \in Configs /\ cfg \in Seq(Configs) /\ Len(cfg) = Len(ref)
        BY <1>0, EffectiveFacts DEF Types
      <4>2. Append(cfg, Effective) \in Seq(Configs) /\ Len(Append(cfg, Effective)) = Len(cfg) + 1
        BY <4>1, AppendProperties
      <4> QED
        BY <3>1, <3>3, <4>1, <4>2
    <3>5. Registered' = Registered \cup {s}
      <4>1. Registered' = {reg'[i] : i \in 1..(Len(reg) + 1)} /\ Registered = {reg[i] : i \in 1..Len(reg)}
        BY <3>2 DEF Registered
      <4>2. \A i \in 1..(Len(reg) + 1) : i \in 1..Len(reg) \/ i = Len(reg) + 1
        BY <3>2
      <4>3. Len(reg) + 1 \in 1..(Len(reg) + 1) /\ \A i \in 1..Len(reg) : i \in 1..(Len(reg) + 1)
        BY <3>2
      <4> QED
        BY <3>2, <4>1, <4>2, <4>3
    <3>6. \A t \in Registered : ref[t] # job[j].ref
      <4>1. CASE job[j].ref # None
        BY <2>2, <4>1 DEF Lookup
      <4>2. CASE job[j].ref = None
        <5>1. ASSUME NEW i \in 1..Len(reg) PROVE FALSE
          <6>1. reg[Len(reg)] \in Registered
            BY <3>2, <5>1 DEF Registered
          <6> QED
            BY <2>2, <4>2, <6>1 DEF Lookup
        <5> QED
          BY <3>2, <5>1 DEF Registered
      <4> QED
        BY <4>1, <4>2
    <3>7. reg' # <<>> /\ Len(ref') <= MaxSessions
      BY <3>1, <3>2, <3>3, <1>l DEF Ids
    <3>8. /\ Registered' \subseteq DOMAIN ref'
          /\ \A t \in Registered : ref'[t] = ref[t] /\ ref'[t] # ref'[s]
      <4>1. s \in 1..(Len(ref) + 1) /\ \A t \in Registered : t \in 1..Len(ref) /\ t \in 1..(Len(ref) + 1)
        BY <1>l
      <4> HIDE DEF s
      <4> QED
        BY <3>3, <3>5, <3>6, <4>1
    <3> HIDE DEF s
    <3> QED
      BY <3>1, <3>2, <3>3, <3>4, <3>5, <3>7, <3>8
  <2> QED
    BY <2>1, <2>2 DEF GetOrCreate, Store
<1>3. /\ slock' = [slock EXCEPT ![s] = Append(@, j)]
      /\ held' \subseteq held \cup {s}
      /\ pc' = [pc EXCEPT ![j] = IF slock[s] = <<>> THEN "running" ELSE "slock"]
  BY <1>2 DEF Join
<1>4. /\ DOMAIN pc' = Actors /\ \A b \in Actors \ {j} : pc'[b] = pc[b]
      /\ pc'[j] \in {"slock", "running"} /\ \A c \in Conns : c # j /\ c \in Actors
  BY <1>0, <1>3, ActorFacts DEF Types
<1>5. Counted' = Counted
  BY <1>4 DEF Counted
<1>6. \A t \in Ids : ~In(slock[t], j)
  BY <1>0 DEF Queued
<1>7. slock[s] \in Seq(Actors)
  BY <1>0 DEF Types
<1>8. /\ Append(slock[s], j) \in Seq(Actors) /\ Append(slock[s], j) # <<>>
      /\ \A k : In(Append(slock[s], j), k) <=> In(slock[s], k) \/ k = j
      /\ Single(Append(slock[s], j))
  BY <1>0, <1>6, <1>7, AppendFacts DEF Queued
<1>9. /\ slock' \in [Ids -> Seq(Actors)] /\ slock'[s] = Append(slock[s], j)
      /\ \A t \in Ids \ {s} : slock'[t] = slock[t]
  BY <1>0, <1>3, <1>8 DEF Types
<1>10. Types'
  <2>1. held' \subseteq Ids /\ \A t \in held' : slock'[t] # <<>>
    BY <1>0, <1>3, <1>8, <1>9 DEF Types
  <2> QED
    BY <1>0, <1>f, <1>2, <1>4, <1>5, <1>9, <2>1 DEF Types, Flaws
<1>11. Queued'
  <2> SUFFICES ASSUME NEW t \in Ids
               PROVE  /\ Single(slock'[t])
                      /\ \A k \in Work : In(slock'[t], k) =>
                           /\ pc'[k] \in {"slock", "running"}
                           /\ "ended" \in flaws' \/ k \in cancelled' \/ t \in Registered'
    BY DEF Queued
  <2>1. CASE t = s
    BY <1>0, <1>f, <1>2, <1>4, <1>8, <1>9, <2>1, ActorFacts DEF Queued
  <2>2. CASE t # s
    BY <1>0, <1>f, <1>2, <1>4, <1>6, <1>9, <2>2, ActorFacts DEF Queued
  <2> QED
    BY <2>1, <2>2
<1>12. Distinct'
  BY <1>0, <1>2 DEF Distinct
<1>13. LiveOpen'
  <2> SUFFICES ASSUME NEW k \in Jobs, pc'[k] \notin {"idle", "done"}
               PROVE  /\ job'[k].by \in Conns /\ job'[k].ref \in Refs
                      /\ k \in cancelled' \/ pc'[job'[k].by] = "open"
    BY DEF LiveOpen
  <2>1. pc[k] \notin {"idle", "done"}
    BY <1>4, ActorFacts
  <2> QED
    BY <1>0, <1>4, <2>1 DEF LiveOpen
<1>14. Attended'
  BY <1>0, <1>1 DEF Attended
<1> QED
  BY <1>10, <1>11, <1>12, <1>13, <1>14 DEF SessionsInv

LEMMA FindStep ==
  ASSUME SessionsInv, NEW j \in Jobs, FindSession(j) \/ FindSessionLocked(j)
  PROVE  SessionsInv'
<1>0. /\ Types /\ Queued /\ Distinct /\ LiveOpen /\ Attended
      /\ UNCHANGED <<WorkRest, job, cancelled>>
      /\ j \in Work /\ j \in Actors /\ pc[j] \in {"start", "ulock"} /\ j \notin cancelled
  BY ActorFacts DEF SessionsInv, FindSession, FindSessionLocked
<1>1. CASE FindSession(j) /\ \E s \in Lookup(job[j].ref) : Join(j, s) /\ UNCHANGED <<flaws, regVars, cfg, lockVars>>
  <2>1. GetOrCreate(j, None) /\ UNCHANGED lockVars
    BY <1>1 DEF GetOrCreate, regVars
  <2> QED
    BY <1>0, <2>1, GetOrCreateStep DEF lockVars, Types
<1>2. ASSUME FindSession(j), NEW l \in LockObjects, userLock' = l, PassesThrough(l), GetOrCreate(j, l)
      PROVE  SessionsInv'
  <2>1. l \in Locks
    BY <1>0, LockFacts
  <2> QED
    BY <1>0, <1>2, <2>1, GetOrCreateStep DEF PassesThrough, Types
<1>3. ASSUME FindSession(j), NEW l \in LockObjects, userLock' = l, Waits(j, l),
             pc' = [pc EXCEPT ![j] = "ulock"], UNCHANGED <<flaws, regVars, cfg, slock, held>>
      PROVE  SessionsInv'
  <2>1. l \in Locks
    BY <1>0, LockFacts
  <2>2. /\ UNCHANGED <<count, override, changed, base, plan, flaws, job, cancelled, reg, ref, cfg, slock, held>>
        /\ userLock' \in Locks \cup {None} /\ lockOf' \in [Actors -> Locks \cup {None}]
        /\ j \in Jobs
    BY <1>0, <1>3, <2>1 DEF WorkRest, userVars, regVars, Waits, Types
  <2>3. /\ DOMAIN pc' = Actors /\ \A b \in Actors \ {j} : pc'[b] = pc[b]
        /\ pc'[j] = "ulock" /\ \A c \in Conns : c # j /\ c \in Actors
    BY <1>0, <1>3, ActorFacts DEF Types
  <2>4. Counted' = Counted /\ Registered' = Registered
    BY <2>2, <2>3 DEF Counted, Registered
  <2>5. Types'
    BY <1>0, <2>2, <2>3, <2>4 DEF Types
  <2>6. Queued'
    <3>1. ASSUME NEW s \in Ids, NEW k \in Work, In(slock[s], k)
          PROVE  pc'[k] \in {"slock", "running"}
      BY <1>0, <2>3, <3>1, ActorFacts DEF Queued
    <3> QED
      BY <1>0, <2>2, <2>4, <3>1 DEF Queued
  <2>7. LiveOpen'
    <3> SUFFICES ASSUME NEW k \in Jobs, pc'[k] \notin {"idle", "done"}
                 PROVE  /\ job'[k].by \in Conns /\ job'[k].ref \in Refs
                        /\ k \in cancelled' \/ pc'[job'[k].by] = "open"
      BY DEF LiveOpen
    <3>1. pc[k] \notin {"idle", "done"}
      BY <1>0, <2>3, ActorFacts
    <3> QED
      BY <1>0, <2>2, <2>3, <3>1 DEF LiveOpen
  <2>8. Distinct' /\ Attended'
    BY <1>0, <2>2, <2>3, <2>4 DEF Distinct, Attended
  <2> QED
    BY <2>5, <2>6, <2>7, <2>8 DEF SessionsInv
<1>4. CASE FindSessionLocked(j)
  <2>1. userLock' = userLock /\ lockOf' \in [Actors -> Locks \cup {None}] /\ GetOrCreate(j, lockOf[j])
    BY <1>0, <1>4 DEF FindSessionLocked, Leaves, Types
  <2> QED
    BY <1>0, <2>1, GetOrCreateStep DEF Types
<1> QED
  BY <1>1, <1>2, <1>3, <1>4 DEF FindSession

-----------------------------------------------------------------------------
(* Connections *)

\* A connection opens or is sent a message.
LEMMA OpenPlainStep ==
  ASSUME SessionsInv, NEW c \in Conns, OpenPlain(c)
  PROVE  SessionsInv'
<1>0. /\ Types /\ Queued /\ Distinct /\ LiveOpen /\ Attended
      /\ pc[c] = "idle" /\ count' = count + 1 /\ pc' = [pc EXCEPT ![c] = "open"]
      /\ UNCHANGED <<override, changed, base, reg, ref, cfg, userLock, lockOf, slock, held, plan, flaws, job, cancelled>>
  BY DEF SessionsInv, OpenPlain, ConnRest, userVars, regVars, lockVars
<1>1. /\ DOMAIN pc' = Actors /\ \A b \in Actors \ {c} : pc'[b] = pc[b]
      /\ pc'[c] = "open" /\ \A j \in Jobs : j # c /\ j \in Actors
      /\ Work \subseteq Jobs /\ Conns \subseteq Actors
  BY <1>0, ActorFacts DEF Types
<1>2. Counted' = Counted \cup {c} /\ c \notin Counted /\ Registered' = Registered
  BY <1>0, <1>1 DEF Counted, Registered
<1>3. count' \in Nat /\ IsFiniteSet(Counted') /\ count' = Cardinality(Counted')
  BY <1>0, <1>2, CountMore
<1>4. Types'
  BY <1>0, <1>1, <1>2, <1>3 DEF Types
<1>5. Queued'
  BY <1>0, <1>1, <1>2 DEF Queued
<1>6. LiveOpen'
  BY <1>0, <1>1 DEF LiveOpen
<1>7. Distinct' /\ Attended'
  BY <1>0, <1>1, <1>2, <1>3 DEF Distinct, Attended, Types
<1> QED
  BY <1>4, <1>5, <1>6, <1>7 DEF SessionsInv

LEMMA ReceiveStep ==
  ASSUME SessionsInv, NEW c \in Conns, NEW j \in Jobs, Receive(c, j)
  PROVE  SessionsInv'
<1>0. /\ Types /\ Queued /\ Distinct /\ LiveOpen /\ Attended
      /\ pc[c] = "open" /\ pc[j] = "idle"
      /\ UNCHANGED <<count, override, changed, base, reg, ref, cfg, userLock, lockOf, slock, held, plan, flaws, cancelled>>
  BY DEF SessionsInv, Receive, ConnRest, userVars, regVars, lockVars
<1> DEFINE room == Cardinality(Live(c)) < MaxTasks
<1>1. PICK r \in Refs : /\ job' = IF room THEN [job EXCEPT ![j] = [by |-> c, ref |-> r]] ELSE job
                       /\ pc' = [pc EXCEPT ![j] = IF room THEN "start" ELSE "done"]
  BY SessionsAssumption DEF Receive, Jobs, Work
<1> HIDE DEF room
<1>2. /\ DOMAIN pc' = Actors /\ \A b \in Actors \ {j} : pc'[b] = pc[b]
      /\ pc'[j] = IF room THEN "start" ELSE "done"
      /\ \A d \in Conns : d # j /\ d \in Actors
      /\ Work \subseteq Jobs /\ Jobs \subseteq Actors
  BY <1>0, <1>1, ActorFacts DEF Types
<1>3. /\ job' \in [Jobs -> [by : Conns \cup {None}, ref : Refs \cup {None}]]
      /\ \A k \in Jobs \ {j} : job'[k] = job[k]
      /\ room => job'[j].by = c /\ job'[j].ref = r
  BY <1>0, <1>1 DEF Types
<1>4. Counted' = Counted /\ Registered' = Registered
  BY <1>0, <1>2 DEF Counted, Registered
<1>5. Types'
  BY <1>0, <1>2, <1>3, <1>4 DEF Types
<1>6. Queued'
  BY <1>0, <1>2, <1>4 DEF Queued
<1>7. LiveOpen'
  BY <1>0, <1>2, <1>3 DEF LiveOpen
<1>8. Distinct' /\ Attended'
  BY <1>0, <1>2, <1>4 DEF Distinct, Attended
<1> QED
  BY <1>5, <1>6, <1>7, <1>8 DEF SessionsInv

\* A connection that closes cancels its tasks.
LEMMA CloseStep ==
  ASSUME SessionsInv, NEW c \in Conns, Close(c)
  PROVE  SessionsInv'
<1>0. /\ Types /\ Queued /\ Distinct /\ LiveOpen /\ Attended
      /\ pc[c] = "open" /\ cancelled' = cancelled \cup Live(c) /\ pc' = [pc EXCEPT ![c] = "closing"]
      /\ UNCHANGED <<count, override, changed, base, reg, ref, cfg, userLock, lockOf, slock, held, plan, flaws, job>>
  BY DEF SessionsInv, Close, ConnRest, userVars, regVars, lockVars
<1>1. /\ DOMAIN pc' = Actors /\ \A b \in Actors \ {c} : pc'[b] = pc[b]
      /\ pc'[c] = "closing" /\ \A j \in Jobs : j # c /\ j \in Actors
      /\ Work \subseteq Jobs /\ Conns \subseteq Actors
  BY <1>0, ActorFacts DEF Types
<1>2. Counted' = Counted /\ Registered' = Registered
  BY <1>0, <1>1 DEF Counted, Registered
<1>3. Types'
  BY <1>0, <1>1, <1>2 DEF Types, Live
<1>4. Queued'
  BY <1>0, <1>1, <1>2 DEF Queued
<1>5. LiveOpen'
  <2> SUFFICES ASSUME NEW k \in Jobs, pc'[k] \notin {"idle", "done"}
               PROVE  /\ job'[k].by \in Conns /\ job'[k].ref \in Refs
                      /\ k \in cancelled' \/ pc'[job'[k].by] = "open"
    BY DEF LiveOpen
  <2>1. pc[k] \notin {"idle", "done"} /\ (job[k].by = c => k \in Live(c))
    BY <1>1 DEF Live
  <2> QED
    BY <1>0, <1>1, <2>1 DEF LiveOpen
<1>6. Distinct' /\ Attended'
  BY <1>0, <1>1, <1>2 DEF Distinct, Attended
<1> QED
  BY <1>3, <1>4, <1>5, <1>6 DEF SessionsInv

\* c ends the sessions, or finds none, once it is no longer counted.
LEMMA EndAllStep ==
  ASSUME SessionsInv, NEW c \in Conns, NEW l \in Locks, EndAll(c, l), LocksAfter(c, l),
         pc[c] \in {"closing", "eulock"},
         count' \in Nat, IsFiniteSet(Counted'), count' = Cardinality(Counted'),
         UNCHANGED <<base, ref, cfg, job, cancelled>>
  PROVE  SessionsInv'
<1>0. /\ Types /\ Queued /\ LiveOpen
      /\ reg' = <<>> /\ UNCHANGED <<base, ref, cfg, job, cancelled>>
      /\ Deferred \in Actors \ (Jobs \cup Conns)
      /\ Work \subseteq Jobs /\ Jobs \subseteq Actors /\ Conns \subseteq Actors
  BY ActorFacts DEF SessionsInv, EndAll
<1>1. /\ DOMAIN pc' = Actors /\ pc'[c] = "closed"
      /\ \A b \in Actors \ {c, Deferred} : pc'[b] = pc[b]
      /\ \A j \in Jobs : j # c /\ j # Deferred /\ pc'[j] = pc[j]
      /\ \A d \in Conns \ {c} : pc'[d] = pc[d]
  BY <1>0, ActorFacts DEF EndAll, Types
<1>2. /\ slock' \in [Ids -> Seq(Actors)] /\ \A s \in Ids : Fewer(slock'[s], slock[s])
      /\ held' \subseteq Ids /\ \A s \in held' : slock'[s] # <<>>
  <2>1. CASE reg = <<>>
    BY <1>0, <2>1, SameQueues DEF EndAll, Types
  <2>2. CASE reg # <<>>
    <3>1. LeavesSessions(Deferred) /\ Deferred \in Actors
      BY <1>0, <2>2 DEF EndAll
    <3> QED
      BY <1>0, <3>1, LeavesFacts
  <2> QED
    BY <2>1, <2>2
<1>3. /\ override' \in Values /\ changed' \in BOOLEAN /\ plan' \in [Actors -> Plans]
      /\ flaws' \subseteq Flaws /\ userLock' \in Locks \cup {None}
      /\ lockOf' \in [Actors -> Locks \cup {None}]
  <2>1. NoPlan \in Plans
    BY SessionsAssumption DEF NoPlan, Plans, Configs, Values
  <2>2. CASE reg = <<>>
    BY <1>0, <2>2 DEF EndAll, LocksAfter, Types
  <2>3. CASE reg # <<>>
    BY <1>0, <2>1, <2>3 DEF EndAll, LocksAfter, Types, Values, Flaws
  <2> QED
    BY <2>2, <2>3
<1>4. Registered' = {}
  BY <1>0 DEF Registered
<1>5. Types'
  <2>1. reg' \in Seq(Ids)
    BY <1>0
  <2> QED
    BY <1>0, <1>1, <1>2, <1>3, <1>4, <2>1 DEF Types
<1>6. Queued'
  <2> SUFFICES ASSUME NEW s \in Ids
               PROVE  /\ Single(slock'[s])
                      /\ \A k \in Work : In(slock'[s], k) =>
                           /\ pc'[k] \in {"slock", "running"}
                           /\ "ended" \in flaws' \/ k \in cancelled'
    BY DEF Queued
  <2>1. Single(slock'[s])
    BY <1>0, <1>2 DEF Queued, Fewer
  <2>2. ASSUME NEW k \in Work, In(slock'[s], k)
        PROVE  /\ pc'[k] \in {"slock", "running"}
               /\ "ended" \in flaws' \/ k \in cancelled'
    <3>1. /\ k \in Jobs /\ pc[k] \in {"slock", "running"}
          /\ "ended" \in flaws \/ k \in cancelled \/ s \in Registered
      BY <1>0, <1>2, <2>2 DEF Queued, Fewer
    \* A task that was not cancelled has a connection that is open, hence counted.
    <3>2. ASSUME k \notin cancelled, count' = 0 PROVE FALSE
      <4>1. job[k].by \in Conns /\ pc[job[k].by] = "open"
        BY <1>0, <3>1, <3>2 DEF LiveOpen
      <4>2. job[k].by \in Counted'
        BY <1>1, <4>1 DEF Counted
      <4> QED
        BY <3>2, <4>2, FS_EmptySet
    <3>3. "ended" \in flaws => "ended" \in flaws'
      BY DEF EndAll
    <3>4. ASSUME s \in Registered, count' > 0 PROVE "ended" \in flaws'
      <4>1. reg # <<>>
        BY <3>4 DEF Registered
      <4> QED
        BY <3>4, <4>1 DEF EndAll
    <3> QED
      BY <1>0, <1>1, <3>1, <3>2, <3>3, <3>4
  <2> QED
    BY <2>1, <2>2
<1>7. LiveOpen'
  <2> SUFFICES ASSUME NEW k \in Jobs, pc'[k] \notin {"idle", "done"}
               PROVE  /\ job'[k].by \in Conns /\ job'[k].ref \in Refs
                      /\ k \in cancelled' \/ pc'[job'[k].by] = "open"
    BY DEF LiveOpen
  <2>1. pc[k] \notin {"idle", "done"}
    BY <1>1
  <2> QED
    BY <1>0, <1>1, <2>1 DEF LiveOpen
<1>8. Distinct' /\ Attended'
  BY <1>0, <1>4 DEF Distinct, Attended
<1> QED
  BY <1>5, <1>6, <1>7, <1>8 DEF SessionsInv

LEMMA CleanupStep ==
  ASSUME SessionsInv, NEW c \in Conns, Cleanup(c)
  PROVE  SessionsInv'
<1>0. /\ Types /\ Queued /\ Distinct /\ LiveOpen /\ Attended
      /\ pc[c] = "closing" /\ count' = count - 1
      /\ UNCHANGED <<base, ref, cfg, job, cancelled>>
      /\ Work \subseteq Jobs /\ Jobs \subseteq Actors /\ Conns \subseteq Actors
      /\ Jobs \cap Conns = {} /\ Deferred \notin Jobs \cup Conns
  BY ActorFacts DEF SessionsInv, Cleanup
<1>1. ASSUME Counted' = Counted \ {c}
      PROVE  count' \in Nat /\ IsFiniteSet(Counted') /\ count' = Cardinality(Counted')
  <2>1. c \in Counted
    BY <1>0 DEF Counted
  <2>2. IsFiniteSet(Counted) /\ Cardinality(Counted) = count /\ count \in Nat
    BY <1>0 DEF Types
  <2>3. IsFiniteSet(Counted \ {c}) /\ Cardinality(Counted \ {c}) = count - 1
    BY <2>1, <2>2, FS_RemoveElement
  <2>4. Cardinality(Counted \ {c}) \in Nat
    BY <2>3, FS_CardinalityType
  <2> QED
    BY <1>0, <1>1, <2>3, <2>4
<1>2. ASSUME NEW l \in LockObjects, EndAll(c, l), LocksAfter(c, l)
      PROVE  SessionsInv'
  <2>1. l \in Locks
    BY <1>0, LockFacts
  <2>2. Counted' = Counted \ {c}
    BY <1>0, <1>2 DEF EndAll, Counted, Types
  <2> QED
    BY <1>0, <1>1, <1>2, <2>1, <2>2, EndAllStep
\* The connection is gone, or waits to end the sessions.
<1>3. ASSUME NEW x \in {"closed", "eulock"}, pc' = [pc EXCEPT ![c] = x],
             x = "closed" => count' > 0 \/ reg = <<>>,
             userLock' \in Locks \cup {None}, lockOf' \in [Actors -> Locks \cup {None}],
             UNCHANGED <<override, changed, reg, slock, held, todo, plan, flaws>>
      PROVE  SessionsInv'
  <2>1. /\ DOMAIN pc' = Actors /\ pc'[c] = x
        /\ \A b \in Actors \ {c} : pc'[b] = pc[b]
        /\ \A j \in Jobs : j # c /\ pc'[j] = pc[j]
    BY <1>0, <1>3 DEF Types
  <2>2. Counted' = Counted \ {c} /\ Registered' = Registered
    BY <1>0, <1>3, <2>1 DEF Counted, Registered
  <2>3. count' \in Nat /\ IsFiniteSet(Counted') /\ count' = Cardinality(Counted')
    BY <1>1, <2>2
  <2>4. Types'
    BY <1>0, <1>3, <2>1, <2>2, <2>3 DEF Types
  <2>5. Queued'
    BY <1>0, <1>3, <2>1, <2>2 DEF Queued
  <2>6. LiveOpen'
    <3> SUFFICES ASSUME NEW k \in Jobs, pc'[k] \notin {"idle", "done"}
                 PROVE  /\ job'[k].by \in Conns /\ job'[k].ref \in Refs
                        /\ k \in cancelled' \/ pc'[job'[k].by] = "open"
      BY DEF LiveOpen
    <3> QED
      BY <1>0, <2>1 DEF LiveOpen
  <2>7. Distinct' /\ Attended'
    BY <1>0, <1>3, <2>1, <2>2 DEF Distinct, Attended
  <2> QED
    BY <2>4, <2>5, <2>6, <2>7 DEF SessionsInv
<1>4. CASE count' > 0 \/ reg = <<>>
  BY <1>0, <1>3, <1>4 DEF Cleanup, lockVars, Types
<1>5. CASE ~(count' > 0 \/ reg = <<>>)
  <2>1. PICK l \in LockObjects :
          \/ EndAll(c, l) /\ LocksAfter(c, l)
          \/ /\ Waits(c, l) /\ userLock' = l
             /\ pc' = [pc EXCEPT ![c] = "eulock"]
             /\ UNCHANGED <<override, changed, reg, slock, held, todo, plan, flaws>>
    BY <1>5 DEF Cleanup
  <2>2. l \in Locks
    BY <1>0, LockFacts
  <2>3. Waits(c, l) => lockOf' \in [Actors -> Locks \cup {None}]
    BY <1>0, <2>2 DEF Waits, Types
  <2> QED
    BY <1>2, <1>3, <2>1, <2>2, <2>3
<1> QED
  BY <1>4, <1>5

LEMMA EndSessionsStep ==
  ASSUME SessionsInv, NEW c \in Conns, EndSessions(c)
  PROVE  SessionsInv'
<1>1. /\ Types /\ pc[c] = "eulock" /\ count' = count /\ HasLock(c) /\ EndAll(c, lockOf[c])
      /\ Conns \subseteq Actors /\ Deferred \notin Conns
  BY ActorFacts DEF SessionsInv, EndSessions
<1>2. lockOf[c] \in Locks
  BY <1>1 DEF HasLock, Types
<1>3. Counted' = Counted
  BY <1>1 DEF EndAll, Counted, Types
<1> QED
  BY <1>1, <1>2, <1>3, EndAllStep DEF EndSessions, Types

-----------------------------------------------------------------------------
(* The theorems *)

LEMMA Starts == Init => SessionsInv
<1> SUFFICES ASSUME Init PROVE SessionsInv
  OBVIOUS
<1>1. /\ \A a \in Actors : pc[a] = "idle"
      /\ DOMAIN pc = Actors /\ Conns \subseteq Actors /\ Jobs \subseteq Actors /\ Work \subseteq Jobs
  BY ActorFacts DEF Init
<1>2. Counted = {} /\ Registered = {}
  BY <1>1 DEF Counted, Registered, Init
<1>3. Types
  <2>1. IsFiniteSet(Counted) /\ Cardinality(Counted) = 0
    BY <1>2, FS_EmptySet
  <2>2. NoJob \in [by : Conns \cup {None}, ref : Refs \cup {None}] /\ NoPlan \in Plans
    BY SessionsAssumption DEF NoJob, NoPlan, Plans, Configs, Values
  <2>3. /\ slock \in [Ids -> Seq(Actors)] /\ job \in [Jobs -> [by : Conns \cup {None}, ref : Refs \cup {None}]]
        /\ plan \in [Actors -> Plans] /\ lockOf \in [Actors -> Locks \cup {None}]
    BY <2>2 DEF Init
  <2>4. reg \in Seq(Ids) /\ ref \in Seq(Refs) /\ cfg \in Seq(Configs) /\ Len(cfg) = Len(ref) /\ Len(ref) = 0
    BY EmptySeq DEF Init
  <2>5. 0 \in 0..MaxGlobal /\ 0 <= MaxSessions
    BY SessionsAssumption
  <2> QED
    BY <1>1, <1>2, <2>1, <2>3, <2>4, <2>5 DEF Init, Types, Values
<1>4. Queued
  BY <1>1 DEF Init, Queued, Single, In
<1>5. LiveOpen
  BY <1>1 DEF LiveOpen
<1>6. Distinct /\ Attended
  BY <1>2 DEF Distinct, Attended, Init
<1> QED
  BY <1>3, <1>4, <1>5, <1>6 DEF SessionsInv

LEMMA Steps == SessionsInv /\ [Next]_vars => SessionsInv'
<1> SUFFICES ASSUME SessionsInv, [Next]_vars PROVE SessionsInv'
  OBVIOUS
<1>1. ASSUME NEW j \in Jobs, WorkNext(j) \/ CancelWaiting(j) \/ UpdateSettings(j) PROVE SessionsInv'
  BY <1>1, TaskSteps, FindStep, UpdateSettingsStep DEF WorkNext
<1>2. ASSUME NEW a \in Actors, UpdateLocked(a) \/ ApplyWaited(a) PROVE SessionsInv'
  BY <1>2, UpdateLockedStep, ApplyWaitedStep
<1>3. CASE DeferredNext
  BY <1>3, DeferredStep
<1>4. CASE UpdateAll \/ UpdateAllLocked \/ UpdateAllEnd
  BY <1>4, UpdateAllStep
<1>5. ASSUME NEW c \in Conns, OpenPlain(c) \/ OpenWithOverrides(c) \/ Close(c) \/ ConnNext(c)
      PROVE  SessionsInv'
  BY <1>5, OpenPlainStep, OpenWithOverridesStep, CloseStep, CleanupStep, EndSessionsStep DEF ConnNext
<1>6. ASSUME NEW c \in Conns, NEW j \in Jobs, Receive(c, j) PROVE SessionsInv'
  BY <1>6, ReceiveStep
<1>7. CASE UNCHANGED vars
  <2>1. /\ UNCHANGED <<count, override, changed, base, reg, ref, cfg, userLock, lockOf, slock, held,
                       plan, flaws, job, cancelled, pc>>
        /\ Registered' = Registered /\ Counted' = Counted
    BY <1>7 DEF vars, userVars, regVars, lockVars, Registered, Counted
  <2>2. Types'
    BY <2>1 DEF SessionsInv, Types
  <2> QED
    BY <2>1, <2>2 DEF SessionsInv, Queued, Distinct, LiveOpen, Attended
<1> QED
  BY <1>1, <1>2, <1>3, <1>4, <1>5, <1>6, <1>7 DEF Next

LEMMA InvariantHolds == Spec => []SessionsInv
BY Starts, Steps, PTL DEF Spec

\* Turns of one conversation never run side by side, in however many connections the
\* user has: get_or_create_session and end_session keep one session, so one lock, per
\* conversation.
THEOREM SerialTheorem == Spec => []TurnsAreSerial
<1>1. SessionsInv => TurnsAreSerial
  <2> SUFFICES ASSUME SessionsInv, "ended" \notin flaws,
                      NEW s \in DOMAIN ref, NEW t \in DOMAIN ref,
                      s # t, ref[s] = ref[t], slock[s] # <<>>, slock[t] # <<>>,
                      NEW j \in Work, NEW k \in Work, RunsOn(j, s), RunsOn(k, t)
               PROVE  FALSE
    BY DEF TurnsAreSerial
  <2>1. s \in Ids /\ t \in Ids /\ Len(ref) \in Nat /\ MaxSessions \in Nat
    BY LenProperties, SessionsAssumption DEF SessionsInv, Types, Ids
  <2>2. ASSUME NEW n \in Ids, NEW i \in Work, slock[n] # <<>>, RunsOn(i, n) PROVE n \in Registered
    <3>1. slock[n] \in Seq(Actors) /\ Len(slock[n]) \in Nat /\ Len(slock[n]) # 0 /\ DOMAIN slock[n] = 1..Len(slock[n])
      BY <2>2, LenProperties, EmptySeq DEF SessionsInv, Types
    <3>2. In(slock[n], i)
      <4>1. 1 \in DOMAIN slock[n] /\ slock[n][1] = i
        BY <2>2, <3>1 DEF RunsOn
      <4> QED
        BY <4>1 DEF In
    <3> QED
      BY <2>2, <3>2 DEF RunsOn, SessionsInv, Queued
  <2> QED
    BY <2>1, <2>2 DEF SessionsInv, Distinct
<1> QED
  BY <1>1, InvariantHolds, PTL

\* When the last connection has gone cleanup_connection has ended the sessions, and no
\* task of that connection, cancelled, brings one back; and the state is well typed.
THEOREM NothingLeftTheorem == Spec => []NothingLeftBehind
<1>1. SessionsInv => NothingLeftBehind
  <2> SUFFICES ASSUME SessionsInv PROVE NothingLeftBehind
    OBVIOUS
  <2>1. count \in 0..Cardinality(Conns)
    <3>1. Counted \subseteq Conns /\ IsFiniteSet(Conns)
      BY SessionsAssumption DEF Counted
    <3>2. Cardinality(Counted) <= Cardinality(Conns) /\ Cardinality(Conns) \in Nat
      BY <3>1, FS_Subset, FS_CardinalityType
    <3> QED
      BY <3>2 DEF SessionsInv, Types
  <2>2. /\ DOMAIN cfg = DOMAIN ref /\ \A s \in DOMAIN cfg : cfg[s] \in Configs
    BY LenProperties DEF SessionsInv, Types
  <2>3. TypeOK
    BY <2>1, <2>2 DEF SessionsInv, Types, TypeOK
  <2> QED
    BY <2>3 DEF NothingLeftBehind, SessionsInv, Attended, Types
<1> QED
  BY <1>1, InvariantHolds, PTL

-----------------------------------------------------------------------------
(* Settings arrive: the inductive invariant *)

Visitors == {Deferred, Global}
Sound == "config" \notin flaws

Elems(q) == {q[i] : i \in DOMAIN q}
Ahead(v) == Elems(todo[v])
Rising(q) == \A i, k \in DOMAIN q : i < k => q[i] < q[k]

\* a is in the queue q once at most; a is in q in front of b.
Once(q, a) == \A i, k \in DOMAIN q : q[i] = a /\ q[k] = a => i = k
Precedes(q, a, b) == \E i, k \in DOMAIN q : i < k /\ q[i] = a /\ q[k] = b

\* Sessions are visited in the order they were created in, and a visitor that has some
\* ahead waits in the queue of the first of them, and nowhere else.
Ways ==
  /\ Rising(reg) /\ DOMAIN todo = Actors
  /\ pc[Deferred] \in {"idle", "start", "ulock", "slock", "check"}
  /\ pc[Global] \in {"idle", "ulock", "slock", "leave"}
  /\ \A v \in Visitors :
       /\ todo[v] \in Seq(Ids) /\ Rising(todo[v]) /\ Ahead(v) \subseteq DOMAIN ref
       /\ pc[v] = "slock" <=> todo[v] # <<>>
       /\ \A s \in Ids : /\ Once(slock[s], v)
                         /\ In(slock[s], v) <=> todo[v] # <<>> /\ s = Head(todo[v])

\* update_all_sessions_config holds the lock it went along the sessions with.
Excluding ==
  /\ locks \in [Locks -> Seq(Actors)]
  /\ pc[Global] \in {"slock", "leave"} =>
       /\ lockOf[Global] \in Locks /\ locks[lockOf[Global]] # <<>>
       /\ Head(locks[lockOf[Global]]) = Global

\* So neither the config nor the registry is another one as long as it has sessions ahead.
Current ==
  Sound /\ Ahead(Global) \cap Registered # {} =>
    plan[Global].config = Effective /\ Len(reg) = plan[Global].size

\* A round of the deferred task that was overtaken, without knowing, by a change of the
\* base config is followed by update_all_sessions_config, in the same queue at the latest.
Followed ==
  /\ Ahead(Deferred) \subseteq Registered
  /\ Sound /\ pc[Deferred] = "slock" /\ ~changed /\ plan[Deferred].config # Effective =>
       \/ pc[Global] = "ulock"
       \/ /\ pc[Global] = "slock" /\ Ahead(Deferred) \subseteq Ahead(Global)
          /\ Head(todo[Deferred]) = Head(todo[Global]) =>
               Precedes(slock[Head(todo[Deferred])], Deferred, Global)

\* A session that has not the newest config is going to get it.
Due(s) ==
  \/ cfg[s] = Effective
  \/ pc[Deferred] \in {"start", "ulock"}
  \/ pc[Deferred] \in {"slock", "check"} /\ changed
  \/ pc[Deferred] = "slock" /\ s \in Ahead(Deferred) /\ plan[Deferred].config = Effective
  \/ pc[Global] = "ulock"
  \/ pc[Global] = "slock" /\ s \in Ahead(Global)

\* A settings handler or a connection that queues for a session has spoilt its config.
Spoilt == \A a \in Actors \ (Work \cup Visitors) : pc[a] = "slock" => ~Sound

ArriveInv ==
  /\ Ways /\ Excluding /\ Current /\ Followed /\ Spoilt
  /\ Sound => \A s \in Registered : Due(s)

-----------------------------------------------------------------------------
(* The queues of the visitors *)

\* The queue q2 is q as far as a is concerned.
Keeps(q2, q, a) == (In(q2, a) <=> In(q, a)) /\ (Once(q, a) => Once(q2, a))

LEMMA AppendKeeps ==
  ASSUME NEW q \in Seq(Actors), NEW a \in Actors
  PROVE  /\ \A v : v # a => Keeps(Append(q, a), q, v)
         /\ In(Append(q, a), a) /\ (~In(q, a) => Once(Append(q, a), a))
         /\ \A v, w : Precedes(q, v, w) => Precedes(Append(q, a), v, w)
         /\ \A v : In(q, v) => Precedes(Append(q, a), v, a)
<1> DEFINE w == Append(q, a)
<1>1. /\ Len(w) = Len(q) + 1 /\ Len(q) \in Nat /\ w[Len(q) + 1] = a
      /\ \A i \in 1..Len(q) : w[i] = q[i]
      /\ DOMAIN q = 1..Len(q) /\ DOMAIN w = 1..(Len(q) + 1)
  BY AppendProperties, LenProperties
<1> HIDE DEF w
<1>2. ASSUME NEW v, v # a PROVE Keeps(w, q, v)
  BY <1>1, <1>2 DEF Keeps, In, Once
<1>3. In(w, a)
  BY <1>1 DEF In
<1>4. ~In(q, a) => Once(w, a)
  BY <1>1 DEF In, Once
<1>5. ASSUME NEW v, NEW x, Precedes(q, v, x) PROVE Precedes(w, v, x)
  BY <1>1, <1>5 DEF Precedes
<1>6. ASSUME NEW v, In(q, v) PROVE Precedes(w, v, a)
  BY <1>1, <1>6 DEF Precedes, In
<1> QED
  BY <1>2, <1>3, <1>4, <1>5, <1>6 DEF w

LEMMA WithoutKeeps ==
  ASSUME NEW q \in Seq(Actors), NEW a
  PROVE  /\ Without(q, a) \in Seq(Actors)
         /\ \A v : v # a => Keeps(Without(q, a), q, v)
         /\ Once(q, a) => Once(Without(q, a), a) /\ ~In(Without(q, a), a)
         /\ \A v, w : v # a /\ w # a /\ Precedes(q, v, w) => Precedes(Without(q, a), v, w)
         /\ q # <<>> /\ Head(q) # a => Without(q, a) # <<>> /\ Head(Without(q, a)) = Head(q)
<1>l. Len(q) \in Nat /\ DOMAIN q = 1..Len(q)
  BY LenProperties
<1>1. CASE ~In(q, a)
  BY <1>1, <1>l DEF Without, In, Keeps
<1>2. CASE In(q, a)
  <2> DEFINE w == Without(q, a)
  <2>1. PICK i \in 1..Len(q) :
          /\ q[i] = a /\ w \in Seq(Actors) /\ Len(w) = Len(q) - 1
          /\ \A k \in 1..(Len(q) - 1) : w[k] = IF k < i THEN q[k] ELSE q[k + 1]
    BY <1>2, WithoutPlaces
  <2> HIDE DEF w
  <2>2. DOMAIN w = 1..(Len(q) - 1)
    BY <2>1, LenProperties
  \* The place in q of the k-th element of w, and back.
  <2> DEFINE Place(k) == IF k < i THEN k ELSE k + 1
             Back(k) == IF k < i THEN k ELSE k - 1
  <2>3. \A k \in DOMAIN w : Place(k) \in DOMAIN q /\ Place(k) # i /\ w[k] = q[Place(k)]
    BY <1>l, <2>1, <2>2
  <2>4. \A k, n \in DOMAIN w : Place(k) = Place(n) => k = n
    BY <1>l, <2>1, <2>2
  <2>5. \A k \in DOMAIN q : k # i => Back(k) \in DOMAIN w /\ w[Back(k)] = q[k]
    <3> SUFFICES ASSUME NEW k \in DOMAIN q, k # i
                 PROVE  Back(k) \in DOMAIN w /\ w[Back(k)] = q[k]
      OBVIOUS
    <3>1. CASE k < i
      BY <1>l, <2>1, <2>2, <3>1
    <3>2. CASE ~(k < i)
      <4>1. k - 1 \in 1..(Len(q) - 1) /\ ~(k - 1 < i) /\ (k - 1) + 1 = k /\ Back(k) = k - 1
        BY <1>l, <2>1, <3>2
      <4> QED
        BY <2>1, <2>2, <4>1
    <3> QED
      BY <3>1, <3>2
  <2>6. \A k, n \in DOMAIN q : k # i /\ n # i /\ k < n => Back(k) < Back(n)
    BY <1>l, <2>1
  <2> HIDE DEF Place, Back
  <2>7. ASSUME NEW v, v # a PROVE Keeps(w, q, v)
    <3>1. In(w, v) => In(q, v)
      BY <2>3 DEF In
    <3>2. In(q, v) => In(w, v)
      BY <2>1, <2>5, <2>7 DEF In
    <3>3. Once(q, v) => Once(w, v)
      BY <2>3, <2>4 DEF Once
    <3> QED
      BY <3>1, <3>2, <3>3 DEF Keeps
  <2>8. Once(q, a) => ~In(w, a)
    BY <1>l, <2>1, <2>3 DEF In, Once
  <2>9. Once(q, a) => Once(w, a)
    BY <2>8 DEF In, Once
  <2>10. ASSUME NEW v, NEW x, v # a, x # a, Precedes(q, v, x) PROVE Precedes(w, v, x)
    <3>1. PICK k \in DOMAIN q, n \in DOMAIN q : k < n /\ q[k] = v /\ q[n] = x
      BY <2>10 DEF Precedes
    <3> QED
      BY <2>1, <2>5, <2>6, <2>10, <3>1 DEF Precedes
  <2>11. ASSUME q # <<>>, Head(q) # a PROVE w # <<>> /\ Head(w) = Head(q)
    <3>1. q[1] # a
      BY <2>11
    <3>2. i # 1 /\ 1 < i /\ 1 \in 1..(Len(q) - 1)
      BY <1>l, <2>1, <3>1
    <3>3. Len(w) # 0 /\ w[1] = q[1]
      BY <1>l, <2>1, <3>2
    <3> QED
      BY <2>1, <3>3
  <2> QED
    BY <2>1, <2>7, <2>8, <2>9, <2>10, <2>11 DEF w
<1> QED
  BY <1>1, <1>2

LEMMA TailKeeps ==
  ASSUME NEW q \in Seq(Actors), q # <<>>
  PROVE  /\ Tail(q) \in Seq(Actors)
         /\ \A v : v # Head(q) => Keeps(Tail(q), q, v)
         /\ Once(q, Head(q)) => Once(Tail(q), Head(q)) /\ ~In(Tail(q), Head(q))
         /\ \A v, w : v # Head(q) /\ Precedes(q, v, w) => Precedes(Tail(q), v, w)
<1>1. /\ Tail(q) \in Seq(Actors) /\ Len(Tail(q)) = Len(q) - 1 /\ Len(q) \in Nat
      /\ Len(q) >= 1 /\ Head(q) = q[1]
      /\ \A i \in 1..(Len(q) - 1) : Tail(q)[i] = q[i + 1]
  BY HeadTailProperties, LenProperties, EmptySeq
<1>2. DOMAIN q = 1..Len(q) /\ DOMAIN Tail(q) = 1..(Len(q) - 1)
  BY <1>1, LenProperties
<1>3. \A i \in DOMAIN Tail(q) : i + 1 \in DOMAIN q /\ Tail(q)[i] = q[i + 1]
  BY <1>1, <1>2
<1>4. \A k \in DOMAIN q : k # 1 => k - 1 \in DOMAIN Tail(q) /\ Tail(q)[k - 1] = q[k]
  <2> SUFFICES ASSUME NEW k \in DOMAIN q, k # 1
               PROVE  k - 1 \in DOMAIN Tail(q) /\ Tail(q)[k - 1] = q[k]
    OBVIOUS
  <2>1. k - 1 \in 1..(Len(q) - 1) /\ (k - 1) + 1 = k
    BY <1>1, <1>2
  <2> QED
    BY <1>1, <1>2, <2>1
<1>5. \A i, k \in DOMAIN Tail(q) : i + 1 = k + 1 => i = k
  BY <1>1, <1>2
<1>6. 1 \in DOMAIN q /\ \A i \in DOMAIN Tail(q) : i + 1 # 1
  BY <1>1, <1>2
<1> DEFINE w == Tail(q)
           h == Head(q)
<1> HIDE DEF w, h
<1>7. ASSUME NEW v, v # h PROVE Keeps(w, q, v)
  <2>1. In(w, v) <=> In(q, v)
    BY <1>1, <1>3, <1>4, <1>7 DEF In, w, h
  <2>2. Once(q, v) => Once(w, v)
    BY <1>3, <1>5 DEF Once, w
  <2> QED
    BY <2>1, <2>2 DEF Keeps
<1>8. Once(q, h) => ~In(w, h)
  BY <1>1, <1>3, <1>6 DEF Once, In, w, h
<1>9. Once(q, h) => Once(w, h)
  BY <1>8 DEF Once, In
<1>10. ASSUME NEW v, NEW x, v # h, Precedes(q, v, x) PROVE Precedes(w, v, x)
  <2>1. PICK i \in DOMAIN q, k \in DOMAIN q : i < k /\ q[i] = v /\ q[k] = x
    BY <1>10 DEF Precedes
  <2>2. i # 1 /\ k # 1 /\ i - 1 < k - 1
    BY <1>1, <1>2, <1>10, <2>1 DEF h
  <2> QED
    BY <1>4, <2>1, <2>2 DEF Precedes, w
<1> QED
  BY <1>1, <1>7, <1>8, <1>9, <1>10 DEF w, h

-----------------------------------------------------------------------------
(* Where a visitor gets to *)

\* How far along a list nothing stops a visitor, and the sessions from there on.
Until(list, stops) ==
  IF stops = {} THEN Len(list) ELSE (CHOOSE i \in stops : \A k \in stops : i <= k) - 1

Beyond(list, stops) == SubSeq(list, Until(list, stops) + 1, Len(list))

LEMMA StopsFacts ==
  ASSUME NEW list \in Seq(Ids), NEW stops, stops \subseteq DOMAIN list
  PROVE  /\ Until(list, stops) \in Nat /\ Until(list, stops) <= Len(list)
         /\ stops = {} => Until(list, stops) = Len(list)
         /\ stops # {} => /\ Until(list, stops) + 1 \in stops
                          /\ Until(list, stops) + 1 <= Len(list)
         /\ \A i \in 1..Until(list, stops) : i \notin stops
         /\ Beyond(list, stops) \in Seq(Ids) /\ Len(Beyond(list, stops)) = Len(list) - Until(list, stops)
         /\ DOMAIN Beyond(list, stops) = 1..(Len(list) - Until(list, stops))
         /\ \A i \in 1..(Len(list) - Until(list, stops)) :
               Beyond(list, stops)[i] = list[Until(list, stops) + i]
<1> DEFINE last == Until(list, stops)  ahead == Beyond(list, stops)
<1>d. ahead = SubSeq(list, last + 1, Len(list))
  BY DEF Beyond
<1>e. last = IF stops = {} THEN Len(list) ELSE (CHOOSE i \in stops : \A k \in stops : i <= k) - 1
  BY DEF Until
<1> HIDE DEF last, ahead
<1>l. Len(list) \in Nat /\ DOMAIN list = 1..Len(list) /\ \A i \in 1..Len(list) : list[i] \in Ids
  BY LenProperties
<1>1. /\ last \in Nat /\ last <= Len(list)
      /\ stops = {} => last = Len(list)
      /\ stops # {} => last + 1 \in stops /\ last + 1 <= Len(list)
      /\ \A i \in 1..last : i \notin stops
  <2>1. CASE stops = {}
    BY <1>l, <1>e, <2>1
  <2>2. CASE stops # {}
    <3> DEFINE first == CHOOSE i \in stops : \A k \in stops : i <= k
    <3>1. \E i \in stops : \A k \in stops : i <= k
      <4>1. stops \subseteq Nat
        BY <1>l
      <4> QED
        BY <2>2, <4>1, LeastNat
    <3>2. first \in stops /\ \A k \in stops : first <= k
      BY <3>1
    <3>3. last = first - 1
      BY <1>e, <2>2
    <3> HIDE DEF first
    <3>4. first \in 1..Len(list)
      BY <1>l, <3>2
    <3> QED
      BY <1>l, <2>2, <3>2, <3>3, <3>4
  <2> QED
    BY <2>1, <2>2
<1>n. last \in Nat /\ last <= Len(list) /\ Len(list) \in Nat
  BY <1>l, <1>1
<1>2. /\ ahead \in Seq(Ids)
      /\ Len(ahead) = IF last + 1 <= Len(list) THEN Len(list) - (last + 1) + 1 ELSE 0
      /\ \A k \in 1..(Len(list) - (last + 1) + 1) : ahead[k] = list[(last + 1) + k - 1]
  <2> DEFINE from == last + 1  to == Len(list)
  <2>1. from \in Int /\ to \in Int /\ \A k \in from..to : list[k] \in Ids
    <3>1. from \in Int /\ to \in Int /\ \A k \in from..to : k \in 1..Len(list)
      BY ONLY <1>n
    <3> QED
      BY <1>l, <3>1
  <2>2. ahead = SubSeq(list, from, to)
    BY <1>d
  <2> HIDE DEF from, to
  <2>3. /\ ahead \in Seq(Ids) /\ Len(ahead) = (IF from <= to THEN to - from + 1 ELSE 0)
        /\ \A k \in 1..(to - from + 1) : ahead[k] = list[from + k - 1]
    <3>1. /\ SubSeq(list, from, to) \in Seq(Ids)
          /\ Len(SubSeq(list, from, to)) = (IF from <= to THEN to - from + 1 ELSE 0)
          /\ \A k \in 1..(to - from + 1) : SubSeq(list, from, to)[k] = list[from + k - 1]
      BY ONLY <2>1, SubSeqProperties
    <3> QED
      BY <2>2, <3>1
  <2> QED
    BY <2>3 DEF from, to
<1>3. Len(list) - (last + 1) + 1 = Len(list) - last
  BY <1>n
<1>4. Len(ahead) = Len(list) - last
  <2>1. CASE last + 1 <= Len(list)
    BY <1>2, <1>3, <2>1
  <2>2. CASE ~(last + 1 <= Len(list))
    <3>1. Len(list) - last = 0
      BY <1>n, <2>2
    <3> QED
      BY <1>2, <2>2, <3>1
  <2> QED
    BY <2>1, <2>2
<1>5. ASSUME NEW i \in 1..(Len(list) - last) PROVE ahead[i] = list[last + i]
  <2>1. (last + 1) + i - 1 = last + i /\ i \in 1..(Len(list) - (last + 1) + 1)
    BY <1>n, <1>3
  <2> QED
    BY <1>2, <2>1
<1>6. DOMAIN ahead = 1..(Len(list) - last)
  BY <1>2, <1>4, LenProperties
<1> QED
  BY <1>1, <1>2, <1>4, <1>5, <1>6 DEF last, ahead

\* The visitor a takes the sessions of got and list as far as it can; ahead is what is
\* left, q being the queues before it joins one.
GoesOn(a, got, list, p, q, ahead) ==
  /\ todo' = [todo EXCEPT ![a] = ahead] /\ Rising(ahead)
  /\ ahead = <<>> => slock' = q /\ pc'[a] = AfterLoop(a)
  /\ ahead # <<>> =>
       /\ Head(ahead) \in Elems(ahead) /\ q[Head(ahead)] # <<>>
       /\ slock' = [q EXCEPT ![Head(ahead)] = Append(@, a)]
       /\ pc'[a] = "slock" /\ plan'[a].config = p.config /\ plan'[a].size = p.size
  /\ \A b \in Actors \ {a} :
       /\ plan'[b] = plan[b]
       /\ pc'[b] = pc[b] \/ (b = Deferred /\ pc[b] = "idle" /\ pc'[b] = "start")
  /\ Elems(ahead) \subseteq Elems(list)
  /\ \A s \in Elems(list) \ Elems(ahead) :
       /\ \A x \in Elems(ahead) : s < x
       /\ s \in DOMAIN cfg => cfg'[s] = p.config
       /\ a = Global => q[s] = <<>>
  /\ DOMAIN cfg' = DOMAIN cfg
  /\ \A s \in DOMAIN cfg :
       /\ cfg'[s] = cfg[s] \/ (cfg'[s] = p.config /\ s \in got \cup (Elems(list) \ Elems(ahead)))
       /\ s \in got => cfg'[s] = p.config
  /\ flaws' = flaws

LEMMA VisitorGoes ==
  ASSUME DOMAIN todo = Actors, plan \in [Actors -> Plans], DOMAIN pc = Actors,
         NEW a \in Visitors, NEW got, NEW list \in Seq(Ids), Rising(list), NEW p \in Plans,
         NEW q \in [Ids -> Seq(Actors)], Visit(a, got, list, p, q, FALSE)
  PROVE  \E ahead \in Seq(Ids) : GoesOn(a, got, list, p, q, ahead)
<1> DEFINE stops == Stops(a, list, p.config, q)
           last == Until(list, stops)
           idle == got \cup {list[i] : i \in {k \in 1..last : q[list[k]] = <<>>}}
           busy == p.busy \/ \E i \in 1..last : q[list[i]] # <<>> /\ cfg[list[i]] # p.config
           ahead == Beyond(list, stops)
<1>v. a \in Actors /\ a \in {Deferred, Global}
  BY ActorFacts DEF Visitors
<1>l. Len(list) \in Nat /\ DOMAIN list = 1..Len(list) /\ \A i \in 1..Len(list) : list[i] \in Ids
  BY LenProperties
<1>1. /\ cfg' = [s \in DOMAIN cfg |-> IF s \in idle THEN p.config ELSE cfg[s]]
      /\ plan' = [plan EXCEPT ![a] = IF stops = {} THEN NoPlan ELSE [p EXCEPT !.busy = busy]]
      /\ slock' = IF stops = {} THEN q ELSE [q EXCEPT ![list[last + 1]] = Append(@, a)]
      /\ todo' = [todo EXCEPT ![a] = ahead]
      /\ pc' = [b \in Actors |->
                  IF b = a THEN IF stops # {} THEN "slock" ELSE AfterLoop(a)
                  ELSE IF b = Deferred /\ stops = {} /\ Scheduled(a, busy) THEN "start"
                  ELSE pc[b]]
      /\ flaws' = flaws
  <2>1. flaws' = IF FALSE \/ (stops # {} /\ a \notin {Global, Deferred}) THEN flaws \cup {"config"} ELSE flaws
    BY DEF Visit
  <2>2. flaws' = flaws
    BY <1>v, <2>1
  <2> QED
    BY <2>2 DEF Visit, Until, Beyond
<1>2. /\ last \in Nat /\ last <= Len(list)
      /\ stops = {} => last = Len(list)
      /\ stops # {} => last + 1 \in stops /\ last + 1 <= Len(list)
      /\ \A i \in 1..last : i \notin stops
      /\ ahead \in Seq(Ids) /\ Len(ahead) = Len(list) - last
      /\ DOMAIN ahead = 1..(Len(list) - last)
      /\ \A i \in 1..(Len(list) - last) : ahead[i] = list[last + i]
  <2>1. stops \subseteq DOMAIN list
    BY DEF Stops
  <2> HIDE DEF stops
  <2> QED
    BY <2>1, StopsFacts
<1>3. \A i \in 1..Len(list) :
        i \notin stops => q[list[i]] = <<>> \/ (a = Deferred /\ cfg[list[i]] = p.config)
  BY <1>v, <1>l DEF Stops
<1>4. \A i \in stops : q[list[i]] # <<>>
  BY DEF Stops
<1> HIDE DEF stops, last, busy
<1>n. last \in Nat /\ last <= Len(list) /\ Len(list) \in Nat
  BY <1>l, <1>2
<1>5. /\ ahead \in Seq(Ids) /\ Len(ahead) = Len(list) - last
      /\ DOMAIN ahead = 1..(Len(list) - last)
      /\ \A i \in 1..(Len(list) - last) : ahead[i] = list[last + i]
  BY <1>2
<1> HIDE DEF ahead
<1>6. \A i \in DOMAIN ahead : last + i \in 1..Len(list) /\ ahead[i] = list[last + i] /\ last < last + i
  BY <1>l, <1>n, <1>5
<1>7. \A s \in Elems(ahead) : \E i \in 1..Len(list) : s = list[i] /\ last < i
  BY <1>6 DEF Elems
<1>8. \A i \in 1..Len(list) : last < i => list[i] \in Elems(ahead)
  <2> SUFFICES ASSUME NEW i \in 1..Len(list), last < i PROVE list[i] \in Elems(ahead)
    OBVIOUS
  <2>1. i - last \in 1..(Len(list) - last) /\ last + (i - last) = i
    BY <1>l, <1>n
  <2> QED
    BY <1>5, <2>1 DEF Elems
<1>9. \A s \in Elems(list) \ Elems(ahead) : \E i \in 1..last : s = list[i] /\ i \in 1..Len(list)
  <2> SUFFICES ASSUME NEW s \in Elems(list), s \notin Elems(ahead)
               PROVE  \E i \in 1..last : s = list[i] /\ i \in 1..Len(list)
    OBVIOUS
  <2>1. PICK i \in 1..Len(list) : s = list[i]
    BY <1>l DEF Elems
  <2>2. ~(last < i)
    BY <1>8, <2>1
  <2>3. i \in 1..last
    BY <1>n, <2>2
  <2> QED
    BY <2>1, <2>3
<1>10. \A i \in 1..last : \A s \in Elems(ahead) : list[i] < s
  <2> SUFFICES ASSUME NEW i \in 1..last, NEW s \in Elems(ahead) PROVE list[i] < s
    OBVIOUS
  <2>1. PICK k \in 1..Len(list) : s = list[k] /\ last < k
    BY <1>7
  <2>2. i \in 1..Len(list) /\ i < k
    BY <1>n, <2>1
  <2> QED
    BY <1>l, <2>1, <2>2 DEF Rising
<1>11. Rising(ahead)
  <2> SUFFICES ASSUME NEW i \in DOMAIN ahead, NEW k \in DOMAIN ahead, i < k
               PROVE  ahead[i] < ahead[k]
    BY DEF Rising
  <2>1. last + i < last + k
    BY <1>n, <1>5
  <2> QED
    BY <1>l, <1>6, <2>1 DEF Rising
<1>12. Elems(ahead) \subseteq Elems(list)
  BY <1>l, <1>7 DEF Elems
<1>13. /\ ahead = <<>> <=> stops = {}
       /\ stops # {} => Head(ahead) = list[last + 1] /\ Head(ahead) \in Elems(ahead)
  <2>1. CASE stops = {}
    <3>1. Len(ahead) = 0
      <4>1. Len(list) - last = 0
        BY <1>2, <1>n, <2>1
      <4> QED
        BY <1>5, <4>1
    <3> QED
      BY <1>5, <2>1, <3>1, EmptySeq
  <2>2. CASE stops # {}
    <3>1. 1 \in 1..(Len(list) - last)
      <4>1. last + 1 <= Len(list)
        BY <1>2, <2>2
      <4> QED
        BY <1>n, <4>1
    <3>2. ahead[1] = list[last + 1] /\ Len(ahead) # 0
      BY <1>5, <3>1
    <3>3. ahead # <<>> /\ Head(ahead) = ahead[1]
      BY <1>5, <3>2, HeadTailProperties
    <3> QED
      BY <1>5, <2>2, <3>1, <3>2, <3>3 DEF Elems
  <2> QED
    BY <2>1, <2>2
\* Those that were visited have the config, and at those Global did not wait.
<1>14. ASSUME NEW s \in Elems(list) \ Elems(ahead)
       PROVE  /\ \A x \in Elems(ahead) : s < x
              /\ s \in DOMAIN cfg => cfg'[s] = p.config
              /\ a = Global => q[s] = <<>>
  <2>1. PICK i \in 1..last : s = list[i] /\ i \in 1..Len(list)
    BY <1>9
  <2>2. q[s] = <<>> \/ (a = Deferred /\ cfg[s] = p.config)
    BY <1>2, <1>3, <2>1
  <2>3. q[s] = <<>> => s \in idle
    BY <2>1
  <2> HIDE DEF idle
  <2>4. s \in DOMAIN cfg => cfg'[s] = IF s \in idle THEN p.config ELSE cfg[s]
    BY <1>1
  <2> QED
    BY <1>10, <2>1, <2>2, <2>3, <2>4, ActorFacts
<1>15. ASSUME NEW s \in DOMAIN cfg
       PROVE  /\ cfg'[s] = cfg[s] \/ (cfg'[s] = p.config /\ s \in got \cup (Elems(list) \ Elems(ahead)))
              /\ s \in got => cfg'[s] = p.config
  <2>1. cfg'[s] = IF s \in idle THEN p.config ELSE cfg[s]
    BY <1>1
  <2>2. ASSUME s \in idle, s \notin got PROVE s \in Elems(list) \ Elems(ahead)
    <3>1. PICK i \in 1..last : s = list[i]
      BY <2>2
    <3>2. i \in 1..Len(list)
      BY <1>n
    <3>3. s \in Ids /\ \A x \in Elems(ahead) : s < x
      BY <1>l, <1>10, <3>1, <3>2
    <3>4. s \notin Elems(ahead)
      BY <3>3 DEF Ids
    <3> QED
      BY <1>l, <3>1, <3>2, <3>4 DEF Elems
  <2>3. s \in got => s \in idle
    OBVIOUS
  <2> HIDE DEF idle
  <2> QED
    BY <2>1, <2>2, <2>3
<1>16. ASSUME NEW b \in Actors \ {a}
       PROVE  /\ plan'[b] = plan[b]
              /\ pc'[b] = pc[b] \/ (b = Deferred /\ pc[b] = "idle" /\ pc'[b] = "start")
  BY <1>v, <1>1 DEF Scheduled
<1>17. stops # {} => plan'[a].config = p.config /\ plan'[a].size = p.size
  <2> SUFFICES ASSUME stops # {} PROVE plan'[a].config = p.config /\ plan'[a].size = p.size
    OBVIOUS
  <2>1. plan'[a] = [p EXCEPT !.busy = busy]
    BY <1>v, <1>1
  <2> QED
    BY <2>1 DEF Plans
<1>18. /\ DOMAIN cfg' = DOMAIN cfg
       /\ stops = {} => slock' = q /\ pc'[a] = AfterLoop(a)
       /\ stops # {} => /\ q[Head(ahead)] # <<>> /\ pc'[a] = "slock"
                        /\ slock' = [q EXCEPT ![Head(ahead)] = Append(@, a)]
  BY <1>v, <1>1, <1>2, <1>4, <1>13
<1> HIDE DEF idle
<1>19. GoesOn(a, got, list, p, q, ahead)
  BY <1>1, <1>11, <1>12, <1>13, <1>14, <1>15, <1>16, <1>17, <1>18 DEF GoesOn
<1> QED
  BY <1>5, <1>19

\* A settings handler or a connection takes every session, or is spoilt; what is busy
\* it leaves to the deferred task.
LEMMA OthersGo ==
  ASSUME DOMAIN todo = Actors, plan \in [Actors -> Plans], DOMAIN pc = Actors,
         NEW a \in Actors \ (Work \cup Visitors), NEW list, NEW p \in Plans,
         slock \in [Ids -> Seq(Actors)], NEW got, NEW q \in [Ids -> Seq(Actors)], NEW flawed,
         Visit(a, got, list, p, q, flawed)
  PROVE  /\ DOMAIN todo' = Actors
         /\ \A v \in Visitors : todo'[v] = todo[v] /\ plan'[v] = plan[v]
         /\ \A b \in Actors \ {a} :
              pc'[b] = pc[b] \/ (b = Deferred /\ pc[b] = "idle" /\ pc'[b] = "start")
         /\ \A s \in Ids : \A v \in Visitors : Keeps(slock'[s], q[s], v)
         /\ \A s \in Ids : \A v, w : Precedes(q[s], v, w) => Precedes(slock'[s], v, w)
         /\ Sound' =>
              /\ Sound /\ ~flawed /\ pc'[a] # "slock"
              /\ list \in Seq(Ids) => \A s \in Elems(list) :
                   s \in DOMAIN cfg => cfg'[s] = p.config \/ pc'[Deferred] # "idle"
              /\ \A s \in DOMAIN cfg : cfg'[s] \in {p.config, cfg[s]}
<1> DEFINE stops == Stops(a, list, p.config, q)
           last == IF stops = {} THEN Len(list) ELSE (CHOOSE i \in stops : \A k \in stops : i <= k) - 1
           idle == got \cup {list[i] : i \in {k \in 1..last : q[list[k]] = <<>>}}
           busy == p.busy \/ \E i \in 1..last : q[list[i]] # <<>> /\ cfg[list[i]] # p.config
           ahead == SubSeq(list, last + 1, Len(list))
<1>a. a \in Actors /\ a \notin Visitors /\ Visitors \subseteq Actors /\ Deferred \in Actors /\ Deferred # a
      /\ Visitors = {Global, Deferred}
  BY ActorFacts DEF Visitors
<1>1. /\ cfg' = [s \in DOMAIN cfg |-> IF s \in idle THEN p.config ELSE cfg[s]]
      /\ plan' = [plan EXCEPT ![a] = IF stops = {} THEN NoPlan ELSE [p EXCEPT !.busy = busy]]
      /\ slock' = IF stops = {} THEN q ELSE [q EXCEPT ![list[last + 1]] = Append(@, a)]
      /\ todo' = [todo EXCEPT ![a] = ahead]
      /\ pc' = [b \in Actors |->
                  IF b = a THEN IF stops # {} THEN "slock" ELSE AfterLoop(a)
                  ELSE IF b = Deferred /\ stops = {} /\ Scheduled(a, busy) THEN "start"
                  ELSE pc[b]]
      /\ flaws' = IF flawed \/ (stops # {} /\ a \notin {Global, Deferred}) THEN flaws \cup {"config"} ELSE flaws
  BY DEF Visit
<1>2. stops = {} => last = Len(list)
  OBVIOUS
<1> HIDE DEF stops, last
<1>3. list \in Seq(Ids) => \A s \in Elems(list) : stops = {} => s \in idle \/ (q[s] # <<>> /\ (cfg[s] = p.config \/ busy))
  <2> SUFFICES ASSUME list \in Seq(Ids), NEW s \in Elems(list), stops = {}
               PROVE  s \in idle \/ (q[s] # <<>> /\ (cfg[s] = p.config \/ busy))
    OBVIOUS
  <2>1. PICK i \in 1..last : s = list[i]
    BY <1>2, LenProperties DEF Elems
  <2> QED
    BY <2>1
<1> HIDE DEF idle, busy, ahead
<1>4. \A s \in Ids : slock'[s] = q[s] \/ slock'[s] = Append(q[s], a)
  BY <1>1
<1>5. \A s \in Ids : /\ \A v \in Visitors : Keeps(Append(q[s], a), q[s], v) /\ Keeps(q[s], q[s], v)
                     /\ \A v, w : Precedes(q[s], v, w) => Precedes(Append(q[s], a), v, w)
  BY <1>a, AppendKeeps DEF Keeps
<1>6. ASSUME Sound'
      PROVE  /\ Sound /\ ~flawed /\ pc'[a] # "slock"
             /\ list \in Seq(Ids) => \A s \in Elems(list) :
                  s \in DOMAIN cfg => cfg'[s] = p.config \/ pc'[Deferred] # "idle"
             /\ \A s \in DOMAIN cfg : cfg'[s] \in {p.config, cfg[s]}
  <2>1. ~flawed /\ stops = {} /\ flaws' = flaws
    BY <1>1, <1>a, <1>6 DEF Sound
  <2>2. pc'[a] = AfterLoop(a) /\ AfterLoop(a) # "slock"
    BY <1>1, <1>a, <2>1, ActorFacts
  <2>3. busy => pc'[Deferred] # "idle"
    BY <1>1, <1>a, <2>1 DEF Scheduled
  <2>4. \A s \in DOMAIN cfg : cfg'[s] = IF s \in idle THEN p.config ELSE cfg[s]
    BY <1>1
  <2> QED
    BY <1>3, <1>6, <2>1, <2>2, <2>3, <2>4 DEF Sound
<1>7. /\ DOMAIN todo' = Actors
      /\ \A v \in Visitors : todo'[v] = todo[v] /\ plan'[v] = plan[v]
      /\ \A b \in Actors \ {a} :
           pc'[b] = pc[b] \/ (b = Deferred /\ pc[b] = "idle" /\ pc'[b] = "start")
  BY <1>1, <1>a DEF Scheduled
<1>8. ASSUME NEW s \in Ids
      PROVE  /\ \A v \in Visitors : Keeps(slock'[s], q[s], v)
             /\ \A v, w : Precedes(q[s], v, w) => Precedes(slock'[s], v, w)
  <2>1. CASE slock'[s] = q[s]
    BY <1>5, <2>1
  <2>2. CASE slock'[s] = Append(q[s], a)
    BY <1>5, <2>2
  <2> QED
    BY <1>4, <2>1, <2>2
<1> QED
  BY <1>6, <1>7, <1>8

-----------------------------------------------------------------------------
(* The user lock *)

\* A queue of a lock moves from q to q2 without passing Global over.
Moves(q2, q) ==
  /\ q2 \in Seq(Actors)
  /\ q # <<>> /\ Head(q) = Global => q2 # <<>> /\ Head(q2) = Global

\* The locks move, and Global still waits for or holds the same.
LocksMove ==
  /\ locks' \in [Locks -> Seq(Actors)] /\ \A l \in Locks : Moves(locks'[l], locks[l])
  /\ lockOf'[Global] = lockOf[Global]

LEMMA QueueMoves ==
  ASSUME NEW q \in Seq(Actors), NEW a \in Actors
  PROVE  /\ Moves(q, q) /\ Moves(Append(q, a), q)
         /\ a # Global => Moves(Without(q, a), q)
         /\ q # <<>> /\ Head(q) # Global => Moves(Tail(q), q)
<1>1. Moves(Append(q, a), q)
  <2>1. Append(q, a) \in Seq(Actors) /\ Append(q, a) # <<>>
    BY AppendFacts
  <2>2. ASSUME q # <<>> PROVE Head(Append(q, a)) = Head(q)
    <3>1. Len(q) \in Nat /\ Len(q) # 0
      BY <2>2, LenProperties, EmptySeq
    <3>2. 1 \in 1..Len(q)
      BY <3>1
    <3>3. Append(q, a)[1] = q[1]
      BY <3>2, AppendProperties
    <3> QED
      BY <2>1, <2>2, <3>3, HeadTailProperties
  <2> QED
    BY <2>1, <2>2 DEF Moves
<1>2. a # Global => Moves(Without(q, a), q)
  BY WithoutKeeps DEF Moves
<1>3. q # <<>> /\ Head(q) # Global => Moves(Tail(q), q)
  BY TailKeeps DEF Moves
<1> QED
  BY <1>1, <1>2, <1>3 DEF Moves

LEMMA LocksSame ==
  ASSUME Excluding, locks' = locks, lockOf'[Global] = lockOf[Global]
  PROVE  LocksMove
BY DEF Excluding, LocksMove, Moves

LEMMA LocksWait ==
  ASSUME Excluding, Types, NEW a \in Actors, a # Global, NEW l \in Locks, Waits(a, l)
  PROVE  LocksMove
<1>1. locks[l] \in Seq(Actors) /\ Global \in Actors
  BY ActorFacts DEF Excluding
<1>2. Moves(Append(locks[l], a), locks[l])
  BY <1>1, QueueMoves
<1>3. \A k \in Locks : Moves(locks[k], locks[k])
  BY DEF Excluding, Moves
<1> QED
  BY <1>1, <1>2, <1>3 DEF Waits, LocksMove, Excluding, Types, Moves

LEMMA LocksLeave ==
  ASSUME Excluding, Types, NEW a \in Actors, a # Global, HasLock(a), Leaves(a)
  PROVE  LocksMove /\ lockOf[a] \in Locks
<1>1. /\ lockOf[a] \in Locks /\ Global \in Actors /\ locks[lockOf[a]] \in Seq(Actors)
      /\ locks[lockOf[a]] # <<>> /\ Head(locks[lockOf[a]]) = a
  BY ActorFacts DEF HasLock, Types, Excluding
<1>2. Moves(Tail(locks[lockOf[a]]), locks[lockOf[a]])
  BY <1>1, QueueMoves
<1>3. \A k \in Locks : Moves(locks[k], locks[k])
  BY DEF Excluding, Moves
<1> QED
  BY <1>1, <1>2, <1>3 DEF Leaves, LocksMove, Excluding, Types, Moves

\* What has the lock or finds it free is not crossed by Global, unless there are two.
LEMMA NotCrossed ==
  ASSUME Excluding, NEW l, locks[l] = <<>> \/ \E a \in Actors : a # Global /\ lockOf[a] = l /\ HasLock(a),
         ~Crossed(l)
  PROVE  pc[Global] # "slock"
BY DEF Excluding, Crossed, HasLock

-----------------------------------------------------------------------------
(* The steps that leave the visitors where they are *)

QueuesKeep ==
  \A s \in Ids :
    /\ \A v \in Visitors : Keeps(slock'[s], slock[s], v)
    /\ Precedes(slock[s], Deferred, Global) => Precedes(slock'[s], Deferred, Global)

\* The visitors stay, but a deferred task may be started.
Stay ==
  /\ DOMAIN todo' = Actors /\ \A v \in Visitors : todo'[v] = todo[v] /\ plan'[v] = plan[v]
  /\ pc'[Global] = pc[Global]
  /\ pc'[Deferred] = pc[Deferred] \/ (pc[Deferred] = "idle" /\ pc'[Deferred] = "start")

LEMMA VisitorFacts ==
  /\ Visitors = {Deferred, Global} /\ Deferred # Global /\ Visitors \subseteq Actors
  /\ AfterLoop(Deferred) = "check" /\ AfterLoop(Global) = "leave"
<1>1. AfterLoop(Deferred) = "check"
  BY ActorFacts DEF AfterLoop
<1>2. AfterLoop(Global) = "leave"
  BY ActorFacts DEF AfterLoop
<1> QED
  BY <1>1, <1>2, ActorFacts DEF Visitors

LEMMA HeadAhead ==
  ASSUME NEW q \in Seq(Ids), q # <<>>
  PROVE  /\ Head(q) \in Ids /\ Head(q) \in Elems(q) /\ Elems(q) \subseteq Ids
         /\ Rising(q) => \A x \in Elems(q) : Head(q) <= x
<1>1. /\ Len(q) \in Nat /\ Len(q) # 0 /\ DOMAIN q = 1..Len(q) /\ Head(q) = q[1]
      /\ \A i \in 1..Len(q) : q[i] \in Ids
  BY LenProperties, EmptySeq, HeadTailProperties
<1>2. 1 \in 1..Len(q)
  BY <1>1
<1>3. ASSUME Rising(q), NEW x \in Elems(q) PROVE q[1] <= x
  <2>1. PICK i \in 1..Len(q) : x = q[i]
    BY <1>1 DEF Elems
  <2>2. q[1] \in Int /\ q[i] \in Int
    BY <1>1, <1>2 DEF Ids
  <2>3. i = 1 \/ 1 < i
    BY <2>1
  <2> QED
    BY <1>1, <1>2, <1>3, <2>1, <2>2, <2>3 DEF Rising
<1> QED
  BY <1>1, <1>2, <1>3 DEF Elems

LEMMA Aside ==
  ASSUME ArriveInv, LocksMove, QueuesKeep, Stay,
         \A a \in Actors \ (Work \cup Visitors) : pc'[a] = "slock" => pc[a] = "slock" \/ ~Sound',
         Sound' => Sound, changed => changed',
         Rising(reg'), DOMAIN ref \subseteq DOMAIN ref', Registered \subseteq Registered',
         Sound' /\ Ahead(Global) \cap Registered' # {} =>
           Ahead(Global) \cap Registered # {} /\ Effective' = Effective /\ Len(reg') = Len(reg),
         Sound' /\ pc[Deferred] = "slock" /\ ~changed' => Effective' = Effective,
         Sound' => \A s \in Registered' : Due(s)'
  PROVE  ArriveInv'
<1>0. Ways /\ Excluding /\ Current /\ Followed /\ Spoilt
  BY DEF ArriveInv
<1>1. /\ todo'[Deferred] = todo[Deferred] /\ todo'[Global] = todo[Global]
      /\ plan'[Deferred] = plan[Deferred] /\ plan'[Global] = plan[Global]
      /\ pc'[Deferred] = "slock" <=> pc[Deferred] = "slock"
      /\ Ahead(Deferred)' = Ahead(Deferred) /\ Ahead(Global)' = Ahead(Global)
  BY VisitorFacts DEF Stay, Ahead
<1>2. Ways'
  <2>1. ASSUME NEW v \in Visitors
        PROVE  /\ todo'[v] \in Seq(Ids) /\ Rising(todo'[v]) /\ Elems(todo'[v]) \subseteq DOMAIN ref'
               /\ pc'[v] = "slock" <=> todo'[v] # <<>>
    BY <1>0, <1>1, VisitorFacts DEF Ways, Stay, Ahead
  <2>2. ASSUME NEW v \in Visitors, NEW s \in Ids
        PROVE  /\ Once(slock'[s], v)
               /\ In(slock'[s], v) <=> todo'[v] # <<>> /\ s = Head(todo'[v])
    <3>1. Keeps(slock'[s], slock[s], v)
      BY DEF QueuesKeep
    <3>2. todo'[v] = todo[v]
      BY DEF Stay
    <3> QED
      BY <1>0, <3>1, <3>2 DEF Ways, Keeps
  <2>3. /\ pc'[Deferred] \in {"idle", "start", "ulock", "slock", "check"}
        /\ pc'[Global] \in {"idle", "ulock", "slock", "leave"}
    BY <1>0 DEF Ways, Stay
  <2>4. DOMAIN todo' = Actors
    BY DEF Stay
  <2> QED
    BY <2>1, <2>2, <2>3, <2>4 DEF Ways, Ahead
<1>3. Excluding'
  BY <1>0 DEF Excluding, LocksMove, Moves, Stay
<1>4. Current'
  BY <1>0, <1>1 DEF Current
<1>5. Followed'
  <2>1. Ahead(Deferred)' \subseteq Registered'
    BY <1>0, <1>1 DEF Followed
  <2>2. ASSUME Sound', pc'[Deferred] = "slock", ~changed', plan'[Deferred].config # Effective'
        PROVE  \/ pc'[Global] = "ulock"
               \/ /\ pc'[Global] = "slock" /\ Ahead(Deferred) \subseteq Ahead(Global)
                  /\ Head(todo[Deferred]) = Head(todo[Global]) =>
                       Precedes(slock'[Head(todo[Deferred])], Deferred, Global)
    <3>1. Sound /\ pc[Deferred] = "slock" /\ ~changed /\ plan[Deferred].config # Effective
      BY <1>1, <2>2
    <3>2. todo[Deferred] \in Seq(Ids) /\ todo[Deferred] # <<>>
      BY <1>0, <3>1, VisitorFacts DEF Ways
    <3>3. Head(todo[Deferred]) \in Ids
      BY <3>2, HeadAhead
    <3> QED
      BY <1>0, <3>1, <3>3 DEF Followed, QueuesKeep, Stay
  <2> QED
    BY <1>1, <2>1, <2>2 DEF Followed
<1>6. Spoilt'
  BY <1>0 DEF Spoilt
<1> QED
  BY <1>2, <1>3, <1>4, <1>5, <1>6 DEF ArriveInv

\* What is due stays due.
LEMMA DueKept ==
  ASSUME NEW s, Due(s), Stay, Effective' = Effective, cfg'[s] \in {cfg[s], Effective},
         changed => changed'
  PROVE  Due(s)'
<1>1. /\ todo'[Deferred] = todo[Deferred] /\ todo'[Global] = todo[Global]
      /\ plan'[Deferred] = plan[Deferred]
      /\ Ahead(Deferred)' = Ahead(Deferred) /\ Ahead(Global)' = Ahead(Global)
  BY VisitorFacts DEF Stay, Ahead
<1> QED
  BY <1>1 DEF Due, Stay

LEMMA Frame ==
  ASSUME ArriveInv, LocksMove, QueuesKeep, Stay,
         \A a \in Actors \ (Work \cup Visitors) : pc'[a] = "slock" => pc[a] = "slock" \/ ~Sound',
         Sound' => Sound /\ cfg' = cfg,
         UNCHANGED <<override, base, changed, reg, ref>>
  PROVE  ArriveInv'
<1>1. Effective' = Effective /\ Registered' = Registered
  BY DEF Effective, Registered
<1>2. ASSUME Sound', NEW s \in Registered' PROVE Due(s)'
  BY <1>1, <1>2, DueKept DEF ArriveInv
<1>3. Rising(reg')
  BY DEF ArriveInv, Ways
<1> QED
  BY <1>1, <1>2, <1>3, Aside

LEMMA QueuesSame ==
  ASSUME slock' = slock
  PROVE  QueuesKeep
BY DEF QueuesKeep, Keeps

LEMMA JoinKeeps ==
  ASSUME Types, NEW j \in Work, NEW s \in Ids, Join(j, s)
  PROVE  QueuesKeep
<1>1. /\ j \in Actors /\ j \notin Visitors /\ slock[s] \in Seq(Actors)
      /\ slock' = [slock EXCEPT ![s] = Append(@, j)]
  BY ActorFacts, VisitorFacts DEF Types, Join
<1>2. /\ \A v \in Visitors : Keeps(Append(slock[s], j), slock[s], v)
      /\ Precedes(slock[s], Deferred, Global) => Precedes(Append(slock[s], j), Deferred, Global)
  BY <1>1, AppendKeeps
<1>3. slock'[s] = Append(slock[s], j) /\ \A t \in Ids \ {s} : slock'[t] = slock[t]
  BY <1>1 DEF Types
<1> QED
  BY <1>2, <1>3 DEF QueuesKeep, Keeps

LEMMA LeavesKeeps ==
  ASSUME Types, NEW a, a \notin Visitors, LeavesSessions(a)
  PROVE  QueuesKeep
<1>1. \A s \in Ids : slock'[s] = Without(slock[s], a) /\ slock[s] \in Seq(Actors)
  BY DEF LeavesSessions, Types
<1> QED
  BY <1>1, WithoutKeeps, VisitorFacts DEF QueuesKeep

LEMMA TasksArrive ==
  ASSUME SessionsInv, ArriveInv, NEW j \in Jobs,
         Refused(j) \/ TakeSession(j) \/ EndWork(j) \/ CancelWaiting(j)
  PROVE  ArriveInv'
<1>1. /\ Types /\ Excluding /\ DOMAIN todo = Actors /\ DOMAIN pc = Actors
      /\ j \in Actors /\ j \notin Visitors /\ j # Global /\ j # Deferred
      /\ Global \in Actors /\ Deferred \in Actors
  BY ActorFacts, VisitorFacts DEF SessionsInv, ArriveInv, Ways, Types
<1>2. CASE Refused(j) \/ TakeSession(j) \/ EndWork(j)
  <2>1. QueuesKeep
    BY <1>1, <1>2, QueuesSame, LeavesKeeps DEF Refused, TakeSession, EndWork
  <2>2. /\ lockOf' = lockOf /\ locks' = locks /\ todo' = todo /\ plan' = plan /\ flaws' = flaws
        /\ UNCHANGED <<override, base, changed, reg, ref, cfg>>
    BY <1>2 DEF Refused, TakeSession, EndWork, WorkRest, lockVars, userVars, regVars
  <2>3. \E x \in {"done", "running"} : pc' = [pc EXCEPT ![j] = x]
    BY <1>2 DEF Refused, TakeSession, EndWork
  <2>4. Stay
    BY <1>1, <2>2, <2>3 DEF Stay
  <2>5. \A a \in Actors : pc'[a] = "slock" => pc[a] = "slock"
    BY <1>1, <2>3
  <2>6. LocksMove
    BY <1>1, <2>2, LocksSame
  <2> QED
    BY <2>1, <2>2, <2>4, <2>5, <2>6, Frame DEF Sound
<1>3. CASE CancelWaiting(j)
  <2>1. QueuesKeep
    BY <1>1, <1>3, LeavesKeeps DEF CancelWaiting
  <2>2. /\ todo' = [todo EXCEPT ![j] = <<>>] /\ plan' = plan /\ pc' = [pc EXCEPT ![j] = "done"]
        /\ locks' = [l \in Locks |-> Without(locks[l], j)] /\ lockOf' = [lockOf EXCEPT ![j] = None]
        /\ flaws \subseteq flaws'
        /\ UNCHANGED <<override, base, changed, reg, ref, cfg>>
    BY <1>3 DEF CancelWaiting, userVars, regVars
  <2>3. Stay
    BY <1>1, <2>2, VisitorFacts DEF Stay
  <2>4. \A a \in Actors : pc'[a] = "slock" => pc[a] = "slock"
    BY <1>1, <2>2
  <2>5. LocksMove
    <3>1. \A l \in Locks : Moves(Without(locks[l], j), locks[l])
      BY <1>1, QueueMoves DEF Excluding
    <3>2. lockOf'[Global] = lockOf[Global]
      BY <1>1, <2>2 DEF Types
    <3> QED
      BY <2>2, <3>1, <3>2 DEF LocksMove, Moves
  <2> QED
    BY <2>1, <2>2, <2>3, <2>4, <2>5, Frame DEF Sound
<1> QED
  BY <1>2, <1>3

\* A session that is created has the config of the moment.  Unless that is crossed by
\* update_all_sessions_config, it is not under way.
LEMMA StoreArrives ==
  ASSUME SessionsInv, ArriveInv, NEW j \in Work, job[j].ref \in Refs, NEW l,
         locks[l] = <<>> \/ (lockOf[j] = l /\ HasLock(j)),
         Store(j, l), reg' = Append(reg, Len(ref) + 1), LocksMove, UNCHANGED WorkRest
  PROVE  ArriveInv'
<1>s. PICK s \in Ids : s = Len(ref) + 1
  BY DEF Store, Create
<1>0. /\ Types /\ Ways /\ Excluding /\ j \in Actors /\ j \notin Visitors /\ j # Global
      /\ DOMAIN pc = Actors /\ DOMAIN todo = Actors
  BY ActorFacts, VisitorFacts DEF SessionsInv, ArriveInv, Types, Ways
<1>1. /\ s \in Ids /\ Join(j, s) /\ ref' = Append(ref, job[j].ref) /\ cfg' = Append(cfg, Effective)
      /\ flaws' = IF Crossed(l) THEN flaws \cup {"config"} ELSE flaws
      /\ UNCHANGED <<override, base, changed, todo, plan>>
  BY <1>s DEF Store, Create, WorkRest, userVars
<1>2. /\ Len(ref) \in Nat /\ DOMAIN ref = 1..Len(ref) /\ DOMAIN cfg = 1..Len(ref) /\ Len(cfg) = Len(ref)
      /\ Registered \subseteq 1..Len(ref)
  BY <1>0, LenProperties DEF Types
<1>3. /\ Len(reg) \in Nat /\ DOMAIN reg = 1..Len(reg) /\ DOMAIN reg' = 1..(Len(reg) + 1)
      /\ reg'[Len(reg) + 1] = s /\ \A i \in 1..Len(reg) : reg'[i] = reg[i]
  BY <1>0, <1>1, <1>s, AppendProperties, LenProperties DEF Types
<1>4. DOMAIN ref' = 1..(Len(ref) + 1)
  BY <1>0, <1>1, <1>2, AppendProperties, LenProperties DEF Types
<1>5. cfg'[s] = Effective /\ \A t \in Registered : cfg'[t] = cfg[t]
  <2>1. cfg \in Seq(Configs) /\ Effective \in Configs
    BY <1>0, EffectiveFacts DEF Types
  <2>2. Append(cfg, Effective)[Len(cfg) + 1] = Effective /\ \A i \in 1..Len(cfg) : Append(cfg, Effective)[i] = cfg[i]
    BY <2>1, AppendProperties
  <2> QED
    BY <1>1, <1>2, <1>s, <2>2
<1>6. Registered' = Registered \cup {s}
  <2>1. Registered' = {reg'[i] : i \in 1..(Len(reg) + 1)} /\ Registered = {reg[i] : i \in 1..Len(reg)}
    BY <1>3 DEF Registered
  <2>2. \A i \in 1..(Len(reg) + 1) : i \in 1..Len(reg) \/ i = Len(reg) + 1
    BY <1>3
  <2>3. Len(reg) + 1 \in 1..(Len(reg) + 1) /\ \A i \in 1..Len(reg) : i \in 1..(Len(reg) + 1)
    BY <1>3
  <2> QED
    BY <1>3, <2>1, <2>2, <2>3
<1>7. Rising(reg')
  <2>1. \A i \in 1..Len(reg) : reg[i] \in Registered /\ reg[i] < s
    <3>1. ASSUME NEW t \in Registered PROVE t < s
      <4>1. t \in 1..Len(ref)
        BY <1>2
      <4> QED
        BY <1>2, <1>s, <4>1
    <3> QED
      BY <1>3, <3>1 DEF Registered
  <2>2. ASSUME NEW i \in DOMAIN reg', NEW k \in DOMAIN reg', i < k PROVE reg'[i] < reg'[k]
    <3>1. i \in 1..Len(reg) /\ (k \in 1..Len(reg) \/ k = Len(reg) + 1)
      BY <1>3, <2>2
    <3>2. Rising(reg)
      BY <1>0 DEF Ways
    <3>3. CASE k \in 1..Len(reg)
      BY <1>3, <2>2, <3>1, <3>2, <3>3 DEF Rising
    <3>4. CASE k = Len(reg) + 1
      BY <1>3, <2>1, <3>1, <3>4
    <3> QED
      BY <3>1, <3>3, <3>4
  <2> QED
    BY <2>2 DEF Rising
<1>8. DOMAIN ref \subseteq DOMAIN ref' /\ s \notin DOMAIN ref
  BY <1>2, <1>4, <1>s
<1>9. QueuesKeep
  BY <1>0, <1>1, JoinKeeps
<1>10. Effective' = Effective
  BY <1>1 DEF Effective
<1>11. Stay /\ \A a \in Actors \ (Work \cup Visitors) : pc'[a] = pc[a]
  BY <1>0, <1>1, VisitorFacts DEF Join, Stay
<1>12. ASSUME Sound', Ahead(Global) \cap Registered' # {} PROVE FALSE
  <2>1. ~Crossed(l)
    BY <1>1, <1>12 DEF Sound
  <2>2. pc[Global] # "slock"
    BY <1>0, <2>1, NotCrossed
  <2>3. todo[Global] = <<>>
    BY <1>0, <2>2, VisitorFacts DEF Ways
  <2> QED
    BY <1>12, <2>3 DEF Ahead, Elems
<1>13. ASSUME Sound' PROVE Sound /\ \A t \in Registered' : Due(t)'
  <2>1. Sound
    BY <1>1, <1>13 DEF Sound
  <2>2. ASSUME NEW t \in Registered PROVE Due(t)'
    <3>1. Due(t)
      BY <2>1 DEF ArriveInv
    <3> QED
      BY <1>1, <1>5, <1>10, <1>11, <3>1, DueKept
  <2>3. Due(s)'
    BY <1>5, <1>10 DEF Due
  <2> QED
    BY <1>6, <2>1, <2>2, <2>3
<1> QED
  BY <1>1, <1>6, <1>7, <1>8, <1>9, <1>10, <1>11, <1>12, <1>13, Aside

LEMMA JoinArrives ==
  ASSUME SessionsInv, ArriveInv, NEW j \in Work, NEW s \in Ids, Join(j, s), LocksMove,
         UNCHANGED <<WorkRest, regVars, cfg, flaws>>
  PROVE  ArriveInv'
<1>0. /\ Types /\ j \in Actors /\ j \notin Visitors /\ DOMAIN pc = Actors /\ DOMAIN todo = Actors
      /\ UNCHANGED <<override, base, changed, todo, plan, reg, ref, cfg, flaws>>
  BY ActorFacts, VisitorFacts DEF SessionsInv, ArriveInv, Types, Ways, WorkRest, userVars, regVars
<1>1. QueuesKeep
  BY <1>0, JoinKeeps
<1>2. Stay /\ \A a \in Actors \ (Work \cup Visitors) : pc'[a] = pc[a]
  BY <1>0, VisitorFacts DEF Join, Stay
<1> QED
  BY <1>0, <1>1, <1>2, Frame DEF Sound

LEMMA FindArrives ==
  ASSUME SessionsInv, ArriveInv, NEW j \in Jobs, FindSession(j) \/ FindSessionLocked(j)
  PROVE  ArriveInv'
<1>0. /\ Types /\ LiveOpen /\ Excluding /\ UNCHANGED WorkRest
      /\ j \in Work /\ j \in Actors /\ j # Global /\ j \notin Visitors /\ pc[j] \in {"start", "ulock"}
      /\ DOMAIN pc = Actors /\ DOMAIN todo = Actors
  BY ActorFacts, VisitorFacts DEF SessionsInv, ArriveInv, Types, Ways, FindSession, FindSessionLocked
<1>1. job[j].ref \in Refs
  BY <1>0 DEF LiveOpen
<1>2. \A s \in Lookup(job[j].ref) : s \in Ids
  BY <1>0 DEF Types, Lookup, Registered
<1>3. ASSUME NEW l, GetOrCreate(j, l), LocksMove, locks[l] = <<>> \/ (lockOf[j] = l /\ HasLock(j))
      PROVE  ArriveInv'
  <2>1. CASE \E s \in Lookup(job[j].ref) : Join(j, s) /\ UNCHANGED <<regVars, cfg, flaws>>
    BY <1>0, <1>2, <1>3, <2>1, JoinArrives
  <2>2. CASE Store(j, l) /\ reg' = Append(reg, Len(ref) + 1)
    BY <1>0, <1>1, <1>3, <2>2, StoreArrives
  <2> QED
    BY <1>3, <2>1, <2>2 DEF GetOrCreate
<1>4. CASE FindSession(j)
  <2>1. CASE \E s \in Lookup(job[j].ref) : Join(j, s) /\ UNCHANGED <<flaws, regVars, cfg, lockVars>>
    <3>1. LocksMove
      BY <1>0, <2>1, LocksSame DEF lockVars
    <3> QED
      BY <1>0, <1>2, <2>1, <3>1, JoinArrives
  <2>2. ASSUME NEW l \in LockObjects, PassesThrough(l), GetOrCreate(j, l)
        PROVE  ArriveInv'
    <3>1. LocksMove
      BY <1>0, <2>2, LocksSame DEF PassesThrough
    <3> QED
      BY <1>3, <2>2, <3>1 DEF PassesThrough
  <2>3. ASSUME NEW l \in LockObjects, Waits(j, l), pc' = [pc EXCEPT ![j] = "ulock"],
               UNCHANGED <<flaws, regVars, cfg, slock, held>>
        PROVE  ArriveInv'
    <3>1. LocksMove
      BY <1>0, <2>3, LockFacts, LocksWait
    <3>2. QueuesKeep /\ UNCHANGED <<override, base, changed, todo, plan, reg, ref, cfg, flaws>>
      BY <1>0, <2>3, QueuesSame DEF WorkRest, userVars, regVars
    <3>3. Stay /\ \A a \in Actors \ (Work \cup Visitors) : pc'[a] = pc[a]
      BY <1>0, <2>3, <3>2, VisitorFacts DEF Stay
    <3> QED
      BY <3>1, <3>2, <3>3, Frame DEF Sound
  <2> QED
    BY <1>4, <2>1, <2>2, <2>3 DEF FindSession
<1>5. CASE FindSessionLocked(j)
  <2>1. HasLock(j) /\ Leaves(j) /\ GetOrCreate(j, lockOf[j])
    BY <1>5 DEF FindSessionLocked
  <2>2. LocksMove
    BY <1>0, <2>1, LocksLeave
  <2> QED
    BY <1>3, <2>1, <2>2
<1> QED
  BY <1>4, <1>5

-----------------------------------------------------------------------------
(* Settings handlers and connections *)

LEMMA ApplyArrives ==
  ASSUME SessionsInv, ArriveInv, NEW a \in Actors \ (Work \cup Visitors), NEW v \in Values, NEW l,
         locks[l] = <<>> \/ (lockOf[a] = l /\ HasLock(a)), ApplyUpdate(a, v, l),
         LocksMove, UNCHANGED <<reg, ref, base>>
  PROVE  ArriveInv'
<1> DEFINE p == PlanOf([value |-> v, base |-> base])
           flawed == v # override /\ Crossed(l)
<1>0. /\ Types /\ Ways /\ Excluding /\ DOMAIN todo = Actors /\ a \in Actors /\ a # Global /\ a # Deferred
      /\ Global \in Actors /\ Deferred \in Actors /\ reg \in Seq(Ids) /\ slock \in [Ids -> Seq(Actors)]
      /\ plan \in [Actors -> Plans] /\ DOMAIN pc = Actors
  BY VisitorFacts DEF SessionsInv, ArriveInv, Types, Ways
<1>1. /\ override' = v /\ Visit(a, {}, reg, p, slock, flawed)
      /\ changed' = (changed \/ (v # override /\ pc[Deferred] \in {"slock", "check"}))
  BY DEF ApplyUpdate
<1>2. p \in Plans /\ p.config = [value |-> v, base |-> base]
  <2>1. [value |-> v, base |-> base] \in Configs
    BY <1>0 DEF Configs, Types
  <2> QED
    BY <1>0, <2>1, PlanFacts DEF PlanOf
<1> HIDE DEF p, flawed
<1>3. Effective' = p.config /\ (v = override => Effective' = Effective)
  BY <1>1, <1>2 DEF Effective
<1>4. /\ DOMAIN todo' = Actors
      /\ \A w \in Visitors : todo'[w] = todo[w] /\ plan'[w] = plan[w]
      /\ \A b \in Actors \ {a} :
           pc'[b] = pc[b] \/ (b = Deferred /\ pc[b] = "idle" /\ pc'[b] = "start")
      /\ \A s \in Ids : \A w \in Visitors : Keeps(slock'[s], slock[s], w)
      /\ \A s \in Ids : \A w, x : Precedes(slock[s], w, x) => Precedes(slock'[s], w, x)
      /\ Sound' =>
           /\ Sound /\ ~flawed /\ pc'[a] # "slock"
           /\ \A s \in Elems(reg) :
                s \in DOMAIN cfg => cfg'[s] = p.config \/ pc'[Deferred] # "idle"
           /\ \A s \in DOMAIN cfg : cfg'[s] \in {p.config, cfg[s]}
  <2>1. /\ DOMAIN todo = Actors /\ plan \in [Actors -> Plans] /\ DOMAIN pc = Actors
        /\ a \in Actors \ (Work \cup Visitors) /\ p \in Plans /\ slock \in [Ids -> Seq(Actors)]
        /\ Visit(a, {}, reg, p, slock, flawed)
    BY <1>0, <1>1, <1>2
  <2>2. /\ DOMAIN todo' = Actors
        /\ \A w \in Visitors : todo'[w] = todo[w] /\ plan'[w] = plan[w]
        /\ \A b \in Actors \ {a} :
             pc'[b] = pc[b] \/ (b = Deferred /\ pc[b] = "idle" /\ pc'[b] = "start")
        /\ \A s \in Ids : \A w \in Visitors : Keeps(slock'[s], slock[s], w)
        /\ \A s \in Ids : \A w, x : Precedes(slock[s], w, x) => Precedes(slock'[s], w, x)
        /\ Sound' =>
             /\ Sound /\ ~flawed /\ pc'[a] # "slock"
             /\ reg \in Seq(Ids) => \A s \in Elems(reg) :
                  s \in DOMAIN cfg => cfg'[s] = p.config \/ pc'[Deferred] # "idle"
             /\ \A s \in DOMAIN cfg : cfg'[s] \in {p.config, cfg[s]}
    BY <2>1, OthersGo
  <2> QED
    BY <1>0, <1>2, <2>2
<1>5. Stay /\ QueuesKeep
  BY <1>0, <1>4, VisitorFacts DEF Stay, QueuesKeep
<1>6. \A b \in Actors \ (Work \cup Visitors) : pc'[b] = "slock" => pc[b] = "slock" \/ ~Sound'
  BY <1>4
<1>7. Registered' = Registered /\ Registered = Elems(reg) /\ Registered \subseteq DOMAIN cfg
  <2>1. DOMAIN cfg = DOMAIN ref
    BY <1>0, LenProperties DEF Types
  <2> QED
    BY <1>0, <2>1 DEF Registered, Elems, Types
\* update_all_sessions_config has no session ahead that is still there, or nothing changes.
<1>8. ASSUME Sound', Ahead(Global) \cap Registered' # {} PROVE v = override
  <2>1. todo[Global] # <<>>
    BY <1>8 DEF Ahead, Elems
  <2>2. pc[Global] = "slock"
    BY <1>0, <2>1, VisitorFacts DEF Ways
  <2>3. Crossed(l)
    BY <1>0, <2>2, NotCrossed
  <2> QED
    BY <1>4, <1>8, <2>3 DEF flawed
<1>9. ASSUME Sound', NEW s \in Registered' PROVE Due(s)'
  <2>1. /\ Sound /\ Due(s) /\ cfg'[s] \in {p.config, cfg[s]}
        /\ cfg'[s] = p.config \/ pc'[Deferred] # "idle"
    BY <1>4, <1>7, <1>9 DEF ArriveInv
  <2>2. CASE v = override
    <3>1. cfg'[s] \in {cfg[s], Effective} /\ (changed => changed')
      BY <1>1, <1>3, <2>1, <2>2
    <3> QED
      BY <1>3, <1>5, <2>1, <2>2, <3>1, DueKept
  <2>3. CASE v # override
    <3>1. pc'[Deferred] \in {"slock", "check"} => changed'
      BY <1>1, <1>5, <2>3 DEF Stay
    <3>2. pc'[Deferred] \in {"idle", "start", "ulock", "slock", "check"}
      BY <1>0, <1>5 DEF Stay, Ways
    <3> QED
      BY <1>3, <2>1, <3>1, <3>2 DEF Due
  <2> QED
    BY <2>2, <2>3
<1>10. Rising(reg') /\ (changed => changed')
  BY <1>0, <1>1 DEF Ways
<1>11. Sound' /\ pc[Deferred] = "slock" /\ ~changed' => v = override
  BY <1>1
<1> QED
  BY <1>3, <1>4, <1>5, <1>6, <1>7, <1>8, <1>9, <1>10, <1>11, Aside

LEMMA RequestArrives ==
  ASSUME SessionsInv, ArriveInv, NEW a \in Actors \ (Work \cup Visitors), NEW v \in Values,
         RequestUpdate(a, v), UNCHANGED <<reg, ref, base>>
  PROVE  ArriveInv'
<1>0. /\ Types /\ Excluding /\ DOMAIN todo = Actors /\ DOMAIN pc = Actors /\ a # Global /\ a # Deferred
  BY VisitorFacts DEF SessionsInv, ArriveInv, Types, Ways
<1>1. PICK l \in LockObjects :
        \/ PassesThrough(l) /\ ApplyUpdate(a, v, l)
        \/ /\ Waits(a, l) /\ pc' = [pc EXCEPT ![a] = "ulock"]
           /\ UNCHANGED <<override, changed, cfg, slock, todo, plan, flaws>>
  BY DEF RequestUpdate
<1>2. CASE PassesThrough(l) /\ ApplyUpdate(a, v, l)
  <2>1. LocksMove
    BY <1>0, <1>2, LocksSame DEF PassesThrough
  <2> QED
    BY <1>2, <2>1, ApplyArrives DEF PassesThrough
<1>3. CASE /\ Waits(a, l) /\ pc' = [pc EXCEPT ![a] = "ulock"]
           /\ UNCHANGED <<override, changed, cfg, slock, todo, plan, flaws>>
  <2>1. LocksMove
    BY <1>0, <1>3, LockFacts, LocksWait
  <2>2. Stay /\ \A b \in Actors \ (Work \cup Visitors) : pc'[b] = "slock" => pc[b] = "slock"
    BY <1>0, <1>3, VisitorFacts DEF Stay
  <2> QED
    BY <1>3, <2>1, <2>2, QueuesSame, Frame DEF Sound
<1> QED
  BY <1>1, <1>2, <1>3

LEMMA SettingsSteps ==
  ASSUME SessionsInv, ArriveInv, NEW a \in Actors,
         \/ a \in Jobs /\ UpdateSettings(a)
         \/ a \in Conns /\ OpenWithOverrides(a)
         \/ UpdateLocked(a)
         \/ a \notin Visitors /\ ApplyWaited(a)
  PROVE  ArriveInv'
<1>0. /\ Types /\ Excluding /\ DOMAIN todo = Actors /\ DOMAIN pc = Actors
      /\ Asked(a) \in Values
  BY DEF SessionsInv, ArriveInv, Types, Ways, Asked, Values
<1>1. a \in Settings \cup Conns => a \in Actors \ (Work \cup Visitors) /\ a # Global
  BY ActorFacts, VisitorFacts DEF Jobs
<1>2. CASE (a \in Jobs /\ UpdateSettings(a)) \/ (a \in Conns /\ OpenWithOverrides(a))
  <2>1. RequestUpdate(a, Asked(a)) /\ a \in Settings \cup Conns /\ UNCHANGED <<reg, ref, base>>
    BY <1>2 DEF UpdateSettings, OpenWithOverrides, UpdateRest, regVars
  <2> QED
    BY <1>0, <1>1, <2>1, RequestArrives
<1>3. CASE UpdateLocked(a)
  <2>1. /\ HasLock(a) /\ Leaves(a) /\ ApplyUpdate(a, Asked(a), lockOf[a])
        /\ a \in Settings \cup Conns /\ UNCHANGED <<reg, ref, base>>
    BY <1>3 DEF UpdateLocked, UpdateRest, regVars
  <2>2. LocksMove
    BY <1>0, <1>1, <2>1, LocksLeave
  <2> QED
    BY <1>0, <1>1, <2>1, <2>2, ApplyArrives
<1>4. CASE a \notin Visitors /\ ApplyWaited(a)
  <2>0. /\ pc[a] = "slock" /\ a \in Actors \ (Work \cup Visitors) /\ a # Global
        /\ UNCHANGED <<reg, ref, override, base, changed, locks, lockOf>>
    BY <1>4, VisitorFacts DEF ApplyWaited, UpdateRest, regVars, lockVars
  <2>1. ~Sound
    BY <2>0 DEF ArriveInv, Spoilt
  <2>2. PICK s \in Ids \ held :
          /\ slock[s] # <<>> /\ Head(slock[s]) = a
          /\ Visit(a, {s}, Tail(todo[a]), plan[a], [slock EXCEPT ![s] = Tail(@)], FALSE)
    BY <1>4, <2>0 DEF ApplyWaited
  <2> DEFINE q == [slock EXCEPT ![s] = Tail(@)]
  <2>3. /\ Tail(slock[s]) \in Seq(Actors)
        /\ \A v \in Visitors : Keeps(Tail(slock[s]), slock[s], v)
        /\ \A w : Precedes(slock[s], Deferred, w) => Precedes(Tail(slock[s]), Deferred, w)
    <3>1. slock[s] \in Seq(Actors) /\ \A v \in Visitors : v # Head(slock[s])
      BY <1>0, <2>0, <2>2 DEF Types
    <3> QED
      BY <2>2, <3>1, TailKeeps, VisitorFacts
  <2>4. /\ q \in [Ids -> Seq(Actors)]
        /\ \A t \in Ids : /\ \A v \in Visitors : Keeps(q[t], slock[t], v)
                          /\ \A w : Precedes(slock[t], Deferred, w) => Precedes(q[t], Deferred, w)
    <3>1. q[s] = Tail(slock[s]) /\ \A t \in Ids \ {s} : q[t] = slock[t]
      BY <1>0 DEF Types
    <3>2. q \in [Ids -> Seq(Actors)]
      BY <1>0, <2>3 DEF Types
    <3> HIDE DEF q
    <3> QED
      BY <2>3, <3>1, <3>2 DEF Keeps
  <2>5. plan[a] \in Plans /\ slock \in [Ids -> Seq(Actors)] /\ plan \in [Actors -> Plans]
    BY <1>0, <2>0 DEF Types
  <2>6. Visit(a, {s}, Tail(todo[a]), plan[a], q, FALSE)
    BY <2>2
  <2> HIDE DEF q
  <2>7. /\ DOMAIN todo' = Actors
        /\ \A v \in Visitors : todo'[v] = todo[v] /\ plan'[v] = plan[v]
        /\ \A b \in Actors \ {a} :
             pc'[b] = pc[b] \/ (b = Deferred /\ pc[b] = "idle" /\ pc'[b] = "start")
        /\ \A t \in Ids : \A v \in Visitors : Keeps(slock'[t], q[t], v)
        /\ \A t \in Ids : \A v, w : Precedes(q[t], v, w) => Precedes(slock'[t], v, w)
        /\ Sound' => Sound
    BY <1>0, <2>0, <2>4, <2>5, <2>6, OthersGo
  <2>8. QueuesKeep
    BY <2>4, <2>7 DEF QueuesKeep, Keeps
  <2>9. Stay /\ \A b \in Actors \ (Work \cup Visitors) : pc'[b] = "slock" => pc[b] = "slock"
    BY <2>0, <2>7, VisitorFacts DEF Stay
  <2>10. LocksMove
    BY <1>0, <2>0, LocksSame
  <2> QED
    BY <2>0, <2>1, <2>7, <2>8, <2>9, <2>10, Frame
<1> QED
  BY <1>2, <1>3, <1>4

LEMMA EndAllArrives ==
  ASSUME SessionsInv, ArriveInv, NEW c \in Conns, NEW l \in Locks, EndAll(c, l), LocksAfter(c, l),
         UNCHANGED <<base, ref, cfg>>
  PROVE  ArriveInv'
<1>0. /\ Types /\ Ways /\ Excluding /\ Spoilt /\ DOMAIN todo = Actors /\ DOMAIN pc = Actors
      /\ c \in Actors /\ c \notin Visitors /\ c # Global /\ c # Deferred
      /\ Global \in Actors /\ Deferred \in Actors /\ Deferred # Global
  BY ActorFacts, VisitorFacts DEF SessionsInv, ArriveInv, Types, Ways
<1>1. LocksMove
  <2>1. ASSUME NEW k \in Locks
        PROVE  /\ Moves(locks[k], locks[k]) /\ Moves(Without(locks[k], c), locks[k])
               /\ Moves(Without(Without(locks[k], c), Deferred), locks[k])
    <3>1. locks[k] \in Seq(Actors)
      BY <1>0 DEF Excluding
    <3>2. Moves(locks[k], locks[k]) /\ Moves(Without(locks[k], c), locks[k])
      BY <1>0, <3>1, QueueMoves
    <3>3. Moves(Without(Without(locks[k], c), Deferred), Without(locks[k], c))
      BY <1>0, <3>2, QueueMoves DEF Moves
    <3> QED
      BY <3>2, <3>3 DEF Moves
  <2>2. lockOf'[Global] = lockOf[Global]
    BY <1>0 DEF LocksAfter, Types
  <2>3. locks \in [Locks -> Seq(Actors)]
    BY <1>0 DEF Excluding
  <2>4. CASE reg = <<>>
    <3>1. locks' = [locks EXCEPT ![l] = Without(@, c)]
      BY <2>4 DEF LocksAfter
    <3> QED
      BY <2>1, <2>2, <2>3, <3>1 DEF LocksMove, Moves
  <2>5. CASE reg # <<>>
    <3>1. locks' = [k \in Locks |-> Without(Without(locks[k], c), Deferred)]
      BY <2>5 DEF LocksAfter
    <3> QED
      BY <2>1, <2>2, <3>1 DEF LocksMove, Moves
  <2> QED
    BY <2>4, <2>5
<1>2. CASE reg = <<>>
  <2>1. /\ UNCHANGED <<override, changed, slock, todo, plan, reg, flaws>>
        /\ pc' = [pc EXCEPT ![c] = "closed", ![Deferred] = @]
    BY <1>2 DEF EndAll
  <2>2. Stay /\ \A a \in Actors : pc'[a] = "slock" => pc[a] = "slock"
    BY <1>0, <2>1, VisitorFacts DEF Stay
  <2> QED
    BY <1>1, <2>1, <2>2, QueuesSame, Frame DEF Sound
<1>3. CASE reg # <<>>
  <2>1. /\ reg' = <<>> /\ LeavesSessions(Deferred)
        /\ pc' = [pc EXCEPT ![c] = "closed", ![Deferred] = "idle"]
        /\ todo' = [todo EXCEPT ![Deferred] = <<>>] /\ plan' = [plan EXCEPT ![Deferred] = NoPlan]
        /\ flaws \subseteq flaws'
    BY <1>3 DEF EndAll
  <2>2. /\ pc'[Deferred] = "idle" /\ pc'[Global] = pc[Global] /\ DOMAIN todo' = Actors
        /\ todo'[Deferred] = <<>> /\ todo'[Global] = todo[Global]
        /\ \A a \in Actors \ (Work \cup Visitors) : pc'[a] = "slock" => pc[a] = "slock"
    BY <1>0, <2>1, VisitorFacts
  <2>3. Registered' = {} /\ Elems(todo'[Deferred]) = {}
    BY <2>1, <2>2 DEF Registered, Elems
  <2>4. Ways'
    <3>1. ASSUME NEW s \in Ids
          PROVE  /\ Once(slock'[s], Deferred) /\ ~In(slock'[s], Deferred)
                 /\ Keeps(slock'[s], slock[s], Global)
      <4>1. slock'[s] = Without(slock[s], Deferred) /\ slock[s] \in Seq(Actors)
        BY <1>0, <2>1 DEF LeavesSessions, Types
      <4>2. Once(slock[s], Deferred)
        BY <1>0, VisitorFacts DEF Ways
      <4> QED
        BY <1>0, <4>1, <4>2, WithoutKeeps
    <3>2. ASSUME NEW s \in Ids
          PROVE  /\ Once(slock'[s], Global)
                 /\ In(slock'[s], Global) <=> todo'[Global] # <<>> /\ s = Head(todo'[Global])
      BY <1>0, <2>2, <3>1, VisitorFacts DEF Ways, Keeps
    <3>3. /\ todo'[Global] \in Seq(Ids) /\ Rising(todo'[Global]) /\ Elems(todo'[Global]) \subseteq DOMAIN ref'
          /\ pc'[Global] = "slock" <=> todo'[Global] # <<>>
          /\ pc'[Global] \in {"idle", "ulock", "slock", "leave"}
      BY <1>0, <2>2, VisitorFacts DEF Ways, Ahead
    <3>4. todo'[Deferred] \in Seq(Ids) /\ Rising(todo'[Deferred]) /\ Rising(reg')
      <4>1. <<>> \in Seq(Ids) /\ Rising(<<>>)
        BY EmptySeq DEF Rising
      <4> QED
        BY <2>1, <2>2, <4>1
    <3> QED
      BY <2>2, <2>3, <3>1, <3>2, <3>3, <3>4, VisitorFacts DEF Ways, Ahead
  <2>5. Excluding'
    BY <1>0, <1>1, <2>2 DEF Excluding, LocksMove, Moves
  <2>6. Spoilt'
    BY <1>0, <2>1, <2>2 DEF Spoilt, Sound
  <2>7. Current' /\ Followed'
    BY <2>2, <2>3 DEF Current, Followed, Ahead
  <2> QED
    BY <2>3, <2>4, <2>5, <2>6, <2>7 DEF ArriveInv
<1> QED
  BY <1>2, <1>3

LEMMA ConnectionsArrive ==
  ASSUME SessionsInv, ArriveInv, NEW c \in Conns,
         \/ OpenPlain(c) \/ Close(c) \/ ConnNext(c)
         \/ \E j \in Jobs : Receive(c, j)
  PROVE  ArriveInv'
<1>0. /\ Types /\ Excluding /\ DOMAIN todo = Actors /\ DOMAIN pc = Actors
      /\ c \in Actors /\ c \notin Visitors /\ c # Global /\ c # Deferred
      /\ Global \in Actors /\ Deferred \in Actors
      /\ \A j \in Jobs : j \in Actors /\ j # Global /\ j # Deferred
  BY ActorFacts, VisitorFacts DEF SessionsInv, ArriveInv, Types, Ways
\* The connection or a task of it goes somewhere, and nothing else happens.
<1>1. ASSUME NEW a \in Conns \cup Jobs, NEW x \in {"open", "closing", "closed", "eulock", "start", "done"},
             pc' = [pc EXCEPT ![a] = x], LocksMove,
             UNCHANGED <<override, base, changed, reg, ref, cfg, slock, todo, plan, flaws>>
      PROVE  ArriveInv'
  <2>1. a \in Actors /\ a # Global /\ a # Deferred
    BY <1>0, ActorFacts
  <2>2. Stay /\ \A b \in Actors : pc'[b] = "slock" => pc[b] = "slock"
    BY <1>0, <1>1, <2>1, VisitorFacts DEF Stay
  <2> QED
    BY <1>1, <2>2, QueuesSame, Frame DEF Sound
<1>2. UNCHANGED ConnRest =>
        /\ LocksMove
        /\ UNCHANGED <<override, base, changed, reg, ref, cfg, slock, todo, plan, flaws>>
  BY <1>0, LocksSame DEF ConnRest, userVars, regVars, lockVars
<1>3. CASE OpenPlain(c) \/ Close(c)
  <2>1. UNCHANGED ConnRest /\ \E x \in {"open", "closing"} : pc' = [pc EXCEPT ![c] = x]
    BY <1>3 DEF OpenPlain, Close
  <2> QED
    BY <1>1, <1>2, <2>1
<1>4. CASE \E j \in Jobs : Receive(c, j)
  <2>1. PICK j \in Jobs : UNCHANGED ConnRest /\ \E x \in {"start", "done"} : pc' = [pc EXCEPT ![j] = x]
    BY <1>4 DEF Receive
  <2> QED
    BY <1>1, <1>2, <2>1
<1>5. CASE Cleanup(c)
  <2>0. UNCHANGED <<base, ref, cfg>>
    BY <1>5 DEF Cleanup
  <2>1. CASE count' > 0 \/ reg = <<>>
    <3>1. /\ pc' = [pc EXCEPT ![c] = "closed"]
          /\ UNCHANGED <<override, changed, reg, locks, lockOf, slock, todo, plan, flaws>>
      BY <1>5, <2>1 DEF Cleanup, lockVars
    <3>2. LocksMove
      BY <1>0, <3>1, LocksSame
    <3> QED
      BY <1>1, <2>0, <3>1, <3>2
  <2>2. CASE ~(count' > 0 \/ reg = <<>>)
    <3>1. PICK l \in LockObjects :
            \/ EndAll(c, l) /\ LocksAfter(c, l)
            \/ /\ Waits(c, l) /\ pc' = [pc EXCEPT ![c] = "eulock"]
               /\ UNCHANGED <<override, changed, reg, slock, held, todo, plan, flaws>>
      BY <1>5, <2>2 DEF Cleanup
    <3>2. l \in Locks
      BY <1>0, LockFacts
    <3>3. Waits(c, l) => LocksMove
      BY <1>0, <3>2, LocksWait
    <3> QED
      BY <1>1, <2>0, <3>1, <3>2, <3>3, EndAllArrives
  <2> QED
    BY <2>1, <2>2
<1>6. CASE EndSessions(c)
  <2>1. lockOf[c] \in Locks
    BY <1>0, <1>6 DEF EndSessions, HasLock, Types
  <2> QED
    BY <1>6, <2>1, EndAllArrives DEF EndSessions
<1> QED
  BY <1>3, <1>4, <1>5, <1>6 DEF ConnNext

-----------------------------------------------------------------------------
(* The steps of the visitors *)

LEMMA TailRising ==
  ASSUME NEW q \in Seq(Ids), q # <<>>, Rising(q)
  PROVE  /\ Tail(q) \in Seq(Ids) /\ Rising(Tail(q))
         /\ Elems(q) = {Head(q)} \cup Elems(Tail(q))
         /\ \A x \in Elems(Tail(q)) : Head(q) < x
<1> DEFINE w == Tail(q)
<1>1. /\ w \in Seq(Ids) /\ Len(w) = Len(q) - 1 /\ Len(q) \in Nat /\ Len(q) >= 1 /\ Head(q) = q[1]
      /\ \A i \in 1..(Len(q) - 1) : w[i] = q[i + 1]
  BY HeadTailProperties, LenProperties, EmptySeq
<1>2. DOMAIN q = 1..Len(q) /\ DOMAIN w = 1..(Len(q) - 1)
  BY <1>1, LenProperties
<1> HIDE DEF w
<1>3. \A i \in DOMAIN w : i + 1 \in DOMAIN q /\ w[i] = q[i + 1] /\ 1 < i + 1
  BY <1>1, <1>2
<1>4. 1 \in DOMAIN q /\ \A k \in DOMAIN q : k # 1 => k - 1 \in DOMAIN w /\ w[k - 1] = q[k]
  <2> SUFFICES ASSUME NEW k \in DOMAIN q, k # 1
               PROVE  k - 1 \in DOMAIN w /\ w[k - 1] = q[k]
    BY <1>1, <1>2
  <2>1. k - 1 \in 1..(Len(q) - 1) /\ (k - 1) + 1 = k
    BY <1>1, <1>2
  <2> QED
    BY <1>1, <1>2, <2>1
<1>5. Rising(w)
  <2> SUFFICES ASSUME NEW i \in DOMAIN w, NEW k \in DOMAIN w, i < k PROVE w[i] < w[k]
    BY DEF Rising
  <2>1. i + 1 < k + 1
    BY <1>1, <1>2
  <2> QED
    BY <1>3, <2>1 DEF Rising
<1>6. Elems(q) \subseteq {q[1]} \cup Elems(w) /\ Elems(w) \subseteq Elems(q) /\ q[1] \in Elems(q)
  BY <1>3, <1>4 DEF Elems
<1>7. \A x \in Elems(w) : q[1] < x
  BY <1>3, <1>4 DEF Elems, Rising
<1> QED
  BY <1>1, <1>5, <1>6, <1>7 DEF w

\* a, which was in no queue of q, is where it got to.
LEMMA WaysGo ==
  ASSUME Types, Ways, NEW a \in Visitors, NEW got, NEW list \in Seq(Ids), Elems(list) \subseteq DOMAIN ref,
         NEW p, NEW q \in [Ids -> Seq(Actors)], NEW ahead \in Seq(Ids),
         GoesOn(a, got, list, p, q, ahead),
         \A s \in Ids : ~In(q[s], a), \A s \in Ids : \A v \in Visitors \ {a} : Keeps(q[s], slock[s], v),
         UNCHANGED <<reg, ref>>
  PROVE  /\ Ways' /\ todo'[a] = ahead /\ (pc'[a] = "slock" <=> ahead # <<>>)
         /\ \A v \in Visitors \ {a} :
              /\ todo'[v] = todo[v] /\ plan'[v] = plan[v]
              /\ pc'[v] = pc[v] \/ (v = Deferred /\ pc[v] = "idle" /\ pc'[v] = "start")
         /\ \A b \in Actors \ (Work \cup Visitors) : pc'[b] = pc[b]
<1>1. /\ todo' = [todo EXCEPT ![a] = ahead] /\ Rising(ahead) /\ Elems(ahead) \subseteq DOMAIN ref
      /\ ahead = <<>> => slock' = q /\ pc'[a] = AfterLoop(a)
      /\ ahead # <<>> => slock' = [q EXCEPT ![Head(ahead)] = Append(@, a)] /\ pc'[a] = "slock"
      /\ \A b \in Actors \ {a} :
           /\ plan'[b] = plan[b]
           /\ pc'[b] = pc[b] \/ (b = Deferred /\ pc[b] = "idle" /\ pc'[b] = "start")
  BY DEF GoesOn
<1>2. /\ DOMAIN todo = Actors /\ a \in Actors /\ Visitors \subseteq Actors /\ Deferred \in Visitors
      /\ a = Deferred => AfterLoop(a) = "check"
      /\ a = Global => AfterLoop(a) = "leave"
      /\ a \in {Deferred, Global} /\ Deferred # Global
  BY VisitorFacts DEF Ways
<1>3. /\ DOMAIN todo' = Actors /\ todo'[a] = ahead /\ \A v \in Visitors \ {a} : todo'[v] = todo[v]
      /\ pc'[a] = "slock" <=> ahead # <<>>
  BY <1>1, <1>2
<1>4. /\ \A v \in Visitors \ {a} :
           /\ plan'[v] = plan[v]
           /\ pc'[v] = pc[v] \/ (v = Deferred /\ pc[v] = "idle" /\ pc'[v] = "start")
      /\ \A b \in Actors \ (Work \cup Visitors) : pc'[b] = pc[b]
  BY <1>1, <1>2
<1>5. ASSUME NEW s \in Ids
      PROVE  /\ Once(slock'[s], a)
             /\ In(slock'[s], a) <=> ahead # <<>> /\ s = Head(ahead)
             /\ \A v \in Visitors \ {a} : Keeps(slock'[s], slock[s], v)
  <2>1. /\ q[s] \in Seq(Actors) /\ ~In(q[s], a) /\ Once(q[s], a)
        /\ \A v \in Visitors \ {a} : Keeps(q[s], slock[s], v)
    BY DEF In, Once
  <2>2. /\ \A v \in Visitors \ {a} : Keeps(Append(q[s], a), q[s], v)
        /\ In(Append(q[s], a), a) /\ Once(Append(q[s], a), a)
    BY <1>2, <2>1, AppendKeeps
  <2>3. \A v \in Visitors \ {a} : Keeps(Append(q[s], a), slock[s], v)
    BY <2>1, <2>2 DEF Keeps
  <2>4. CASE ahead # <<>> /\ s = Head(ahead)
    <3>1. slock'[s] = Append(q[s], a)
      BY <1>1, <2>4
    <3> QED
      BY <2>2, <2>3, <2>4, <3>1
  <2>5. CASE ~(ahead # <<>> /\ s = Head(ahead))
    <3>1. slock'[s] = q[s]
      BY <1>1, <2>5
    <3> QED
      BY <2>1, <2>5, <3>1
  <2> QED
    BY <2>4, <2>5
<1>6. ASSUME NEW v \in Visitors
      PROVE  /\ todo'[v] \in Seq(Ids) /\ Rising(todo'[v]) /\ Elems(todo'[v]) \subseteq DOMAIN ref'
             /\ pc'[v] = "slock" <=> todo'[v] # <<>>
  <2>1. CASE v = a
    BY <1>1, <1>3, <2>1
  <2>2. CASE v # a
    BY <1>3, <1>4, <2>2 DEF Ways, Ahead
  <2> QED
    BY <2>1, <2>2
<1>7. ASSUME NEW v \in Visitors, NEW s \in Ids
      PROVE  /\ Once(slock'[s], v)
             /\ In(slock'[s], v) <=> todo'[v] # <<>> /\ s = Head(todo'[v])
  <2>1. CASE v = a
    BY <1>3, <1>5, <2>1
  <2>2. CASE v # a
    <3>1. Keeps(slock'[s], slock[s], v) /\ todo'[v] = todo[v]
      BY <1>3, <1>5, <2>2
    <3> QED
      BY <3>1 DEF Ways, Keeps
  <2> QED
    BY <2>1, <2>2
<1>8. /\ pc'[Deferred] \in {"idle", "start", "ulock", "slock", "check"}
      /\ pc'[Global] \in {"idle", "ulock", "slock", "leave"}
  BY <1>1, <1>2, <1>4, VisitorFacts DEF Ways
<1>9. Ways'
  BY <1>3, <1>6, <1>7, <1>8 DEF Ways, Ahead
<1> QED
  BY <1>3, <1>4, <1>9

\* The visitor at the head of the queue of s came for s.
LEMMA WaitedQueue ==
  ASSUME Types, Ways, NEW a \in Visitors, NEW s \in Ids, slock[s] # <<>>, Head(slock[s]) = a,
         NEW q, q = [slock EXCEPT ![s] = Tail(@)]
  PROVE  /\ q \in [Ids -> Seq(Actors)] /\ todo[a] # <<>> /\ s = Head(todo[a]) /\ pc[a] = "slock"
         /\ \A t \in Ids : ~In(q[t], a)
         /\ \A t \in Ids : \A v \in Visitors \ {a} : Keeps(q[t], slock[t], v)
         /\ \A t \in Ids : \A v, w : v # a /\ Precedes(slock[t], v, w) => Precedes(q[t], v, w)
         /\ \A t \in Ids \ {s} : q[t] = slock[t]
<1>1. slock[s] \in Seq(Actors)
  BY DEF Types
<1>2. In(slock[s], a)
  <2>1. Len(slock[s]) \in Nat /\ Len(slock[s]) # 0 /\ DOMAIN slock[s] = 1..Len(slock[s])
    BY <1>1, LenProperties, EmptySeq
  <2>2. 1 \in DOMAIN slock[s] /\ slock[s][1] = a
    BY <2>1
  <2> QED
    BY <2>2 DEF In
<1>3. todo[a] # <<>> /\ s = Head(todo[a]) /\ pc[a] = "slock" /\ Once(slock[s], a)
  BY <1>2 DEF Ways
<1>4. /\ Tail(slock[s]) \in Seq(Actors) /\ ~In(Tail(slock[s]), a)
      /\ \A v \in Visitors \ {a} : Keeps(Tail(slock[s]), slock[s], v)
      /\ \A v, w : v # a /\ Precedes(slock[s], v, w) => Precedes(Tail(slock[s]), v, w)
  BY <1>1, <1>3, TailKeeps
<1>5. q \in [Ids -> Seq(Actors)] /\ q[s] = Tail(slock[s]) /\ \A t \in Ids \ {s} : q[t] = slock[t]
  BY <1>4 DEF Types
<1>6. \A t \in Ids \ {s} : ~In(slock[t], a)
  BY <1>3 DEF Ways
<1> QED
  BY <1>3, <1>4, <1>5, <1>6 DEF Keeps

\* The deferred task goes on: what that leaves as it was.
LEMMA DeferredGoes ==
  ASSUME SessionsInv, ArriveInv, NEW got, NEW list \in Seq(Ids), Elems(list) \subseteq Registered,
         NEW p, NEW q \in [Ids -> Seq(Actors)], NEW ahead \in Seq(Ids),
         GoesOn(Deferred, got, list, p, q, ahead),
         \A s \in Ids : ~In(q[s], Deferred), \A s \in Ids : Keeps(q[s], slock[s], Global),
         LocksMove, UNCHANGED <<override, base, reg, ref>>
  PROVE  /\ Ways' /\ Excluding' /\ Spoilt' /\ Current'
         /\ Effective' = Effective /\ Registered' = Registered /\ (Sound' <=> Sound)
         /\ todo'[Deferred] = ahead /\ todo'[Global] = todo[Global] /\ pc'[Global] = pc[Global]
         /\ ahead # <<>> => pc'[Deferred] = "slock" /\ plan'[Deferred].config = p.config
         /\ ahead = <<>> => pc'[Deferred] = "check"
         /\ Elems(ahead) \subseteq Registered
<1>0. /\ Types /\ Ways /\ Excluding /\ Spoilt /\ Current /\ Registered \subseteq DOMAIN ref
      /\ Visitors = {Deferred, Global} /\ Deferred # Global
  BY VisitorFacts DEF SessionsInv, ArriveInv, Types
<1>1. /\ Elems(list) \subseteq DOMAIN ref /\ Deferred \in Visitors
      /\ \A s \in Ids : \A v \in Visitors \ {Deferred} : Keeps(q[s], slock[s], v)
  BY <1>0
<1>2. /\ Ways' /\ todo'[Deferred] = ahead /\ (pc'[Deferred] = "slock" <=> ahead # <<>>)
      /\ \A v \in Visitors \ {Deferred} :
           /\ todo'[v] = todo[v] /\ plan'[v] = plan[v]
           /\ pc'[v] = pc[v] \/ (v = Deferred /\ pc[v] = "idle" /\ pc'[v] = "start")
      /\ \A b \in Actors \ (Work \cup Visitors) : pc'[b] = pc[b]
  BY <1>0, <1>1, WaysGo
<1>3. todo'[Global] = todo[Global] /\ pc'[Global] = pc[Global] /\ plan'[Global] = plan[Global]
  BY <1>0, <1>2
<1>4. /\ Elems(ahead) \subseteq Elems(list) /\ flaws' = flaws
      /\ ahead # <<>> => plan'[Deferred].config = p.config
      /\ ahead = <<>> => pc'[Deferred] = "check"
  BY VisitorFacts DEF GoesOn
<1>5. Effective' = Effective /\ Registered' = Registered /\ (Sound' <=> Sound)
  BY <1>4 DEF Effective, Registered, Sound
<1>6. Excluding'
  BY <1>0, <1>3 DEF Excluding, LocksMove, Moves
<1>7. Spoilt'
  BY <1>0, <1>2, <1>5 DEF Spoilt
<1>8. Current'
  BY <1>0, <1>3, <1>5 DEF Current, Ahead
<1> QED
  BY <1>2, <1>3, <1>4, <1>5, <1>6, <1>7, <1>8

\* A round begins with the effective config, for every session.
LEMMA RoundArrives ==
  ASSUME SessionsInv, ArriveInv, pc[Deferred] \in {"start", "ulock"}, BeginRound,
         LocksMove, UNCHANGED <<override, base, reg, ref>>
  PROVE  ArriveInv'
<1> DEFINE p == PlanOf(Effective)
<1>0. /\ Types /\ Ways /\ DOMAIN todo = Actors /\ plan \in [Actors -> Plans] /\ DOMAIN pc = Actors
      /\ Deferred \in Visitors /\ reg \in Seq(Ids) /\ Rising(reg) /\ slock \in [Ids -> Seq(Actors)]
  BY VisitorFacts DEF SessionsInv, ArriveInv, Types, Ways
<1>1. p \in Plans /\ p.config = Effective
  BY <1>0, PlanFacts, EffectiveFacts DEF PlanOf
<1>2. Visit(Deferred, {}, reg, p, slock, FALSE) /\ changed' = FALSE
  BY DEF BeginRound
<1> HIDE DEF p
<1>3. PICK ahead \in Seq(Ids) : GoesOn(Deferred, {}, reg, p, slock, ahead)
  BY <1>0, <1>1, <1>2, VisitorGoes
<1>4. /\ Elems(reg) = Registered
      /\ \A s \in Ids : ~In(slock[s], Deferred) /\ Keeps(slock[s], slock[s], Global)
  BY <1>0 DEF Elems, Registered, Ways, Keeps
<1>5. /\ Ways' /\ Excluding' /\ Spoilt' /\ Current'
      /\ Effective' = Effective /\ Registered' = Registered
      /\ todo'[Deferred] = ahead
      /\ ahead # <<>> => pc'[Deferred] = "slock" /\ plan'[Deferred].config = p.config
      /\ ahead = <<>> => pc'[Deferred] = "check"
      /\ Elems(ahead) \subseteq Registered
  BY <1>0, <1>3, <1>4, DeferredGoes
<1>6. Followed'
  BY <1>1, <1>5 DEF Followed, Ahead
<1>7. ASSUME NEW s \in Registered PROVE Due(s)'
  <2>1. CASE s \in Elems(ahead)
    <3>1. ahead # <<>>
      BY <2>1 DEF Elems
    <3> QED
      BY <1>1, <1>5, <2>1, <3>1 DEF Due, Ahead
  <2>2. CASE s \notin Elems(ahead)
    <3>1. s \in DOMAIN cfg
      BY <1>0, LenProperties DEF Types
    <3>2. cfg'[s] = p.config
      BY <1>3, <1>4, <2>2, <3>1 DEF GoesOn
    <3> QED
      BY <1>1, <1>5, <3>2 DEF Due
  <2> QED
    BY <2>1, <2>2
<1> QED
  BY <1>5, <1>6, <1>7 DEF ArriveInv

\* The deferred task gets to a session it waited for.  A config of its that is old is
\* one that Global will replace, behind it.
LEMMA DeferredAppliesArrives ==
  ASSUME SessionsInv, ArriveInv, ApplyWaited(Deferred)
  PROVE  ArriveInv'
<1> DEFINE p == plan[Deferred]
           list == Tail(todo[Deferred])
<1>0. /\ Types /\ Ways /\ Excluding /\ Followed /\ DOMAIN todo = Actors /\ plan \in [Actors -> Plans]
      /\ DOMAIN pc = Actors /\ Deferred \in Visitors /\ Global \in Visitors /\ Deferred # Global
      /\ Deferred \in Actors
  BY VisitorFacts DEF SessionsInv, ArriveInv, Types, Ways
<1>1. PICK s \in Ids \ held :
        /\ slock[s] # <<>> /\ Head(slock[s]) = Deferred
        /\ Visit(Deferred, {s}, list, p, [slock EXCEPT ![s] = Tail(@)], FALSE)
  BY <1>0 DEF ApplyWaited
<1>2. PICK q : q = [slock EXCEPT ![s] = Tail(@)]
  OBVIOUS
<1>3. /\ q \in [Ids -> Seq(Actors)] /\ todo[Deferred] # <<>> /\ s = Head(todo[Deferred])
      /\ pc[Deferred] = "slock" /\ \A t \in Ids : ~In(q[t], Deferred)
      /\ \A t \in Ids : \A v \in Visitors \ {Deferred} : Keeps(q[t], slock[t], v)
  BY <1>0, <1>1, <1>2, WaitedQueue
<1>4. todo[Deferred] \in Seq(Ids) /\ Rising(todo[Deferred]) /\ Ahead(Deferred) \subseteq DOMAIN ref
  BY <1>0 DEF Ways
<1>5. /\ list \in Seq(Ids) /\ Rising(list) /\ Ahead(Deferred) = {s} \cup Elems(list)
      /\ \A x \in Elems(list) : s < x
  BY <1>3, <1>4, TailRising DEF Ahead
<1>6. /\ Elems(list) \subseteq Registered /\ p \in Plans /\ changed' = changed
      /\ LocksMove /\ UNCHANGED <<override, base, reg, ref>>
  <2>1. UNCHANGED <<override, base, reg, ref, changed, locks, lockOf>>
    BY DEF ApplyWaited, UpdateRest, regVars, lockVars
  <2> QED
    BY <1>0, <1>5, <2>1, LocksSame DEF Followed
<1> HIDE DEF p, list
<1>7. PICK ahead \in Seq(Ids) : GoesOn(Deferred, {s}, list, p, q, ahead)
  <2>1. Visit(Deferred, {s}, list, p, q, FALSE)
    BY <1>1, <1>2
  <2> QED
    BY <1>0, <1>3, <1>5, <1>6, <2>1, VisitorGoes
<1>8. \A t \in Ids : Keeps(q[t], slock[t], Global)
  BY <1>0, <1>3
<1>9. /\ Ways' /\ Excluding' /\ Spoilt' /\ Current'
      /\ Effective' = Effective /\ Registered' = Registered /\ (Sound' <=> Sound)
      /\ todo'[Deferred] = ahead /\ todo'[Global] = todo[Global] /\ pc'[Global] = pc[Global]
      /\ ahead # <<>> => pc'[Deferred] = "slock" /\ plan'[Deferred].config = p.config
      /\ ahead = <<>> => pc'[Deferred] = "check"
      /\ Elems(ahead) \subseteq Registered
  BY <1>3, <1>5, <1>6, <1>7, <1>8, DeferredGoes
<1>10. Elems(ahead) \subseteq Elems(list)
  BY <1>7 DEF GoesOn
<1>11. Followed'
  <2>1. ASSUME Sound', pc'[Deferred] = "slock", ~changed', plan'[Deferred].config # Effective',
               pc[Global] # "ulock"
        PROVE  /\ pc[Global] = "slock" /\ Elems(ahead) \subseteq Ahead(Global)
               /\ Head(ahead) # Head(todo[Global])
    <3>1. Sound /\ ~changed /\ plan[Deferred].config # Effective /\ ahead # <<>>
      BY <1>6, <1>9, <2>1 DEF p
    <3>2. pc[Global] = "slock" /\ Ahead(Deferred) \subseteq Ahead(Global)
      BY <1>0, <1>3, <2>1, <3>1 DEF Followed
    <3>3. todo[Global] \in Seq(Ids) /\ todo[Global] # <<>> /\ Rising(todo[Global])
      BY <1>0, <3>2 DEF Ways
    <3>4. Head(todo[Global]) <= s /\ Head(todo[Global]) \in Ids
      BY <1>5, <3>2, <3>3, HeadAhead DEF Ahead
    <3>5. s < Head(ahead) /\ Head(ahead) \in Ids
      BY <1>5, <1>10, <3>1, HeadAhead
    <3>6. Head(ahead) # Head(todo[Global])
      BY <3>4, <3>5 DEF Ids
    <3> QED
      BY <1>5, <1>10, <3>2, <3>6
  <2> QED
    BY <1>9, <2>1 DEF Followed, Ahead
<1>12. ASSUME Sound', NEW t \in Registered PROVE Due(t)'
  <2>1. Sound /\ Due(t) /\ t \in DOMAIN cfg
    <3>1. DOMAIN cfg = DOMAIN ref /\ Registered \subseteq DOMAIN ref
      BY <1>0, LenProperties DEF Types
    <3> QED
      BY <1>9, <1>12, <3>1 DEF ArriveInv
  <2>2. pc'[Deferred] \in {"slock", "check"}
    BY <1>9
  <2>3. /\ cfg'[t] = cfg[t] \/ (cfg'[t] = p.config /\ t \in Ahead(Deferred))
        /\ t \in Ahead(Deferred) => t \in Elems(ahead) \/ cfg'[t] = p.config
    BY <1>5, <1>7, <2>1 DEF GoesOn
  <2>4. CASE changed \/ pc[Global] = "ulock"
    BY <1>6, <1>9, <2>2, <2>4 DEF Due
  <2>5. CASE ~changed /\ pc[Global] # "ulock" /\ p.config = Effective
    <3>1. CASE t \in Elems(ahead)
      <4>1. ahead # <<>>
        BY <3>1 DEF Elems
      <4> QED
        BY <1>9, <2>5, <3>1, <4>1 DEF Due, Ahead
    <3>2. CASE t \notin Elems(ahead)
      BY <1>3, <1>9, <2>1, <2>3, <2>5, <3>2 DEF Due, Ahead
    <3> QED
      BY <3>1, <3>2
  <2>6. CASE ~changed /\ pc[Global] # "ulock" /\ p.config # Effective
    <3>1. pc[Global] = "slock" /\ Ahead(Deferred) \subseteq Ahead(Global)
      BY <1>0, <1>3, <2>1, <2>6 DEF Followed, p
    <3>2. cfg[t] = Effective \/ t \in Ahead(Global)
      BY <1>3, <2>1, <2>6 DEF Due, p
    <3> QED
      BY <1>9, <2>3, <3>1, <3>2 DEF Due, Ahead
  <2> QED
    BY <2>4, <2>5, <2>6
<1> QED
  BY <1>9, <1>11, <1>12 DEF ArriveInv

-----------------------------------------------------------------------------
(* The deferred task *)

\* A visitor that waits in no queue goes somewhere.
LEMMA WaysMove ==
  ASSUME Types, Ways, NEW a \in Visitors, pc[a] # "slock", NEW x,
         a = Deferred => x \in {"idle", "start", "ulock", "check"},
         a = Global => x \in {"idle", "ulock", "leave"},
         pc' = [pc EXCEPT ![a] = x], UNCHANGED <<todo, slock, reg, ref>>
  PROVE  Ways'
<1>1. DOMAIN pc = Actors /\ Visitors = {Deferred, Global} /\ Deferred # Global /\ Visitors \subseteq Actors
  BY VisitorFacts DEF Types
<1>2. pc'[a] = x /\ x # "slock" /\ \A v \in Visitors \ {a} : pc'[v] = pc[v]
  BY <1>1
<1>3. /\ pc'[Deferred] \in {"idle", "start", "ulock", "slock", "check"}
      /\ pc'[Global] \in {"idle", "ulock", "slock", "leave"}
  BY <1>1, <1>2 DEF Ways
<1>4. \A v \in Visitors : pc'[v] = "slock" <=> pc[v] = "slock"
  BY <1>2
<1> QED
  BY <1>3, <1>4 DEF Ways, Ahead

LEMMA DeferredMoves ==
  ASSUME SessionsInv, ArriveInv, pc[Deferred] # "slock", NEW x \in {"idle", "start", "ulock", "check"},
         pc' = [pc EXCEPT ![Deferred] = x], LocksMove,
         UNCHANGED <<todo, slock, plan, reg, ref, override, base, cfg, flaws>>,
         Sound => \A s \in Registered : Due(s)'
  PROVE  ArriveInv'
<1>0. /\ Types /\ Ways /\ Excluding /\ Current /\ Followed /\ Spoilt /\ DOMAIN pc = Actors
      /\ Deferred \in Visitors /\ Deferred # Global /\ Visitors \subseteq Actors /\ Global \in Actors
  BY VisitorFacts DEF SessionsInv, ArriveInv, Types
<1>1. Ways'
  BY <1>0, WaysMove
<1>2. /\ pc'[Global] = pc[Global] /\ pc'[Deferred] = x
      /\ \A b \in Actors \ (Work \cup Visitors) : pc'[b] = pc[b]
  BY <1>0
<1>3. Excluding'
  BY <1>0, <1>2 DEF Excluding, LocksMove, Moves
<1>4. Effective' = Effective /\ Registered' = Registered /\ (Sound' <=> Sound)
      /\ Ahead(Deferred)' = Ahead(Deferred) /\ Ahead(Global)' = Ahead(Global)
  BY DEF Effective, Registered, Sound, Ahead
<1>5. Current' /\ Spoilt'
  BY <1>0, <1>2, <1>4 DEF Current, Spoilt
<1>6. Followed'
  BY <1>0, <1>2, <1>4 DEF Followed
<1> QED
  BY <1>1, <1>3, <1>4, <1>5, <1>6 DEF ArriveInv

LEMMA DeferredArrives ==
  ASSUME SessionsInv, ArriveInv, DeferredNext
  PROVE  ArriveInv'
<1>0. /\ Types /\ Ways /\ Excluding /\ DOMAIN pc = Actors /\ DOMAIN lockOf = Actors
      /\ Deferred \in Actors /\ Deferred # Global /\ Global \in Actors
      /\ \A l \in Locks : locks[l] \in Seq(Actors)
  BY VisitorFacts DEF SessionsInv, ArriveInv, Types, Excluding
\* The deferred task queues for a lock, leaves it, or passes it.
<1>1. ASSUME NEW l, lockOf'[Global] = lockOf[Global],
             \/ locks' = locks
             \/ locks' = [locks EXCEPT ![l] = Append(@, Deferred)]
             \/ locks' = [locks EXCEPT ![l] = Without(@, Deferred)]
             \/ locks' = [locks EXCEPT ![l] = Tail(@)] /\ locks[l] # <<>> /\ Head(locks[l]) = Deferred
      PROVE  LocksMove
  <2>1. ASSUME NEW k \in Locks
        PROVE  /\ Moves(locks[k], locks[k]) /\ Moves(Append(locks[k], Deferred), locks[k])
               /\ Moves(Without(locks[k], Deferred), locks[k])
               /\ locks[k] # <<>> /\ Head(locks[k]) = Deferred => Moves(Tail(locks[k]), locks[k])
    BY <1>0, QueueMoves
  <2>2. locks \in [Locks -> Seq(Actors)]
    BY <1>0 DEF Excluding
  <2>3. ASSUME NEW k \in Locks PROVE Moves(locks'[k], locks[k])
    BY <1>1, <2>1, <2>2
  <2>4. DOMAIN locks' = Locks /\ locks' = [k \in Locks |-> locks'[k]]
    BY <1>1, <2>2
  <2>5. locks' \in [Locks -> Seq(Actors)]
    BY <2>3, <2>4 DEF Moves
  <2> QED
    BY <1>1, <2>3, <2>5 DEF LocksMove
<1>2. CASE DeferredStart
  <2>1. PICK l \in LockObjects :
          /\ lockOf' = [lockOf EXCEPT ![Deferred] = l]
          /\ \/ BeginRound /\ UNCHANGED locks
             \/ /\ locks' = [locks EXCEPT ![l] = Append(@, Deferred)]
                /\ pc' = [pc EXCEPT ![Deferred] = "ulock"]
                /\ UNCHANGED <<changed, cfg, slock, todo, plan, flaws>>
    BY <1>2 DEF DeferredStart
  <2>2. pc[Deferred] = "start" /\ UNCHANGED <<override, base, reg, ref>>
    BY <1>2 DEF DeferredStart, DeferredRest, regVars
  <2>3. LocksMove
    BY <1>0, <1>1, <2>1
  <2>4. CASE BeginRound
    BY <2>2, <2>3, <2>4, RoundArrives
  <2>5. CASE /\ pc' = [pc EXCEPT ![Deferred] = "ulock"]
             /\ UNCHANGED <<changed, cfg, slock, todo, plan, flaws>>
    <3>1. pc'[Deferred] = "ulock"
      BY <1>0, <2>5
    <3>2. \A s \in Registered : Due(s)'
      BY <3>1 DEF Due
    <3> QED
      BY <2>2, <2>3, <2>5, <3>2, DeferredMoves
  <2> QED
    BY <2>1, <2>4, <2>5
<1>3. CASE DeferredLocked
  <2>1. /\ pc[Deferred] = "ulock" /\ BeginRound /\ lockOf' = lockOf
        /\ locks' = [locks EXCEPT ![lockOf[Deferred]] = Tail(@)]
        /\ locks[lockOf[Deferred]] # <<>> /\ Head(locks[lockOf[Deferred]]) = Deferred
        /\ UNCHANGED <<override, base, reg, ref>>
    BY <1>3 DEF DeferredLocked, DeferredRest, regVars, HasLock
  <2>2. LocksMove
    BY <1>1, <2>1
  <2> QED
    BY <2>1, <2>2, RoundArrives
<1>4. CASE DeferredCheck
  <2>1. pc[Deferred] = "check" /\ UNCHANGED <<override, base, reg, ref, cfg, slock, todo, plan, flaws>>
    BY <1>4 DEF DeferredCheck, DeferredRest, regVars
  <2>2. CASE /\ locks' = [locks EXCEPT ![lockOf[Deferred]] = Without(@, Deferred)]
             /\ lockOf' = [lockOf EXCEPT ![Deferred] = None]
             /\ pc' = [pc EXCEPT ![Deferred] = IF changed THEN "start" ELSE "idle"]
             /\ changed' = FALSE
    <3>1. LocksMove
      BY <1>0, <1>1, <2>2
    <3>2. pc'[Deferred] = (IF changed THEN "start" ELSE "idle") /\ pc'[Global] = pc[Global]
      BY <1>0, <2>2
    <3>3. ASSUME Sound, NEW s \in Registered PROVE Due(s)'
      <4>1. Due(s)
        BY <3>3 DEF ArriveInv
      <4>2. Effective' = Effective /\ Ahead(Global)' = Ahead(Global) /\ cfg' = cfg
        BY <2>1 DEF Effective, Ahead
      <4>3. CASE changed
        BY <3>2, <4>3 DEF Due
      <4>4. CASE ~changed
        BY <2>1, <3>2, <4>1, <4>2, <4>4 DEF Due
      <4> QED
        BY <4>3, <4>4
    <3>4. \E x \in {"idle", "start", "ulock", "check"} : pc' = [pc EXCEPT ![Deferred] = x]
      BY <2>2
    <3> QED
      BY <2>1, <3>1, <3>3, <3>4, DeferredMoves
  <2>3. CASE /\ locks' = [locks EXCEPT ![lockOf[Deferred]] = Append(@, Deferred)]
             /\ UNCHANGED <<pc, lockOf, changed>>
    <3>1. LocksMove
      BY <1>1, <2>3
    <3>2. Stay
      BY <2>1, <2>3 DEF Stay, ArriveInv, Ways
    <3> QED
      BY <2>1, <2>3, <3>1, <3>2, QueuesSame, Frame DEF Sound
  <2> QED
    BY <1>4, <2>2, <2>3 DEF DeferredCheck
<1> QED
  BY <1>2, <1>3, <1>4 DEF DeferredNext

-----------------------------------------------------------------------------
(* update_all_sessions_config *)

\* Global, going along the sessions in list, stays behind a deferred task whose sessions
\* are all in list, and which waits for the first of them.
LEMMA Behind ==
  ASSUME Ways, NEW got, NEW list, NEW p, NEW q \in [Ids -> Seq(Actors)],
         NEW ahead \in Seq(Ids), GoesOn(Global, got, list, p, q, ahead),
         todo[Deferred] # <<>>, Ahead(Deferred) \subseteq Elems(list),
         In(q[Head(todo[Deferred])], Deferred)
  PROVE  /\ ahead # <<>> /\ Ahead(Deferred) \subseteq Elems(ahead)
         /\ Head(todo[Deferred]) = Head(ahead) =>
              Precedes(slock'[Head(todo[Deferred])], Deferred, Global)
<1> DEFINE h == Head(todo[Deferred])
<1>0. todo[Deferred] \in Seq(Ids) /\ Rising(todo[Deferred]) /\ Global \in Actors
  BY VisitorFacts DEF Ways
<1>1. h \in Ids /\ h \in Ahead(Deferred) /\ Ahead(Deferred) \subseteq Ids
      /\ \A x \in Ahead(Deferred) : h <= x
  BY <1>0, HeadAhead DEF Ahead
<1>2. q[h] # <<>> /\ In(q[h], Deferred)
  BY EmptySeq DEF In
<1> HIDE DEF h
<1>3. h \in Elems(ahead)
  BY <1>1, <1>2 DEF GoesOn
<1>4. ahead # <<>>
  BY <1>3 DEF Elems
<1>5. ASSUME NEW x \in Ahead(Deferred) PROVE x \in Elems(ahead)
  <2>1. x \notin Elems(ahead) => x < h
    BY <1>3 DEF GoesOn
  <2>2. h <= x /\ h \in Ids /\ x \in Ids
    BY <1>1
  <2> QED
    BY <2>1, <2>2 DEF Ids
<1>6. h = Head(ahead) => Precedes(slock'[h], Deferred, Global)
  <2>1. ASSUME h = Head(ahead) PROVE slock'[h] = Append(q[h], Global)
    BY <1>1, <1>4, <2>1 DEF GoesOn
  <2>2. Precedes(Append(q[h], Global), Deferred, Global)
    BY <1>0, <1>1, <1>2, AppendKeeps
  <2> QED
    BY <2>1, <2>2
<1> QED
  BY <1>4, <1>5, <1>6 DEF h

\* Global goes along sessions with a config that is the newest, behind the deferred task
\* if that has an older one.
LEMMA GlobalGoes ==
  ASSUME SessionsInv, ArriveInv, NEW got, NEW list \in Seq(Ids), Elems(list) \subseteq DOMAIN ref,
         NEW p, NEW q \in [Ids -> Seq(Actors)], NEW ahead \in Seq(Ids),
         GoesOn(Global, got, list, p, q, ahead),
         \A s \in Ids : ~In(q[s], Global), \A s \in Ids : Keeps(q[s], slock[s], Deferred),
         UNCHANGED <<override, changed, reg, ref>>,
         Sound /\ Elems(list) \cap Registered # {} => p.config = Effective' /\ p.size = Len(reg),
         Sound /\ pc[Deferred] = "slock" /\ ~changed /\ plan[Deferred].config # Effective' =>
           Ahead(Deferred) \subseteq Elems(list),
         Excluding', Sound => \A s \in Registered : Due(s)'
  PROVE  ArriveInv'
<1>0. /\ Types /\ Ways /\ Spoilt /\ Followed /\ Global \in Visitors /\ Deferred \in Visitors
      /\ Visitors \ {Global} = {Deferred} /\ Deferred # Global
      /\ Registered' = Registered /\ Len(reg') = Len(reg)
  BY VisitorFacts DEF SessionsInv, ArriveInv, Registered
<1>1. /\ Ways' /\ todo'[Global] = ahead /\ (pc'[Global] = "slock" <=> ahead # <<>>)
      /\ todo'[Deferred] = todo[Deferred] /\ plan'[Deferred] = plan[Deferred]
      /\ pc'[Deferred] = pc[Deferred] \/ (pc[Deferred] = "idle" /\ pc'[Deferred] = "start")
      /\ \A b \in Actors \ (Work \cup Visitors) : pc'[b] = pc[b]
  <2>1. \A s \in Ids : \A v \in Visitors \ {Global} : Keeps(q[s], slock[s], v)
    BY <1>0
  <2>2. /\ Ways' /\ todo'[Global] = ahead /\ (pc'[Global] = "slock" <=> ahead # <<>>)
        /\ \A v \in Visitors \ {Global} :
             /\ todo'[v] = todo[v] /\ plan'[v] = plan[v]
             /\ pc'[v] = pc[v] \/ (v = Deferred /\ pc[v] = "idle" /\ pc'[v] = "start")
        /\ \A b \in Actors \ (Work \cup Visitors) : pc'[b] = pc[b]
    BY <1>0, <2>1, WaysGo
  <2> QED
    BY <1>0, <2>2
<1>2. /\ Elems(ahead) \subseteq Elems(list) /\ flaws' = flaws /\ (Sound' <=> Sound)
      /\ ahead # <<>> => plan'[Global].config = p.config /\ plan'[Global].size = p.size
  BY DEF GoesOn, Sound
<1>3. Spoilt'
  BY <1>0, <1>1, <1>2 DEF Spoilt
<1>4. Current'
  <2>1. ASSUME Elems(ahead) \cap Registered # {} PROVE ahead # <<>>
    BY <2>1 DEF Elems
  <2>2. Ahead(Global)' = Elems(ahead)
    BY <1>1 DEF Ahead
  <2> QED
    BY <1>0, <1>2, <2>1, <2>2 DEF Current
<1>5. Followed'
  <2>1. Ahead(Deferred)' = Ahead(Deferred) /\ Ahead(Global)' = Elems(ahead)
    BY <1>1 DEF Ahead
  <2>2. ASSUME Sound', pc'[Deferred] = "slock", ~changed', plan'[Deferred].config # Effective'
        PROVE  /\ pc'[Global] = "slock" /\ Ahead(Deferred) \subseteq Elems(ahead)
               /\ Head(todo[Deferred]) = Head(ahead) =>
                    Precedes(slock'[Head(todo[Deferred])], Deferred, Global)
    <3>1. /\ Sound /\ pc[Deferred] = "slock" /\ todo[Deferred] # <<>>
          /\ Ahead(Deferred) \subseteq Elems(list)
      BY <1>0, <1>1, <1>2, <2>2 DEF Ways
    <3>2. In(q[Head(todo[Deferred])], Deferred)
      <4>1. Head(todo[Deferred]) \in Ids
        BY <1>0, <3>1, HeadAhead DEF Ways
      <4>2. In(slock[Head(todo[Deferred])], Deferred)
        BY <1>0, <3>1, <4>1 DEF Ways
      <4> QED
        BY <4>1, <4>2 DEF Keeps
    <3>3. /\ ahead # <<>> /\ Ahead(Deferred) \subseteq Elems(ahead)
          /\ Head(todo[Deferred]) = Head(ahead) =>
               Precedes(slock'[Head(todo[Deferred])], Deferred, Global)
      BY <1>0, <3>1, <3>2, Behind
    <3> QED
      BY <1>1, <3>3
  <2>3. Ahead(Deferred) \subseteq Registered
    BY <1>0 DEF Followed
  <2> QED
    BY <1>0, <1>1, <2>1, <2>2, <2>3 DEF Followed
<1> QED
  BY <1>0, <1>1, <1>2, <1>3, <1>4, <1>5 DEF ArriveInv

\* update_all_sessions_config takes the registry as it is, with the config of the moment.
LEMMA VisitAllArrives ==
  ASSUME SessionsInv, ArriveInv, pc[Global] \in {"idle", "ulock"}, NEW l \in Locks,
         locks[l] = <<>> \/ Head(locks[l]) = Global,
         VisitAll(l, Effective'), Effective' \in Configs, lockOf'[Global] = l,
         UNCHANGED <<override, changed, reg, ref>>
  PROVE  ArriveInv'
<1>p. PICK p : p = PlanOf(Effective')
  OBVIOUS
<1>0. /\ Types /\ Ways /\ Followed /\ Excluding /\ DOMAIN todo = Actors /\ plan \in [Actors -> Plans]
      /\ DOMAIN pc = Actors /\ Global \in Visitors /\ reg \in Seq(Ids) /\ Rising(reg)
      /\ slock \in [Ids -> Seq(Actors)] /\ Elems(reg) = Registered /\ Registered \subseteq DOMAIN ref
      /\ DOMAIN cfg = DOMAIN ref /\ Global \in Actors
  BY VisitorFacts, LenProperties DEF SessionsInv, ArriveInv, Types, Ways, Elems, Registered
<1>1. p \in Plans /\ p.config = Effective' /\ p.size = Len(reg)
  <2>1. PICK c \in Configs : c = Effective'
    OBVIOUS
  <2>2. PlanOf(c) \in Plans
    BY <1>0, PlanFacts
  <2> QED
    BY <1>p, <2>1, <2>2 DEF PlanOf
<1>2. /\ locks' = [locks EXCEPT ![l] = IF @ = <<>> THEN <<Global>> ELSE @]
      /\ Visit(Global, {}, reg, p, slock, FALSE)
  BY <1>p DEF VisitAll
<1>3. PICK ahead \in Seq(Ids) : GoesOn(Global, {}, reg, p, slock, ahead)
  BY <1>0, <1>1, <1>2, VisitorGoes
<1>4. /\ \A s \in Ids : ~In(slock[s], Global) /\ Keeps(slock[s], slock[s], Deferred)
      /\ Elems(reg) \subseteq DOMAIN ref
  BY <1>0 DEF Ways, Keeps
<1>5. Excluding'
  <2>1. <<Global>> \in Seq(Actors) /\ <<Global>> # <<>> /\ Head(<<Global>>) = Global
    BY <1>0
  <2>2. locks' \in [Locks -> Seq(Actors)]
    BY <1>0, <1>2, <2>1 DEF Excluding
  <2>3. locks'[l] # <<>> /\ Head(locks'[l]) = Global
    BY <1>0, <1>2, <2>1 DEF Excluding
  <2> QED
    BY <2>2, <2>3 DEF Excluding
<1>6. ASSUME NEW s \in Registered PROVE Due(s)'
  <2>1. CASE s \in Elems(ahead)
    <3>1. ahead # <<>>
      BY <2>1 DEF Elems
    <3>2. todo'[Global] = ahead /\ pc'[Global] = "slock"
      BY <1>0, <1>3, <3>1 DEF GoesOn
    <3> QED
      BY <2>1, <3>2 DEF Due, Ahead
  <2>2. CASE s \notin Elems(ahead)
    <3>1. cfg'[s] = p.config
      BY <1>0, <1>3, <2>2 DEF GoesOn
    <3> QED
      BY <1>1, <3>1 DEF Due
  <2> QED
    BY <2>1, <2>2
<1>7. Ahead(Deferred) \subseteq Elems(reg)
  BY <1>0 DEF Followed
<1> QED
  BY <1>0, <1>1, <1>3, <1>4, <1>5, <1>6, <1>7, GlobalGoes

\* update_all_sessions_config gets to a session it waited for.
LEMMA GlobalAppliesArrives ==
  ASSUME SessionsInv, ArriveInv, ApplyWaited(Global)
  PROVE  ArriveInv'
<1> DEFINE p == plan[Global]
           list == IF Len(reg) # p.size THEN <<>> ELSE Tail(todo[Global])
<1>0. /\ Types /\ Ways /\ Excluding /\ Followed /\ Current /\ DOMAIN todo = Actors
      /\ plan \in [Actors -> Plans] /\ DOMAIN pc = Actors
      /\ Deferred \in Visitors /\ Global \in Visitors /\ Deferred # Global /\ Global \in Actors
      /\ pc[Global] = "slock" /\ Registered \subseteq DOMAIN ref /\ DOMAIN cfg = DOMAIN ref
  BY VisitorFacts, LenProperties DEF SessionsInv, ArriveInv, Types, Ways, ApplyWaited
<1>1. PICK s \in Ids \ held :
        /\ slock[s] # <<>> /\ Head(slock[s]) = Global
        /\ Visit(Global, {s}, list, p, [slock EXCEPT ![s] = Tail(@)], FALSE)
  BY <1>0 DEF ApplyWaited
<1>2. PICK q : q = [slock EXCEPT ![s] = Tail(@)]
  OBVIOUS
<1>3. /\ q \in [Ids -> Seq(Actors)] /\ todo[Global] # <<>> /\ s = Head(todo[Global])
      /\ \A t \in Ids : ~In(q[t], Global)
      /\ \A t \in Ids : \A v \in Visitors \ {Global} : Keeps(q[t], slock[t], v)
  BY <1>0, <1>1, <1>2, WaitedQueue
<1>4. todo[Global] \in Seq(Ids) /\ Rising(todo[Global]) /\ Ahead(Global) \subseteq DOMAIN ref
  BY <1>0 DEF Ways
<1>5. /\ list \in Seq(Ids) /\ Rising(list) /\ Elems(list) \subseteq Ahead(Global) /\ s \in Ahead(Global)
      /\ Len(reg) = p.size => Ahead(Global) = {s} \cup Elems(list)
      /\ \A x \in Elems(list) : s < x
  <2>1. /\ Tail(todo[Global]) \in Seq(Ids) /\ Rising(Tail(todo[Global]))
        /\ Ahead(Global) = {s} \cup Elems(Tail(todo[Global]))
        /\ \A x \in Elems(Tail(todo[Global])) : s < x
    BY <1>3, <1>4, TailRising DEF Ahead
  <2>2. <<>> \in Seq(Ids) /\ Rising(<<>>) /\ Elems(<<>>) = {}
    BY EmptySeq DEF Rising, Elems
  <2> QED
    BY <2>1, <2>2
<1>6. /\ p \in Plans /\ UNCHANGED <<override, base, changed, reg, ref>> /\ LocksMove
      /\ Effective' = Effective
  <2>1. UNCHANGED <<override, base, reg, ref, changed, locks, lockOf>>
    BY DEF ApplyWaited, UpdateRest, regVars, lockVars
  <2> QED
    BY <1>0, <2>1, LocksSame DEF Effective
\* As long as one of the sessions ahead is registered, the plan is the newest.
<1>c. Sound /\ Ahead(Global) \cap Registered # {} => p.config = Effective /\ Len(reg) = p.size
  BY <1>0 DEF Current
<1> HIDE DEF p, list
<1>7. PICK ahead \in Seq(Ids) : GoesOn(Global, {s}, list, p, q, ahead)
  <2>1. Visit(Global, {s}, list, p, q, FALSE)
    BY <1>1, <1>2
  <2> QED
    BY <1>0, <1>3, <1>5, <1>6, <2>1, VisitorGoes
<1>8. \A t \in Ids : ~In(q[t], Global) /\ Keeps(q[t], slock[t], Deferred)
  BY <1>0, <1>3
\* Where the deferred task has an older config, it is in front, or further on.
<1>9. ASSUME Sound, pc[Deferred] = "slock", ~changed, plan[Deferred].config # Effective
      PROVE  Ahead(Deferred) \subseteq Elems(list)
  <2> DEFINE h == Head(todo[Deferred])
  <2>1. todo[Deferred] \in Seq(Ids) /\ todo[Deferred] # <<>> /\ Rising(todo[Deferred])
    BY <1>0, <1>9 DEF Ways
  <2>2. /\ h \in Ids /\ h \in Ahead(Deferred) /\ Ahead(Deferred) \subseteq Ids
        /\ \A x \in Ahead(Deferred) : h <= x
    BY <2>1, HeadAhead DEF Ahead
  <2>3. /\ Ahead(Deferred) \subseteq Ahead(Global) /\ Ahead(Deferred) \subseteq Registered
        /\ h = s => Precedes(slock[s], Deferred, Global)
    BY <1>0, <1>3, <1>9 DEF Followed
  <2>4. Ahead(Global) = {s} \cup Elems(list)
    BY <1>5, <1>9, <1>c, <2>2, <2>3
  <2> HIDE DEF h
  <2>5. ~Precedes(slock[s], Deferred, Global)
    <3>1. slock[s] \in Seq(Actors) /\ Once(slock[s], Global)
      BY <1>0 DEF Types, Ways
    <3>2. Len(slock[s]) \in Nat /\ Len(slock[s]) # 0 /\ DOMAIN slock[s] = 1..Len(slock[s])
      BY <1>1, <3>1, LenProperties, EmptySeq
    <3>3. 1 \in DOMAIN slock[s] /\ slock[s][1] = Global
      BY <1>1, <3>2
    <3>4. \A k \in DOMAIN slock[s] : slock[s][k] = Global => k = 1
      BY <3>1, <3>3 DEF Once
    <3>5. \A i \in DOMAIN slock[s] : ~(i < 1)
      BY <3>2
    <3> QED
      BY <3>4, <3>5 DEF Precedes
  <2>6. h # s /\ h \in Elems(list)
    BY <2>2, <2>3, <2>4, <2>5
  <2>7. s < h
    BY <1>5, <2>6
  <2>8. s \notin Ahead(Deferred)
    <3>1. h \in Ids /\ s \in Ids
      BY <2>2
    <3>2. ~(h <= s)
      BY <2>7, <3>1 DEF Ids
    <3> QED
      BY <2>2, <3>2
  <2> QED
    BY <2>3, <2>4, <2>8
<1>10. Sound /\ Elems(list) \cap Registered # {} => p.config = Effective' /\ p.size = Len(reg)
  BY <1>5, <1>6, <1>c
<1>11. Elems(list) \subseteq DOMAIN ref
  BY <1>4, <1>5
<1>12. /\ todo'[Global] = ahead /\ (pc'[Global] = "slock" <=> ahead # <<>>)
       /\ todo'[Deferred] = todo[Deferred] /\ plan'[Deferred] = plan[Deferred]
       /\ pc'[Deferred] = pc[Deferred] \/ (pc[Deferred] = "idle" /\ pc'[Deferred] = "start")
       /\ \A v \in Visitors \ {Global} : v = Deferred
       /\ pc'[Global] \in {"slock", "leave"}
  BY <1>0, <1>7, VisitorFacts DEF GoesOn
<1>13. Excluding'
  BY <1>0, <1>6 DEF Excluding, LocksMove, Moves
<1>14. ASSUME Sound, NEW t \in Registered PROVE Due(t)'
  <2>1. Due(t) /\ t \in DOMAIN cfg
    BY <1>0, <1>14 DEF ArriveInv
  <2>2. CASE t \in Ahead(Global)
    <3>1. p.config = Effective /\ Ahead(Global) = {s} \cup Elems(list)
      BY <1>5, <1>14, <1>c, <2>2
    <3>2. cfg'[t] = p.config \/ t \in Elems(ahead)
      BY <1>7, <2>1, <2>2, <3>1 DEF GoesOn
    <3>3. t \in Elems(ahead) => ahead # <<>>
      BY DEF Elems
    <3> QED
      BY <1>6, <1>12, <3>1, <3>2, <3>3 DEF Due, Ahead
  <2>3. CASE t \notin Ahead(Global)
    <3>1. cfg'[t] = cfg[t]
      BY <1>5, <1>7, <2>1, <2>3 DEF GoesOn
    <3>2. Ahead(Deferred)' = Ahead(Deferred)
      BY <1>12 DEF Ahead
    <3> QED
      BY <1>0, <1>6, <1>12, <2>1, <2>3, <3>1, <3>2 DEF Due
  <2> QED
    BY <2>2, <2>3
<1> QED
  BY <1>3, <1>5, <1>6, <1>7, <1>8, <1>9, <1>10, <1>11, <1>13, <1>14, GlobalGoes

\* Global queues for the user lock, or is done with it.
LEMMA GlobalMoves ==
  ASSUME SessionsInv, ArriveInv,
         \/ pc[Global] = "idle" /\ pc' = [pc EXCEPT ![Global] = "ulock"]
         \/ pc[Global] = "leave" /\ pc' = [pc EXCEPT ![Global] = "idle"] /\ base' = base,
         locks' \in [Locks -> Seq(Actors)],
         UNCHANGED <<override, changed, reg, ref, cfg, slock, todo, plan, flaws>>
  PROVE  ArriveInv'
<1>0. /\ Types /\ Ways /\ Followed /\ Spoilt /\ DOMAIN pc = Actors
      /\ Deferred \in Visitors /\ Global \in Visitors /\ Deferred # Global
      /\ Visitors \subseteq Actors
  BY VisitorFacts DEF SessionsInv, ArriveInv, Types
<1>1. /\ pc'[Global] \in {"idle", "ulock"} /\ pc[Global] \notin {"slock", "ulock"}
      /\ pc'[Deferred] = pc[Deferred] /\ \A b \in Actors \ (Work \cup Visitors) : pc'[b] = pc[b]
      /\ \/ pc'[Global] = "ulock"
         \/ pc[Global] = "leave" /\ base' = base
  BY <1>0
<1>2. Ways'
  <2>1. \E x \in {"idle", "ulock"} : pc' = [pc EXCEPT ![Global] = x]
    OBVIOUS
  <2> QED
    BY <1>0, <1>1, <2>1, WaysMove
<1>3. Excluding'
  BY <1>1 DEF Excluding
<1>4. /\ Ahead(Global)' = {} /\ Ahead(Deferred)' = Ahead(Deferred)
      /\ Registered' = Registered /\ (Sound' <=> Sound)
  <2>1. todo[Global] = <<>>
    BY <1>0, <1>1 DEF Ways
  <2> QED
    BY <2>1 DEF Ahead, Elems, Registered, Sound
<1>5. Current' /\ Spoilt'
  BY <1>0, <1>1, <1>4 DEF Current, Spoilt
<1>6. CASE pc'[Global] = "ulock"
  <2>1. Followed'
    BY <1>0, <1>4, <1>6 DEF Followed
  <2>2. \A s \in Registered : Due(s)'
    BY <1>6 DEF Due
  <2> QED
    BY <1>2, <1>3, <1>4, <1>5, <2>1, <2>2 DEF ArriveInv
<1>7. CASE pc[Global] = "leave" /\ base' = base
  <2>1. Effective' = Effective
    BY <1>7 DEF Effective
  <2>2. Followed'
    BY <1>0, <1>1, <1>4, <1>7, <2>1 DEF Followed
  <2>3. ASSUME Sound, NEW s \in Registered PROVE Due(s)'
    <3>1. Due(s)
      BY <2>3 DEF ArriveInv
    <3> QED
      BY <1>1, <1>4, <1>7, <2>1, <3>1 DEF Due
  <2> QED
    BY <1>2, <1>3, <1>4, <1>5, <2>2, <2>3 DEF ArriveInv
<1> QED
  BY <1>1, <1>6, <1>7

LEMMA GlobalArrives ==
  ASSUME SessionsInv, ArriveInv, UpdateAll \/ UpdateAllLocked \/ UpdateAllEnd
  PROVE  ArriveInv'
<1>0. /\ Types /\ Ways /\ Followed /\ Excluding /\ DOMAIN pc = Actors /\ DOMAIN lockOf = Actors
      /\ Deferred \in Visitors /\ Global \in Visitors /\ Global \in Actors /\ Effective \in Configs
      /\ locks \in [Locks -> Seq(Actors)]
  BY VisitorFacts, EffectiveFacts DEF SessionsInv, ArriveInv, Types, Excluding
<1>1. CASE UpdateAll
  <2>1. /\ pc[Global] = "idle" /\ base < MaxGlobal /\ base' = base + 1
        /\ UNCHANGED <<override, changed, reg, ref>>
    BY <1>1 DEF UpdateAll, GlobalRest, regVars
  <2>2. CASE reg = <<>> /\ UNCHANGED <<lockVars, cfg, slock, todo, plan, pc, flaws>>
    <3>1. Registered = {} /\ Registered' = {}
      BY <2>1, <2>2 DEF Registered
    <3>2. LocksMove
      BY <1>0, <2>2, LocksSame DEF lockVars
    <3>3. ~(Sound' /\ pc[Deferred] = "slock" /\ ~changed')
      <4>1. ASSUME pc[Deferred] = "slock" PROVE FALSE
        <5>1. todo[Deferred] \in Seq(Ids) /\ todo[Deferred] # <<>>
          BY <1>0, <4>1 DEF Ways
        <5>2. Head(todo[Deferred]) \in Ahead(Deferred)
          BY <5>1, HeadAhead DEF Ahead
        <5> QED
          BY <1>0, <3>1, <5>2 DEF Followed
      <4> QED
        BY <4>1
    <3>4. Stay
      BY <1>0, <2>2 DEF Stay, Ways
    <3>5. (Sound' => Sound) /\ Rising(reg')
      BY <1>0, <2>1, <2>2 DEF Sound, Ways
    <3> QED
      BY <2>1, <2>2, <3>1, <3>2, <3>3, <3>4, <3>5, QueuesSame, Aside
  <2>3. CASE reg # <<>>
    <3>1. PICK l \in LockObjects :
            /\ lockOf' = [lockOf EXCEPT ![Global] = l]
            /\ \/ locks[l] = <<>> /\ VisitAll(l, [Effective EXCEPT !.base = base + 1])
               \/ /\ locks' = [locks EXCEPT ![l] = Append(@, Global)]
                  /\ pc' = [pc EXCEPT ![Global] = "ulock"]
                  /\ UNCHANGED <<cfg, slock, todo, plan, flaws>>
      BY <1>1, <2>3 DEF UpdateAll
    <3>2. l \in Locks /\ lockOf'[Global] = l
      BY <1>0, <3>1, LockFacts
    <3>3. CASE locks[l] = <<>> /\ VisitAll(l, [Effective EXCEPT !.base = base + 1])
      <4>1. [Effective EXCEPT !.base = base + 1] = Effective'
        BY <2>1 DEF Effective
      <4>2. Effective' \in Configs
        <5>1. base + 1 \in 0..MaxGlobal
          BY <1>0, <2>1, SessionsAssumption DEF Types
        <5> QED
          BY <1>0, <2>1, <5>1 DEF Effective, Configs, Types
      <4>3. VisitAll(l, Effective')
        BY <3>3, <4>1
      <4> QED
        BY <2>1, <3>2, <3>3, <4>2, <4>3, VisitAllArrives
    <3>4. CASE /\ locks' = [locks EXCEPT ![l] = Append(@, Global)]
               /\ pc' = [pc EXCEPT ![Global] = "ulock"]
               /\ UNCHANGED <<cfg, slock, todo, plan, flaws>>
      <4>1. locks' \in [Locks -> Seq(Actors)]
        BY <1>0, <3>2, <3>4, AppendFacts
      <4> QED
        BY <2>1, <3>4, <4>1, GlobalMoves
    <3> QED
      BY <3>1, <3>3, <3>4
  <2> QED
    BY <1>1, <2>2, <2>3 DEF UpdateAll
<1>2. CASE UpdateAllLocked
  <2>1. /\ pc[Global] = "ulock" /\ HasLock(Global) /\ VisitAll(lockOf[Global], Effective)
        /\ UNCHANGED <<override, base, changed, reg, ref, lockOf>>
    BY <1>2 DEF UpdateAllLocked, GlobalRest, regVars
  <2>2. PICK l \in Locks : l = lockOf[Global] /\ Head(locks[l]) = Global
    BY <1>0, <2>1 DEF HasLock, Types
  <2>3. Effective' = Effective /\ Effective' \in Configs
    BY <1>0, <2>1 DEF Effective
  <2>4. VisitAll(l, Effective')
    BY <2>1, <2>2, <2>3
  <2> QED
    BY <2>1, <2>2, <2>3, <2>4, VisitAllArrives
<1>3. CASE UpdateAllEnd
  <2>1. /\ pc[Global] = "leave" /\ Leaves(Global) /\ pc' = [pc EXCEPT ![Global] = "idle"]
        /\ UNCHANGED <<override, base, changed, reg, ref, cfg, slock, todo, plan, flaws>>
    BY <1>3 DEF UpdateAllEnd, GlobalRest, regVars
  <2>2. locks' \in [Locks -> Seq(Actors)]
    <3>1. /\ lockOf[Global] \in Locks /\ locks[lockOf[Global]] # <<>>
          /\ locks[lockOf[Global]] \in Seq(Actors)
      BY <1>0, <2>1 DEF Excluding
    <3>2. Tail(locks[lockOf[Global]]) \in Seq(Actors)
      BY <3>1, HeadTailProperties
    <3> QED
      BY <1>0, <2>1, <3>2 DEF Leaves
  <2> QED
    BY <2>1, <2>2, GlobalMoves
<1> QED
  BY <1>1, <1>2, <1>3

-----------------------------------------------------------------------------
(* The invariant holds, and settings arrive *)

LEMMA ArriveStarts == Init => ArriveInv
<1> SUFFICES ASSUME Init PROVE ArriveInv
  OBVIOUS
<1>1. /\ \A a \in Actors : pc[a] = "idle" /\ todo[a] = <<>>
      /\ \A s \in Ids : slock[s] = <<>>
      /\ DOMAIN todo = Actors /\ Visitors \subseteq Actors /\ Deferred \in Actors /\ Global \in Actors
  BY VisitorFacts DEF Init
<1>2. <<>> \in Seq(Ids) /\ Rising(<<>>) /\ Elems(<<>>) = {} /\ \A v : Once(<<>>, v) /\ ~In(<<>>, v)
  BY EmptySeq DEF Rising, Elems, Once, In
<1>3. Registered = {} /\ Ahead(Deferred) = {} /\ Ahead(Global) = {}
  BY <1>1, <1>2 DEF Registered, Ahead, Init
<1>4. Ways
  BY <1>1, <1>2 DEF Ways, Ahead, Init
<1>5. Excluding
  BY <1>1 DEF Excluding, Init
<1>6. Current /\ Followed /\ Spoilt
  BY <1>1, <1>3 DEF Current, Followed, Spoilt
<1> QED
  BY <1>3, <1>4, <1>5, <1>6 DEF ArriveInv

LEMMA ArriveSteps == SessionsInv /\ ArriveInv /\ [Next]_vars => ArriveInv'
<1> SUFFICES ASSUME SessionsInv, ArriveInv, [Next]_vars PROVE ArriveInv'
  OBVIOUS
<1>1. ASSUME NEW j \in Jobs, WorkNext(j) \/ CancelWaiting(j) \/ UpdateSettings(j) PROVE ArriveInv'
  BY <1>1, TasksArrive, FindArrives, SettingsSteps, ActorFacts DEF WorkNext
<1>2. ASSUME NEW a \in Actors, UpdateLocked(a) \/ ApplyWaited(a) PROVE ArriveInv'
  BY <1>2, SettingsSteps, DeferredAppliesArrives, GlobalAppliesArrives, VisitorFacts
<1>3. CASE DeferredNext
  BY <1>3, DeferredArrives
<1>4. CASE UpdateAll \/ UpdateAllLocked \/ UpdateAllEnd
  BY <1>4, GlobalArrives
<1>5. ASSUME NEW c \in Conns, OpenPlain(c) \/ OpenWithOverrides(c) \/ Close(c) \/ ConnNext(c)
      PROVE  ArriveInv'
  BY <1>5, ConnectionsArrive, SettingsSteps, ActorFacts
<1>6. ASSUME NEW c \in Conns, NEW j \in Jobs, Receive(c, j) PROVE ArriveInv'
  BY <1>6, ConnectionsArrive
<1>7. CASE UNCHANGED vars
  <2>1. UNCHANGED <<override, changed, base, reg, ref, cfg, locks, lockOf, slock, pc, todo, plan, flaws>>
    BY <1>7 DEF vars, userVars, regVars, lockVars
  <2>2. Stay /\ LocksMove
    BY <2>1, LocksSame DEF Stay, ArriveInv, Ways
  <2> QED
    BY <2>1, <2>2, QueuesSame, Frame DEF Sound
<1> QED
  BY <1>1, <1>2, <1>3, <1>4, <1>5, <1>6, <1>7 DEF Next

LEMMA ArriveHolds == Spec => []ArriveInv
BY ArriveStarts, ArriveSteps, InvariantHolds, PTL DEF Spec

\* Settings reach every session of the user, the busy ones and those created meanwhile
\* included: when update_session_config, its deferred task and
\* update_all_sessions_config are done, each has the effective config, unless one of the
\* two ways round the locks that Flaws names was taken.
THEOREM SettingsTheorem == Spec => []SettingsArrive
<1>1. ArriveInv => SettingsArrive
  BY DEF ArriveInv, SettingsArrive, Quiet, Due, Sound
<1> QED
  BY <1>1, ArriveHolds, PTL

-----------------------------------------------------------------------------
(* Nobody waits in a circle: the inductive invariant *)

\* The places of those that wait for a session's lock or hold it, and of those that
\* wait for the user's lock or hold it.
AtSession == {"slock", "running"}
AtUserLock == {"ulock", "eulock", "slock", "check", "leave"}

\* a is in the queue of one session at most, once; it waits there, or works at its head
\* and holds the lock.
LinedUp(a) ==
  /\ \A s \in Ids : In(slock[s], a) =>
       /\ Once(slock[s], a) /\ \A t \in Ids : In(slock[t], a) => t = s
       /\ \/ pc[a] = "slock"
          \/ pc[a] = "running" /\ s \in held /\ Head(slock[s]) = a
  /\ pc[a] = "slock" => \E s \in Ids : In(slock[s], a)
  /\ pc[a] = "slock" /\ a \notin Work => todo[a] # <<>>

SessionLines ==
  /\ \A a \in Actors : LinedUp(a)
  /\ \A s \in held : pc[Head(slock[s])] = "running"
  /\ todo \in [Actors -> Seq(Ids)]

\* a is in the queue of the lock it refers to, once, when it waits for the user's lock;
\* only update_all_sessions_config is still in the queue while it waits for another lock.
AtLock(a) ==
  /\ \A l \in Locks : In(locks[l], a) =>
       /\ Once(locks[l], a) /\ lockOf[a] = l
       /\ \/ pc[a] \in {"ulock", "eulock"}
          \/ a = Deferred /\ pc[a] = "check"
          \/ a = Global /\ pc[a] \in {"slock", "leave"}
  /\ pc[a] \in {"ulock", "eulock"} => lockOf[a] \in Locks /\ In(locks[lockOf[a]], a)
  /\ a = Deferred /\ pc[a] \in {"slock", "check"} => lockOf[a] \in Locks

LockLines == locks \in [Locks -> Seq(Actors)] /\ \A a \in Actors : AtLock(a)

LineInv == SessionLines /\ LockLines

-----------------------------------------------------------------------------
(* Queues, again *)

\* From q to q2 only a moves; who else is the head stays the head.
OnlyMoves(a, q2, q) ==
  /\ q2 \in Seq(Actors) /\ \A b \in Actors \ {a} : Keeps(q2, q, b)
  /\ q # <<>> /\ Head(q) # a => q2 # <<>> /\ Head(q2) = Head(q)

LEMMA HeadIn ==
  ASSUME NEW q \in Seq(Actors), q # <<>>
  PROVE  Head(q) \in Actors /\ In(q, Head(q))
<1>1. Len(q) \in Nat /\ Len(q) # 0 /\ DOMAIN q = 1..Len(q) /\ Head(q) = q[1]
      /\ \A i \in 1..Len(q) : q[i] \in Actors
  BY LenProperties, EmptySeq, HeadTailProperties
<1>2. 1 \in 1..Len(q)
  BY <1>1
<1> QED
  BY <1>1, <1>2 DEF In

LEMMA InSome ==
  ASSUME NEW q \in Seq(Actors), NEW a, In(q, a)
  PROVE  q # <<>>
BY DEF In

LEMMA MovesSame ==
  ASSUME NEW q \in Seq(Actors), NEW a
  PROVE  OnlyMoves(a, q, q)
BY DEF OnlyMoves, Keeps

LEMMA MovesAppend ==
  ASSUME NEW q \in Seq(Actors), NEW a \in Actors
  PROVE  /\ OnlyMoves(a, Append(q, a), q) /\ In(Append(q, a), a)
         /\ ~In(q, a) => Once(Append(q, a), a)
         /\ q = <<>> => Head(Append(q, a)) = a
<1>1. Append(q, a) \in Seq(Actors) /\ Append(q, a) # <<>>
  BY AppendFacts
<1>2. ASSUME q # <<>> PROVE Head(Append(q, a)) = Head(q)
  <2>1. Len(q) \in Nat /\ Len(q) # 0
    BY <1>2, LenProperties, EmptySeq
  <2>2. 1 \in 1..Len(q)
    BY <2>1
  <2>3. Append(q, a)[1] = q[1]
    BY <2>2, AppendProperties
  <2> QED
    BY <1>1, <1>2, <2>3, HeadTailProperties
<1>3. q = <<>> => Head(Append(q, a)) = a
  BY <1>1
<1> QED
  BY <1>1, <1>2, <1>3, AppendKeeps DEF OnlyMoves

LEMMA MovesWithout ==
  ASSUME NEW q \in Seq(Actors), NEW a \in Actors
  PROVE  OnlyMoves(a, Without(q, a), q) /\ (Once(q, a) => ~In(Without(q, a), a))
BY WithoutKeeps DEF OnlyMoves

LEMMA MovesTail ==
  ASSUME NEW q \in Seq(Actors), q # <<>>
  PROVE  OnlyMoves(Head(q), Tail(q), q) /\ (Once(q, Head(q)) => ~In(Tail(q), Head(q)))
BY TailKeeps DEF OnlyMoves

LEMMA MovesTwice ==
  ASSUME NEW a, NEW q, NEW q2, NEW q3, OnlyMoves(a, q2, q), OnlyMoves(a, q3, q2)
  PROVE  OnlyMoves(a, q3, q)
BY DEF OnlyMoves, Keeps

-----------------------------------------------------------------------------
(* What the steps have in common *)

\* a moves in the queues of the sessions.
LEMMA SessionMoves ==
  ASSUME Types, SessionLines, NEW a \in Actors, slock' \in [Ids -> Seq(Actors)],
         \A s \in Ids : OnlyMoves(a, slock'[s], slock[s]),
         \A b \in Actors \ {a} : /\ pc'[b] = pc[b] \/ (pc[b] \notin AtSession /\ pc'[b] \notin AtSession)
                                 /\ todo'[b] = todo[b],
         LinedUp(a)', todo' \in [Actors -> Seq(Ids)],
         held' \subseteq Ids,
         \A s \in held : Head(slock[s]) # a => s \in held',
         \A s \in held' : \/ s \in held /\ Head(slock[s]) # a
                          \/ Head(slock'[s]) = a /\ pc'[a] = "running"
  PROVE  SessionLines'
<1>1. ASSUME NEW s \in held', s \in held, Head(slock[s]) # a
      PROVE  Head(slock'[s]) = Head(slock[s]) /\ pc'[Head(slock'[s])] = "running"
  <2>1. s \in Ids /\ slock[s] \in Seq(Actors) /\ slock[s] # <<>> /\ pc[Head(slock[s])] = "running"
    BY <1>1 DEF Types, SessionLines
  <2>2. Head(slock[s]) \in Actors
    BY <2>1, HeadIn
  <2>3. Head(slock'[s]) = Head(slock[s])
    BY <1>1, <2>1 DEF OnlyMoves
  <2> QED
    BY <1>1, <2>1, <2>2, <2>3 DEF AtSession
<1>2. \A s \in held' : pc'[Head(slock'[s])] = "running"
  BY <1>1
<1>3. ASSUME NEW b \in Actors, b # a PROVE LinedUp(b)'
  <2>1. \A s \in Ids : Keeps(slock'[s], slock[s], b)
    BY <1>3 DEF OnlyMoves
  <2>2. LinedUp(b) /\ (pc'[b] = pc[b] \/ (pc[b] \notin AtSession /\ pc'[b] \notin AtSession)) /\ todo'[b] = todo[b]
    BY <1>3 DEF SessionLines
  <2>3. ASSUME NEW s \in Ids, In(slock'[s], b)
        PROVE  /\ Once(slock'[s], b) /\ \A t \in Ids : In(slock'[t], b) => t = s
               /\ \/ pc'[b] = "slock"
                  \/ pc'[b] = "running" /\ s \in held' /\ Head(slock'[s]) = b
    <3>1. In(slock[s], b)
      BY <2>1, <2>3 DEF Keeps
    <3>2. /\ Once(slock[s], b) /\ \A t \in Ids : In(slock[t], b) => t = s
          /\ \/ pc[b] = "slock"
             \/ pc[b] = "running" /\ s \in held /\ Head(slock[s]) = b
      BY <2>2, <3>1 DEF LinedUp
    <3>3. pc'[b] = pc[b]
      BY <2>2, <3>2 DEF AtSession
    <3>4. ASSUME s \in held, Head(slock[s]) = b PROVE s \in held' /\ Head(slock'[s]) = b
      <4>1. s \in held'
        BY <1>3, <3>4
      <4> QED
        BY <1>1, <1>3, <3>4, <4>1
    <3> QED
      BY <2>1, <3>2, <3>3, <3>4 DEF Keeps
  <2>4. ASSUME pc'[b] = "slock"
        PROVE  (\E s \in Ids : In(slock'[s], b)) /\ (b \notin Work => todo'[b] # <<>>)
    <3>1. pc[b] = "slock"
      BY <2>2, <2>4 DEF AtSession
    <3> QED
      BY <2>1, <2>2, <3>1 DEF LinedUp, Keeps
  <2> QED
    BY <2>3, <2>4 DEF LinedUp
<1> QED
  BY <1>2, <1>3 DEF SessionLines

\* Nobody moves in the queues of the sessions.
LEMMA SessionsStill ==
  ASSUME SessionLines, slock' = slock, held' = held, todo' = todo,
         \A b \in Actors : pc'[b] = pc[b] \/ (pc[b] \notin AtSession /\ pc'[b] \notin AtSession), Types
  PROVE  SessionLines'
<1>1. ASSUME NEW b \in Actors PROVE LinedUp(b)'
  BY <1>1 DEF SessionLines, LinedUp, AtSession
<1>2. \A s \in held : Head(slock[s]) \in Actors /\ pc[Head(slock[s])] = "running"
  BY HeadIn DEF Types, SessionLines
<1> QED
  BY <1>1, <1>2 DEF SessionLines, AtSession

\* a moves in the queues of the user's locks, or a and d do.
LEMMA LockMoves ==
  ASSUME LockLines, NEW a \in Actors, NEW d \in Actors, locks' \in [Locks -> Seq(Actors)],
         \A b \in Actors \ {a, d} :
           /\ \A l \in Locks : Keeps(locks'[l], locks[l], b)
           /\ pc'[b] = pc[b] \/ (pc[b] \notin AtUserLock /\ pc'[b] \notin AtUserLock)
           /\ lockOf'[b] = lockOf[b],
         AtLock(a)', AtLock(d)'
  PROVE  LockLines'
<1>1. ASSUME NEW b \in Actors \ {a, d} PROVE AtLock(b)'
  <2>1. AtLock(b) /\ lockOf'[b] = lockOf[b] /\ \A l \in Locks : Keeps(locks'[l], locks[l], b)
    BY DEF LockLines
  <2>2. pc'[b] = pc[b] \/ (pc[b] \notin AtUserLock /\ pc'[b] \notin AtUserLock)
    OBVIOUS
  <2>3. CASE pc'[b] = pc[b]
    BY <2>1, <2>3 DEF AtLock, Keeps
  <2>4. CASE pc[b] \notin AtUserLock /\ pc'[b] \notin AtUserLock
    BY <2>1, <2>4 DEF AtLock, Keeps, AtUserLock
  <2> QED
    BY <2>2, <2>3, <2>4
<1> QED
  BY <1>1 DEF LockLines

LEMMA LocksStill ==
  ASSUME LockLines, locks' = locks, lockOf' = lockOf,
         \A b \in Actors : pc'[b] = pc[b] \/ (pc[b] \notin AtUserLock /\ pc'[b] \notin AtUserLock)
  PROVE  LockLines'
<1>1. ASSUME NEW b \in Actors PROVE AtLock(b)'
  BY DEF LockLines, AtLock, AtUserLock
<1> QED
  BY <1>1 DEF LockLines

\* Nobody moves in any queue.
LEMMA LinesStill ==
  ASSUME Types, LineInv, UNCHANGED <<slock, held, todo, locks, lockOf>>,
         \A b \in Actors : \/ pc'[b] = pc[b]
                           \/ pc[b] \notin AtSession \cup AtUserLock /\ pc'[b] \notin AtSession \cup AtUserLock
  PROVE  LineInv'
BY SessionsStill, LocksStill DEF LineInv

\* a asks for the user's lock and has to wait.
LEMMA WaitLines ==
  ASSUME Types, LineInv, NEW a \in Actors, a # Global, pc[a] \notin AtSession \cup AtUserLock,
         NEW l \in Locks, Waits(a, l), NEW p \in {"ulock", "eulock"}, pc' = [pc EXCEPT ![a] = p],
         UNCHANGED <<slock, held, todo>>
  PROVE  LineInv'
<1>1. /\ DOMAIN pc = Actors /\ locks \in [Locks -> Seq(Actors)] /\ AtLock(a)
      /\ locks' = [locks EXCEPT ![l] = Append(@, a)] /\ lockOf' = [lockOf EXCEPT ![a] = l]
      /\ lockOf \in [Actors -> Locks \cup {None}]
  BY DEF Types, LineInv, LockLines, Waits
<1>2. \A k \in Locks : ~In(locks[k], a)
  BY <1>1 DEF AtLock, AtUserLock
<1>3. /\ Append(locks[l], a) \in Seq(Actors) /\ In(Append(locks[l], a), a) /\ Once(Append(locks[l], a), a)
      /\ \A b \in Actors \ {a} : Keeps(Append(locks[l], a), locks[l], b)
  BY <1>1, <1>2, MovesAppend DEF OnlyMoves
<1>4. locks' \in [Locks -> Seq(Actors)] /\ locks'[l] = Append(locks[l], a)
      /\ \A k \in Locks \ {l} : locks'[k] = locks[k]
  BY <1>1, <1>3
<1>5. AtLock(a)'
  BY <1>1, <1>2, <1>3, <1>4 DEF AtLock
<1>6. \A k \in Locks, b \in Actors \ {a} : Keeps(locks'[k], locks[k], b)
  BY <1>3, <1>4 DEF Keeps
<1>7. ASSUME NEW b \in Actors \ {a, a}
      PROVE  /\ \A k \in Locks : Keeps(locks'[k], locks[k], b)
             /\ pc'[b] = pc[b] /\ lockOf'[b] = lockOf[b]
  BY <1>1, <1>6
<1>8. LockLines'
  BY <1>4, <1>5, <1>7, LockMoves DEF LineInv
<1>9. \A b \in Actors : pc'[b] = pc[b] \/ (pc[b] \notin AtSession /\ pc'[b] \notin AtSession)
  BY <1>1 DEF AtSession
<1>10. SessionLines'
  BY <1>9, SessionsStill DEF LineInv
<1> QED
  BY <1>8, <1>10 DEF LineInv

\* a leaves the lock it has; only its place changes besides, and a task may be started.
LEMMA LeaveLines ==
  ASSUME Types, LineInv, NEW a \in Actors, HasLock(a), Leaves(a), pc'[a] \notin {"ulock", "eulock"},
         a # Deferred, DOMAIN pc' = Actors,
         \A b \in Actors \ {a} : pc'[b] = pc[b] \/ (pc[b] = "idle" /\ pc'[b] = "start")
  PROVE  LockLines'
<1> DEFINE l == lockOf[a]
<1>1. /\ locks \in [Locks -> Seq(Actors)] /\ \A b \in Actors : AtLock(b)
      /\ l \in Locks /\ locks[l] # <<>> /\ Head(locks[l]) = a
      /\ locks' = [locks EXCEPT ![l] = Tail(@)] /\ lockOf' = [lockOf EXCEPT ![a] = None]
      /\ lockOf \in [Actors -> Locks \cup {None}]
  BY DEF Types, LineInv, LockLines, Leaves, HasLock
<1> HIDE DEF l
<1>2. locks[l] \in Seq(Actors) /\ In(locks[l], a)
  BY <1>1, HeadIn
<1>3. Once(locks[l], a) /\ \A k \in Locks : In(locks[k], a) => k = l
  <2>1. \A k \in Locks : In(locks[k], a) => Once(locks[k], a) /\ lockOf[a] = k
    BY <1>1 DEF AtLock
  <2> QED
    BY <1>1, <1>2, <2>1
<1>4. OnlyMoves(a, Tail(locks[l]), locks[l]) /\ ~In(Tail(locks[l]), a)
  BY <1>1, <1>2, <1>3, MovesTail
<1>5. /\ locks' \in [Locks -> Seq(Actors)] /\ locks'[l] = Tail(locks[l])
      /\ \A k \in Locks \ {l} : locks'[k] = locks[k]
  BY <1>1, <1>4 DEF OnlyMoves
<1>6. \A k \in Locks : ~In(locks'[k], a)
  BY <1>3, <1>4, <1>5
<1>7. AtLock(a)'
  BY <1>6 DEF AtLock
<1>8. \A k \in Locks, b \in Actors \ {a} : Keeps(locks'[k], locks[k], b)
  BY <1>4, <1>5 DEF Keeps, OnlyMoves
<1>9. ASSUME NEW b \in Actors \ {a, a}
      PROVE  /\ \A k \in Locks : Keeps(locks'[k], locks[k], b)
             /\ pc'[b] = pc[b] \/ (pc[b] \notin AtUserLock /\ pc'[b] \notin AtUserLock)
             /\ lockOf'[b] = lockOf[b]
  BY <1>1, <1>8 DEF AtUserLock
<1> QED
  BY <1>5, <1>7, <1>9, LockMoves DEF LineInv

-----------------------------------------------------------------------------
(* Queries and compactions *)

LEMMA JoinLines ==
  ASSUME Types, LineInv, NEW j \in Work, pc[j] \in {"start", "ulock"}, NEW s \in Ids, Join(j, s), todo' = todo
  PROVE  SessionLines'
<1>1. /\ j \in Actors /\ slock \in [Ids -> Seq(Actors)] /\ slock[s] \in Seq(Actors) /\ DOMAIN pc = Actors
      /\ slock' = [slock EXCEPT ![s] = Append(@, j)]
      /\ held' = IF slock[s] = <<>> THEN held \cup {s} ELSE held
      /\ pc' = [pc EXCEPT ![j] = IF slock[s] = <<>> THEN "running" ELSE "slock"]
      /\ held \subseteq Ids /\ \A t \in held : slock[t] # <<>>
      /\ \A b \in Actors : LinedUp(b)
      /\ todo \in [Actors -> Seq(Ids)]
  BY ActorFacts DEF Join, Types, LineInv, SessionLines
<1>2. \A t \in Ids : ~In(slock[t], j)
  BY <1>1 DEF LinedUp
<1>3. /\ OnlyMoves(j, Append(slock[s], j), slock[s]) /\ In(Append(slock[s], j), j)
      /\ Once(Append(slock[s], j), j)
      /\ slock[s] = <<>> => Head(Append(slock[s], j)) = j
  BY <1>1, <1>2, MovesAppend
<1>4. /\ slock' \in [Ids -> Seq(Actors)] /\ slock'[s] = Append(slock[s], j)
      /\ \A t \in Ids \ {s} : slock'[t] = slock[t]
  BY <1>1, <1>3 DEF OnlyMoves
<1>5. \A t \in Ids : OnlyMoves(j, slock'[t], slock[t])
  BY <1>1, <1>3, <1>4, MovesSame
<1>6. pc'[j] = (IF slock[s] = <<>> THEN "running" ELSE "slock") /\ \A b \in Actors \ {j} : pc'[b] = pc[b]
  BY <1>1
<1>7. LinedUp(j)'
  <2>1. \A t \in Ids : In(slock'[t], j) => t = s
    BY <1>2, <1>4
  <2>2. \/ pc'[j] = "slock"
        \/ pc'[j] = "running" /\ s \in held' /\ Head(slock'[s]) = j
    BY <1>1, <1>3, <1>4, <1>6
  <2>3. In(slock'[s], j) /\ Once(slock'[s], j)
    BY <1>3, <1>4
  <2>4. ASSUME NEW t \in Ids, In(slock'[t], j)
        PROVE  /\ Once(slock'[t], j) /\ \A r \in Ids : In(slock'[r], j) => r = t
               /\ \/ pc'[j] = "slock"
                  \/ pc'[j] = "running" /\ t \in held' /\ Head(slock'[t]) = j
    BY <2>1, <2>2, <2>3, <2>4
  <2> QED
    BY <2>3, <2>4 DEF LinedUp
<1>8. \A t \in held : Head(slock[t]) # j
  <2> SUFFICES ASSUME NEW t \in held, Head(slock[t]) = j PROVE FALSE
    OBVIOUS
  <2>1. t \in Ids /\ slock[t] \in Seq(Actors) /\ slock[t] # <<>>
    BY <1>1
  <2> QED
    BY <1>2, <2>1, HeadIn
<1>9. /\ held' \subseteq Ids /\ \A t \in held : t \in held'
      /\ \A t \in held' : \/ t \in held /\ Head(slock[t]) # j
                          \/ Head(slock'[t]) = j /\ pc'[j] = "running"
  BY <1>1, <1>3, <1>4, <1>6, <1>8
<1> QED
  BY <1>1, <1>4, <1>5, <1>6, <1>7, <1>9, SessionMoves DEF LineInv

LEMMA GetLines ==
  ASSUME Types, LineInv, NEW j \in Work, pc[j] \in {"start", "ulock"}, NEW l, GetOrCreate(j, l), todo' = todo
  PROVE  /\ SessionLines' /\ DOMAIN pc' = Actors
         /\ pc'[j] \in {"slock", "running"} /\ \A b \in Actors \ {j} : pc'[b] = pc[b]
<1>1. PICK s \in Ids : Join(j, s)
  BY DEF GetOrCreate, Store, Create, Lookup, Registered, Types
<1>2. SessionLines'
  BY <1>1, JoinLines
<1> QED
  BY <1>1, <1>2, ActorFacts DEF Join, Types

LEMMA FindLines ==
  ASSUME Types, LineInv, NEW j \in Jobs, FindSession(j) \/ FindSessionLocked(j)
  PROVE  LineInv'
<1>1. j \in Work /\ j \in Actors /\ j # Global /\ j # Deferred /\ todo' = todo
  BY ActorFacts DEF FindSession, FindSessionLocked, WorkRest
<1>2. ASSUME FindSession(j), NEW l, GetOrCreate(j, l), UNCHANGED <<locks, lockOf>> PROVE LineInv'
  <2>1. /\ SessionLines' /\ DOMAIN pc' = Actors
        /\ pc'[j] \in {"slock", "running"} /\ \A b \in Actors \ {j} : pc'[b] = pc[b]
    BY <1>1, <1>2, GetLines DEF FindSession
  <2>2. pc[j] = "start" /\ AtLock(j) /\ LockLines
    BY <1>1, <1>2 DEF FindSession, LineInv, LockLines
  <2>3. AtLock(j)'
    BY <1>1, <1>2, <2>1, <2>2 DEF AtLock
  <2>4. ASSUME NEW b \in Actors \ {j, j}
        PROVE  /\ \A k \in Locks : Keeps(locks'[k], locks[k], b)
               /\ pc'[b] = pc[b] /\ lockOf'[b] = lockOf[b]
    BY <1>2, <2>1 DEF Keeps
  <2>5. LockLines'
    <3>1. locks' \in [Locks -> Seq(Actors)]
      BY <1>2, <2>2 DEF LockLines
    <3> QED
      BY <1>1, <2>2, <2>3, <2>4, <3>1, LockMoves
  <2> QED
    BY <2>1, <2>5 DEF LineInv
<1>3. CASE FindSession(j) /\ \E s \in Lookup(job[j].ref) : Join(j, s) /\ UNCHANGED <<flaws, regVars, cfg, lockVars>>
  <2>1. GetOrCreate(j, None) /\ UNCHANGED <<locks, lockOf>>
    BY <1>3 DEF GetOrCreate, regVars, lockVars
  <2> QED
    BY <1>2, <1>3, <2>1
<1>4. ASSUME FindSession(j), NEW l \in LockObjects, PassesThrough(l), GetOrCreate(j, l)
      PROVE  LineInv'
  BY <1>2, <1>4 DEF PassesThrough
<1>5. ASSUME FindSession(j), NEW l \in LockObjects, Waits(j, l), pc' = [pc EXCEPT ![j] = "ulock"],
             UNCHANGED <<slock, held>>
      PROVE  LineInv'
  <2>1. l \in Locks /\ pc[j] \notin AtSession \cup AtUserLock
    BY <1>5, LockFacts DEF FindSession, AtSession, AtUserLock
  <2> QED
    BY <1>1, <1>5, <2>1, WaitLines
<1>6. CASE FindSessionLocked(j)
  <2>1. /\ SessionLines' /\ DOMAIN pc' = Actors
        /\ pc'[j] \in {"slock", "running"} /\ \A b \in Actors \ {j} : pc'[b] = pc[b]
    BY <1>1, <1>6, GetLines DEF FindSessionLocked
  <2>2. LockLines'
    BY <1>1, <1>6, <2>1, LeaveLines DEF FindSessionLocked
  <2> QED
    BY <2>1, <2>2 DEF LineInv
<1> QED
  BY <1>3, <1>4, <1>5, <1>6 DEF FindSession

\* The one that waits first takes the session.
LEMMA TakeLines ==
  ASSUME Types, LineInv, NEW j \in Jobs, TakeSession(j)
  PROVE  LineInv'
<1>1. /\ j \in Actors /\ j \in Work /\ pc[j] = "slock" /\ DOMAIN pc = Actors /\ pc' = [pc EXCEPT ![j] = "running"]
      /\ UNCHANGED <<slock, todo, locks, lockOf>> /\ slock \in [Ids -> Seq(Actors)] /\ held \subseteq Ids
      /\ LinedUp(j) /\ AtLock(j) /\ todo \in [Actors -> Seq(Ids)]
      /\ j # Global /\ j # Deferred
  BY ActorFacts DEF TakeSession, WorkRest, lockVars, Types, LineInv, SessionLines, LockLines
<1>2. PICK s \in Ids \ held : slock[s] # <<>> /\ Head(slock[s]) = j /\ held' = held \cup {s}
  BY DEF TakeSession
<1>3. In(slock[s], j)
  BY <1>1, <1>2, HeadIn
<1>4. /\ pc'[j] = "running" /\ \A b \in Actors \ {j} : pc'[b] = pc[b]
      /\ \A t \in Ids : slock'[t] = slock[t] /\ OnlyMoves(j, slock'[t], slock[t])
  BY <1>1, MovesSame
<1>5. LinedUp(j)'
  <2>1. \A t \in Ids : In(slock'[t], j) => Once(slock'[t], j) /\ t = s
    BY <1>1, <1>2, <1>3 DEF LinedUp
  <2> QED
    BY <1>1, <1>2, <1>4, <2>1 DEF LinedUp
<1>6. \A t \in held : Head(slock[t]) # j
  <2> SUFFICES ASSUME NEW t \in held, Head(slock[t]) = j PROVE FALSE
    OBVIOUS
  <2>1. pc[j] = "running"
    BY DEF LineInv, SessionLines
  <2> QED
    BY <1>1, <2>1
<1>7. /\ held' \subseteq Ids /\ \A t \in held : t \in held'
      /\ \A t \in held' : \/ t \in held /\ Head(slock[t]) # j
                          \/ Head(slock'[t]) = j /\ pc'[j] = "running"
  BY <1>1, <1>2, <1>4, <1>6
<1>8. SessionLines'
  BY <1>1, <1>4, <1>5, <1>7, SessionMoves DEF LineInv
<1>9. LockLines'
  <2>1. AtLock(j)'
    BY <1>1, <1>4 DEF AtLock
  <2>2. ASSUME NEW b \in Actors \ {j, j}
        PROVE  /\ \A k \in Locks : Keeps(locks'[k], locks[k], b)
               /\ pc'[b] = pc[b] /\ lockOf'[b] = lockOf[b]
    BY <1>1, <1>4 DEF Keeps
  <2>3. LockLines /\ locks' \in [Locks -> Seq(Actors)]
    BY <1>1 DEF LineInv, LockLines
  <2> QED
    BY <1>1, <2>1, <2>2, <2>3, LockMoves
<1> QED
  BY <1>8, <1>9 DEF LineInv

\* a leaves the sessions.
LEMMA LeavesLines ==
  ASSUME Types, LineInv, NEW a \in Actors, LeavesSessions(a), pc'[a] \notin AtSession,
         \A b \in Actors \ {a} : /\ pc'[b] = pc[b] \/ (pc[b] \notin AtSession /\ pc'[b] \notin AtSession)
                                 /\ todo'[b] = todo[b],
         todo' \in [Actors -> Seq(Ids)]
  PROVE  SessionLines'
<1>1. /\ slock \in [Ids -> Seq(Actors)] /\ held \subseteq Ids /\ LinedUp(a)
      /\ slock' = [s \in Ids |-> Without(slock[s], a)] /\ held' = {s \in held : Head(slock[s]) # a}
  BY DEF Types, LineInv, SessionLines, LeavesSessions
<1>2. ASSUME NEW s \in Ids
      PROVE  slock'[s] \in Seq(Actors) /\ OnlyMoves(a, slock'[s], slock[s]) /\ ~In(slock'[s], a)
  <2>1. slock[s] \in Seq(Actors) /\ slock'[s] = Without(slock[s], a)
    BY <1>1
  <2>2. OnlyMoves(a, Without(slock[s], a), slock[s]) /\ (Once(slock[s], a) => ~In(Without(slock[s], a), a))
    BY <2>1, MovesWithout
  <2>3. ~In(slock[s], a) => ~In(Without(slock[s], a), a)
    BY DEF Without, In
  <2>4. In(slock[s], a) => Once(slock[s], a)
    BY <1>1 DEF LinedUp
  <2> QED
    BY <2>1, <2>2, <2>3, <2>4 DEF OnlyMoves
<1>3. slock' \in [Ids -> Seq(Actors)]
  BY <1>1, <1>2
<1>4. LinedUp(a)'
  BY <1>2 DEF LinedUp, AtSession
<1>5. /\ held' \subseteq Ids /\ \A s \in held : Head(slock[s]) # a => s \in held'
      /\ \A s \in held' : s \in held /\ Head(slock[s]) # a
  BY <1>1
<1> QED
  BY <1>2, <1>3, <1>4, <1>5, SessionMoves DEF LineInv

LEMMA EndLines ==
  ASSUME Types, LineInv, NEW j \in Jobs, EndWork(j)
  PROVE  LineInv'
<1>1. /\ j \in Actors /\ pc[j] = "running" /\ DOMAIN pc = Actors /\ pc' = [pc EXCEPT ![j] = "done"]
      /\ LeavesSessions(j) /\ UNCHANGED <<todo, locks, lockOf>> /\ todo \in [Actors -> Seq(Ids)]
  BY ActorFacts DEF EndWork, WorkRest, lockVars, Types, LineInv, SessionLines
<1>2. pc'[j] = "done" /\ \A b \in Actors \ {j} : pc'[b] = pc[b]
  BY <1>1
<1>3. SessionLines'
  BY <1>1, <1>2, LeavesLines DEF AtSession
<1>4. LockLines'
  <2>1. \A b \in Actors : pc'[b] = pc[b] \/ (pc[b] \notin AtUserLock /\ pc'[b] \notin AtUserLock)
    BY <1>1, <1>2 DEF AtUserLock
  <2> QED
    BY <1>1, <2>1, LocksStill DEF LineInv
<1> QED
  BY <1>3, <1>4 DEF LineInv

LEMMA CancelLines ==
  ASSUME Types, LineInv, NEW j \in Jobs, CancelWaiting(j)
  PROVE  LineInv'
<1>1. /\ j \in Actors /\ DOMAIN pc = Actors /\ pc' = [pc EXCEPT ![j] = "done"]
      /\ LeavesSessions(j) /\ todo' = [todo EXCEPT ![j] = <<>>] /\ todo \in [Actors -> Seq(Ids)]
      /\ locks' = [l \in Locks |-> Without(locks[l], j)] /\ lockOf' = [lockOf EXCEPT ![j] = None]
      /\ locks \in [Locks -> Seq(Actors)] /\ AtLock(j) /\ lockOf \in [Actors -> Locks \cup {None}]
  BY ActorFacts DEF CancelWaiting, Types, LineInv, SessionLines, LockLines
<1>2. /\ pc'[j] = "done" /\ \A b \in Actors \ {j} : pc'[b] = pc[b] /\ todo'[b] = todo[b] /\ lockOf'[b] = lockOf[b]
      /\ todo' \in [Actors -> Seq(Ids)]
  BY <1>1
<1>3. SessionLines'
  BY <1>1, <1>2, LeavesLines DEF AtSession
<1>4. ASSUME NEW l \in Locks
      PROVE  /\ locks'[l] \in Seq(Actors) /\ ~In(locks'[l], j)
             /\ \A b \in Actors \ {j} : Keeps(locks'[l], locks[l], b)
  <2>1. locks[l] \in Seq(Actors) /\ locks'[l] = Without(locks[l], j)
    BY <1>1
  <2>2. OnlyMoves(j, Without(locks[l], j), locks[l]) /\ (Once(locks[l], j) => ~In(Without(locks[l], j), j))
    BY <1>1, <2>1, MovesWithout
  <2>3. ~In(locks[l], j) => ~In(Without(locks[l], j), j)
    BY DEF Without, In
  <2>4. In(locks[l], j) => Once(locks[l], j)
    BY <1>1 DEF AtLock
  <2> QED
    BY <2>1, <2>2, <2>3, <2>4 DEF OnlyMoves
<1>5. locks' \in [Locks -> Seq(Actors)]
  BY <1>1, <1>4
<1>6. AtLock(j)'
  BY <1>2, <1>4 DEF AtLock
<1>7. ASSUME NEW b \in Actors \ {j, j}
      PROVE  /\ \A k \in Locks : Keeps(locks'[k], locks[k], b)
             /\ pc'[b] = pc[b] /\ lockOf'[b] = lockOf[b]
  BY <1>2, <1>4
<1>8. LockLines'
  BY <1>1, <1>5, <1>6, <1>7, LockMoves DEF LineInv
<1> QED
  BY <1>3, <1>8 DEF LineInv

-----------------------------------------------------------------------------
(* Visitors *)

LEMMA VisitLines ==
  ASSUME Types, LineInv, NEW a \in Actors \ Work, pc[a] # "running",
         NEW got, NEW list \in Seq(Ids), NEW p, NEW q \in [Ids -> Seq(Actors)], NEW flawed,
         Visit(a, got, list, p, q, flawed), held' = held,
         \A s \in Ids : OnlyMoves(a, q[s], slock[s]) /\ ~In(q[s], a)
  PROVE  /\ SessionLines' /\ DOMAIN pc' = Actors /\ pc'[a] \in {"slock", AfterLoop(a)}
         /\ \A b \in Actors \ {a} : pc'[b] = pc[b] \/ (pc[b] = "idle" /\ pc'[b] = "start")
<1> DEFINE stops == Stops(a, list, p.config, q)
           last == Until(list, stops)
           busy == p.busy \/ \E i \in 1..last : q[list[i]] # <<>> /\ cfg[list[i]] # p.config
           ahead == Beyond(list, stops)
           s == list[last + 1]
<1>1. /\ slock' = IF stops = {} THEN q ELSE [q EXCEPT ![s] = Append(@, a)]
      /\ todo' = [todo EXCEPT ![a] = ahead]
      /\ pc' = [b \in Actors |->
                  IF b = a THEN IF stops # {} THEN "slock" ELSE AfterLoop(a)
                  ELSE IF b = Deferred /\ stops = {} /\ Scheduled(a, busy) THEN "start"
                  ELSE pc[b]]
  BY DEF Visit, Until, Beyond
<1>2. stops \subseteq DOMAIN list /\ \A i \in stops : q[list[i]] # <<>>
  BY DEF Stops
<1> HIDE DEF stops, busy
<1>3. /\ ahead \in Seq(Ids)
      /\ stops # {} => s \in Ids /\ q[s] # <<>> /\ ahead # <<>>
  <2>1. /\ last \in Nat
        /\ stops # {} => last + 1 \in stops /\ last + 1 <= Len(list)
        /\ ahead \in Seq(Ids) /\ Len(ahead) = Len(list) - last
    BY <1>2, StopsFacts
  <2> HIDE DEF last, ahead
  <2>2. ASSUME stops # {} PROVE s \in Ids /\ q[s] # <<>> /\ ahead # <<>>
    <3>1. last \in Nat /\ last + 1 \in stops /\ last + 1 <= Len(list) /\ Len(list) \in Nat
      BY <2>1, <2>2, LenProperties
    <3>2. last + 1 \in DOMAIN list /\ q[s] # <<>>
      BY <1>2, <3>1
    <3>3. s \in Ids
      BY <3>2, LenProperties
    <3>4. Len(ahead) # 0
      BY <2>1, <3>1
    <3> QED
      BY <3>2, <3>3, <3>4
  <2> QED
    BY <2>1, <2>2
<1> HIDE DEF last, ahead, s
<1>4. /\ pc'[a] = (IF stops # {} THEN "slock" ELSE AfterLoop(a)) /\ DOMAIN pc' = Actors
      /\ \A b \in Actors \ {a} : pc'[b] = pc[b] \/ (pc[b] = "idle" /\ pc'[b] = "start")
  BY <1>1 DEF Scheduled
<1>5. /\ todo' \in [Actors -> Seq(Ids)] /\ todo'[a] = ahead /\ \A b \in Actors \ {a} : todo'[b] = todo[b]
      /\ LinedUp(a) /\ held \subseteq Ids
      /\ \A t \in held : pc[Head(slock[t])] = "running"
  BY <1>1, <1>3 DEF LineInv, SessionLines, Types
<1>6. /\ slock' \in [Ids -> Seq(Actors)]
      /\ \A t \in Ids : OnlyMoves(a, slock'[t], slock[t])
      /\ stops = {} => \A t \in Ids : ~In(slock'[t], a)
      /\ stops # {} => /\ In(slock'[s], a) /\ Once(slock'[s], a)
                       /\ \A t \in Ids : In(slock'[t], a) => t = s
  <2>1. CASE stops = {}
    BY <1>1, <2>1
  <2>2. CASE stops # {}
    <3>1. /\ OnlyMoves(a, Append(q[s], a), q[s]) /\ In(Append(q[s], a), a) /\ Once(Append(q[s], a), a)
      BY <1>3, <2>2, MovesAppend
    <3>2. /\ slock' \in [Ids -> Seq(Actors)] /\ slock'[s] = Append(q[s], a)
          /\ \A t \in Ids \ {s} : slock'[t] = q[t]
      BY <1>1, <1>3, <2>2, <3>1 DEF OnlyMoves
    <3>3. OnlyMoves(a, slock'[s], slock[s])
      BY <1>3, <2>2, <3>1, <3>2, MovesTwice
    <3> QED
      BY <2>2, <3>1, <3>2, <3>3
  <2> QED
    BY <2>1, <2>2
<1>7. LinedUp(a)'
  <2>1. CASE stops = {}
    <3>1. pc'[a] # "slock"
      BY <1>4, <2>1, ActorFacts
    <3> QED
      BY <1>6, <2>1, <3>1 DEF LinedUp
  <2>2. CASE stops # {}
    BY <1>3, <1>4, <1>5, <1>6, <2>2 DEF LinedUp
  <2> QED
    BY <2>1, <2>2
<1>8. \A t \in held : Head(slock[t]) # a
  BY <1>5
<1>9. \A b \in Actors \ {a} : /\ pc'[b] = pc[b] \/ (pc[b] \notin AtSession /\ pc'[b] \notin AtSession)
                              /\ todo'[b] = todo[b]
  BY <1>4, <1>5 DEF AtSession
<1>10. SessionLines'
  BY <1>5, <1>6, <1>7, <1>8, <1>9, SessionMoves DEF LineInv
<1> QED
  BY <1>4, <1>10

\* A visitor sets out, in no queue of a session.
LEMMA SetsOut ==
  ASSUME Types, LineInv, NEW a \in Actors \ Work, pc[a] \notin AtSession,
         NEW got, NEW list \in Seq(Ids), NEW p, NEW flawed,
         Visit(a, got, list, p, slock, flawed), held' = held
  PROVE  /\ SessionLines' /\ DOMAIN pc' = Actors /\ pc'[a] \in {"slock", AfterLoop(a)}
         /\ \A b \in Actors \ {a} : pc'[b] = pc[b] \/ (pc[b] = "idle" /\ pc'[b] = "start")
<1>1. slock \in [Ids -> Seq(Actors)] /\ LinedUp(a) /\ pc[a] # "running" /\ pc[a] # "slock"
  BY DEF Types, LineInv, SessionLines, AtSession
<1>2. \A s \in Ids : OnlyMoves(a, slock[s], slock[s]) /\ ~In(slock[s], a)
  BY <1>1, MovesSame DEF LinedUp
<1> QED
  BY <1>1, <1>2, VisitLines

-----------------------------------------------------------------------------
(* The steps of the settings *)

\* a applies an update, under the user's lock, which it got at once or is about to leave.
LEMMA ApplyLines ==
  ASSUME Types, LineInv, NEW a \in Settings \cup Conns, pc[a] \notin AtSession, NEW v \in Values, NEW l,
         ApplyUpdate(a, v, l), held' = held
  PROVE  /\ SessionLines' /\ DOMAIN pc' = Actors /\ pc'[a] \in {"slock", "open", "done"}
         /\ \A b \in Actors \ {a} : pc'[b] = pc[b] \/ (pc[b] = "idle" /\ pc'[b] = "start")
<1>1. a \in Actors \ Work /\ AfterLoop(a) \in {"open", "done"}
  BY ActorFacts
<1>2. reg \in Seq(Ids)
  BY DEF Types
<1>3. Visit(a, {}, reg, PlanOf([value |-> v, base |-> base]), slock, v # override /\ Crossed(l))
  BY DEF ApplyUpdate
<1> QED
  BY <1>1, <1>2, <1>3, SetsOut

LEMMA RequestLines ==
  ASSUME Types, LineInv, NEW a \in Settings \cup Conns, pc[a] \in {"start", "idle"}, NEW v \in Values,
         RequestUpdate(a, v), held' = held
  PROVE  LineInv'
<1>1. /\ a \in Actors /\ a # Global /\ a # Deferred /\ AtLock(a) /\ LockLines
      /\ pc[a] \notin AtSession \cup AtUserLock
  BY ActorFacts DEF LineInv, LockLines, AtSession, AtUserLock
<1>2. ASSUME NEW l \in LockObjects, PassesThrough(l), ApplyUpdate(a, v, l) PROVE LineInv'
  <2>1. /\ SessionLines' /\ pc'[a] \in {"slock", "open", "done"}
        /\ \A b \in Actors \ {a} : pc'[b] = pc[b] \/ (pc[b] = "idle" /\ pc'[b] = "start")
    BY <1>1, <1>2, ApplyLines
  <2>2. locks' = locks /\ lockOf' = lockOf
    BY <1>2 DEF PassesThrough
  <2>3. AtLock(a)'
    BY <1>1, <2>1, <2>2 DEF AtLock, AtUserLock
  <2>4. ASSUME NEW b \in Actors \ {a, a}
        PROVE  /\ \A k \in Locks : Keeps(locks'[k], locks[k], b)
               /\ pc'[b] = pc[b] \/ (pc[b] \notin AtUserLock /\ pc'[b] \notin AtUserLock)
               /\ lockOf'[b] = lockOf[b]
    BY <2>1, <2>2 DEF Keeps, AtUserLock
  <2>5. locks' \in [Locks -> Seq(Actors)]
    BY <1>1, <2>2 DEF LockLines
  <2>6. LockLines'
    BY <1>1, <2>3, <2>4, <2>5, LockMoves
  <2> QED
    BY <2>1, <2>6 DEF LineInv
<1>3. ASSUME NEW l \in LockObjects, locks[l] # <<>>, Waits(a, l), pc' = [pc EXCEPT ![a] = "ulock"],
             UNCHANGED <<override, changed, cfg, slock, todo, plan, flaws>>
      PROVE  LineInv'
  <2>1. l \in Locks
    BY LockFacts
  <2> QED
    BY <1>1, <1>3, <2>1, WaitLines
<1> QED
  BY <1>2, <1>3 DEF RequestUpdate

\* A settings handler or a connection asks for an update, or applies it in its turn.
LEMMA UpdateLines ==
  ASSUME Types, LineInv,
         \/ \E j \in Jobs : UpdateSettings(j)
         \/ \E c \in Conns : OpenWithOverrides(c)
         \/ \E a \in Actors : UpdateLocked(a)
  PROVE  LineInv'
<1>1. ASSUME NEW j \in Jobs, UpdateSettings(j) PROVE LineInv'
  <2>1. j \in Settings /\ pc[j] = "start" /\ held' = held /\ Asked(j) \in Values /\ RequestUpdate(j, Asked(j))
    BY <1>1 DEF UpdateSettings, UpdateRest, Asked, Values
  <2> QED
    BY <2>1, RequestLines
<1>2. ASSUME NEW c \in Conns, OpenWithOverrides(c) PROVE LineInv'
  <2>1. pc[c] = "idle" /\ held' = held /\ Asked(c) \in Values /\ RequestUpdate(c, Asked(c))
    BY <1>2 DEF OpenWithOverrides, UpdateRest, Asked, Values
  <2> QED
    BY <2>1, RequestLines
<1>3. ASSUME NEW a \in Actors, UpdateLocked(a) PROVE LineInv'
  <2>1. /\ a \in Settings \cup Conns /\ pc[a] = "ulock" /\ held' = held /\ Asked(a) \in Values
        /\ HasLock(a) /\ Leaves(a) /\ ApplyUpdate(a, Asked(a), lockOf[a])
    BY <1>3 DEF UpdateLocked, UpdateRest, Asked, Values
  <2>2. pc[a] \notin AtSession /\ a # Deferred
    BY <2>1, ActorFacts DEF AtSession
  <2>3. /\ SessionLines' /\ DOMAIN pc' = Actors /\ pc'[a] \in {"slock", "open", "done"}
        /\ \A b \in Actors \ {a} : pc'[b] = pc[b] \/ (pc[b] = "idle" /\ pc'[b] = "start")
    BY <2>1, <2>2, ApplyLines
  <2>4. LockLines'
    BY <2>1, <2>2, <2>3, LeaveLines
  <2> QED
    BY <2>3, <2>4 DEF LineInv
<1> QED
  BY <1>1, <1>2, <1>3

\* A visitor applies its config to the session it waited for and goes on.
LEMMA WaitedLines ==
  ASSUME Types, LineInv, NEW a \in Actors, ApplyWaited(a)
  PROVE  LineInv'
<1>1. /\ a \in Actors \ Work /\ pc[a] = "slock" /\ UNCHANGED <<held, locks, lockOf>> /\ LinedUp(a) /\ AtLock(a)
      /\ slock \in [Ids -> Seq(Actors)] /\ todo \in [Actors -> Seq(Ids)] /\ LockLines
  BY DEF ApplyWaited, UpdateRest, lockVars, Types, LineInv, SessionLines, LockLines
<1> DEFINE rest == IF a = Global /\ Len(reg) # plan[a].size THEN <<>> ELSE Tail(todo[a])
<1>2. PICK s \in Ids \ held :
        /\ slock[s] # <<>> /\ Head(slock[s]) = a
        /\ Visit(a, {s}, rest, plan[a], [slock EXCEPT ![s] = Tail(@)], FALSE)
  BY DEF ApplyWaited
<1> DEFINE q == [slock EXCEPT ![s] = Tail(@)]
<1>3. rest \in Seq(Ids)
  <2>1. todo[a] \in Seq(Ids) /\ todo[a] # <<>>
    BY <1>1 DEF LinedUp
  <2>2. Tail(todo[a]) \in Seq(Ids)
    BY <2>1, HeadTailProperties
  <2>3. <<>> \in Seq(Ids)
    BY EmptySeq
  <2> QED
    BY <2>2, <2>3
<1>4. slock[s] \in Seq(Actors) /\ In(slock[s], a)
  BY <1>1, <1>2, HeadIn
<1>5. Once(slock[s], a) /\ \A t \in Ids : In(slock[t], a) => t = s
  BY <1>1, <1>4 DEF LinedUp
<1>6. OnlyMoves(a, Tail(slock[s]), slock[s]) /\ ~In(Tail(slock[s]), a)
  BY <1>2, <1>4, <1>5, MovesTail
<1>7. /\ q \in [Ids -> Seq(Actors)] /\ q[s] = Tail(slock[s]) /\ \A t \in Ids \ {s} : q[t] = slock[t]
  BY <1>1, <1>6 DEF OnlyMoves
<1>8. Visit(a, {s}, rest, plan[a], q, FALSE)
  BY <1>2
<1> HIDE DEF q, rest
<1>9. \A t \in Ids : OnlyMoves(a, q[t], slock[t]) /\ ~In(q[t], a)
  <2>1. ASSUME NEW t \in Ids, t # s PROVE OnlyMoves(a, q[t], slock[t]) /\ ~In(q[t], a)
    <3>1. slock[t] \in Seq(Actors) /\ q[t] = slock[t] /\ ~In(slock[t], a)
      BY <1>1, <1>5, <1>7, <2>1
    <3> QED
      BY <3>1, MovesSame
  <2> QED
    BY <1>6, <1>7, <2>1
<1>10. /\ SessionLines' /\ DOMAIN pc' = Actors /\ pc'[a] \in {"slock", AfterLoop(a)}
       /\ \A b \in Actors \ {a} : pc'[b] = pc[b] \/ (pc[b] = "idle" /\ pc'[b] = "start")
  BY <1>1, <1>3, <1>7, <1>8, <1>9, VisitLines
<1>11. AtLock(a)'
  <2>1. AfterLoop(a) \in {"leave", "check", "open", "done"}
        /\ (AfterLoop(a) = "check" => a = Deferred) /\ (a = Global => AfterLoop(a) = "leave")
        /\ (a = Deferred => AfterLoop(a) = "check")
    BY ActorFacts DEF AfterLoop
  <2> QED
    BY <1>1, <1>10, <2>1 DEF AtLock
<1>12. ASSUME NEW b \in Actors \ {a, a}
       PROVE  /\ \A k \in Locks : Keeps(locks'[k], locks[k], b)
              /\ pc'[b] = pc[b] \/ (pc[b] \notin AtUserLock /\ pc'[b] \notin AtUserLock)
              /\ lockOf'[b] = lockOf[b]
  BY <1>1, <1>10 DEF Keeps, AtUserLock
<1>13. locks' \in [Locks -> Seq(Actors)]
  BY <1>1 DEF LockLines
<1>14. LockLines'
  BY <1>1, <1>11, <1>12, <1>13, LockMoves
<1> QED
  BY <1>10, <1>14 DEF LineInv

-----------------------------------------------------------------------------
(* The steps of the deferred task *)

\* A round begins: the task is in no queue of a lock any more, and refers to the one
\* it comes back to.
LEMMA RoundLines ==
  ASSUME Types, LineInv, pc[Deferred] \in {"start", "ulock"}, BeginRound, held' = held,
         locks' \in [Locks -> Seq(Actors)],
         \A l \in Locks : ~In(locks'[l], Deferred) /\ \A b \in Actors \ {Deferred} : Keeps(locks'[l], locks[l], b),
         lockOf'[Deferred] \in Locks, \A b \in Actors \ {Deferred} : lockOf'[b] = lockOf[b]
  PROVE  LineInv'
<1>1. Deferred \in Actors \ Work /\ Deferred # Global /\ AfterLoop(Deferred) = "check" /\ reg \in Seq(Ids)
  BY ActorFacts DEF Types, AfterLoop
<1>2. /\ SessionLines' /\ DOMAIN pc' = Actors /\ pc'[Deferred] \in {"slock", AfterLoop(Deferred)}
      /\ \A b \in Actors \ {Deferred} : pc'[b] = pc[b] \/ (pc[b] = "idle" /\ pc'[b] = "start")
  BY <1>1, SetsOut DEF BeginRound, AtSession
<1>3. AtLock(Deferred)'
  BY <1>1, <1>2 DEF AtLock
<1>4. ASSUME NEW b \in Actors \ {Deferred, Deferred}
      PROVE  /\ \A l \in Locks : Keeps(locks'[l], locks[l], b)
             /\ pc'[b] = pc[b] \/ (pc[b] \notin AtUserLock /\ pc'[b] \notin AtUserLock)
             /\ lockOf'[b] = lockOf[b]
  BY <1>2 DEF AtUserLock
<1>5. LockLines'
  BY <1>1, <1>3, <1>4, LockMoves DEF LineInv
<1> QED
  BY <1>2, <1>5 DEF LineInv

\* The deferred task alone moves in the queue of l and keeps its place in the program
\* or comes to another outside the sessions.
LEMMA CheckLines ==
  ASSUME Types, LineInv, pc[Deferred] \notin AtSession, DOMAIN pc' = Actors, pc'[Deferred] \notin AtSession,
         \A b \in Actors \ {Deferred} : pc'[b] = pc[b] /\ lockOf'[b] = lockOf[b],
         NEW l \in Locks, NEW q \in Seq(Actors), OnlyMoves(Deferred, q, locks[l]),
         locks' = [locks EXCEPT ![l] = q], AtLock(Deferred)',
         UNCHANGED <<slock, held, todo>>
  PROVE  LineInv'
<1>1. Deferred \in Actors /\ locks \in [Locks -> Seq(Actors)]
  BY ActorFacts DEF LineInv, LockLines
<1>2. \A b \in Actors : pc'[b] = pc[b] \/ (pc[b] \notin AtSession /\ pc'[b] \notin AtSession)
  OBVIOUS
<1>3. SessionLines'
  BY <1>2, SessionsStill DEF LineInv
<1>4. locks' \in [Locks -> Seq(Actors)]
  BY <1>1
<1>5. ASSUME NEW b \in Actors \ {Deferred, Deferred}
      PROVE  /\ \A k \in Locks : Keeps(locks'[k], locks[k], b)
             /\ pc'[b] = pc[b] /\ lockOf'[b] = lockOf[b]
  BY <1>1 DEF OnlyMoves, Keeps
<1>6. LockLines'
  BY <1>1, <1>4, <1>5, LockMoves DEF LineInv
<1> QED
  BY <1>3, <1>6 DEF LineInv

LEMMA DeferredLines ==
  ASSUME Types, LineInv, DeferredNext
  PROVE  LineInv'
<1>1. /\ Deferred \in Actors \ Work /\ Deferred # Global /\ AtLock(Deferred) /\ None \notin Locks
      /\ locks \in [Locks -> Seq(Actors)] /\ lockOf \in [Actors -> Locks \cup {None}] /\ DOMAIN pc = Actors
  BY ActorFacts, SessionsAssumption DEF Types, LineInv, LockLines
<1>2. CASE DeferredStart
  <2>1. PICK l \in LockObjects :
          /\ lockOf' = [lockOf EXCEPT ![Deferred] = l]
          /\ \/ locks[l] = <<>> /\ BeginRound /\ UNCHANGED locks
             \/ /\ locks[l] # <<>> /\ locks' = [locks EXCEPT ![l] = Append(@, Deferred)]
                /\ pc' = [pc EXCEPT ![Deferred] = "ulock"]
                /\ UNCHANGED <<changed, cfg, slock, todo, plan, flaws>>
    BY <1>2 DEF DeferredStart
  <2>2. l \in Locks /\ pc[Deferred] = "start" /\ held' = held /\ \A k \in Locks : ~In(locks[k], Deferred)
    BY <1>1, <1>2, <2>1, LockFacts DEF DeferredStart, DeferredRest, AtLock
  <2>3. CASE BeginRound /\ UNCHANGED locks
    <3>1. \A k \in Locks : ~In(locks'[k], Deferred) /\ \A b \in Actors \ {Deferred} : Keeps(locks'[k], locks[k], b)
      BY <2>2, <2>3 DEF Keeps
    <3> QED
      BY <1>1, <2>1, <2>2, <2>3, <3>1, RoundLines
  <2>4. CASE /\ locks' = [locks EXCEPT ![l] = Append(@, Deferred)]
             /\ pc' = [pc EXCEPT ![Deferred] = "ulock"]
             /\ UNCHANGED <<slock, todo>>
    <3>1. /\ Append(locks[l], Deferred) \in Seq(Actors)
          /\ OnlyMoves(Deferred, Append(locks[l], Deferred), locks[l])
          /\ In(Append(locks[l], Deferred), Deferred) /\ Once(Append(locks[l], Deferred), Deferred)
      BY <1>1, <2>2, MovesAppend DEF OnlyMoves
    <3>2. locks' = [locks EXCEPT ![l] = Append(locks[l], Deferred)]
      BY <2>4
    <3>3. AtLock(Deferred)'
      BY <1>1, <2>1, <2>2, <2>4, <3>1, <3>2 DEF AtLock
    <3> QED
      BY <1>1, <2>1, <2>2, <2>4, <3>1, <3>2, <3>3, CheckLines DEF AtSession
  <2> QED
    BY <2>1, <2>3, <2>4
<1>3. CASE DeferredLocked
  <2> DEFINE l == lockOf[Deferred]
  <2>1. /\ pc[Deferred] = "ulock" /\ l \in Locks /\ locks[l] # <<>> /\ Head(locks[l]) = Deferred
        /\ locks' = [locks EXCEPT ![l] = Tail(@)] /\ BeginRound /\ held' = held /\ lockOf' = lockOf
    BY <1>1, <1>3 DEF DeferredLocked, DeferredRest, HasLock
  <2> HIDE DEF l
  <2>2. locks[l] \in Seq(Actors) /\ In(locks[l], Deferred)
    BY <1>1, <2>1, HeadIn
  <2>3. Once(locks[l], Deferred) /\ \A k \in Locks : In(locks[k], Deferred) => k = l
    BY <1>1, <2>1, <2>2 DEF AtLock, l
  <2>4. OnlyMoves(Deferred, Tail(locks[l]), locks[l]) /\ ~In(Tail(locks[l]), Deferred)
    BY <2>1, <2>2, <2>3, MovesTail
  <2>5. /\ locks' \in [Locks -> Seq(Actors)] /\ locks'[l] = Tail(locks[l])
        /\ \A k \in Locks \ {l} : locks'[k] = locks[k]
    BY <1>1, <2>1, <2>4 DEF OnlyMoves
  <2>6. \A k \in Locks : ~In(locks'[k], Deferred) /\ \A b \in Actors \ {Deferred} : Keeps(locks'[k], locks[k], b)
    BY <2>3, <2>4, <2>5 DEF OnlyMoves, Keeps
  <2>7. lockOf'[Deferred] \in Locks
    BY <2>1 DEF l
  <2> QED
    BY <2>1, <2>5, <2>6, <2>7, RoundLines
<1>4. CASE DeferredCheck
  <2> DEFINE l == lockOf[Deferred]
  <2>1. /\ pc[Deferred] = "check" /\ l \in Locks /\ UNCHANGED <<slock, held, todo>>
        /\ \A k \in Locks : In(locks[k], Deferred) => Once(locks[k], Deferred) /\ k = l
        /\ locks[l] \in Seq(Actors)
    BY <1>1, <1>4 DEF DeferredCheck, DeferredRest, AtLock
  <2>2. CASE /\ locks' = [locks EXCEPT ![l] = Without(@, Deferred)]
             /\ lockOf' = [lockOf EXCEPT ![Deferred] = None]
             /\ pc' = [pc EXCEPT ![Deferred] = IF changed THEN "start" ELSE "idle"]
    <3> HIDE DEF l
    <3>1. OnlyMoves(Deferred, Without(locks[l], Deferred), locks[l]) /\ ~In(Without(locks[l], Deferred), Deferred)
      <4>1. ~In(locks[l], Deferred) => ~In(Without(locks[l], Deferred), Deferred)
        BY DEF Without, In
      <4> QED
        BY <1>1, <2>1, <4>1, MovesWithout
    <3>2. /\ Without(locks[l], Deferred) \in Seq(Actors)
          /\ locks' = [locks EXCEPT ![l] = Without(locks[l], Deferred)]
      BY <2>2, <3>1 DEF OnlyMoves
    <3>3. pc'[Deferred] \in {"start", "idle"}
      BY <1>1, <2>2
    <3>4. AtLock(Deferred)'
      BY <1>1, <2>1, <3>1, <3>2, <3>3 DEF AtLock
    <3> QED
      BY <1>1, <2>1, <2>2, <3>1, <3>2, <3>3, <3>4, CheckLines DEF AtSession
  <2>3. CASE /\ \A i \in DOMAIN locks[l] : locks[l][i] # Deferred
             /\ locks' = [locks EXCEPT ![l] = Append(@, Deferred)]
             /\ UNCHANGED <<pc, lockOf>>
    <3>0. \A k \in Locks : ~In(locks[k], Deferred)
      BY <2>1, <2>3 DEF In
    <3>c. lockOf[Deferred] = l
      OBVIOUS
    <3> HIDE DEF l
    <3>1. /\ Append(locks[l], Deferred) \in Seq(Actors)
          /\ OnlyMoves(Deferred, Append(locks[l], Deferred), locks[l])
          /\ In(Append(locks[l], Deferred), Deferred) /\ Once(Append(locks[l], Deferred), Deferred)
      BY <1>1, <2>1, <3>0, MovesAppend DEF OnlyMoves
    <3>2. locks' = [locks EXCEPT ![l] = Append(locks[l], Deferred)]
      BY <2>3
    <3>3. AtLock(Deferred)'
      BY <1>1, <2>1, <2>3, <3>0, <3>c, <3>1, <3>2 DEF AtLock
    <3> QED
      BY <1>1, <2>1, <2>3, <3>1, <3>2, <3>3, CheckLines DEF AtSession
  <2> QED
    BY <1>4, <2>2, <2>3 DEF DeferredCheck
<1> QED
  BY <1>2, <1>3, <1>4 DEF DeferredNext

-----------------------------------------------------------------------------
(* The steps of update_all_sessions_config *)

\* It comes to the sessions holding l, alone in its queue if it had not waited.
LEMMA VisitAllLines ==
  ASSUME Types, LineInv, pc[Global] \in {"idle", "ulock"}, NEW l \in Locks, NEW config, VisitAll(l, config),
         held' = held, lockOf' = [lockOf EXCEPT ![Global] = l],
         \A k \in Locks : In(locks[k], Global) => k = l /\ Once(locks[k], Global)
  PROVE  LineInv'
<1>1. /\ Global \in Actors \ Work /\ Global # Deferred /\ AfterLoop(Global) = "leave" /\ reg \in Seq(Ids)
      /\ locks \in [Locks -> Seq(Actors)] /\ lockOf \in [Actors -> Locks \cup {None}] /\ LockLines
  BY ActorFacts DEF Types, AfterLoop, LineInv, LockLines
<1>2. /\ SessionLines' /\ DOMAIN pc' = Actors /\ pc'[Global] \in {"slock", "leave"}
      /\ \A b \in Actors \ {Global} : pc'[b] = pc[b] \/ (pc[b] = "idle" /\ pc'[b] = "start")
  BY <1>1, SetsOut DEF VisitAll, AtSession
<1>3. locks' = [locks EXCEPT ![l] = IF @ = <<>> THEN <<Global>> ELSE @]
  BY DEF VisitAll
<1> DEFINE q == IF locks[l] = <<>> THEN <<Global>> ELSE locks[l]
<1>4. q \in Seq(Actors) /\ Once(q, Global) /\ \A b \in Actors \ {Global} : Keeps(q, locks[l], b)
  <2>1. CASE locks[l] = <<>>
    <3>1. /\ <<Global>> \in Seq(Actors) /\ Once(<<Global>>, Global)
          /\ \A b : In(<<Global>>, b) => b = Global
      BY <1>1 DEF Once, In
    <3>2. \A b : ~In(<<>>, b)
      BY DEF In
    <3>3. \A b \in Actors \ {Global} : Once(<<Global>>, b)
      BY <3>1 DEF Once, In
    <3> HIDE DEF q
    <3>4. q = <<Global>>
      BY <2>1 DEF q
    <3> QED
      BY <2>1, <3>1, <3>2, <3>3, <3>4 DEF Keeps
  <2>2. CASE locks[l] # <<>>
    <3>1. q = locks[l] /\ locks[l] \in Seq(Actors)
      BY <1>1, <2>2
    <3>2. Once(locks[l], Global)
      BY DEF Once, In
    <3> QED
      BY <3>1, <3>2 DEF Keeps
  <2> QED
    BY <2>1, <2>2
<1>5. /\ locks' = [locks EXCEPT ![l] = q] /\ locks' \in [Locks -> Seq(Actors)] /\ locks'[l] = q
      /\ \A k \in Locks \ {l} : locks'[k] = locks[k]
  BY <1>1, <1>3, <1>4
<1> HIDE DEF q
<1>6. AtLock(Global)'
  BY <1>1, <1>2, <1>4, <1>5 DEF AtLock
<1>7. ASSUME NEW b \in Actors \ {Global, Global}
      PROVE  /\ \A k \in Locks : Keeps(locks'[k], locks[k], b)
             /\ pc'[b] = pc[b] \/ (pc[b] \notin AtUserLock /\ pc'[b] \notin AtUserLock)
             /\ lockOf'[b] = lockOf[b]
  BY <1>1, <1>2, <1>4, <1>5 DEF AtUserLock, Keeps
<1>8. LockLines'
  BY <1>1, <1>5, <1>6, <1>7, LockMoves
<1> QED
  BY <1>2, <1>8 DEF LineInv

LEMMA GlobalLines ==
  ASSUME Types, LineInv, Excluding, UpdateAll \/ UpdateAllLocked \/ UpdateAllEnd
  PROVE  LineInv'
<1>1. /\ Global \in Actors \ Work /\ Global # Deferred /\ AtLock(Global) /\ None \notin Locks
      /\ locks \in [Locks -> Seq(Actors)] /\ lockOf \in [Actors -> Locks \cup {None}] /\ DOMAIN pc = Actors
      /\ LockLines
  BY ActorFacts, SessionsAssumption DEF Types, LineInv, LockLines
<1>2. CASE UpdateAll
  <2>1. pc[Global] = "idle" /\ held' = held /\ \A k \in Locks : ~In(locks[k], Global)
    BY <1>1, <1>2 DEF UpdateAll, GlobalRest, AtLock
  <2>2. CASE UNCHANGED <<lockVars, slock, todo, pc>>
    BY <2>1, <2>2, LinesStill DEF lockVars
  <2>3. ASSUME NEW l \in LockObjects, lockOf' = [lockOf EXCEPT ![Global] = l],
               VisitAll(l, [Effective EXCEPT !.base = base + 1])
        PROVE  LineInv'
    BY <2>1, <2>3, LockFacts, VisitAllLines
  <2>4. ASSUME NEW l \in LockObjects, lockOf' = [lockOf EXCEPT ![Global] = l],
               locks' = [locks EXCEPT ![l] = Append(@, Global)], pc' = [pc EXCEPT ![Global] = "ulock"],
               UNCHANGED <<slock, todo>>
        PROVE  LineInv'
    <3>1. l \in Locks
      BY LockFacts
    <3>2. /\ Append(locks[l], Global) \in Seq(Actors)
          /\ OnlyMoves(Global, Append(locks[l], Global), locks[l])
          /\ In(Append(locks[l], Global), Global) /\ Once(Append(locks[l], Global), Global)
      BY <1>1, <2>1, <3>1, MovesAppend DEF OnlyMoves
    <3>3. /\ locks' \in [Locks -> Seq(Actors)] /\ locks'[l] = Append(locks[l], Global)
          /\ \A k \in Locks \ {l} : locks'[k] = locks[k]
      BY <1>1, <2>4, <3>1, <3>2
    <3>4. AtLock(Global)'
      BY <1>1, <2>1, <2>4, <3>1, <3>2, <3>3 DEF AtLock
    <3>5. ASSUME NEW b \in Actors \ {Global, Global}
          PROVE  /\ \A k \in Locks : Keeps(locks'[k], locks[k], b)
                 /\ pc'[b] = pc[b] /\ lockOf'[b] = lockOf[b]
      BY <1>1, <2>4, <3>2, <3>3 DEF Keeps, OnlyMoves
    <3>6. LockLines'
      BY <1>1, <3>3, <3>4, <3>5, LockMoves
    <3>7. \A b \in Actors : pc'[b] = pc[b] \/ (pc[b] \notin AtSession /\ pc'[b] \notin AtSession)
      BY <1>1, <2>1, <2>4 DEF AtSession
    <3>8. SessionLines'
      BY <2>1, <2>4, <3>7, SessionsStill DEF LineInv
    <3> QED
      BY <3>6, <3>8 DEF LineInv
  <2> QED
    BY <1>2, <2>2, <2>3, <2>4 DEF UpdateAll
<1>3. CASE UpdateAllLocked
  <2>1. /\ pc[Global] = "ulock" /\ held' = held /\ lockOf' = lockOf /\ lockOf[Global] \in Locks
        /\ VisitAll(lockOf[Global], Effective)
        /\ \A k \in Locks : In(locks[k], Global) => k = lockOf[Global] /\ Once(locks[k], Global)
    BY <1>1, <1>3 DEF UpdateAllLocked, GlobalRest, AtLock
  <2>2. lockOf' = [lockOf EXCEPT ![Global] = lockOf[Global]]
    BY <1>1, <2>1
  <2> QED
    BY <2>1, <2>2, VisitAllLines
<1>4. CASE UpdateAllEnd
  <2>1. /\ pc[Global] = "leave" /\ pc' = [pc EXCEPT ![Global] = "idle"] /\ Leaves(Global)
        /\ UNCHANGED <<slock, held, todo>> /\ HasLock(Global)
    BY <1>1, <1>4 DEF UpdateAllEnd, GlobalRest, Excluding, HasLock
  <2>2. LockLines'
    BY <1>1, <2>1, LeaveLines
  <2>3. \A b \in Actors : pc'[b] = pc[b] \/ (pc[b] \notin AtSession /\ pc'[b] \notin AtSession)
    BY <1>1, <2>1 DEF AtSession
  <2>4. SessionLines'
    BY <2>1, <2>3, SessionsStill DEF LineInv
  <2> QED
    BY <2>2, <2>4 DEF LineInv
<1> QED
  BY <1>2, <1>3, <1>4

-----------------------------------------------------------------------------
(* The steps of the connections *)

\* The last connection ends the sessions under l.
LEMMA EndAllLines ==
  ASSUME Types, LineInv, NEW c \in Conns, pc[c] \in {"closing", "eulock"}, NEW l \in Locks,
         \A k \in Locks : In(locks[k], c) => k = l, EndAll(c, l), LocksAfter(c, l)
  PROVE  LineInv'
<1>1. /\ c \in Actors /\ Deferred \in Actors /\ c # Deferred /\ c # Global /\ Deferred # Global
      /\ DOMAIN pc = Actors /\ LockLines /\ AtLock(c) /\ AtLock(Deferred)
      /\ locks \in [Locks -> Seq(Actors)] /\ lockOf \in [Actors -> Locks \cup {None}]
      /\ todo \in [Actors -> Seq(Ids)]
  BY ActorFacts DEF Types, LineInv, LockLines, SessionLines
<1>2. pc' = [pc EXCEPT ![c] = "closed", ![Deferred] = IF reg = <<>> THEN @ ELSE "idle"]
  BY DEF EndAll
<1>3. ASSUME NEW q \in Seq(Actors), NEW a \in Actors, In(q, a) => Once(q, a)
      PROVE  /\ Without(q, a) \in Seq(Actors) /\ ~In(Without(q, a), a)
             /\ \A b \in Actors \ {a} : Keeps(Without(q, a), q, b)
  <2>1. ~In(q, a) => ~In(Without(q, a), a)
    BY DEF Without, In
  <2> QED
    BY <1>3, <2>1, MovesWithout DEF OnlyMoves
<1>4. \A k \in Locks : /\ locks[k] \in Seq(Actors) /\ In(locks[k], c) => Once(locks[k], c)
                       /\ In(locks[k], Deferred) => Once(locks[k], Deferred)
  BY <1>1 DEF AtLock
<1>5. CASE reg = <<>>
  <2>1. /\ DOMAIN pc' = Actors /\ pc'[c] = "closed" /\ \A b \in Actors \ {c} : pc'[b] = pc[b]
        /\ UNCHANGED <<slock, held, todo>>
        /\ locks' = [locks EXCEPT ![l] = Without(@, c)] /\ lockOf' = [lockOf EXCEPT ![c] = None]
    BY <1>1, <1>2, <1>5 DEF EndAll, LocksAfter
  <2>2. /\ locks' \in [Locks -> Seq(Actors)] /\ locks'[l] = Without(locks[l], c)
        /\ \A k \in Locks \ {l} : locks'[k] = locks[k]
        /\ ~In(Without(locks[l], c), c)
        /\ \A b \in Actors \ {c} : Keeps(Without(locks[l], c), locks[l], b)
    BY <1>1, <1>3, <1>4, <2>1
  <2>3. AtLock(c)'
    BY <1>1, <2>1, <2>2 DEF AtLock
  <2>4. ASSUME NEW b \in Actors \ {c, c}
        PROVE  /\ \A k \in Locks : Keeps(locks'[k], locks[k], b)
               /\ pc'[b] = pc[b] /\ lockOf'[b] = lockOf[b]
    BY <1>1, <2>1, <2>2 DEF Keeps
  <2>5. LockLines'
    BY <1>1, <2>2, <2>3, <2>4, LockMoves
  <2>6. \A b \in Actors : pc'[b] = pc[b] \/ (pc[b] \notin AtSession /\ pc'[b] \notin AtSession)
    BY <2>1 DEF AtSession
  <2>7. SessionLines'
    BY <2>1, <2>6, SessionsStill DEF LineInv
  <2> QED
    BY <2>5, <2>7 DEF LineInv
<1>6. CASE reg # <<>>
  <2>1. /\ DOMAIN pc' = Actors /\ pc'[c] = "closed" /\ pc'[Deferred] = "idle"
        /\ \A b \in Actors \ {c, Deferred} : pc'[b] = pc[b]
        /\ LeavesSessions(Deferred) /\ todo' = [todo EXCEPT ![Deferred] = <<>>]
        /\ locks' = [k \in Locks |-> Without(Without(locks[k], c), Deferred)]
        /\ lockOf' = [lockOf EXCEPT ![c] = None, ![Deferred] = None]
    BY <1>1, <1>2, <1>6 DEF EndAll, LocksAfter
  <2>2. ASSUME NEW k \in Locks
        PROVE  /\ locks'[k] \in Seq(Actors) /\ ~In(locks'[k], c) /\ ~In(locks'[k], Deferred)
               /\ \A b \in Actors \ {c, Deferred} : Keeps(locks'[k], locks[k], b)
    <3>0. locks'[k] = Without(Without(locks[k], c), Deferred)
      BY <2>1
    <3> DEFINE q == Without(locks[k], c)
    <3>1. locks'[k] = Without(q, Deferred)
      BY ONLY <3>0
    <3>2. q \in Seq(Actors) /\ ~In(q, c) /\ \A b \in Actors \ {c} : Keeps(q, locks[k], b)
      BY <1>1, <1>3, <1>4
    <3> HIDE DEF q
    <3>3. In(q, Deferred) => Once(q, Deferred)
      BY <1>1, <1>4, <3>2 DEF Keeps
    <3>4. /\ Without(q, Deferred) \in Seq(Actors) /\ ~In(Without(q, Deferred), Deferred)
          /\ \A b \in Actors \ {Deferred} : Keeps(Without(q, Deferred), q, b)
      BY <1>1, <1>3, <3>2, <3>3
    <3> QED
      BY <1>1, <3>1, <3>2, <3>4 DEF Keeps
  <2>3. locks' \in [Locks -> Seq(Actors)]
    BY <2>1, <2>2
  <2>4. AtLock(c)' /\ AtLock(Deferred)'
    BY <1>1, <2>1, <2>2 DEF AtLock
  <2>5. ASSUME NEW b \in Actors \ {c, Deferred}
        PROVE  /\ \A k \in Locks : Keeps(locks'[k], locks[k], b)
               /\ pc'[b] = pc[b] /\ lockOf'[b] = lockOf[b]
    BY <1>1, <2>1, <2>2
  <2>6. LockLines'
    BY <1>1, <2>3, <2>4, <2>5, LockMoves
  <2>7. \A b \in Actors \ {Deferred} : /\ pc'[b] = pc[b] \/ (pc[b] \notin AtSession /\ pc'[b] \notin AtSession)
                                      /\ todo'[b] = todo[b]
    BY <1>1, <2>1 DEF AtSession
  <2>8. todo' \in [Actors -> Seq(Ids)] /\ pc'[Deferred] \notin AtSession
    <3>1. <<>> \in Seq(Ids)
      BY EmptySeq
    <3> QED
      BY <1>1, <2>1, <3>1 DEF AtSession
  <2>9. SessionLines'
    BY <1>1, <2>1, <2>7, <2>8, LeavesLines
  <2> QED
    BY <2>6, <2>9 DEF LineInv
<1> QED
  BY <1>5, <1>6

LEMMA ConnectionLines ==
  ASSUME Types, LineInv, NEW c \in Conns,
         OpenPlain(c) \/ Close(c) \/ (\E j \in Jobs : Receive(c, j)) \/ ConnNext(c)
  PROVE  LineInv'
<1>1. /\ c \in Actors /\ c # Deferred /\ c # Global /\ DOMAIN pc = Actors /\ AtLock(c)
      /\ \A j \in Jobs : j \in Actors /\ j # c
      /\ lockOf \in [Actors -> Locks \cup {None}] /\ None \notin Locks
  BY ActorFacts, SessionsAssumption DEF Types, LineInv, LockLines
<1>2. CASE OpenPlain(c) \/ Close(c)
  <2>1. /\ UNCHANGED <<slock, held, todo, locks, lockOf>> /\ pc[c] \in {"idle", "open"}
        /\ pc' = [pc EXCEPT ![c] = "open"] \/ pc' = [pc EXCEPT ![c] = "closing"]
    BY <1>2 DEF OpenPlain, Close, ConnRest, lockVars
  <2>2. \A b \in Actors : \/ pc'[b] = pc[b]
                          \/ pc[b] \notin AtSession \cup AtUserLock /\ pc'[b] \notin AtSession \cup AtUserLock
    BY <1>1, <2>1 DEF AtSession, AtUserLock
  <2> QED
    BY <2>1, <2>2, LinesStill
<1>3. ASSUME NEW j \in Jobs, Receive(c, j) PROVE LineInv'
  <2>1. /\ UNCHANGED <<slock, held, todo, locks, lockOf>> /\ pc[j] = "idle" /\ j \in Actors
        /\ pc' = [pc EXCEPT ![j] = IF Cardinality(Live(c)) < MaxTasks THEN "start" ELSE "done"]
    BY <1>1, <1>3 DEF Receive, ConnRest, lockVars
  <2>2. \A b \in Actors : \/ pc'[b] = pc[b]
                          \/ pc[b] \notin AtSession \cup AtUserLock /\ pc'[b] \notin AtSession \cup AtUserLock
    BY <1>1, <2>1 DEF AtSession, AtUserLock
  <2> QED
    BY <2>1, <2>2, LinesStill
<1>4. CASE Cleanup(c)
  <2>1. pc[c] = "closing"
    BY <1>4 DEF Cleanup
  <2>2. \A k \in Locks : ~In(locks[k], c)
    BY <1>1, <2>1 DEF AtLock
  <2>3. CASE /\ pc' = [pc EXCEPT ![c] = "closed"]
             /\ UNCHANGED <<lockVars, slock, held, todo>>
    <3>1. \A b \in Actors : \/ pc'[b] = pc[b]
                            \/ pc[b] \notin AtSession \cup AtUserLock /\ pc'[b] \notin AtSession \cup AtUserLock
      BY <1>1, <2>1, <2>3 DEF AtSession, AtUserLock
    <3> QED
      BY <2>3, <3>1, LinesStill DEF lockVars
  <2>4. ASSUME NEW l \in LockObjects, EndAll(c, l), LocksAfter(c, l) PROVE LineInv'
    BY <2>1, <2>2, <2>4, LockFacts, EndAllLines
  <2>5. ASSUME NEW l \in LockObjects, Waits(c, l), pc' = [pc EXCEPT ![c] = "eulock"],
               UNCHANGED <<slock, held, todo>>
        PROVE  LineInv'
    <3>1. l \in Locks /\ pc[c] \notin AtSession \cup AtUserLock
      BY <2>1, LockFacts DEF AtSession, AtUserLock
    <3> QED
      BY <1>1, <2>5, <3>1, WaitLines
  <2> QED
    BY <1>4, <2>3, <2>4, <2>5 DEF Cleanup
<1>5. CASE EndSessions(c)
  <2>1. /\ pc[c] = "eulock" /\ lockOf[c] \in Locks /\ EndAll(c, lockOf[c]) /\ LocksAfter(c, lockOf[c])
        /\ \A k \in Locks : In(locks[k], c) => k = lockOf[c]
    BY <1>1, <1>5 DEF EndSessions, AtLock
  <2> QED
    BY <2>1, EndAllLines
<1> QED
  BY <1>2, <1>3, <1>4, <1>5 DEF ConnNext

-----------------------------------------------------------------------------
(* Nobody waits in a circle *)

LEMMA LinesStart == Init => LineInv
<1> SUFFICES ASSUME Init PROVE LineInv
  OBVIOUS
<1>1. /\ \A a \in Actors : pc[a] = "idle" /\ todo[a] = <<>>
      /\ \A s \in Ids : slock[s] = <<>>
      /\ \A l \in Locks : locks[l] = <<>>
      /\ held = {} /\ todo = [a \in Actors |-> <<>>] /\ locks = [l \in Locks |-> <<>>]
  BY DEF Init
<1>2. <<>> \in Seq(Ids) /\ <<>> \in Seq(Actors) /\ \A v : ~In(<<>>, v)
  BY EmptySeq DEF In
<1>3. \A a \in Actors : LinedUp(a) /\ AtLock(a)
  BY <1>1, <1>2 DEF LinedUp, AtLock
<1>4. todo \in [Actors -> Seq(Ids)] /\ locks \in [Locks -> Seq(Actors)]
  BY <1>1, <1>2
<1> QED
  BY <1>1, <1>3, <1>4 DEF LineInv, SessionLines, LockLines

LEMMA LinesStep == SessionsInv /\ ArriveInv /\ LineInv /\ [Next]_vars => LineInv'
<1> SUFFICES ASSUME SessionsInv, ArriveInv, LineInv, [Next]_vars PROVE LineInv'
  OBVIOUS
<1>t. Types /\ Excluding
  BY DEF SessionsInv, ArriveInv
<1>1. ASSUME NEW j \in Jobs, WorkNext(j) \/ CancelWaiting(j) \/ UpdateSettings(j) PROVE LineInv'
  <2>1. CASE Refused(j)
    <3>1. /\ UNCHANGED <<slock, held, todo, locks, lockOf>> /\ pc[j] = "start"
          /\ pc' = [pc EXCEPT ![j] = "done"] /\ DOMAIN pc = Actors
      BY <1>t, <2>1 DEF Refused, WorkRest, lockVars, Types
    <3>2. \A b \in Actors : \/ pc'[b] = pc[b]
                            \/ pc[b] \notin AtSession \cup AtUserLock /\ pc'[b] \notin AtSession \cup AtUserLock
      BY <3>1 DEF AtSession, AtUserLock
    <3> QED
      BY <1>t, <3>1, <3>2, LinesStill
  <2> QED
    BY <1>t, <1>1, <2>1, FindLines, TakeLines, EndLines, CancelLines, UpdateLines DEF WorkNext
<1>2. ASSUME NEW a \in Actors, UpdateLocked(a) \/ ApplyWaited(a) PROVE LineInv'
  BY <1>t, <1>2, UpdateLines, WaitedLines
<1>3. CASE DeferredNext
  BY <1>t, <1>3, DeferredLines
<1>4. CASE UpdateAll \/ UpdateAllLocked \/ UpdateAllEnd
  BY <1>t, <1>4, GlobalLines
<1>5. ASSUME NEW c \in Conns, OpenPlain(c) \/ OpenWithOverrides(c) \/ Close(c) \/ ConnNext(c)
      PROVE  LineInv'
  BY <1>t, <1>5, ConnectionLines, UpdateLines
<1>6. ASSUME NEW c \in Conns, NEW j \in Jobs, Receive(c, j) PROVE LineInv'
  BY <1>t, <1>6, ConnectionLines
<1>7. CASE UNCHANGED vars
  BY <1>t, <1>7, LinesStill DEF vars, lockVars
<1> QED
  BY <1>1, <1>2, <1>3, <1>4, <1>5, <1>6, <1>7 DEF Next

LEMMA LinesHold == Spec => []LineInv
BY LinesStart, LinesStep, InvariantHolds, ArriveHolds, PTL DEF Spec

\* a is where it waits for a lock.
Waiting(a) == pc[a] \in {"ulock", "eulock", "slock"} \/ (a = Deferred /\ pc[a] = "check")

\* The next step of a waits for nobody.
CanGo(a) ==
  \/ pc[a] \in {"running", "leave"}
  \/ pc[a] \in {"ulock", "eulock"} /\ HasLock(a)
  \/ pc[a] = "check" /\ lockOf[a] # None /\ (HasLock(a) \/ ~In(locks[lockOf[a]], a))
  \/ pc[a] = "slock" /\ \E s \in Ids \ held : slock[s] # <<>> /\ Head(slock[s]) = a

\* b is the first of a queue in which a waits.
WaitsFor(a, b) ==
  \/ /\ pc[a] \in {"ulock", "eulock", "check"} /\ lockOf[a] # None
     /\ In(locks[lockOf[a]], a) /\ Head(locks[lockOf[a]]) = b
  \/ pc[a] = "slock" /\ \E s \in Ids : In(slock[s], a) /\ Head(slock[s]) = b

NoCircularWait ==
  \A a \in Actors : Waiting(a) =>
    \/ CanGo(a)
    \/ \E b \in Actors : WaitsFor(a, b) /\ CanGo(b)
    \/ /\ WaitsFor(a, Global) /\ pc[Global] = "slock"
       /\ \E b \in Actors : WaitsFor(Global, b) /\ CanGo(b)

\* Who waits for a session's lock waits for one that works, or that can take the lock.
LEMMA SessionLine ==
  ASSUME Types, LineInv, NEW a \in Actors, pc[a] = "slock"
  PROVE  CanGo(a) \/ \E b \in Actors : WaitsFor(a, b) /\ CanGo(b)
<1>1. PICK s \in Ids : In(slock[s], a)
  BY DEF LineInv, SessionLines, LinedUp
<1>2. slock[s] \in Seq(Actors) /\ slock[s] # <<>>
  BY <1>1, InSome DEF Types
<1> DEFINE b == Head(slock[s])
<1>3. b \in Actors /\ In(slock[s], b)
  BY <1>2, HeadIn
<1>4. LinedUp(b) /\ (s \in held => pc[b] = "running")
  BY <1>3 DEF LineInv, SessionLines
<1>5. CanGo(b)
  <2>1. CASE s \in held
    BY <1>4, <2>1 DEF CanGo
  <2>2. CASE s \notin held
    BY <1>2, <1>3, <1>4, <2>2 DEF CanGo, LinedUp
  <2> QED
    BY <2>1, <2>2
<1>6. WaitsFor(a, b)
  BY <1>1 DEF WaitsFor
<1> QED
  BY <1>3, <1>5, <1>6

\* Nobody waits in a circle, whatever the tasks, connections and updates: the user's
\* lock is held across a suspension by update_all_sessions_config alone, which may wait
\* for a session meanwhile, and who holds a session's lock waits for no lock.  So two
\* steps along the queues at most there is one that can go on.
THEOREM NoCircularWaitTheorem == Spec => []NoCircularWait
<1>1. ASSUME Types, LineInv PROVE NoCircularWait
  <2> SUFFICES ASSUME NEW a \in Actors, Waiting(a), ~CanGo(a)
               PROVE  \/ \E b \in Actors : WaitsFor(a, b) /\ CanGo(b)
                      \/ /\ WaitsFor(a, Global) /\ pc[Global] = "slock"
                         /\ \E b \in Actors : WaitsFor(Global, b) /\ CanGo(b)
    BY DEF NoCircularWait
  <2>1. CASE pc[a] = "slock"
    BY <1>1, <2>1, SessionLine
  <2>2. CASE pc[a] # "slock"
    <3> DEFINE l == lockOf[a]
               b == Head(locks[l])
    <3>1. /\ pc[a] \in {"ulock", "eulock", "check"} /\ l \in Locks /\ l # None /\ In(locks[l], a)
          /\ locks \in [Locks -> Seq(Actors)]
      BY <1>1, <2>2, SessionsAssumption DEF Waiting, CanGo, LineInv, LockLines, AtLock
    <3>2. locks[l] \in Seq(Actors) /\ locks[l] # <<>>
      BY <3>1, InSome
    <3>3. b \in Actors /\ In(locks[l], b)
      BY <3>2, HeadIn
    <3>4. WaitsFor(a, b)
      BY <3>1 DEF WaitsFor
    <3> HIDE DEF l
    <3>5. /\ lockOf[b] = l
          /\ \/ pc[b] \in {"ulock", "eulock"}
             \/ pc[b] = "check"
             \/ b = Global /\ pc[b] \in {"slock", "leave"}
      BY <1>1, <3>1, <3>3 DEF LineInv, LockLines, AtLock
    <3>6. HasLock(b)
      BY <3>1, <3>2, <3>5 DEF HasLock
    <3>7. CASE pc[b] # "slock"
      BY <3>1, <3>3, <3>4, <3>5, <3>6, <3>7 DEF CanGo
    <3>8. CASE pc[b] = "slock"
      <4>1. b = Global
        BY <3>5, <3>8
      <4>2. CASE CanGo(b)
        BY <3>3, <3>4, <4>2
      <4>3. CASE ~CanGo(b)
        BY <1>1, <3>3, <3>4, <3>8, <4>1, <4>3, SessionLine
      <4> QED
        BY <4>2, <4>3
    <3> QED
      BY <3>7, <3>8
  <2> QED
    BY <2>1, <2>2
<1>2. SessionsInv => Types
  BY DEF SessionsInv
<1> QED
  BY <1>1, <1>2, InvariantHolds, LinesHold, PTL

=============================================================================
