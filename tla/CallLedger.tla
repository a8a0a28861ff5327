----------------------------- MODULE CallLedger -----------------------------
(***************************************************************************)
(* What a conversation session promises, whatever happens inside it: it is *)
(* held by one caller at a time, and its log only grows; every tool call   *)
(* in it is asked once, and answered at most once, after it was asked.     *)
(***************************************************************************)
EXTENDS Integers, Sequences

CONSTANTS
  Callers, \* the turns
  Free,    \* the holder of a free session
  Ids      \* tool call ids

VARIABLES holder, log

vars == <<holder, log>>

\* An entry asks for some calls, answers one, or does neither.
Entries == [kind : {"ask", "answer", "note"}, calls : SUBSET Ids]

Init == holder = Free /\ log = <<>>

Enter(t) == holder = Free /\ holder' = t /\ UNCHANGED log
Leave == holder' = Free

Before(l, i, kind) == UNION {l[j].calls : j \in {k \in 1..(i - 1) : l[k].kind = kind}}

\* Entry i of l follows what is before it.
Follows(l, i) ==
  /\ l[i] \in Entries
  /\ l[i].kind = "ask" =>
       l[i].calls \cap (Before(l, i, "ask") \cup Before(l, i, "answer")) = {}
  /\ l[i].kind = "answer" =>
       l[i].calls \subseteq Before(l, i, "ask") \ Before(l, i, "answer")

Grow ==
  /\ Len(log') >= Len(log)
  /\ \A i \in 1..Len(log) : log'[i] = log[i]
  /\ \A i \in (Len(log) + 1)..Len(log') : Follows(log', i)

Next == (\E t \in Callers : Enter(t)) \/ (Grow /\ (Leave \/ UNCHANGED holder))

Spec == Init /\ [][Next]_vars

=============================================================================
