----------------------------- MODULE MCSessions -----------------------------
(* Instances of Sessions for TLC. *)
EXTENDS Sessions, TLC

CONSTANTS r1, q1, q2, k1, s1

\* One query without a conversation ref; one query and one compaction that race to
\* create the session of r1.
MCAsksFor == (q1 :> {None}) @@ (q2 :> {r1}) @@ (k1 :> {r1}) @@ (s1 :> {None})

\* Two instances in one run: every message comes, and one global change at most; or
\* the compaction and the settings do not come, and two global changes do at most.
VARIABLE scene

All == "all the messages"
Two == "two global changes"

MCInit == Init /\ scene \in {All, Two}
MCNext ==
  /\ Next
  /\ scene = All => base' < 2
  /\ scene = Two => \A j \in {k1, s1} : pc'[j] = "idle"
  /\ UNCHANGED scene

MCSpec == MCInit /\ [][MCNext]_<<vars, scene>> /\ Fairness

=============================================================================
