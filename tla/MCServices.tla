----------------------------- MODULE MCServices -----------------------------
(***************************************************************************)
(* Instances of Outbox, RunControl and ManagedSocket for TLC.  They share  *)
(* no state: `scene` says which of them runs, and the others stay in their *)
(* initial states, where all of their fair actions are disabled.           *)
(* RunControl has two scenes: two workers without faults and with one      *)
(* control, or one worker with every fault.                                *)
(***************************************************************************)
EXTENDS Outbox, RunControl, ManagedSocket, TLC

CONSTANTS r1, r2, w1, w2, ws, q1, q2

VARIABLE scene

MCHome == [x \in Runs \cup Workers |-> ws]

\* Both runs are of one conversation.
MCConversation == [r \in Runs |-> "conversation"]

allVars == <<vars, runVars, socketVars, scene>>

MCInit ==
  /\ Init /\ RunInit /\ SocketInit
  /\ scene \in {"outbox", "two workers", "faults", "socket"}
  /\ scene # "socket" => ~session.fallback

OutboxStep == scene = "outbox" /\ Next /\ UNCHANGED <<runVars, socketVars, scene>>

RunStep ==
  /\ scene \in {"two workers", "faults"} /\ RunNext /\ UNCHANGED <<vars, socketVars, scene>>
  /\ scene = "two workers" => faults' = 0 /\ controls' <= 1
  /\ scene = "faults" => tick'[w2].at = "off"

SocketStep == scene = "socket" /\ SocketNext /\ UNCHANGED <<vars, runVars, scene>>

MCSpec ==
  MCInit /\ [][OutboxStep \/ RunStep \/ SocketStep]_allVars /\ OutboxFairness /\ RunFairness

=============================================================================
