---------------------------- MODULE MCLocalMemory ----------------------------
(***************************************************************************)
(* Instances of Transcripts, Semanticizer and VectorIndex for TLC.  They   *)
(* are parts of one local store with separate tables and files and share   *)
(* no state: `focus` says which of them runs, and the others stay in their *)
(* initial states.                                                         *)
(***************************************************************************)
EXTENDS Transcripts, Semanticizer, VectorIndex

VARIABLE focus

vars == <<transcriptsVars, semanticizerVars, vectorVars, focus>>

Init ==
  /\ TranscriptsInit /\ SemanticizerInit /\ VectorInit
  /\ focus \in {"transcripts", "semanticizer", "vectors"}

\* Events are numbers, and differ in nothing else: they are emitted in their order.
InOrder ==
  \A e \in Events : write[e].at = "none" /\ write'[e].at # "none"
                   => \A o \in Events : write[o].at = "none" => e <= o

TranscriptsStep ==
  /\ focus = "transcripts" /\ TranscriptsNext /\ InOrder
  /\ UNCHANGED <<semanticizerVars, vectorVars, focus>>

\* Conversations differ in nothing but their name: the first row belongs to "x".
SemanticizerStep ==
  /\ focus = "semanticizer" /\ SemanticizerNext /\ chat'[1] \subseteq {"x"}
  /\ UNCHANGED <<transcriptsVars, vectorVars, focus>>

\* Bound: up to the first flaw; nothing is claimed after it but the types.
VectorStep ==
  focus = "vectors" /\ ~flaw /\ VectorNext /\ UNCHANGED <<transcriptsVars, semanticizerVars, focus>>

\* SemanticizerFairness, when it is in focus.
Fair(A) == focus = "semanticizer" /\ A /\ UNCHANGED <<transcriptsVars, vectorVars, focus>>

Fairness == WF_vars(Fair(Cycle)) /\ WF_vars(Fair(Age)) /\ WF_vars(Fair(ClearSummaries))

Spec == Init /\ [][TranscriptsStep \/ SemanticizerStep \/ VectorStep]_vars /\ Fairness

=============================================================================
