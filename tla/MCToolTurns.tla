----------------------------- MODULE MCToolTurns -----------------------------
(* Instances of ToolTurns for TLC. *)
EXTENDS ToolTurns, TLC

\* The turns of a session are interchangeable.
Symmetry == Permutations(Turns)

=============================================================================
