--------------------------- MODULE MCActiveQueries ---------------------------
(* Instances of ActiveQueries for TLC. *)
EXTENDS ActiveQueries, TLC

\* Tasks, turns and users are interchangeable.
Symmetry == Permutations(Tasks) \cup Permutations(Turns) \cup Permutations(Users)

=============================================================================
