---------------------------- MODULE MCCompaction ----------------------------
(* Instances of Compaction for TLC. *)
EXTENDS Compaction, TLC

Symmetry == Permutations(Turns)

\* With a tail budget of 3: an output that fits and one whose text alone does not.
SmallOutput == [text |-> 0, image |-> 0]
SmallOutputs == {SmallOutput}
AllOutputs == {SmallOutput, [text |-> 4, image |-> 0]}

\* An image alone does not fit either; one turn has one.
NoImage == [t \in Turns |-> 0]
OneImage == [t \in Turns |-> IF t = CHOOSE u \in Turns : TRUE THEN 3 ELSE 0]

=============================================================================
