------------------------------- MODULE MCFrame -------------------------------
(* An instance of Frame for TLC: room for three words below the saved registers.   *)
EXTENDS Frame, TLC

SmallWidths == {4, 8}
SmallBounds == {2}

\* A bound that takes an array at global scope below the saved registers.
LargeBounds == {1, 6}

\* The names play the same part, and nothing checked distinguishes them.
NameSymmetry == Permutations(Name)

=============================================================================
