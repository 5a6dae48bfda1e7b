--------------------------- MODULE MCKeyRotation ---------------------------
(* KeyRotation with model values for TLC. *)
EXTENDS KeyRotation, TLC

CONSTANTS k1, k2, k3, c1, c2

Symmetry == Permutations(Call) \cup Permutations(Key \ {First})

=============================================================================
