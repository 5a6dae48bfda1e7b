------------------------ MODULE MCIdentityLifecycle ------------------------
(* IdentityLifecycle with model values for TLC. *)
EXTENDS IdentityLifecycle, TLC

CONSTANTS i1, i2, i3, p1, p2, p3, r1, r2

Symmetry == Permutations(Identity) \cup Permutations(Pair) \cup Permutations(Request)

=============================================================================
