-------------------------- MODULE MCTokenLifecycle --------------------------
(* Finite instances of TokenLifecycle for TLC. *)
EXTENDS TokenLifecycle, TLC

CONSTANTS p1, p2, p3, s1, s2, i1, i2, w1, r1, r2

\* Pairs, sessions and requests are compared for equality only.
Symmetry == Permutations(Pair) \cup Permutations(Session) \cup Permutations(Request)

=============================================================================
