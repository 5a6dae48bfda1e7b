------------------------ MODULE MCAttestationLedger ------------------------
(* AttestationLedger with model values for TLC. *)
EXTENDS AttestationLedger, TLC

CONSTANTS o1, o2, i1, i2, g1, g2, n1, r1, r2

Symmetry == Permutations(Org) \cup Permutations(Identity) \cup Permutations(Grant)
            \cup Permutations(Request)

=============================================================================
