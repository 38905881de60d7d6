-------------------------- MODULE MCOperationalVault --------------------------
(* Finite instances of OperationalVault. *)
EXTENDS OperationalVault, TLC

CONSTANTS c1, d1, v1, p1, p2, w1, w2, k1, k2, u1, u2, g1, g2

\* Every constant is compared for equality only.
Symmetry == Permutations({p1, p2}) \cup Permutations({w1, w2}) \cup Permutations({k1, k2})
               \cup Permutations({u1, u2}) \cup Permutations({g1, g2})

=============================================================================
