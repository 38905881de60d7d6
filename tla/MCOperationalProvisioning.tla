---------------------- MODULE MCOperationalProvisioning ----------------------
(* Finite instances of OperationalProvisioning. *)
EXTENDS OperationalProvisioning, TLC

CONSTANTS c1, v1, v2, p1, p2, w1, w2, k1, k2

\* Every constant is compared for equality only.
Symmetry == Permutations({v1, v2}) \cup Permutations({p1, p2})
               \cup Permutations({w1, w2}) \cup Permutations({k1, k2})

=============================================================================
