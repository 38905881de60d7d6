------------------------ MODULE MCWalletProvisioning ------------------------
(* Finite instances of WalletProvisioning. *)
EXTENDS WalletProvisioning, TLC

CONSTANTS c1, c2, d1, d2, b1, w1, w2, p1, p2

\* Every constant is compared for equality only.
Symmetry == Permutations({c1, c2}) \cup Permutations({d1, d2})
               \cup Permutations({w1, w2}) \cup Permutations({p1, p2})

=============================================================================
