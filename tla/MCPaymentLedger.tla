--------------------------- MODULE MCPaymentLedger ---------------------------
(* Finite instance of PaymentLedger. *)
EXTENDS PaymentLedger, TLC

CONSTANTS a1, a2, r1, r2, t1, t2

MCDeadline == {1, 2}
MCTime == {0, 1}
MCLogIndex == {0, 1}
MCEvidence == {5, 6}

\* The ledger compares these values for equality only.
Symmetry == Permutations({a1, a2}) \cup Permutations({r1, r2}) \cup Permutations({t1, t2})

=============================================================================
