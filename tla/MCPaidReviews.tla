---------------------------- MODULE MCPaidReviews ----------------------------
(* Finite instances of PaidReviews. *)
EXTENDS PaidReviews, TLC

CONSTANTS a1, a2, r1, r2, t1, t2, q1, q2, v1, v2

ZeroLog == {0}
TwoReadings == {0, 1}
OneWindow == {1}
HeadsTo3 == 0..3

\* The full Review of v1, and its comparison with v2.
MCNeeds == [r \in Resource |-> IF r = r1 THEN {v1} ELSE {v1, v2}]

\* The paths differ in the Reviews they need; the rest is compared for equality.
MCSymmetry == Permutations({q1, q2}) \cup Permutations({a1, a2}) \cup Permutations({t1, t2})

=============================================================================
