--------------------------- MODULE MCX402Delivery ---------------------------
(* Finite instances of X402Delivery by itself. *)
EXTENDS X402Delivery

CONSTANTS a1, r1, t1, q1, q2

ZeroLog == {0}
StillClock == {0}
TwoReadings == {0, 1}
OneWindow == {1}
HeadsTo2 == 0..2

=============================================================================
