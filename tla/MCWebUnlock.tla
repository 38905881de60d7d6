----------------------------- MODULE MCWebUnlock -----------------------------
(* Finite instances of WebUnlock. *)
EXTENDS WebUnlock

CONSTANTS a1, a2, r1, r2, t1, q1, q2

ZeroLog == {0}
StillClock == {0}
OneWindow == {1}
HeadsTo2 == 0..2

=============================================================================
