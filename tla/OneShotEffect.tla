---------------------------- MODULE OneShotEffect ----------------------------
(***************************************************************************)
(* What save-before-effect promises of effects that must not happen twice, *)
(* with nothing said of commands, copies, files or replies: an effect      *)
(* happens at most once, only while the durable record says that it may,   *)
(* and the record says that it did only after it did.                      *)
(***************************************************************************)
EXTENDS Naturals

CONSTANT Effect

VARIABLES
    stage,  \* what the durable record says of each effect
    times   \* how often it happened

vars == <<stage, times>>

Init ==
    /\ stage = [e \in Effect |-> "none"]
    /\ times = [e \in Effect |-> 0]

Record(e, from, to) ==
    /\ stage[e] = from
    /\ stage' = [stage EXCEPT ![e] = to]
    /\ UNCHANGED times

Intend(e) == Record(e, "none", "intended")

\* From here on the effect may happen.
Expose(e) == Record(e, "intended", "exposed")

Happen(e) ==
    /\ stage[e] = "exposed"
    /\ times[e] = 0
    /\ times' = [times EXCEPT ![e] = 1]
    /\ UNCHANGED stage

Learn(e) == times[e] = 1 /\ Record(e, "exposed", "known")

\* The effect was refused: it may be intended again.
Retract(e) == times[e] = 0 /\ Record(e, "exposed", "intended")

Next == \E e \in Effect : Intend(e) \/ Expose(e) \/ Happen(e) \/ Learn(e) \/ Retract(e)

Spec == Init /\ [][Next]_vars

=============================================================================
