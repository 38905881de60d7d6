---------------------------- MODULE PaidDelivery ----------------------------
(***************************************************************************)
(* What the paid routes promise, with nothing said of requests, hooks,     *)
(* retries, replies or the database: an authorization is bound to one      *)
(* resource before it may be spent, only a spent one is settled, and only  *)
(* the resource of a settled one is delivered.                             *)
(***************************************************************************)
CONSTANTS Auth, Resource

VARIABLES
    bound,      \* <<a, r>>: a is durably intended for r
    spent,      \* authorizations the token has consumed
    settled,    \* <<a, r>>: the payment of a for r is admitted
    delivered   \* <<a, r>>: r was released against a

vars == <<bound, spent, settled, delivered>>

Init == bound = {} /\ spent = {} /\ settled = {} /\ delivered = {}

Bind(a, r) ==
    /\ \A x \in Resource : <<a, x>> \notin bound
    /\ bound' = bound \cup {<<a, r>>}
    /\ UNCHANGED <<spent, settled, delivered>>

Spend(a) ==
    /\ a \notin spent
    /\ \E r \in Resource : <<a, r>> \in bound
    /\ spent' = spent \cup {a}
    /\ UNCHANGED <<bound, settled, delivered>>

Settle(a, r) ==
    /\ a \in spent
    /\ <<a, r>> \in bound
    /\ settled' = settled \cup {<<a, r>>}
    /\ UNCHANGED <<bound, spent, delivered>>

Deliver(a, r) ==
    /\ <<a, r>> \in settled
    /\ delivered' = delivered \cup {<<a, r>>}
    /\ UNCHANGED <<bound, spent, settled>>

Next ==
    \E a \in Auth :
        \/ Spend(a)
        \/ \E r \in Resource : Bind(a, r) \/ Settle(a, r) \/ Deliver(a, r)

Spec == Init /\ [][Next]_vars

=============================================================================
