----------------------------- MODULE PaidReviews -----------------------------
(***************************************************************************)
(* The paid routes over the review store: paid delivery together with the  *)
(* reviews that other requests add while payments are under way.           *)
(*                                                                         *)
(* The handler of a paid route reads the Reviews of its path before any    *)
(* payment is recorded: with all of them stored its body is buffered and   *)
(* the hooks run, otherwise it answers 404 and nothing is settled.  A pair *)
(* that build_review_diff refuses to compare needs a Review that is never  *)
(* stored.  Rows of the store are never removed (see ReviewStore).         *)
(***************************************************************************)
EXTENDS X402Delivery

CONSTANTS
    Review,     \* the identities that Reviews are created under
    Needs       \* the Reviews that the handler of each paid path reads

ASSUME PathsNeedReviews == \A r \in Resource : r \in DOMAIN Needs

VARIABLE stored

paidVars == <<vars, stored>>

PaidInit == Init /\ stored = {}

\* Mutant: only the latest Review is kept.
CreateInPlace ==
    /\ \E v \in Review \ stored : stored' = {v}
    /\ UNCHANGED vars

\* An assessment elsewhere adds a Review, under a fresh identity: ReviewStore
\* has the insertion that is refused.
Create ==
    /\ \E v \in Review \ stored : stored' = stored \cup {v}
    /\ UNCHANGED vars

Servable(q) == Needs[request[q].resource] \subseteq stored

\* Mutant: a missing Review is noticed after the hooks.
HandlerAnswersLate ==
    \A q \in Req : pc[q] = "serving" => (pc'[q] = "declined" => ~Servable(q))

\* What the handler decides of a request: 404, or on to before_settle.
HandlerAnswers ==
    \A q \in Req : pc[q] = "serving" =>
        /\ pc'[q] = "declined" => ~Servable(q)
        /\ pc'[q] \in {"settling", "resuming", "refused"} => Servable(q)

Serve ==
    /\ Next
    /\ HandlerAnswers
    /\ UNCHANGED stored

PaidNext == Create \/ Serve

PaidSpec == PaidInit /\ [][PaidNext]_paidVars

-----------------------------------------------------------------------------
(* Properties. *)

\* Nobody is made to pay for what is not there: every durable intent, and every
\* transfer the token executed, is for a path whose Reviews are stored.
PaidForServable ==
    /\ \A i \in intents : Needs[i.resource] \subseteq stored
    /\ \A t \in chain : \E i \in intents : i.auth = t.auth /\ Needs[i.resource] \subseteq stored

\* A payment that was admitted is never answered with a 404 afterwards, by any
\* retry, before or after a restart.
SettledIsServed ==
    [][\A q \in Req :
        pc[q] = "serving" /\ pc'[q] = "declined" => ~Settled(request[q])]_paidVars

=============================================================================
