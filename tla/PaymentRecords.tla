--------------------------- MODULE PaymentRecords ---------------------------
(***************************************************************************)
(* The closed payment records of payments.py: an intent, the facilitator's *)
(* claim that it settled it, the independent observation of Celo, and the  *)
(* settlement that reconciles the three.                                   *)
(*                                                                         *)
(* A digest is injective here: an identity that the code computes as the   *)
(* digest of some fields is the record of those fields.  Network, chain,   *)
(* asset, decimals, payee and amount are fixed by the one offer and by the *)
(* constructors, so an intent is told apart by its authorization (payer    *)
(* and nonce), its resource and the end of its validity window.  The start *)
(* of the window is past for every authorization a client presents.        *)
(***************************************************************************)
EXTENDS Naturals

CONSTANTS
    Auth,       \* authorization identities: digest of network, asset, payer, nonce
    Resource,   \* query-free paid paths
    Deadline,   \* values of validBefore
    Tx,         \* transaction hashes
    LogIndex,   \* positions of a Transfer log in its receipt
    Evidence,   \* what else an observation saw: head, confirmations, raw digest
    Time        \* clock readings

ASSUME TimesAreNaturals == Time \subseteq Nat /\ Deadline \subseteq Nat

-----------------------------------------------------------------------------
(* Identities. *)

IntentId == [auth : Auth, resource : Resource, before : Deadline]
Event == [tx : Tx, log : LogIndex]
\* "exact": the facilitator named the payer and the amount of the intent.
ClaimId == [intent : IntentId, tx : Tx, exact : BOOLEAN]
ObservationId == [event : Event, auth : Auth]

(* Records: the content, and the one time the store ignores on a replay. *)

Intent == [auth : Auth, resource : Resource, before : Deadline, at : Time]
Claim == [intent : IntentId, tx : Tx, exact : BOOLEAN, at : Time]
Observation == [intent : IntentId, auth : Auth, event : Event,
                evidence : Evidence, at : Time]
Settlement == [intent : IntentId, claim : ClaimId, observation : ObservationId,
               event : Event, auth : Auth, at : Time]

IdOfIntent(i) == [auth |-> i.auth, resource |-> i.resource, before |-> i.before]
IdOfClaim(c) == [intent |-> c.intent, tx |-> c.tx, exact |-> c.exact]
IdOfObservation(o) == [event |-> o.event, auth |-> o.auth]

-----------------------------------------------------------------------------
(* Constructors. *)

\* PaymentIntent.__post_init__ admits an intent only inside its window.
ValidAt(id, t) == t < id.before

IntentAt(id, t) ==
    [auth |-> id.auth, resource |-> id.resource, before |-> id.before, at |-> t]

ClaimAt(id, tx, exact, t) == [intent |-> id, tx |-> tx, exact |-> exact, at |-> t]

\* What the verifier builds for a claim once every check has passed.
ObservationOf(c, event, evidence, t) ==
    [intent |-> c.intent, auth |-> c.intent.auth, event |-> event,
     evidence |-> evidence, at |-> t]

\* reconcile_settlement: claim and observation tell of one intent, one
\* transaction, one authorization, and of its payer and amount.
Reconciles(id, c, o) ==
    /\ c.intent = id
    /\ o.intent = id
    /\ c.tx = o.event.tx
    /\ c.exact
    /\ o.auth = id.auth

SettlementOf(c, o, t) ==
    [intent |-> c.intent, claim |-> IdOfClaim(c), observation |-> IdOfObservation(o),
     event |-> o.event, auth |-> o.auth, at |-> t]

=============================================================================
