---------------------------- MODULE PaymentLedger ----------------------------
(***************************************************************************)
(* SQLitePaymentStore: four append-only tables, and the three operations   *)
(* that write them.  Each operation is one SQLite transaction run without  *)
(* an await in a single-process event loop, so it is one step.  A call     *)
(* whose guard fails raises InvariantViolation and rolls back: nothing is  *)
(* written, which here is the absence of a step.                           *)
(***************************************************************************)
EXTENDS PaymentRecords

VARIABLES
    intents,        \* payment_intents
    claims,         \* facilitator_settlement_claims
    observations,   \* celo_settlement_observations
    settlements     \* payment_settlements

ledger == <<intents, claims, observations, settlements>>

TypeOK ==
    /\ intents \subseteq Intent
    /\ claims \subseteq Claim
    /\ observations \subseteq Observation
    /\ settlements \subseteq Settlement

LedgerInit ==
    /\ intents = {}
    /\ claims = {}
    /\ observations = {}
    /\ settlements = {}

-----------------------------------------------------------------------------
(* The replay rule shared by the four tables: the rows that share a key    *)
(* with a new record must be none, or one that differs in its time only.   *)

\* Mutant: the time is compared too.
SameWithTime(old, new) == old = new

SameExceptTime(old, new) == [old EXCEPT !.at = new.at] = new

\* Mutant: no replay is accepted.
AdmitsFreshOnly(rows, new) == rows = {}

Admits(rows, new) == rows = {} \/ \E old \in rows : rows = {old} /\ SameExceptTime(old, new)

\* INSERT when no row shares a key; an accepted replay writes nothing.
Insert(table, rows, new) == IF rows = {} THEN table \cup {new} ELSE table

\* Mutant: the authorization is no key.
IntentRowsById(i) == {r \in intents : IdOfIntent(r) = IdOfIntent(i)}

IntentRows(i) == {r \in intents : r.auth = i.auth \/ IdOfIntent(r) = IdOfIntent(i)}

\* Mutant: the transaction is no key.
ClaimRowsById(c) == {r \in claims : IdOfClaim(r) = IdOfClaim(c)}

ClaimRows(c) == {r \in claims : r.tx = c.tx \/ IdOfClaim(r) = IdOfClaim(c)}

ObservationRows(o) ==
    {r \in observations : \/ r.auth = o.auth
                          \/ r.event = o.event
                          \/ IdOfObservation(r) = IdOfObservation(o)}

SettlementRows(s) ==
    {r \in settlements : \/ r.intent = s.intent
                         \/ r.claim = s.claim
                         \/ r.observation = s.observation
                         \/ r.event = s.event
                         \/ [r EXCEPT !.at = s.at] = s}

-----------------------------------------------------------------------------
(* Reads. *)

HasIntent(id) == \E i \in intents : IdOfIntent(i) = id

\* claim_for_authorization returns any of these: its query has no ORDER BY.
ClaimsOf(auth) == {c \in claims : \E i \in intents : IdOfIntent(i) = c.intent /\ i.auth = auth}

-----------------------------------------------------------------------------
(* Writes. *)

AcceptsIntent(i) == Admits(IntentRows(i), i)

RecordIntent(i) ==
    /\ AcceptsIntent(i)
    /\ intents' = Insert(intents, IntentRows(i), i)
    /\ UNCHANGED <<claims, observations, settlements>>

AcceptsClaim(c) == HasIntent(c.intent) /\ Admits(ClaimRows(c), c)

RecordClaim(c) ==
    /\ AcceptsClaim(c)
    /\ claims' = Insert(claims, ClaimRows(c), c)
    /\ UNCHANGED <<intents, observations, settlements>>

\* Mutant: the durable claim is not looked up.
AcceptsUnclaimed(o, s) ==
    /\ o.intent = s.intent
    /\ IdOfObservation(o) = s.observation
    /\ o.event = s.event
    /\ o.auth = s.auth
    /\ Admits(ObservationRows(o), o)
    /\ Admits(SettlementRows(s), s)

AcceptsSettlement(o, s) ==
    /\ o.intent = s.intent
    /\ IdOfObservation(o) = s.observation
    /\ o.event = s.event
    /\ o.auth = s.auth
    /\ \E c \in claims : IdOfClaim(c) = s.claim /\ c.intent = s.intent
    /\ Admits(ObservationRows(o), o)
    /\ Admits(SettlementRows(s), s)

\* Mutant: each INSERT commits on its own, so a crash may separate them.
AdmitInTwoCommits(o, s) ==
    /\ AcceptsSettlement(o, s)
    /\ observations' = Insert(observations, ObservationRows(o), o)
    /\ \/ settlements' = Insert(settlements, SettlementRows(s), s)
       \/ UNCHANGED settlements
    /\ UNCHANGED <<intents, claims>>

\* Observation and settlement are written by one transaction.
AdmitSettlement(o, s) ==
    /\ AcceptsSettlement(o, s)
    /\ observations' = Insert(observations, ObservationRows(o), o)
    /\ settlements' = Insert(settlements, SettlementRows(s), s)
    /\ UNCHANGED <<intents, claims>>

-----------------------------------------------------------------------------
(* The ledger under any caller that builds its records with payments.py.   *)

RecordSomeIntent == \E i \in Intent : ValidAt(IdOfIntent(i), i.at) /\ RecordIntent(i)

RecordSomeClaim == \E c \in Claim : RecordClaim(c)

AdmitSomeSettlement ==
    \E c \in Claim, e \in Event, ev \in Evidence, seen \in Time, t \in Time :
        LET o == ObservationOf(c, e, ev, seen) IN
        /\ Reconciles(c.intent, c, o)
        /\ AdmitSettlement(o, SettlementOf(c, o, t))

LedgerNext == RecordSomeIntent \/ RecordSomeClaim \/ AdmitSomeSettlement

LedgerSpec == LedgerInit /\ [][LedgerNext]_ledger

-----------------------------------------------------------------------------
(* Properties. *)

\* The keys of the schema hold by the store's own checks: an authorization has
\* one intent, a transaction one claim, an authorization or an event one
\* observation, an intent, a claim or an event one settlement, and a claim
\* names a durable intent.
KeysHold ==
    /\ \A i, j \in intents : i.auth = j.auth => i = j
    /\ \A c, d \in claims : c.tx = d.tx => c = d
    /\ \A c \in claims : HasIntent(c.intent)
    /\ \A o, p \in observations : o.auth = p.auth \/ o.event = p.event => o = p
    /\ \A s, t \in settlements :
          s.intent = t.intent \/ s.claim = t.claim \/ s.event = t.event => s = t

\* A settlement is never an assertion of its own: its intent, its claim and
\* its observation are durable and agree on the intent, the authorization
\* and the transaction (the foreign keys and admit_settlement's checks).
SettlementBindsEvidence ==
    \A s \in settlements :
        /\ s.auth = s.intent.auth
        /\ HasIntent(s.intent)
        /\ \E c \in claims : /\ IdOfClaim(c) = s.claim
                             /\ c.intent = s.intent
                             /\ c.tx = s.event.tx
                             /\ c.exact
        /\ \E o \in observations : /\ IdOfObservation(o) = s.observation
                                   /\ o.intent = s.intent
                                   /\ o.auth = s.auth
                                   /\ o.event = s.event

\* "One chain effect cannot settle more than one economic intent", and one
\* authorization settles once: two settlements that share the transaction,
\* the authorization or the intent are one row, whichever log was matched.
OneEffectOneIntent ==
    \A s, t \in settlements :
        s.event.tx = t.event.tx \/ s.auth = t.auth \/ s.intent = t.intent => s = t

\* admit_settlement is atomic: no observation is durable without the
\* settlement it was admitted for.
ObservationsAreSettled ==
    \A o \in observations : \E s \in settlements :
        s.observation = IdOfObservation(o) /\ s.intent = o.intent

\* A durable record can be sent again at any time: the store finds exactly
\* the row it wrote, differing in time at most.
ReplayAccepted ==
    /\ \A i \in intents, t \in Time : AcceptsIntent([i EXCEPT !.at = t])
    /\ \A c \in claims, t \in Time : AcceptsClaim([c EXCEPT !.at = t])
    /\ \A o \in observations, s \in settlements, t \in Time :
          s.observation = IdOfObservation(o)
             => AcceptsSettlement([o EXCEPT !.at = t], [s EXCEPT !.at = t])

\* No step rewrites or removes a row: the first record of an intent, a claim,
\* an observation or a settlement stays as it was written.
AppendOnly ==
    [][/\ intents \subseteq intents'
       /\ claims \subseteq claims'
       /\ observations \subseteq observations'
       /\ settlements \subseteq settlements']_ledger

=============================================================================
