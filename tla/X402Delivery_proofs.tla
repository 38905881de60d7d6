------------------------ MODULE X402Delivery_proofs -------------------------
(* Theorems about PaymentLedger, and about X402Delivery over it, for every *)
(* value of their constants.                                               *)
EXTENDS X402Delivery, TLAPS

(***************************************************************************)
(* The inductive invariant.  OneEffectOneIntent is not inductive by        *)
(* itself: what keeps two settlements apart is that the tables beneath     *)
(* them have one row per key, and that each settlement names such rows.    *)
(***************************************************************************)
LedgerInv ==
    /\ TypeOK
    /\ KeysHold
    /\ SettlementBindsEvidence
    /\ ObservationsAreSettled

-----------------------------------------------------------------------------
(* Lemmas about the replay rule. *)

\* A row of the table that shares a key with the new record survives, and the
\* record itself is there unless a row stands for it.
LEMMA InsertGrows ==
    ASSUME NEW table, NEW rows, NEW new
    PROVE  table \subseteq Insert(table, rows, new)
BY DEF Insert

\* What Insert adds is the record, and only where no row shares a key with it.
LEMMA InsertAdds ==
    ASSUME NEW table, NEW rows, NEW new, NEW x \in Insert(table, rows, new),
           x \notin table
    PROVE  x = new /\ rows = {}
BY DEF Insert

\* Once a record is accepted, a row equal to it up to the time is durable.
LEMMA InsertRepresents ==
    ASSUME NEW table, NEW rows, NEW new, rows \subseteq table, Admits(rows, new)
    PROVE  \E x \in Insert(table, rows, new) : x = new \/ SameExceptTime(x, new)
BY DEF Insert, Admits

LEMMA IntentTyped == ASSUME NEW i \in Intent PROVE IdOfIntent(i) \in IntentId
BY DEF Intent, IdOfIntent, IntentId

LEMMA ClaimTyped == ASSUME NEW c \in Claim PROVE IdOfClaim(c) \in ClaimId
BY DEF Claim, IdOfClaim, ClaimId

LEMMA ObservationTyped ==
    ASSUME NEW c \in Claim, NEW e \in Event, NEW ev \in Evidence, NEW t \in Time
    PROVE  ObservationOf(c, e, ev, t) \in Observation
BY DEF Claim, IntentId, Observation, ObservationOf

LEMMA SettlementTyped ==
    ASSUME NEW c \in Claim, NEW o \in Observation, NEW t \in Time
    PROVE  SettlementOf(c, o, t) \in Settlement
<1>1. IdOfClaim(c) \in ClaimId
  BY ClaimTyped
<1>2. IdOfObservation(o) \in ObservationId
  BY DEF Observation, IdOfObservation, ObservationId
<1>3. c.intent \in IntentId /\ o.event \in Event /\ o.auth \in Auth
  BY DEF Claim, Observation
<1> QED
  BY <1>1, <1>2, <1>3 DEF SettlementOf, Settlement

\* Rows that are equal up to the time have the same identity.
LEMMA SameObservationId ==
    ASSUME NEW o \in Observation, NEW p \in Observation, SameExceptTime(o, p)
    PROVE  /\ IdOfObservation(o) = IdOfObservation(p)
           /\ o.intent = p.intent
           /\ o.auth = p.auth
           /\ o.event = p.event
BY DEF SameExceptTime, Observation, IdOfObservation

LEMMA SameSettlement ==
    ASSUME NEW s \in Settlement, NEW t \in Settlement, SameExceptTime(s, t)
    PROVE  s.observation = t.observation /\ s.intent = t.intent /\ s.claim = t.claim
BY DEF SameExceptTime, Settlement

-----------------------------------------------------------------------------
(* The initial state and the three operations. *)

LEMMA InitInv == LedgerInit => LedgerInv
BY DEF LedgerInit, LedgerInv, TypeOK, KeysHold, SettlementBindsEvidence,
       ObservationsAreSettled

\* A new intent shares its authorization with no row; the other tables, and
\* what they refer to, are as they were.
LEMMA RecordIntentInv ==
    ASSUME LedgerInv, NEW i \in Intent, RecordIntent(i)
    PROVE  LedgerInv'
<1>1. intents \subseteq intents'
  BY InsertGrows DEF RecordIntent
<1>2. \A x \in intents' : x \in intents \/ (x = i /\ IntentRows(i) = {})
  BY InsertAdds DEF RecordIntent
<1>3. UNCHANGED <<claims, observations, settlements>>
  BY DEF RecordIntent
<1>4. TypeOK'
  BY <1>2, <1>3 DEF LedgerInv, TypeOK
<1>5. KeysHold'
  <2>1. \A x, y \in intents' : x.auth = y.auth => x = y
    BY <1>2 DEF LedgerInv, KeysHold, IntentRows
  <2>2. \A c \in claims' : HasIntent(c.intent)'
    BY <1>1, <1>3 DEF LedgerInv, KeysHold, HasIntent
  <2> QED
    BY <2>1, <2>2, <1>3 DEF LedgerInv, KeysHold
<1>6. SettlementBindsEvidence'
  BY <1>1, <1>3 DEF LedgerInv, SettlementBindsEvidence, HasIntent
<1>7. ObservationsAreSettled'
  BY <1>3 DEF LedgerInv, ObservationsAreSettled
<1> QED
  BY <1>4, <1>5, <1>6, <1>7 DEF LedgerInv

\* A new claim shares its transaction with no row.
LEMMA RecordClaimInv ==
    ASSUME LedgerInv, NEW c \in Claim, RecordClaim(c)
    PROVE  LedgerInv'
<1>1. claims \subseteq claims'
  BY InsertGrows DEF RecordClaim
<1>2. \A x \in claims' : x \in claims \/ (x = c /\ ClaimRows(c) = {})
  BY InsertAdds DEF RecordClaim
<1>3. UNCHANGED <<intents, observations, settlements>>
  BY DEF RecordClaim
<1>4. TypeOK'
  BY <1>2, <1>3 DEF LedgerInv, TypeOK
<1>5. KeysHold'
  <2>1. \A x, y \in claims' : x.tx = y.tx => x = y
    BY <1>2 DEF LedgerInv, KeysHold, ClaimRows
  <2>2. \A x \in claims' : HasIntent(x.intent)'
    BY <1>2, <1>3 DEF LedgerInv, KeysHold, HasIntent, RecordClaim, AcceptsClaim
  <2> QED
    BY <2>1, <2>2, <1>3 DEF LedgerInv, KeysHold
<1>6. SettlementBindsEvidence'
  BY <1>1, <1>3 DEF LedgerInv, SettlementBindsEvidence, HasIntent
<1>7. ObservationsAreSettled'
  BY <1>3 DEF LedgerInv, ObservationsAreSettled
<1> QED
  BY <1>4, <1>5, <1>6, <1>7 DEF LedgerInv

\* The settlement that reconcile_settlement builds for a claim and its
\* observation: the store finds the claim, and both new rows are fresh or
\* already there.
LEMMA AdmitSettlementInv ==
    ASSUME LedgerInv, NEW c \in Claim, NEW e \in Event, NEW ev \in Evidence,
           NEW time \in Time, NEW t \in Time,
           Reconciles(c.intent, c, ObservationOf(c, e, ev, time)),
           AdmitSettlement(ObservationOf(c, e, ev, time),
                           SettlementOf(c, ObservationOf(c, e, ev, time), t))
    PROVE  LedgerInv'
<1> DEFINE o == ObservationOf(c, e, ev, time)
           s == SettlementOf(c, o, t)
<1>1. o \in Observation /\ s \in Settlement
  BY ObservationTyped, SettlementTyped
<1>2. /\ o.intent = c.intent
      /\ o.auth = c.intent.auth
      /\ o.event = e
  BY DEF ObservationOf
<1>3. /\ s.intent = c.intent
      /\ s.claim = IdOfClaim(c)
      /\ s.observation = IdOfObservation(o)
      /\ s.event = e
      /\ s.auth = c.intent.auth
  BY <1>2 DEF SettlementOf
<1>4. c.tx = e.tx /\ c.exact
  BY <1>2 DEF Reconciles
<1> HIDE DEF o, s
<1>5. /\ Admits(ObservationRows(o), o)
      /\ Admits(SettlementRows(s), s)
      /\ observations' = Insert(observations, ObservationRows(o), o)
      /\ settlements' = Insert(settlements, SettlementRows(s), s)
      /\ UNCHANGED <<intents, claims>>
  BY DEF AdmitSettlement, AcceptsSettlement, o, s
<1>6. PICK d \in claims : IdOfClaim(d) = IdOfClaim(c)
  BY <1>3 DEF AdmitSettlement, AcceptsSettlement, o, s
<1>7. d.intent = c.intent /\ d.tx = c.tx /\ d.exact = c.exact
  BY <1>6 DEF IdOfClaim
<1>8. observations \subseteq observations' /\ settlements \subseteq settlements'
  BY <1>5, InsertGrows
<1>9. \A x \in observations' : x \in observations \/ (x = o /\ ObservationRows(o) = {})
  BY <1>5, InsertAdds
<1>10. \A x \in settlements' : x \in settlements \/ (x = s /\ SettlementRows(s) = {})
  BY <1>5, InsertAdds
<1>11. TypeOK'
  BY <1>1, <1>5, <1>9, <1>10 DEF LedgerInv, TypeOK
<1>12. KeysHold'
  <2>1. \A x, y \in observations' : x.auth = y.auth \/ x.event = y.event => x = y
    BY <1>9 DEF LedgerInv, KeysHold, ObservationRows
  <2>2. \A x, y \in settlements' :
           x.intent = y.intent \/ x.claim = y.claim \/ x.event = y.event => x = y
    BY <1>10 DEF LedgerInv, KeysHold, SettlementRows
  <2> QED
    BY <2>1, <2>2, <1>5 DEF LedgerInv, KeysHold, HasIntent
<1>13. \E x \in observations' : /\ IdOfObservation(x) = IdOfObservation(o)
                                /\ x.intent = o.intent
                                /\ x.auth = o.auth
                                /\ x.event = o.event
  <2>1. PICK x \in observations' : x = o \/ SameExceptTime(x, o)
    BY <1>5, InsertRepresents DEF ObservationRows
  <2> QED
    BY <2>1, <1>1, <1>11, SameObservationId DEF TypeOK
<1>14. \E x \in settlements' : x.observation = s.observation /\ x.intent = s.intent
  <2>1. PICK x \in settlements' : x = s \/ SameExceptTime(x, s)
    BY <1>5, InsertRepresents DEF SettlementRows
  <2> QED
    BY <2>1, <1>1, <1>11, SameSettlement DEF TypeOK
<1>15. HasIntent(c.intent)
  BY <1>6, <1>7 DEF LedgerInv, KeysHold
<1>16. SettlementBindsEvidence'
  <2> SUFFICES ASSUME NEW x \in settlements'
               PROVE  /\ x.auth = x.intent.auth
                      /\ HasIntent(x.intent)'
                      /\ \E y \in claims' : /\ IdOfClaim(y) = x.claim
                                            /\ y.intent = x.intent
                                            /\ y.tx = x.event.tx
                                            /\ y.exact
                      /\ \E y \in observations' : /\ IdOfObservation(y) = x.observation
                                                  /\ y.intent = x.intent
                                                  /\ y.auth = x.auth
                                                  /\ y.event = x.event
    BY DEF SettlementBindsEvidence
  <2>1. CASE x \in settlements
    BY <2>1, <1>5, <1>8 DEF LedgerInv, SettlementBindsEvidence, HasIntent
  <2>2. CASE x = s
    BY <2>2, <1>2, <1>3, <1>4, <1>5, <1>6, <1>7, <1>13, <1>15 DEF HasIntent
  <2> QED
    BY <2>1, <2>2, <1>10
<1>17. ObservationsAreSettled'
  BY <1>2, <1>3, <1>8, <1>9, <1>14 DEF LedgerInv, ObservationsAreSettled
<1> QED
  BY <1>11, <1>12, <1>16, <1>17 DEF LedgerInv

LEMMA NextInv == LedgerInv /\ [LedgerNext]_ledger => LedgerInv'
<1> SUFFICES ASSUME LedgerInv, [LedgerNext]_ledger
             PROVE  LedgerInv'
  OBVIOUS
<1>1. CASE RecordSomeIntent
  BY <1>1, RecordIntentInv DEF RecordSomeIntent
<1>2. CASE RecordSomeClaim
  BY <1>2, RecordClaimInv DEF RecordSomeClaim
<1>3. CASE AdmitSomeSettlement
  BY <1>3, AdmitSettlementInv DEF AdmitSomeSettlement
<1>4. CASE UNCHANGED ledger
  BY <1>4 DEF ledger, LedgerInv, TypeOK, KeysHold, SettlementBindsEvidence,
              ObservationsAreSettled, HasIntent
<1> QED
  BY <1>1, <1>2, <1>3, <1>4 DEF LedgerNext

-----------------------------------------------------------------------------
(* Theorems. *)

\* The invariant holds throughout: SQLitePaymentStore keeps its tables keyed,
\* bound to one another and settled together, whatever its callers send.
THEOREM LedgerInvariant == LedgerSpec => []LedgerInv
BY InitInv, NextInv, PTL DEF LedgerSpec

\* The four tables hold records of their types and nothing else.
THEOREM TypeCorrect == LedgerSpec => []TypeOK
<1>1. LedgerInv => TypeOK
  BY DEF LedgerInv
<1> QED
  BY <1>1, LedgerInvariant, PTL

\* One row per key: an authorization, a transaction or an event names one record.
THEOREM KeysAreUnique == LedgerSpec => []KeysHold
<1>1. LedgerInv => KeysHold
  BY DEF LedgerInv
<1> QED
  BY <1>1, LedgerInvariant, PTL

\* Every settlement's intent, claim and observation are durable and agree.
THEOREM SettlementsAreBound == LedgerSpec => []SettlementBindsEvidence
<1>1. LedgerInv => SettlementBindsEvidence
  BY DEF LedgerInv
<1> QED
  BY <1>1, LedgerInvariant, PTL

\* admit_settlement never leaves an observation without its settlement.
THEOREM AdmissionIsAtomic == LedgerSpec => []ObservationsAreSettled
<1>1. LedgerInv => ObservationsAreSettled
  BY DEF LedgerInv
<1> QED
  BY <1>1, LedgerInvariant, PTL

\* The binding and the keys leave no room for a second settlement: two that
\* share a transaction share its one claim, two that share an authorization
\* share its one intent.
LEMMA KeysGiveOneEffect == LedgerInv => OneEffectOneIntent
<1> SUFFICES ASSUME LedgerInv, NEW s \in settlements, NEW t \in settlements,
                    s.event.tx = t.event.tx \/ s.auth = t.auth \/ s.intent = t.intent
             PROVE  s = t
  BY DEF OneEffectOneIntent
<1>1. CASE s.event.tx = t.event.tx
  <2>1. PICK c \in claims : IdOfClaim(c) = s.claim /\ c.tx = s.event.tx
    BY DEF LedgerInv, SettlementBindsEvidence
  <2>2. PICK d \in claims : IdOfClaim(d) = t.claim /\ d.tx = t.event.tx
    BY DEF LedgerInv, SettlementBindsEvidence
  <2>3. c = d
    BY <1>1, <2>1, <2>2 DEF LedgerInv, KeysHold
  <2> QED
    BY <2>1, <2>2, <2>3 DEF LedgerInv, KeysHold
<1>2. CASE s.auth = t.auth
  <2>1. s.auth = s.intent.auth /\ t.auth = t.intent.auth
    BY DEF LedgerInv, SettlementBindsEvidence
  <2>2. PICK i \in intents : IdOfIntent(i) = s.intent
    BY DEF LedgerInv, SettlementBindsEvidence, HasIntent
  <2>3. PICK j \in intents : IdOfIntent(j) = t.intent
    BY DEF LedgerInv, SettlementBindsEvidence, HasIntent
  <2>4. i.auth = s.auth /\ j.auth = t.auth
    BY <2>1, <2>2, <2>3 DEF IdOfIntent
  <2>5. i = j
    BY <1>2, <2>4 DEF LedgerInv, KeysHold
  <2> QED
    BY <2>2, <2>3, <2>5 DEF LedgerInv, KeysHold
<1>3. CASE s.intent = t.intent
  BY <1>3 DEF LedgerInv, KeysHold
<1> QED
  BY <1>1, <1>2, <1>3

\* CONSTITUTION, Economic truth 5: one chain effect settles one intent.
THEOREM OneEffect == LedgerSpec => []OneEffectOneIntent
BY LedgerInvariant, KeysGiveOneEffect, PTL

\* No operation rewrites or removes a row.
THEOREM LedgerIsAppendOnly == LedgerSpec => AppendOnly
<1>1. [LedgerNext]_ledger => [/\ intents \subseteq intents'
                              /\ claims \subseteq claims'
                              /\ observations \subseteq observations'
                              /\ settlements \subseteq settlements']_ledger
  BY InsertGrows DEF LedgerNext, RecordSomeIntent, RecordIntent, RecordSomeClaim,
     RecordClaim, AdmitSomeSettlement, AdmitSettlement, ledger
<1> QED
  BY <1>1, PTL DEF LedgerSpec, AppendOnly

-----------------------------------------------------------------------------
(* Replays: the keys make the row found for a durable record the record. *)

LEMMA IntentReplays ==
    ASSUME LedgerInv, NEW i \in intents, NEW t \in Time
    PROVE  AcceptsIntent([i EXCEPT !.at = t])
<1> DEFINE j == [i EXCEPT !.at = t]
<1>1. i \in Intent /\ intents \subseteq Intent
  BY DEF LedgerInv, TypeOK
<1>2. j.auth = i.auth /\ IdOfIntent(j) = IdOfIntent(i) /\ SameExceptTime(i, j)
  BY <1>1 DEF Intent, IdOfIntent, SameExceptTime
<1> HIDE DEF j
<1>3. \A r \in intents : IdOfIntent(r) = IdOfIntent(i) => r.auth = i.auth
  BY DEF IdOfIntent
<1>4. IntentRows(j) = {i}
  BY <1>2, <1>3 DEF IntentRows, LedgerInv, KeysHold
<1>5. AcceptsIntent(j)
  BY <1>2, <1>4 DEF AcceptsIntent, Admits
<1> QED
  BY <1>5 DEF j

LEMMA ClaimReplays ==
    ASSUME LedgerInv, NEW c \in claims, NEW t \in Time
    PROVE  AcceptsClaim([c EXCEPT !.at = t])
<1> DEFINE d == [c EXCEPT !.at = t]
<1>1. c \in Claim
  BY DEF LedgerInv, TypeOK
<1>2. /\ d.tx = c.tx /\ d.intent = c.intent
      /\ IdOfClaim(d) = IdOfClaim(c) /\ SameExceptTime(c, d)
  BY <1>1 DEF Claim, IdOfClaim, SameExceptTime
<1> HIDE DEF d
<1>3. \A r \in claims : IdOfClaim(r) = IdOfClaim(c) => r.tx = c.tx
  BY DEF IdOfClaim
<1>4. ClaimRows(d) = {c}
  BY <1>2, <1>3 DEF ClaimRows, LedgerInv, KeysHold
<1>5. HasIntent(d.intent)
  BY <1>2 DEF LedgerInv, KeysHold
<1>6. AcceptsClaim(d)
  BY <1>2, <1>4, <1>5 DEF AcceptsClaim, Admits
<1> QED
  BY <1>6 DEF d

\* The observation is the one its settlement was admitted with, so both are
\* found, alone, and nothing else shares a key with them.
LEMMA AdmissionReplays ==
    ASSUME LedgerInv, NEW o \in observations, NEW s \in settlements, NEW t \in Time,
           s.observation = IdOfObservation(o)
    PROVE  AcceptsSettlement([o EXCEPT !.at = t], [s EXCEPT !.at = t])
<1> DEFINE p == [o EXCEPT !.at = t]
           u == [s EXCEPT !.at = t]
<1>1. o \in Observation /\ s \in Settlement
  BY DEF LedgerInv, TypeOK
<1>2. /\ p.intent = o.intent /\ p.auth = o.auth /\ p.event = o.event
      /\ IdOfObservation(p) = IdOfObservation(o) /\ SameExceptTime(o, p)
  BY <1>1 DEF Observation, IdOfObservation, SameExceptTime
<1>3. /\ u.intent = s.intent /\ u.claim = s.claim /\ u.observation = s.observation
      /\ u.event = s.event /\ u.auth = s.auth /\ SameExceptTime(s, u)
  BY <1>1 DEF Settlement, SameExceptTime
<1>4. \A r \in settlements : [r EXCEPT !.at = u.at] = u => r.intent = s.intent
  <2>1. \A r \in settlements : r \in Settlement
    BY DEF LedgerInv, TypeOK
  <2> QED
    BY <1>1, <2>1 DEF Settlement
<1> HIDE DEF p, u
<1>5. o.event = s.event /\ o.auth = s.auth /\ o.intent = s.intent
  <2>1. PICK x \in observations : /\ IdOfObservation(x) = s.observation
                                  /\ x.intent = s.intent
                                  /\ x.auth = s.auth
                                  /\ x.event = s.event
    BY DEF LedgerInv, SettlementBindsEvidence
  <2>2. x.event = o.event
    BY <2>1 DEF IdOfObservation
  <2> QED
    BY <2>1, <2>2 DEF LedgerInv, KeysHold
<1>6. ObservationRows(p) = {o}
  <2>1. \A r \in observations : IdOfObservation(r) = IdOfObservation(p) => r.event = o.event
    BY <1>2 DEF IdOfObservation
  <2> QED
    BY <1>2, <2>1 DEF ObservationRows, LedgerInv, KeysHold
<1>7. SettlementRows(u) = {s}
  <2>1. ASSUME NEW r \in settlements PROVE r.observation.event = r.event
    <3>1. PICK x \in observations : IdOfObservation(x) = r.observation /\ x.event = r.event
      BY DEF LedgerInv, SettlementBindsEvidence
    <3> QED
      BY <3>1 DEF IdOfObservation
  <2> QED
    BY <1>3, <1>4, <2>1 DEF SettlementRows, LedgerInv, KeysHold
<1>8. \E c \in claims : IdOfClaim(c) = u.claim /\ c.intent = u.intent
  BY <1>3 DEF LedgerInv, SettlementBindsEvidence
<1>9. AcceptsSettlement(p, u)
  BY <1>2, <1>3, <1>5, <1>6, <1>7, <1>8 DEF AcceptsSettlement, Admits
<1> QED
  BY <1>9 DEF p, u

\* A durable record sent again at any time is accepted and changes nothing.
THEOREM ReplaysAreAccepted == LedgerSpec => []ReplayAccepted
<1>1. LedgerInv => ReplayAccepted
  BY IntentReplays, ClaimReplays, AdmissionReplays DEF ReplayAccepted
<1> QED
  BY <1>1, LedgerInvariant, PTL

-----------------------------------------------------------------------------
(* The inductive invariant. *)

\* The transfer that request q has observed for its claim.
Sighted(q) ==
    \E t \in chain : /\ t.event.tx = claim[q].tx
                     /\ t.auth = claim[q].intent.auth
                     /\ t.before = claim[q].intent.before
                     /\ seen[q] <= head
                     /\ seen[q] - t.block + 1 >= MinConf

\* What holds of one request: it keeps nothing of an observation between two
\* hooks, what it admits it has sighted, what it releases is settled, and what
\* it asked of the facilitator is intended.
RequestInv(q) ==
    /\ pc[q] # "idle" => request[q] \in IntentId
    /\ pc[q] = "idle" => job[q] = NotCalled
    /\ pc[q] \in {"idle", "verifying", "settling"} => seen[q] = None
    /\ pc[q] \in Observing => claim[q] \in Claim
    /\ pc[q] \in Observing /\ seen[q] # None
          => Sighted(q) /\ claim[q].intent = request[q]
    /\ pc[q] \in {"releasing", "delivered"} => Settled(request[q])
    /\ job[q] # NotCalled => HasIntent(request[q])

\* A transaction is mined once, a nonce is consumed once, for a durable intent.
ChainInv ==
    /\ \A t, u \in chain : t.event.tx = u.event.tx \/ t.auth = u.auth => t = u
    /\ \A t \in chain : \E i \in intents : i.auth = t.auth /\ i.before = t.before

\* Every observation saw a transfer of its authorization, deep enough.
ObservationsOnChain ==
    \A o \in observations : \E t \in chain :
        /\ t.event = o.event
        /\ t.auth = o.auth
        /\ t.before = o.intent.before
        /\ o.evidence <= head
        /\ o.evidence - t.block + 1 >= MinConf

DeliveryInv ==
    /\ DeliveryTypeOK
    /\ LedgerInv
    /\ \A q \in Req : RequestInv(q)
    /\ ChainInv
    /\ ObservationsOnChain

-----------------------------------------------------------------------------
(* Nothing that one request relies on is taken away by another. *)

Grows ==
    /\ intents \subseteq intents'
    /\ settlements \subseteq settlements'
    /\ chain \subseteq chain'
    /\ head \in Nat /\ head' \in Nat /\ head <= head'

\* The state of request q, as it was.
Untouched(q) ==
    /\ pc'[q] = pc[q]
    /\ request'[q] = request[q]
    /\ claim'[q] = claim[q]
    /\ seen'[q] = seen[q]
    /\ job'[q] = job[q]

LEMMA HeadIsNat == DeliveryTypeOK => head \in Nat /\ Evidence \subseteq Nat /\ MinConf \in Nat
BY HeadsAreEvidence, Policy DEF DeliveryTypeOK

LEMMA IntentsStay ==
    ASSUME Grows, NEW id, HasIntent(id)
    PROVE  HasIntent(id)'
BY DEF Grows, HasIntent

LEMMA SettledStays ==
    ASSUME Grows, NEW id, Settled(id)
    PROVE  Settled(id)'
BY DEF Grows, Settled

LEMMA SightedStays ==
    ASSUME Grows, DeliveryTypeOK, NEW q \in Req, Sighted(q), seen[q] \in Evidence,
           claim'[q] = claim[q], seen'[q] = seen[q]
    PROVE  Sighted(q)'
BY HeadIsNat DEF Grows, Sighted

LEMMA OthersKeep ==
    ASSUME DeliveryTypeOK, Grows, NEW q \in Req, RequestInv(q), Untouched(q)
    PROVE  RequestInv(q)'
<1>1. seen[q] # None => seen[q] \in Evidence
  BY DEF DeliveryTypeOK
<1>2. pc[q] \in Observing /\ seen[q] # None => Sighted(q)'
  BY <1>1, SightedStays DEF RequestInv, Untouched
<1>3. pc[q] \in {"releasing", "delivered"} => Settled(request[q])'
  BY SettledStays DEF RequestInv, Untouched, Settled, Grows
<1>4. job[q] # NotCalled => HasIntent(request[q])'
  BY DEF RequestInv, Untouched, HasIntent, Grows
<1> QED
  BY <1>2, <1>3, <1>4 DEF RequestInv, Untouched, NotCalled

-----------------------------------------------------------------------------
LEMMA DeliveryInit == Init => DeliveryInv
<1> SUFFICES ASSUME Init
             PROVE  DeliveryInv
  OBVIOUS
<1>1. LedgerInv
  BY InitInv DEF Init
<1>2. DeliveryTypeOK
  BY <1>1, ClockReadings, HeadsAreEvidence, Policy
     DEF Init, DeliveryTypeOK, LedgerInv, Job
<1>3. \A q \in Req : RequestInv(q)
  BY DEF Init, RequestInv, Observing
<1>4. ChainInv /\ ObservationsOnChain
  BY DEF Init, LedgerInit, ChainInv, ObservationsOnChain
<1> QED
  BY <1>1, <1>2, <1>3, <1>4 DEF DeliveryInv

-----------------------------------------------------------------------------
(* Steps that write neither the ledger nor the chain. *)

LEMMA QuietGrows ==
    ASSUME DeliveryInv, UNCHANGED <<ledger, world>>
    PROVE  /\ Grows
           /\ LedgerInv'
           /\ ChainInv'
           /\ ObservationsOnChain'
<1>1. UNCHANGED ledger /\ UNCHANGED <<intents, observations, settlements, chain, head>>
  BY DEF ledger, world
<1>2. LedgerInv'
  BY <1>1, NextInv DEF DeliveryInv
<1>3. Grows
  BY <1>1, HeadIsNat DEF Grows, DeliveryInv
<1>4. ChainInv' /\ ObservationsOnChain'
  BY <1>1 DEF DeliveryInv, ChainInv, ObservationsOnChain
<1> QED
  BY <1>2, <1>3, <1>4

\* What is left to show of such a step: its own request.
LEMMA QuietStep ==
    ASSUME DeliveryInv, NEW q \in Req, UNCHANGED <<ledger, world>>,
           \A p \in Req \ {q} : Untouched(p),
           pc' \in [Req -> {"idle"} \cup Active \cup Ended],
           request' \in [Req -> IntentId \cup {None}],
           claim' \in [Req -> Claim \cup {None}],
           seen' \in [Req -> Evidence \cup {None}],
           job' \in [Req -> Job],
           RequestInv(q)'
    PROVE  DeliveryInv'
<1>1. DeliveryTypeOK'
  BY DEF DeliveryInv, DeliveryTypeOK, TypeOK, ledger, world
<1>2. \A p \in Req : RequestInv(p)'
  BY QuietGrows, OthersKeep DEF DeliveryInv
<1> QED
  BY <1>1, <1>2, QuietGrows DEF DeliveryInv

LEMMA ArriveInv ==
    ASSUME DeliveryInv, NEW q \in Req, Arrive(q)
    PROVE  DeliveryInv'
<1>1. PICK id \in IntentId : request' = [request EXCEPT ![q] = id]
  BY DEF Arrive
<1>2. /\ pc[q] = "idle" /\ pc' = [pc EXCEPT ![q] = "verifying"]
      /\ UNCHANGED <<claim, seen, job>>
      /\ UNCHANGED <<ledger, world>>
  BY DEF Arrive
<1>3. DeliveryTypeOK /\ RequestInv(q)
  BY DEF DeliveryInv
<1>4. RequestInv(q)'
  BY <1>1, <1>2, <1>3 DEF RequestInv, DeliveryTypeOK, Observing
<1> QED
  BY <1>1, <1>2, <1>3, <1>4, QuietStep DEF DeliveryTypeOK, Untouched, Active

\* A step that only moves its request to another place, where less is asked
\* of it, or where it hands on what it has.
LEMMA MoveInv ==
    ASSUME DeliveryInv, NEW q \in Req, NEW place \in Active \cup Ended,
           pc[q] # "idle", pc' = [pc EXCEPT ![q] = place],
           UNCHANGED <<request, claim, seen, job>>, UNCHANGED <<ledger, world>>,
           place \in {"releasing", "delivered"} => Settled(request[q]),
           place \notin {"verifying", "settling"} \cup Observing
    PROVE  DeliveryInv'
<1>1. DeliveryTypeOK /\ RequestInv(q)
  BY DEF DeliveryInv
<1>2. pc'[q] = place
  BY <1>1 DEF DeliveryTypeOK
<1>3. Settled(request[q])' <=> Settled(request[q])
  BY DEF Settled, ledger
<1>4. HasIntent(request[q])' <=> HasIntent(request[q])
  BY DEF HasIntent, ledger
<1>5. RequestInv(q)'
  BY <1>1, <1>2, <1>3, <1>4 DEF RequestInv, Active, Ended, Observing, NotCalled
<1> QED
  BY <1>1, <1>5, QuietStep DEF DeliveryTypeOK, Untouched

LEMMA VerifyFailsInv ==
    ASSUME DeliveryInv, NEW q \in Req, VerifyFails(q)
    PROVE  DeliveryInv'
<1>1. DeliveryTypeOK /\ RequestInv(q) /\ pc[q] = "verifying" /\ TypeOK
  BY DEF DeliveryInv, DeliveryTypeOK, VerifyFails
<1>2. UNCHANGED <<ledger, world>> /\ UNCHANGED <<request, seen, job>>
  BY DEF VerifyFails
<1>3. CASE pc' = [pc EXCEPT ![q] = "refused"] /\ UNCHANGED claim
  BY <1>1, <1>2, <1>3, MoveInv DEF Ended, Observing
<1>4. CASE \E c \in Recoverable(q) : /\ claim' = [claim EXCEPT ![q] = c]
                                     /\ pc' = [pc EXCEPT ![q] = "recovering"]
  <2>1. PICK c \in Claim : /\ claim' = [claim EXCEPT ![q] = c]
                           /\ pc' = [pc EXCEPT ![q] = "recovering"]
    BY <1>1, <1>4 DEF Recoverable, ClaimsOf, TypeOK
  <2>2. HasIntent(request[q])' <=> HasIntent(request[q])
    BY <1>2 DEF HasIntent, ledger
  <2>3. RequestInv(q)'
    BY <1>1, <1>2, <2>1, <2>2 DEF RequestInv, DeliveryTypeOK, NotCalled
  <2> QED
    BY <1>1, <1>2, <2>1, <2>3, QuietStep DEF DeliveryTypeOK, Untouched, Active, Observing
<1> QED
  BY <1>3, <1>4 DEF VerifyFails

\* A facilitator's answer, whatever it says.
LEMMA AnswerInv ==
    ASSUME DeliveryInv, NEW q \in Req, NEW answer \in Job,
           job[q] = Calling, job' = [job EXCEPT ![q] = answer],
           UNCHANGED locals, UNCHANGED <<ledger, world>>
    PROVE  DeliveryInv'
<1>1. DeliveryTypeOK /\ RequestInv(q)
  BY DEF DeliveryInv
<1>2. UNCHANGED <<pc, request, claim, seen, chain, head>>
  BY DEF locals, world
<1>3. job[q] # NotCalled
  BY DEF Calling, NotCalled
<1>4. Settled(request[q])' <=> Settled(request[q])
  BY <1>2 DEF Settled, ledger
<1>5. HasIntent(request[q])' <=> HasIntent(request[q])
  BY <1>2 DEF HasIntent, ledger
<1>6. Sighted(q)' <=> Sighted(q)
  BY <1>2 DEF Sighted
<1>7. RequestInv(q)'
  BY <1>1, <1>2, <1>3, <1>4, <1>5, <1>6 DEF RequestInv
<1> QED
  BY <1>1, <1>2, <1>7, QuietStep DEF DeliveryTypeOK, Untouched

LEMMA ReadChainInv ==
    ASSUME DeliveryInv, NEW q \in Req, ReadChain(q)
    PROVE  DeliveryInv'
<1>1. DeliveryTypeOK /\ RequestInv(q) /\ pc[q] \in Observing
  BY DEF DeliveryInv, ReadChain
<1>2. /\ seen' = [seen EXCEPT ![q] = head]
      /\ UNCHANGED <<pc, request, claim, job>>
      /\ UNCHANGED <<ledger, world>>
  BY DEF ReadChain
<1>3. PICK t \in chain : /\ t.event.tx = claim[q].tx
                         /\ t.auth = claim[q].intent.auth
                         /\ t.before = claim[q].intent.before
                         /\ head - t.block + 1 >= MinConf
  BY DEF ReadChain, Confirmed
<1>4. UNCHANGED <<chain, head>> /\ head \in Nat /\ head \in Evidence
  BY <1>1, <1>2, HeadIsNat, HeadsAreEvidence DEF world, DeliveryTypeOK
<1>5. Sighted(q)' /\ claim[q].intent = request[q]
  BY <1>1, <1>2, <1>3, <1>4 DEF Sighted, ReadChain, DeliveryTypeOK
<1>6. HasIntent(request[q])' <=> HasIntent(request[q])
  BY <1>2 DEF HasIntent, ledger
<1>7. RequestInv(q)'
  BY <1>1, <1>2, <1>5, <1>6 DEF RequestInv, Observing
<1> QED
  BY <1>1, <1>2, <1>4, <1>7, QuietStep DEF DeliveryTypeOK, Untouched

-----------------------------------------------------------------------------
(* Steps that write the ledger. *)

\* What is left to show of a step of request q that writes the ledger.
LEMMA WritingStep ==
    ASSUME DeliveryInv, NEW q \in Req, UNCHANGED world, LedgerInv',
           intents \subseteq intents', settlements \subseteq settlements',
           \A p \in Req \ {q} : Untouched(p),
           pc' \in [Req -> {"idle"} \cup Active \cup Ended],
           request' = request,
           claim' \in [Req -> Claim \cup {None}],
           seen' \in [Req -> Evidence \cup {None}],
           job' \in [Req -> Job],
           RequestInv(q)', ObservationsOnChain'
    PROVE  DeliveryInv'
<1>1. DeliveryTypeOK'
  BY DEF DeliveryInv, DeliveryTypeOK, LedgerInv, world
<1>2. Grows
  BY HeadIsNat DEF Grows, DeliveryInv, world
<1>3. \A p \in Req : RequestInv(p)'
  BY <1>2, OthersKeep DEF DeliveryInv
<1>4. ChainInv'
  BY DEF DeliveryInv, ChainInv, world
<1> QED
  BY <1>1, <1>3, <1>4 DEF DeliveryInv

\* An accepted intent is durable afterwards, as this or as an earlier record.
LEMMA IntentIsDurable ==
    ASSUME TypeOK, NEW id \in IntentId, clock \in Time, RecordIntent(IntentAt(id, clock))
    PROVE  HasIntent(id)'
<1> DEFINE i == IntentAt(id, clock)
<1>1. i \in Intent /\ IdOfIntent(i) = id
  BY DEF IntentAt, Intent, IntentId, IdOfIntent
<1> HIDE DEF i
<1>2. PICK x \in intents' : x = i \/ SameExceptTime(x, i)
  BY InsertRepresents DEF RecordIntent, AcceptsIntent, IntentRows, i
<1>3. x \in Intent
  BY <1>1, InsertAdds DEF RecordIntent, TypeOK, i
<1>4. IdOfIntent(x) = id
  BY <1>1, <1>2, <1>3 DEF SameExceptTime, Intent, IdOfIntent
<1> QED
  BY <1>4 DEF HasIntent

LEMMA BeforeSettleInv ==
    ASSUME DeliveryInv, NEW q \in Req, BeforeSettle(q)
    PROVE  DeliveryInv'
<1>1. /\ DeliveryTypeOK /\ TypeOK /\ RequestInv(q)
      /\ pc[q] = "serving" /\ request[q] \in IntentId /\ clock \in Time
  BY DEF DeliveryInv, DeliveryTypeOK, BeforeSettle, RequestInv
<1>2. /\ RecordIntent(IntentAt(request[q], clock))
      /\ seen' = [seen EXCEPT ![q] = None]
      /\ request' = request
      /\ UNCHANGED world
  BY DEF BeforeSettle
<1>3. HasIntent(request[q])'
  BY <1>1, <1>2, IntentIsDurable DEF HasIntent
<1>4. IntentAt(request[q], clock) \in Intent
  BY <1>1 DEF IntentAt, Intent, IntentId
<1>5. LedgerInv'
  BY <1>2, <1>4, RecordIntentInv DEF DeliveryInv
<1>6. /\ intents \subseteq intents'
      /\ UNCHANGED <<observations, settlements>>
  BY <1>2, InsertGrows DEF RecordIntent
<1>7. ObservationsOnChain'
  BY <1>2, <1>6 DEF DeliveryInv, ObservationsOnChain, world
<1>8. CASE pc' = [pc EXCEPT ![q] = "settling"] /\ job' = [job EXCEPT ![q] = Calling]
           /\ UNCHANGED claim
  <2>1. RequestInv(q)'
    BY <1>1, <1>2, <1>3, <1>8 DEF RequestInv, DeliveryTypeOK, Observing
  <2> QED
    BY <1>1, <1>2, <1>5, <1>6, <1>7, <1>8, <2>1, WritingStep
       DEF DeliveryTypeOK, Untouched, Active, Job
<1>9. CASE \E c \in ClaimsOf(request[q].auth) :
             /\ pc' = [pc EXCEPT ![q] = "resuming"]
             /\ claim' = [claim EXCEPT ![q] = c]
             /\ UNCHANGED job
  <2>1. PICK c \in Claim : /\ pc' = [pc EXCEPT ![q] = "resuming"]
                           /\ claim' = [claim EXCEPT ![q] = c]
                           /\ UNCHANGED job
    BY <1>1, <1>9 DEF ClaimsOf, TypeOK
  <2>2. RequestInv(q)'
    BY <1>1, <1>2, <1>3, <2>1 DEF RequestInv, DeliveryTypeOK
  <2> QED
    BY <1>1, <1>2, <1>5, <1>6, <1>7, <2>1, <2>2, WritingStep
       DEF DeliveryTypeOK, Untouched, Active, Observing
<1> QED
  BY <1>8, <1>9 DEF BeforeSettle

LEMMA ClaimFromTyped ==
    ASSUME DeliveryTypeOK, NEW q \in Req, NEW i \in intents, job[q].call = "success"
    PROVE  ClaimFrom(q, i) \in Claim
<1>1. job[q].response.tx \in Tx /\ job[q].response.exact \in BOOLEAN
  BY DEF DeliveryTypeOK, Job, NotCalled, Calling, Failed, Response
<1>2. IdOfIntent(i) \in IntentId /\ clock \in Time
  BY IntentTyped DEF DeliveryTypeOK, TypeOK
<1> QED
  BY <1>1, <1>2 DEF ClaimFrom, ClaimAt, Claim

LEMMA AfterSettleInv ==
    ASSUME DeliveryInv, NEW q \in Req, AfterSettle(q)
    PROVE  DeliveryInv'
<1>1. /\ DeliveryTypeOK /\ TypeOK /\ RequestInv(q)
      /\ pc[q] = "settling" /\ job[q].call = "success" /\ clock \in Time
      /\ UNCHANGED <<request, seen, job>> /\ UNCHANGED world
  BY DEF DeliveryInv, DeliveryTypeOK, AfterSettle
<1>2. PICK i \in intents :
        /\ i.auth = request[q].auth
        /\ \/ /\ RecordClaim(ClaimFrom(q, i))
              /\ claim' = [claim EXCEPT ![q] = ClaimFrom(q, i)]
              /\ pc' = [pc EXCEPT ![q] = "admitting"]
           \/ /\ pc' = [pc EXCEPT ![q] = "refused"]
              /\ UNCHANGED <<ledger, claim>>
  BY DEF AfterSettle
<1>3. ClaimFrom(q, i) \in Claim
  BY <1>1, ClaimFromTyped
<1>4. CASE /\ RecordClaim(ClaimFrom(q, i))
           /\ claim' = [claim EXCEPT ![q] = ClaimFrom(q, i)]
           /\ pc' = [pc EXCEPT ![q] = "admitting"]
  <2>1. LedgerInv'
    BY <1>3, <1>4, RecordClaimInv DEF DeliveryInv
  <2>2. UNCHANGED <<intents, observations, settlements>>
    BY <1>4 DEF RecordClaim
  <2>3. ObservationsOnChain'
    BY <1>1, <2>2 DEF DeliveryInv, ObservationsOnChain, world
  <2>4. HasIntent(request[q])' <=> HasIntent(request[q])
    BY <1>1, <2>2 DEF HasIntent
  <2>5. RequestInv(q)'
    BY <1>1, <1>3, <1>4, <2>4 DEF RequestInv, DeliveryTypeOK
  <2> QED
    BY <1>1, <1>3, <1>4, <2>1, <2>2, <2>3, <2>5, WritingStep
       DEF DeliveryTypeOK, Untouched, Active, Observing
<1>5. CASE pc' = [pc EXCEPT ![q] = "refused"] /\ UNCHANGED <<ledger, claim>>
  BY <1>1, <1>5, MoveInv DEF Ended, Observing
<1> QED
  BY <1>2, <1>4, <1>5

\* An admitted settlement is durable afterwards, as this or as an earlier row.
LEMMA SettlementIsDurable ==
    ASSUME TypeOK, NEW o \in Observation, NEW s \in Settlement, AdmitSettlement(o, s)
    PROVE  /\ Settled(s.intent)'
           /\ \E x \in settlements' : x.intent = s.intent /\ x.claim = s.claim
<1>1. PICK x \in settlements' : x = s \/ SameExceptTime(x, s)
  BY InsertRepresents DEF AdmitSettlement, AcceptsSettlement, SettlementRows
<1>2. x \in Settlement
  BY InsertAdds DEF AdmitSettlement, TypeOK
<1>3. x.intent = s.intent /\ x.claim = s.claim
  BY <1>1, <1>2, SameSettlement
<1> QED
  BY <1>3 DEF Settled

\* The event a claim is observed by is that of the sighted transfer.
LEMMA EventOfTyped ==
    ASSUME DeliveryInv, NEW q \in Req, pc[q] \in Observing, seen[q] # None
    PROVE  /\ EventOf(claim[q]) \in Event
           /\ \A t \in chain : t.event.tx = claim[q].tx => t.event = EventOf(claim[q])
<1>1. PICK t \in chain : t.event.tx = claim[q].tx
  BY DEF DeliveryInv, RequestInv, Sighted
<1>2. t.event \in Event
  BY DEF DeliveryInv, DeliveryTypeOK, Transfer
<1>3. \A u \in chain : u.event.tx = claim[q].tx => u.event = t.event
  BY <1>1 DEF DeliveryInv, ChainInv
<1>4. EventOf(claim[q]) = t.event
  <2>1. \A f \in Event :
           (\E u \in chain : u.event = f /\ f.tx = claim[q].tx) <=> f = t.event
    BY <1>1, <1>2, <1>3
  <2> QED
    BY <1>2, <2>1 DEF EventOf
<1> QED
  BY <1>2, <1>3, <1>4

LEMMA AdmitClaimInv ==
    ASSUME DeliveryInv, NEW q \in Req, AdmitClaim(q)
    PROVE  DeliveryInv'
<1> DEFINE c == claim[q]
           e == EventOf(claim[q])
           o == Observed(q)
           s == Reconciled(q)
<1>1. /\ DeliveryTypeOK /\ TypeOK /\ RequestInv(q)
      /\ pc[q] \in Observing /\ seen[q] # None
      /\ UNCHANGED <<request, claim, seen, job>> /\ UNCHANGED world
      /\ pc' = [pc EXCEPT ![q] = IF pc[q] = "recovering" THEN "serving" ELSE "releasing"]
  BY DEF DeliveryInv, DeliveryTypeOK, AdmitClaim
<1>2. /\ c \in Claim /\ seen[q] \in Evidence /\ clock \in Time
      /\ Sighted(q) /\ c.intent = request[q]
  BY <1>1 DEF RequestInv, DeliveryTypeOK
<1>3. PICK t \in chain : /\ t.event.tx = c.tx
                         /\ t.auth = c.intent.auth
                         /\ t.before = c.intent.before
                         /\ seen[q] <= head
                         /\ seen[q] - t.block + 1 >= MinConf
  BY <1>2 DEF Sighted
<1>4. e = t.event /\ e \in Event
  BY <1>1, <1>3, EventOfTyped
<1>5. /\ o = ObservationOf(c, e, seen[q], clock)
      /\ s = SettlementOf(c, ObservationOf(c, e, seen[q], clock), clock)
      /\ o \in Observation /\ s \in Settlement
  BY <1>2, <1>4, ObservationTyped, SettlementTyped DEF Observed, Reconciled
<1>6. o.auth = c.intent.auth /\ o.event = e /\ o.intent = c.intent /\ o.evidence = seen[q]
  BY <1>5 DEF ObservationOf
<1>7. s.intent = request[q]
  BY <1>2, <1>5 DEF SettlementOf
<1>8. AdmitSettlement(o, s) /\ Reconciles(c.intent, c, o)
  BY <1>2 DEF AdmitClaim, AcceptsClaimed
<1>9. LedgerInv'
  BY <1>2, <1>4, <1>5, <1>8, AdmitSettlementInv DEF DeliveryInv
<1>10. /\ UNCHANGED intents
       /\ settlements \subseteq settlements'
       /\ \A x \in observations' : x \in observations \/ x = o
  BY <1>8, InsertGrows, InsertAdds DEF AdmitSettlement
<1>11. ObservationsOnChain'
  BY <1>1, <1>3, <1>4, <1>6, <1>10 DEF DeliveryInv, ObservationsOnChain, world
<1>12. Settled(request[q])'
  BY <1>1, <1>5, <1>7, <1>8, SettlementIsDurable DEF Settled
<1>13. HasIntent(request[q])' <=> HasIntent(request[q])
  BY <1>1, <1>10 DEF HasIntent
<1>14. RequestInv(q)'
  BY <1>1, <1>12, <1>13 DEF RequestInv, DeliveryTypeOK, Observing
<1> QED
  BY <1>1, <1>9, <1>10, <1>11, <1>14, WritingStep DEF DeliveryTypeOK, Untouched, Active

-----------------------------------------------------------------------------
(* Steps of the world. *)

LEMMA SuccessIsJob ==
    ASSUME NEW tx \in Tx, NEW exact \in BOOLEAN
    PROVE  Succeeded(tx, exact) \in Job
BY DEF Job, Succeeded, Response

\* A mined transfer is the first of its transaction and of its nonce, and its
\* intent has been durable since before the settle call.
LEMMA FacilitatorSettlesInv ==
    ASSUME DeliveryInv, NEW q \in Req, FacilitatorSettles(q)
    PROVE  DeliveryInv'
<1>1. /\ DeliveryTypeOK /\ TypeOK /\ RequestInv(q)
      /\ job[q] = Calling /\ head < MaxHead /\ head' = head + 1
      /\ Consumed(request[q].auth) = {}
      /\ UNCHANGED ledger /\ UNCHANGED locals /\ UNCHANGED <<clock, restarts>>
  BY DEF DeliveryInv, DeliveryTypeOK, FacilitatorSettles
<1>2. PICK tx \in Tx, log \in LogIndex :
        /\ Mined(tx) = {}
        /\ chain' = chain \cup {[auth |-> request[q].auth, before |-> request[q].before,
                                 event |-> [tx |-> tx, log |-> log], block |-> head + 1]}
        /\ job' = [job EXCEPT ![q] = Succeeded(tx, TRUE)]
  BY DEF FacilitatorSettles
<1>3. head \in Nat /\ MaxHead \in Nat /\ head + 1 \in 1..MaxHead
  BY <1>1, HeadsAreEvidence DEF DeliveryTypeOK
<1>4. request[q] \in IntentId /\ HasIntent(request[q])
  BY <1>1 DEF RequestInv, Calling, NotCalled
<1>5. DeliveryTypeOK'
  <2>1. Succeeded(tx, TRUE) \in Job
    BY SuccessIsJob
  <2>2. chain' \subseteq Transfer
    BY <1>1, <1>2, <1>3, <1>4 DEF DeliveryTypeOK, Transfer, IntentId, Event
  <2> QED
    <3>1. job' \in [Req -> Job]
      BY <1>1, <1>2, <2>1 DEF DeliveryTypeOK
    <3>2. head' \in 0..MaxHead
      BY <1>1, <1>3
    <3> QED
      BY <1>1, <2>2, <3>1, <3>2 DEF DeliveryTypeOK, TypeOK, ledger, locals
<1>6. LedgerInv'
  BY <1>1, NextInv DEF DeliveryInv
<1>7. Grows
  BY <1>1, <1>2, <1>3 DEF Grows, ledger
<1>8. \A p \in Req \ {q} : RequestInv(p)'
  <2>1. \A p \in Req \ {q} : Untouched(p)
    BY <1>1, <1>2 DEF DeliveryTypeOK, Untouched, locals
  <2> QED
    BY <1>1, <1>7, <2>1, OthersKeep DEF DeliveryInv
<1>9. RequestInv(q)'
  <2>1. seen[q] # None => seen[q] \in Evidence
    BY <1>1 DEF DeliveryTypeOK
  <2>2. UNCHANGED <<pc, request, claim, seen>>
    BY <1>1 DEF locals
  <2>3. pc[q] \in Observing /\ seen[q] # None => Sighted(q)'
    BY <1>1, <1>7, <2>1, <2>2, SightedStays DEF RequestInv
  <2>4. Settled(request[q]) => Settled(request[q])'
    BY <1>1, <2>2 DEF Settled, ledger
  <2>5. HasIntent(request[q])'
    BY <1>1, <1>4, <2>2 DEF HasIntent, ledger
  <2>6. pc[q] # "idle"
    BY <1>1 DEF RequestInv, Calling, NotCalled
  <2> QED
    BY <1>1, <2>2, <2>3, <2>4, <2>5, <2>6 DEF RequestInv
<1>10. ChainInv'
  <2>1. \A t, u \in chain' : t.event.tx = u.event.tx \/ t.auth = u.auth => t = u
    BY <1>1, <1>2 DEF DeliveryInv, ChainInv, Mined, Consumed
  <2>2. \A t \in chain' : \E i \in intents' : i.auth = t.auth /\ i.before = t.before
    BY <1>1, <1>2, <1>4 DEF DeliveryInv, ChainInv, HasIntent, IdOfIntent, ledger
  <2> QED
    BY <2>1, <2>2 DEF ChainInv
<1>11. ObservationsOnChain'
  <2>1. \A o \in observations : o.evidence \in Nat
    BY <1>1, HeadIsNat DEF TypeOK, Observation
  <2> QED
    BY <1>1, <1>2, <1>3, <2>1 DEF DeliveryInv, ObservationsOnChain, ledger
<1> QED
  BY <1>5, <1>6, <1>8, <1>9, <1>10, <1>11 DEF DeliveryInv

LEMMA BlockInv == DeliveryInv /\ Block => DeliveryInv'
<1> SUFFICES ASSUME DeliveryInv, Block
             PROVE  DeliveryInv'
  OBVIOUS
<1>1. /\ DeliveryTypeOK /\ TypeOK /\ head \in Nat /\ MaxHead \in Nat
      /\ head < MaxHead /\ head' = head + 1
      /\ UNCHANGED ledger /\ UNCHANGED locals /\ UNCHANGED <<job, chain, clock, restarts>>
  BY HeadIsNat, HeadsAreEvidence DEF DeliveryInv, DeliveryTypeOK, Block
<1>2. DeliveryTypeOK'
  BY <1>1 DEF DeliveryTypeOK, TypeOK, ledger, locals
<1>3. Grows
  BY <1>1 DEF Grows, ledger
<1>4. \A q \in Req : RequestInv(q)'
  BY <1>1, <1>3, OthersKeep DEF DeliveryInv, Untouched, locals
<1>5. LedgerInv' /\ ChainInv'
  BY <1>1, NextInv DEF DeliveryInv, ChainInv, ledger
<1>6. ObservationsOnChain'
  <2>1. \A o \in observations : o.evidence \in Nat
    BY <1>1, HeadIsNat DEF TypeOK, Observation
  <2> QED
    BY <1>1, <2>1 DEF DeliveryInv, ObservationsOnChain, ledger
<1> QED
  BY <1>2, <1>4, <1>5, <1>6 DEF DeliveryInv

LEMMA TickInv == DeliveryInv /\ Tick => DeliveryInv'
<1> SUFFICES ASSUME DeliveryInv, Tick
             PROVE  DeliveryInv'
  OBVIOUS
<1>1. /\ DeliveryTypeOK
      /\ clock < MaxClock /\ clock' = clock + 1
      /\ UNCHANGED ledger /\ UNCHANGED locals /\ UNCHANGED <<job, chain, head, restarts>>
  BY DEF DeliveryInv, Tick
<1>2. DeliveryTypeOK'
  BY <1>1, ClockReadings DEF DeliveryTypeOK, TypeOK, ledger, locals
<1>3. Grows
  BY <1>1, HeadIsNat DEF Grows, ledger
<1>4. \A q \in Req : RequestInv(q)'
  BY <1>1, <1>3, OthersKeep DEF DeliveryInv, Untouched, locals
<1>5. LedgerInv' /\ ChainInv' /\ ObservationsOnChain'
  BY <1>1, NextInv DEF DeliveryInv, ChainInv, ObservationsOnChain, ledger
<1> QED
  BY <1>2, <1>4, <1>5 DEF DeliveryInv

\* A restart forgets requests, never rows.
LEMMA RestartInv == DeliveryInv /\ Restart => DeliveryInv'
<1> SUFFICES ASSUME DeliveryInv, Restart
             PROVE  DeliveryInv'
  OBVIOUS
<1>1. /\ DeliveryTypeOK
      /\ restarts < MaxRestarts /\ restarts' = restarts + 1
      /\ pc' = [q \in Req |-> IF pc[q] \in Active THEN "dropped" ELSE pc[q]]
      /\ UNCHANGED ledger /\ UNCHANGED <<request, claim, seen, job, chain, head, clock>>
  BY DEF DeliveryInv, Restart
<1>2. DeliveryTypeOK'
  BY <1>1, Policy DEF DeliveryTypeOK, TypeOK, ledger, Ended
<1>3. Grows
  BY <1>1, HeadIsNat DEF Grows, ledger
<1>4. ASSUME NEW q \in Req
      PROVE  RequestInv(q)'
  <2>1. CASE pc[q] \in Active
    <3>1. pc'[q] = "dropped" /\ pc[q] # "idle"
      BY <1>1, <2>1 DEF Active, Observing
    <3>2. HasIntent(request[q])' <=> HasIntent(request[q])
      BY <1>1 DEF HasIntent, ledger
    <3> QED
      BY <1>1, <3>1, <3>2 DEF DeliveryInv, RequestInv, Observing
  <2>2. CASE pc[q] \notin Active
    BY <1>1, <1>3, <2>2, OthersKeep DEF DeliveryInv, Untouched
  <2> QED
    BY <2>1, <2>2
<1>5. LedgerInv' /\ ChainInv' /\ ObservationsOnChain'
  BY <1>1, NextInv DEF DeliveryInv, ChainInv, ObservationsOnChain, ledger
<1> QED
  BY <1>2, <1>4, <1>5 DEF DeliveryInv

-----------------------------------------------------------------------------
(* Every step. *)

LEMMA HookInv ==
    ASSUME DeliveryInv, NEW q \in Req, Hook(q)
    PROVE  DeliveryInv'
<1>1. CASE VerifySucceeds(q)
  BY <1>1, MoveInv DEF VerifySucceeds, Active, Observing
<1>2. CASE VerifyFails(q)
  BY <1>2, VerifyFailsInv
<1>3. CASE HandlerDeclines(q)
  BY <1>3, MoveInv DEF HandlerDeclines, Ended, Observing
<1>4. CASE BeforeSettleRefuses(q)
  BY <1>4, MoveInv DEF BeforeSettleRefuses, Ended, Observing
<1>5. CASE BeforeSettle(q)
  BY <1>5, BeforeSettleInv
<1>6. CASE SettleUnanswered(q)
  BY <1>6, MoveInv DEF SettleUnanswered, Ended, Observing
<1>7. CASE AfterSettle(q)
  BY <1>7, AfterSettleInv
<1>8. CASE ReadChain(q)
  BY <1>8, ReadChainInv
<1>9. CASE ReadFails(q)
  BY <1>9, MoveInv DEF ReadFails, Ended, Observing
<1>10. CASE AdmitClaim(q)
  BY <1>10, AdmitClaimInv
<1>11. CASE AdmissionRefused(q)
  BY <1>11, MoveInv DEF AdmissionRefused, Ended, Observing
<1>12. CASE Release(q)
  <2>1. Settled(request[q])
    BY <1>12 DEF Release, DeliveryInv, RequestInv
  <2> QED
    BY <1>12, <2>1, MoveInv DEF Release, Ended, Observing
<1> QED
  BY <1>1, <1>2, <1>3, <1>4, <1>5, <1>6, <1>7, <1>8, <1>9, <1>10, <1>11, <1>12 DEF Hook

LEMMA FacilitatorInv ==
    ASSUME DeliveryInv, NEW q \in Req, Facilitator(q)
    PROVE  DeliveryInv'
<1>1. CASE FacilitatorSettles(q)
  BY <1>1, FacilitatorSettlesInv
<1>2. CASE FacilitatorRepeats(q)
  <2>1. PICK t \in chain : job' = [job EXCEPT ![q] = Succeeded(t.event.tx, TRUE)]
    BY <1>2 DEF FacilitatorRepeats, Consumed
  <2>2. t.event.tx \in Tx
    BY DEF DeliveryInv, DeliveryTypeOK, Transfer, Event
  <2>3. Succeeded(t.event.tx, TRUE) \in Job
    BY <2>2, SuccessIsJob
  <2> QED
    BY <1>2, <2>1, <2>3, AnswerInv DEF FacilitatorRepeats
<1>3. CASE FacilitatorMisreports(q)
  <2>1. PICK tx \in Tx, exact \in BOOLEAN : job' = [job EXCEPT ![q] = Succeeded(tx, exact)]
    BY <1>3 DEF FacilitatorMisreports
  <2>2. Succeeded(tx, exact) \in Job
    BY SuccessIsJob
  <2> QED
    BY <1>3, <2>1, <2>2, AnswerInv DEF FacilitatorMisreports
<1>4. CASE FacilitatorFails(q)
  BY <1>4, AnswerInv DEF FacilitatorFails, Job
<1> QED
  BY <1>1, <1>2, <1>3, <1>4 DEF Facilitator

LEMMA DeliveryNext == DeliveryInv /\ [Next]_vars => DeliveryInv'
<1> SUFFICES ASSUME DeliveryInv, [Next]_vars
             PROVE  DeliveryInv'
  OBVIOUS
<1>1. ASSUME NEW q \in Req, Arrive(q) \/ Hook(q) \/ Facilitator(q)
      PROVE  DeliveryInv'
  BY <1>1, ArriveInv, HookInv, FacilitatorInv
<1>2. CASE Restart
  BY <1>2, RestartInv
<1>3. CASE Block
  BY <1>3, BlockInv
<1>4. CASE Tick
  BY <1>4, TickInv
<1>5. CASE UNCHANGED vars
  <2>1. UNCHANGED <<ledger, world>> /\ UNCHANGED <<pc, request, claim, seen, job>>
    BY <1>5 DEF vars, ledger, world
  <2>2. DeliveryTypeOK'
    BY <2>1 DEF DeliveryInv, DeliveryTypeOK, TypeOK, ledger, world
  <2>3. \A q \in Req : RequestInv(q)'
    BY <2>1, QuietGrows, OthersKeep DEF DeliveryInv, Untouched
  <2> QED
    BY <2>1, <2>2, <2>3, QuietGrows DEF DeliveryInv
<1> QED
  BY <1>1, <1>2, <1>3, <1>4, <1>5 DEF Next

-----------------------------------------------------------------------------
(* Theorems. *)

\* The invariant holds throughout, under restarts, lost and false replies.
THEOREM DeliveryInvariant == Spec => []DeliveryInv
BY DeliveryInit, DeliveryNext, PTL DEF Spec

\* The state of the hooks, the facilitator and the chain is well typed.
THEOREM DeliveryTypeCorrect == Spec => []DeliveryTypeOK
<1>1. DeliveryInv => DeliveryTypeOK
  BY DEF DeliveryInv
<1> QED
  BY <1>1, DeliveryInvariant, PTL

\* A settlement's observation is durable, and every durable observation saw
\* the transfer it names.
LEMMA BoundAndObserved == DeliveryInv => SettledOnChain
<1> SUFFICES ASSUME DeliveryInv, NEW s \in settlements
             PROVE  \E o \in observations, t \in chain :
                       /\ IdOfObservation(o) = s.observation
                       /\ t.event = s.event
                       /\ t.auth = s.auth
                       /\ t.before = s.intent.before
                       /\ o.evidence <= head
                       /\ o.evidence - t.block + 1 >= MinConf
  BY DEF SettledOnChain
<1>1. PICK o \in observations : /\ IdOfObservation(o) = s.observation
                                /\ o.intent = s.intent
                                /\ o.auth = s.auth
                                /\ o.event = s.event
  BY DEF DeliveryInv, LedgerInv, SettlementBindsEvidence
<1>2. PICK t \in chain : /\ t.event = o.event
                         /\ t.auth = o.auth
                         /\ t.before = o.intent.before
                         /\ o.evidence <= head
                         /\ o.evidence - t.block + 1 >= MinConf
  BY DEF DeliveryInv, ObservationsOnChain
<1> QED
  BY <1>1, <1>2

\* CONSTITUTION, Economic truth 3: whatever the facilitator claims, what is
\* settled was observed on Celo.
THEOREM OnlyObservedSettles == Spec => []SettledOnChain
BY DeliveryInvariant, BoundAndObserved, PTL

\* No settle call and no transfer comes before its durable intent.
THEOREM IntentComesFirst == Spec => []IntentBeforeEffect
<1>1. DeliveryInv => IntentBeforeEffect
  BY DEF DeliveryInv, RequestInv, ChainInv, IntentBeforeEffect
<1> QED
  BY <1>1, DeliveryInvariant, PTL

-----------------------------------------------------------------------------
(* The hooks write the ledger as the ledger allows. *)

LEMMA StepWritesLedger == DeliveryInv /\ [Next]_vars => [LedgerNext]_ledger
<1> SUFFICES ASSUME DeliveryInv, [Next]_vars, ~UNCHANGED ledger
             PROVE  LedgerNext
  OBVIOUS
<1>1. DeliveryTypeOK /\ TypeOK /\ \A q \in Req : RequestInv(q)
  BY DEF DeliveryInv, DeliveryTypeOK
<1>2. PICK q \in Req : BeforeSettle(q) \/ AfterSettle(q) \/ AdmitClaim(q)
  BY DEF Next, Hook, Facilitator, Arrive, VerifySucceeds, VerifyFails, HandlerDeclines,
     BeforeSettleRefuses, SettleUnanswered, ReadChain, ReadFails, AdmissionRefused,
     Release, FacilitatorSettles, FacilitatorRepeats, FacilitatorMisreports,
     FacilitatorFails, Restart, Block, Tick, vars, ledger
<1>3. CASE BeforeSettle(q)
  <2>1. request[q] \in IntentId /\ clock \in Time
    BY <1>1, <1>3 DEF BeforeSettle, RequestInv, DeliveryTypeOK
  <2>2. IntentAt(request[q], clock) \in Intent
    BY <2>1 DEF IntentAt, Intent, IntentId
  <2>3. ValidAt(IdOfIntent(IntentAt(request[q], clock)), IntentAt(request[q], clock).at)
    BY <1>3 DEF BeforeSettle, AcceptsSettle, ValidAt, IdOfIntent, IntentAt
  <2> QED
    BY <1>3, <2>2, <2>3 DEF BeforeSettle, RecordSomeIntent, LedgerNext
<1>4. CASE AfterSettle(q)
  <2>1. PICK i \in intents : RecordClaim(ClaimFrom(q, i))
    BY <1>4 DEF AfterSettle
  <2>2. ClaimFrom(q, i) \in Claim
    BY <1>1, <1>4, ClaimFromTyped DEF AfterSettle
  <2> QED
    BY <2>1, <2>2 DEF RecordSomeClaim, LedgerNext
<1>5. CASE AdmitClaim(q)
  <2>1. /\ claim[q] \in Claim /\ seen[q] \in Evidence /\ clock \in Time
        /\ EventOf(claim[q]) \in Event /\ claim[q].intent = request[q]
    BY <1>5, EventOfTyped DEF AdmitClaim, DeliveryInv, DeliveryTypeOK, RequestInv
  <2>2. /\ Reconciles(claim[q].intent, claim[q], Observed(q))
        /\ AdmitSettlement(Observed(q), Reconciled(q))
    BY <1>5, <2>1 DEF AdmitClaim, AcceptsClaimed
  <2> QED
    BY <2>1, <2>2 DEF Observed, Reconciled, AdmitSomeSettlement, LedgerNext
<1> QED
  BY <1>2, <1>3, <1>4, <1>5

\* Every ledger theorem is a theorem of the running service.
THEOREM ServiceWritesLedger == Spec => WritesLedger
<1>1. Init => LedgerInit
  BY DEF Init
<1> QED
  BY <1>1, StepWritesLedger, DeliveryInvariant, PTL DEF Spec, WritesLedger, LedgerSpec

-----------------------------------------------------------------------------
(* The service implements PaidDelivery. *)

\* A step that changes none of the four sets stutters there.
LEMMA DeliveredStays ==
    ASSUME \A x \in Req : /\ pc'[x] = "delivered" <=> pc[x] = "delivered"
                          /\ pc[x] = "delivered" => request'[x] = request[x]
    PROVE  DeliveredPairs' = DeliveredPairs
<1>1. ASSUME NEW p
      PROVE  p \in DeliveredPairs' <=> p \in DeliveredPairs
  <2>1. p \in DeliveredPairs' <=> \E x \in Req : /\ pc'[x] = "delivered"
                                                 /\ p = <<request'[x].auth, request'[x].resource>>
    BY DEF DeliveredPairs
  <2>2. p \in DeliveredPairs <=> \E x \in Req : /\ pc[x] = "delivered"
                                                /\ p = <<request[x].auth, request[x].resource>>
    BY DEF DeliveredPairs
  <2>3. ASSUME p \in DeliveredPairs PROVE p \in DeliveredPairs'
    BY <2>1, <2>2, <2>3
  <2>4. ASSUME p \in DeliveredPairs' PROVE p \in DeliveredPairs
    BY <2>1, <2>2, <2>4
  <2> QED
    BY <2>3, <2>4
<1> QED
  BY <1>1

LEMMA PromiseStutters ==
    ASSUME UNCHANGED <<intents, settlements, chain>>,
           \A x \in Req : /\ pc'[x] = "delivered" <=> pc[x] = "delivered"
                          /\ pc[x] = "delivered" => request'[x] = request[x]
    PROVE  UNCHANGED Promise!vars
<1>1. BoundPairs' = BoundPairs /\ SpentAuths' = SpentAuths /\ SettledPairs' = SettledPairs
  BY DEF BoundPairs, SpentAuths, SettledPairs
<1> QED
  BY <1>1, DeliveredStays DEF Promise!vars

\* before_settle binds the authorization, or finds it bound to this resource.
LEMMA BeforeSettleBinds ==
    ASSUME DeliveryInv, NEW q \in Req, BeforeSettle(q)
    PROVE  [Promise!Next]_Promise!vars
<1> DEFINE i == IntentAt(request[q], clock)
<1>1. DeliveryTypeOK /\ request[q] \in IntentId /\ pc[q] = "serving"
  BY DEF DeliveryInv, RequestInv, BeforeSettle
<1>2. \A x \in Req : /\ pc'[x] = "delivered" <=> pc[x] = "delivered"
                     /\ pc[x] = "delivered" => request'[x] = request[x]
  BY <1>1 DEF BeforeSettle, DeliveryTypeOK
<1>3. /\ UNCHANGED <<settlements, chain>>
      /\ intents' = Insert(intents, IntentRows(i), i)
  BY DEF BeforeSettle, RecordIntent, world
<1>4. CASE IntentRows(i) # {}
  BY <1>2, <1>3, <1>4, PromiseStutters DEF Insert
<1>5. CASE IntentRows(i) = {}
  <2>1. i.auth = request[q].auth /\ i.resource = request[q].resource
    BY DEF IntentAt
  <2>2. i.auth \in Auth /\ i.resource \in Resource
    BY <1>1, <2>1 DEF IntentId
  <2> HIDE DEF i
  <2>3. \A x \in Resource : <<i.auth, x>> \notin BoundPairs
    BY <1>5 DEF IntentRows, BoundPairs
  <2>4. intents' = intents \cup {i}
    BY <1>3, <1>5 DEF Insert
  <2>5. BoundPairs' = BoundPairs \cup {<<i.auth, i.resource>>}
    BY <2>4 DEF BoundPairs
  <2>6. UNCHANGED <<SpentAuths, SettledPairs, DeliveredPairs>>
    BY <1>2, <1>3, DeliveredStays DEF SpentAuths, SettledPairs
  <2>7. Promise!Bind(i.auth, i.resource)
    BY <2>3, <2>5, <2>6 DEF Promise!Bind
  <2> QED
    BY <2>2, <2>7 DEF Promise!Next
<1> QED
  BY <1>4, <1>5

\* The token consumes an authorization that is bound.
LEMMA FacilitatorSpends ==
    ASSUME DeliveryInv, NEW q \in Req, FacilitatorSettles(q)
    PROVE  [Promise!Next]_Promise!vars
<1>1. request[q] \in IntentId /\ HasIntent(request[q])
  BY DEF DeliveryInv, RequestInv, FacilitatorSettles, Calling, NotCalled
<1>2. UNCHANGED <<intents, settlements, pc, request>>
  BY DEF FacilitatorSettles, ledger, locals
<1>3. SpentAuths' = SpentAuths \cup {request[q].auth}
  <2>1. PICK t : t.auth = request[q].auth /\ chain' = chain \cup {t}
    BY DEF FacilitatorSettles
  <2> QED
    BY <2>1 DEF SpentAuths
<1>4. request[q].auth \in Auth /\ request[q].auth \notin SpentAuths
  BY <1>1 DEF FacilitatorSettles, Consumed, SpentAuths, IntentId
<1>5. \E r \in Resource : <<request[q].auth, r>> \in BoundPairs
  BY <1>1 DEF HasIntent, IdOfIntent, IntentId, BoundPairs
<1>6. UNCHANGED <<BoundPairs, SettledPairs, DeliveredPairs>>
  BY <1>2 DEF BoundPairs, SettledPairs, DeliveredPairs
<1>7. Promise!Spend(request[q].auth)
  BY <1>3, <1>4, <1>5, <1>6 DEF Promise!Spend
<1> QED
  BY <1>4, <1>7 DEF Promise!Next

\* admit_claim settles what is bound and spent.
LEMMA AdmitClaimSettles ==
    ASSUME DeliveryInv, NEW q \in Req, AdmitClaim(q)
    PROVE  [Promise!Next]_Promise!vars
<1> DEFINE s == Reconciled(q)
<1>1. /\ DeliveryTypeOK /\ pc[q] \in Observing /\ seen[q] # None
      /\ claim[q] \in Claim /\ claim[q].intent = request[q] /\ Sighted(q)
  BY DEF DeliveryInv, RequestInv, AdmitClaim
<1>2. \A x \in Req : /\ pc'[x] = "delivered" <=> pc[x] = "delivered"
                     /\ pc[x] = "delivered" => request'[x] = request[x]
  BY <1>1 DEF AdmitClaim, DeliveryTypeOK, Observing
<1>3. /\ UNCHANGED <<intents, chain>>
      /\ settlements' = Insert(settlements, SettlementRows(s), s)
      /\ \E c \in claims : c.intent = s.intent
  BY DEF AdmitClaim, AdmitSettlement, AcceptsSettlement, world
<1>4. s.intent = request[q] /\ s.auth = request[q].auth
  BY <1>1 DEF Reconciled, Observed, ObservationOf, SettlementOf
<1>5. request[q] \in IntentId
  BY <1>1 DEF Claim
<1> HIDE DEF s
<1>6. CASE SettlementRows(s) # {}
  BY <1>2, <1>3, <1>6, PromiseStutters DEF Insert
<1>7. CASE SettlementRows(s) = {}
  <2>1. settlements' = settlements \cup {s}
    BY <1>3, <1>7 DEF Insert
  <2>2. SettledPairs' = SettledPairs \cup {<<request[q].auth, request[q].resource>>}
    BY <1>4, <2>1 DEF SettledPairs
  <2>3. request[q].auth \in SpentAuths
    BY <1>1 DEF Sighted, SpentAuths
  <2>4. HasIntent(request[q])
    BY <1>3, <1>4 DEF DeliveryInv, LedgerInv, KeysHold
  <2>5. <<request[q].auth, request[q].resource>> \in BoundPairs
    BY <2>4, <1>5 DEF HasIntent, IdOfIntent, IntentId, BoundPairs
  <2>6. UNCHANGED <<BoundPairs, SpentAuths, DeliveredPairs>>
    BY <1>2, <1>3, DeliveredStays DEF BoundPairs, SpentAuths
  <2>7. Promise!Settle(request[q].auth, request[q].resource)
    BY <2>2, <2>3, <2>5, <2>6 DEF Promise!Settle
  <2>8. request[q].auth \in Auth /\ request[q].resource \in Resource
    BY <1>5 DEF IntentId
  <2> QED
    BY <2>7, <2>8 DEF Promise!Next
<1> QED
  BY <1>6, <1>7

\* What is released is settled, for the resource it was settled for.
LEMMA ReleaseDelivers ==
    ASSUME DeliveryInv, NEW q \in Req, Release(q)
    PROVE  [Promise!Next]_Promise!vars
<1>1. DeliveryTypeOK /\ request[q] \in IntentId /\ Settled(request[q])
  BY DEF DeliveryInv, RequestInv, Release
<1>2. PICK s \in settlements : s.intent = request[q] /\ s.auth = request[q].auth
  BY <1>1 DEF Settled, DeliveryInv, LedgerInv, SettlementBindsEvidence
<1>3. <<request[q].auth, request[q].resource>> \in SettledPairs
  BY <1>2 DEF SettledPairs
<1>4. DeliveredPairs' = DeliveredPairs \cup {<<request[q].auth, request[q].resource>>}
  BY <1>1 DEF Release, DeliveryTypeOK, DeliveredPairs
<1>5. UNCHANGED <<BoundPairs, SpentAuths, SettledPairs>>
  BY DEF Release, ledger, world, BoundPairs, SpentAuths, SettledPairs
<1>6. Promise!Deliver(request[q].auth, request[q].resource)
  BY <1>3, <1>4, <1>5 DEF Promise!Deliver
<1>7. request[q].auth \in Auth /\ request[q].resource \in Resource
  BY <1>1 DEF IntentId
<1> QED
  BY <1>6, <1>7 DEF Promise!Next

LEMMA PromiseStep == DeliveryInv /\ [Next]_vars => [Promise!Next]_Promise!vars
<1> SUFFICES ASSUME DeliveryInv, [Next]_vars
             PROVE  [Promise!Next]_Promise!vars
  OBVIOUS
<1>1. DeliveryTypeOK
  BY DEF DeliveryInv
<1>2. ASSUME NEW q \in Req, BeforeSettle(q) \/ FacilitatorSettles(q) \/ AdmitClaim(q) \/ Release(q)
      PROVE  [Promise!Next]_Promise!vars
  BY <1>2, BeforeSettleBinds, FacilitatorSpends, AdmitClaimSettles, ReleaseDelivers
<1>3. ASSUME NEW q \in Req,
             \/ Arrive(q) \/ VerifySucceeds(q) \/ VerifyFails(q) \/ HandlerDeclines(q)
             \/ BeforeSettleRefuses(q) \/ SettleUnanswered(q) \/ AfterSettle(q)
             \/ ReadChain(q) \/ ReadFails(q) \/ AdmissionRefused(q)
      PROVE  [Promise!Next]_Promise!vars
  <2>1. UNCHANGED <<intents, settlements, chain>>
    BY <1>3 DEF Arrive, VerifySucceeds, VerifyFails, HandlerDeclines, BeforeSettleRefuses,
       SettleUnanswered, AfterSettle, RecordClaim, ReadChain, ReadFails, AdmissionRefused,
       ledger, world
  <2>2. \A x \in Req : /\ pc'[x] = "delivered" <=> pc[x] = "delivered"
                       /\ pc[x] = "delivered" => request'[x] = request[x]
    BY <1>1, <1>3 DEF DeliveryTypeOK, Arrive, VerifySucceeds, VerifyFails, HandlerDeclines,
       BeforeSettleRefuses, SettleUnanswered, AfterSettle, ReadChain, ReadFails,
       AdmissionRefused, Observing
  <2> QED
    BY <2>1, <2>2, PromiseStutters
<1>4. ASSUME \/ \E q \in Req : FacilitatorRepeats(q) \/ FacilitatorMisreports(q)
                               \/ FacilitatorFails(q)
             \/ Block \/ Tick \/ UNCHANGED vars
      PROVE  [Promise!Next]_Promise!vars
  BY <1>4, PromiseStutters DEF FacilitatorRepeats, FacilitatorMisreports, FacilitatorFails,
     Block, Tick, vars, ledger, locals, world
<1>5. CASE Restart
  <2>1. \A x \in Req : /\ pc'[x] = "delivered" <=> pc[x] = "delivered"
                       /\ pc[x] = "delivered" => request'[x] = request[x]
    BY <1>1, <1>5 DEF Restart, DeliveryTypeOK, Active, Observing
  <2> QED
    BY <1>5, <2>1, PromiseStutters DEF Restart, ledger
<1> QED
  BY <1>2, <1>3, <1>4, <1>5 DEF Next, Hook, Facilitator

\* The paid routes implement PaidDelivery: an authorization is bound to one
\* resource before it is spent, and only that resource is ever delivered for it.
THEOREM ServiceKeepsPromise == Spec => KeepsPromise
<1>1. Init => Promise!Init
  BY DEF Init, LedgerInit, Promise!Init, BoundPairs, SpentAuths, SettledPairs, DeliveredPairs
<1> QED
  BY <1>1, PromiseStep, DeliveryInvariant, PTL DEF Spec, KeepsPromise, Promise!Spec

-----------------------------------------------------------------------------
(***************************************************************************)
(* What the ledger may refuse.  A request that has observed Celo holds a   *)
(* claim that is durable, and by ChainInv the claimed transaction and the  *)
(* authorization tell of one transfer: the rows that share a key with its  *)
(* observation or its settlement are that very admission.                  *)
(***************************************************************************)
HeldClaimsAreDurable ==
    \A q \in Req :
        /\ pc[q] = "idle" => claim[q] = None
        /\ claim[q] # None =>
              /\ claim[q].intent.auth = request[q].auth
              /\ \E c \in claims : IdOfClaim(c) = IdOfClaim(claim[q])

LEMMA ClaimsGrow == DeliveryInv /\ [Next]_vars => claims \subseteq claims'
BY StepWritesLedger, InsertGrows
   DEF LedgerNext, RecordSomeIntent, RecordIntent, RecordSomeClaim, RecordClaim,
       AdmitSomeSettlement, AdmitSettlement, ledger

\* A claim is held from the table, or recorded before it is admitted.
LEMMA ClaimIsHeld ==
    ASSUME DeliveryInv, NEW q \in Req,
           VerifyFails(q) \/ BeforeSettle(q) \/ AfterSettle(q),
           claim'[q] # claim[q]
    PROVE  /\ claim'[q].intent.auth = request'[q].auth
           /\ \E c \in claims' : IdOfClaim(c) = IdOfClaim(claim'[q])
<1>1. /\ claim \in [Req -> Claim \cup {None}]
      /\ claims \subseteq Claim
      /\ request' = request
  BY DEF DeliveryInv, DeliveryTypeOK, TypeOK, VerifyFails, BeforeSettle, AfterSettle
<1>2. claims \subseteq claims'
  BY ClaimsGrow DEF Next, Hook
<1>3. CASE VerifyFails(q) \/ BeforeSettle(q)
  <2>1. PICK c \in ClaimsOf(request[q].auth) : claim'[q] = c
    <3>1. CASE VerifyFails(q)
      BY <1>1, <3>1 DEF VerifyFails, Recoverable
    <3>2. CASE BeforeSettle(q)
      BY <1>1, <3>2 DEF BeforeSettle
    <3> QED
      BY <1>3, <3>1, <3>2
  <2>2. c.intent.auth = request[q].auth
    <3>1. PICK i \in intents : IdOfIntent(i) = c.intent /\ i.auth = request[q].auth
      BY <2>1 DEF ClaimsOf
    <3> QED
      BY <3>1 DEF IdOfIntent
  <2> QED
    BY <1>1, <1>2, <2>1, <2>2 DEF ClaimsOf
<1>4. CASE AfterSettle(q)
  <2>1. PICK i \in intents : /\ i.auth = request[q].auth
                             /\ RecordClaim(ClaimFrom(q, i))
                             /\ claim'[q] = ClaimFrom(q, i)
    BY <1>1, <1>4 DEF AfterSettle
  <2>2. ClaimFrom(q, i) \in Claim
    BY <1>4, ClaimFromTyped DEF AfterSettle, DeliveryInv, DeliveryTypeOK
  <2>3. PICK c \in claims' : c = ClaimFrom(q, i) \/ SameExceptTime(c, ClaimFrom(q, i))
    BY <2>1, InsertRepresents DEF RecordClaim, AcceptsClaim, ClaimRows
  <2>4. c \in Claim
    BY <1>1, <2>1, <2>2, InsertAdds DEF RecordClaim
  <2>5. IdOfClaim(c) = IdOfClaim(claim'[q])
    BY <2>1, <2>2, <2>3, <2>4 DEF SameExceptTime, Claim, IdOfClaim
  <2>6. claim'[q].intent.auth = request[q].auth
    BY <2>1 DEF ClaimFrom, ClaimAt, IdOfIntent
  <2> QED
    BY <1>1, <2>5, <2>6
<1> QED
  BY <1>3, <1>4

\* Every other step leaves the claim, and what it was held for, as they are.
LEMMA ClaimIsKept ==
    ASSUME DeliveryInv, [Next]_vars, NEW q \in Req,
           ~(VerifyFails(q) \/ BeforeSettle(q) \/ AfterSettle(q))
    PROVE  claim'[q] = claim[q] /\ (pc[q] # "idle" => request'[q] = request[q])
<1>1. claim \in [Req -> Claim \cup {None}] /\ request \in [Req -> IntentId \cup {None}]
  BY DEF DeliveryInv, DeliveryTypeOK
<1>2. ASSUME NEW p \in Req, p # q, Arrive(p) \/ Hook(p)
      PROVE  claim'[q] = claim[q] /\ request'[q] = request[q]
  BY <1>1, <1>2 DEF Arrive, Hook, VerifySucceeds, VerifyFails, HandlerDeclines,
     BeforeSettleRefuses, BeforeSettle, SettleUnanswered, AfterSettle, ReadChain, ReadFails,
     AdmitClaim, AdmissionRefused, Release
<1>3. ASSUME Arrive(q) \/ Hook(q)
      PROVE  claim'[q] = claim[q] /\ (pc[q] # "idle" => request'[q] = request[q])
  BY <1>1, <1>3 DEF Arrive, Hook, VerifySucceeds, HandlerDeclines,
     BeforeSettleRefuses, SettleUnanswered, ReadChain, ReadFails, AdmitClaim,
     AdmissionRefused, Release
<1>4. ASSUME (\E p \in Req : Facilitator(p)) \/ Restart \/ Block \/ Tick \/ UNCHANGED vars
      PROVE  claim'[q] = claim[q] /\ request'[q] = request[q]
  BY <1>1, <1>4 DEF Facilitator, FacilitatorSettles, FacilitatorRepeats,
     FacilitatorMisreports, FacilitatorFails, Restart, Block, Tick, locals, vars
<1> QED
  BY <1>2, <1>3, <1>4 DEF Next

\* A request that is idle was so before.
LEMMA IdleWasIdle ==
    ASSUME DeliveryInv, [Next]_vars, NEW q \in Req, pc'[q] = "idle"
    PROVE  pc[q] = "idle" /\ ~(VerifyFails(q) \/ BeforeSettle(q) \/ AfterSettle(q))
<1>1. pc \in [Req -> {"idle"} \cup Active \cup Ended]
  BY DEF DeliveryInv, DeliveryTypeOK
<1>2. ASSUME NEW p \in Req, Arrive(p) \/ Hook(p)
      PROVE  p # q /\ pc[q] = "idle"
  BY <1>1, <1>2 DEF Arrive, Hook, VerifySucceeds, VerifyFails, HandlerDeclines,
     BeforeSettleRefuses, BeforeSettle, SettleUnanswered, AfterSettle, ReadChain, ReadFails,
     AdmitClaim, AdmissionRefused, Release, Observing
<1>3. ASSUME (\E p \in Req : Facilitator(p)) \/ Restart \/ Block \/ Tick \/ UNCHANGED vars
      PROVE  pc[q] = "idle"
  BY <1>1, <1>3 DEF Facilitator, FacilitatorSettles, FacilitatorRepeats,
     FacilitatorMisreports, FacilitatorFails, Restart, Block, Tick, locals, vars
<1>4. pc[q] = "idle"
  BY <1>2, <1>3 DEF Next
<1> QED
  BY <1>4 DEF VerifyFails, BeforeSettle, AfterSettle

LEMMA HeldClaimsNext ==
    DeliveryInv /\ HeldClaimsAreDurable /\ [Next]_vars => HeldClaimsAreDurable'
<1> SUFFICES ASSUME DeliveryInv, HeldClaimsAreDurable, [Next]_vars, NEW q \in Req
             PROVE  /\ pc'[q] = "idle" => claim'[q] = None
                    /\ claim'[q] # None =>
                          /\ claim'[q].intent.auth = request'[q].auth
                          /\ \E c \in claims' : IdOfClaim(c) = IdOfClaim(claim'[q])
  BY DEF HeldClaimsAreDurable
<1>1. pc'[q] = "idle" => claim'[q] = None
  BY IdleWasIdle, ClaimIsKept DEF HeldClaimsAreDurable
<1>2. CASE claim'[q] # claim[q]
  BY <1>1, <1>2, ClaimIsHeld, ClaimIsKept
<1>3. CASE claim'[q] = claim[q]
  <2>1. claim[q] # None => pc[q] # "idle"
    BY DEF HeldClaimsAreDurable
  <2>2. pc[q] # "idle" => request'[q] = request[q]
    BY ClaimIsKept DEF VerifyFails, BeforeSettle, AfterSettle
  <2> QED
    BY <1>1, <1>3, <2>1, <2>2, ClaimsGrow DEF HeldClaimsAreDurable
<1> QED
  BY <1>2, <1>3

\* No hook admits a claim that is not in the table, nor does a claim that was
\* held once, by a request that is over, leave it.
THEOREM HeldClaims == Spec => []HeldClaimsAreDurable
<1>1. Init => HeldClaimsAreDurable
  BY DEF Init, HeldClaimsAreDurable
<1> QED
  BY <1>1, HeldClaimsNext, DeliveryInvariant, PTL DEF Spec

LEMMA HeldIsDurable ==
    ASSUME DeliveryInv, HeldClaimsAreDurable, NEW q \in Req, pc[q] \in Observing
    PROVE  \E c \in claims : IdOfClaim(c) = IdOfClaim(claim[q])
BY NoneIsNoValue DEF DeliveryInv, RequestInv, HeldClaimsAreDurable

\* A claim in the ledger is found by the authorization it is for.
LEMMA HeldIsFound ==
    ASSUME DeliveryInv, HeldClaimsAreDurable, NEW p \in Req, claim[p] # None
    PROVE  ClaimsOf(request[p].auth) # {}
<1>1. PICK c \in claims : IdOfClaim(c) = IdOfClaim(claim[p])
  BY DEF HeldClaimsAreDurable
<1>2. c.intent = claim[p].intent /\ claim[p].intent.auth = request[p].auth
  BY <1>1 DEF IdOfClaim, HeldClaimsAreDurable
<1>3. PICK i \in intents : IdOfIntent(i) = c.intent
  BY <1>1 DEF DeliveryInv, LedgerInv, KeysHold, HasIntent
<1>4. i.auth = request[p].auth
  BY <1>2, <1>3 DEF IdOfIntent
<1> QED
  BY <1>1, <1>3, <1>4 DEF ClaimsOf

\* A request asks the facilitator only in before_settle, where it found no claim.
LEMMA SubmittedUnclaimed ==
    ASSUME DeliveryInv, [Next]_vars, NEW q \in Req, job[q] = NotCalled, job'[q] # NotCalled
    PROVE  ClaimsOf(request[q].auth) = {}
<1>1. job \in [Req -> Job]
  BY DEF DeliveryInv, DeliveryTypeOK
<1>2. PICK p \in Req : Hook(p) \/ Facilitator(p)
  BY DEF Next, Arrive, Restart, Block, Tick, vars
<1>3. CASE Facilitator(p)
  <2>1. job[p] = Calling /\ \E v : job' = [job EXCEPT ![p] = v]
    BY <1>3 DEF Facilitator, FacilitatorSettles, FacilitatorRepeats,
       FacilitatorMisreports, FacilitatorFails
  <2> QED
    BY <1>1, <2>1 DEF Calling, NotCalled
<1>4. CASE Hook(p)
  <2>1. BeforeSettle(p)
    BY <1>4 DEF Hook, VerifySucceeds, VerifyFails, HandlerDeclines, BeforeSettleRefuses,
       SettleUnanswered, AfterSettle, ReadChain, ReadFails, AdmitClaim,
       AdmissionRefused, Release
  <2> QED
    BY <1>1, <2>1 DEF BeforeSettle
<1> QED
  BY <1>2, <1>3, <1>4

\* A claim that any request has held, also one that is over, stands in the way of
\* every later submission of its authorization.
THEOREM NothingIsRebroadcast == Spec => AnsweredIsNotResubmitted
<1>1. DeliveryInv /\ HeldClaimsAreDurable /\ [Next]_vars
        => [\A p, q \in Req :
              job[q] = NotCalled /\ job'[q] # NotCalled /\ claim[p] # None
                => request[p].auth # request[q].auth]_vars
  BY HeldIsFound, SubmittedUnclaimed
<1> QED
  BY <1>1, DeliveryInvariant, HeldClaims, PTL DEF Spec, AnsweredIsNotResubmitted

-----------------------------------------------------------------------------
\* An observation is of the authorization of its own intent, which is durable.
LEMMA ObservationsOfTheirIntent ==
    ASSUME LedgerInv, NEW r \in observations
    PROVE  r.auth = r.intent.auth /\ HasIntent(r.intent)
<1>1. PICK s \in settlements : s.observation = IdOfObservation(r) /\ s.intent = r.intent
  BY DEF LedgerInv, ObservationsAreSettled
<1>2. PICK x \in observations : IdOfObservation(x) = s.observation /\ x.auth = s.auth
  BY DEF LedgerInv, SettlementBindsEvidence
<1>3. r.auth = x.auth
  BY <1>1, <1>2 DEF IdOfObservation
<1> QED
  BY <1>1, <1>2, <1>3 DEF LedgerInv, SettlementBindsEvidence

LEMMA OneIntentPerAuth ==
    ASSUME LedgerInv, NEW id, NEW jd, HasIntent(id), HasIntent(jd), id.auth = jd.auth
    PROVE  id = jd
BY DEF LedgerInv, KeysHold, HasIntent, IdOfIntent

\* What request q has observed, and what it would admit.
LEMMA WhatIsObserved ==
    ASSUME DeliveryInv, HeldClaimsAreDurable, NEW q \in Req,
           pc[q] \in Observing, seen[q] # None
    PROVE  /\ claim[q] \in Claim /\ claim[q].intent = request[q]
           /\ HasIntent(request[q])
           /\ Observed(q).intent = request[q]
           /\ Observed(q).auth = request[q].auth
           /\ Observed(q).event.tx = claim[q].tx
           /\ Observed(q).evidence = seen[q]
           /\ \E t \in chain : t.event = Observed(q).event /\ t.auth = request[q].auth
<1>1. claim[q] \in Claim /\ claim[q].intent = request[q] /\ Sighted(q)
  BY DEF DeliveryInv, RequestInv
<1>2. PICK t \in chain : t.event.tx = claim[q].tx /\ t.auth = request[q].auth
  BY <1>1 DEF Sighted
<1>3. t.event \in Event
  BY DEF DeliveryInv, DeliveryTypeOK, Transfer
<1>4. EventOf(claim[q]) = t.event
  <2>1. /\ EventOf(claim[q]) \in Event
        /\ \E u \in chain : u.event = EventOf(claim[q]) /\ u.event.tx = claim[q].tx
    BY <1>2, <1>3 DEF EventOf
  <2> QED
    BY <1>2, <2>1 DEF DeliveryInv, ChainInv
<1>5. HasIntent(request[q])
  <2>1. PICK c \in claims : IdOfClaim(c) = IdOfClaim(claim[q])
    BY HeldIsDurable
  <2>2. c.intent = request[q]
    BY <1>1, <2>1 DEF IdOfClaim
  <2> QED
    BY <2>2 DEF DeliveryInv, LedgerInv, KeysHold
<1> QED
  BY <1>1, <1>2, <1>4, <1>5 DEF Observed, ObservationOf

\* An observation of its authorization or of its event is one of its transfer.
LEMMA SameTransfer ==
    ASSUME DeliveryInv, HeldClaimsAreDurable, NEW q \in Req,
           pc[q] \in Observing, seen[q] # None,
           NEW r \in observations,
           r.auth = Observed(q).auth \/ r.event = Observed(q).event
    PROVE  /\ r.auth = Observed(q).auth
           /\ r.event = Observed(q).event
           /\ r.intent = request[q]
<1>1. PICK t \in chain : t.event = Observed(q).event /\ t.auth = Observed(q).auth
  BY WhatIsObserved
<1>2. PICK u \in chain : u.event = r.event /\ u.auth = r.auth
  BY DEF DeliveryInv, ObservationsOnChain
<1>3. t = u
  BY <1>1, <1>2 DEF DeliveryInv, ChainInv
<1>4. r.auth = Observed(q).auth /\ r.event = Observed(q).event
  BY <1>1, <1>2, <1>3
<1>5. r.auth = r.intent.auth /\ HasIntent(r.intent)
  BY ObservationsOfTheirIntent DEF DeliveryInv
<1>6. HasIntent(request[q]) /\ Observed(q).auth = request[q].auth
  BY WhatIsObserved
<1> QED
  BY <1>4, <1>5, <1>6, OneIntentPerAuth DEF DeliveryInv

LEMMA ObservationIsAdmitted ==
    ASSUME DeliveryInv, HeldClaimsAreDurable, NEW q \in Req,
           pc[q] \in Observing, seen[q] # None,
           \A o \in observations : o.intent = request[q] => o.evidence = seen[q]
    PROVE  Admits(ObservationRows(Observed(q)), Observed(q))
<1> DEFINE o == Observed(q)
<1>1. ASSUME NEW r \in ObservationRows(o)
      PROVE  r \in observations /\ r.auth = o.auth /\ r.event = o.event /\ r.intent = o.intent
  <2>1. r \in observations /\ (r.auth = o.auth \/ r.event = o.event)
    BY <1>1 DEF ObservationRows, IdOfObservation
  <2> QED
    BY <2>1, SameTransfer, WhatIsObserved
<1>2. o \in Observation
  BY EventOfTyped, ObservationTyped DEF DeliveryInv, DeliveryTypeOK, RequestInv, Observed
<1>3. o.intent = request[q] /\ o.evidence = seen[q]
  BY WhatIsObserved
<1> HIDE DEF o
<1>4. SUFFICES ASSUME NEW r \in ObservationRows(o)
               PROVE  ObservationRows(o) = {r} /\ SameExceptTime(r, o)
  BY DEF Admits, ObservationRows, o
<1>5. \A x \in ObservationRows(o) : x = r
  BY <1>1 DEF DeliveryInv, LedgerInv, KeysHold
<1>6. r \in Observation /\ r.evidence = o.evidence
  BY <1>1, <1>3 DEF DeliveryInv, LedgerInv, TypeOK
<1> QED
  BY <1>1, <1>2, <1>5, <1>6 DEF SameExceptTime, Observation

LEMMA SettlementIsAdmitted ==
    ASSUME DeliveryInv, HeldClaimsAreDurable, NEW q \in Req,
           pc[q] \in Observing, seen[q] # None, claim[q].exact
    PROVE  Admits(SettlementRows(Reconciled(q)), Reconciled(q))
<1> DEFINE o == Observed(q)
           s == Reconciled(q)
<1>1. /\ claim[q] \in Claim /\ claim[q].intent = request[q]
      /\ o.intent = request[q] /\ o.auth = request[q].auth /\ o.event.tx = claim[q].tx
  BY WhatIsObserved
<1>2. /\ s.intent = o.intent
      /\ s.claim = [intent |-> o.intent, tx |-> o.event.tx, exact |-> TRUE]
      /\ s.observation = IdOfObservation(o)
      /\ s.event = o.event /\ s.auth = o.auth
  BY <1>1 DEF Reconciled, SettlementOf, IdOfClaim, Claim
<1>3. s \in Settlement
  BY EventOfTyped, ObservationTyped, SettlementTyped
     DEF DeliveryInv, DeliveryTypeOK, RequestInv, Observed, Reconciled
<1>4. ASSUME NEW r \in settlements,
             NEW x \in observations, IdOfObservation(x) = r.observation, x.intent = r.intent,
             x.auth = r.auth, x.event = r.event,
             x.auth = o.auth \/ x.event = o.event
      PROVE  SameExceptTime(r, s)
  <2>1. x.auth = o.auth /\ x.event = o.event /\ x.intent = o.intent
    BY <1>1, <1>4, SameTransfer
  <2>2. PICK c \in claims : /\ IdOfClaim(c) = r.claim
                            /\ c.intent = r.intent
                            /\ c.tx = r.event.tx
                            /\ c.exact
    BY DEF DeliveryInv, LedgerInv, SettlementBindsEvidence
  <2>3. c.exact = TRUE
    BY <2>2 DEF DeliveryInv, LedgerInv, TypeOK, Claim
  <2>4. r.claim = s.claim
    BY <1>2, <1>4, <2>1, <2>2, <2>3 DEF IdOfClaim
  <2>5. r.observation = s.observation
    BY <1>2, <1>4, <2>1 DEF IdOfObservation
  <2>6. r \in Settlement
    BY DEF DeliveryInv, LedgerInv, TypeOK
  <2> QED
    BY <1>2, <1>3, <1>4, <2>1, <2>4, <2>5, <2>6 DEF SameExceptTime, Settlement
<1>5. ASSUME NEW r \in SettlementRows(s)
      PROVE  r \in settlements /\ SameExceptTime(r, s)
  <2>1. r \in settlements /\ r \in Settlement
    BY <1>5 DEF SettlementRows, DeliveryInv, LedgerInv, TypeOK
  <2>2. r.auth = r.intent.auth
    BY <2>1 DEF DeliveryInv, LedgerInv, SettlementBindsEvidence
  <2>3. PICK c \in claims : IdOfClaim(c) = r.claim /\ c.intent = r.intent
    BY <2>1 DEF DeliveryInv, LedgerInv, SettlementBindsEvidence
  <2>4. PICK x \in observations : /\ IdOfObservation(x) = r.observation
                                  /\ x.intent = r.intent
                                  /\ x.auth = r.auth
                                  /\ x.event = r.event
    BY <2>1 DEF DeliveryInv, LedgerInv, SettlementBindsEvidence
  <2>5. \/ r.intent = s.intent
        \/ r.claim = s.claim
        \/ r.observation = s.observation
        \/ r.event = s.event
    BY <1>5, <1>3, <2>1 DEF SettlementRows, Settlement
  <2>6. CASE r.intent = s.intent
    BY <1>1, <1>2, <1>4, <2>1, <2>2, <2>4, <2>6
  <2>7. CASE r.claim = s.claim
    <3>1. r.intent = s.intent
      BY <1>2, <2>3, <2>7 DEF IdOfClaim
    <3> QED
      BY <2>6, <3>1
  <2>8. CASE r.observation = s.observation
    BY <1>2, <1>4, <2>1, <2>4, <2>8 DEF IdOfObservation
  <2>9. CASE r.event = s.event
    BY <1>2, <1>4, <2>1, <2>4, <2>9
  <2> QED
    BY <2>1, <2>5, <2>6, <2>7, <2>8, <2>9
<1> HIDE DEF s
<1>6. SUFFICES ASSUME NEW r \in SettlementRows(s)
               PROVE  SettlementRows(s) = {r}
  BY <1>5 DEF Admits, s
<1>7. \A x, y \in SettlementRows(s) : x = y
  <2>1. \A x \in SettlementRows(s) : x \in settlements /\ x.intent = s.intent
    BY <1>3, <1>5, SameSettlement DEF DeliveryInv, LedgerInv, TypeOK
  <2> QED
    BY <2>1 DEF DeliveryInv, LedgerInv, KeysHold
<1> QED
  BY <1>7

\* With an exact claim, and no other head admitted for its intent, admission is
\* accepted: RetryResumes fails in this one way only.
LEMMA AdmissionIsAccepted ==
    ASSUME DeliveryInv, HeldClaimsAreDurable, NEW q \in Req,
           pc[q] \in Observing, seen[q] # None, claim[q].exact,
           \A o \in observations : o.intent = request[q] => o.evidence = seen[q]
    PROVE  AcceptsClaimed(q)
<1>1. Reconciles(request[q], claim[q], Observed(q))
  BY WhatIsObserved DEF Reconciles
<1>2. PICK c \in claims : IdOfClaim(c) = IdOfClaim(claim[q])
  BY HeldIsDurable
<1>3. c.intent = claim[q].intent
  BY <1>2 DEF IdOfClaim
<1>4. /\ Reconciled(q).intent = Observed(q).intent
      /\ Reconciled(q).intent = claim[q].intent
      /\ Reconciled(q).claim = IdOfClaim(claim[q])
      /\ Reconciled(q).observation = IdOfObservation(Observed(q))
      /\ Reconciled(q).event = Observed(q).event
      /\ Reconciled(q).auth = Observed(q).auth
  BY WhatIsObserved DEF Reconciled, SettlementOf
<1>5. AcceptsSettlement(Observed(q), Reconciled(q))
  BY <1>2, <1>3, <1>4, ObservationIsAdmitted, SettlementIsAdmitted DEF AcceptsSettlement
<1> QED
  BY <1>1, <1>5 DEF AcceptsClaimed

\* Only admit_claim refuses a request that observes Celo.
LEMMA RefusalIsOfAdmission ==
    ASSUME DeliveryInv, Next, NEW q \in Req, pc[q] \in Observing, pc'[q] = "refused"
    PROVE  seen[q] # None /\ ~AcceptsClaimed(q)
<1>1. pc \in [Req -> {"idle"} \cup Active \cup Ended]
  BY DEF DeliveryInv, DeliveryTypeOK
<1>2. PICK p \in Req : Arrive(p) \/ Hook(p)
  BY <1>1 DEF Next, Facilitator, FacilitatorSettles, FacilitatorRepeats,
     FacilitatorMisreports, FacilitatorFails, Restart, Block, Tick, locals, Observing, Active
<1>3. p = q
  BY <1>1, <1>2 DEF Arrive, Hook, VerifySucceeds, VerifyFails, HandlerDeclines,
     BeforeSettleRefuses, BeforeSettle, SettleUnanswered, AfterSettle, ReadChain, ReadFails,
     AdmitClaim, AdmissionRefused, Release, Observing
<1>4. AdmissionRefused(q)
  BY <1>1, <1>2, <1>3 DEF Arrive, Hook, VerifySucceeds, VerifyFails, HandlerDeclines,
     BeforeSettleRefuses, BeforeSettle, SettleUnanswered, AfterSettle, ReadChain, ReadFails,
     AdmitClaim, Release, Observing
<1> QED
  BY <1>4 DEF AdmissionRefused

\* The ledger refuses an observed payment for two reasons alone: it admitted
\* the payment before as seen from another head, or the facilitator misreported it.
THEOREM OnlyDriftIsRefused == Spec => RefusedOnlyOnDrift
<1>1. DeliveryInv /\ HeldClaimsAreDurable /\ [Next]_vars
        => [\A q \in Req :
              pc[q] \in Observing /\ pc'[q] = "refused"
                => \/ ~claim[q].exact
                   \/ \E o \in observations : o.intent = request[q] /\ o.evidence # seen[q]]_vars
  BY RefusalIsOfAdmission, AdmissionIsAccepted
<1> QED
  BY <1>1, DeliveryInvariant, HeldClaims, PTL DEF Spec, RefusedOnlyOnDrift

-----------------------------------------------------------------------------
(***************************************************************************)
(* Receipts.  A request is released by the admission of the claim that it  *)
(* holds, whose settlement is durable then, as this or as an earlier row   *)
(* of the same claim; it holds that claim to its end.                      *)
(***************************************************************************)
SettledAsClaimed(q) ==
    \E s \in settlements : s.intent = request[q] /\ s.claim = IdOfClaim(claim[q])

ReleasedAsClaimed ==
    \A q \in Req : pc[q] \in {"releasing", "delivered"} => SettledAsClaimed(q)

LEMMA AdmittedAsClaimed ==
    ASSUME DeliveryInv, NEW q \in Req, AdmitClaim(q)
    PROVE  SettledAsClaimed(q)'
<1> DEFINE o == Observed(q)
           s == Reconciled(q)
<1>1. /\ TypeOK /\ clock \in Time
      /\ claim[q] \in Claim /\ claim[q].intent = request[q] /\ seen[q] \in Evidence
      /\ EventOf(claim[q]) \in Event
  BY EventOfTyped DEF DeliveryInv, DeliveryTypeOK, RequestInv, AdmitClaim
<1>2. o \in Observation /\ s \in Settlement
  BY <1>1, ObservationTyped, SettlementTyped DEF Observed, Reconciled
<1>3. s.intent = request[q] /\ s.claim = IdOfClaim(claim[q])
  BY <1>1 DEF Reconciled, SettlementOf
<1>4. AdmitSettlement(o, s) /\ UNCHANGED <<request, claim>>
  BY DEF AdmitClaim
<1> HIDE DEF o, s
<1> QED
  BY <1>1, <1>2, <1>3, <1>4, SettlementIsDurable DEF SettledAsClaimed

\* Only an admission begins a release; a release only ends it.
LEMMA ReleasedBefore ==
    ASSUME DeliveryInv, [Next]_vars, NEW q \in Req, ~AdmitClaim(q),
           pc'[q] \in {"releasing", "delivered"}
    PROVE  pc[q] \in {"releasing", "delivered"}
<1>1. pc \in [Req -> {"idle"} \cup Active \cup Ended]
  BY DEF DeliveryInv, DeliveryTypeOK
<1>2. ASSUME NEW p \in Req, p # q, Arrive(p) \/ Hook(p)
      PROVE  pc'[q] = pc[q]
  BY <1>1, <1>2 DEF Arrive, Hook, VerifySucceeds, VerifyFails, HandlerDeclines,
     BeforeSettleRefuses, BeforeSettle, SettleUnanswered, AfterSettle, ReadChain, ReadFails,
     AdmitClaim, AdmissionRefused, Release
<1>3. ASSUME Arrive(q) \/ Hook(q)
      PROVE  pc[q] \in {"releasing", "delivered"}
  BY <1>1, <1>3 DEF Arrive, Hook, VerifySucceeds, VerifyFails, HandlerDeclines,
     BeforeSettleRefuses, BeforeSettle, SettleUnanswered, AfterSettle, ReadChain, ReadFails,
     AdmissionRefused, Release
<1>4. ASSUME (\E p \in Req : Facilitator(p)) \/ Restart \/ Block \/ Tick \/ UNCHANGED vars
      PROVE  pc[q] \in {"releasing", "delivered"}
  BY <1>1, <1>4 DEF Facilitator, FacilitatorSettles, FacilitatorRepeats,
     FacilitatorMisreports, FacilitatorFails, Restart, Block, Tick, locals, vars
<1> QED
  BY <1>2, <1>3, <1>4 DEF Next

LEMMA SettlementsGrow == DeliveryInv /\ [Next]_vars => settlements \subseteq settlements'
BY StepWritesLedger, InsertGrows
   DEF LedgerNext, RecordSomeIntent, RecordIntent, RecordSomeClaim, RecordClaim,
       AdmitSomeSettlement, AdmitSettlement, ledger

LEMMA ReleasedNext ==
    DeliveryInv /\ ReleasedAsClaimed /\ [Next]_vars => ReleasedAsClaimed'
<1> SUFFICES ASSUME DeliveryInv, ReleasedAsClaimed, [Next]_vars,
                    NEW q \in Req, pc'[q] \in {"releasing", "delivered"}
             PROVE  SettledAsClaimed(q)'
  BY DEF ReleasedAsClaimed
<1>1. CASE AdmitClaim(q)
  BY <1>1, AdmittedAsClaimed
<1>2. CASE ~AdmitClaim(q)
  <2>1. pc[q] \in {"releasing", "delivered"} /\ SettledAsClaimed(q)
    BY <1>2, ReleasedBefore DEF ReleasedAsClaimed
  <2>2. claim'[q] = claim[q] /\ request'[q] = request[q]
    BY <2>1, ClaimIsKept DEF VerifyFails, BeforeSettle, AfterSettle
  <2> QED
    BY <2>1, <2>2, SettlementsGrow DEF SettledAsClaimed
<1> QED
  BY <1>1, <1>2

\* What the settlement of a released request was reconciled from names its claim's
\* transaction, and was observed on the chain.
LEMMA ReleasedIsPaid == DeliveryInv /\ ReleasedAsClaimed => ReceiptIsThePayment
<1> SUFFICES ASSUME DeliveryInv, ReleasedAsClaimed,
                    NEW q \in Req, pc[q] \in {"releasing", "delivered"}
             PROVE  /\ \E t \in chain : t.auth = request[q].auth /\ t.event.tx = claim[q].tx
                    /\ SettledAsClaimed(q)
  BY DEF ReceiptIsThePayment, SettledAsClaimed
<1>1. PICK s \in settlements : s.intent = request[q] /\ s.claim = IdOfClaim(claim[q])
  BY DEF ReleasedAsClaimed, SettledAsClaimed
<1>2. s.auth = request[q].auth
  BY <1>1 DEF DeliveryInv, LedgerInv, SettlementBindsEvidence
<1>3. PICK c \in claims : IdOfClaim(c) = s.claim /\ c.tx = s.event.tx
  BY DEF DeliveryInv, LedgerInv, SettlementBindsEvidence
<1>4. c.tx = claim[q].tx
  BY <1>1, <1>3 DEF IdOfClaim
<1>5. PICK t \in chain : t.event = s.event /\ t.auth = s.auth
  BY BoundAndObserved DEF SettledOnChain
<1> QED
  BY <1>1, <1>2, <1>3, <1>4, <1>5 DEF SettledAsClaimed

\* A response that is sent names the transfer that paid for it, however many
\* submissions and claims its authorization has had.
THEOREM ReceiptsAreTrue == Spec => []ReceiptIsThePayment
<1>1. Init => ReleasedAsClaimed
  BY DEF Init, ReleasedAsClaimed
<1> QED
  BY <1>1, ReleasedNext, ReleasedIsPaid, DeliveryInvariant, PTL DEF Spec

=============================================================================
