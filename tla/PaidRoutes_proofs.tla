------------------------- MODULE PaidRoutes_proofs --------------------------
(* Theorems about what is built over the paid routes: the reviews they sell *)
(* (PaidReviews) and the page that pays (WebUnlock).                        *)
EXTENDS PaidReviews, WebUnlock, X402Delivery_proofs

\* Every durable intent is for a path whose Reviews are stored.
IntendedIsStored == \A i \in intents : Needs[i.resource] \subseteq stored

PaidInv == DeliveryInv /\ IntendedIsStored

-----------------------------------------------------------------------------
(* The composition only restricts the paid routes. *)

LEMMA PaidStepIsStep == [PaidNext]_paidVars => [Next]_vars
BY DEF PaidNext, paidVars, Create, Serve

\* Every theorem of the paid routes holds with the review store beside them:
\* what a handler reads never makes a hook do what it could not do before.
THEOREM PaidRoutesAreRoutes == PaidSpec => Spec
<1>1. PaidInit => Init
  BY DEF PaidInit
<1> QED
  BY <1>1, PaidStepIsStep, PTL DEF PaidSpec, Spec

-----------------------------------------------------------------------------
(* The inductive invariant. *)

\* An intent becomes durable in before_settle alone, behind the handler.
LEMMA IntentsComeFromHandlers ==
    ASSUME DeliveryInv, Serve, NEW i \in intents', i \notin intents
    PROVE  Needs[i.resource] \subseteq stored
<1>1. PICK q \in Req : BeforeSettle(q)
  BY DEF Serve, Next, Hook, Facilitator, Arrive, VerifySucceeds, VerifyFails,
     HandlerDeclines, BeforeSettleRefuses, SettleUnanswered, AfterSettle, RecordClaim,
     ReadChain, ReadFails, AdmitClaim, AdmitSettlement, AdmissionRefused, Release,
     FacilitatorSettles, FacilitatorRepeats, FacilitatorMisreports, FacilitatorFails,
     Restart, Block, Tick, ledger
<1>2. i = IntentAt(request[q], clock)
  BY <1>1, InsertAdds DEF BeforeSettle, RecordIntent
<1>3. i.resource = request[q].resource
  BY <1>2 DEF IntentAt
<1>4. pc[q] = "serving" /\ pc'[q] \in {"settling", "resuming"}
  BY <1>1 DEF BeforeSettle, DeliveryInv, DeliveryTypeOK
<1>5. Servable(q)
  BY <1>4 DEF Serve, HandlerAnswers
<1> QED
  BY <1>3, <1>5 DEF Servable

LEMMA PaidInitInv == PaidInit => PaidInv
BY DeliveryInit DEF PaidInit, PaidInv, IntendedIsStored, Init, LedgerInit

LEMMA PaidNextInv == PaidInv /\ [PaidNext]_paidVars => PaidInv'
<1> SUFFICES ASSUME PaidInv, [PaidNext]_paidVars
             PROVE  PaidInv'
  OBVIOUS
<1>1. DeliveryInv'
  BY PaidStepIsStep, DeliveryNext DEF PaidInv
<1>2. CASE UNCHANGED paidVars
  BY <1>1, <1>2 DEF PaidInv, IntendedIsStored, paidVars, vars
<1>3. CASE Create
  BY <1>1, <1>3 DEF PaidInv, IntendedIsStored, Create, vars
<1>4. CASE Serve
  <2>1. stored' = stored
    BY <1>4 DEF Serve
  <2>2. \A i \in intents' : Needs[i.resource] \subseteq stored
    BY <1>4, IntentsComeFromHandlers DEF PaidInv, IntendedIsStored
  <2> QED
    BY <1>1, <2>1, <2>2 DEF PaidInv, IntendedIsStored
<1> QED
  BY <1>2, <1>3, <1>4 DEF PaidNext

\* The invariant holds throughout: past a handler, every request, intent and
\* settlement is for Reviews that the store has.
THEOREM PaidInvariant == PaidSpec => []PaidInv
BY PaidInitInv, PaidNextInv, PTL DEF PaidSpec

-----------------------------------------------------------------------------
LEMMA IntendedIsPayable == PaidInv => PaidForServable
BY DEF PaidInv, IntendedIsStored, PaidForServable, DeliveryInv, ChainInv

\* Nobody is made to pay for a Review that is not there: a 404 comes before
\* the durable intent, and so before every transfer.
THEOREM OnlyServableIsPaid == PaidSpec => []PaidForServable
BY PaidInvariant, IntendedIsPayable, PTL

\* What is settled has a durable intent, so its Reviews are there.
LEMMA SettledIsThere ==
    ASSUME PaidInv, NEW q \in Req, Settled(request[q])
    PROVE  Servable(q)
<1>1. PICK s \in settlements : s.intent = request[q]
  BY DEF Settled
<1>2. PICK i \in intents : IdOfIntent(i) = request[q]
  BY <1>1 DEF PaidInv, DeliveryInv, LedgerInv, SettlementBindsEvidence, HasIntent
<1>3. i.resource = request[q].resource
  BY <1>2 DEF IdOfIntent
<1> QED
  BY <1>2, <1>3 DEF PaidInv, IntendedIsStored, Servable

\* An admitted payment never ends in a 404.
THEOREM SettledFindsItsReviews == PaidSpec => SettledIsServed
<1>1. PaidInv /\ [PaidNext]_paidVars
        => [\A q \in Req : pc[q] = "serving" /\ pc'[q] = "declined"
                             => ~Settled(request[q])]_paidVars
  <2> SUFFICES ASSUME PaidInv, PaidNext, ~UNCHANGED paidVars, NEW q \in Req,
                      pc[q] = "serving", pc'[q] = "declined", Settled(request[q])
               PROVE  FALSE
    OBVIOUS
  <2>1. Servable(q)
    BY SettledIsThere
  <2>2. CASE Create
    BY <2>2 DEF Create, vars
  <2>3. CASE Serve
    BY <2>1, <2>3 DEF Serve, HandlerAnswers
  <2> QED
    BY <2>2, <2>3 DEF PaidNext
<1> QED
  BY <1>1, PaidInvariant, PTL DEF PaidSpec, SettledIsServed

-----------------------------------------------------------------------------
(***************************************************************************)
(* The page that pays.  What it unlocks is decided by one request: while   *)
(* it waits, that request is for the Review on the page and carries an     *)
(* authorization of the page's wallet, whatever else the server is doing.  *)
(***************************************************************************)
AwaitsItsOwn ==
    asked # None =>
        /\ pc[asked] # "idle"
        /\ request[asked].resource = preview
        /\ request[asked].auth \in signed

WebInv ==
    /\ DeliveryInv
    /\ PageTypeOK
    /\ AwaitsItsOwn
    /\ UnlockedIsPaid

LEMMA WebStepIsStep == [WebNext]_webVars => [Next]_vars
BY DEF WebNext, webVars, Submit, Reviewed, NotReviewed, Unlock, WalletRefuses, Pay,
   Answers, ReplyLost, Reload, Server, Next

\* Every theorem of the paid routes holds with the page as their only client.
THEOREM WebUsesTheRoutes == WebSpec => Spec
<1>1. WebInit => Init
  BY DEF WebInit
<1> QED
  BY <1>1, WebStepIsStep, PTL DEF WebSpec, Spec

\* The server never rewrites a request, sends one back, or drops a settlement.
LEMMA ServerKeeps ==
    ASSUME DeliveryInv, Server
    PROVE  /\ request' = request
           /\ settlements \subseteq settlements'
           /\ \A q \in Req : pc[q] # "idle" => pc'[q] # "idle"
<1>1. [Next]_vars
  BY DEF Server, Next
<1>2. settlements \subseteq settlements'
  BY <1>1, StepWritesLedger, InsertGrows
     DEF LedgerNext, RecordSomeIntent, RecordIntent, RecordSomeClaim, RecordClaim,
         AdmitSomeSettlement, AdmitSettlement, ledger
<1>3. pc \in [Req -> {"idle"} \cup Active \cup Ended]
  BY DEF DeliveryInv, DeliveryTypeOK
<1>4. CASE \E q \in Req : Hook(q)
  BY <1>2, <1>3, <1>4 DEF Hook, VerifySucceeds, VerifyFails, HandlerDeclines,
     BeforeSettleRefuses, BeforeSettle, SettleUnanswered, AfterSettle, ReadChain, ReadFails,
     AdmitClaim, AdmissionRefused, Release
<1>5. CASE \E q \in Req : Facilitator(q)
  BY <1>2, <1>5 DEF Facilitator, FacilitatorSettles, FacilitatorRepeats,
     FacilitatorMisreports, FacilitatorFails, locals
<1>6. CASE Restart
  BY <1>2, <1>3, <1>6 DEF Restart
<1>7. CASE Block \/ Tick
  BY <1>2, <1>7 DEF Block, Tick, locals
<1> QED
  BY <1>4, <1>5, <1>6, <1>7 DEF Server

\* A delivered request is settled, on the authorization it carries.
LEMMA DeliveredIsPaid ==
    ASSUME DeliveryInv, NEW q \in Req, pc[q] = "delivered"
    PROVE  \E s \in settlements : /\ s.intent.resource = request[q].resource
                                  /\ s.auth = request[q].auth
<1>1. PICK s \in settlements : s.intent = request[q]
  BY DEF DeliveryInv, RequestInv, Settled
<1>2. s.auth = s.intent.auth
  BY DEF DeliveryInv, LedgerInv, SettlementBindsEvidence
<1> QED
  BY <1>1, <1>2

-----------------------------------------------------------------------------
LEMMA WebInitInv == WebInit => WebInv
<1> SUFFICES ASSUME WebInit
             PROVE  WebInv
  OBVIOUS
<1>1. DeliveryInv
  BY DeliveryInit DEF WebInit
<1> QED
  BY <1>1 DEF WebInit, WebInv, PageTypeOK, Phase, AwaitsItsOwn, UnlockedIsPaid

\* A step of the page that starts no request.
LEMMA PageInv ==
    ASSUME WebInv, UNCHANGED vars,
           Submit \/ Reviewed \/ NotReviewed \/ Unlock \/ WalletRefuses \/ ReplyLost \/ Reload
    PROVE  PageTypeOK' /\ AwaitsItsOwn' /\ UnlockedIsPaid'
<1>1. UNCHANGED <<pc, request, settlements>>
  BY DEF vars
<1>2. PageTypeOK'
  BY NoneIsNotOnThePage DEF WebInv, PageTypeOK, Phase, Submit, Reviewed, NotReviewed, Unlock,
     WalletRefuses, ReplyLost, Reload
<1>3. phase' # "UNLOCKED" /\ (asked' # None => asked' = asked /\ preview' = preview)
  BY DEF WebInv, PageTypeOK, Submit, Reviewed, NotReviewed, Unlock, WalletRefuses,
     ReplyLost, Reload
<1>4. signed' = signed
  BY DEF Submit, Reviewed, NotReviewed, Unlock, WalletRefuses, ReplyLost, Reload
<1> QED
  BY <1>1, <1>2, <1>3, <1>4 DEF WebInv, AwaitsItsOwn, UnlockedIsPaid

LEMMA PayInv ==
    ASSUME WebInv, Pay
    PROVE  PageTypeOK' /\ AwaitsItsOwn' /\ UnlockedIsPaid'
<1>1. PICK q \in Req, a \in Auth \ signed :
          /\ Arrive(q)
          /\ request'[q].auth = a
          /\ request'[q].resource = preview
          /\ asked' = q
          /\ signed' = signed \cup {a}
  BY DEF Pay
<1>2. phase = "UNLOCKING" /\ UNCHANGED <<phase, preview, reviewed>>
  BY DEF Pay
<1>3. pc'[q] = "verifying"
  BY <1>1 DEF WebInv, DeliveryInv, DeliveryTypeOK, Arrive
<1>4. PageTypeOK'
  BY <1>1, <1>2 DEF WebInv, PageTypeOK
<1> QED
  BY <1>1, <1>2, <1>3, <1>4 DEF AwaitsItsOwn, UnlockedIsPaid

LEMMA AnswersInv ==
    ASSUME WebInv, Answers
    PROVE  PageTypeOK' /\ AwaitsItsOwn' /\ UnlockedIsPaid'
<1>1. asked \in Req /\ phase = "UNLOCKING" /\ DeliveryInv
  BY DEF WebInv, PageTypeOK, Answers
<1>2. UNCHANGED <<preview, signed, reviewed, settlements>> /\ asked' = None
  BY DEF Answers, vars
<1>3. phase' = IF pc[asked] = "delivered" THEN "UNLOCKED" ELSE "PREVIEW"
  BY DEF Answers
<1>4. PageTypeOK'
  BY <1>1, <1>2, <1>3 DEF WebInv, PageTypeOK, Phase
<1>5. ASSUME phase' = "UNLOCKED"
      PROVE  \E s \in settlements : s.intent.resource = preview /\ s.auth \in signed
  <2>1. pc[asked] = "delivered"
    BY <1>3, <1>5
  <2>2. request[asked].resource = preview /\ request[asked].auth \in signed
    BY DEF WebInv, AwaitsItsOwn, Answers
  <2> QED
    BY <1>1, <2>1, <2>2, DeliveredIsPaid
<1> QED
  BY <1>2, <1>4, <1>5 DEF AwaitsItsOwn, UnlockedIsPaid

LEMMA ServerInv ==
    ASSUME WebInv, Server
    PROVE  PageTypeOK' /\ AwaitsItsOwn' /\ UnlockedIsPaid'
<1>1. UNCHANGED <<phase, preview, asked, signed, reviewed>>
  BY DEF Server, page
<1>2. /\ request' = request
      /\ settlements \subseteq settlements'
      /\ \A q \in Req : pc[q] # "idle" => pc'[q] # "idle"
  BY ServerKeeps DEF WebInv
<1> QED
  BY <1>1, <1>2 DEF WebInv, PageTypeOK, AwaitsItsOwn, UnlockedIsPaid

LEMMA WebNextInv == WebInv /\ [WebNext]_webVars => WebInv'
<1> SUFFICES ASSUME WebInv, [WebNext]_webVars
             PROVE  WebInv'
  OBVIOUS
<1>1. DeliveryInv'
  BY WebStepIsStep, DeliveryNext DEF WebInv
<1>2. CASE Submit \/ Reviewed \/ NotReviewed \/ Unlock \/ WalletRefuses \/ ReplyLost \/ Reload
  <2>1. UNCHANGED vars
    BY <1>2 DEF Submit, Reviewed, NotReviewed, Unlock, WalletRefuses, ReplyLost, Reload
  <2> QED
    BY <1>1, <1>2, <2>1, PageInv DEF WebInv
<1>3. CASE Pay
  BY <1>1, <1>3, PayInv DEF WebInv
<1>4. CASE Answers
  BY <1>1, <1>4, AnswersInv DEF WebInv
<1>5. CASE Server
  BY <1>1, <1>5, ServerInv DEF WebInv
<1>6. CASE UNCHANGED webVars
  BY <1>1, <1>6 DEF webVars, page, vars, WebInv, PageTypeOK, AwaitsItsOwn, UnlockedIsPaid
<1> QED
  BY <1>2, <1>3, <1>4, <1>5, <1>6 DEF WebNext

\* The invariant holds throughout: a page awaits the request that carries its
\* own authorization, through every reload and lost reply.
THEOREM WebInvariant == WebSpec => []WebInv
BY WebInitInv, WebNextInv, PTL DEF WebSpec

\* The page holds a preview exactly in the phases of App.tsx that show one, and
\* awaits a paid reply only while it is unlocking.
THEOREM PageTypeCorrect == WebSpec => []PageTypeOK
<1>1. WebInv => PageTypeOK
  BY DEF WebInv
<1> QED
  BY <1>1, WebInvariant, PTL

\* A lost reply, a reload and a retry never unlock what the page has not paid
\* for, and never with another page's payment.
THEOREM UnlockedHasPaid == WebSpec => []UnlockedIsPaid
<1>1. WebInv => UnlockedIsPaid
  BY DEF WebInv
<1> QED
  BY <1>1, WebInvariant, PTL

=============================================================================
