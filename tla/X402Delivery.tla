---------------------------- MODULE X402Delivery ----------------------------
(***************************************************************************)
(* Paid delivery: the x402 middleware drives one request through verify,   *)
(* the paid handler and settle, and the three hooks of x402_runtime.py     *)
(* write the ledger.  Requests interleave at every await.  The server may  *)
(* restart, a facilitator reply may be lost or name any transaction, a     *)
(* Celo read may fail, blocks and the clock advance at any time.           *)
(*                                                                         *)
(* External, modelled from how x402_runtime.py uses them: the middleware   *)
(* (order of the hooks, an exception in a settle hook is a 402), the       *)
(* facilitator, and Celo's EIP-3009 token (a nonce is consumed once).      *)
(* The chain never reorganises here; the verifier's five reads are one     *)
(* successful read, followed later by the admission.                       *)
(***************************************************************************)
EXTENDS PaymentLedger

CONSTANTS
    Req,            \* requests, one delivery attempt each
    None,           \* no value
    MinConf,        \* settings.min_confirmations
    MaxHead,        \* bound on the chain's height
    MaxClock,       \* bound on the clock
    MaxRestarts,    \* bound on server restarts
    Misreports      \* may a facilitator success name a wrong transaction or amount?

ASSUME ClockReadings == MaxClock \in Nat /\ Time = 0..MaxClock
ASSUME HeadsAreEvidence == MaxHead \in Nat /\ Evidence = 0..MaxHead
ASSUME Policy == MinConf \in Nat \ {0} /\ MaxRestarts \in Nat /\ Misreports \in BOOLEAN
ASSUME NoneIsNoValue == None \notin IntentId \cup Claim \cup Evidence

VARIABLES
    pc,         \* where each request is
    request,    \* its authorization, window and path
    claim,      \* the claim its hook is admitting
    seen,       \* the head its hook has read
    job,        \* its settle call at the facilitator
    chain,      \* transfers mined by Celo's USDC
    head,       \* height of the chain
    clock,      \* now()
    restarts

locals == <<pc, request, claim, seen>>
world == <<chain, head, clock, restarts>>
vars == <<intents, claims, observations, settlements, pc, request, claim, seen,
          job, chain, head, clock, restarts>>

\* Which hook awaits Celo: recover_claim, before_settle or after_settle.
Observing == {"recovering", "resuming", "admitting"}

\* "refused" and "unobserved" are both the 402 of the middleware: by a check
\* of the service, or because Celo or the facilitator gave no usable answer.
Ended == {"delivered", "refused", "unobserved", "declined", "dropped"}

Active == {"verifying", "serving", "settling", "releasing"} \cup Observing

Transfer == [auth : Auth, before : Deadline, event : Event, block : 1..MaxHead]

\* A settle call: not made, at the facilitator, failed, or a success response.
Response == [tx : Tx, exact : BOOLEAN]
NotCalled == [call |-> "none"]
Calling == [call |-> "pending"]
Failed == [call |-> "failed"]
Succeeded(tx, exact) == [call |-> "success", response |-> [tx |-> tx, exact |-> exact]]
Job == {NotCalled, Calling, Failed} \cup [call : {"success"}, response : Response]

DeliveryTypeOK ==
    /\ TypeOK
    /\ pc \in [Req -> {"idle"} \cup Active \cup Ended]
    /\ request \in [Req -> IntentId \cup {None}]
    /\ claim \in [Req -> Claim \cup {None}]
    /\ seen \in [Req -> Evidence \cup {None}]
    /\ job \in [Req -> Job]
    /\ chain \subseteq Transfer
    /\ head \in 0..MaxHead
    /\ clock \in Time
    /\ restarts \in 0..MaxRestarts

Init ==
    /\ LedgerInit
    /\ pc = [q \in Req |-> "idle"]
    /\ request = [q \in Req |-> None]
    /\ claim = [q \in Req |-> None]
    /\ seen = [q \in Req |-> None]
    /\ job = [q \in Req |-> NotCalled]
    /\ chain = {}
    /\ head = 0
    /\ clock = 0
    /\ restarts = 0

-----------------------------------------------------------------------------
(* The middleware and the facilitator's verify. *)

\* A client sends a signed authorization for a paid path.
Arrive(q) ==
    /\ pc[q] = "idle"
    /\ \E id \in IntentId : request' = [request EXCEPT ![q] = id]
    /\ pc' = [pc EXCEPT ![q] = "verifying"]
    /\ UNCHANGED <<ledger, claim, seen, job, world>>

\* The facilitator accepts the signature; the paid handler runs.
VerifySucceeds(q) ==
    /\ pc[q] = "verifying"
    /\ pc' = [pc EXCEPT ![q] = "serving"]
    /\ UNCHANGED <<ledger, request, claim, seen, job, world>>

\* recover_claim, up to its first await: only a durable intent for exactly
\* this request and a durable claim for it can recover a failed verification.
Recoverable(q) ==
    {c \in ClaimsOf(request[q].auth) : \E i \in intents :
        i.auth = request[q].auth /\ IdOfIntent(i) = request[q]}

VerifyFails(q) ==
    /\ pc[q] = "verifying"
    /\ \/ /\ Recoverable(q) = {}
          /\ pc' = [pc EXCEPT ![q] = "refused"]
          /\ UNCHANGED claim
       \/ \E c \in Recoverable(q) :
          /\ claim' = [claim EXCEPT ![q] = c]
          /\ pc' = [pc EXCEPT ![q] = "recovering"]
    /\ UNCHANGED <<ledger, request, seen, job, world>>

\* The handler answers 404: the middleware returns it and never settles.
HandlerDeclines(q) ==
    /\ pc[q] = "serving"
    /\ pc' = [pc EXCEPT ![q] = "declined"]
    /\ UNCHANGED <<ledger, request, claim, seen, job, world>>

-----------------------------------------------------------------------------
(* before_settle, up to its first await. *)

\* The intent is rebuilt with now(), so it must still be inside its window.
AcceptsSettle(q) ==
    /\ ValidAt(request[q], clock)
    /\ AcceptsIntent(IntentAt(request[q], clock))

BeforeSettleRefuses(q) ==
    /\ pc[q] = "serving"
    /\ ~AcceptsSettle(q)
    /\ pc' = [pc EXCEPT ![q] = "refused"]
    /\ UNCHANGED <<ledger, request, claim, seen, job, world>>

\* Mutant: the facilitator is asked before anything is durable.
BeforeSettleUnrecorded(q) ==
    /\ pc[q] = "serving"
    /\ AcceptsSettle(q)
    /\ ClaimsOf(request[q].auth) = {}
    /\ pc' = [pc EXCEPT ![q] = "settling"]
    /\ job' = [job EXCEPT ![q] = Calling]
    /\ seen' = [seen EXCEPT ![q] = None]
    /\ UNCHANGED <<ledger, request, claim, world>>

\* The durable intent, and the claim of an earlier attempt if there is one:
\* without one the facilitator is asked to settle.
BeforeSettle(q) ==
    /\ pc[q] = "serving"
    /\ AcceptsSettle(q)
    /\ RecordIntent(IntentAt(request[q], clock))
    /\ \/ /\ ClaimsOf(request[q].auth) = {}
          /\ pc' = [pc EXCEPT ![q] = "settling"]
          /\ job' = [job EXCEPT ![q] = Calling]
          /\ UNCHANGED claim
       \/ \E c \in ClaimsOf(request[q].auth) :
          /\ pc' = [pc EXCEPT ![q] = "resuming"]
          /\ claim' = [claim EXCEPT ![q] = c]
          /\ UNCHANGED job
    /\ seen' = [seen EXCEPT ![q] = None]
    /\ UNCHANGED <<request, world>>

-----------------------------------------------------------------------------
(* The settle call. *)

Mined(tx) == {t \in chain : t.event.tx = tx}
Consumed(auth) == {t \in chain : t.auth = auth}

\* The facilitator broadcasts, the token consumes the nonce inside its
\* window, and a success response is on its way.
FacilitatorSettles(q) ==
    /\ job[q] = Calling
    /\ head < MaxHead
    /\ Consumed(request[q].auth) = {}
    /\ ValidAt(request[q], clock)
    /\ \E tx \in Tx, log \in LogIndex :
        /\ Mined(tx) = {}
        /\ chain' = chain \cup {[auth |-> request[q].auth, before |-> request[q].before,
                                 event |-> [tx |-> tx, log |-> log], block |-> head + 1]}
        /\ job' = [job EXCEPT ![q] = Succeeded(tx, TRUE)]
    /\ head' = head + 1
    /\ UNCHANGED <<ledger, locals, clock, restarts>>

\* A nonce already consumed: an idempotent facilitator names its transaction.
FacilitatorRepeats(q) ==
    /\ job[q] = Calling
    /\ \E t \in Consumed(request[q].auth) :
        job' = [job EXCEPT ![q] = Succeeded(t.event.tx, TRUE)]
    /\ UNCHANGED <<ledger, locals, world>>

\* A success response is a claim: it may name any transaction and amount.
FacilitatorMisreports(q) ==
    /\ Misreports
    /\ job[q] = Calling
    /\ \E tx \in Tx, exact \in BOOLEAN : job' = [job EXCEPT ![q] = Succeeded(tx, exact)]
    /\ UNCHANGED <<ledger, locals, world>>

FacilitatorFails(q) ==
    /\ job[q] = Calling
    /\ job' = [job EXCEPT ![q] = Failed]
    /\ UNCHANGED <<ledger, locals, world>>

\* Mutant: the settle call has no timeout.
SettleAwaitsAnswer(q) ==
    /\ pc[q] = "settling"
    /\ job[q] = Failed
    /\ pc' = [pc EXCEPT ![q] = "unobserved"]
    /\ UNCHANGED <<ledger, request, claim, seen, job, world>>

\* The settle call fails, times out, or its answer cannot be used.  What the
\* facilitator is doing goes on.
SettleUnanswered(q) ==
    /\ pc[q] = "settling"
    /\ pc' = [pc EXCEPT ![q] = "unobserved"]
    /\ UNCHANGED <<ledger, request, claim, seen, job, world>>

-----------------------------------------------------------------------------
(* after_settle, up to its first await. *)

ClaimFrom(q, i) == ClaimAt(IdOfIntent(i), job[q].response.tx, job[q].response.exact, clock)

\* Mutant: the claim is kept in memory until Celo confirms it.
AfterSettleInMemory(q) ==
    /\ pc[q] = "settling"
    /\ job[q].call = "success"
    /\ \E i \in intents :
        /\ i.auth = request[q].auth
        /\ AcceptsClaim(ClaimFrom(q, i))
        /\ claim' = [claim EXCEPT ![q] = ClaimFrom(q, i)]
    /\ pc' = [pc EXCEPT ![q] = "admitting"]
    /\ UNCHANGED <<ledger, request, seen, job, world>>

AfterSettle(q) ==
    /\ pc[q] = "settling"
    /\ job[q].call = "success"
    /\ \E i \in intents :
        /\ i.auth = request[q].auth
        /\ \/ /\ AcceptsClaim(ClaimFrom(q, i))
              /\ RecordClaim(ClaimFrom(q, i))
              /\ claim' = [claim EXCEPT ![q] = ClaimFrom(q, i)]
              /\ pc' = [pc EXCEPT ![q] = "admitting"]
           \/ /\ ~AcceptsClaim(ClaimFrom(q, i))
              /\ pc' = [pc EXCEPT ![q] = "refused"]
              /\ UNCHANGED <<ledger, claim>>
    /\ UNCHANGED <<request, seen, job, world>>

-----------------------------------------------------------------------------
(* admit_claim: observe Celo, reconcile, admit. *)

\* Mutant: the transaction is found by its hash and not decoded.
ConfirmedByHash(c) == {t \in chain : t.event.tx = c.tx /\ head - t.block + 1 >= MinConf}

\* The one transfer a claim can be observed by: the claimed transaction ran
\* the authorization of the intent, and is deep enough.
Confirmed(c) ==
    {t \in chain : /\ t.event.tx = c.tx
                   /\ t.auth = c.intent.auth
                   /\ t.before = c.intent.before
                   /\ head - t.block + 1 >= MinConf}

ReadChain(q) ==
    /\ pc[q] \in Observing
    /\ seen[q] = None
    /\ claim[q].intent = request[q]
    /\ Confirmed(claim[q]) # {}
    /\ seen' = [seen EXCEPT ![q] = head]
    /\ UNCHANGED <<ledger, pc, request, claim, job, world>>

\* Any of the reads fails, or the verifier rejects what it read.
ReadFails(q) ==
    /\ pc[q] \in Observing
    /\ pc' = [pc EXCEPT ![q] = "unobserved"]
    /\ UNCHANGED <<ledger, request, claim, seen, job, world>>

EventOf(c) == CHOOSE e \in Event : \E t \in chain : t.event = e /\ e.tx = c.tx

Observed(q) == ObservationOf(claim[q], EventOf(claim[q]), seen[q], clock)
Reconciled(q) == SettlementOf(claim[q], Observed(q), clock)

AcceptsClaimed(q) ==
    /\ Reconciles(request[q], claim[q], Observed(q))
    /\ AcceptsSettlement(Observed(q), Reconciled(q))

\* Mutant: an authorization that is settled already needs no observation.
AdmitSettledAlready(q) ==
    /\ pc[q] \in Observing
    /\ \/ seen[q] # None /\ AcceptsClaimed(q) /\ AdmitSettlement(Observed(q), Reconciled(q))
       \/ (\E s \in settlements : s.intent = request[q]) /\ UNCHANGED ledger
    /\ pc' = [pc EXCEPT ![q] = IF pc[q] = "recovering" THEN "serving" ELSE "releasing"]
    /\ UNCHANGED <<request, claim, seen, job, world>>

\* A recovered request goes on to its handler; one in a settle hook is paid.
AdmitClaim(q) ==
    /\ pc[q] \in Observing
    /\ seen[q] # None
    /\ AcceptsClaimed(q)
    /\ AdmitSettlement(Observed(q), Reconciled(q))
    /\ pc' = [pc EXCEPT ![q] = IF pc[q] = "recovering" THEN "serving" ELSE "releasing"]
    /\ UNCHANGED <<request, claim, seen, job, world>>

AdmissionRefused(q) ==
    /\ pc[q] \in Observing
    /\ seen[q] # None
    /\ ~AcceptsClaimed(q)
    /\ pc' = [pc EXCEPT ![q] = "refused"]
    /\ UNCHANGED <<ledger, request, claim, seen, job, world>>

\* The buffered body is sent.
Release(q) ==
    /\ pc[q] = "releasing"
    /\ pc' = [pc EXCEPT ![q] = "delivered"]
    /\ UNCHANGED <<ledger, request, claim, seen, job, world>>

-----------------------------------------------------------------------------
(* The rest of the world. *)

\* Every request in flight is lost; the database and the facilitator go on.
Restart ==
    /\ restarts < MaxRestarts
    /\ restarts' = restarts + 1
    /\ pc' = [q \in Req |-> IF pc[q] \in Active THEN "dropped" ELSE pc[q]]
    /\ UNCHANGED <<ledger, request, claim, seen, job, chain, head, clock>>

Block ==
    /\ head < MaxHead
    /\ head' = head + 1
    /\ UNCHANGED <<ledger, locals, job, chain, clock, restarts>>

Tick ==
    /\ clock < MaxClock
    /\ clock' = clock + 1
    /\ UNCHANGED <<ledger, locals, job, chain, head, restarts>>

Hook(q) ==
    \/ VerifySucceeds(q) \/ VerifyFails(q) \/ HandlerDeclines(q)
    \/ BeforeSettleRefuses(q) \/ BeforeSettle(q)
    \/ SettleUnanswered(q) \/ AfterSettle(q)
    \/ ReadChain(q) \/ ReadFails(q) \/ AdmitClaim(q) \/ AdmissionRefused(q)
    \/ Release(q)

Facilitator(q) ==
    \/ FacilitatorSettles(q) \/ FacilitatorRepeats(q)
    \/ FacilitatorMisreports(q) \/ FacilitatorFails(q)

Next ==
    \/ \E q \in Req : Arrive(q) \/ Hook(q) \/ Facilitator(q)
    \/ Restart
    \/ Block
    \/ Tick

Spec == Init /\ [][Next]_vars

\* Every await of a request ends (HTTP calls carry timeouts) and the event
\* loop then runs the request's next step.
FairSpec == Spec /\ \A q \in Req : WF_vars(Hook(q))

-----------------------------------------------------------------------------
(* Properties. *)

\* "Only independent Celo observation can admit a final settlement": every
\* settlement, whatever the facilitator claimed, was observed on a transfer
\* that ran its authorization in its window and was MinConf deep at the head
\* the observation names.
SettledOnChain ==
    \A s \in settlements : \E o \in observations, t \in chain :
        /\ IdOfObservation(o) = s.observation
        /\ t.event = s.event
        /\ t.auth = s.auth
        /\ t.before = s.intent.before
        /\ o.evidence <= head
        /\ o.evidence - t.block + 1 >= MinConf

\* "Before /settle, the service durably records a payment intent": every call
\* the facilitator has received, also one whose request is long gone, and
\* every transfer it mined, has its intent in the ledger.
IntentBeforeEffect ==
    /\ \A q \in Req : job[q] # NotCalled => HasIntent(request[q])
    /\ \A t \in chain : \E i \in intents : i.auth = t.auth /\ i.before = t.before

\* The hooks write the ledger only as the ledger allows any caller to.
WritesLedger == LedgerSpec

\* "Retrying the same authorization re-observes that transaction": once any
\* request has held a claim of an authorization, as the facilitator's answer or
\* from the ledger, no request with that authorization is submitted again, also
\* when the one that held it has failed, was refused or was lost in a restart.
\* Only submissions that nothing has answered yet can be several.
AnsweredIsNotResubmitted ==
    [][\A p, q \in Req :
        job[q] = NotCalled /\ job'[q] # NotCalled /\ claim[p] # None
          => request[p].auth # request[q].auth]_vars

\* The response of a paid request names the transaction of its own claim.
\* However many claims the submissions of one authorization have recorded, and
\* whichever of them the lookup returned, a response that is sent names the
\* transfer that consumed the authorization, and the claim that was settled.
ReceiptIsThePayment ==
    \A q \in Req : pc[q] \in {"releasing", "delivered"} =>
        /\ \E t \in chain : t.auth = request[q].auth /\ t.event.tx = claim[q].tx
        /\ \E s \in settlements : s.intent = request[q] /\ s.claim = IdOfClaim(claim[q])

\* admit_claim refuses a transfer it has observed only where it has admitted
\* that transfer before, at another head, or the facilitator misreported it.
RefusedOnlyOnDrift ==
    [][\A q \in Req :
        pc[q] \in Observing /\ pc'[q] = "refused"
          => \/ ~claim[q].exact
             \/ \E o \in observations : o.intent = request[q] /\ o.evidence # seen[q]]_vars

\* How the service's state reads as a PaidDelivery.
BoundPairs == {<<i.auth, i.resource>> : i \in intents}
SpentAuths == {t.auth : t \in chain}
SettledPairs == {<<s.auth, s.intent.resource>> : s \in settlements}
DeliveredPairs ==
    {<<request[q].auth, request[q].resource>> : q \in {x \in Req : pc[x] = "delivered"}}

Promise == INSTANCE PaidDelivery WITH
    bound <- BoundPairs, spent <- SpentAuths,
    settled <- SettledPairs, delivered <- DeliveredPairs

\* The paid routes promise what PaidDelivery states, through every retry,
\* restart and lost reply.
KeepsPromise == Promise!Spec

\* Every request is answered, or lost to a restart.
EveryRequestEnds == \A q \in Req : pc[q] = "verifying" ~> pc[q] \in Ended

\* A retry in the plain sense: every earlier attempt is over and none of them
\* delivered what the authorization pays for.
Retry(q) == \A p \in Req \ {q} :
    pc[p] \notin Active /\ (pc[p] = "delivered" => request[p] # request[q])

Settled(id) == \E s \in settlements : s.intent = id

\* README: "Retrying the same authorization re-observes that transaction and,
\* once admitted, resumes delivery": a request whose payment is admitted and
\* whose transfer is observed again is not refused by the ledger.
RetryResumes ==
    [][\A q \in Req :
        pc[q] = "resuming" /\ Retry(q) /\ Settled(request[q]) => pc'[q] # "refused"]_vars

\* CONSTITUTION: "Settlement and entitlement commit atomically or remain safely
\* retryable": before_settle does not refuse a request whose payment is admitted.
SettledStaysRetryable ==
    [][\A q \in Req :
        pc[q] = "serving" /\ Retry(q) /\ Settled(request[q]) => pc'[q] # "refused"]_vars

=============================================================================
