# Verification of SNE-SEC on Celo

TLA+ models of the code in `src/sne_sec_celo/` (payments, settlement, reviews, registration and
provisioning) and of the page in `web/src/`
that pays for a review, the TLC instances that check them, and theorems about them that TLAPS proves for
all values of the constants.
Paths below are relative to the repository; `payments.py` without a directory is
`src/sne_sec_celo/payments.py`.

1. [The system](#1-the-system)
2. [The modules and the code](#2-the-modules-and-the-code)
3. [Runs](#3-runs)
4. [Proofs](#4-proofs)
5. [Where the code and its documents disagree](#5-where-the-code-and-its-documents-disagree)
6. [Limits](#6-limits)
7. [Plan](#7-plan)

## 1. The system

SNE-SEC reviews the public HTTP surface of a reference and publishes the result. Two representations
of a review (the full record and the comparison with an earlier one) are paid for with an x402
payment in Celo USDC. The agent has an ERC-8004 identity on Celo, minted once from an operator's
workstation.

| component | code | state it keeps | operations |
|---|---|---|---|
| payment records | `payments.py` | none: four frozen record types with content digests | constructors with their checks, `authorization_identity`, `build_payment_intent`, `build_facilitator_claim`, `reconcile_settlement` |
| payment ledger | `payment_store.py` | SQLite: `payment_intents`, `facilitator_settlement_claims`, `celo_settlement_observations`, `payment_settlements` | `record_intent`, `record_claim`, `admit_settlement`; lookups by identity and by authorization |
| x402 runtime | `x402_runtime.py`, `api.py` | per request: the context of the x402 library; otherwise the ledger | hooks `before_settle`, `after_settle`, `recover_claim`; `admit_claim`; a facilitator client that refuses redirects and foreign networks |
| Celo verifier | `celo_settlement.py` | none | `verify`: chain id, receipt, transaction, head, the receipt's block, then an observation |
| ERC-8004 registration | `erc8004_registration.py` | one record in the operational vault | `mint` (prepare, sign, broadcast), `reconcile` |
| operational provisioning | `operational_provisioning.py` | the encrypted vault; Railway variables | prepare identity, issue facilitator key, publish |
| wallet provisioning | `wallet_provisioning.py` | a bundle of three files | create a wallet's bundle, verify one |
| reference collector | `provider.py`, `targets.py`, `transport.py` | per assessment: the hop, the visited URLs, the observations | bounded, pinned, redirect-following GETs |
| rules and domain | `rules.py`, `evidence.py`, `domain.py` | none | evaluation, score, comparison of two reviews |
| review store and API | `store.py`, `service.py`, `projections.py`, `codec.py`, `api.py` | SQLite: `completed_reviews` | create, read, compare, the paid and the free projections |
| agent file, CLI | `agent.py`, `cli.py` | none | rendering |
| web client | `web/src/` | React state of one unlock | sign, pay, retry |

### How they interact

A paid request enters the ASGI middleware of the x402 library. The facilitator verifies the
signature; the paid handler runs and its response is buffered; `before_settle` writes the intent; the
facilitator is asked to settle; `after_settle` writes the claim, has `CeloSettlementVerifier` observe
the chain and admits observation and settlement in one SQLite transaction; then the buffered response
is sent. If verification fails because the authorization is already spent, `recover_claim` looks for a
durable claim, re-observes and re-admits it, and the handler runs after all. If `before_settle` finds a
claim it admits that one and skips the facilitator. A hook that raises makes the request a 402.

Hooks are coroutines in one event loop and one process. They give up control only at an await: the
facilitator's HTTP call and the verifier's reads of Celo. Everything between two awaits, each SQLite
transaction included, is one step. The database survives a restart; the requests do not.

The registration commands are separate processes. They share with the provisioning commands one vault
file that is loaded whole, changed in memory and replaced whole; nothing locks it.

A review is made by a POST or a CLI command: the reference provider collects, the rule engine evaluates,
the constructors of `domain.py` check the result, and the store inserts it. The paid handlers read the
store before anything is recorded for a payment. The page posts an origin, shows the free preview, and
on *unlock* has the wallet sign an authorization and asks for the paid path; it keeps nothing.

### What is hard, and what makes each component correct

`PROJECT.json` lists the hazards line by line. The main ones:

- *Interleaving at the awaits.* Several requests present one authorization, for one resource or for
  two, before any of them has a durable claim. Correct means: an authorization belongs to the first
  resource it was recorded for; nobody else is ever delivered anything for it.
- *Effects whose answer is lost.* The facilitator, or the RPC of the registration, acts and the answer
  never arrives, or the process stops. Correct means: the durable record comes before the effect, and
  the effect is not asked for again.
- *Claims that are false.* The facilitator's success may name another transaction or amount. Correct
  means: only what was observed on Celo settles.
- *Replays.* Each record is written again by each retry. Correct means: the same record is
  accepted and changes nothing, another one under the same key is refused, and admission is atomic.
- *Reads that are not one.* The verifier reads Celo five times and the chain may be replaced between two
  of them; a name is resolved again at each redirect; a bundle is read file by file while files are
  copied. Correct means: what is concluded holds at one moment, and for the thing it is said of.
- *Facts of any shape.* A provider may hand in a fact twice, malformed, or not at all, and two reviews
  may come from different rulesets. Correct means: unknown never becomes PASS, nor a change in coverage
  an improvement.
- *Time and the chain move on.* The authorization's window closes and the head advances between two
  attempts. This is where the code does not do what its documents say (section 5).

## 2. The modules and the code

```
PaymentRecords                 the records, their identities, reconciliation
  └ PaymentLedger              four tables, three operations        ── X402Delivery_proofs
      └ X402Delivery           requests, hooks, facilitator, Celo   ── X402Delivery_proofs
           ├ implements PaidDelivery      (what the paid routes promise)
           ├ implements PaymentLedger     (proved: ServiceWritesLedger)
           ├ PaidReviews          with the reviews it sells      ── PaidRoutes_proofs
           └ WebUnlock            with the page that pays        ── PaidRoutes_proofs
CeloSettlementVerifier         verify over a chain that rolls back  ── CeloSettlementVerifier_proofs
OneShotEffect                  what save-before-effect promises
  ├ implemented by Erc8004Registration      (mint, reconcile)    ── OperationalVault_proofs
  └ implemented by OperationalProvisioning  (the credential)     ── OperationalVault_proofs
OperationalVault               both commands over the one vault file (extends both modules)
                                                                    ── OperationalVault_proofs
WalletProvisioning             wallet bundles, their copies and their verification
                                                                    ── WalletProvisioning_proofs
ReviewDomain                   rules, evidence, findings, score, comparison (operators)
  │                                                                 ── ReviewDomain_proofs
  ├ ReviewStore                requests that create reviews         ── ReviewStore_proofs
  └ ReferenceCollector         one assessment                       ── ReferenceCollector_proofs
```

### PaymentRecords

An identity that the code computes as a digest is the record of the digested fields: digests are
injective. One offer fixes network, asset, payee and amount, and the constructors reject anything else,
so an intent is an authorization, a resource and the end of the validity window. The one place where an
amount or payer may differ from the intent's is the facilitator's response; a claim's `exact` says
whether they agree. Each record carries the one time that the store ignores when it compares a replay
with a durable row. `Reconciles` is `reconcile_settlement`. The start of the validity window is left
out: authorizations are presented after it.

### PaymentLedger

`intents`, `claims`, `observations` and `settlements` are the tables. `IntentRows`, `ClaimRows`,
`ObservationRows` and `SettlementRows` are the `SELECT … WHERE … OR …` by which each operation looks for
rows that share a key with the new record; `Admits` and `Insert` are what follows: no row, insert; one
row that is the same except for its time, nothing; otherwise `InvariantViolation` and a rollback, which
is the absence of a step. The schema's UNIQUE and FOREIGN KEY constraints are not assumed by the
operations: they are the invariant `KeysHold`, so the run and the proof show that the store's own checks
already imply them. `LedgerSpec` lets any caller that builds its records with `payments.py` do anything
at any time.

### X402Delivery

One delivery attempt per element of `Req`. `pc[q]` is the await (or the middleware stage) a request is
at:

| `pc` | code |
|---|---|
| `verifying` | the facilitator's verify |
| `recovering` | `recover_claim`, awaiting the verifier |
| `serving` | the paid handler, then `before_settle` up to its await |
| `resuming` | `before_settle`, awaiting the verifier for an earlier claim |
| `settling` | the facilitator's settle |
| `admitting` | `after_settle`, awaiting the verifier |
| `releasing` | the buffered response is being sent |
| `delivered`, `declined`, `refused`, `unobserved`, `dropped` | sent; the handler's 404; a 402 by a check; a 402 because a call gave nothing usable; lost to a restart |

`claim[q]` and `seen[q]` are what a hook holds across its awaits: the claim it is admitting, and the
head it read. `job[q]` is the request's settle call at the facilitator, which goes on when the request
has given up. `chain` is the set of transfers mined by Celo's USDC.

An admission is two steps: `ReadChain`, the verifier's reads, and `AdmitClaim` or
`AdmissionRefused`, the reconciliation and the SQLite transaction. In the code nothing is awaited
between the last read and the transaction; the model lets other steps in between, which only adds
behaviours. The hooks that the middleware calls in a fixed order are separate actions because each ends
at an await.

External, modelled from how `x402_runtime.py` and its tests use them: the middleware; the facilitator,
which may settle, answer again for a nonce it consumed, fail, or (constant `Misreports`) name any
transaction; Celo, whose token consumes a nonce once and inside its window.

### PaidDelivery

The abstract promise, in four sets and four actions: an authorization is *bound* to one resource before
it may be *spent*, only a spent one is *settled* and only for the resource it is bound to, and only a
settled one is *delivered*. There are no requests, retries, replies, restarts or tables in it.
`X402Delivery` implements it under the refinement mapping `BoundPairs`, `SpentAuths`, `SettledPairs`,
`DeliveredPairs`.

### Erc8004Registration

`record` is the entry `erc8004_registration` of the operational vault, or `Absent`; `loaded[c]` is the copy
a command loaded and works on; `registering[c]` is where the command is; every save replaces the record by
the copy. A `mint` is `StartMint` (the first load: no record, a record of this URI, or a refusal),
`CheckUnowned`, `Draft`, `PersistIntent`, then `Reload` (the second load), `CompareFacts`, `SaveSigned`,
`SaveUnknown`, `Send`, `SaveAccepted`. A `reconcile` is `LoadForReconcile`, `Observe`, `SaveReconciled`.
`EndEarly` ends a command at any point: a refusal, a failed read, or a crash all leave the vault as it was
last saved. `pool`, `mined` and `nonce` are the mempool, the wallet's mined transactions and its nonce;
`OtherTransaction` is the wallet being used by something else, `Evict` a transaction that the mempool
drops. Signing is deterministic, so a transaction's hash is the transaction. The reads that only confirm
deployment constants and balances change nothing and are abstracted to the choice between going on and
`EndEarly`.

### OneShotEffect

The abstract promise of save-before-effect, for a set of effects: an effect happens at most once, only
after the durable record says that it may, and the record says that it did only after it did. A certain
refusal takes the record back. `Erc8004Registration` implements it for the mint (`MintStage`, and `times` is
the number of broadcasts), `OperationalProvisioning` for each vault's credential (`Stages`,
`Issuances`: credentials issued to the vault's wallet).

### OperationalProvisioning

`vault[v]` is the identity in a vault file, `copy[c]` a command's copy of it, `issued` what the
facilitator's portal has issued, whether the answer arrived or not, `railway` the service's variables and
`deployed` those the running service was started with. A command is `Start` (load, treasury check),
`CreateWallet`, then `KeepKey` or `MarkInFlight`, `Submit` and one of `SaveIssued`, `SaveRejected`,
`SaveAmbiguous`, then `LoadToPublish`, `Publish` three times, `Enable`. `Stop` ends it anywhere.
`Deploy` may happen at any time: the CLI suppresses deployments for the first three variables, but a push
to the repository deploys too.

### CeloSettlementVerifier

`chain` is the canonical chain, `head` its length and `peak` the longest it has been. `Grow` adds a block
with at most one transaction of interest, executed or reverted; `RollBack` takes blocks away, never one
`MaxReorg` or more below `peak`. A block's hash is the contents up to it. A call is `Begin` (the claim's
checks and the chain id), `ReadReceipt`, `ReadTransaction`, `ReadHead`, which is followed by every check
on the three answers because nothing is awaited between them, and `ReadCanonical`, which compares the
block at the receipt's height, counts the confirmations and makes the observation. `ReadFails` ends it at
any read. Blocks may be added and removed between any two reads, and after the last.

### ReviewDomain, ReviewStore, ReferenceCollector, PaidReviews

`ReviewDomain` has no state: `Outcome` is `_evaluate_one`, `Review` what `assess` makes of a
collection, `Accepted` the checks of the constructors (a separate statement of the same facts, in the code
as in the model), `Change` the matrix of `build_review_diff`. An observation's position is its identity.
`Risk`, the sum of the findings' weights, is written severity by severity, each weight times the number of
findings that have it.

`ReviewStore` has one request per POST or CLI command, each with the ruleset of its own release, and the
table as a function from review id to `Review`. The rule engine, the constructors and the insert follow
the collection without an await, so `Assess` is one step. `Collection` is whatever a provider may have
collected.

`ReferenceCollector` is one assessment: `Enter` (loop check), `Resolve` (all answers public, or
rejected), then one of `ConnectionFails`, `ExchangeFails`, `FetchFinal`, `FetchRedirect`,
`FetchRefused`. Each hop resolves again, and any address may turn out to be connected. `sent` is every
request that went out. A URL is a model value with a scheme and an origin.

`PaidReviews` joins `X402Delivery` to the store: a request passes the handler only if the reviews that its
path names are stored (`HandlerAnswers`), while `Create` adds reviews at any time.

### OperationalVault

Extends `OperationalProvisioning` and `Erc8004Registration` and joins their commands over one file. Each
command's load also takes a copy of the other part (`kept`, `held`) and each of its saves writes that copy
back. With `Overlap` FALSE a command starts when the others have ended. A mint asks for the wallet that
provisioning made. Writing the temporary file and `os.replace` are one step.

### WalletProvisioning

The three files of each directory, each absent, `Torn` or whole. A command creates the directory and
each file exclusively, in two steps per file (open, written); the digest is taken from the disk. `Copy` is
the operator's, one file at a time, over what is there, perhaps in part. A verification reads manifest,
keystore and, for the digest, the keystore again.

### WebUnlock

`phase`, `preview` and `asked` are the state of `App.tsx` that matters, over `X402Delivery` as the server.
`Pay` is a fresh signature and the request it goes with; `ReplyLost` leaves the server's request running;
`Reload` forgets everything.

## 3. Runs

| run | instance | checks | distinct states |
|---|---|---|---|
| `ledger` | 2 authorizations, 2 resources, 2 windows, 2 transactions, 2 logs each, 2 heads, 2 clock readings; symmetric | `KeysHold`, `SettlementBindsEvidence`, `OneEffectOneIntent`, `ObservationsAreSettled`, `ReplayAccepted` | 15,442 |
| `paid_delivery` | `PaidReviews`: 2 requests, 2 authorizations, 2 paths over 2 reviews, 2 transactions, misreports, 2 confirmations, head ≤ 3, a window that closes, 1 restart; symmetric | `SettledOnChain`, `IntentBeforeEffect`, `PaidForServable`, `KeepsPromise`, `AnsweredIsNotResubmitted`, `ReceiptIsThePayment`, `RefusedOnlyOnDrift`, `SettledIsServed` | 159,040 |
| `web_unlock` | 2 reviews, 2 authorizations, 2 paid requests, 1 transaction, head ≤ 2, 1 restart | `PageTypeOK`, `UnlockedIsPaid`, `UnlockEnds`, `EveryRequestEnds` | 203,636 |
| `verifier` | 2 calls, 1 authorization, 2 transactions, confirmations 2, rollbacks of 1, height ≤ 3; symmetric | `ObservationIsFinal`, `OneTransferPerAuthorization`, `ReadsAreAtomic` | 1,814,635 |
| `reviews` | 2 requests, 2 ids, 2 sites, 4 rulesets, 70 collections; symmetric | `StoreTypeOK`, `EngineIsAccepted`, `OutcomesAreObserved`, `EachCreatedIsStored`, `DiffReadsBothWays`, `DiffExplainsRisk` | 38,264 |
| `collector` | 5 URLs, 1 of them plain HTTP, 3 addresses, 1 of them private, 3 redirects, 2 headers | `RequestsArePublic`, `ObservationsTellTheWay`, `CompletedIsDecided`, `AssessmentEnds` | 10,728 |
| `vault_in_turn` | `OperationalVault`: 1 command of each kind, in turn, any number of times, 2 treasuries, 2 wallets, 2 credentials, 2 URIs, 2 gas estimates, 3 nonces; symmetric | `PublishedTogether`, `IssuedOnce`; `EffectIsRecorded`, `MintIsOneShot`; `KindsStandApart` | 70,304 |
| `vault_overlap` | `OperationalVault`: 1 command of each kind at once, 1 wallet, 1 credential, 1 nonce | `NoFalseEvidence`, `WalletSurvives` | 1,936,328 |
| `wallet_bundles` | 2 commands, 2 destinations, 1 backup, 2 wallets, 2 passwords; symmetric | `WalletTypeOK`, `ReportedIsKept`, `VerifiedIsRecoverable` | 250,571 |
| `retry_resumes` | 2 requests, 1 authorization | `RetryResumes`: refuted | |
| `settled_stays_retryable` | 2 requests, 1 authorization, a window that closes | `SettledStaysRetryable`: refuted | |
| `incomplete_publication` | `OperationalProvisioning` by itself: 2 vaults, 2 treasuries, 2 wallets, 2 credentials | `PublishedTogether`: refuted | |

What they show:

- **ledger.** Whatever callers do, the store's checks keep the keys of the schema
  (`KeysHold`), settlements agree with a durable intent, claim and observation
  (`SettlementBindsEvidence`), one transaction or authorization settles one intent
  (`OneEffectOneIntent`: stronger than any one key, because it follows from three of them together),
  observation and settlement are one commit (`ObservationsAreSettled`), and a durable record can be sent
  again at any time (`ReplayAccepted`). That nothing is rewritten (`AppendOnly`) is proved.
- **paid_delivery.** *Before the effect:* when the facilitator is asked, and before any transfer, the intent
  is durable, also for calls whose request is long gone. *What may be submitted twice:* requests that overlap
  before any answer may each submit the same authorization, and several claims of it may become durable; once
  any request has held one of them, the authorization is not submitted again, whatever became of that request
  (`AnsweredIsNotResubmitted`). Whichever claim a lookup then returns, a response names the transfer that
  consumed the authorization and the claim that was settled (`ReceiptIsThePayment`). *What settles:* a settlement
  names a transfer that ran its authorization and was deep enough at the head the observation names,
  whatever the facilitator said. *What is promised:* the paid routes refine `PaidDelivery`. *What is refused:*
  `RefusedOnlyOnDrift` is the exact extent of the first disagreement of section 5: an observed claim is
  refused only if the facilitator misreported or the same transfer was admitted before at another head.
  *What is sold:* no intent is recorded and no transfer executed for a path whose reviews are not stored, and
  a payment once admitted never meets a 404.
- **web_unlock.** A page that shows the full review is paid for by a settlement of that path on an
  authorization of this wallet, whatever replies were lost and however often the page was reloaded. No paid
  request is waited for without end, and every request at the server ends.
- **verifier.** The five reads count as one: what is returned is true of the chain at the last read, because
  a block hash commits to everything below it and the canonical block is read last (`ReadsAreAtomic`; the
  depth is measured against `peak`, since the head was read earlier). If no rollback reaches the
  confirmation depth, what was observed stays, also when rollbacks happened between the reads
  (`ObservationIsFinal`), and two verifications never observe two transfers for one authorization.
- **reviews.** Whatever is collected, admitted observations make a review that the constructors accept, and
  a stored PASS or FAIL is of a rule of some release, rests on the only observation of what that rule asks
  about, well formed and admitted, and says what the observation says. As many requests were answered with a
  201 as there are reviews, so that no identity the factory repeats replaces one (`EachCreatedIsStored`). The
  comparison of two stored reviews reads the same backwards, and explains the difference in risk: over rules of unchanged coverage, what is resolved has no
  risk now, what regressed had none before, and the rest carries the same.
- **collector.** No request goes to an address that is not public, however names resolve from hop to hop;
  a completed collection names each hop in order, with a downgrade if it left HTTPS; its review is accepted,
  admits every observation and decides every rule for the scheme of the last response; and every assessment
  ends.
- **vault_in_turn.** Commands of the two kinds run in turn refine each module's own specification, so
  everything proved of the modules holds over the shared file (`KindsStandApart`; it says nothing of commands
  that overlap, which are the next run's). *Provisioning:* the credential is a one-shot
  effect (`IssuedOnce`, the refinement of `OneShotEffect`) through lost answers, rejections and stops, and the
  enabled service runs on exactly that vault's identity. *Registration:* after any sequence of commands, each
  stopped anywhere, what may be on the network is exactly what the vault names, in a state that says so, and
  the mint is a one-shot effect (`MintIsOneShot`).
- **vault_overlap.** When the commands overlap, the later save brings back the other part as it was; still,
  the wallet is never lost (a mint needs one, and it does not change) and the vault claims no effect that
  did not happen. What is lost is told at the end of section 5.
- **wallet_bundles.** A wallet that was reported as created keeps its keystore, manifest and notes, however
  many commands are given the same destination; a verification that succeeds says that the directory holds,
  at that moment, the keystore the password opens, although files may change between the reads.

Some properties are proved and have no run: the types (`TypeCorrect`, `DeliveryTypeCorrect`,
`ProvisioningTypeCorrect`, `RegistrationTypeCorrect`, `VerifierTypeCorrect`, `CollectorTypeCorrect`), what is
never changed (`LedgerIsAppendOnly`, `StoredReviewsStay`, `VaultsKeepIdentities`, `RegistrationAdvances`), the
bound on one assessment's requests (`CollectionIsBounded`), and what stands beside stronger properties of
the runs (`OneBroadcast`, `EnabledOnlyComplete`, `ReconciledIsMined`, `VaultInTurnIsSafe`). So is it that
every step of the service is one the ledger allows (`ServiceWritesLedger`): each hook conjoins the ledger's own
operation, and what the theorem adds is that the ledger's properties carry over to the service.

### Bounds

Two of a kind is where every rule of the ledger can be broken: the rules relate pairs of rows. Two
requests meet at every pair of awaits, and the theorems about them hold for any number. A window and a
clock of two readings give a payment inside the window and one after it. `MaxHead` 3 with `MinConf` 2 has
a head at which a transfer is too young, one at which it is deep enough, and a later one at which it is
observed again. One restart separates any two steps. Three nonces allow the wallet to be used before and
after the registration. Two wallets and two credentials are one more than a vault may use, so that a second
one would show. The bounds `MaxHead`, `MaxClock`, `MaxRestarts`, `MaxHeight` and `MaxNonce` appear in the
guards of the actions they stop, and nowhere else.

Height 3 with a confirmation depth of 2 lets a transaction be observed, be rolled back before it is deep
enough, and run again in another block; two salts make two different blocks with equal contents of
interest. The collections of `reviews` are those the reference collector can hand in, and any with up to two
observations of five kinds (present, absent, malformed, unregistered): two is where a fact is repeated.
Five URLs are one more than the four requests that three redirects allow, so that the limit and the loop
check are met separately; the code's limit, 5, needs no other case, and the theorem holds for any. In
`vault_overlap` one wallet and credential suffice, as the other part is only copied. Two authorizations are
what a page needs to try twice. Several vault files, and several commands of one kind at once, are left to
the theorems: `EnabledOnlyComplete`, `VaultsKeepIdentities` and `ProvisioningIssuesOnce` hold for any number
of vaults, `ReconciledIsMined` for any number of registration commands together, `EvidenceIsTrue` for any
number of overlapping commands of both kinds.

The runs of `PaidReviews`, `X402Delivery` and `WebUnlock` allow termination (`CHECK_DEADLOCK FALSE`):
every request has ended, the facilitator has answered, and the head, the clock and the restarts are at
their bounds. So do those of the verifier, the store and the collector, whose calls, requests and
assessment end. The ledger, the provisioning, the vault and the wallet bundles never
stop, and their runs check deadlock. Symmetry is declared only for values that are compared for equality,
and not in the runs that check liveness.

### Fairness

`WebFairSpec` (like `FairSpec` of `X402Delivery`) assumes weak fairness of `Hook(q)`, the disjunction of a
request's own steps: every await ends, because the verifier's HTTP client has a 15 s timeout and the
facilitator's client its own, and the event loop then runs the request. Each await has an action for its
failure that is enabled as long as the request waits, so the assumption is no more than that. Nothing is
assumed of clients, the facilitator, the chain, the clock, or of restarts. `WebFairSpec` adds, of the page,
that an answer the server has sent reaches a page still waiting for it; nothing is assumed of the user or
the wallet, and a page may never pay. `FairSpec` of the collector assumes that each await ends: the
transport's three carry a timeout of 10 s, and `getaddrinfo` returns.

## 4. Proofs

TLAPS checks each theorem for any sets of authorizations, resources, transactions, requests, rules, URLs,
vaults, and any bounds. Every safety property, action property and refinement that a passing run checks is
also a theorem; what is left to TLC is named at the end of this section.

Assumptions are those stated with the constants; TLC evaluates all of them. Times and deadlines are naturals
(`TimesAreNaturals`), the clock and the heads are intervals from zero (`ClockReadings`,
`HeadsAreEvidence`), the confirmation policy is positive (`Policy`), the nonce bound is a natural
(`NonceBound`), and `None` or `Absent` is not a value (`NoneIsNoValue`, `AbsentIsNoRecord`, `NoneIsNothing`,
`NoneIsNoName`, `NoneIsNoFile`, `NoneIsNotOnThePage`). For the verifier, each transaction submits one
authorization or none (`RunsAuthorizations`), and the policy and the bounds are naturals (`VerifierPolicy`,
`ChainBounds`). For the vault, there is one file (`OneVaultFile`: both kinds of command work on the same path), and for wallet
bundles a destination is not one of the operator's backups (`PlacesDiffer`). For the store, a rule of one
version is the same in every release and a ruleset evaluates an id once (`VersionsAreFixed`), and rulesets
and collections are finite, being tuples. For the collector, it starts with HTTPS, as `normalize_origin`
does; the observed headers are a finite list (`HeadersAreListed`, the tuple `_OBSERVED_SECURITY_HEADERS`);
and in the reference ruleset every rule is about one of them and has an id of its own (`RulesAreOfHeaders`,
`OneRuleForAnId`), as `rulesets/reference-2026.09.1.json` has it.

**X402Delivery_proofs, the ledger.** The inductive invariant `LedgerInv` joins the types, the keys
(`KeysHold`), and the binding of settlements and observations to one another and to the rows they came
from. `OneEffectOneIntent` is not inductive alone: that a transaction settles once follows from claims
being keyed by transaction and each settlement's claim being durable, so it is derived (lemma
`KeysGiveOneEffect`). `ReplayAccepted` is derived too: a row found again is the only one found, because
of the keys. Theorems: `LedgerInvariant`, `TypeCorrect`, `KeysAreUnique`, `SettlementsAreBound`,
`AdmissionIsAtomic`, `OneEffect`, `LedgerIsAppendOnly`, `ReplaysAreAccepted`.

**X402Delivery_proofs, the delivery.** `DeliveryInv` adds to `LedgerInv` what is said of each request
(`RequestInv`): a hook that has read a head has sighted, at that head, a transfer of its claim's
authorization deep enough, and its claim is for its own request; what is being released is settled; what
was asked of the facilitator has a durable intent. `ChainInv` says that a transaction is mined once, a
nonce consumed once, and for a durable intent; `ObservationsOnChain` that every observation saw such a
transfer. `RequestInv` survives the steps of other requests because the ledger and the chain only grow
(`Grows`), which is the lemma most steps cite. Theorems: `DeliveryInvariant`, `DeliveryTypeCorrect`,
`OnlyObservedSettles`, `IntentComesFirst`, `ServiceWritesLedger` (every step of
the service is a ledger step or leaves the ledger alone) and `ServiceKeepsPromise` (the refinement of
`PaidDelivery`).

*Claims and receipts.* `HeldClaimsAreDurable` says that whatever claim a request holds or ever held is in
the claims table, with that request's authorization, whatever step the request is at. So
`before_settle`'s lookup finds one for every authorization that was ever answered. The receipt follows from
`ReleasedAsClaimed`, that what a request releases is settled for its own intent by its own claim, and from the
observation which that settlement names. Theorems: `HeldClaims`, `NothingIsRebroadcast`, `ReceiptsAreTrue`.

*Drift.* That a refused admission is drift or a misreport rests on the same invariant: every row that shares a
key with the new observation or settlement is about the same claim, of the same transfer (`SameTransfer`), the
rows differ in the head alone (`WhatIsObserved`), and with no such row the admission is accepted
(`AdmissionIsAccepted`). Theorem: `OnlyDriftIsRefused`.

**PaidRoutes_proofs, the reviews.** `PaidRoutesAreRoutes` makes every theorem of `X402Delivery` one of the
paid routes; the invariant says that requests past the handler, intents and settlements are for stored
reviews, which are only added. Theorems: `PaidInvariant`, `OnlyServableIsPaid`, `SettledFindsItsReviews`.

**PaidRoutes_proofs, the page.** `WebUsesTheRoutes` does the same for the page. `UnlockedIsPaid` is
inductive with what the page relies on while it waits (`AwaitsItsOwn`): the request it awaits is for the
review on the page, and carries an authorization its wallet signed. A page unlocks on a delivered request, and
what is delivered is settled (`DeliveredIsPaid`, from `DeliveryInv`). Theorems: `WebInvariant`,
`PageTypeCorrect`, `UnlockedHasPaid`.

**OperationalVault_proofs, registration.** For commands run one at a time (the theorems' assumption
`\A x, y \in Registrar : x = y`; commands may be run again and stop anywhere). `RegistrationInv` says
that a command's copy is the vault's record from its load to its last save (`RegistrarInv`), and that the
vault's state tells whether anything was sent: with no record, or in `INTENT_PERSISTED` or `SIGNED`, nothing
was; after an accepted answer or an observed receipt, something was (`RecordInv`).
Theorems: `RegistrationInvariant`, `RegistrationTypeCorrect`, `EffectComesRecorded`, `OneBroadcast`,
`RegistrationAdvances`, `RegistrationIsOneShot` (the refinement of `OneShotEffect`).

`ReconciledIsMined` (`EvidenceIsMined`) needs no such assumption: for any number of commands that
overwrite each other's records, every record, in the vault or in a command's copy, that says `RECONCILED`
is of a mined transaction (`EvidenceInv`).

**OperationalVault_proofs, provisioning.** For commands one at a time over any number of vaults. The
invariant ties the command's copy to its vault from load to save, a vault's credential state to what was
issued for its wallet, and the published variables to complete vaults; `OneVaultPublishesTogether` adds that
there is one vault, from which alone every variable comes. Theorems: `ProvisioningInvariant`,
`ProvisioningTypeCorrect`, `EnabledOnlyComplete`, `OneVaultPublishesTogether`, `VaultsKeepIdentities`,
`ProvisioningIssuesOnce` (the refinement of `OneShotEffect`).

**OperationalVault_proofs, the one file.** *Overlapping.* With any number of commands of both kinds at once,
a save brings back copies of any age, so no invariant can speak of the vault alone: `SoundVault` says of the
vault, of every command's own copy and of every copy of the other part, that a credential in it was issued to
its wallet, that a record in it is backed by what was sent and mined, and that a record implies a wallet. All
of this stays true of a copy while the network and the portal only add to what happened, which is why old
copies are harmless to it. Theorems: `SoundVaultInvariant`, `EvidenceIsTrue`. That the wallet
survives (`WalletOutlivesCommands`) needs that there is one provisioning command (two that both create a
wallet would erase one another's), and an invariant of its own: whatever copy of the identity a registration
command will write back has the vault's wallet and treasury.

*In turn.* With `Overlap` FALSE every copy is the vault's from load to save (`InTurn`), so that a save writes
the other part back as it is, and each step of the joint specification is a step of one module's own and a
stutter of the other's. Theorems: `ProvisioningStandsAlone`, `RegistrationStandsAlone` and, of the two
together, `CommandsStandApart`, for any number of commands, and `VaultInTurnIsSafe`, which carries the
refinements of `OneShotEffect` and the invariants proved of each module over to the file.

**WalletProvisioning_proofs.** `WalletInv` has, beside the types, what each command has written so far
(`WorkInv`), that a manifest carries a whole keystore and names that keystore's wallet (`ManifestsAgree`),
and that a wallet has one keystore, in whatever file, command or manifest it appears (`OneKeystoreEach`).
The last is why a verification may read three files at three moments: if the digest of the manifest matches
the keystore read last, an operator's copy made in between cannot have changed what the password opens.
Theorems: `WalletInvariant`, `WalletTypeCorrect`, `ReportedBundlesStay`, `VerifiedBundlesOpen`.

**CeloSettlementVerifier_proofs.** The chain executes an authorization once (`ChainExecutesOnce`); a call's
receipt is of a chain that existed, so that if its block is canonical at the last read, everything below
it is too; an observation is deep below `peak`, and `RollBack` spares that depth. That one authorization is
observed in one transfer then follows from `ChainExecutesOnce` for observations that are all on one chain.
Theorems: `VerifierInvariant`, `VerifierTypeCorrect`, `ReadsCountAsOne`, `ObservedStays`,
`OneTransferObserved`.

**ReviewDomain_proofs.** Lemmas about the engine, for any rules and observations: an outcome is decisive
only with one matching, well-formed observation, and says what that one says (`OutcomeDecides`); findings are
of failed evaluations, and so the constructors accept them (`ReviewIsAccepted`); the risk is linear in the number of findings of each
severity (`RiskCounts`), so that it is natural, zero for none, and grows with the set; the risk of the findings
about some rules is that of the rules that failed (`RiskOfRules`, by a bijection for each severity); and a
word of the comparison other than `COVERAGE_CHANGED` is about one rule of one version that both
reviews evaluated (`DiffSays`).

**ReviewStore_proofs.** `StoreInv` says that whatever is stored was made by `Review` of some release's
ruleset and some collection. From that alone, and the lemmas, follow the score's bounds, the two directions of
a comparison, and what it explains: the rules that failed in both reviews and are called unchanged are the
same set, and when nothing regressed or changed its coverage, those that fail now failed before. That each
201 has a review of its own is by induction on the answers: a refused insert fails its request.
Theorems: `StoreInvariant`, `StoreTypeCorrect`, `EngineMakesReviews`, `UnknownIsNeverDecided`,
`StoredReviewsStay`, `AnswersAreStored`, `ComparisonReadsBothWays`, `ComparisonExplainsRisk`.

**ReferenceCollector_proofs.** The hop is the number of requests before it and the URLs requested are
exactly those visited, except the one at hand (`IInv`). `WayInv` reads the observations by position: until the
last answer the odd ones are the responses and the even ones the redirects, each of its hop, and a way
that left TLS has a redirect that says so; a completed one adds each header once, in an order that the
lemma `EveryHeaderIsListed` shows to be a bijection. So each rule has exactly one well-formed match
(`RulesAreDecided`). Theorems: `CollectorInvariant`, `CollectorTypeCorrect`, `OnlyPublicIsContacted`,
`CollectionIsBounded`, `WayInvariant`, `CompletedTellsTheWay`, `CompletedDecides`.

**Only model-checked.** Liveness (`EveryRequestEnds`, `AssessmentEnds`, `UnlockEnds`): fairness needs
ENABLED, outside the prover's reach. And the three refuted properties, which are refuted by an example.

## 5. Where the code and its documents disagree

**A retry after admission is refused when the head has moved** (`retry_resumes`). `README.md:120-123`:
"the durable claim preserves the ambiguous effect. Retrying the same authorization re-observes that
transaction and, once admitted, resumes delivery". An observation contains the head it was made
against and a digest of the raw answers, and `_insert_observation` (`payment_store.py:229`) compares
everything but `observed_at` with the durable row. When a retry observes the same transfer at a later
head, the rows differ and admission raises. Within one retry it is enough that a block arrives between
`recover_claim`'s observation and `before_settle`'s. The test of this path
(`tests/test_x402_integration.py:250`) serves a head that never moves.

**A settled payment stops being retryable when its window closes** (`settled_stays_retryable`).
`CONSTITUTION.md:43`: "Settlement and entitlement commit atomically or remain safely retryable".
`before_settle` (`x402_runtime.py:382`) rebuilds the intent with the current time, and `PaymentIntent`
rejects a time outside the authorization's window. A payment admitted inside the window whose response
was lost is refused at every later attempt.

**Publishing a second vault can leave the paid route enabled on a mixture**
(`incomplete_publication`). `docs/operations/provisioning.md:36-37`: "`SNE_SEC_CELO_X402_ENABLED` is
changed last, so an incomplete publication leaves the paid route disabled". `publish_to_railway`
(`operational_provisioning.py:300`) keeps that order, but does not disable the route first. When the
service is already enabled and a second vault is published to it, a stop between two variables and a
deployment run the paid route on one vault's wallet or treasury and the other's credential. A vault whose
issuance is `AMBIGUOUS` cannot be used again, so a second vault is not far-fetched.

Two more disagreements were met while modelling; no run is kept for them.

*A provisioning command can erase the record of a broadcast.* `docs/operations/provisioning.md:46-47`: the
mint command "persists only the transaction hash, and never retries a broadcast whose result is ambiguous".
`save` (`operational_provisioning.py:97-104`) replaces the vault by all that its command loaded. A
provisioning command that loaded it before the mint and saves after the broadcast takes the
`BROADCAST_UNKNOWN` record away; while the transaction is pending, or after the mempool dropped it, the next
mint finds no record and broadcasts another. Under `VaultSpec` with `Overlap` TRUE, `BroadcastOnce` is
therefore not an invariant; it is one for commands run in turn. The code does not lock the file, and no
document tells the operator to run one command at a time.

*A page that lost its reply pays twice for one delivery.* `x402_runtime.py:245` publishes the billing policy
"one settled x402 authorization per full resource delivery". The server keeps it for a client that repeats
its authorization, but `unlock` (`web/src/App.tsx:224`) signs a fresh one at every attempt
(`payment.ts:48`) and keeps none. When the first payment is settled and its reply lost, or the server
restarts before the delivery, the page offers to unlock again and the second authorization is settled too.
`UnlockedIsPaid` therefore says that a settlement exists, not that there is one.

## 6. Limits

- Digests are injective, ECDSA signing is deterministic, and the token consumes an EIP-3009 nonce once.
- The chain of `X402Delivery` (and of the modules over it) does not reorganise, and the verifier's reads
  are one step there. `CeloSettlementVerifier` shows what that rests on: the reads count as one, and below
  the confirmation depth nothing observed is taken back. With a depth that a rollback reaches, a settlement
  may name a transfer that is gone; the code accepts that by its policy.
- The verifier's reads go to one node. Several nodes behind one URL that disagree are covered only as far
  as a node may roll back between two reads.
- The verifier's log matching (`celo_settlement.py:204-240`: exactly one `Transfer` of payer, payee and amount
  among the receipt's logs) is abstracted into the assumption on the token: a transaction that executed an
  authorization has that one log, whose index is part of the event. Two equal transfers in one receipt, which
  the code refuses as ambiguous, are one more way for a verification to fail.
- `reconcile_registration` reconciles a `RECONCILED` record again if its evidence has no current fee policy
  (`erc8004_registration.py:490-497`). This release always writes that policy, so the model has no such record
  and returns a reconciled one as it is.
- `PaidReviews!Create` adds reviews with fresh identities; the insertion that is refused because the identity
  is taken (`store.py:61`) is in `ReviewStore`.
- SQLite transactions are atomic and durable, and one process writes the database, as the deployment
  runs it.
- Formats (addresses, hashes, paths, JSON) are abstracted: a malformed value is one more way for a
  check to fail.
- Publication of the offer and the settings hold no state that changes while the service runs.
- Writing the vault's temporary file and replacing the vault by it are one step: two commands that write
  the same temporary name at once are not modelled.
- The assessments of the API are not limited in number, so there is no bound to check
  (`CONSTITUTION.md:50` speaks of one).
- Not modelled: `projections.py`, `codec.py` and `canonical.py`, which render or rebuild what the store
  holds and keep no state; `agent.py` and `cli.py`, which render configuration and parse arguments; the
  page's rendering; CI and the witness scripts, which have no behaviour of their own.

## 7. Plan

The components of the plan are modelled, checked, and where the prover reaches proved. What is left, in
order of worth:

1. `X402Delivery` over the reorganising chain of `CeloSettlementVerifier`, instead of the one that only
   grows.
2. `PaymentLedgerConnections`: two SQLite connections with their own transactions, shown to implement the
   atomic ledger.
3. The vault's temporary file as a file of its own, in `OperationalVault`.
