------------------------- MODULE Erc8004Registration -------------------------
(***************************************************************************)
(* The one-shot mint of the agent's ERC-8004 identity: the `mint` and      *)
(* `reconcile` commands of erc8004_registration.py over the operational    *)
(* vault, a file that every save replaces whole.  A command works on the   *)
(* copy it loaded; it may stop between any two steps, because a check or a *)
(* Celo read fails or the process dies.                                    *)
(*                                                                         *)
(* External, modelled from how the commands use them: the mempool, which   *)
(* may drop a transaction, and Celo, which mines one transaction for each  *)
(* account nonce.  The chain does not reorganise.  Signing is              *)
(* deterministic, so a transaction's hash is the transaction.              *)
(***************************************************************************)
EXTENDS Naturals, FiniteSets

CONSTANTS
    Registrar,    \* the commands the operator has running at once
    Uri,          \* agent URIs
    Estimate,     \* values of eth_estimateGas, from which the fee terms follow
    Absent,       \* no value
    MaxNonce      \* bound on the wallet's account nonce

ASSUME NonceBound == MaxNonce \in Nat

VARIABLES
    record,       \* the durable record "erc8004_registration"
    loaded,       \* the record in a command's memory
    uri,          \* a command's --agent-uri
    registering,  \* where each command is
    pool,         \* transactions in the mempool
    mined,        \* transactions of the wallet in a block, with their status
    nonce,        \* the wallet's account nonce
    broadcasts    \* how many times a transaction was handed to the RPC: 0, 1 or 2 for more

chain == <<pool, mined, nonce>>
mintVars == <<record, loaded, uri, registering, pool, mined, nonce, broadcasts>>

RegistrationTransaction == [uri : Uri, nonce : 0..MaxNonce, gas : Estimate]

State == {"INTENT_PERSISTED", "SIGNED", "BROADCAST_UNKNOWN", "BROADCAST_ACCEPTED", "RECONCILED"}

\* Mutant: an unknown outcome is not told from an unsent transaction.
EffectedIfAccepted == {"BROADCAST_ACCEPTED", "RECONCILED"}

\* States in which a broadcast may have taken effect: never broadcast again.
Effected == {"BROADCAST_UNKNOWN", "BROADCAST_ACCEPTED", "RECONCILED"}

Record == [state : State, tx : RegistrationTransaction]
Receipt == [tx : RegistrationTransaction, ok : BOOLEAN]

ASSUME AbsentIsNoRecord == Absent \notin Record

MintStep == {"idle", "checking", "drafting", "drafted", "reloading", "comparing", "signing",
             "signed", "sending", "sent", "reconciling", "observing", "observed"}

RegistrationTypeOK ==
    /\ record \in Record \cup {Absent}
    /\ loaded \in [Registrar -> Record \cup {Absent}]
    /\ uri \in [Registrar -> Uri \cup {Absent}]
    /\ registering \in [Registrar -> MintStep]
    /\ pool \subseteq RegistrationTransaction
    /\ mined \subseteq Receipt
    /\ nonce \in 0..MaxNonce
    /\ broadcasts \in 0..2

MintInit ==
    /\ record = Absent
    /\ loaded = [c \in Registrar |-> Absent]
    /\ uri = [c \in Registrar |-> Absent]
    /\ registering = [c \in Registrar |-> "idle"]
    /\ pool = {}
    /\ mined = {}
    /\ nonce = 0
    /\ broadcasts = 0

Proceed(c, step) == registering' = [registering EXCEPT ![c] = step]

\* vault.save: the command's whole copy becomes the file.
SaveAs(c, state) ==
    /\ loaded' = [loaded EXCEPT ![c].state = state]
    /\ record' = loaded'[c]

-----------------------------------------------------------------------------
(* mint: prepare_registration. *)

\* The durable intent decides: none yet, one for this URI, or a refusal.
StartMint(c) ==
    /\ registering[c] = "idle"
    /\ \E u \in Uri :
        /\ uri' = [uri EXCEPT ![c] = u]
        /\ \/ record = Absent /\ Proceed(c, "checking")
           \/ /\ record # Absent
              /\ record.tx.uri = u
              /\ Proceed(c, IF record.state \in Effected THEN "reconciling" ELSE "reloading")
    /\ UNCHANGED <<record, loaded, chain, broadcasts>>

\* The registry's balanceOf the wallet, at the latest block, must be zero.
CheckUnowned(c) ==
    /\ registering[c] = "checking"
    /\ \A r \in mined : ~r.ok
    /\ Proceed(c, "drafting")
    /\ UNCHANGED <<record, loaded, uri, chain, broadcasts>>

\* eth_getTransactionCount at "pending": the first nonce no pool transaction uses.
PendingNonce ==
    CHOOSE n \in nonce..(nonce + Cardinality(pool)) :
        /\ \A t \in pool : t.nonce # n
        /\ \A m \in nonce..(n - 1) : \E t \in pool : t.nonce = m

\* The pending nonce and a gas estimate fix the intent.
Draft(c) ==
    /\ registering[c] = "drafting"
    /\ PendingNonce \in 0..MaxNonce
    /\ \E g \in Estimate :
        loaded' = [loaded EXCEPT ![c] =
            [state |-> "INTENT_PERSISTED",
             tx |-> [uri |-> uri[c], nonce |-> PendingNonce, gas |-> g]]]
    /\ Proceed(c, "drafted")
    /\ UNCHANGED <<record, uri, chain, broadcasts>>

PersistIntent(c) ==
    /\ registering[c] = "drafted"
    /\ record' = loaded[c]
    /\ Proceed(c, "reloading")
    /\ UNCHANGED <<loaded, uri, chain, broadcasts>>

-----------------------------------------------------------------------------
(* mint: broadcast_registration. *)

\* The second load.  The branch was taken on the record of the first.
Reload(c) ==
    /\ registering[c] = "reloading"
    /\ loaded' = [loaded EXCEPT ![c] = record]
    /\ Proceed(c, "comparing")
    /\ UNCHANGED <<record, uri, chain, broadcasts>>

\* Fresh Celo facts must not diverge from the durable intent.
CompareFacts(c) ==
    /\ registering[c] = "comparing"
    /\ PendingNonce = loaded[c].tx.nonce
    /\ Proceed(c, "signing")
    /\ UNCHANGED <<record, loaded, uri, chain, broadcasts>>

SaveSigned(c) ==
    /\ registering[c] = "signing"
    /\ SaveAs(c, "SIGNED")
    /\ Proceed(c, "signed")
    /\ UNCHANGED <<uri, chain, broadcasts>>

\* Mutant: the state is kept in memory until the reply.
KeepUnknown(c) ==
    /\ registering[c] = "signed"
    /\ loaded' = [loaded EXCEPT ![c].state = "BROADCAST_UNKNOWN"]
    /\ Proceed(c, "sending")
    /\ UNCHANGED <<record, uri, chain, broadcasts>>

\* Saved before the effect: from here on the transaction may be out.
SaveUnknown(c) ==
    /\ registering[c] = "signed"
    /\ SaveAs(c, "BROADCAST_UNKNOWN")
    /\ Proceed(c, "sending")
    /\ UNCHANGED <<uri, chain, broadcasts>>

\* The RPC takes the transaction or not, and its answer is its hash or unknown:
\* only a transaction that was taken is answered with its hash.
Send(c) ==
    LET tx == loaded[c].tx IN
    /\ registering[c] = "sending"
    /\ broadcasts' = IF broadcasts = 2 THEN 2 ELSE broadcasts + 1
    /\ \/ /\ tx.nonce >= nonce
          /\ pool' = pool \cup {tx}
          /\ Proceed(c, "sent") \/ Proceed(c, "idle")
       \/ Proceed(c, "idle") /\ UNCHANGED pool
    /\ UNCHANGED <<record, loaded, uri, mined, nonce>>

SaveAccepted(c) ==
    /\ registering[c] = "sent"
    /\ SaveAs(c, "BROADCAST_ACCEPTED")
    /\ Proceed(c, "idle")
    /\ UNCHANGED <<uri, chain, broadcasts>>

-----------------------------------------------------------------------------
(* reconcile, by itself or at the end of a repeated mint. *)

StartReconcile(c) ==
    /\ registering[c] = "idle"
    /\ Proceed(c, "reconciling")
    /\ UNCHANGED <<record, loaded, uri, chain, broadcasts>>

\* A record without a hash is refused; a reconciled one is returned as it is:
\* its evidence always has the fee policy of this release, which writes it.
LoadForReconcile(c) ==
    /\ registering[c] = "reconciling"
    /\ record # Absent
    /\ record.state \in {"SIGNED", "BROADCAST_UNKNOWN", "BROADCAST_ACCEPTED"}
    /\ loaded' = [loaded EXCEPT ![c] = record]
    /\ Proceed(c, "observing")
    /\ UNCHANGED <<record, uri, chain, broadcasts>>

\* Mutant: the transaction is not looked for in a receipt.
ObserveAnyReceipt(c) ==
    /\ registering[c] = "observing"
    /\ Proceed(c, "observed")
    /\ UNCHANGED <<record, loaded, uri, chain, broadcasts>>

\* The transaction and its receipt, found by the hash, succeeded and minted.
Observe(c) ==
    /\ registering[c] = "observing"
    /\ \E r \in mined : r.tx = loaded[c].tx /\ r.ok
    /\ Proceed(c, "observed")
    /\ UNCHANGED <<record, loaded, uri, chain, broadcasts>>

SaveReconciled(c) ==
    /\ registering[c] = "observed"
    /\ SaveAs(c, "RECONCILED")
    /\ Proceed(c, "idle")
    /\ UNCHANGED <<uri, chain, broadcasts>>

\* A command ends early anywhere: a refusal, a failed read, a crash.
EndEarly(c) ==
    /\ registering[c] # "idle"
    /\ Proceed(c, "idle")
    /\ UNCHANGED <<record, loaded, uri, chain, broadcasts>>

-----------------------------------------------------------------------------
(* Celo. *)

\* The next nonce is mined, by success or revert; what shared it is void.
Mine(tx) ==
    /\ tx \in pool
    /\ tx.nonce = nonce
    /\ nonce < MaxNonce
    /\ nonce' = nonce + 1
    /\ pool' = {t \in pool : t.nonce # nonce}
    /\ \E ok \in BOOLEAN : mined' = mined \cup {[tx |-> tx, ok |-> ok]}
    /\ UNCHANGED <<record, loaded, uri, registering, broadcasts>>

Evict(tx) ==
    /\ tx \in pool
    /\ pool' = pool \ {tx}
    /\ UNCHANGED <<record, loaded, uri, registering, mined, nonce, broadcasts>>

\* The wallet is used elsewhere.
OtherTransaction ==
    /\ nonce < MaxNonce
    /\ nonce' = nonce + 1
    /\ pool' = {t \in pool : t.nonce # nonce}
    /\ UNCHANGED <<record, loaded, uri, registering, mined, broadcasts>>

Register(c) ==
    \/ StartMint(c) \/ CheckUnowned(c) \/ Draft(c) \/ PersistIntent(c)
    \/ Reload(c) \/ CompareFacts(c) \/ SaveSigned(c) \/ SaveUnknown(c)
    \/ Send(c) \/ SaveAccepted(c)
    \/ StartReconcile(c) \/ LoadForReconcile(c) \/ Observe(c) \/ SaveReconciled(c)
    \/ EndEarly(c)

MintNext ==
    \/ \E c \in Registrar : Register(c)
    \/ \E tx \in pool : Mine(tx) \/ Evict(tx)
    \/ OtherTransaction

MintSpec == MintInit /\ [][MintNext]_mintVars

-----------------------------------------------------------------------------
(* Properties of commands run one at a time. *)

\* Save before effect: whatever is or was on its way to a block is the one
\* transaction the vault names, in a state that says so, so reconcile finds it
\* after any crash.
EffectIsRecorded ==
    \A tx \in pool \cup {r.tx : r \in mined} :
        /\ record # Absent
        /\ record.tx = tx
        /\ record.state \in Effected

\* "Never retries a broadcast whose result is ambiguous": over all commands, in
\* whatever order they are run and wherever they stop, one broadcast.
BroadcastOnce == broadcasts <= 1

Progress(r) ==
    IF r = Absent THEN 0
    ELSE CASE r.state = "INTENT_PERSISTED" -> 1
           [] r.state = "SIGNED" -> 2
           [] r.state = "BROADCAST_UNKNOWN" -> 3
           [] r.state = "BROADCAST_ACCEPTED" -> 4
           [] r.state = "RECONCILED" -> 5

\* The durable intent is bound to its first URI, nonce and fee, and its state
\* never goes back.
IntentOnlyAdvances ==
    [][/\ Progress(record) <= Progress(record')
       /\ record # Absent => record'.tx = record.tx]_mintVars

\* What the vault says of the mint, as save-before-effect sees it.
MintStage ==
    IF record = Absent THEN "none"
    ELSE CASE record.state \in {"INTENT_PERSISTED", "SIGNED"} -> "intended"
           [] record.state = "BROADCAST_UNKNOWN" -> "exposed"
           [] record.state \in {"BROADCAST_ACCEPTED", "RECONCILED"} -> "known"

Mint == INSTANCE OneShotEffect WITH
    Effect <- {"mint"}, stage <- [e \in {"mint"} |-> MintStage],
    times <- [e \in {"mint"} |-> broadcasts]

\* Save before effect, of broadcast_registration and reconcile_registration: the
\* mint is sent at most once, only while the vault says that it may be out, and
\* the vault says that it was sent only after it was.
MintIsOneShot == Mint!Spec

(* Property of commands run one at a time or together. *)

\* A record says RECONCILED only of a transaction that was mined and succeeded,
\* whichever command wrote the vault last.
EvidenceIsMined ==
    record # Absent /\ record.state = "RECONCILED" => \E r \in mined : r.tx = record.tx /\ r.ok

=============================================================================
