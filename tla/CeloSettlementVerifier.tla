----------------------- MODULE CeloSettlementVerifier -----------------------
(***************************************************************************)
(* The Celo settlement verifier: a call reads the chain id, the receipt,   *)
(* the transaction, the head and the canonical block, one JSON-RPC call    *)
(* each, while the chain grows and rolls back between the reads.           *)
(*                                                                         *)
(* External, modelled from what verify asks of it: the chain, whose block  *)
(* hash commits to everything below the block; a rollback never removes a  *)
(* block MaxReorg or more below the highest head; Celo's USDC executes an  *)
(* authorization once, in the one Transfer log the verifier looks for.     *)
(* The calls go to one node, which answers from its view of the moment.    *)
(***************************************************************************)
EXTENDS Naturals

CONSTANTS
    Call,       \* verifications, of any intents and claims
    Tx,         \* transaction hashes
    Auth,       \* authorizations
    Salt,       \* what else distinguishes two blocks
    None,       \* no value
    Runs,       \* the authorization each transaction submits, or None
    MinConf,    \* min_confirmations
    MaxReorg,   \* how many blocks below the highest head may be replaced
    MaxHeight   \* bound on the chain's height

ASSUME RunsAuthorizations == Runs \in [Tx -> Auth \cup {None}]
ASSUME VerifierPolicy == MinConf \in Nat \ {0}
ASSUME ChainBounds == MaxReorg \in Nat /\ MaxHeight \in Nat
ASSUME NoneIsNothing == None \notin Tx \cup Auth

VARIABLES
    chain,      \* the canonical blocks' contents, by height
    head,       \* their number
    peak,       \* the highest head so far
    step,       \* the read each call is at
    task,       \* the intent's authorization and the claimed transaction
    receipt, transaction, policyHead,   \* what the call has read
    observations

node == <<chain, head, peak>>
answers == <<receipt, transaction, policyHead>>
vars == <<chain, head, peak, step, task, receipt, transaction, policyHead, observations>>

\* A block holds at most one transaction of interest, executed or reverted.
Content == [tx : Tx \cup {None}, ok : BOOLEAN, salt : Salt]

\* A block's hash stands for the contents up to its height.
BlockAt(n) == [i \in 1..n |-> chain[i]]
Block == UNION {[1..n -> Content] : n \in 1..MaxHeight}

Task == [auth : Auth, tx : Tx]
Receipt == [height : 1..MaxHeight, block : Block, ok : BOOLEAN]
Inclusion == [height : 1..MaxHeight, block : Block]
Observation == [auth : Auth, tx : Tx, height : 1..MaxHeight, block : Block,
                policyHead : 0..MaxHeight]

VerifierTypeOK ==
    /\ head \in 0..MaxHeight
    /\ peak \in head..MaxHeight
    /\ chain \in [1..head -> Content]
    /\ step \in [Call -> {"idle", "receipt", "transaction", "head", "canonical",
                          "observed", "rejected"}]
    /\ task \in [Call -> Task \cup {None}]
    /\ receipt \in [Call -> Receipt \cup {None}]
    /\ transaction \in [Call -> Inclusion \cup {None}]
    /\ policyHead \in [Call -> 0..MaxHeight]
    /\ observations \subseteq Observation

Init ==
    /\ head = 0
    /\ peak = 0
    /\ chain = BlockAt(0)
    /\ step = [v \in Call |-> "idle"]
    /\ task = [v \in Call |-> None]
    /\ receipt = [v \in Call |-> None]
    /\ transaction = [v \in Call |-> None]
    /\ policyHead = [v \in Call |-> 0]
    /\ observations = {}

-----------------------------------------------------------------------------
(* The chain. *)

\* The token executes an authorization that this chain has not executed; a
\* transaction is in a chain once.
Executable(c) ==
    /\ c.tx = None => ~c.ok
    /\ c.tx # None => \A i \in 1..head : chain[i].tx # c.tx
    /\ c.ok /\ Runs[c.tx] # None =>
        \A i \in 1..head : chain[i].ok => Runs[chain[i].tx] # Runs[c.tx]

Grow ==
    /\ head < MaxHeight
    /\ \E c \in Content :
        /\ Executable(c)
        /\ chain' = [i \in 1..head + 1 |-> IF i = head + 1 THEN c ELSE chain[i]]
    /\ head' = head + 1
    /\ peak' = IF head + 1 > peak THEN head + 1 ELSE peak
    /\ UNCHANGED <<step, task, answers, observations>>

\* The node leaves its blocks above n; others follow in their place.
RollBack ==
    /\ \E n \in 0..head :
        /\ n < head
        /\ n + MaxReorg >= peak
        /\ chain' = BlockAt(n)
        /\ head' = n
    /\ UNCHANGED <<peak, step, task, answers, observations>>

-----------------------------------------------------------------------------
(* The reads of one call. *)

Included(tx) == {n \in 1..head : chain[n].tx = tx}

ReceiptNow(n) == [height |-> n, block |-> BlockAt(n), ok |-> chain[n].ok]
InclusionNow(n) == [height |-> n, block |-> BlockAt(n)]

\* The call returns or raises: what it read is gone.
End(v, how) ==
    /\ step' = [step EXCEPT ![v] = how]
    /\ receipt' = [receipt EXCEPT ![v] = None]
    /\ transaction' = [transaction EXCEPT ![v] = None]
    /\ policyHead' = [policyHead EXCEPT ![v] = 0]

\* A claim for an intent is to be verified; the chain id is read.
Begin(v) ==
    /\ step[v] = "idle"
    /\ \E t \in Task : task' = [task EXCEPT ![v] = t]
    /\ step' = [step EXCEPT ![v] = "receipt"]
    /\ UNCHANGED <<node, answers, observations>>

\* The answer is null while the transaction is in no block of the chain.
ReadReceipt(v) ==
    /\ step[v] = "receipt"
    /\ \/ \E n \in Included(task[v].tx) : receipt' = [receipt EXCEPT ![v] = ReceiptNow(n)]
       \/ Included(task[v].tx) = {} /\ UNCHANGED receipt
    /\ step' = [step EXCEPT ![v] = "transaction"]
    /\ UNCHANGED <<node, task, transaction, policyHead, observations>>

ReadTransaction(v) ==
    /\ step[v] = "transaction"
    /\ \/ \E n \in Included(task[v].tx) :
            transaction' = [transaction EXCEPT ![v] = InclusionNow(n)]
       \/ Included(task[v].tx) = {} /\ UNCHANGED transaction
    /\ step' = [step EXCEPT ![v] = "head"]
    /\ UNCHANGED <<node, task, receipt, policyHead, observations>>

\* The checks on the receipt and the transaction: it succeeded, it submits
\* the intent's authorization, and both answers are from one block.
Bound(v) ==
    /\ receipt[v] # None
    /\ transaction[v] # None
    /\ receipt[v].ok
    /\ Runs[task[v].tx] = task[v].auth
    /\ transaction[v] = [height |-> receipt[v].height, block |-> receipt[v].block]

\* Nothing is checked before the head is read, and nothing is awaited between
\* that read and the checks.
ReadHead(v) ==
    /\ step[v] = "head"
    /\ \/ /\ Bound(v)
          /\ policyHead' = [policyHead EXCEPT ![v] = head]
          /\ step' = [step EXCEPT ![v] = "canonical"]
          /\ UNCHANGED <<receipt, transaction>>
       \/ ~Bound(v) /\ End(v, "rejected")
    /\ UNCHANGED <<node, task, observations>>

\* Mutant: the block at that height is read and its hash is not compared.
CanonicalByNumber(v) == receipt[v].height <= head

\* The block the chain has at the receipt's height is the receipt's block.
Canonical(v) ==
    /\ receipt[v].height <= head
    /\ BlockAt(receipt[v].height) = receipt[v].block

\* Mutant: a block counts as its own first confirmation twice.
DeepByOneMore(v) == policyHead[v] + 2 >= receipt[v].height + MinConf

\* confirmations = policy head - block + 1.
Deep(v) ==
    /\ policyHead[v] >= receipt[v].height
    /\ policyHead[v] + 1 >= receipt[v].height + MinConf

ObservationBy(v) ==
    [auth |-> task[v].auth, tx |-> task[v].tx, height |-> receipt[v].height,
     block |-> receipt[v].block, policyHead |-> policyHead[v]]

ReadCanonical(v) ==
    /\ step[v] = "canonical"
    /\ \/ /\ Canonical(v) /\ Deep(v)
          /\ observations' = observations \cup {ObservationBy(v)}
          /\ End(v, "observed")
       \/ /\ ~(Canonical(v) /\ Deep(v))
          /\ End(v, "rejected")
          /\ UNCHANGED observations
    /\ UNCHANGED <<node, task>>

\* A call of the node fails or answers for another chain.
ReadFails(v) ==
    /\ step[v] \in {"receipt", "transaction", "head", "canonical"}
    /\ End(v, "rejected")
    /\ UNCHANGED <<node, task, observations>>

Verify(v) ==
    \/ Begin(v) \/ ReadReceipt(v) \/ ReadTransaction(v)
    \/ ReadHead(v) \/ ReadCanonical(v) \/ ReadFails(v)

Next == Grow \/ RollBack \/ \E v \in Call : Verify(v)

Spec == Init /\ [][Next]_vars

-----------------------------------------------------------------------------
(* Properties. *)

\* What the rest needs of the chain: it executes an authorization once and
\* holds a transaction once.
ChainExecutesOnce ==
    \A i, j \in 1..head :
        \/ i = j
        \/ /\ chain[i].tx = chain[j].tx => chain[i].tx = None
           /\ chain[i].ok /\ chain[j].ok /\ Runs[chain[i].tx] = Runs[chain[j].tx]
                => Runs[chain[i].tx] = None

ExecutedAt(o) ==
    /\ o.height <= head
    /\ BlockAt(o.height) = o.block
    /\ chain[o.height].tx = o.tx
    /\ chain[o.height].ok
    /\ Runs[o.tx] = o.auth

\* The five reads are worth one: what verify returns is true of the chain at
\* its last read, although the receipt, the transaction and the head were read
\* from earlier chains; and that chain had reached the confirmation depth.
ReadsAreAtomic ==
    [][\A o \in observations' \ observations :
        ExecutedAt(o) /\ o.height + MinConf <= peak + 1]_vars

\* "min_confirmations": when no rollback reaches that deep, what was observed
\* once stays on the chain, whatever was rolled back between the reads or
\* afterwards.
ObservationIsFinal ==
    MaxReorg < MinConf => \A o \in observations : ExecutedAt(o)

\* Then no two verifications, of any claims, observe different transfers for
\* one authorization.
OneTransferPerAuthorization ==
    MaxReorg < MinConf =>
        \A o, p \in observations :
            o.auth = p.auth => o.tx = p.tx /\ o.block = p.block

=============================================================================
