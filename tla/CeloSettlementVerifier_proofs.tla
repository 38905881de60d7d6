-------------------- MODULE CeloSettlementVerifier_proofs --------------------
(***************************************************************************)
(* Theorems about the settlement verifier, for any number of calls,        *)
(* transactions and authorizations and any depth of rollback.              *)
(***************************************************************************)
EXTENDS CeloSettlementVerifier, TLAPS

\* A block below the head is a block, and its last content is the chain's.
LEMMA BlocksAreBlocks ==
    ASSUME VerifierTypeOK, NEW n \in 1..head
    PROVE  /\ n \in 1..MaxHeight
           /\ BlockAt(n) \in [1..n -> Content]
           /\ BlockAt(n) \in Block
           /\ BlockAt(n)[n] = chain[n]
<1>1. n \in 1..MaxHeight
    BY ChainBounds DEF VerifierTypeOK
<1>2. \A i \in 1..n : i \in 1..head
    BY DEF VerifierTypeOK
<1>3. \A i \in 1..n : chain[i] \in Content
    BY <1>2 DEF VerifierTypeOK
<1>4. BlockAt(n) \in [1..n -> Content]
    BY <1>3 DEF BlockAt
<1>5. BlockAt(n) \in Block
    BY <1>1, <1>4 DEF Block
<1> QED
    BY <1>1, <1>4, <1>5 DEF BlockAt

\* A hash commits to its height: equal blocks have equal heights.
LEMMA HashNamesHeight ==
    ASSUME NEW m \in Nat, NEW n \in Nat,
           NEW f \in [1..m -> Content], NEW g \in [1..n -> Content], f = g
    PROVE  m = n
<1>1. DOMAIN f = DOMAIN g
    OBVIOUS
<1>2. 1..m = 1..n
    BY <1>1
<1>3. m # 0 => m \in 1..n
    BY <1>2
<1>4. n # 0 => n \in 1..m
    BY <1>2
<1> QED
    BY <1>3, <1>4

\* What a call holds between its reads.
CallHolds(v) ==
    /\ step[v] = "idle" => receipt[v] = None
    /\ step[v] # "idle" => task[v] \in Task
    /\ step[v] = "canonical" => Bound(v)
    /\ policyHead[v] <= peak
    /\ receipt[v] # None =>
        /\ receipt[v].block \in [1..receipt[v].height -> Content]
        /\ receipt[v].block[receipt[v].height].tx = task[v].tx
        /\ receipt[v].block[receipt[v].height].ok = receipt[v].ok

\* What an observation says of its block, and that the block is still there.
ObservationHolds(o) ==
    /\ o.policyHead <= peak
    /\ o.height + MinConf <= o.policyHead + 1
    /\ o.block \in [1..o.height -> Content]
    /\ o.block[o.height].tx = o.tx
    /\ o.block[o.height].ok
    /\ Runs[o.tx] = o.auth
    /\ MaxReorg < MinConf => o.height <= head /\ BlockAt(o.height) = o.block

IInv ==
    /\ VerifierTypeOK
    /\ peak <= head + MaxReorg
    /\ ChainExecutesOnce
    /\ \A v \in Call : CallHolds(v)
    /\ \A o \in observations : ObservationHolds(o)

LEMMA InitIsInvariant == Init => IInv
<1> SUFFICES ASSUME Init PROVE IInv
    OBVIOUS
<1>1. chain \in [1..0 -> Content]
    BY DEF Init, BlockAt
<1>2. VerifierTypeOK
    BY <1>1, ChainBounds DEF Init, VerifierTypeOK
<1>3. ChainExecutesOnce
    BY DEF Init, ChainExecutesOnce
<1>4. ASSUME NEW v \in Call PROVE CallHolds(v)
    <2>1. step[v] = "idle" /\ receipt[v] = None /\ policyHead[v] = 0 /\ peak = 0
        BY DEF Init
    <2> QED
        BY <2>1 DEF CallHolds
<1> QED
    BY <1>2, <1>3, <1>4, ChainBounds DEF Init, IInv

-----------------------------------------------------------------------------
(* The chain's steps. *)

\* Growth leaves every block below it in place.
LEMMA GrowKeepsBlocks ==
    ASSUME VerifierTypeOK, Grow, NEW n \in 0..head
    PROVE  BlockAt(n)' = BlockAt(n)
<1>1. \A i \in 1..n : i \in 1..head + 1 /\ i # head + 1
    BY DEF VerifierTypeOK
<1>2. \A i \in 1..n : chain'[i] = chain[i]
    BY <1>1 DEF Grow
<1> QED
    BY <1>2 DEF BlockAt

\* So does a rollback, up to the height it goes back to.
LEMMA RollBackKeepsBlocks ==
    ASSUME VerifierTypeOK, RollBack, NEW n \in 0..head'
    PROVE  BlockAt(n)' = BlockAt(n)
<1>1. head' \in 0..head /\ chain' = BlockAt(head')
    BY DEF RollBack
<1>2. \A i \in 1..n : i \in 1..head'
    BY <1>1 DEF VerifierTypeOK
<1>3. \A i \in 1..n : chain'[i] = chain[i]
    BY <1>1, <1>2 DEF BlockAt
<1> QED
    BY <1>3 DEF BlockAt

LEMMA GrowKeepsInvariant == IInv /\ Grow => IInv'
<1> SUFFICES ASSUME IInv, Grow PROVE IInv'
    OBVIOUS
<1> USE DEF IInv
<1>1. PICK c \in Content :
        /\ Executable(c)
        /\ chain' = [i \in 1..head + 1 |-> IF i = head + 1 THEN c ELSE chain[i]]
    BY DEF Grow
<1>2. head' = head + 1 /\ head + 1 \in 0..MaxHeight /\ peak' \in head'..MaxHeight
      /\ peak <= peak' /\ peak' <= head' + MaxReorg
    BY ChainBounds DEF Grow, VerifierTypeOK
<1>3. \A i \in 1..head : chain[i] \in Content /\ chain'[i] = chain[i]
    BY <1>1 DEF VerifierTypeOK
<1>4. chain'[head + 1] = c
    BY <1>1, <1>2 DEF VerifierTypeOK
<1>5. chain' \in [1..head' -> Content]
    BY <1>1, <1>2, <1>3 DEF VerifierTypeOK
<1>6. UNCHANGED <<step, task, answers, observations>>
    BY DEF Grow
<1>7. VerifierTypeOK'
    BY <1>2, <1>5, <1>6 DEF VerifierTypeOK, answers
<1>8. ChainExecutesOnce'
    <2> SUFFICES ASSUME NEW i \in 1..head + 1, NEW j \in 1..head + 1, i # j
                 PROVE  /\ chain'[i].tx = chain'[j].tx => chain'[i].tx = None
                        /\ chain'[i].ok /\ chain'[j].ok
                           /\ Runs[chain'[i].tx] = Runs[chain'[j].tx]
                             => Runs[chain'[i].tx] = None
        BY <1>2 DEF ChainExecutesOnce
    <2>1. CASE i \in 1..head /\ j \in 1..head
        BY <2>1, <1>3 DEF ChainExecutesOnce
    <2>2. CASE i = head + 1
        <3>1. j \in 1..head
            BY <2>2 DEF VerifierTypeOK
        <3> QED
            BY <3>1, <2>2, <1>1, <1>3, <1>4 DEF Executable
    <2>3. CASE j = head + 1
        <3>1. i \in 1..head
            BY <2>3 DEF VerifierTypeOK
        <3> QED
            BY <3>1, <2>3, <1>1, <1>3, <1>4 DEF Executable
    <2> QED
        BY <2>1, <2>2, <2>3 DEF VerifierTypeOK
<1>9. ASSUME NEW v \in Call PROVE CallHolds(v)'
    <2>1. CallHolds(v) /\ policyHead[v] \in Nat
        BY DEF VerifierTypeOK
    <2> QED
        BY <2>1, <1>2, <1>6 DEF CallHolds, Bound, answers, VerifierTypeOK
<1>10. ASSUME NEW o \in observations PROVE ObservationHolds(o)'
    <2>1. ObservationHolds(o) /\ o.policyHead \in Nat /\ o.height \in Nat
        BY DEF VerifierTypeOK, Observation
    <2>2. o.policyHead <= peak'
        BY <2>1, <1>2 DEF ObservationHolds, VerifierTypeOK
    <2>3. o.height <= head => o.height <= head' /\ BlockAt(o.height)' = BlockAt(o.height)
        BY <2>1, <1>2, GrowKeepsBlocks DEF VerifierTypeOK
    <2> QED
        BY <2>1, <2>2, <2>3 DEF ObservationHolds
<1> QED
    BY <1>2, <1>6, <1>7, <1>8, <1>9, <1>10

\* A block with MinConf confirmations is below what a rollback can reach.
LEMMA WithinReach ==
    ASSUME NEW height \in Nat, NEW depth \in Nat, NEW reorg \in Nat, NEW top \in Nat,
           NEW left \in Nat, height + depth <= top + 1, top <= left + reorg, reorg < depth
    PROVE  height \in 0..left
    OBVIOUS

LEMMA RollBackKeepsInvariant == IInv /\ RollBack => IInv'
<1> SUFFICES ASSUME IInv, RollBack PROVE IInv'
    OBVIOUS
<1> USE DEF IInv
<1>1. /\ head' \in 0..head /\ peak <= head' + MaxReorg
      /\ chain' = BlockAt(head')
      /\ UNCHANGED <<peak, step, task, answers, observations>>
    BY ChainBounds DEF RollBack, VerifierTypeOK
<1>2. \A i \in 1..head' : i \in 1..head /\ chain'[i] = chain[i]
    BY <1>1 DEF BlockAt, VerifierTypeOK
<1>3. chain' \in [1..head' -> Content]
    BY <1>1, <1>2 DEF BlockAt, VerifierTypeOK
<1>4. VerifierTypeOK'
    <2>1. head' \in 0..MaxHeight /\ peak' \in head'..MaxHeight
        BY <1>1, ChainBounds DEF VerifierTypeOK
    <2> QED
        BY <2>1, <1>1, <1>3 DEF VerifierTypeOK, answers
<1>5. ChainExecutesOnce'
    BY <1>2 DEF ChainExecutesOnce
<1>6. ASSUME NEW v \in Call PROVE CallHolds(v)'
    BY <1>1 DEF CallHolds, Bound, answers
<1>7. ASSUME NEW o \in observations PROVE ObservationHolds(o)'
    <2>1. ObservationHolds(o) /\ o.policyHead \in Nat /\ o.height \in 1..MaxHeight
        BY DEF VerifierTypeOK, Observation
    <2>2. MaxReorg < MinConf => o.height \in 0..head'
        <3>1. /\ o.height + MinConf <= peak + 1
              /\ peak \in Nat /\ head' \in Nat /\ o.height \in Nat
              /\ MinConf \in Nat /\ MaxReorg \in Nat
            BY <2>1, <1>1, ChainBounds, VerifierPolicy DEF ObservationHolds, VerifierTypeOK
        <3>2. peak <= head' + MaxReorg
            BY <1>1
        <3> QED
            BY <3>1, <3>2, WithinReach
    <2>3. MaxReorg < MinConf => BlockAt(o.height)' = BlockAt(o.height)
        BY <2>2, RollBackKeepsBlocks
    <2>4. MaxReorg < MinConf => o.height <= head'
        BY <2>2
    <2> QED
        BY <2>1, <2>3, <2>4, <1>1 DEF ObservationHolds
<1> QED
    BY <1>1, <1>4, <1>5, <1>6, <1>7

-----------------------------------------------------------------------------
(* A call's steps. *)

\* What a call reads of a transaction in the chain is of its type.
LEMMA AnswersAreTyped ==
    ASSUME VerifierTypeOK, NEW tx, NEW n \in Included(tx)
    PROVE  /\ ReceiptNow(n) \in Receipt
           /\ InclusionNow(n) \in Inclusion
           /\ ReceiptNow(n).block \in [1..n -> Content]
           /\ ReceiptNow(n).block[n].tx = tx
           /\ ReceiptNow(n).block[n].ok = ReceiptNow(n).ok
<1>1. n \in 1..head /\ chain[n].tx = tx
    BY DEF Included
<1>2. chain[n] \in Content
    BY <1>1 DEF VerifierTypeOK
<1>3. chain[n].ok \in BOOLEAN
    BY <1>2 DEF Content
<1> QED
    BY <1>1, <1>3, BlocksAreBlocks DEF ReceiptNow, InclusionNow, Receipt, Inclusion

\* A step that leaves the chain and the observations alone keeps what is
\* known of them.
LEMMA SameChainSameFacts ==
    ASSUME IInv, UNCHANGED <<node, observations>>
    PROVE  /\ ChainExecutesOnce'
           /\ (peak <= head + MaxReorg)'
           /\ \A o \in observations' : ObservationHolds(o)'
    BY DEF IInv, node, ChainExecutesOnce, ObservationHolds, BlockAt

\* A call's step leaves what other calls hold alone.
LEMMA OtherCallsHold ==
    ASSUME IInv, UNCHANGED node, NEW w \in Call,
           step'[w] = step[w], task'[w] = task[w], receipt'[w] = receipt[w],
           transaction'[w] = transaction[w], policyHead'[w] = policyHead[w]
    PROVE  CallHolds(w)'
    BY DEF IInv, node, CallHolds, Bound

\* A call that ends holds nothing.
LEMMA EndedCallHolds ==
    ASSUME IInv, NEW v \in Call, NEW how \in {"observed", "rejected"}, End(v, how),
           step[v] # "idle", UNCHANGED <<node, task>>
    PROVE  /\ \A w \in Call : CallHolds(w)'
           /\ step' \in [Call -> {"idle", "receipt", "transaction", "head", "canonical",
                                 "observed", "rejected"}]
           /\ receipt' \in [Call -> Receipt \cup {None}]
           /\ transaction' \in [Call -> Inclusion \cup {None}]
           /\ policyHead' \in [Call -> 0..MaxHeight]
<1> USE DEF IInv
<1>1. /\ step' \in [Call -> {"idle", "receipt", "transaction", "head", "canonical",
                             "observed", "rejected"}]
      /\ receipt' \in [Call -> Receipt \cup {None}]
      /\ transaction' \in [Call -> Inclusion \cup {None}]
    BY DEF End, VerifierTypeOK
<1>2. policyHead' \in [Call -> 0..MaxHeight]
    BY ChainBounds DEF End, VerifierTypeOK
<1>3. ASSUME NEW w \in Call, w # v PROVE CallHolds(w)'
    BY <1>3, OtherCallsHold DEF End, VerifierTypeOK
<1>4. CallHolds(v)'
    <2>1. /\ step'[v] = how /\ receipt'[v] = None /\ policyHead'[v] = 0
          /\ task'[v] = task[v]
        BY DEF End, VerifierTypeOK
    <2>2. task[v] \in Task
        BY DEF CallHolds
    <2> QED
        BY <2>1, <2>2 DEF CallHolds, node, VerifierTypeOK
<1> QED
    BY <1>1, <1>2, <1>3, <1>4

LEMMA BeginKeepsInvariant ==
    ASSUME IInv, NEW v \in Call, Begin(v) PROVE IInv'
<1> USE DEF IInv
<1>1. PICK t \in Task : task' = [task EXCEPT ![v] = t]
    BY DEF Begin
<1>2. UNCHANGED <<node, answers, observations>> /\ step[v] = "idle"
      /\ step' = [step EXCEPT ![v] = "receipt"]
    BY DEF Begin
<1>3. VerifierTypeOK'
    BY <1>1, <1>2 DEF VerifierTypeOK, node, answers
<1>4. ASSUME NEW w \in Call PROVE CallHolds(w)'
    <2>1. CASE w = v
        <3>1. step'[v] = "receipt" /\ task'[v] = t /\ receipt'[v] = None
            BY <1>1, <1>2 DEF CallHolds, VerifierTypeOK, answers
        <3> QED
            BY <2>1, <3>1, <1>2 DEF CallHolds, node, answers
    <2>2. CASE w # v
        BY <2>2, <1>1, <1>2, OtherCallsHold DEF VerifierTypeOK, answers
    <2> QED
        BY <2>1, <2>2
<1> QED
    BY <1>2, <1>3, <1>4, SameChainSameFacts

LEMMA ReadReceiptKeepsInvariant ==
    ASSUME IInv, NEW v \in Call, ReadReceipt(v) PROVE IInv'
<1> USE DEF IInv
<1>1. /\ UNCHANGED <<node, task, transaction, policyHead, observations>>
      /\ step[v] = "receipt" /\ step' = [step EXCEPT ![v] = "transaction"]
    BY DEF ReadReceipt
<1>2. CASE \E n \in Included(task[v].tx) : receipt' = [receipt EXCEPT ![v] = ReceiptNow(n)]
    <2>1. PICK n \in Included(task[v].tx) : receipt' = [receipt EXCEPT ![v] = ReceiptNow(n)]
        BY <1>2
    <2>2. /\ ReceiptNow(n) \in Receipt
          /\ ReceiptNow(n).height = n
          /\ ReceiptNow(n).block \in [1..n -> Content]
          /\ ReceiptNow(n).block[n].tx = task[v].tx
          /\ ReceiptNow(n).block[n].ok = ReceiptNow(n).ok
        BY AnswersAreTyped DEF ReceiptNow
    <2>3. VerifierTypeOK'
        BY <1>1, <2>1, <2>2 DEF VerifierTypeOK, node
    <2>4. ASSUME NEW w \in Call PROVE CallHolds(w)'
        <3>1. CASE w = v
            <4>1. receipt'[v] = ReceiptNow(n) /\ step'[v] = "transaction"
                BY <1>1, <2>1 DEF VerifierTypeOK
            <4> QED
                BY <3>1, <4>1, <2>2, <1>1 DEF CallHolds, node
        <3>2. CASE w # v
            BY <3>2, <1>1, <2>1, OtherCallsHold DEF VerifierTypeOK
        <3> QED
            BY <3>1, <3>2
    <2> QED
        BY <1>1, <2>3, <2>4, SameChainSameFacts
<1>3. CASE UNCHANGED receipt
    <2>1. VerifierTypeOK'
        BY <1>1, <1>3 DEF VerifierTypeOK, node
    <2>2. ASSUME NEW w \in Call PROVE CallHolds(w)'
        BY <1>1, <1>3 DEF CallHolds, Bound, node, VerifierTypeOK
    <2> QED
        BY <1>1, <2>1, <2>2, SameChainSameFacts
<1> QED
    BY <1>2, <1>3 DEF ReadReceipt

LEMMA ReadTransactionKeepsInvariant ==
    ASSUME IInv, NEW v \in Call, ReadTransaction(v) PROVE IInv'
<1> USE DEF IInv
<1>1. /\ UNCHANGED <<node, task, receipt, policyHead, observations>>
      /\ step[v] = "transaction" /\ step' = [step EXCEPT ![v] = "head"]
    BY DEF ReadTransaction
<1>2. /\ transaction' \in [Call -> Inclusion \cup {None}]
      /\ \A w \in Call : w # v => transaction'[w] = transaction[w]
    <2>1. \A n \in Included(task[v].tx) : InclusionNow(n) \in Inclusion
        BY AnswersAreTyped
    <2> QED
        BY <2>1 DEF ReadTransaction, VerifierTypeOK
<1>3. VerifierTypeOK'
    BY <1>1, <1>2 DEF VerifierTypeOK, node
<1>4. ASSUME NEW w \in Call PROVE CallHolds(w)'
    <2>1. CASE w = v
        <3>1. step'[v] = "head"
            BY <1>1 DEF VerifierTypeOK
        <3> QED
            BY <2>1, <3>1, <1>1 DEF CallHolds, node
    <2>2. CASE w # v
        BY <2>2, <1>1, <1>2, OtherCallsHold DEF VerifierTypeOK
    <2> QED
        BY <2>1, <2>2
<1> QED
    BY <1>1, <1>3, <1>4, SameChainSameFacts

LEMMA ReadHeadKeepsInvariant ==
    ASSUME IInv, NEW v \in Call, ReadHead(v) PROVE IInv'
<1> USE DEF IInv
<1>1. step[v] = "head" /\ UNCHANGED <<node, task, observations>>
    BY DEF ReadHead
<1>2. CASE End(v, "rejected")
    <2>1. VerifierTypeOK'
        BY <1>1, <1>2, EndedCallHolds DEF VerifierTypeOK, node
    <2> QED
        BY <1>1, <1>2, <2>1, EndedCallHolds, SameChainSameFacts
<1>3. CASE Bound(v) /\ policyHead' = [policyHead EXCEPT ![v] = head]
           /\ step' = [step EXCEPT ![v] = "canonical"] /\ UNCHANGED <<receipt, transaction>>
    <2>1. VerifierTypeOK'
        <3>1. head \in 0..MaxHeight
            BY DEF VerifierTypeOK
        <3> QED
            BY <3>1, <1>1, <1>3 DEF VerifierTypeOK, node
    <2>2. ASSUME NEW w \in Call PROVE CallHolds(w)'
        <3>1. CASE w = v
            <4>1. step'[v] = "canonical" /\ policyHead'[v] = head /\ head <= peak
                BY <1>3 DEF VerifierTypeOK
            <4> QED
                BY <3>1, <4>1, <1>1, <1>3 DEF CallHolds, Bound, node
        <3>2. CASE w # v
            BY <3>2, <1>1, <1>3, OtherCallsHold DEF VerifierTypeOK
        <3> QED
            BY <3>1, <3>2
    <2> QED
        BY <1>1, <2>1, <2>2, SameChainSameFacts
<1> QED
    BY <1>2, <1>3 DEF ReadHead

\* The observation of a call whose block is canonical and deep.
LEMMA CanonicalObservationHolds ==
    ASSUME IInv, NEW v \in Call, step[v] = "canonical", Canonical(v), Deep(v)
    PROVE  /\ ObservationBy(v) \in Observation
           /\ ObservationHolds(ObservationBy(v))
           /\ ExecutedAt(ObservationBy(v))
           /\ ObservationBy(v).height + MinConf <= peak + 1
<1> DEFINE o == ObservationBy(v)
<1>1. CallHolds(v) /\ Bound(v) /\ task[v] \in Task
    BY DEF IInv, CallHolds
<1>2. receipt[v] # None /\ receipt[v] \in Receipt /\ policyHead[v] \in 0..MaxHeight
    BY <1>1 DEF Bound, IInv, VerifierTypeOK
<1>3. /\ o.auth = task[v].auth /\ o.tx = task[v].tx /\ o.height = receipt[v].height
      /\ o.block = receipt[v].block /\ o.policyHead = policyHead[v]
    BY DEF ObservationBy
<1>4. o \in Observation
    BY <1>1, <1>2 DEF ObservationBy, Observation, Task, Receipt
<1>5. o.height \in 1..head /\ BlockAt(o.height) = o.block
    BY <1>2, <1>3 DEF Canonical, IInv, VerifierTypeOK, Receipt
<1>6. /\ o.block \in [1..o.height -> Content]
      /\ o.block[o.height].tx = o.tx
      /\ o.block[o.height].ok
    BY <1>1, <1>2, <1>3 DEF CallHolds, Bound
<1>7. Runs[o.tx] = o.auth
    BY <1>1, <1>3 DEF Bound
<1>8. o.policyHead <= peak /\ o.height + MinConf <= o.policyHead + 1
    BY <1>1, <1>3 DEF CallHolds, Deep
<1>9. chain[o.height] = o.block[o.height]
    BY <1>5, BlocksAreBlocks DEF IInv
<1>10. o.height <= head
    BY <1>5
<1>11. ObservationHolds(o)
    BY <1>5, <1>6, <1>7, <1>8, <1>10 DEF ObservationHolds
<1>12. ExecutedAt(o)
    BY <1>5, <1>6, <1>7, <1>9, <1>10 DEF ExecutedAt
<1>13. o.height + MinConf <= peak + 1
    <2>1. /\ o.height \in Nat /\ MinConf \in Nat /\ o.policyHead \in Nat /\ peak \in Nat
        BY <1>4, VerifierPolicy DEF Observation, IInv, VerifierTypeOK
    <2> HIDE DEF o
    <2> QED
        BY <2>1, <1>8
<1> QED
    BY <1>4, <1>11, <1>12, <1>13

LEMMA ReadCanonicalKeepsInvariant ==
    ASSUME IInv, NEW v \in Call, ReadCanonical(v) PROVE IInv'
<1> USE DEF IInv
<1>1. step[v] = "canonical" /\ UNCHANGED <<node, task>>
    BY DEF ReadCanonical
<1>2. End(v, "observed") \/ End(v, "rejected")
    BY DEF ReadCanonical
<1>3. \A o \in observations' : o \in observations \/
          (Canonical(v) /\ Deep(v) /\ o = ObservationBy(v))
    BY DEF ReadCanonical
<1>4. \A o \in observations' : o \in Observation /\ ObservationHolds(o)
    BY <1>1, <1>3, CanonicalObservationHolds DEF VerifierTypeOK
<1>5. \A o \in observations' : ObservationHolds(o)'
    BY <1>1, <1>4 DEF ObservationHolds, node, BlockAt
<1>6. VerifierTypeOK'
    BY <1>1, <1>2, <1>4, EndedCallHolds DEF VerifierTypeOK, node
<1>7. \A w \in Call : CallHolds(w)'
    BY <1>1, <1>2, EndedCallHolds
<1> QED
    BY <1>1, <1>5, <1>6, <1>7 DEF node, ChainExecutesOnce

LEMMA ReadFailsKeepsInvariant ==
    ASSUME IInv, NEW v \in Call, ReadFails(v) PROVE IInv'
<1> USE DEF IInv
<1>1. step[v] # "idle" /\ End(v, "rejected") /\ UNCHANGED <<node, task, observations>>
    BY DEF ReadFails
<1>2. VerifierTypeOK'
    BY <1>1, EndedCallHolds DEF VerifierTypeOK, node
<1> QED
    BY <1>1, <1>2, EndedCallHolds, SameChainSameFacts

LEMMA NextKeepsInvariant == IInv /\ [Next]_vars => IInv'
<1> SUFFICES ASSUME IInv, [Next]_vars PROVE IInv'
    OBVIOUS
<1>1. CASE Grow
    BY <1>1, GrowKeepsInvariant
<1>2. CASE RollBack
    BY <1>2, RollBackKeepsInvariant
<1>3. CASE \E v \in Call : Verify(v)
    BY <1>3, BeginKeepsInvariant, ReadReceiptKeepsInvariant, ReadTransactionKeepsInvariant,
       ReadHeadKeepsInvariant, ReadCanonicalKeepsInvariant, ReadFailsKeepsInvariant DEF Verify
<1>4. CASE UNCHANGED vars
    <2>1. UNCHANGED <<node, observations, step, task, receipt, transaction, policyHead>>
        BY <1>4 DEF vars, node
    <2>2. VerifierTypeOK'
        BY <2>1 DEF IInv, VerifierTypeOK, node
    <2>3. \A w \in Call : CallHolds(w)'
        BY <2>1, OtherCallsHold
    <2> QED
        BY <2>1, <2>2, <2>3, SameChainSameFacts DEF IInv
<1> QED
    BY <1>1, <1>2, <1>3, <1>4 DEF Next

-----------------------------------------------------------------------------
(* Theorems. *)

\* The inductive invariant: what each call holds between its reads, and that
\* every observed block is as deep as it says.
THEOREM VerifierInvariant == Spec => []IInv
<1> QED
    BY InitIsInvariant, NextKeepsInvariant, PTL DEF Spec

\* The verifier's state has its types.
THEOREM VerifierTypeCorrect == Spec => []VerifierTypeOK
<1>1. IInv => VerifierTypeOK
    BY DEF IInv
<1> QED
    BY <1>1, VerifierInvariant, PTL

LEMMA StepIsAtomic ==
    ASSUME IInv, [Next]_vars, NEW o \in observations' \ observations
    PROVE  ExecutedAt(o) /\ o.height + MinConf <= peak + 1
<1>1. PICK v \in Call : ReadCanonical(v)
    BY DEF Next, Verify, Grow, RollBack, Begin, ReadReceipt, ReadTransaction, ReadHead,
           ReadFails, vars
<1>2. step[v] = "canonical" /\ Canonical(v) /\ Deep(v) /\ o = ObservationBy(v)
    BY <1>1 DEF ReadCanonical
<1> QED
    BY <1>2, CanonicalObservationHolds

\* What verify returns is true of the chain at its last read, whatever was
\* rolled back between its reads and however deep.
THEOREM ReadsCountAsOne == Spec => ReadsAreAtomic
<1>1. IInv /\ [Next]_vars =>
        [\A o \in observations' \ observations :
            ExecutedAt(o) /\ o.height + MinConf <= peak + 1]_vars
    BY StepIsAtomic
<1> QED
    BY <1>1, VerifierInvariant, PTL DEF Spec, ReadsAreAtomic

LEMMA InvariantGivesFinality == IInv => ObservationIsFinal
<1> SUFFICES ASSUME IInv, MaxReorg < MinConf, NEW o \in observations PROVE ExecutedAt(o)
    BY DEF ObservationIsFinal
<1>1. ObservationHolds(o) /\ o.height \in 1..MaxHeight
    BY DEF IInv, VerifierTypeOK, Observation
<1>2. o.height <= head /\ BlockAt(o.height) = o.block
    BY <1>1 DEF ObservationHolds
<1>3. o.height \in 1..head
    BY <1>1, <1>2 DEF IInv, VerifierTypeOK
<1>4. chain[o.height] = o.block[o.height]
    BY <1>2, <1>3, BlocksAreBlocks DEF IInv
<1> QED
    BY <1>1, <1>2, <1>4 DEF ObservationHolds, ExecutedAt

\* When no rollback reaches min_confirmations deep, an observed transfer stays
\* on the chain.
THEOREM ObservedStays == Spec => []ObservationIsFinal
<1> QED
    BY InvariantGivesFinality, VerifierInvariant, PTL

LEMMA InvariantGivesOneTransfer == IInv => OneTransferPerAuthorization
<1> SUFFICES ASSUME IInv, MaxReorg < MinConf, NEW o \in observations,
                    NEW p \in observations, o.auth = p.auth
             PROVE  o.tx = p.tx /\ o.block = p.block
    BY DEF OneTransferPerAuthorization
<1>1. ExecutedAt(o) /\ ExecutedAt(p)
    BY InvariantGivesFinality DEF ObservationIsFinal
<1>2. o.height \in 1..head /\ p.height \in 1..head /\ o.auth # None
    BY <1>1, NoneIsNothing DEF ExecutedAt, IInv, VerifierTypeOK, Observation
<1>3. /\ chain[o.height].ok /\ chain[p.height].ok
      /\ Runs[chain[o.height].tx] = o.auth /\ Runs[chain[p.height].tx] = o.auth
    BY <1>1 DEF ExecutedAt
<1>4. o.height = p.height
    BY <1>2, <1>3 DEF IInv, ChainExecutesOnce
<1> QED
    BY <1>1, <1>4 DEF ExecutedAt

\* Then two verifications never observe different transfers for one
\* authorization.
THEOREM OneTransferObserved == Spec => []OneTransferPerAuthorization
<1> QED
    BY InvariantGivesOneTransfer, VerifierInvariant, PTL

=============================================================================
