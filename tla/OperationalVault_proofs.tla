---------------------- MODULE OperationalVault_proofs -----------------------
(* Theorems about OperationalProvisioning and Erc8004Registration, and about *)
(* OperationalVault, which joins them over one file.                         *)
EXTENDS OperationalVault, FiniteSetTheorems, TLAPS

-----------------------------------------------------------------------------
(* Provisioning, for commands run one at a time. *)

IsIssued(w) == \E i \in issued : i.wallet = w

(***************************************************************************)
(* The inductive invariant.  The state of a vault tells whether its wallet *)
(* may have a credential; a command's copy is its vault but for what the   *)
(* command is about to save; what is published is the vaults'.             *)
(***************************************************************************)
VaultInv(v) ==
    /\ vault[v].wallet = None <=> vault[v].state = None
    /\ vault[v].wallet = None <=> vault[v].pay_to = None
    /\ vault[v].key # None <=> vault[v].state = "ISSUED"
    /\ vault[v].wallet # None => vault[v].wallet \in wallets
    /\ vault[v].state \in {"NOT_STARTED", "REJECTED"} => ~IsIssued(vault[v].wallet)
    /\ vault[v].key # None
         => [wallet |-> vault[v].wallet, key |-> vault[v].key] \in issued

VaultsDiffer ==
    \A u, v \in Vault : vault[u].wallet # None /\ vault[u].wallet = vault[v].wallet => u = v

IssuedInv ==
    /\ \A i \in issued : i.wallet \in wallets
    /\ \A i, j \in issued : i.wallet = j.wallet => i = j

Publishing == {"set_wallet", "set_pay_to", "set_key", "published"}

\* The copy is the vault, and the vault has its wallet.
Faithful == {"keying", "submitting", "received", "rejected", "provisioned"} \cup Publishing

CommandInv(c) ==
    LET own == vault[file[c]] IN
    /\ pc[c] # "idle" => file[c] \in Vault
    /\ pc[c] = "creating"
         => /\ own.wallet = None /\ own.key = None
            /\ copy[c].wallet = None /\ copy[c].key = None /\ copy[c].pay_to # None
    /\ pc[c] \in Faithful => copy[c] = own /\ own.wallet # None
    /\ pc[c] \in {"submitting", "received", "rejected"} => own.state = "IN_FLIGHT"
    /\ pc[c] \in {"submitting", "rejected"} => ~IsIssued(own.wallet)
    /\ pc[c] = "received"
         => reply[c] \in Key /\ [wallet |-> own.wallet, key |-> reply[c]] \in issued
    /\ pc[c] = "unanswered"
         => /\ own.state \in {"NOT_STARTED", "REJECTED", "IN_FLIGHT"}
            /\ own = [copy[c] EXCEPT !.state = own.state]
    /\ pc[c] \in {"provisioned"} \cup Publishing => own.key # None
    /\ pc[c] \in {"set_pay_to", "set_key", "published"} => railway.wallet # None
    /\ pc[c] \in {"set_key", "published"} => railway.pay_to # None
    /\ pc[c] = "published" => railway.key # None

\* Variables are unset or some vault's; enabled, they are all set.
Stand(variables) ==
    /\ variables.wallet # None => \E v \in Vault : vault[v].wallet = variables.wallet
    /\ variables.pay_to # None => \E v \in Vault : vault[v].pay_to = variables.pay_to
    /\ variables.key # None => \E v \in Vault : vault[v].key = variables.key
    /\ variables.enabled
         => variables.wallet # None /\ variables.pay_to # None /\ variables.key # None

ProvisioningInv ==
    /\ ProvisioningTypeOK
    /\ \A v \in Vault : VaultInv(v)
    /\ VaultsDiffer
    /\ IssuedInv
    /\ \A c \in Command : CommandInv(c)
    /\ Stand(railway) /\ Stand(deployed)

\* What a vault names once, it names for good.
Keeps(v) ==
    /\ vault[v].pay_to # None => vault'[v].pay_to = vault[v].pay_to
    /\ vault[v].wallet # None => vault'[v].wallet = vault[v].wallet
    /\ vault[v].key # None => vault'[v].key = vault[v].key

-----------------------------------------------------------------------------

LEMMA ProvisioningInit == Init => ProvisioningInv
<1> SUFFICES ASSUME Init PROVE ProvisioningInv
  OBVIOUS
<1>1. Empty \in Identity /\ Unset \in Variables
  BY DEF Empty, Unset, Identity, Variables
<1>2. ProvisioningTypeOK
  BY <1>1 DEF Init, ProvisioningTypeOK, Step
<1>3. \A v \in Vault : VaultInv(v)
  BY NoneIsNoName DEF Init, VaultInv, Empty, KeyState
<1>4. VaultsDiffer /\ IssuedInv
  BY DEF Init, VaultsDiffer, IssuedInv, Empty
<1>5. \A c \in Command : CommandInv(c)
  BY DEF Init, CommandInv, Faithful, Publishing
<1>6. Stand(railway) /\ Stand(deployed)
  BY DEF Init, Stand, Unset
<1> QED
  BY <1>2, <1>3, <1>4, <1>5, <1>6 DEF ProvisioningInv

\* What is published stays some vault's while the vaults keep what they name.
LEMMA StandStays ==
    ASSUME \A v \in Vault : Keeps(v), Stand(railway), Stand(deployed),
           UNCHANGED <<railway, deployed>>
    PROVE  Stand(railway)' /\ Stand(deployed)'
BY DEF Stand, Keeps

\* A save that keeps what its vault names, and at most adds a new wallet.
LEMMA SaveInv ==
    ASSUME \A x, y \in Command : x = y, ProvisioningInv,
           NEW c \in Command, NEW f \in Vault, NEW n \in Identity,
           vault' = [vault EXCEPT ![f] = n],
           wallets \subseteq wallets', wallets' \subseteq Wallet,
           UNCHANGED <<file, reply, issued, railway, deployed>>,
           copy' \in [Command -> Identity], pc' \in [Command -> Step],
           n.wallet # vault[f].wallet => n.wallet \notin wallets,
           Keeps(f), VaultInv(f)', CommandInv(c)'
    PROVE  ProvisioningInv' /\ \A v \in Vault : Keeps(v)
<1>1. /\ ProvisioningTypeOK /\ VaultsDiffer /\ IssuedInv
      /\ \A v \in Vault : VaultInv(v)
  BY DEF ProvisioningInv
<1>2. vault \in [Vault -> Identity] /\ vault' \in [Vault -> Identity] /\ vault'[f] = n
  BY <1>1 DEF ProvisioningTypeOK
<1>3. \A u \in Vault \ {f} : vault'[u] = vault[u]
  BY <1>2
<1>4. ProvisioningTypeOK'
  BY <1>1, <1>2 DEF ProvisioningTypeOK
<1>5. \A v \in Vault : Keeps(v)
  BY <1>3 DEF Keeps
<1>6. \A u \in Vault \ {f} : VaultInv(u)'
  BY <1>1, <1>3 DEF VaultInv, IsIssued
<1>7. VaultsDiffer'
  <2> SUFFICES ASSUME NEW u \in Vault, NEW v \in Vault,
                      vault'[u].wallet # None, vault'[u].wallet = vault'[v].wallet
               PROVE  u = v
    BY DEF VaultsDiffer
  <2>1. \A v1 \in Vault : vault[v1].wallet # None => vault[v1].wallet \in wallets
    BY <1>1 DEF VaultInv
  <2> QED
    BY <1>1, <1>2, <1>3, <2>1 DEF VaultsDiffer
<1>8. IssuedInv'
  BY <1>1 DEF IssuedInv
<1>9. Stand(railway)' /\ Stand(deployed)'
  BY <1>5, StandStays DEF ProvisioningInv
<1> QED
  BY <1>4, <1>5, <1>6, <1>7, <1>8, <1>9 DEF ProvisioningInv

\* The steps that save.
LEMMA SavingRun ==
    ASSUME \A x, y \in Command : x = y, ProvisioningInv, NEW c \in Command,
           CreateWallet(c) \/ MarkInFlight(c) \/ SaveIssued(c) \/ SaveRejected(c)
              \/ SaveAmbiguous(c)
    PROVE  ProvisioningInv' /\ \A v \in Vault : Keeps(v)
<1>1. /\ ProvisioningTypeOK /\ CommandInv(c) /\ pc[c] # "idle"
      /\ vault \in [Vault -> Identity] /\ copy \in [Command -> Identity]
      /\ pc \in [Command -> Step] /\ wallets \subseteq Wallet /\ reply \in [Command -> Key \cup {None}]
  BY DEF ProvisioningInv, ProvisioningTypeOK, CreateWallet, MarkInFlight, SaveIssued,
     SaveRejected, SaveAmbiguous
<1>2. PICK f \in Vault : f = file[c] /\ VaultInv(f)
  BY <1>1 DEF CommandInv, ProvisioningInv
<1>3. copy[c] \in Identity /\ vault[f] \in Identity
  BY <1>1, <1>2
<1>4. CASE CreateWallet(c)
  <2>1. PICK w \in Wallet \ wallets :
           /\ wallets' = wallets \cup {w}
           /\ copy' = [copy EXCEPT ![c].wallet = w, ![c].state = "NOT_STARTED"]
    BY <1>4 DEF CreateWallet
  <2>2. /\ vault[f].wallet = None /\ vault[f].key = None
        /\ copy[c].wallet = None /\ copy[c].key = None /\ copy[c].pay_to # None
    BY <1>1, <1>2, <1>4 DEF CommandInv, CreateWallet
  <2>3. /\ copy' \in [Command -> Identity] /\ copy'[c].wallet = w
        /\ copy'[c].state = "NOT_STARTED" /\ copy'[c].key = None
        /\ copy'[c].pay_to = copy[c].pay_to
    BY <1>1, <1>3, <2>1, <2>2 DEF Identity, KeyState
  <2>4. /\ vault' = [vault EXCEPT ![f] = copy'[c]] /\ vault'[f] = copy'[c]
        /\ pc' = [pc EXCEPT ![c] = "keying"]
        /\ UNCHANGED <<file, reply, issued, railway, deployed>>
    BY <1>1, <1>2, <1>4 DEF CreateWallet, Save, Goto
  <2>5. w # None /\ ~IsIssued(w)
    BY <2>1, NoneIsNoName DEF ProvisioningInv, IssuedInv, IsIssued
  <2>6. VaultInv(f)'
    <3>1. /\ vault'[f].wallet = w /\ vault'[f].state = "NOT_STARTED"
          /\ vault'[f].key = None /\ vault'[f].pay_to # None
      BY <2>2, <2>3, <2>4
    <3>2. "NOT_STARTED" # None /\ w \in wallets' /\ ~IsIssued(w)'
      BY <2>1, <2>4, <2>5, NoneIsNoName DEF KeyState, IsIssued
    <3> QED
      BY <2>5, <3>1, <3>2 DEF VaultInv
  <2>7. Keeps(f)
    BY <1>2, <2>2, <2>3, <2>4 DEF Keeps, VaultInv
  <2>8. CommandInv(c)' /\ pc' \in [Command -> Step]
    BY <1>1, <1>2, <2>3, <2>4, <2>5 DEF CommandInv, Faithful, Publishing, Step
  <2> QED
    BY <1>1, <1>2, <2>1, <2>3, <2>4, <2>6, <2>7, <2>8, SaveInv
<1>5. ASSUME NEW state \in KeyState,
             copy' = [copy EXCEPT ![c].state = state], Save(c),
             vault[f] = [copy[c] EXCEPT !.state = vault[f].state], vault[f].key = None,
             vault[f].wallet # None, state # "ISSUED",
             state \in {"NOT_STARTED", "REJECTED"} => ~IsIssued(vault[f].wallet),
             UNCHANGED <<file, reply, wallets, issued, railway, deployed>>,
             CommandInv(c)', pc' \in [Command -> Step]
      PROVE  ProvisioningInv' /\ \A v \in Vault : Keeps(v)
  <2>1. /\ copy' \in [Command -> Identity] /\ copy'[c] = [copy[c] EXCEPT !.state = state]
        /\ copy'[c].state = state /\ copy'[c].key = vault[f].key
        /\ copy'[c].wallet = vault[f].wallet /\ copy'[c].pay_to = vault[f].pay_to
    BY <1>1, <1>3, <1>5 DEF Identity
  <2>2. vault' = [vault EXCEPT ![f] = copy'[c]] /\ vault'[f] = copy'[c]
    BY <1>1, <1>2, <1>5 DEF Save
  <2>3. state # None
    BY NoneIsNoName
  <2>4. VaultInv(f)' /\ Keeps(f)
    BY <1>2, <1>5, <2>1, <2>2, <2>3 DEF VaultInv, IsIssued, Keeps
  <2> QED
    BY <1>1, <1>2, <1>5, <2>1, <2>2, <2>4, SaveInv
<1>6. CASE MarkInFlight(c)
  <2>1. /\ pc[c] = "keying" /\ copy[c] = vault[f] /\ vault[f].wallet # None
        /\ vault[f].key = None /\ vault[f].state \in {"NOT_STARTED", "REJECTED"}
    BY <1>1, <1>2, <1>3, <1>6
       DEF MarkInFlight, CommandInv, Faithful, VaultInv, Identity, KeyState
  <2>2. ~IsIssued(vault[f].wallet)
    BY <1>2, <2>1 DEF VaultInv
  <2>3. /\ copy' = [copy EXCEPT ![c].state = "IN_FLIGHT"]
        /\ copy' \in [Command -> Identity]
        /\ copy'[c] = [vault[f] EXCEPT !.state = "IN_FLIGHT"]
        /\ copy'[c].state = "IN_FLIGHT" /\ copy'[c].wallet = vault[f].wallet
        /\ UNCHANGED <<file, reply, wallets, issued, railway, deployed>>
    BY <1>1, <1>3, <1>6, <2>1 DEF MarkInFlight, Identity, KeyState
  <2>4. CASE Save(c) /\ Goto(c, "submitting")
    <3>1. vault'[f] = copy'[c]
      BY <1>1, <1>2, <2>4 DEF Save
    <3>2. CommandInv(c)' /\ pc' \in [Command -> Step]
      BY <1>1, <1>2, <2>1, <2>2, <2>3, <2>4, <3>1
         DEF CommandInv, Faithful, Publishing, Goto, Step, IsIssued
    <3>3. "IN_FLIGHT" \in KeyState /\ vault[f] = [copy[c] EXCEPT !.state = vault[f].state]
      BY <1>3, <2>1 DEF KeyState, Identity
    <3> QED
      BY <1>5, <2>1, <2>3, <2>4, <3>2, <3>3
  <2>5. CASE UNCHANGED vault /\ Goto(c, "unanswered")
    <3>1. vault[f] = [copy'[c] EXCEPT !.state = vault[f].state]
      BY <1>3, <2>3 DEF Identity
    <3>2. CommandInv(c)' /\ pc' \in [Command -> Step]
      BY <1>1, <1>2, <2>1, <2>3, <2>5, <3>1
         DEF CommandInv, Faithful, Publishing, Goto, Step
    <3>3. vault' = [vault EXCEPT ![f] = vault[f]]
      BY <1>1, <1>2, <2>5
    <3>4. VaultInv(f)' /\ Keeps(f)
      BY <1>2, <2>3, <2>5 DEF VaultInv, IsIssued, Keeps
    <3> QED
      BY <1>1, <1>2, <1>3, <2>3, <3>2, <3>3, <3>4, SaveInv
  <2> QED
    BY <1>6, <2>4, <2>5 DEF MarkInFlight
<1>7. CASE SaveIssued(c)
  <2>1. /\ pc[c] = "received" /\ copy[c] = vault[f] /\ vault[f].wallet # None
        /\ vault[f].state = "IN_FLIGHT" /\ reply[c] \in Key
        /\ [wallet |-> vault[f].wallet, key |-> reply[c]] \in issued
    BY <1>1, <1>2, <1>7 DEF SaveIssued, CommandInv, Faithful
  <2>2. vault[f].key = None /\ reply[c] # None
    BY <1>2, <2>1, NoneIsNoName DEF VaultInv
  <2>3. /\ copy' \in [Command -> Identity] /\ copy'[c].key = reply[c]
        /\ copy'[c].state = "ISSUED" /\ copy'[c].wallet = vault[f].wallet
        /\ copy'[c].pay_to = vault[f].pay_to
        /\ UNCHANGED <<file, reply, wallets, issued, railway, deployed>>
    BY <1>1, <1>3, <1>7, <2>1 DEF SaveIssued, Identity, KeyState
  <2>4. /\ vault' = [vault EXCEPT ![f] = copy'[c]] /\ vault'[f] = copy'[c]
        /\ pc' = [pc EXCEPT ![c] = "provisioned"]
    BY <1>1, <1>2, <1>7 DEF SaveIssued, Save, Goto
  <2>5. VaultInv(f)' /\ Keeps(f)
    BY <1>2, <2>1, <2>2, <2>3, <2>4, NoneIsNoName DEF VaultInv, Keeps, KeyState
  <2>6. CommandInv(c)' /\ pc' \in [Command -> Step]
    BY <1>1, <1>2, <2>1, <2>2, <2>3, <2>4 DEF CommandInv, Faithful, Publishing, Step
  <2> QED
    BY <1>1, <1>2, <2>3, <2>4, <2>5, <2>6, SaveInv
<1>8. CASE SaveRejected(c) \/ SaveAmbiguous(c)
  <2>1. PICK state \in {"REJECTED", "AMBIGUOUS"} :
           /\ copy' = [copy EXCEPT ![c].state = state]
           /\ state = "REJECTED" => pc[c] = "rejected"
           /\ state = "AMBIGUOUS" => pc[c] = "unanswered"
    BY <1>8 DEF SaveRejected, SaveAmbiguous
  <2>2. /\ Save(c) /\ pc' = [pc EXCEPT ![c] = "idle"]
        /\ UNCHANGED <<file, reply, wallets, issued, railway, deployed>>
    BY <1>8 DEF SaveRejected, SaveAmbiguous, Goto
  <2>3. /\ vault[f] = [copy[c] EXCEPT !.state = vault[f].state]
        /\ vault[f].state \in {"NOT_STARTED", "REJECTED", "IN_FLIGHT"}
        /\ state = "REJECTED" => ~IsIssued(vault[f].wallet)
    BY <1>1, <1>2, <1>3, <2>1 DEF CommandInv, Faithful, Identity
  <2>4. vault[f].key = None /\ vault[f].wallet # None
    BY <1>2, <2>3, NoneIsNoName DEF VaultInv, KeyState
  <2>5. CommandInv(c)' /\ pc' \in [Command -> Step]
    BY <1>1, <2>2 DEF CommandInv, Faithful, Publishing, Step
  <2> QED
    BY <1>5, <2>1, <2>2, <2>3, <2>4, <2>5 DEF KeyState
<1> QED
  BY <1>4, <1>6, <1>7, <1>8

\* The steps that change a command only.
LEMMA QuietRun ==
    ASSUME \A x, y \in Command : x = y, ProvisioningInv, NEW c \in Command,
           Start(c) \/ KeepKey(c) \/ LoadToPublish(c) \/ Stop(c)
    PROVE  ProvisioningInv' /\ UNCHANGED vault
<1>1. /\ ProvisioningTypeOK /\ CommandInv(c) /\ \A v \in Vault : VaultInv(v)
      /\ vault \in [Vault -> Identity] /\ copy \in [Command -> Identity]
      /\ pc \in [Command -> Step] /\ file \in [Command -> Vault \cup {None}]
  BY DEF ProvisioningInv, ProvisioningTypeOK
<1>2. UNCHANGED <<vault, reply, wallets, issued, railway, deployed>>
  BY DEF Start, KeepKey, LoadToPublish, Stop
<1>3. /\ file' \in [Command -> Vault \cup {None}] /\ copy' \in [Command -> Identity]
      /\ pc' \in [Command -> Step] /\ CommandInv(c)'
  <2>1. CASE Start(c)
    <3>1. PICK v \in Vault, t \in Treasury :
             /\ vault[v].pay_to \in {None, t}
             /\ file' = [file EXCEPT ![c] = v]
             /\ copy' = [copy EXCEPT ![c] = [vault[v] EXCEPT !.pay_to = t]]
             /\ pc' = [pc EXCEPT ![c] = IF vault[v].wallet = None THEN "creating" ELSE "keying"]
      BY <2>1 DEF Start, Goto
    <3>2. vault[v] \in Identity /\ VaultInv(v) /\ t # None /\ None # "ISSUED"
      BY <1>1, NoneIsNoName DEF KeyState
    <3>3. /\ file'[c] = v /\ copy'[c] = [vault[v] EXCEPT !.pay_to = t]
          /\ copy'[c] \in Identity /\ copy'[c].pay_to = t
          /\ copy'[c].wallet = vault[v].wallet /\ copy'[c].key = vault[v].key
      BY <1>1, <3>1, <3>2 DEF Identity
    <3>4. CASE vault[v].wallet = None
      BY <1>1, <1>2, <3>1, <3>2, <3>3, <3>4
         DEF CommandInv, Faithful, Publishing, VaultInv, Step
    <3>5. CASE vault[v].wallet # None
      <4>1. vault[v].pay_to = t /\ copy'[c] = vault[v]
        BY <3>1, <3>2, <3>3, <3>5 DEF VaultInv, Identity
      <4> QED
        BY <1>1, <1>2, <3>1, <3>3, <3>5, <4>1 DEF CommandInv, Faithful, Publishing, Step
    <3> QED
      BY <3>4, <3>5
  <2>2. CASE KeepKey(c)
    BY <1>1, <1>2, <2>2 DEF KeepKey, CommandInv, Faithful, Publishing, Goto, Step
  <2>3. CASE LoadToPublish(c)
    <3>1. /\ pc[c] = "provisioned" /\ vault[file[c]].key # None
          /\ copy' = [copy EXCEPT ![c].key = vault[file[c]].key]
          /\ pc' = [pc EXCEPT ![c] = "set_wallet"] /\ file' = file
      BY <2>3 DEF LoadToPublish, Goto
    <3>2. file[c] \in Vault /\ copy[c] = vault[file[c]]
      BY <1>1, <3>1 DEF CommandInv, Faithful
    <3>3. copy' = copy
      BY <1>1, <3>1, <3>2 DEF Identity
    <3> QED
      BY <1>1, <1>2, <3>1, <3>2, <3>3 DEF CommandInv, Faithful, Publishing, Step
  <2>4. CASE Stop(c)
    BY <1>1, <1>2, <2>4 DEF Stop, CommandInv, Faithful, Publishing, Goto, Step
  <2> QED
    BY <2>1, <2>2, <2>3, <2>4
<1>4. ProvisioningTypeOK'
  BY <1>1, <1>2, <1>3 DEF ProvisioningTypeOK
<1>5. (\A v \in Vault : VaultInv(v)') /\ VaultsDiffer' /\ IssuedInv'
      /\ Stand(railway)' /\ Stand(deployed)'
  BY <1>2 DEF ProvisioningInv, VaultInv, IsIssued, VaultsDiffer, IssuedInv, Stand
<1> QED
  BY <1>2, <1>3, <1>4, <1>5 DEF ProvisioningInv

\* The request for a credential: the portal issues one for a wallet without.
LEMMA SubmitInv ==
    ASSUME \A x, y \in Command : x = y, ProvisioningInv, NEW c \in Command, Submit(c)
    PROVE  /\ ProvisioningInv' /\ UNCHANGED vault
           /\ vault[file[c]].state = "IN_FLIGHT" /\ file[c] \in Vault
           /\ ~IsIssued(vault[file[c]].wallet) /\ vault[file[c]].wallet # None
           /\ \/ UNCHANGED issued
              \/ \E k \in Key :
                   issued' = issued \cup {[wallet |-> vault[file[c]].wallet, key |-> k]}
<1>1. /\ ProvisioningTypeOK /\ CommandInv(c) /\ \A v \in Vault : VaultInv(v)
      /\ vault \in [Vault -> Identity] /\ reply \in [Command -> Key \cup {None}]
      /\ pc \in [Command -> Step] /\ issued \subseteq [wallet : Wallet, key : Key]
      /\ wallets \subseteq Wallet
  BY DEF ProvisioningInv, ProvisioningTypeOK
<1>2. UNCHANGED <<vault, file, copy, wallets, railway, deployed>> /\ pc[c] = "submitting"
  BY DEF Submit
<1>3. PICK f \in Vault : /\ f = file[c] /\ vault[f].state = "IN_FLIGHT" /\ copy[c] = vault[f]
                         /\ vault[f].wallet # None /\ ~IsIssued(vault[f].wallet)
  BY <1>1, <1>2 DEF CommandInv, Faithful
<1>4. /\ vault[f].wallet \in wallets /\ VaultInv(f) /\ vault[f].key = None
      /\ vault[f] = [copy[c] EXCEPT !.state = vault[f].state]
  BY <1>1, <1>3 DEF VaultInv, Identity
<1>5. CASE UNCHANGED <<issued, reply>> /\ (Goto(c, "rejected") \/ Goto(c, "unanswered"))
  <2>1. pc' \in [Command -> Step] /\ pc'[c] \in {"rejected", "unanswered"}
    BY <1>1, <1>5 DEF Goto, Step
  <2>2. CommandInv(c)'
    BY <1>2, <1>3, <1>4, <1>5, <2>1 DEF CommandInv, Faithful, Publishing, IsIssued
  <2>3. ProvisioningTypeOK'
    BY <1>1, <1>2, <1>5, <2>1 DEF ProvisioningTypeOK
  <2>4. (\A v \in Vault : VaultInv(v)') /\ VaultsDiffer' /\ IssuedInv'
        /\ Stand(railway)' /\ Stand(deployed)'
    BY <1>2, <1>5 DEF ProvisioningInv, VaultInv, IsIssued, VaultsDiffer, IssuedInv, Stand
  <2> QED
    BY <1>2, <1>3, <1>5, <2>2, <2>3, <2>4 DEF ProvisioningInv
<1>6. ASSUME NEW k \in Key,
             issued' = issued \cup {[wallet |-> vault[f].wallet, key |-> k]},
             \/ reply' = [reply EXCEPT ![c] = k] /\ Goto(c, "received")
             \/ UNCHANGED reply /\ Goto(c, "unanswered")
      PROVE  ProvisioningInv'
  <2>1. /\ pc' \in [Command -> Step] /\ pc'[c] \in {"received", "unanswered"}
        /\ pc'[c] = "received" => reply'[c] = k
        /\ reply' \in [Command -> Key \cup {None}]
    BY <1>1, <1>6 DEF Goto, Step
  <2>2. CommandInv(c)'
    BY <1>2, <1>3, <1>4, <1>6, <2>1 DEF CommandInv, Faithful, Publishing
  <2>3. ProvisioningTypeOK'
    BY <1>1, <1>2, <1>4, <1>6, <2>1 DEF ProvisioningTypeOK
  <2>4. ASSUME NEW v \in Vault PROVE VaultInv(v)'
    <3>1. CASE vault[v].state \in {"NOT_STARTED", "REJECTED"}
      <4>1. vault[v].wallet # vault[f].wallet
        BY <1>3, <3>1 DEF ProvisioningInv, VaultsDiffer
      <4> QED
        BY <1>1, <1>2, <1>6, <3>1, <4>1 DEF VaultInv, IsIssued
    <3>2. CASE vault[v].state \notin {"NOT_STARTED", "REJECTED"}
      BY <1>1, <1>2, <1>6, <3>2 DEF VaultInv
    <3> QED
      BY <3>1, <3>2
  <2>5. IssuedInv'
    BY <1>2, <1>3, <1>4, <1>6 DEF ProvisioningInv, IssuedInv, IsIssued
  <2>6. VaultsDiffer' /\ Stand(railway)' /\ Stand(deployed)'
    BY <1>2 DEF ProvisioningInv, VaultsDiffer, Stand
  <2> QED
    BY <2>2, <2>3, <2>4, <2>5, <2>6 DEF ProvisioningInv
<1>7. CASE \E k \in Key :
             /\ issued' = issued \cup {[wallet |-> copy[c].wallet, key |-> k]}
             /\ \/ reply' = [reply EXCEPT ![c] = k] /\ Goto(c, "received")
                \/ UNCHANGED reply /\ Goto(c, "unanswered")
  BY <1>2, <1>3, <1>6, <1>7
<1> QED
  BY <1>5, <1>7 DEF Submit

\* The steps that write Railway's variables, and the deployment of them.
LEMMA PublishInv ==
    ASSUME \A x, y \in Command : x = y, ProvisioningInv,
           Deploy \/ \E c \in Command : Publish(c) \/ Enable(c)
    PROVE  ProvisioningInv' /\ UNCHANGED vault
<1>1. /\ ProvisioningTypeOK /\ \A c \in Command : CommandInv(c)
      /\ vault \in [Vault -> Identity] /\ pc \in [Command -> Step]
      /\ railway \in Variables /\ Stand(railway) /\ Stand(deployed)
  BY DEF ProvisioningInv, ProvisioningTypeOK
<1>2. UNCHANGED <<vault, file, copy, reply, wallets, issued>>
  BY DEF Deploy, Publish, SetVariable, Enable, command
<1>3. (\A v \in Vault : VaultInv(v)') /\ VaultsDiffer' /\ IssuedInv'
  BY <1>2 DEF ProvisioningInv, VaultInv, IsIssued, VaultsDiffer, IssuedInv
<1>4. CASE Deploy
  <2>1. Stand(railway)' /\ Stand(deployed)' /\ deployed' \in Variables /\ UNCHANGED <<railway, pc>>
    BY <1>1, <1>2, <1>4 DEF Deploy, Stand, command
  <2>2. ProvisioningTypeOK' /\ \A c \in Command : CommandInv(c)'
    BY <1>1, <1>2, <2>1 DEF ProvisioningTypeOK, CommandInv, IsIssued
  <2> QED
    BY <1>2, <1>3, <2>1, <2>2 DEF ProvisioningInv
<1>5. ASSUME NEW c \in Command, Publish(c) \/ Enable(c) PROVE ProvisioningInv'
  <2>1. CommandInv(c) /\ UNCHANGED deployed /\ pc[c] \in Publishing
    BY <1>1, <1>5 DEF Publish, SetVariable, Enable, Publishing
  <2>2. PICK f \in Vault : /\ f = file[c] /\ copy[c] = vault[f] /\ VaultInv(f)
                           /\ vault[f].wallet # None /\ vault[f].key # None
                           /\ vault[f].pay_to # None /\ vault[f] \in Identity
    BY <1>1, <2>1 DEF CommandInv, Faithful, Publishing, VaultInv, ProvisioningInv
  <2>3. Stand(deployed)'
    BY <1>1, <1>2, <2>1 DEF Stand
  <2>4. /\ railway' \in Variables /\ pc' \in [Command -> Step]
        /\ Stand(railway)' /\ CommandInv(c)'
    <3>1. CASE SetVariable(c, "wallet", "set_wallet", "set_pay_to")
      <4>1. railway' = [railway EXCEPT !.wallet = vault[f].wallet] /\ pc' = [pc EXCEPT ![c] = "set_pay_to"]
        BY <2>2, <3>1 DEF SetVariable, Goto
      <4>2. railway' \in Variables /\ Stand(railway)' /\ railway'.wallet # None
        BY <1>1, <1>2, <2>2, <4>1 DEF Variables, Stand, Identity
      <4> QED
        BY <1>1, <1>2, <2>1, <2>2, <4>1, <4>2 DEF CommandInv, Faithful, Publishing, Step
    <3>2. CASE SetVariable(c, "pay_to", "set_pay_to", "set_key")
      <4>1. /\ railway' = [railway EXCEPT !.pay_to = vault[f].pay_to]
            /\ pc' = [pc EXCEPT ![c] = "set_key"] /\ pc[c] = "set_pay_to"
        BY <2>2, <3>2 DEF SetVariable, Goto
      <4>2. /\ railway' \in Variables /\ Stand(railway)' /\ railway'.pay_to # None
            /\ railway'.wallet = railway.wallet
        BY <1>1, <1>2, <2>2, <4>1 DEF Variables, Stand, Identity
      <4> QED
        BY <1>1, <1>2, <2>1, <2>2, <4>1, <4>2 DEF CommandInv, Faithful, Publishing, Step
    <3>3. CASE SetVariable(c, "key", "set_key", "published")
      <4>1. /\ railway' = [railway EXCEPT !.key = vault[f].key]
            /\ pc' = [pc EXCEPT ![c] = "published"] /\ pc[c] = "set_key"
        BY <2>2, <3>3 DEF SetVariable, Goto
      <4>2. /\ railway' \in Variables /\ Stand(railway)' /\ railway'.key # None
            /\ railway'.wallet = railway.wallet /\ railway'.pay_to = railway.pay_to
        BY <1>1, <1>2, <2>2, <4>1 DEF Variables, Stand, Identity
      <4> QED
        BY <1>1, <1>2, <2>1, <2>2, <4>1, <4>2 DEF CommandInv, Faithful, Publishing, Step
    <3>4. CASE Enable(c)
      <4>1. /\ railway' = [railway EXCEPT !.enabled = TRUE]
            /\ pc' = [pc EXCEPT ![c] = "idle"] /\ pc[c] = "published"
        BY <3>4 DEF Enable, Goto
      <4>2. railway' \in Variables /\ Stand(railway)'
        BY <1>1, <1>2, <2>1, <4>1 DEF Variables, Stand, CommandInv
      <4> QED
        BY <1>1, <1>2, <2>1, <2>2, <4>1, <4>2 DEF CommandInv, Faithful, Publishing, Step
    <3> QED
      BY <1>5, <3>1, <3>2, <3>3, <3>4 DEF Publish
  <2>5. ProvisioningTypeOK'
    BY <1>1, <1>2, <2>1, <2>4 DEF ProvisioningTypeOK
  <2> QED
    BY <1>3, <2>3, <2>4, <2>5 DEF ProvisioningInv
<1> QED
  BY <1>2, <1>4, <1>5

LEMMA ProvisioningNext ==
    ASSUME \A x, y \in Command : x = y, ProvisioningInv, [Next]_vars
    PROVE  ProvisioningInv' /\ \A v \in Vault : Keeps(v)
<1>1. UNCHANGED vault => \A v \in Vault : Keeps(v)
  BY DEF Keeps
<1>2. ASSUME NEW c \in Command, Run(c) PROVE ProvisioningInv' /\ \A v \in Vault : Keeps(v)
  BY <1>1, <1>2, SavingRun, QuietRun, SubmitInv, PublishInv DEF Run
<1>3. CASE Deploy
  BY <1>1, <1>3, PublishInv
<1>4. CASE UNCHANGED vars
  <2>1. ProvisioningInv'
    BY <1>4 DEF vars, command, ProvisioningInv, ProvisioningTypeOK, VaultInv, IsIssued,
       VaultsDiffer, IssuedInv, CommandInv, Stand
  <2> QED
    BY <1>1, <1>4, <2>1 DEF vars
<1> QED
  BY <1>2, <1>3, <1>4 DEF Next

-----------------------------------------------------------------------------
(* Theorems: one command at a time, any vaults, treasuries and wallets. *)

\* The inductive invariant: at every step of provision_operational_identity and
\* publish_to_railway, and wherever they stop, each vault says what may have
\* been issued to its wallet, and Railway holds only what vaults name.
THEOREM ProvisioningInvariant ==
    ASSUME \A x, y \in Command : x = y
    PROVE  Spec => []ProvisioningInv
<1>1. ProvisioningInv /\ [Next]_vars => ProvisioningInv'
  BY ProvisioningNext
<1> QED
  BY <1>1, ProvisioningInit, PTL DEF Spec

\* The vaults, the copies and the published variables have the types of
\* operational_provisioning.py at every step of every command.
THEOREM ProvisioningTypeCorrect ==
    ASSUME \A x, y \in Command : x = y
    PROVE  Spec => []ProvisioningTypeOK
<1>1. ProvisioningInv => ProvisioningTypeOK
  BY DEF ProvisioningInv
<1> QED
  BY <1>1, ProvisioningInvariant, PTL

\* The service never runs the paid route on a variable that is unset or that no
\* vault names: publish_to_railway enables last, and vaults keep what they name.
THEOREM EnabledOnlyComplete ==
    ASSUME \A x, y \in Command : x = y
    PROVE  Spec => []EnabledIsComplete
<1>1. ProvisioningInv => EnabledIsComplete
  BY DEF ProvisioningInv, Stand, EnabledIsComplete
<1> QED
  BY <1>1, ProvisioningInvariant, PTL

\* With one vault file, what publish_to_railway enables belongs together.
THEOREM OneVaultPublishesTogether ==
    ASSUME \A x, y \in Command : x = y, \A u, v \in Vault : u = v
    PROVE  Spec => []PublishedTogether
<1>1. ProvisioningInv => PublishedTogether
  <2> SUFFICES ASSUME ProvisioningInv, deployed.enabled PROVE PublishedTogether
    BY DEF PublishedTogether
  <2>1. PICK v \in Vault : vault[v].wallet = deployed.wallet
    BY DEF ProvisioningInv, Stand
  <2>2. vault[v].pay_to = deployed.pay_to /\ vault[v].key = deployed.key
    BY DEF ProvisioningInv, Stand
  <2> QED
    BY <2>1, <2>2 DEF PublishedTogether
<1> QED
  BY <1>1, ProvisioningInvariant, PTL

\* No command changes the treasury, the wallet or the credential a vault names,
\* and a credential in a vault was issued to its wallet.
THEOREM VaultsKeepIdentities ==
    ASSUME \A x, y \in Command : x = y
    PROVE  Spec => VaultKeepsIdentity
<1> DEFINE Kept ==
      \A v \in Vault :
        /\ vault[v].pay_to # None => vault'[v].pay_to = vault[v].pay_to
        /\ vault[v].wallet # None => vault'[v].wallet = vault[v].wallet
        /\ vault[v].key # None => vault'[v].key = vault[v].key
        /\ vault'[v].key # None
             => [wallet |-> vault'[v].wallet, key |-> vault'[v].key] \in issued'
<1>1. ASSUME ProvisioningInv, [Next]_vars PROVE [Kept]_vars
  <2>1. ProvisioningInv' /\ \A v \in Vault : Keeps(v)
    BY <1>1, ProvisioningNext
  <2> QED
    BY <2>1 DEF ProvisioningInv, VaultInv, Keeps
<1> QED
  BY <1>1, ProvisioningInvariant, PTL DEF Spec, VaultKeepsIdentity

-----------------------------------------------------------------------------
(* The refinement. *)

LEMMA StageIs ==
    ASSUME NEW i \in Identity
    PROVE  /\ i.state = None => Stage(i) = "none"
           /\ i.state \in {"NOT_STARTED", "REJECTED"} => Stage(i) = "intended"
           /\ i.state \in {"IN_FLIGHT", "AMBIGUOUS"} => Stage(i) = "exposed"
           /\ i.state = "ISSUED" => Stage(i) = "known"
<1>1. None \notin {"NOT_STARTED", "REJECTED", "IN_FLIGHT", "AMBIGUOUS", "ISSUED"}
  BY NoneIsNoName DEF KeyState
<1> QED
  BY <1>1 DEF Stage

\* How often the portal has issued for a wallet.
LEMMA TimesAre ==
    ASSUME ProvisioningTypeOK, IssuedInv, NEW v \in Vault
    PROVE  /\ ~IsIssued(vault[v].wallet) => Issuances[v] = 0
           /\ IsIssued(vault[v].wallet) => Issuances[v] = 1
<1> DEFINE I == {i \in issued : i.wallet = vault[v].wallet}
<1>1. Issuances[v] = Cardinality(I)
  BY DEF Issuances
<1>2. CASE ~IsIssued(vault[v].wallet)
  BY <1>1, <1>2, FS_EmptySet DEF IsIssued
<1>3. CASE IsIssued(vault[v].wallet)
  <2>1. PICK i \in issued : i.wallet = vault[v].wallet
    BY <1>3 DEF IsIssued
  <2>2. I = {i}
    BY <2>1 DEF IssuedInv
  <2> QED
    BY <1>1, <1>3, <2>2, FS_Singleton
<1> QED
  BY <1>2, <1>3

LEMMA IssuanceInit == Init => Issuance!Init
<1> SUFFICES ASSUME Init PROVE Issuance!Init
  OBVIOUS
<1>1. ProvisioningInv
  BY ProvisioningInit
<1>2. Stages = [v \in Vault |-> "none"]
  <2>1. ASSUME NEW v \in Vault PROVE Stage(vault[v]) = "none"
    BY <1>1, StageIs DEF Init, Empty, ProvisioningInv, ProvisioningTypeOK
  <2> QED
    BY <2>1 DEF Stages
<1>3. Issuances = [v \in Vault |-> 0]
  <2>1. ASSUME NEW v \in Vault PROVE Cardinality({i \in issued : i.wallet = vault[v].wallet}) = 0
    <3>1. {i \in issued : i.wallet = vault[v].wallet} = {}
      BY DEF Init
    <3> QED
      BY <3>1, FS_EmptySet
  <2> QED
    BY <2>1 DEF Issuances
<1> QED
  BY <1>2, <1>3 DEF Issuance!Init

\* A save of one vault, as the one-shot effect sees it.
LEMMA SaveMaps ==
    ASSUME ProvisioningInv, NEW f \in Vault, NEW n \in Identity,
           vault' = [vault EXCEPT ![f] = n], UNCHANGED issued,
           \/ n.wallet = vault[f].wallet
           \/ ~IsIssued(n.wallet) /\ ~IsIssued(vault[f].wallet)
    PROVE  /\ Stages' = [Stages EXCEPT ![f] = Stage(n)]
           /\ Stages[f] = Stage(vault[f])
           /\ UNCHANGED Issuances
<1>1. vault \in [Vault -> Identity]
  BY DEF ProvisioningInv, ProvisioningTypeOK
<1>2. vault'[f] = n /\ \A u \in Vault \ {f} : vault'[u] = vault[u]
  BY <1>1
<1>3. Stages' = [Stages EXCEPT ![f] = Stage(n)]
  <2>1. \A v \in Vault : Stage(vault'[v]) = IF v = f THEN Stage(n) ELSE Stage(vault[v])
    BY <1>2
  <2> QED
    BY <2>1 DEF Stages
<1>4. ASSUME NEW v \in Vault
      PROVE  {i \in issued' : i.wallet = vault'[v].wallet} = {i \in issued : i.wallet = vault[v].wallet}
  BY <1>2 DEF IsIssued
<1> QED
  BY <1>3, <1>4 DEF Stages, Issuances

LEMMA SavingMaps ==
    ASSUME ProvisioningInv, NEW c \in Command,
           CreateWallet(c) \/ MarkInFlight(c) \/ SaveIssued(c) \/ SaveRejected(c)
              \/ SaveAmbiguous(c)
    PROVE  [Issuance!Next]_(Issuance!vars)
<1>1. /\ ProvisioningTypeOK /\ CommandInv(c) /\ IssuedInv
      /\ vault \in [Vault -> Identity] /\ copy \in [Command -> Identity]
      /\ pc[c] # "idle" /\ reply \in [Command -> Key \cup {None}]
  BY DEF ProvisioningInv, ProvisioningTypeOK, CreateWallet, MarkInFlight, SaveIssued,
     SaveRejected, SaveAmbiguous
<1>2. PICK f \in Vault : f = file[c] /\ VaultInv(f)
  BY <1>1 DEF CommandInv, ProvisioningInv
<1>3. copy[c] \in Identity /\ vault[f] \in Identity
  BY <1>1
<1>4. CASE UNCHANGED vault /\ MarkInFlight(c)
  BY <1>4 DEF MarkInFlight, Issuance!vars, Stages, Issuances
<1>5. CASE CreateWallet(c)
  <2>1. PICK w \in Wallet \ wallets :
           copy' = [copy EXCEPT ![c].wallet = w, ![c].state = "NOT_STARTED"]
    BY <1>5 DEF CreateWallet
  <2>2. /\ copy'[c] \in Identity /\ copy'[c].wallet = w /\ copy'[c].state = "NOT_STARTED"
        /\ vault' = [vault EXCEPT ![f] = copy'[c]] /\ UNCHANGED issued
    BY <1>1, <1>2, <1>3, <1>5, <2>1 DEF CreateWallet, Save, Identity, KeyState
  <2>3. vault[f].wallet = None /\ vault[f].state = None
    BY <1>1, <1>2, <1>5 DEF CreateWallet, CommandInv, VaultInv
  <2>4. ~IsIssued(w) /\ ~IsIssued(vault[f].wallet)
    BY <1>1, <2>3, NoneIsNoName DEF IssuedInv, IsIssued, ProvisioningTypeOK
  <2>5. /\ Stages' = [Stages EXCEPT ![f] = "intended"] /\ Stages[f] = "none"
        /\ UNCHANGED Issuances
    <3>1. Stage(copy'[c]) = "intended" /\ Stage(vault[f]) = "none"
      BY <1>3, <2>2, <2>3, StageIs
    <3>2. /\ Stages' = [Stages EXCEPT ![f] = Stage(copy'[c])]
          /\ Stages[f] = Stage(vault[f]) /\ UNCHANGED Issuances
      <4> DEFINE n == copy'[c]
      <4>1. n \in Identity /\ n.wallet = w /\ vault' = [vault EXCEPT ![f] = n]
        BY <2>2
      <4> HIDE DEF n
      <4>2. /\ Stages' = [Stages EXCEPT ![f] = Stage(n)]
            /\ Stages[f] = Stage(vault[f]) /\ UNCHANGED Issuances
        BY <2>2, <2>4, <4>1, SaveMaps
      <4> QED
        BY <4>2 DEF n
    <3> QED
      BY <3>1, <3>2
  <2>6. Issuance!Intend(f)
    BY <2>5 DEF Issuance!Intend, Issuance!Record
  <2> QED
    BY <2>6 DEF Issuance!Next
<1>6. ASSUME NEW state \in KeyState, NEW n \in Identity, n.state = state,
             n.wallet = vault[f].wallet, vault' = [vault EXCEPT ![f] = n], UNCHANGED issued
      PROVE  /\ Stages' = [Stages EXCEPT ![f] = Stage(n)] /\ Stages[f] = Stage(vault[f])
             /\ UNCHANGED Issuances
  BY <1>6, SaveMaps
<1>7. CASE Save(c) /\ MarkInFlight(c)
  <2>1. /\ copy[c] = vault[f] /\ vault[f].wallet # None
        /\ vault[f].state \in {"NOT_STARTED", "REJECTED"}
    BY <1>1, <1>2, <1>3, <1>7
       DEF MarkInFlight, CommandInv, Faithful, VaultInv, Identity, KeyState
  <2>2. /\ copy'[c] \in Identity /\ copy'[c].state = "IN_FLIGHT"
        /\ copy'[c].wallet = vault[f].wallet
        /\ vault' = [vault EXCEPT ![f] = copy'[c]] /\ UNCHANGED issued
    BY <1>1, <1>2, <1>3, <1>7, <2>1 DEF MarkInFlight, Save, Identity, KeyState
  <2>3. /\ Stages' = [Stages EXCEPT ![f] = "exposed"] /\ Stages[f] = "intended"
        /\ UNCHANGED Issuances
    BY <1>3, <1>6, <2>1, <2>2, StageIs DEF KeyState
  <2>4. Issuance!Expose(f)
    BY <2>3 DEF Issuance!Expose, Issuance!Record
  <2> QED
    BY <2>4 DEF Issuance!Next
<1>8. CASE SaveIssued(c)
  <2>1. /\ copy[c] = vault[f] /\ vault[f].state = "IN_FLIGHT" /\ reply[c] \in Key
        /\ IsIssued(vault[f].wallet)
    BY <1>1, <1>2, <1>8 DEF SaveIssued, CommandInv, Faithful, IsIssued
  <2>2. /\ copy'[c] \in Identity /\ copy'[c].state = "ISSUED"
        /\ copy'[c].wallet = vault[f].wallet
        /\ vault' = [vault EXCEPT ![f] = copy'[c]] /\ UNCHANGED issued
    BY <1>1, <1>2, <1>3, <1>8, <2>1 DEF SaveIssued, Save, Identity, KeyState
  <2>3. /\ Stages' = [Stages EXCEPT ![f] = "known"] /\ Stages[f] = "exposed"
        /\ UNCHANGED Issuances
    BY <1>3, <1>6, <2>1, <2>2, StageIs DEF KeyState
  <2>4. Issuance!Learn(f)
    BY <1>1, <2>1, <2>3, TimesAre DEF Issuance!Learn, Issuance!Record
  <2> QED
    BY <2>4 DEF Issuance!Next
<1>9. CASE SaveRejected(c)
  <2>1. copy[c] = vault[f] /\ vault[f].state = "IN_FLIGHT" /\ ~IsIssued(vault[f].wallet)
    BY <1>1, <1>2, <1>9 DEF SaveRejected, CommandInv, Faithful
  <2>2. /\ copy'[c] \in Identity /\ copy'[c].state = "REJECTED"
        /\ copy'[c].wallet = vault[f].wallet
        /\ vault' = [vault EXCEPT ![f] = copy'[c]] /\ UNCHANGED issued
    BY <1>1, <1>2, <1>3, <1>9, <2>1 DEF SaveRejected, Save, Identity, KeyState
  <2>3. /\ Stages' = [Stages EXCEPT ![f] = "intended"] /\ Stages[f] = "exposed"
        /\ UNCHANGED Issuances
    BY <1>3, <1>6, <2>1, <2>2, StageIs DEF KeyState
  <2>4. Issuance!Retract(f)
    BY <1>1, <2>1, <2>3, TimesAre DEF Issuance!Retract, Issuance!Record
  <2> QED
    BY <2>4 DEF Issuance!Next
<1>10. CASE SaveAmbiguous(c)
  <2>1. /\ vault[f] = [copy[c] EXCEPT !.state = vault[f].state]
        /\ vault[f].state \in {"NOT_STARTED", "REJECTED", "IN_FLIGHT"}
    BY <1>1, <1>2, <1>10 DEF SaveAmbiguous, CommandInv
  <2>2. /\ copy'[c] \in Identity /\ copy'[c].state = "AMBIGUOUS"
        /\ copy'[c].wallet = vault[f].wallet
        /\ vault' = [vault EXCEPT ![f] = copy'[c]] /\ UNCHANGED issued
    BY <1>1, <1>2, <1>3, <1>10, <2>1 DEF SaveAmbiguous, Save, Identity, KeyState
  <2>3. /\ Stages' = [Stages EXCEPT ![f] = "exposed"]
        /\ Stages[f] \in {"intended", "exposed"}
        /\ UNCHANGED Issuances
    BY <1>3, <1>6, <2>1, <2>2, StageIs DEF KeyState
  <2>4. CASE Stages[f] = "intended"
    BY <2>3, <2>4 DEF Issuance!Next, Issuance!Expose, Issuance!Record
  <2>5. CASE Stages[f] = "exposed"
    <3>1. Stages' = Stages
      BY <2>3, <2>5 DEF Stages
    <3> QED
      BY <2>3, <3>1 DEF Issuance!vars
  <2> QED
    BY <2>3, <2>4, <2>5
<1> QED
  BY <1>4, <1>5, <1>7, <1>8, <1>9, <1>10 DEF MarkInFlight

LEMMA SubmitMaps ==
    ASSUME \A x, y \in Command : x = y, ProvisioningInv, NEW c \in Command, Submit(c)
    PROVE  [Issuance!Next]_(Issuance!vars)
<1>1. PICK f \in Vault :
        /\ UNCHANGED vault /\ vault[f].state = "IN_FLIGHT"
        /\ ~IsIssued(vault[f].wallet) /\ vault[f].wallet # None
        /\ \/ UNCHANGED issued
           \/ \E k \in Key : issued' = issued \cup {[wallet |-> vault[f].wallet, key |-> k]}
  BY SubmitInv
<1>2. /\ ProvisioningTypeOK /\ IssuedInv /\ ProvisioningTypeOK' /\ IssuedInv'
      /\ vault[f] \in Identity
  BY SubmitInv DEF ProvisioningInv, ProvisioningTypeOK
<1>3. Stages' = Stages
  BY <1>1 DEF Stages
<1>4. CASE UNCHANGED issued
  BY <1>1, <1>3, <1>4 DEF Issuance!vars, Issuances
<1>5. ASSUME NEW k \in Key, issued' = issued \cup {[wallet |-> vault[f].wallet, key |-> k]}
      PROVE  Issuance!Happen(f)
  <2>1. Stages[f] = "exposed"
    BY <1>1, <1>2, StageIs DEF Stages
  <2>2. Issuances[f] = 0
    BY <1>1, <1>2, TimesAre
  <2>3. {i \in issued' : i.wallet = vault'[f].wallet} = {[wallet |-> vault[f].wallet, key |-> k]}
    BY <1>1, <1>5 DEF IsIssued
  <2>4. Cardinality({i \in issued' : i.wallet = vault'[f].wallet}) = 1
    BY <2>3, FS_Singleton
  <2>5. ASSUME NEW v \in Vault, v # f
        PROVE  {i \in issued' : i.wallet = vault'[v].wallet} = {i \in issued : i.wallet = vault[v].wallet}
    <3>1. vault[v].wallet # vault[f].wallet
      BY <1>1, <2>5 DEF ProvisioningInv, VaultsDiffer
    <3> QED
      BY <1>1, <1>5, <3>1
  <2>6. Issuances' = [Issuances EXCEPT ![f] = 1]
    <3>1. \A v \in Vault : Cardinality({i \in issued' : i.wallet = vault'[v].wallet})
             = IF v = f THEN 1 ELSE Cardinality({i \in issued : i.wallet = vault[v].wallet})
      BY <2>4, <2>5
    <3> QED
      BY <3>1 DEF Issuances
  <2> QED
    BY <1>3, <2>1, <2>2, <2>6 DEF Issuance!Happen
<1> QED
  BY <1>1, <1>4, <1>5 DEF Issuance!Next

LEMMA IssuanceNext ==
    ASSUME \A x, y \in Command : x = y, ProvisioningInv, [Next]_vars
    PROVE  [Issuance!Next]_(Issuance!vars)
<1>1. CASE UNCHANGED <<vault, issued>>
  BY <1>1 DEF Issuance!vars, Stages, Issuances
<1>2. ASSUME NEW c \in Command, Run(c) PROVE [Issuance!Next]_(Issuance!vars)
  BY <1>1, <1>2, SavingMaps, SubmitMaps
     DEF Run, Start, KeepKey, LoadToPublish, Publish, SetVariable, Enable, Stop
<1>3. CASE Deploy \/ UNCHANGED vars
  BY <1>1, <1>3 DEF Deploy, vars
<1> QED
  BY <1>2, <1>3 DEF Next

\* "Provisioning is idempotent and save-before-effect", for any number of
\* vaults: the commands implement one-shot issuances, one per vault.
THEOREM ProvisioningIssuesOnce ==
    ASSUME \A x, y \in Command : x = y
    PROVE  Spec => IssuedOnce
BY IssuanceInit, IssuanceNext, ProvisioningInvariant, PTL DEF Spec, IssuedOnce, Issuance!Spec

-----------------------------------------------------------------------------
(* Registration: for commands run one at a time and, at the end, for any    *)
(* number of commands run together.                                         *)

Preparing == {"checking", "drafting", "drafted"}
Unsure == {"INTENT_PERSISTED", "SIGNED"}
Holding == {"comparing", "signing", "signed", "sending", "sent", "observing", "observed"}

\* Nothing has been handed to the network, and nothing is there.
Unsent == pool = {} /\ mined = {} /\ broadcasts = 0

(***************************************************************************)
(* The inductive invariant: a command's copy is the vault's record from    *)
(* its load to its last save, and the vault's state tells whether the      *)
(* transaction may be out.                                                 *)
(***************************************************************************)
RegistrarInv(c) ==
    /\ registering[c] \in {"checking", "drafting"} => uri[c] \in Uri
    /\ registering[c] \in Preparing => record = Absent
    /\ registering[c] = "drafted" => loaded[c] \in Record /\ loaded[c].state = "INTENT_PERSISTED"
    /\ registering[c] \in {"reloading", "comparing", "signing", "signed"}
         => record \in Record /\ record.state \in Unsure
    /\ registering[c] \in Holding => record \in Record /\ loaded[c] = record
    /\ registering[c] = "sending" => record.state = "BROADCAST_UNKNOWN" /\ Unsent
    /\ registering[c] = "sent" => record.state = "BROADCAST_UNKNOWN" /\ broadcasts = 1
    /\ registering[c] = "observing" => record.state # "RECONCILED"
    /\ registering[c] = "observed"
         => record.state \in {"BROADCAST_UNKNOWN", "BROADCAST_ACCEPTED"} /\ broadcasts = 1

RecordInv ==
    /\ record = Absent => Unsent
    /\ record # Absent /\ record.state \in Unsure => Unsent
    /\ pool # {} \/ mined # {} => broadcasts = 1
    /\ EffectIsRecorded
    /\ BroadcastOnce

RegistrationInv ==
    /\ RegistrationTypeOK
    /\ \A c \in Registrar : RegistrarInv(c)
    /\ RecordInv

-----------------------------------------------------------------------------

LEMMA RegistrationInit == MintInit => RegistrationInv
<1> SUFFICES ASSUME MintInit PROVE RegistrationInv
  OBVIOUS
<1>1. RegistrationTypeOK
  BY NonceBound DEF MintInit, RegistrationTypeOK, MintStep
<1>2. ASSUME NEW c \in Registrar PROVE RegistrarInv(c)
  BY DEF MintInit, RegistrarInv, Preparing, Holding
<1>3. RecordInv
  BY DEF MintInit, RecordInv, EffectIsRecorded, BroadcastOnce, Unsent
<1> QED
  BY <1>1, <1>2, <1>3 DEF RegistrationInv

\* A step that leaves the vault and the network alone keeps what is said of them.
LEMMA RecordStays ==
    ASSUME RecordInv, UNCHANGED <<record, pool, mined, broadcasts>>
    PROVE  RecordInv'
BY DEF RecordInv, EffectIsRecorded, BroadcastOnce, Unsent

\* The steps of a command that write neither the vault nor the network.
LEMMA QuietMint ==
    ASSUME \A x, y \in Registrar : x = y, RegistrationInv, NEW c \in Registrar,
           \/ StartMint(c) \/ CheckUnowned(c) \/ Draft(c) \/ Reload(c) \/ CompareFacts(c)
           \/ StartReconcile(c) \/ LoadForReconcile(c) \/ Observe(c) \/ EndEarly(c)
    PROVE  RegistrationInv'
<1>1. RegistrationTypeOK /\ RecordInv /\ RegistrarInv(c)
  BY DEF RegistrationInv
<1>2. UNCHANGED <<record, pool, mined, nonce, broadcasts>>
  BY DEF StartMint, CheckUnowned, Draft, Reload, CompareFacts, StartReconcile,
     LoadForReconcile, Observe, EndEarly, chain
<1>3. /\ record \in Record \cup {Absent} /\ registering \in [Registrar -> MintStep]
      /\ uri \in [Registrar -> Uri \cup {Absent}]
      /\ loaded \in [Registrar -> Record \cup {Absent}]
  BY <1>1 DEF RegistrationTypeOK
<1>4. RegistrationTypeOK' /\ RegistrarInv(c)'
  <2>1. CASE StartMint(c)
    BY <1>1, <1>2, <1>3, <2>1
       DEF RegistrationTypeOK, RegistrarInv, StartMint, Proceed, MintStep, Preparing, Holding,
           Unsent,
           Effected, Unsure, Record, State
  <2>2. CASE CheckUnowned(c)
    BY <1>1, <1>2, <1>3, <2>2
       DEF RegistrationTypeOK, RegistrarInv, CheckUnowned, Proceed, MintStep, Preparing, Holding,
           Unsent
  <2>3. CASE Draft(c)
    <3>1. loaded' \in [Registrar -> Record \cup {Absent}] /\ loaded'[c] \in Record
          /\ loaded'[c].state = "INTENT_PERSISTED"
      BY <1>1, <1>3, <2>3 DEF RegistrarInv, Draft, Record, RegistrationTransaction, State
    <3> QED
      BY <1>1, <1>2, <1>3, <2>3, <3>1
         DEF RegistrationTypeOK, RegistrarInv, Draft, Proceed, MintStep, Preparing, Holding, Unsent
  <2>4. CASE Reload(c)
    BY <1>1, <1>2, <1>3, <2>4
       DEF RegistrationTypeOK, RegistrarInv, Reload, Proceed, MintStep, Preparing, Holding, Unsent
  <2>5. CASE CompareFacts(c)
    BY <1>1, <1>2, <1>3, <2>5
       DEF RegistrationTypeOK, RegistrarInv, CompareFacts, Proceed, MintStep, Preparing, Holding,
           Unsent
  <2>6. CASE StartReconcile(c)
    BY <1>1, <1>2, <1>3, <2>6
       DEF RegistrationTypeOK, RegistrarInv, StartReconcile, Proceed, MintStep, Preparing, Holding
  <2>7. CASE LoadForReconcile(c)
    BY <1>1, <1>2, <1>3, <2>7
       DEF RegistrationTypeOK, RegistrarInv, LoadForReconcile, Proceed, MintStep, Preparing,
           Holding
  <2>8. CASE Observe(c)
    <3>1. mined # {}
      BY <2>8 DEF Observe
    <3>2. record.state \in {"BROADCAST_UNKNOWN", "BROADCAST_ACCEPTED"} /\ broadcasts = 1
      BY <1>1, <1>3, <2>8, <3>1, AbsentIsNoRecord
         DEF Observe, RegistrarInv, RecordInv, Unsent, Holding, Unsure, Record, State
    <3> QED
      BY <1>1, <1>2, <1>3, <2>8, <3>2
         DEF RegistrationTypeOK, RegistrarInv, Observe, Proceed, MintStep, Preparing, Holding
  <2>9. CASE EndEarly(c)
    BY <1>1, <1>2, <1>3, <2>9
       DEF RegistrationTypeOK, RegistrarInv, EndEarly, Proceed, MintStep, Preparing, Holding
  <2> QED
    BY <2>1, <2>2, <2>3, <2>4, <2>5, <2>6, <2>7, <2>8, <2>9
<1>5. RecordInv'
  BY <1>1, <1>2, RecordStays
<1> QED
  BY <1>4, <1>5 DEF RegistrationInv

\* The steps that replace the vault.
LEMMA SavingMint ==
    ASSUME \A x, y \in Registrar : x = y, RegistrationInv, NEW c \in Registrar,
           \/ PersistIntent(c) \/ SaveSigned(c) \/ SaveUnknown(c) \/ SaveAccepted(c)
           \/ SaveReconciled(c)
    PROVE  RegistrationInv'
<1>1. RegistrationTypeOK /\ RecordInv /\ RegistrarInv(c)
  BY DEF RegistrationInv
<1>2. UNCHANGED <<uri, pool, mined, nonce, broadcasts>>
  BY DEF PersistIntent, SaveSigned, SaveUnknown, SaveAccepted, SaveReconciled, chain
<1>3. /\ record \in Record \cup {Absent} /\ registering \in [Registrar -> MintStep]
      /\ loaded \in [Registrar -> Record \cup {Absent}]
  BY <1>1 DEF RegistrationTypeOK
<1>4. CASE PersistIntent(c)
  <2>1. record' \in Record /\ record'.state \in Unsure /\ loaded' = loaded /\ Unsent
    BY <1>1, <1>4 DEF PersistIntent, RegistrarInv, RecordInv, Preparing, Unsure
  <2>2. RegistrationTypeOK' /\ RegistrarInv(c)'
    BY <1>1, <1>2, <1>3, <1>4, <2>1
       DEF RegistrationTypeOK, RegistrarInv, PersistIntent, Proceed, MintStep, Preparing,
           Holding, Unsent
  <2>3. RecordInv'
    BY <1>2, <2>1 DEF RecordInv, EffectIsRecorded, BroadcastOnce, Unsent
  <2> QED
    BY <2>2, <2>3 DEF RegistrationInv
<1>5. ASSUME NEW state \in State, SaveAs(c, state),
             registering[c] \in Holding
      PROVE  /\ loaded' \in [Registrar -> Record \cup {Absent}]
             /\ loaded'[c] = record' /\ record' \in Record
             /\ record \in Record /\ record'.state = state /\ record'.tx = record.tx
  BY <1>1, <1>3, <1>5 DEF SaveAs, RegistrarInv, Record
<1>6. CASE SaveSigned(c)
  <2>1. SaveAs(c, "SIGNED") /\ registering[c] = "signing"
    BY <1>6 DEF SaveSigned
  <2>2. /\ loaded' \in [Registrar -> Record \cup {Absent}]
        /\ loaded'[c] = record' /\ record' \in Record
        /\ record \in Record /\ record'.state = "SIGNED"
    BY <1>5, <2>1 DEF State, Holding
  <2>3. Unsent
    BY <1>1, <2>1, <2>2, AbsentIsNoRecord DEF RegistrarInv, RecordInv
  <2>4. RegistrationTypeOK' /\ RegistrarInv(c)'
    BY <1>1, <1>2, <1>3, <1>6, <2>2
       DEF RegistrationTypeOK, RegistrarInv, SaveSigned, Proceed, MintStep, Preparing, Holding,
           Unsure
  <2>5. RecordInv'
    BY <1>2, <2>2, <2>3 DEF RecordInv, EffectIsRecorded, BroadcastOnce, Unsent
  <2> QED
    BY <2>4, <2>5 DEF RegistrationInv
<1>7. CASE SaveUnknown(c)
  <2>1. SaveAs(c, "BROADCAST_UNKNOWN") /\ registering[c] = "signed"
    BY <1>7 DEF SaveUnknown
  <2>2. /\ loaded' \in [Registrar -> Record \cup {Absent}]
        /\ loaded'[c] = record' /\ record' \in Record
        /\ record \in Record /\ record'.state = "BROADCAST_UNKNOWN"
    BY <1>5, <2>1 DEF State, Holding
  <2>3. Unsent
    BY <1>1, <2>1, <2>2, AbsentIsNoRecord DEF RegistrarInv, RecordInv
  <2>4. RegistrationTypeOK' /\ RegistrarInv(c)'
    BY <1>1, <1>2, <1>3, <1>7, <2>2, <2>3
       DEF RegistrationTypeOK, RegistrarInv, SaveUnknown, Proceed, MintStep, Preparing, Holding,
           Unsent
  <2>5. RecordInv'
    BY <1>2, <2>2, <2>3 DEF RecordInv, EffectIsRecorded, BroadcastOnce, Unsent
  <2> QED
    BY <2>4, <2>5 DEF RegistrationInv
<1>8. CASE SaveAccepted(c) \/ SaveReconciled(c)
  <2>1. PICK state \in {"BROADCAST_ACCEPTED", "RECONCILED"} :
           SaveAs(c, state) /\ registering[c] \in {"sent", "observed"} /\ Proceed(c, "idle")
    BY <1>8 DEF SaveAccepted, SaveReconciled
  <2>2. /\ loaded' \in [Registrar -> Record \cup {Absent}] /\ record' \in Record
        /\ record \in Record /\ record'.state = state /\ record'.tx = record.tx
    BY <1>5, <2>1 DEF State, Holding
  <2>3. RegistrationTypeOK' /\ RegistrarInv(c)'
    BY <1>1, <1>2, <1>3, <2>1, <2>2
       DEF RegistrationTypeOK, RegistrarInv, Proceed, MintStep, Preparing, Holding
  <2>4. RecordInv'
    BY <1>1, <1>2, <2>1, <2>2, AbsentIsNoRecord
       DEF RecordInv, EffectIsRecorded, BroadcastOnce, Unsure, Effected
  <2> QED
    BY <2>3, <2>4 DEF RegistrationInv
<1> QED
  BY <1>4, <1>6, <1>7, <1>8

\* The one broadcast: nothing was out, and what goes out is the vault's.
LEMMA SendInv ==
    ASSUME \A x, y \in Registrar : x = y, RegistrationInv, NEW c \in Registrar, Send(c)
    PROVE  RegistrationInv'
<1>1. RegistrationTypeOK /\ RegistrarInv(c) /\ registering[c] = "sending"
      /\ registering \in [Registrar -> MintStep]
  BY DEF RegistrationInv, RegistrationTypeOK, Send
<1>2. /\ record \in Record /\ loaded[c] = record /\ Unsent
      /\ record.state = "BROADCAST_UNKNOWN" /\ record.tx \in RegistrationTransaction
  BY <1>1 DEF RegistrarInv, Holding, Record
<1>3. UNCHANGED <<record, loaded, uri, mined, nonce>>
  BY DEF Send
<1>4. broadcasts' = 1 /\ pool' \subseteq {record.tx}
  BY <1>2 DEF Send, Unsent
<1>5. registering' \in [Registrar -> MintStep] /\ registering'[c] \in {"sent", "idle"}
  BY <1>1 DEF Send, Proceed, MintStep
<1>6. RegistrationTypeOK'
  BY <1>1, <1>2, <1>3, <1>4, <1>5 DEF RegistrationTypeOK
<1>7. RegistrarInv(c)'
  BY <1>2, <1>3, <1>4, <1>5 DEF RegistrarInv, Preparing, Holding
<1>8. RecordInv'
  BY <1>2, <1>3, <1>4, AbsentIsNoRecord
     DEF RecordInv, EffectIsRecorded, BroadcastOnce, Unsent, Unsure, Effected
<1> QED
  BY <1>6, <1>7, <1>8 DEF RegistrationInv

\* The network only moves or loses what it was handed.
LEMMA NetworkInv ==
    ASSUME RegistrationInv,
           (\E tx \in pool : Mine(tx) \/ Evict(tx)) \/ OtherTransaction
    PROVE  RegistrationInv'
<1>1. RegistrationTypeOK /\ RecordInv /\ \A c \in Registrar : RegistrarInv(c)
  BY DEF RegistrationInv
<1>2. UNCHANGED <<record, loaded, uri, registering, broadcasts>>
  BY DEF Mine, Evict, OtherTransaction
<1>3. /\ pool' \subseteq pool
      /\ \/ mined' = mined
         \/ \E tx \in pool, ok \in BOOLEAN : mined' = mined \cup {[tx |-> tx, ok |-> ok]}
  BY DEF Mine, Evict, OtherTransaction
<1>4. nonce' \in 0..MaxNonce
  BY <1>1, NonceBound DEF Mine, Evict, OtherTransaction, RegistrationTypeOK
<1>5. Unsent => Unsent'
  BY <1>2, <1>3 DEF Unsent
<1>6. RegistrationTypeOK'
  BY <1>1, <1>2, <1>3, <1>4 DEF RegistrationTypeOK, Receipt
<1>7. \A c \in Registrar : RegistrarInv(c)'
  BY <1>1, <1>2, <1>5 DEF RegistrarInv
<1>8. RecordInv'
  <2>1. EffectIsRecorded'
    BY <1>1, <1>2, <1>3 DEF RecordInv, EffectIsRecorded
  <2>2. pool' # {} \/ mined' # {} => broadcasts' = 1
    BY <1>1, <1>2, <1>3 DEF RecordInv
  <2> QED
    BY <1>1, <1>2, <1>5, <2>1, <2>2 DEF RecordInv, BroadcastOnce
<1> QED
  BY <1>6, <1>7, <1>8 DEF RegistrationInv

LEMMA RegistrationNext ==
    ASSUME \A x, y \in Registrar : x = y
    PROVE  RegistrationInv /\ [MintNext]_mintVars => RegistrationInv'
<1> SUFFICES ASSUME RegistrationInv, [MintNext]_mintVars PROVE RegistrationInv'
  OBVIOUS
<1>1. ASSUME NEW c \in Registrar, Register(c) PROVE RegistrationInv'
  BY <1>1, QuietMint, SavingMint, SendInv DEF Register
<1>2. CASE UNCHANGED mintVars
  BY <1>2 DEF mintVars, RegistrationInv, RegistrationTypeOK, RegistrarInv, RecordInv, Unsent,
     EffectIsRecorded, BroadcastOnce
<1> QED
  BY <1>1, <1>2, NetworkInv DEF MintNext

-----------------------------------------------------------------------------
(* Theorems: one command at a time, any URIs, fees and nonces. *)

\* The inductive invariant: at every step of prepare_registration,
\* broadcast_registration and reconcile_registration, and after every crash, the
\* vault says whether its transaction may be out.
THEOREM RegistrationInvariant ==
    ASSUME \A x, y \in Registrar : x = y
    PROVE  MintSpec => []RegistrationInv
BY RegistrationInit, RegistrationNext, PTL DEF MintSpec

\* The vault holds no record or a whole one, at every step of every command.
THEOREM RegistrationTypeCorrect ==
    ASSUME \A x, y \in Registrar : x = y
    PROVE  MintSpec => []RegistrationTypeOK
<1>1. RegistrationInv => RegistrationTypeOK
  BY DEF RegistrationInv
<1> QED
  BY <1>1, RegistrationInvariant, PTL

\* Save before effect: broadcast_registration saves BROADCAST_UNKNOWN before it
\* sends, so whatever reaches the mempool or a block is named by the vault.
THEOREM EffectComesRecorded ==
    ASSUME \A x, y \in Registrar : x = y
    PROVE  MintSpec => []EffectIsRecorded
<1>1. RegistrationInv => EffectIsRecorded
  BY DEF RegistrationInv, RecordInv
<1> QED
  BY <1>1, RegistrationInvariant, PTL

\* A broadcast is never retried: however often mint and reconcile are run, and
\* wherever they stop, the RPC is handed a transaction at most once.
THEOREM OneBroadcast ==
    ASSUME \A x, y \in Registrar : x = y
    PROVE  MintSpec => []BroadcastOnce
<1>1. RegistrationInv => BroadcastOnce
  BY DEF RegistrationInv, RecordInv
<1> QED
  BY <1>1, RegistrationInvariant, PTL

\* Writing a durable record back in a later state is an advance.
LEMMA SaveAdvances ==
    ASSUME NEW r \in Record, NEW s \in Record, s.tx = r.tx,
           \/ r.state \in Unsure /\ s.state = "SIGNED"
           \/ r.state \in Unsure /\ s.state = "BROADCAST_UNKNOWN"
           \/ r.state = "BROADCAST_UNKNOWN" /\ s.state = "BROADCAST_ACCEPTED"
           \/ r.state \in {"BROADCAST_UNKNOWN", "BROADCAST_ACCEPTED"} /\ s.state = "RECONCILED"
    PROVE  Progress(r) <= Progress(s)
<1>1. r # Absent /\ s # Absent
  BY AbsentIsNoRecord
<1> QED
  BY <1>1 DEF Progress, Unsure

\* The durable intent keeps its URI, nonce and fee, and its state never goes
\* back: the branches of the saves in erc8004_registration.py, over every run.
THEOREM RegistrationAdvances ==
    ASSUME \A x, y \in Registrar : x = y
    PROVE  MintSpec => IntentOnlyAdvances
<1> DEFINE Advance == /\ Progress(record) <= Progress(record')
                      /\ record # Absent => record'.tx = record.tx
<1>1. ASSUME RegistrationInv, [MintNext]_mintVars PROVE [Advance]_mintVars
  <2>1. record \in Record \cup {Absent}
    BY <1>1 DEF RegistrationInv, RegistrationTypeOK
  <2>2. Progress(record) \in 0..5
    BY <2>1 DEF Progress, Record, State
  <2>3. CASE UNCHANGED record
    BY <2>2, <2>3
  <2>4. ASSUME NEW c \in Registrar, PersistIntent(c) PROVE Advance
    <3>1. record = Absent /\ record' \in Record /\ record'.state = "INTENT_PERSISTED"
      BY <1>1, <2>4 DEF RegistrationInv, RegistrarInv, PersistIntent, Preparing
    <3> QED
      BY <3>1, AbsentIsNoRecord DEF Progress
  <2>5. ASSUME NEW c \in Registrar,
               SaveSigned(c) \/ SaveUnknown(c) \/ SaveAccepted(c) \/ SaveReconciled(c)
        PROVE  Advance
    <3>1. PICK state \in State : SaveAs(c, state)
      BY <2>5 DEF SaveSigned, SaveUnknown, SaveAccepted, SaveReconciled, State
    <3>2. /\ record \in Record /\ loaded[c] = record
          /\ loaded \in [Registrar -> Record \cup {Absent}]
      BY <1>1, <2>5 DEF RegistrationInv, RegistrationTypeOK, RegistrarInv, Holding,
         SaveSigned, SaveUnknown, SaveAccepted, SaveReconciled
    <3>3. record' \in Record /\ record'.tx = record.tx /\ record'.state = state
      BY <3>1, <3>2 DEF SaveAs, Record
    <3>4. \/ record.state \in Unsure /\ record'.state = "SIGNED"
          \/ record.state \in Unsure /\ record'.state = "BROADCAST_UNKNOWN"
          \/ record.state = "BROADCAST_UNKNOWN" /\ record'.state = "BROADCAST_ACCEPTED"
          \/ record.state \in {"BROADCAST_UNKNOWN", "BROADCAST_ACCEPTED"}
             /\ record'.state = "RECONCILED"
      <4>1. RegistrarInv(c) /\ record'.state = loaded'[c].state
        BY <1>1, <3>1 DEF RegistrationInv, SaveAs
      <4>2. \A s \in State : SaveAs(c, s) => loaded'[c].state = s
        BY <3>2 DEF SaveAs, Record
      <4>3. CASE SaveSigned(c)
        BY <4>1, <4>2, <4>3 DEF SaveSigned, RegistrarInv, State
      <4>4. CASE SaveUnknown(c)
        BY <4>1, <4>2, <4>4 DEF SaveUnknown, RegistrarInv, State
      <4>5. CASE SaveAccepted(c)
        BY <4>1, <4>2, <4>5 DEF SaveAccepted, RegistrarInv, State
      <4>6. CASE SaveReconciled(c)
        BY <4>1, <4>2, <4>6 DEF SaveReconciled, RegistrarInv, State
      <4> QED
        BY <2>5, <4>3, <4>4, <4>5, <4>6
    <3> QED
      BY <3>2, <3>3, <3>4, SaveAdvances
  <2>6. CASE MintNext
    BY <2>3, <2>4, <2>5, <2>6 DEF MintNext, Register, StartMint, CheckUnowned, Draft, Reload,
       CompareFacts, Send, StartReconcile, LoadForReconcile, Observe, EndEarly,
       Mine, Evict, OtherTransaction
  <2> QED
    BY <1>1, <2>6
<1> QED
  BY <1>1, RegistrationInvariant, PTL DEF MintSpec, IntentOnlyAdvances

-----------------------------------------------------------------------------
(* The refinement. *)

\* The initial states and every step map to the one-shot effect.
LEMMA OneShotInit == MintInit => Mint!Init
BY DEF MintInit, Mint!Init, MintStage

LEMMA OneShotNext ==
    ASSUME RegistrationInv, [MintNext]_mintVars
    PROVE  [Mint!Next]_(Mint!vars)
<1>1. /\ RegistrationTypeOK /\ RecordInv /\ \A c \in Registrar : RegistrarInv(c)
      /\ record \in Record \cup {Absent}
  BY DEF RegistrationInv, RegistrationTypeOK
<1>2. CASE UNCHANGED <<record, broadcasts>>
  BY <1>2 DEF Mint!vars, MintStage
<1>3. ASSUME MintStage = "none", MintStage' = "intended", UNCHANGED broadcasts
       PROVE  Mint!Intend("mint")
  BY <1>3 DEF Mint!Intend, Mint!Record
<1>4. ASSUME MintStage = "intended", MintStage' = "exposed", UNCHANGED broadcasts
       PROVE  Mint!Expose("mint")
  BY <1>4 DEF Mint!Expose, Mint!Record
<1>5. ASSUME MintStage = "exposed", MintStage' = "known", broadcasts = 1, UNCHANGED broadcasts
      PROVE  Mint!Learn("mint")
  BY <1>5 DEF Mint!Learn, Mint!Record
<1>6. ASSUME MintStage = "exposed", MintStage' = MintStage, broadcasts = 0, broadcasts' = 1
      PROVE  Mint!Happen("mint")
  BY <1>6 DEF Mint!Happen
<1>7. ASSUME NEW c \in Registrar, PersistIntent(c) PROVE Mint!Intend("mint")
  <2>1. record = Absent /\ record' \in Record /\ record'.state = "INTENT_PERSISTED"
    BY <1>1, <1>7 DEF RegistrarInv, PersistIntent, Preparing
  <2> QED
    BY <1>3, <1>7, <2>1, AbsentIsNoRecord DEF PersistIntent, MintStage
<1>8. ASSUME NEW c \in Registrar, NEW state \in State, SaveAs(c, state),
             registering[c] \in Holding
      PROVE  record \in Record /\ record' \in Record /\ record'.state = state
  <2>1. record \in Record /\ loaded[c] = record /\ loaded \in [Registrar -> Record \cup {Absent}]
    BY <1>1, <1>8 DEF RegistrationTypeOK, RegistrarInv
  <2> QED
    BY <1>8, <2>1 DEF SaveAs, Record
<1>9. ASSUME NEW c \in Registrar, SaveSigned(c) PROVE UNCHANGED Mint!vars
  <2>1. record \in Record /\ record' \in Record /\ record'.state = "SIGNED"
    BY <1>8, <1>9 DEF SaveSigned, Holding, State
  <2>2. record.state \in Unsure /\ UNCHANGED broadcasts
    BY <1>1, <1>9 DEF SaveSigned, RegistrarInv
  <2> QED
    BY <2>1, <2>2, AbsentIsNoRecord DEF Mint!vars, MintStage, Unsure
<1>10. ASSUME NEW c \in Registrar, SaveUnknown(c) PROVE Mint!Expose("mint")
  <2>1. record \in Record /\ record' \in Record /\ record'.state = "BROADCAST_UNKNOWN"
    BY <1>8, <1>10 DEF SaveUnknown, Holding, State
  <2>2. record.state \in Unsure /\ UNCHANGED broadcasts
    BY <1>1, <1>10 DEF SaveUnknown, RegistrarInv
  <2> QED
    BY <1>4, <2>1, <2>2, AbsentIsNoRecord DEF MintStage, Unsure
<1>11. ASSUME NEW c \in Registrar, SaveAccepted(c) \/ SaveReconciled(c)
       PROVE  Mint!Learn("mint") \/ UNCHANGED Mint!vars
  <2>1. /\ record \in Record /\ record' \in Record
        /\ record'.state \in {"BROADCAST_ACCEPTED", "RECONCILED"}
    BY <1>8, <1>11 DEF SaveAccepted, SaveReconciled, Holding, State
  <2>2. /\ record.state \in {"BROADCAST_UNKNOWN", "BROADCAST_ACCEPTED"}
        /\ broadcasts = 1 /\ UNCHANGED broadcasts
    BY <1>1, <1>11 DEF SaveAccepted, SaveReconciled, RegistrarInv
  <2>3. CASE record.state = "BROADCAST_UNKNOWN"
    BY <1>5, <2>1, <2>2, <2>3, AbsentIsNoRecord DEF MintStage
  <2>4. CASE record.state = "BROADCAST_ACCEPTED"
    BY <2>1, <2>2, <2>4, AbsentIsNoRecord DEF MintStage, Mint!vars
  <2> QED
    BY <2>2, <2>3, <2>4
<1>12. ASSUME NEW c \in Registrar, Send(c) PROVE Mint!Happen("mint")
  <2>1. record \in Record /\ record.state = "BROADCAST_UNKNOWN" /\ broadcasts = 0
    BY <1>1, <1>12 DEF Send, RegistrarInv, Holding, Unsent
  <2> QED
    BY <1>6, <1>12, <2>1, AbsentIsNoRecord DEF Send, MintStage
<1>13. CASE MintNext
  BY <1>2, <1>7, <1>9, <1>10, <1>11, <1>12, <1>13
     DEF Mint!Next, MintNext, Register, StartMint, CheckUnowned, Draft, Reload, CompareFacts,
         StartReconcile, LoadForReconcile, Observe, EndEarly, Mine, Evict, OtherTransaction
<1>14. CASE UNCHANGED mintVars
  BY <1>2, <1>14 DEF mintVars
<1> QED
  BY <1>13, <1>14

\* The mint commands implement a one-shot effect: sent once at most, recorded as
\* possible before and as done only after.
THEOREM RegistrationIsOneShot ==
    ASSUME \A x, y \in Registrar : x = y
    PROVE  MintSpec => MintIsOneShot
BY OneShotInit, OneShotNext, RegistrationInvariant, PTL DEF MintSpec, MintIsOneShot, Mint!Spec

-----------------------------------------------------------------------------
(* Commands run together. *)

\* A record that says RECONCILED tells of a transaction that minted.
Backed(r) == r.state = "RECONCILED" => \E m \in mined : m.tx = r.tx /\ m.ok

Carrying == {"drafted", "observing"} \cup (Holding \ {"observed"})

\* What holds of a command whatever the others do to the vault.
TogetherInv(c) ==
    /\ registering[c] \in {"checking", "drafting"} => uri[c] \in Uri
    /\ registering[c] \in Carrying \cup {"observed"} => loaded[c] \in Record
    /\ loaded[c] # Absent => Backed(loaded[c])
    /\ registering[c] = "observed" => \E m \in mined : m.tx = loaded[c].tx /\ m.ok

EvidenceInv ==
    /\ record \in Record \cup {Absent}
    /\ loaded \in [Registrar -> Record \cup {Absent}]
    /\ uri \in [Registrar -> Uri \cup {Absent}]
    /\ registering \in [Registrar -> MintStep]
    /\ record # Absent => Backed(record)
    /\ \A c \in Registrar : TogetherInv(c)

LEMMA EvidenceInit == MintInit => EvidenceInv
BY DEF MintInit, EvidenceInv, TogetherInv, Carrying, Holding, MintStep

\* A step of a command that keeps the network, and saves nothing or a record
\* that tells the truth.
LEMMA OneSteps ==
    ASSUME EvidenceInv, NEW c \in Registrar, UNCHANGED mined,
           \A x \in Registrar \ {c} :
               registering'[x] = registering[x] /\ loaded'[x] = loaded[x] /\ uri'[x] = uri[x],
           record' \in Record \cup {Absent}, record' # Absent => Backed(record'),
           loaded' \in [Registrar -> Record \cup {Absent}],
           uri' \in [Registrar -> Uri \cup {Absent}], registering' \in [Registrar -> MintStep],
           TogetherInv(c)'
    PROVE  EvidenceInv'
<1>1. ASSUME NEW x \in Registrar, x # c PROVE TogetherInv(x)'
  BY <1>1 DEF EvidenceInv, TogetherInv, Backed
<1> QED
  BY <1>1 DEF EvidenceInv, Backed

LEMMA EvidenceRun ==
    ASSUME EvidenceInv, NEW c \in Registrar, Register(c), Reload(c) => record # Absent
    PROVE  EvidenceInv'
<1>1. /\ TogetherInv(c) /\ record \in Record \cup {Absent}
      /\ record # Absent => Backed(record)
      /\ loaded \in [Registrar -> Record \cup {Absent}]
      /\ uri \in [Registrar -> Uri \cup {Absent}]
      /\ registering \in [Registrar -> MintStep]
  BY DEF EvidenceInv
<1>2. UNCHANGED mined
  BY DEF Register, StartMint, CheckUnowned, Draft, PersistIntent, Reload, CompareFacts,
         SaveSigned,
     SaveUnknown, Send, SaveAccepted, StartReconcile, LoadForReconcile, Observe,
     SaveReconciled, EndEarly, chain
<1>3. CASE StartMint(c) \/ CheckUnowned(c) \/ CompareFacts(c) \/ Send(c)
           \/ StartReconcile(c) \/ Observe(c) \/ EndEarly(c)
  <2>1. UNCHANGED <<record, loaded>>
    BY <1>3 DEF StartMint, CheckUnowned, CompareFacts, Send, StartReconcile, Observe, EndEarly
  <2>2. /\ registering' \in [Registrar -> MintStep] /\ uri' \in [Registrar -> Uri \cup {Absent}]
        /\ \A x \in Registrar \ {c} : registering'[x] = registering[x] /\ uri'[x] = uri[x]
    BY <1>1, <1>3 DEF StartMint, CheckUnowned, CompareFacts, Send, StartReconcile, Observe,
       EndEarly, Proceed, MintStep
  <2>3. TogetherInv(c)'
    BY <1>1, <1>2, <1>3, <2>1, AbsentIsNoRecord
       DEF StartMint, CheckUnowned, CompareFacts, Send, StartReconcile, Observe, EndEarly,
           Proceed,
           TogetherInv, Carrying, Holding, Backed
  <2> QED
    BY <1>1, <1>2, <2>1, <2>2, <2>3, OneSteps
<1>4. CASE Draft(c)
  <2>1. uri[c] \in Uri /\ PendingNonce \in 0..MaxNonce /\ UNCHANGED <<record, uri>>
        /\ registering' = [registering EXCEPT ![c] = "drafted"]
    BY <1>1, <1>4 DEF TogetherInv, Draft, Proceed
  <2>2. PICK r \in Record : loaded' = [loaded EXCEPT ![c] = r] /\ r.state = "INTENT_PERSISTED"
    <3>1. PICK g \in Estimate : loaded' = [loaded EXCEPT ![c] =
              [state |-> "INTENT_PERSISTED",
               tx |-> [uri |-> uri[c], nonce |-> PendingNonce, gas |-> g]]]
      BY <1>4 DEF Draft
    <3>2. [state |-> "INTENT_PERSISTED",
           tx |-> [uri |-> uri[c], nonce |-> PendingNonce, gas |-> g]] \in Record
      BY <2>1 DEF Record, RegistrationTransaction, State
    <3> QED
      BY <3>1, <3>2
  <2>3. TogetherInv(c)'
    BY <1>1, <2>1, <2>2 DEF TogetherInv, Carrying, Holding, Backed
  <2> QED
    BY <1>1, <1>2, <2>1, <2>2, <2>3, OneSteps DEF MintStep
<1>5. CASE PersistIntent(c)
  <2>1. loaded[c] \in Record /\ Backed(loaded[c]) /\ loaded[c] # Absent
    BY <1>1, <1>5, AbsentIsNoRecord DEF PersistIntent, TogetherInv, Carrying
  <2>2. record' = loaded[c] /\ UNCHANGED <<loaded, uri>>
        /\ registering' = [registering EXCEPT ![c] = "reloading"]
    BY <1>5 DEF PersistIntent, Proceed
  <2>3. TogetherInv(c)'
    BY <1>1, <1>2, <2>1, <2>2 DEF TogetherInv, Carrying, Holding, Backed
  <2> QED
    BY <1>1, <1>2, <2>1, <2>2, <2>3, OneSteps DEF MintStep
<1>6. CASE Reload(c) \/ LoadForReconcile(c)
  <2>1. record # Absent /\ loaded' = [loaded EXCEPT ![c] = record] /\ UNCHANGED <<record, uri>>
    BY <1>6 DEF Reload, LoadForReconcile
  <2>2. PICK s \in {"comparing", "observing"} : registering' = [registering EXCEPT ![c] = s]
    BY <1>6 DEF Reload, LoadForReconcile, Proceed
  <2>3. TogetherInv(c)'
    BY <1>1, <1>2, <2>1, <2>2 DEF TogetherInv, Carrying, Holding, Backed
  <2> QED
    BY <1>1, <1>2, <2>1, <2>2, <2>3, OneSteps DEF MintStep
<1>7. ASSUME NEW state \in State, SaveAs(c, state), loaded[c] \in Record, UNCHANGED uri,
             state = "RECONCILED" => \E m \in mined : m.tx = loaded[c].tx /\ m.ok,
             NEW s \in {"signed", "sending", "idle"}, Proceed(c, s)
      PROVE  EvidenceInv'
  <2>1. PICK r \in Record : /\ loaded' = [loaded EXCEPT ![c] = r] /\ record' = r
                            /\ r.state = state /\ r.tx = loaded[c].tx
    <3>1. [loaded[c] EXCEPT !.state = state] \in Record
      BY <1>7 DEF Record
    <3>2. /\ loaded' = [loaded EXCEPT ![c] = [loaded[c] EXCEPT !.state = state]]
          /\ record' = [loaded[c] EXCEPT !.state = state]
          /\ [loaded[c] EXCEPT !.state = state].state = state
          /\ [loaded[c] EXCEPT !.state = state].tx = loaded[c].tx
      BY <1>1, <1>7 DEF SaveAs, Record
    <3> QED
      BY <3>1, <3>2
  <2>2. Backed(r) /\ r # Absent
    BY <1>7, <2>1, AbsentIsNoRecord DEF Backed
  <2>3. registering' = [registering EXCEPT ![c] = s]
    BY <1>7 DEF Proceed
  <2>4. TogetherInv(c)'
    BY <1>1, <1>2, <2>1, <2>2, <2>3 DEF TogetherInv, Carrying, Holding, Backed
  <2> QED
    BY <1>1, <1>2, <1>7, <2>1, <2>2, <2>3, <2>4, OneSteps DEF MintStep
<1>8. CASE SaveSigned(c) \/ SaveUnknown(c) \/ SaveAccepted(c) \/ SaveReconciled(c)
  <2>1. registering[c] \in {"signing", "signed", "sent", "observed"} /\ UNCHANGED uri
    BY <1>8 DEF SaveSigned, SaveUnknown, SaveAccepted, SaveReconciled
  <2>2. loaded[c] \in Record
    BY <1>1, <2>1 DEF TogetherInv, Carrying, Holding
  <2>3. PICK state \in State, s \in {"signed", "sending", "idle"} :
           /\ SaveAs(c, state) /\ Proceed(c, s)
           /\ state = "RECONCILED" => registering[c] = "observed"
    BY <1>8 DEF SaveSigned, SaveUnknown, SaveAccepted, SaveReconciled, State
  <2>4. state = "RECONCILED" => \E m \in mined : m.tx = loaded[c].tx /\ m.ok
    BY <1>1, <2>3 DEF TogetherInv
  <2> QED
    BY <1>7, <2>1, <2>2, <2>3, <2>4
<1> QED
  BY <1>3, <1>4, <1>5, <1>6, <1>8 DEF Register

\* The network never touches the vault, and forgets no transaction.
LEMMA EvidenceQuiet ==
    ASSUME EvidenceInv, UNCHANGED <<record, loaded, uri, registering>>, mined \subseteq mined'
    PROVE  EvidenceInv'
BY DEF EvidenceInv, TogetherInv, Backed

\* With the vault written by registration alone, its record does not go away.
ReloadsFind == \A c \in Registrar : registering[c] = "reloading" => record # Absent

LEMMA RecordsAreKept ==
    ASSUME EvidenceInv, [MintNext]_mintVars
    PROVE  record # Absent => record' # Absent
<1>1. ASSUME NEW c \in Registrar, PersistIntent(c)
      PROVE  record' \in Record
  BY <1>1 DEF PersistIntent, EvidenceInv, TogetherInv, Carrying
<1>2. ASSUME NEW c \in Registrar,
             SaveSigned(c) \/ SaveUnknown(c) \/ SaveAccepted(c) \/ SaveReconciled(c)
      PROVE  record' \in Record
  <2>1. loaded[c] \in Record
    BY <1>2 DEF SaveSigned, SaveUnknown, SaveAccepted, SaveReconciled, EvidenceInv,
       TogetherInv, Carrying, Holding
  <2>2. PICK state \in State : SaveAs(c, state)
    BY <1>2 DEF SaveSigned, SaveUnknown, SaveAccepted, SaveReconciled, State
  <2>3. record' = [loaded[c] EXCEPT !.state = state]
    BY <2>2 DEF SaveAs, EvidenceInv
  <2> QED
    BY <2>1, <2>3 DEF Record
<1> QED
  BY <1>1, <1>2, AbsentIsNoRecord
     DEF MintNext, Register, StartMint, CheckUnowned, Draft, Reload, CompareFacts, Send,
         StartReconcile, LoadForReconcile, Observe, EndEarly, Mine, Evict, OtherTransaction,
         mintVars

LEMMA ReloadsNext ==
    ASSUME EvidenceInv, ReloadsFind, [MintNext]_mintVars
    PROVE  ReloadsFind'
<1> SUFFICES ASSUME NEW c \in Registrar, registering'[c] = "reloading"
             PROVE  record' # Absent
  BY DEF ReloadsFind
<1>1. registering \in [Registrar -> MintStep]
  BY DEF EvidenceInv
<1>2. CASE registering[c] = "reloading"
  BY <1>2, RecordsAreKept DEF ReloadsFind
<1>3. CASE registering[c] # "reloading"
  <2>1. StartMint(c) \/ PersistIntent(c)
    BY <1>1, <1>3
       DEF MintNext, Register, StartMint, CheckUnowned, Draft, PersistIntent, Reload,
           CompareFacts, SaveSigned, SaveUnknown, Send, SaveAccepted, StartReconcile,
           LoadForReconcile, Observe, SaveReconciled, EndEarly, Proceed, Mine, Evict,
           OtherTransaction, mintVars
  <2>2. CASE StartMint(c)
    BY <1>1, <2>2 DEF StartMint, Proceed
  <2>3. CASE PersistIntent(c)
    BY <2>3, AbsentIsNoRecord DEF PersistIntent, EvidenceInv, TogetherInv, Carrying
  <2> QED
    BY <2>1, <2>2, <2>3
<1> QED
  BY <1>2, <1>3

LEMMA EvidenceNext ==
    EvidenceInv /\ ReloadsFind /\ [MintNext]_mintVars => EvidenceInv' /\ ReloadsFind'
<1> SUFFICES ASSUME EvidenceInv, ReloadsFind, [MintNext]_mintVars
             PROVE  EvidenceInv' /\ ReloadsFind'
  OBVIOUS
<1>1. CASE \E c \in Registrar : Register(c)
  BY <1>1, EvidenceRun, ReloadsNext DEF ReloadsFind, Reload
<1>2. CASE (\E tx \in pool : Mine(tx) \/ Evict(tx)) \/ OtherTransaction
  BY <1>2, EvidenceQuiet, ReloadsNext DEF Mine, Evict, OtherTransaction
<1>3. CASE UNCHANGED mintVars
  BY <1>3, EvidenceQuiet, ReloadsNext DEF mintVars
<1> QED
  BY <1>1, <1>2, <1>3 DEF MintNext

\* Whatever registration commands run together on the vault and however their
\* saves replace each other, a record that says RECONCILED was mined.
THEOREM ReconciledIsMined == MintSpec => []EvidenceIsMined
<1>1. EvidenceInv => EvidenceIsMined
  BY DEF EvidenceInv, EvidenceIsMined, Backed
<1>2. MintInit => ReloadsFind
  BY DEF MintInit, ReloadsFind
<1> QED
  BY <1>1, <1>2, EvidenceInit, EvidenceNext, PTL DEF MintSpec

-----------------------------------------------------------------------------
(***************************************************************************)
(* Commands of the two kinds over one file.  What any of them has loaded,  *)
(* and so may bring back by a save, was in the vault once: a credential in *)
(* it was issued to the wallet beside it, a record in it tells the truth.  *)
(***************************************************************************)
SoundIdentity(n) ==
    n.key # None => [wallet |-> n.wallet, key |-> n.key] \in issued

\* Where a provisioning command has a wallet and may still save.
Saving == {"keying", "submitting", "received", "rejected", "unanswered"}

SoundCopy(c) ==
    /\ pc[c] # "idle" => file[c] \in Vault
    /\ pc[c] = "creating" => copy[c].key = None
    /\ pc[c] \in Saving => copy[c].wallet # None /\ SoundIdentity(copy[c])
    /\ pc[c] = "received"
         => reply[c] \in Key /\ [wallet |-> copy[c].wallet, key |-> reply[c]] \in issued

\* The types of the variables that the commands save and issue from.
SavedTypeOK ==
    /\ vault \in [Vault -> Identity]
    /\ file \in [Command -> Vault \cup {None}]
    /\ copy \in [Command -> Identity]
    /\ pc \in [Command -> Step]
    /\ reply \in [Command -> Key \cup {None}]
    /\ wallets \subseteq Wallet
    /\ issued \subseteq [wallet : Wallet, key : Key]

SoundVaults ==
    /\ SavedTypeOK
    /\ \A v \in Vault : SoundIdentity(vault[v])
    /\ \A c \in Command : SoundCopy(c)

LEMMA SoundInit == Init => SoundVaults
<1> SUFFICES ASSUME Init PROVE SoundVaults
  OBVIOUS
<1>1. Empty \in Identity /\ Empty.key = None
  BY DEF Empty, Identity
<1> QED
  BY <1>1 DEF Init, SoundVaults, SavedTypeOK, SoundIdentity, SoundCopy, Saving, Step

\* A credential has a wallet to be of.
LEMMA NoWalletNoKey ==
    ASSUME SavedTypeOK, NEW n \in Identity, SoundIdentity(n), n.wallet = None
    PROVE  n.key = None
BY NoneIsNoName DEF SavedTypeOK, SoundIdentity

\* A step of one command that writes at most its own copy to the vault.
LEMMA SoundStep ==
    ASSUME SoundVaults, NEW c \in Command, SavedTypeOK', issued \subseteq issued',
           \A x \in Command \ {c} : /\ file'[x] = file[x] /\ copy'[x] = copy[x]
                                    /\ pc'[x] = pc[x] /\ reply'[x] = reply[x],
           \/ UNCHANGED vault
           \/ Save(c) /\ SoundIdentity(copy[c])',
           SoundCopy(c)'
    PROVE  SoundVaults'
<1>1. ASSUME NEW x \in Command, x # c PROVE SoundCopy(x)'
  BY <1>1 DEF SoundVaults, SoundCopy, SoundIdentity
<1>2. ASSUME NEW v \in Vault PROVE SoundIdentity(vault[v])'
  <2>1. vault'[v] = vault[v] \/ (vault'[v] = copy'[c] /\ SoundIdentity(copy[c])')
    BY DEF Save, SoundVaults, SavedTypeOK
  <2> QED
    BY <2>1 DEF SoundVaults, SoundIdentity
<1> QED
  BY <1>1, <1>2 DEF SoundVaults

LEMMA SoundRun ==
    ASSUME SoundVaults, NEW c \in Command, Run(c)
    PROVE  SoundVaults'
<1>1. /\ SavedTypeOK /\ SoundCopy(c)
      /\ vault \in [Vault -> Identity] /\ file \in [Command -> Vault \cup {None}]
      /\ copy \in [Command -> Identity] /\ pc \in [Command -> Step]
      /\ reply \in [Command -> Key \cup {None}] /\ wallets \subseteq Wallet
      /\ issued \subseteq [wallet : Wallet, key : Key]
  BY DEF SoundVaults, SavedTypeOK
<1>2. CASE Start(c)
  <2>1. PICK v \in Vault, t \in Treasury :
           /\ file' = [file EXCEPT ![c] = v]
           /\ copy' = [copy EXCEPT ![c] = [vault[v] EXCEPT !.pay_to = t]]
           /\ pc' = [pc EXCEPT ![c] = IF vault[v].wallet = None THEN "creating" ELSE "keying"]
    BY <1>2 DEF Start, Goto
  <2>2. UNCHANGED <<vault, reply, wallets, issued>>
    BY <1>2 DEF Start
  <2>3. /\ copy'[c] \in Identity /\ copy'[c].key = vault[v].key
        /\ copy'[c].wallet = vault[v].wallet
    BY <1>1, <2>1 DEF Identity
  <2>4. SavedTypeOK'
    BY <1>1, <2>1, <2>2, <2>3 DEF SavedTypeOK, Step
  <2>5. vault[v].wallet = None => vault[v].key = None
    BY <1>1, NoWalletNoKey DEF SoundVaults
  <2>6. SoundCopy(c)'
    BY <1>1, <2>1, <2>2, <2>3, <2>5 DEF SoundVaults, SoundCopy, SoundIdentity, Saving
  <2> QED
    BY <1>1, <2>1, <2>2, <2>4, <2>6, SoundStep
<1>3. CASE CreateWallet(c)
  <2>1. PICK w \in Wallet \ wallets :
           /\ wallets' = wallets \cup {w}
           /\ copy' = [copy EXCEPT ![c].wallet = w, ![c].state = "NOT_STARTED"]
    BY <1>3 DEF CreateWallet
  <2>2. /\ Save(c) /\ pc[c] = "creating" /\ pc' = [pc EXCEPT ![c] = "keying"]
        /\ UNCHANGED <<file, reply, issued>>
    BY <1>3 DEF CreateWallet, Goto
  <2>3. copy'[c] \in Identity /\ copy'[c].wallet = w /\ copy'[c].key = None
    BY <1>1, <2>1, <2>2 DEF Identity, KeyState, SoundCopy
  <2>4. SavedTypeOK'
    BY <1>1, <2>1, <2>2, <2>3 DEF SavedTypeOK, Save, Step
  <2>5. w # None /\ SoundIdentity(copy[c])'
    BY <2>3, NoneIsNoName DEF SoundIdentity
  <2>6. SoundCopy(c)'
    BY <1>1, <2>2, <2>3, <2>5 DEF SoundCopy, Saving
  <2> QED
    BY <1>1, <2>1, <2>2, <2>4, <2>5, <2>6, SoundStep
<1>4. ASSUME NEW n \in Identity, copy' = [copy EXCEPT ![c] = n], UNCHANGED vault \/ Save(c),
             NEW step \in Step, Goto(c, step), UNCHANGED <<file, reply, wallets, issued>>,
             n.wallet = copy[c].wallet, n.wallet # None, SoundIdentity(n),
             pc[c] # "idle", step \notin {"creating", "received"}
      PROVE  SoundVaults'
  <2>1. copy'[c] = n /\ pc'[c] = step
    BY <1>1, <1>4 DEF Goto
  <2>2. SavedTypeOK'
    BY <1>1, <1>4 DEF SavedTypeOK, Save, Goto
  <2>3. SoundCopy(c)' /\ SoundIdentity(copy[c])'
    BY <1>1, <1>4, <2>1 DEF SoundCopy, SoundIdentity
  <2> QED
    BY <1>1, <1>4, <2>2, <2>3, SoundStep DEF Goto
<1>5. CASE MarkInFlight(c) \/ SaveRejected(c) \/ SaveAmbiguous(c)
  <2>1. PICK state \in KeyState, step \in {"submitting", "unanswered", "idle"} :
           /\ copy' = [copy EXCEPT ![c].state = state]
           /\ Goto(c, step)
    BY <1>5 DEF MarkInFlight, SaveRejected, SaveAmbiguous, KeyState
  <2>2. /\ UNCHANGED vault \/ Save(c)
        /\ pc[c] \in {"keying", "rejected", "unanswered"}
        /\ UNCHANGED <<file, reply, wallets, issued>>
    BY <1>5 DEF MarkInFlight, SaveRejected, SaveAmbiguous
  <2>3. copy[c].wallet # None /\ SoundIdentity(copy[c])
    BY <1>1, <2>2 DEF SoundCopy, Saving
  <2>4. PICK n \in Identity : /\ copy' = [copy EXCEPT ![c] = n]
                              /\ n.wallet = copy[c].wallet /\ n.key = copy[c].key
    <3>1. [copy[c] EXCEPT !.state = state] \in Identity
      BY <1>1 DEF Identity
    <3> QED
      BY <1>1, <2>1, <3>1 DEF Identity
  <2>5. SoundIdentity(n) /\ step \in Step
    BY <2>3, <2>4 DEF SoundIdentity, Step
  <2> QED
    BY <1>4, <2>1, <2>2, <2>3, <2>4, <2>5
<1>6. CASE SaveIssued(c)
  <2>1. /\ copy' = [copy EXCEPT ![c].key = reply[c], ![c].state = "ISSUED"]
        /\ Save(c) /\ Goto(c, "provisioned") /\ pc[c] = "received"
        /\ UNCHANGED <<file, reply, wallets, issued>>
    BY <1>6 DEF SaveIssued
  <2>2. /\ copy[c].wallet # None /\ reply[c] \in Key
        /\ [wallet |-> copy[c].wallet, key |-> reply[c]] \in issued
    BY <1>1, <2>1 DEF SoundCopy, Saving
  <2>3. PICK n \in Identity : /\ copy' = [copy EXCEPT ![c] = n]
                              /\ n.wallet = copy[c].wallet /\ n.key = reply[c]
    <3>1. [copy[c] EXCEPT !.key = reply[c], !.state = "ISSUED"] \in Identity
      BY <1>1, <2>2 DEF Identity, KeyState
    <3> QED
      BY <1>1, <2>1, <3>1 DEF Identity
  <2>4. SoundIdentity(n) /\ "provisioned" \in Step
    BY <2>2, <2>3 DEF SoundIdentity, Step
  <2> QED
    BY <1>4, <2>1, <2>2, <2>3, <2>4
<1>7. CASE Submit(c)
  <2>1. /\ pc[c] = "submitting" /\ UNCHANGED <<vault, file, copy, wallets>>
        /\ copy[c].wallet # None /\ SoundIdentity(copy[c])
    BY <1>1, <1>7 DEF Submit, SoundCopy, Saving
  <2>2. CASE UNCHANGED <<issued, reply>> /\ (Goto(c, "rejected") \/ Goto(c, "unanswered"))
    <3>1. SavedTypeOK' /\ SoundCopy(c)'
      BY <1>1, <2>1, <2>2 DEF SavedTypeOK, SoundCopy, SoundIdentity, Saving, Goto, Step
    <3> QED
      BY <1>1, <2>1, <2>2, <3>1, SoundStep DEF Goto
  <2>3. ASSUME NEW k \in Key,
               issued' = issued \cup {[wallet |-> copy[c].wallet, key |-> k]},
               \/ reply' = [reply EXCEPT ![c] = k] /\ Goto(c, "received")
               \/ UNCHANGED reply /\ Goto(c, "unanswered")
        PROVE  SoundVaults'
    <3>1. copy[c].wallet \in Wallet
      BY <1>1, <2>1 DEF Identity
    <3>2. SavedTypeOK'
      BY <1>1, <2>1, <2>3, <3>1 DEF SavedTypeOK, Goto, Step
    <3>3. SoundCopy(c)'
      BY <1>1, <2>1, <2>3 DEF SoundCopy, SoundIdentity, Saving, Goto
    <3> QED
      BY <1>1, <2>1, <2>3, <3>2, <3>3, SoundStep DEF Goto
  <2> QED
    BY <1>7, <2>2, <2>3 DEF Submit
<1>8. CASE LoadToPublish(c)
  <2>1. /\ pc[c] = "provisioned" /\ pc' = [pc EXCEPT ![c] = "set_wallet"]
        /\ copy' = [copy EXCEPT ![c].key = vault[file[c]].key]
        /\ UNCHANGED <<vault, file, reply, wallets, issued>>
    BY <1>8 DEF LoadToPublish, Goto
  <2>2. file[c] \in Vault
    BY <1>1, <2>1 DEF SoundCopy
  <2>3. SavedTypeOK' /\ SoundCopy(c)'
    BY <1>1, <2>1, <2>2 DEF SavedTypeOK, SoundCopy, Saving, Identity, Step
  <2> QED
    BY <1>1, <2>1, <2>3, SoundStep
<1>9. CASE KeepKey(c) \/ Publish(c) \/ Enable(c) \/ Stop(c)
  <2>1. /\ UNCHANGED <<vault, file, copy, reply, wallets, issued>>
        /\ pc[c] # "idle"
        /\ \E step \in {"provisioned", "set_pay_to", "set_key", "published", "idle"} :
              pc' = [pc EXCEPT ![c] = step]
    BY <1>9 DEF KeepKey, Publish, SetVariable, Enable, Stop, Goto
  <2>2. SavedTypeOK' /\ SoundCopy(c)'
    BY <1>1, <2>1 DEF SavedTypeOK, SoundCopy, Saving, Step
  <2> QED
    BY <1>1, <2>1, <2>2, SoundStep
<1> QED
  BY <1>2, <1>3, <1>5, <1>6, <1>7, <1>8, <1>9 DEF Run

\* Another save of something that was in the vault, and everything else.
LEMMA SoundQuiet ==
    ASSUME SoundVaults, UNCHANGED <<file, copy, pc, reply, wallets, issued>>,
           vault' \in [Vault -> Identity],
           \A v \in Vault : vault'[v] = vault[v] \/ SoundIdentity(vault'[v])
    PROVE  SoundVaults'
<1>1. ASSUME NEW v \in Vault PROVE SoundIdentity(vault[v])'
  BY DEF SoundVaults, SoundIdentity
<1> QED
  BY <1>1 DEF SoundVaults, SavedTypeOK, SoundCopy, SoundIdentity

-----------------------------------------------------------------------------
(* The inductive invariant of the vault, however its commands overlap. *)
CarriedTypeOK ==
    /\ kept \in [Command -> Record \cup {Absent}]
    /\ held \in [Registrar -> Identity]

SoundVault ==
    /\ SoundVaults
    /\ EvidenceInv
    /\ CarriedTypeOK
    /\ \A c \in Command : kept[c] # Absent => Backed(kept[c])
    /\ \A c \in Registrar : SoundIdentity(held[c])

LEMMA SoundVaultInit == VaultInit => SoundVault
<1> SUFFICES ASSUME VaultInit PROVE SoundVault
  OBVIOUS
<1>1. SoundVaults /\ EvidenceInv
  BY SoundInit, EvidenceInit DEF VaultInit
<1>2. File \in Vault
  BY OneVaultFile
<1>3. vault[File] \in Identity /\ SoundIdentity(vault[File])
  BY <1>1, <1>2 DEF SoundVaults, SavedTypeOK
<1> QED
  BY <1>1, <1>3 DEF VaultInit, SoundVault, CarriedTypeOK

\* A provisioning step as provisioning sees it, beside what it does to the record.
LEMMA ProvisioningSounds ==
    ASSUME SoundVault, NEW c \in Command, Run(c),
           UNCHANGED <<loaded, uri, registering, mined, held>>,
           record' \in {record, kept[c]},
           kept' = kept \/ kept' = [kept EXCEPT ![c] = record]
    PROVE  SoundVault'
<1>1. SoundVaults'
  BY SoundRun DEF SoundVault
<1>2. issued \subseteq issued'
  BY DEF Run, Start, CreateWallet, KeepKey, MarkInFlight, Submit, SaveIssued, SaveRejected,
     SaveAmbiguous, LoadToPublish, Publish, SetVariable, Enable, Stop
<1>3. CarriedTypeOK'
  BY DEF SoundVault, CarriedTypeOK, EvidenceInv
<1>4. EvidenceInv'
  BY DEF SoundVault, CarriedTypeOK, EvidenceInv, TogetherInv, Backed
<1>5. \A x \in Command : kept'[x] # Absent => Backed(kept[x])'
  <2>1. ASSUME NEW x \in Command PROVE kept'[x] \in {kept[x], record}
    BY DEF SoundVault, CarriedTypeOK
  <2> QED
    BY <2>1 DEF SoundVault, EvidenceInv, Backed
<1>6. \A x \in Registrar : SoundIdentity(held[x])'
  BY <1>2 DEF SoundVault, SoundIdentity
<1> QED
  BY <1>1, <1>3, <1>4, <1>5, <1>6 DEF SoundVault

LEMMA RegistrationSounds ==
    ASSUME SoundVault, NEW c \in Registrar, Register(c), Reload(c) => record # Absent,
           UNCHANGED <<command, wallets, issued, kept>>,
           vault' \in {vault, [vault EXCEPT ![File] = held[c]]},
           held' = held \/ held' = [held EXCEPT ![c] = vault[File]]
    PROVE  SoundVault'
<1>1. EvidenceInv' /\ UNCHANGED mined
  BY EvidenceRun
     DEF SoundVault, Register, StartMint, CheckUnowned, Draft, PersistIntent, Reload,
         CompareFacts, SaveSigned, SaveUnknown, Send, SaveAccepted, StartReconcile,
         LoadForReconcile, Observe, SaveReconciled, EndEarly, chain
<1>2. /\ File \in Vault /\ vault[File] \in Identity /\ SoundIdentity(vault[File])
      /\ vault \in [Vault -> Identity]
  BY OneVaultFile DEF SoundVault, SoundVaults, SavedTypeOK
<1>3. SoundVaults'
  BY <1>2, SoundQuiet DEF SoundVault, CarriedTypeOK, command
<1>4. CarriedTypeOK'
  BY <1>2 DEF SoundVault, CarriedTypeOK
<1>5. \A x \in Registrar : SoundIdentity(held[x])'
  <2>1. ASSUME NEW x \in Registrar PROVE SoundIdentity(held'[x])
    BY <1>2 DEF SoundVault, CarriedTypeOK
  <2> QED
    BY <2>1 DEF SoundIdentity
<1>6. \A x \in Command : kept'[x] # Absent => Backed(kept[x])'
  BY <1>1 DEF SoundVault, Backed
<1> QED
  BY <1>1, <1>3, <1>4, <1>5, <1>6 DEF SoundVault

LEMMA SoundVaultNext == SoundVault /\ [VaultNext]_vaultVars => SoundVault'
<1> SUFFICES ASSUME SoundVault, [VaultNext]_vaultVars
             PROVE  SoundVault'
  OBVIOUS
<1>1. ASSUME NEW c \in Command,
             ProvisioningLoads(c) \/ ProvisioningSaves(c) \/ ProvisioningMoves(c)
      PROVE  SoundVault'
  <2>1. Run(c)
    BY <1>1 DEF ProvisioningLoads, ProvisioningSaves, ProvisioningMoves, Run
  <2>2. /\ UNCHANGED <<loaded, uri, registering, mined, held>>
        /\ record' \in {record, kept[c]}
        /\ kept' = kept \/ kept' = [kept EXCEPT ![c] = record]
    BY <1>1 DEF ProvisioningLoads, ProvisioningSaves, ProvisioningMoves, mintVars
  <2> QED
    BY <2>1, <2>2, ProvisioningSounds
<1>2. ASSUME NEW c \in Registrar,
             RegistrationStarts(c) \/ RegistrationLoads(c) \/ RegistrationSaves(c)
                \/ RegistrationMoves(c)
      PROVE  SoundVault'
  <2>1. Register(c)
    BY <1>2 DEF RegistrationStarts, Mints, RegistrationLoads, RegistrationSaves,
       RegistrationMoves, Register
  <2>2. Reload(c) => record # Absent
    BY <1>2 DEF RegistrationStarts, Mints, StartMint, StartReconcile, RegistrationLoads,
       RegistrationSaves, RegistrationMoves, Reload, LoadForReconcile, CheckUnowned, Draft,
       CompareFacts, Send, Observe, EndEarly, PersistIntent, SaveSigned, SaveUnknown,
       SaveAccepted, SaveReconciled, Proceed, SoundVault, EvidenceInv
  <2>3. /\ UNCHANGED <<command, wallets, issued, kept>>
        /\ vault' \in {vault, [vault EXCEPT ![File] = held[c]]}
        /\ held' = held \/ held' = [held EXCEPT ![c] = vault[File]]
    BY <1>2 DEF RegistrationStarts, RegistrationLoads, RegistrationSaves, RegistrationMoves,
       vars, command
  <2> QED
    BY <2>1, <2>2, <2>3, RegistrationSounds
<1>3. CASE Celo \/ Deploys \/ UNCHANGED vaultVars
  <2>1. /\ UNCHANGED <<vault, file, copy, pc, reply, wallets, issued, kept, held>>
        /\ UNCHANGED <<record, loaded, uri, registering>> /\ mined \subseteq mined'
    BY <1>3 DEF Celo, Mine, Evict, OtherTransaction, Deploys, Deploy, vaultVars, vars,
       mintVars, command
  <2>2. SoundVaults' /\ EvidenceInv'
    BY <2>1, SoundQuiet, EvidenceQuiet DEF SoundVault, SoundVaults, SavedTypeOK
  <2> QED
    BY <2>1, <2>2 DEF SoundVault, CarriedTypeOK, SoundIdentity, Backed
<1> QED
  BY <1>1, <1>2, <1>3 DEF VaultNext

\* The invariant of overlapping commands: whatever copy a save of the vault
\* brings back, the vault and every copy speak only of effects that happened.
THEOREM SoundVaultInvariant == VaultSpec => []SoundVault
BY SoundVaultInit, SoundVaultNext, PTL DEF VaultSpec

\* However many commands of either kind overlap, and however old what a save
\* brings back is, the vault never claims an effect that did not happen.
THEOREM EvidenceIsTrue == VaultSpec => []NoFalseEvidence
<1>1. SoundVault => NoFalseEvidence
  BY OneVaultFile
     DEF SoundVault, SoundVaults, SoundIdentity, EvidenceInv, NoFalseEvidence, EvidenceIsMined,
         Backed
<1> QED
  BY <1>1, SoundVaultInvariant, PTL

-----------------------------------------------------------------------------
(***************************************************************************)
(* The wallet.  A registration command writes back an identity only once   *)
(* it has loaded one with a wallet: a mint asks for it, and a record to    *)
(* reconcile is never in a vault without one.                              *)
(***************************************************************************)
HasWallet(n) ==
    /\ n.wallet # None
    /\ n.wallet = vault[File].wallet
    /\ n.pay_to = vault[File].pay_to

WalletInv ==
    /\ vault[File].wallet = None <=> vault[File].pay_to = None
    /\ record # Absent => vault[File].wallet # None
    /\ \A c \in Command :
        /\ pc[c] = "creating" => vault[File].wallet = None /\ copy[c].pay_to # None
        /\ pc[c] \in Saving => HasWallet(copy[c])
    /\ \A c \in Registrar : registering[c] \notin {"idle", "reconciling"} => HasWallet(held[c])

LEMMA WalletInit == VaultInit => WalletInv
<1>1. File \in Vault
  BY OneVaultFile
<1> QED
  BY <1>1 DEF VaultInit, Init, MintInit, WalletInv, Empty, Saving

\* Steps that keep the wallet and the treasury, and give the vault no record
\* unless it has a wallet: what is left to show is the command that moves.
LEMMA WalletKept ==
    ASSUME SoundVault, WalletInv,
           vault'[File].wallet = vault[File].wallet,
           vault'[File].pay_to = vault[File].pay_to,
           record' # record => vault[File].wallet # None,
           \A c \in Command :
              \/ pc'[c] = pc[c] /\ copy'[c] = copy[c]
              \/ /\ pc'[c] = "creating" => vault[File].wallet = None /\ copy'[c].pay_to # None
                 /\ pc'[c] \in Saving => HasWallet(copy'[c]),
           \A c \in Registrar :
              \/ registering'[c] = registering[c] /\ held'[c] = held[c]
              \/ registering'[c] \notin {"idle", "reconciling"} => HasWallet(held'[c])
    PROVE  WalletInv'
BY DEF WalletInv, HasWallet

\* The steps of a provisioning command, with no other beside it.
LEMMA ProvisioningKeepsWallet ==
    ASSUME \A x, y \in Command : x = y, SoundVault, WalletInv, NEW c \in Command, Run(c),
           UNCHANGED <<registering, held>>, record' \in {record, kept[c]},
           record' # record => pc[c] \in Saving \/ CreateWallet(c)
    PROVE  /\ WalletInv'
           /\ vault[File].wallet # None
                => /\ vault'[File].wallet = vault[File].wallet
                   /\ vault'[File].pay_to = vault[File].pay_to
<1>1. /\ SoundCopy(c) /\ File \in Vault /\ \A v \in Vault : v = File
      /\ vault \in [Vault -> Identity] /\ copy \in [Command -> Identity]
      /\ pc \in [Command -> Step] /\ file \in [Command -> Vault \cup {None}]
      /\ wallets \subseteq Wallet
  BY OneVaultFile DEF SoundVault, SoundVaults, SavedTypeOK
<1>2. CASE Start(c)
  <2>1. PICK t \in Treasury :
           /\ vault[File].pay_to \in {None, t}
           /\ copy' = [copy EXCEPT ![c] = [vault[File] EXCEPT !.pay_to = t]]
           /\ pc' = [pc EXCEPT ![c] =
                        IF vault[File].wallet = None THEN "creating" ELSE "keying"]
    BY <1>1, <1>2 DEF Start, Goto
  <2>2. UNCHANGED vault /\ t # None
    BY <1>2, NoneIsNoName DEF Start
  <2>3. copy'[c].pay_to = t /\ copy'[c].wallet = vault[File].wallet
    BY <1>1, <2>1 DEF Identity
  <2>4. /\ pc'[c] = "creating" => vault[File].wallet = None /\ copy'[c].pay_to # None
        /\ pc'[c] \in Saving => HasWallet(copy'[c])
    BY <1>1, <2>1, <2>2, <2>3 DEF WalletInv, HasWallet, Saving
  <2>5. record' = record
    BY <1>2 DEF Start, CreateWallet, Saving
  <2> QED
    BY <1>1, <2>1, <2>2, <2>4, <2>5, WalletKept
<1>3. CASE CreateWallet(c)
  <2>1. PICK w \in Wallet \ wallets :
           copy' = [copy EXCEPT ![c].wallet = w, ![c].state = "NOT_STARTED"]
    BY <1>3 DEF CreateWallet
  <2>2. /\ vault' = [vault EXCEPT ![File] = copy'[c]] /\ pc' = [pc EXCEPT ![c] = "keying"]
        /\ pc[c] = "creating"
    BY <1>1, <1>3 DEF CreateWallet, Save, Goto, SoundCopy
  <2>3. /\ copy'[c].wallet = w /\ copy'[c].pay_to = copy[c].pay_to /\ w # None
        /\ vault'[File] = copy'[c]
    BY <1>1, <2>1, <2>2, NoneIsNoName DEF Identity
  <2>4. vault[File].wallet = None /\ copy[c].pay_to # None
    BY <2>2 DEF WalletInv
  <2>5. record = Absent
    BY <2>4 DEF WalletInv
  <2>6. \A x \in Registrar : registering[x] \in {"idle", "reconciling"}
    BY <2>4 DEF WalletInv, HasWallet
  <2> QED
    BY <1>1, <2>2, <2>3, <2>4, <2>5, <2>6 DEF WalletInv, HasWallet, Saving
<1>4. ASSUME pc[c] # "creating",
             UNCHANGED vault \/ (Save(c) /\ pc[c] \in Saving),
             copy'[c].wallet = copy[c].wallet, copy'[c].pay_to = copy[c].pay_to,
             pc'[c] # "creating", pc'[c] \in Saving => pc[c] \in Saving
      PROVE  /\ WalletInv'
             /\ vault[File].wallet # None
                  => /\ vault'[File].wallet = vault[File].wallet
                     /\ vault'[File].pay_to = vault[File].pay_to
  <2>1. pc[c] \in Saving => HasWallet(copy[c])
    BY DEF WalletInv
  <2>2. Save(c) /\ pc[c] \in Saving => vault'[File] = copy'[c]
    BY <1>1 DEF Save, SoundCopy, Saving
  <2>3. /\ vault'[File].wallet = vault[File].wallet
        /\ vault'[File].pay_to = vault[File].pay_to
    BY <1>4, <2>1, <2>2 DEF HasWallet
  <2>4. record' # record => vault[File].wallet # None
    BY <1>4, <2>1 DEF HasWallet, CreateWallet
  <2>5. pc'[c] \in Saving => HasWallet(copy'[c])
    BY <1>4, <2>1 DEF HasWallet
  <2>6. \A x \in Command : x = c
    OBVIOUS
  <2>7. WalletInv'
    BY <1>4, <2>3, <2>4, <2>5, <2>6, WalletKept
  <2> QED
    BY <2>3, <2>7
<1>5. CASE MarkInFlight(c) \/ Submit(c) \/ SaveIssued(c) \/ SaveRejected(c) \/ SaveAmbiguous(c)
  <2>1. /\ pc[c] \in Saving
        /\ pc'[c] \in Saving \cup {"provisioned", "idle"}
        /\ UNCHANGED vault \/ Save(c)
    BY <1>1, <1>5 DEF MarkInFlight, Submit, SaveIssued, SaveRejected, SaveAmbiguous, Goto, Saving
  <2>2. copy'[c].wallet = copy[c].wallet /\ copy'[c].pay_to = copy[c].pay_to
    BY <1>1, <1>5 DEF MarkInFlight, Submit, SaveIssued, SaveRejected, SaveAmbiguous, Identity
  <2> QED
    BY <1>4, <2>1, <2>2 DEF Saving
<1>6. CASE KeepKey(c) \/ LoadToPublish(c) \/ Publish(c) \/ Enable(c)
  <2>1. /\ pc[c] # "creating" /\ UNCHANGED vault
        /\ pc'[c] \in {"provisioned", "set_wallet", "set_pay_to", "set_key", "published", "idle"}
    BY <1>1, <1>6 DEF KeepKey, LoadToPublish, Publish, SetVariable, Enable, Goto
  <2>2. copy'[c].wallet = copy[c].wallet /\ copy'[c].pay_to = copy[c].pay_to
    BY <1>1, <1>6 DEF KeepKey, LoadToPublish, Publish, SetVariable, Enable, Identity
  <2> QED
    BY <1>4, <2>1, <2>2 DEF Saving
<1>7. CASE Stop(c)
  <2>1. UNCHANGED vault /\ pc'[c] = "idle"
    BY <1>1, <1>7 DEF Stop, Goto
  <2>2. record' # record => vault[File].wallet # None
    BY <2>1, <1>1 DEF CreateWallet, Goto, WalletInv, HasWallet
  <2>3. \A x \in Command : x = c
    OBVIOUS
  <2> QED
    BY <2>1, <2>2, <2>3, WalletKept DEF Saving
<1> QED
  BY <1>2, <1>3, <1>5, <1>6, <1>7 DEF Run

LEMMA RegistrationKeepsWallet ==
    ASSUME SoundVault, WalletInv, NEW c \in Registrar,
           RegistrationStarts(c) \/ RegistrationLoads(c) \/ RegistrationSaves(c)
              \/ RegistrationMoves(c)
    PROVE  /\ WalletInv'
           /\ vault[File].wallet # None
                => /\ vault'[File].wallet = vault[File].wallet
                   /\ vault'[File].pay_to = vault[File].pay_to
<1>1. /\ File \in Vault /\ vault \in [Vault -> Identity]
      /\ held \in [Registrar -> Identity] /\ registering \in [Registrar -> MintStep]
  BY OneVaultFile DEF SoundVault, SoundVaults, SavedTypeOK, CarriedTypeOK, EvidenceInv
<1>2. UNCHANGED <<copy, pc>>
  BY DEF RegistrationStarts, RegistrationLoads, RegistrationSaves, RegistrationMoves, vars,
     command
<1>3. \A x \in Registrar \ {c} : registering'[x] = registering[x] /\ held'[x] = held[x]
  BY <1>1 DEF RegistrationStarts, Mints, StartMint, StartReconcile, RegistrationLoads, Reload,
     LoadForReconcile, RegistrationSaves, PersistIntent, SaveSigned, SaveUnknown,
     SaveAccepted, SaveReconciled, RegistrationMoves, CheckUnowned, Draft, CompareFacts,
     Send, Observe, EndEarly, Proceed
<1>4. CASE RegistrationStarts(c) \/ RegistrationLoads(c)
  <2>1. UNCHANGED <<vault, record>> /\ held'[c] = vault[File]
    BY <1>1, <1>4 DEF RegistrationStarts, Mints, StartMint, StartReconcile, RegistrationLoads,
       Reload, LoadForReconcile, vars
  <2>2. registering'[c] # "reconciling" => vault[File].wallet # None
    BY <1>1, <1>4 DEF RegistrationStarts, Mints, StartReconcile, RegistrationLoads, Reload,
       LoadForReconcile, Proceed, WalletInv
  <2>3. registering'[c] \notin {"idle", "reconciling"} => HasWallet(held'[c])
    BY <2>1, <2>2 DEF HasWallet
  <2> QED
    BY <1>2, <1>3, <2>1, <2>3, WalletKept
<1>5. CASE RegistrationSaves(c)
  <2>1. registering[c] \notin {"idle", "reconciling"}
    BY <1>5 DEF RegistrationSaves, PersistIntent, SaveSigned, SaveUnknown, SaveAccepted,
       SaveReconciled
  <2>2. HasWallet(held[c]) /\ held' = held
    BY <1>5, <2>1 DEF WalletInv, RegistrationSaves
  <2>3. vault'[File] = held[c]
    BY <1>1, <1>5 DEF RegistrationSaves
  <2>4. WalletInv'
    BY <1>2, <1>3, <2>2, <2>3, WalletKept DEF HasWallet
  <2> QED
    BY <2>2, <2>3, <2>4 DEF HasWallet
<1>6. CASE RegistrationMoves(c)
  <2>1. UNCHANGED <<vault, record, held>>
    BY <1>6 DEF RegistrationMoves, CheckUnowned, Draft, CompareFacts, Send, Observe, EndEarly,
       vars
  <2>2. registering'[c] = "idle" \/ registering[c] \notin {"idle", "reconciling"}
    BY <1>1, <1>6 DEF RegistrationMoves, CheckUnowned, Draft, CompareFacts, Send, Observe,
       EndEarly, Proceed
  <2>3. registering'[c] \notin {"idle", "reconciling"} => HasWallet(held'[c])
    BY <2>1, <2>2 DEF WalletInv
  <2> QED
    BY <1>2, <1>3, <2>1, <2>3, WalletKept
<1> QED
  BY <1>4, <1>5, <1>6

LEMMA WalletNext ==
    ASSUME \A x, y \in Command : x = y, SoundVault, WalletInv, [VaultNext]_vaultVars
    PROVE  /\ WalletInv'
           /\ vault[File].wallet # None
                => /\ vault'[File].wallet = vault[File].wallet
                   /\ vault'[File].pay_to = vault[File].pay_to
<1>1. ASSUME NEW c \in Command,
             ProvisioningLoads(c) \/ ProvisioningSaves(c) \/ ProvisioningMoves(c)
      PROVE  /\ WalletInv'
             /\ vault[File].wallet # None
                  => /\ vault'[File].wallet = vault[File].wallet
                     /\ vault'[File].pay_to = vault[File].pay_to
  <2>1. Run(c)
    BY <1>1 DEF ProvisioningLoads, ProvisioningSaves, ProvisioningMoves, Run
  <2>2. UNCHANGED <<registering, held>> /\ record' \in {record, kept[c]}
    BY <1>1 DEF ProvisioningLoads, ProvisioningSaves, ProvisioningMoves, mintVars
  <2>3. record' # record => pc[c] \in Saving \/ CreateWallet(c)
    BY <1>1 DEF ProvisioningLoads, ProvisioningSaves, ProvisioningMoves, mintVars, Saving,
       MarkInFlight, SaveIssued, SaveRejected, SaveAmbiguous
  <2> QED
    BY <2>1, <2>2, <2>3, ProvisioningKeepsWallet
<1>2. CASE \E c \in Registrar : RegistrationStarts(c) \/ RegistrationLoads(c)
                                \/ RegistrationSaves(c) \/ RegistrationMoves(c)
  BY <1>2, RegistrationKeepsWallet
<1>3. CASE Celo \/ Deploys \/ UNCHANGED vaultVars
  <2>1. UNCHANGED <<vault, copy, pc, record, registering, held>>
    BY <1>3 DEF Celo, Mine, Evict, OtherTransaction, Deploys, Deploy, vaultVars, vars,
       mintVars, command
  <2> QED
    BY <2>1, WalletKept
<1> QED
  BY <1>1, <1>2, <1>3 DEF VaultNext

\* The one signing key outlives every interleaving of a provisioning command
\* with any number of registration commands.
THEOREM WalletOutlivesCommands ==
    ASSUME \A x, y \in Command : x = y
    PROVE  VaultSpec => WalletSurvives
<1>1. SoundVault /\ WalletInv /\ [VaultNext]_vaultVars
        => [vault[File].wallet # None
              => /\ vault'[File].wallet = vault[File].wallet
                 /\ vault'[File].pay_to = vault[File].pay_to]_vaultVars
  BY WalletNext
<1>2. SoundVault /\ WalletInv /\ [VaultNext]_vaultVars => WalletInv'
  BY WalletNext
<1> QED
  BY <1>1, <1>2, WalletInit, SoundVaultInvariant, PTL DEF VaultSpec, WalletSurvives

-----------------------------------------------------------------------------
(***************************************************************************)
(* Commands run in turn.  While one is running nobody else writes the      *)
(* file, so the part it does not change is still as the command loaded it. *)
(***************************************************************************)
InTurn ==
    /\ \A c, d \in Command : pc[c] # "idle" /\ pc[d] # "idle" => c = d
    /\ \A c, d \in Registrar : registering[c] # "idle" /\ registering[d] # "idle" => c = d
    /\ \A c \in Command, d \in Registrar : pc[c] = "idle" \/ registering[d] = "idle"
    /\ \A c \in Command : pc[c] # "idle" => kept[c] = record
    /\ \A c \in Registrar : registering[c] # "idle" => held[c] = vault[File]

LEMMA InTurnInit == VaultInit => InTurn
BY DEF VaultInit, Init, MintInit, InTurn

\* What a command that is running writes back, it does not change.
LEMMA SavesOneSide ==
    ASSUME SoundVault, InTurn
    PROVE  /\ \A c \in Command : ProvisioningSaves(c) => record' = record
           /\ \A c \in Registrar : RegistrationSaves(c) => vault' = vault
<1>1. ASSUME NEW c \in Command, ProvisioningSaves(c) PROVE record' = record
  BY <1>1 DEF ProvisioningSaves, CreateWallet, SaveIssued, SaveRejected, SaveAmbiguous,
     MarkInFlight, InTurn
<1>2. ASSUME NEW c \in Registrar, RegistrationSaves(c) PROVE vault' = vault
  <2>1. held[c] = vault[File]
    BY <1>2 DEF RegistrationSaves, PersistIntent, SaveSigned, SaveUnknown, SaveAccepted,
       SaveReconciled, InTurn
  <2> QED
    BY <1>2, <2>1 DEF RegistrationSaves, SoundVault, SoundVaults, SavedTypeOK
<1> QED
  BY <1>1, <1>2

LEMMA InTurnNext ==
    ASSUME Overlap = FALSE, SoundVault, InTurn, [VaultNext]_vaultVars
    PROVE  InTurn'
<1>1. /\ pc \in [Command -> Step] /\ registering \in [Registrar -> MintStep]
      /\ kept \in [Command -> Record \cup {Absent}] /\ held \in [Registrar -> Identity]
      /\ File \in Vault
  BY OneVaultFile DEF SoundVault, SoundVaults, SavedTypeOK, CarriedTypeOK, EvidenceInv
<1>2. ASSUME NEW c \in Command, ProvisioningLoads(c) PROVE InTurn'
  <2>1. /\ \A x \in Command : pc[x] = "idle"
        /\ \A x \in Registrar : registering[x] = "idle"
    BY <1>2 DEF ProvisioningLoads, MayStart
  <2>2. /\ \A x \in Command \ {c} : pc'[x] = pc[x]
        /\ kept'[c] = record /\ UNCHANGED <<record, registering>>
    BY <1>1, <1>2 DEF ProvisioningLoads, Start, Goto, mintVars
  <2> QED
    BY <2>1, <2>2 DEF InTurn
<1>3. ASSUME NEW c \in Command, ProvisioningSaves(c) \/ ProvisioningMoves(c) PROVE InTurn'
  <2>1. pc[c] # "idle"
    BY <1>3 DEF ProvisioningSaves, ProvisioningMoves, CreateWallet, SaveIssued, SaveRejected,
       SaveAmbiguous, MarkInFlight, KeepKey, Submit, LoadToPublish, Publish, SetVariable,
       Enable, Stop
  <2>2. /\ \A x \in Command \ {c} : pc'[x] = pc[x]
        /\ UNCHANGED <<kept, registering>>
    BY <1>1, <1>3 DEF ProvisioningSaves, ProvisioningMoves, CreateWallet, SaveIssued,
       SaveRejected, SaveAmbiguous, MarkInFlight, KeepKey, Submit, LoadToPublish, Publish,
       SetVariable, Enable, Stop, Goto, mintVars
  <2>3. record' = record
    BY <1>3, SavesOneSide DEF ProvisioningMoves, mintVars
  <2> QED
    BY <2>1, <2>2, <2>3 DEF InTurn
<1>4. ASSUME NEW c \in Registrar, RegistrationStarts(c) PROVE InTurn'
  <2>1. /\ \A x \in Command : pc[x] = "idle"
        /\ \A x \in Registrar : registering[x] = "idle"
    BY <1>4 DEF RegistrationStarts, MayStart
  <2>2. /\ \A x \in Registrar \ {c} : registering'[x] = registering[x]
        /\ held'[c] = vault[File] /\ UNCHANGED <<vault, pc>>
    BY <1>1, <1>4 DEF RegistrationStarts, Mints, StartMint, StartReconcile, Proceed, vars,
       command
  <2> QED
    BY <2>1, <2>2 DEF InTurn
<1>5. ASSUME NEW c \in Registrar,
             RegistrationLoads(c) \/ RegistrationSaves(c) \/ RegistrationMoves(c)
      PROVE  InTurn'
  <2>1. registering[c] # "idle"
    BY <1>5 DEF RegistrationLoads, Reload, LoadForReconcile, RegistrationSaves, PersistIntent,
       SaveSigned, SaveUnknown, SaveAccepted, SaveReconciled, RegistrationMoves,
       CheckUnowned, Draft, CompareFacts, Send, Observe, EndEarly
  <2>2. /\ \A x \in Registrar \ {c} : registering'[x] = registering[x]
        /\ held' = held \/ held' = [held EXCEPT ![c] = vault[File]]
        /\ UNCHANGED pc
    BY <1>1, <1>5 DEF RegistrationLoads, Reload, LoadForReconcile, RegistrationSaves,
       PersistIntent, SaveSigned, SaveUnknown, SaveAccepted, SaveReconciled,
       RegistrationMoves, CheckUnowned, Draft, CompareFacts, Send, Observe, EndEarly,
       Proceed, vars, command
  <2>3. vault' = vault
    BY <1>5, SavesOneSide DEF RegistrationLoads, RegistrationMoves, vars
  <2>4. held'[c] = vault[File]
    BY <1>1, <2>1, <2>2 DEF InTurn
  <2> QED
    BY <2>1, <2>2, <2>3, <2>4 DEF InTurn
<1>6. CASE Celo \/ Deploys \/ UNCHANGED vaultVars
  <2>1. UNCHANGED <<vault, pc, record, registering, kept, held>>
    BY <1>6 DEF Celo, Mine, Evict, OtherTransaction, Deploys, Deploy, vaultVars, vars,
       mintVars, command
  <2> QED
    BY <2>1 DEF InTurn
<1> QED
  BY <1>2, <1>3, <1>4, <1>5, <1>6 DEF VaultNext

LEMMA TurnsAreTaken == Overlap = FALSE => (VaultSpec => [](SoundVault /\ InTurn))
<1> SUFFICES ASSUME Overlap = FALSE
             PROVE  VaultSpec => [](SoundVault /\ InTurn)
  OBVIOUS
<1>1. SoundVault /\ InTurn /\ [VaultNext]_vaultVars => InTurn'
  BY InTurnNext
<1> QED
  BY <1>1, InTurnInit, SoundVaultInvariant, PTL DEF VaultSpec

\* Any number of provisioning and registration commands, each run after the
\* others ended or were cut off: to provisioning, registration is not there.
THEOREM ProvisioningStandsAlone ==
    ASSUME Overlap = FALSE
    PROVE  VaultSpec => Spec
<1>1. SoundVault /\ InTurn /\ [VaultNext]_vaultVars => [Next]_vars
  <2> SUFFICES ASSUME SoundVault, InTurn, [VaultNext]_vaultVars
               PROVE  [Next]_vars
    OBVIOUS
  <2>1. ASSUME NEW c \in Command,
               ProvisioningLoads(c) \/ ProvisioningSaves(c) \/ ProvisioningMoves(c)
        PROVE  Next
    BY <2>1 DEF ProvisioningLoads, ProvisioningSaves, ProvisioningMoves, Run, Next
  <2>2. ASSUME NEW c \in Registrar, RegistrationSaves(c)
        PROVE  UNCHANGED vars
    BY <2>2, SavesOneSide DEF RegistrationSaves, vars
  <2> QED
    BY <2>1, <2>2 DEF VaultNext, RegistrationStarts, RegistrationLoads, RegistrationMoves,
       Celo, Deploys, Next, vaultVars
<1>2. VaultInit => Init
  BY DEF VaultInit
<1> QED
  BY <1>1, <1>2, TurnsAreTaken, PTL DEF VaultSpec, Spec

\* And to registration, provisioning is not there.
THEOREM RegistrationStandsAlone ==
    ASSUME Overlap = FALSE
    PROVE  VaultSpec => MintSpec
<1>1. SoundVault /\ InTurn /\ [VaultNext]_vaultVars => [MintNext]_mintVars
  <2> SUFFICES ASSUME SoundVault, InTurn, [VaultNext]_vaultVars
               PROVE  [MintNext]_mintVars
    OBVIOUS
  <2>1. ASSUME NEW c \in Registrar,
               RegistrationStarts(c) \/ RegistrationLoads(c) \/ RegistrationSaves(c)
                  \/ RegistrationMoves(c)
        PROVE  MintNext
    BY <2>1 DEF RegistrationStarts, Mints, RegistrationLoads, RegistrationSaves,
       RegistrationMoves, Register, MintNext
  <2>2. ASSUME NEW c \in Command, ProvisioningSaves(c)
        PROVE  UNCHANGED mintVars
    BY <2>2, SavesOneSide DEF ProvisioningSaves, mintVars
  <2> QED
    BY <2>1, <2>2 DEF VaultNext, ProvisioningLoads, ProvisioningMoves, Celo, Deploys,
       MintNext, vaultVars
<1>2. VaultInit => MintInit
  BY DEF VaultInit
<1> QED
  BY <1>1, <1>2, TurnsAreTaken, PTL DEF VaultSpec, MintSpec

\* Both at once: neither kind of command is there for the other.
THEOREM CommandsStandApart ==
    ASSUME Overlap = FALSE
    PROVE  VaultSpec => KindsStandApart
BY ProvisioningStandsAlone, RegistrationStandsAlone DEF KindsStandApart

\* So the operator who runs one command at a time has over the one file all that
\* is proved of the two kinds apart: one credential, one broadcast, each recorded
\* before it may have happened, and variables of one vault.
THEOREM VaultInTurnIsSafe ==
    ASSUME Overlap = FALSE, \A x, y \in Command : x = y, \A x, y \in Registrar : x = y
    PROVE  VaultSpec => /\ IssuedOnce /\ []PublishedTogether
                        /\ MintIsOneShot /\ []EffectIsRecorded
<1>1. VaultSpec => Spec
  BY ProvisioningStandsAlone
<1>2. VaultSpec => MintSpec
  BY RegistrationStandsAlone
<1>3. Spec => IssuedOnce
  BY ProvisioningIssuesOnce
<1>4. Spec => []PublishedTogether
  <2>1. \A u, v \in Vault : u = v
    BY OneVaultFile
  <2> QED
    BY <2>1, OneVaultPublishesTogether
<1>5. MintSpec => MintIsOneShot
  BY RegistrationIsOneShot
<1>6. MintSpec => []EffectIsRecorded
  BY EffectComesRecorded
<1> QED
  BY <1>1, <1>2, <1>3, <1>4, <1>5, <1>6, PTL

=============================================================================
