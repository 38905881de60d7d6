--------------------------- MODULE OperationalVault ---------------------------
(***************************************************************************)
(* The operational vault as one file: provisioning and registration        *)
(* commands load all of it, change their own part of what they loaded, and *)
(* save all of it.  Nothing locks it, so a save also writes back the other *)
(* part as it was when the command loaded it.                              *)
(*                                                                         *)
(* The two parts are those of OperationalProvisioning and of               *)
(* Erc8004Registration; the commands are theirs, joined at the loads and   *)
(* the saves.  Writing the temporary file and replacing the vault by it    *)
(* are one step.                                                           *)
(***************************************************************************)
EXTENDS OperationalProvisioning, Erc8004Registration

\* Command are the provisioning commands, Registrar the registration ones.
CONSTANTS
    File,       \* the vault file
    Overlap     \* may commands of the two kinds run at once?

ASSUME OneVaultFile == Vault = {File}
ASSUME OverlapIsChosen == Overlap \in BOOLEAN

VARIABLES
    kept,       \* the record in what a provisioning command loaded
    held        \* the identity in what a registration command loaded

vaultVars == <<vars, mintVars, kept, held>>

VaultInit ==
    /\ Init
    /\ MintInit
    /\ kept = [c \in Command |-> Absent]
    /\ held = [c \in Registrar |-> vault[File]]

\* Every other command has ended, unless they may overlap.
MayStart ==
    \/ Overlap
    \/ (\A c \in Command : pc[c] = "idle")
       /\ (\A c \in Registrar : registering[c] = "idle")

-----------------------------------------------------------------------------
(* provision_operational_identity and publish_to_railway. *)

ProvisioningLoads(c) ==
    /\ MayStart
    /\ Start(c)
    /\ kept' = [kept EXCEPT ![c] = record]
    /\ UNCHANGED <<mintVars, held>>

\* Mutant: the file is rebuilt from what the command knows.
ProvisioningSavesItsPart(c) ==
    /\ \/ CreateWallet(c) \/ SaveIssued(c) \/ SaveRejected(c) \/ SaveAmbiguous(c)
       \/ MarkInFlight(c) /\ pc'[c] = "submitting"
    /\ record' = Absent
    /\ UNCHANGED <<loaded, uri, registering, pool, mined, nonce, broadcasts, kept, held>>

ProvisioningSaves(c) ==
    /\ \/ CreateWallet(c) \/ SaveIssued(c) \/ SaveRejected(c) \/ SaveAmbiguous(c)
       \/ MarkInFlight(c) /\ pc'[c] = "submitting"
    /\ record' = kept[c]
    /\ UNCHANGED <<loaded, uri, registering, pool, mined, nonce, broadcasts, kept, held>>

\* Its other steps; nothing is saved after the load of a publication.
ProvisioningMoves(c) ==
    /\ \/ KeepKey(c) \/ Submit(c) \/ LoadToPublish(c) \/ Publish(c) \/ Enable(c)
       \/ Stop(c)
       \/ MarkInFlight(c) /\ pc'[c] = "unanswered"
    /\ UNCHANGED <<mintVars, kept, held>>

-----------------------------------------------------------------------------
(* prepare_registration, broadcast_registration and reconcile_registration. *)

\* Mutant: a mint does not ask for the wallet.
MintsWithoutWallet(c) == StartMint(c)

\* Without a wallet there is nothing to mint for.
Mints(c) == StartMint(c) /\ vault[File].wallet # None

RegistrationStarts(c) ==
    /\ MayStart
    /\ Mints(c) \/ StartReconcile(c)
    /\ held' = [held EXCEPT ![c] = vault[File]]
    /\ UNCHANGED <<vars, kept>>

\* A record that has gone since the first load ends the command.
RegistrationLoads(c) ==
    /\ \/ record # Absent /\ Reload(c)
       \/ LoadForReconcile(c)
    /\ held' = [held EXCEPT ![c] = vault[File]]
    /\ UNCHANGED <<vars, kept>>

RegistrationSaves(c) ==
    /\ \/ PersistIntent(c) \/ SaveSigned(c) \/ SaveUnknown(c) \/ SaveAccepted(c)
       \/ SaveReconciled(c)
    /\ vault' = [vault EXCEPT ![File] = held[c]]
    /\ UNCHANGED <<command, wallets, issued, railway, deployed, kept, held>>

RegistrationMoves(c) ==
    /\ \/ CheckUnowned(c) \/ Draft(c) \/ CompareFacts(c) \/ Send(c) \/ Observe(c)
       \/ EndEarly(c)
    /\ UNCHANGED <<vars, kept, held>>

-----------------------------------------------------------------------------
Celo ==
    /\ \/ \E tx \in pool : Mine(tx) \/ Evict(tx)
       \/ OtherTransaction
    /\ UNCHANGED <<vars, kept, held>>

Deploys == Deploy /\ UNCHANGED <<mintVars, kept, held>>

VaultNext ==
    \/ \E c \in Command :
        ProvisioningLoads(c) \/ ProvisioningSaves(c) \/ ProvisioningMoves(c)
    \/ \E c \in Registrar :
        RegistrationStarts(c) \/ RegistrationLoads(c) \/ RegistrationSaves(c)
        \/ RegistrationMoves(c)
    \/ Celo
    \/ Deploys

VaultSpec == VaultInit /\ [][VaultNext]_vaultVars

-----------------------------------------------------------------------------
(* Properties of commands run one at a time. *)

\* Neither kind of command is there for the other: whatever commands of both are
\* run in turn and wherever they stop, the vault's identity changes only as
\* provisioning alone changes it, and its record as registration alone does.
KindsStandApart == Spec /\ MintSpec

(* Properties of overlapping commands. *)

\* The signing key exists in the vault only: no save of a command that loaded
\* the vault earlier takes the wallet away, or the treasury it is bound to.
WalletSurvives ==
    [][vault[File].wallet # None
        => /\ vault'[File].wallet = vault[File].wallet
           /\ vault'[File].pay_to = vault[File].pay_to]_vaultVars

\* Whatever a late save brings back, the vault never claims an effect that did
\* not happen: RECONCILED is of a mined transaction, a credential was issued to
\* the vault's wallet.
NoFalseEvidence ==
    /\ EvidenceIsMined
    /\ vault[File].key # None =>
        [wallet |-> vault[File].wallet, key |-> vault[File].key] \in issued

=============================================================================
