----------------------- MODULE OperationalProvisioning -----------------------
(***************************************************************************)
(* operational_provisioning.py: a command opens the operational vault it   *)
(* is given, creates the agent's wallet once, has the facilitator issue    *)
(* its one credential, and publishes wallet, treasury and credential to    *)
(* the hosted service's variables.  A command works on the copy it loaded  *)
(* and every save replaces the file; it may stop between any two steps.    *)
(*                                                                         *)
(* External, modelled from how the command uses them: the facilitator's    *)
(* portal, whose answer may be lost, and Railway, whose variables a        *)
(* deployment hands to the service.                                        *)
(***************************************************************************)
EXTENDS Naturals, FiniteSets

CONSTANTS
    Command,    \* the commands the operator has running at once
    Vault,      \* vault files, the values of --vault
    Treasury,   \* treasury addresses, the values of --pay-to
    Wallet,     \* wallets _new_wallet can create; bounds them
    Key,        \* credentials the facilitator can issue; bounds them
    None        \* no value

VARIABLES
    vault,      \* the identity in each vault file
    file,       \* the vault a command was given
    copy,       \* the identity in a command's memory
    pc,         \* where each command is
    reply,      \* the credential in the facilitator's answer
    wallets,    \* wallets created, kept or lost
    issued,     \* credentials the facilitator has issued, with their wallet
    railway,    \* the service's variables
    deployed    \* the variables the running service was started with

command == <<file, copy, pc, reply>>
vars == <<vault, command, wallets, issued, railway, deployed>>

KeyState == {"NOT_STARTED", "IN_FLIGHT", "AMBIGUOUS", "REJECTED", "ISSUED"}

ASSUME NoneIsNoName ==
    None \notin Vault \cup Treasury \cup Wallet \cup Key \cup KeyState

Identity == [pay_to : Treasury \cup {None}, wallet : Wallet \cup {None},
             state : KeyState \cup {None}, key : Key \cup {None}]

Variables == [pay_to : Treasury \cup {None}, wallet : Wallet \cup {None},
              key : Key \cup {None}, enabled : BOOLEAN]

Step == {"idle", "creating", "keying", "submitting", "received", "rejected", "unanswered",
         "provisioned", "set_wallet", "set_pay_to", "set_key", "published"}

ProvisioningTypeOK ==
    /\ vault \in [Vault -> Identity]
    /\ file \in [Command -> Vault \cup {None}]
    /\ copy \in [Command -> Identity]
    /\ pc \in [Command -> Step]
    /\ reply \in [Command -> Key \cup {None}]
    /\ wallets \subseteq Wallet
    /\ issued \subseteq [wallet : Wallet, key : Key]
    /\ railway \in Variables
    /\ deployed \in Variables

Empty == [pay_to |-> None, wallet |-> None, state |-> None, key |-> None]
Unset == [pay_to |-> None, wallet |-> None, key |-> None, enabled |-> FALSE]

Init ==
    /\ vault = [v \in Vault |-> Empty]
    /\ file = [c \in Command |-> None]
    /\ copy = [c \in Command |-> Empty]
    /\ pc = [c \in Command |-> "idle"]
    /\ reply = [c \in Command |-> None]
    /\ wallets = {}
    /\ issued = {}
    /\ railway = Unset
    /\ deployed = Unset

Goto(c, step) == pc' = [pc EXCEPT ![c] = step]

\* vault.save: the command's whole copy becomes the file.
Save(c) == vault' = [vault EXCEPT ![file[c]] = copy'[c]]

-----------------------------------------------------------------------------
(* provision_operational_identity. *)

\* A vault bound to another treasury is refused.
Start(c) ==
    /\ pc[c] = "idle"
    /\ \E v \in Vault, t \in Treasury :
        /\ vault[v].pay_to \in {None, t}
        /\ file' = [file EXCEPT ![c] = v]
        /\ copy' = [copy EXCEPT ![c] = [vault[v] EXCEPT !.pay_to = t]]
        /\ Goto(c, IF vault[v].wallet = None THEN "creating" ELSE "keying")
    /\ UNCHANGED <<vault, reply, wallets, issued, railway, deployed>>

CreateWallet(c) ==
    /\ pc[c] = "creating"
    /\ \E w \in Wallet \ wallets :
        /\ wallets' = wallets \cup {w}
        /\ copy' = [copy EXCEPT ![c].wallet = w, ![c].state = "NOT_STARTED"]
    /\ Save(c)
    /\ Goto(c, "keying")
    /\ UNCHANGED <<file, reply, issued, railway, deployed>>

\* A durable credential is used as it is.
KeepKey(c) ==
    /\ pc[c] = "keying"
    /\ copy[c].key # None
    /\ Goto(c, "provisioned")
    /\ UNCHANGED <<vault, file, copy, reply, wallets, issued, railway, deployed>>

\* Mutant: an ambiguous issuance is tried again.
MarkInFlightAgain(c) ==
    /\ pc[c] = "keying"
    /\ copy[c].key = None
    /\ copy' = [copy EXCEPT ![c].state = "IN_FLIGHT"]
    /\ Save(c)
    /\ Goto(c, "submitting")
    /\ UNCHANGED <<file, reply, wallets, issued, railway, deployed>>

\* Once issuance may have happened, no command asks again.  The nonce is read
\* and signed first; then the state is saved before the request is submitted.
\* A save that fails is an error of the request like any other.
MarkInFlight(c) ==
    /\ pc[c] = "keying"
    /\ copy[c].key = None
    /\ copy[c].state \notin {"IN_FLIGHT", "AMBIGUOUS"}
    /\ copy' = [copy EXCEPT ![c].state = "IN_FLIGHT"]
    /\ \/ Save(c) /\ Goto(c, "submitting")
       \/ UNCHANGED vault /\ Goto(c, "unanswered")
    /\ UNCHANGED <<file, reply, wallets, issued, railway, deployed>>

\* The portal issues a new credential and its answer arrives or not, or it
\* issues none and its answer is a rejection or unknown.
Submit(c) ==
    /\ pc[c] = "submitting"
    /\ \/ \E k \in Key :
            /\ \A i \in issued : i.key # k
            /\ issued' = issued \cup {[wallet |-> copy[c].wallet, key |-> k]}
            /\ \/ reply' = [reply EXCEPT ![c] = k] /\ Goto(c, "received")
               \/ UNCHANGED reply /\ Goto(c, "unanswered")
       \/ /\ Goto(c, "rejected") \/ Goto(c, "unanswered")
          /\ UNCHANGED <<issued, reply>>
    /\ UNCHANGED <<vault, file, copy, wallets, railway, deployed>>

SaveIssued(c) ==
    /\ pc[c] = "received"
    /\ copy' = [copy EXCEPT ![c].key = reply[c], ![c].state = "ISSUED"]
    /\ Save(c)
    /\ Goto(c, "provisioned")
    /\ UNCHANGED <<file, reply, wallets, issued, railway, deployed>>

\* A rejection is certain, so a later command may ask again.
SaveRejected(c) ==
    /\ pc[c] = "rejected"
    /\ copy' = [copy EXCEPT ![c].state = "REJECTED"]
    /\ Save(c)
    /\ Goto(c, "idle")
    /\ UNCHANGED <<file, reply, wallets, issued, railway, deployed>>

SaveAmbiguous(c) ==
    /\ pc[c] = "unanswered"
    /\ copy' = [copy EXCEPT ![c].state = "AMBIGUOUS"]
    /\ Save(c)
    /\ Goto(c, "idle")
    /\ UNCHANGED <<file, reply, wallets, issued, railway, deployed>>

-----------------------------------------------------------------------------
(* publish_to_railway. *)

\* The second load: the credential is the vault's, the rest is the command's.
LoadToPublish(c) ==
    /\ pc[c] = "provisioned"
    /\ vault[file[c]].key # None
    /\ copy' = [copy EXCEPT ![c].key = vault[file[c]].key]
    /\ Goto(c, "set_wallet")
    /\ UNCHANGED <<vault, file, reply, wallets, issued, railway, deployed>>

\* One run of the Railway CLI, without a deployment.
SetVariable(c, variable, at, then) ==
    /\ pc[c] = at
    /\ railway' = [railway EXCEPT ![variable] = copy[c][variable]]
    /\ Goto(c, then)
    /\ UNCHANGED <<vault, file, copy, reply, wallets, issued, deployed>>

\* Mutant: the route is enabled before what it needs is published.
PublishEnabledFirst(c) ==
    \/ /\ pc[c] = "set_wallet"
       /\ railway' = [railway EXCEPT !.enabled = TRUE, !.wallet = copy[c].wallet]
       /\ Goto(c, "set_pay_to")
       /\ UNCHANGED <<vault, file, copy, reply, wallets, issued, deployed>>
    \/ SetVariable(c, "pay_to", "set_pay_to", "set_key")
    \/ SetVariable(c, "key", "set_key", "published")

Publish(c) ==
    \/ SetVariable(c, "wallet", "set_wallet", "set_pay_to")
    \/ SetVariable(c, "pay_to", "set_pay_to", "set_key")
    \/ SetVariable(c, "key", "set_key", "published")

\* With --enable; without it the command ends before.
Enable(c) ==
    /\ pc[c] = "published"
    /\ railway' = [railway EXCEPT !.enabled = TRUE]
    /\ Goto(c, "idle")
    /\ UNCHANGED <<vault, file, copy, reply, wallets, issued, deployed>>

\* A command ends early anywhere: a refusal, a failed read, a variable that
\* Railway rejects, a crash.
Stop(c) ==
    /\ pc[c] # "idle"
    /\ Goto(c, "idle")
    /\ UNCHANGED <<vault, file, copy, reply, wallets, issued, railway, deployed>>

\* Enabling deploys, and so does every push: the service starts with the
\* variables of that moment.
Deploy ==
    /\ deployed' = railway
    /\ UNCHANGED <<vault, command, wallets, issued, railway>>

Run(c) ==
    \/ Start(c) \/ CreateWallet(c) \/ KeepKey(c)
    \/ MarkInFlight(c) \/ Submit(c)
    \/ SaveIssued(c) \/ SaveRejected(c) \/ SaveAmbiguous(c)
    \/ LoadToPublish(c) \/ Publish(c) \/ Enable(c)
    \/ Stop(c)

Next == (\E c \in Command : Run(c)) \/ Deploy

Spec == Init /\ [][Next]_vars

-----------------------------------------------------------------------------
(* Properties of commands run one at a time. *)

\* What each vault says of the issuance of its credential.
Stage(identity) ==
    CASE identity.state = None -> "none"
      [] identity.state \in {"NOT_STARTED", "REJECTED"} -> "intended"
      [] identity.state \in {"IN_FLIGHT", "AMBIGUOUS"} -> "exposed"
      [] identity.state = "ISSUED" -> "known"

Stages == [v \in Vault |-> Stage(vault[v])]
Issuances == [v \in Vault |-> Cardinality({i \in issued : i.wallet = vault[v].wallet})]

Issuance == INSTANCE OneShotEffect WITH Effect <- Vault, stage <- Stages, times <- Issuances

\* "Provisioning is idempotent and save-before-effect": of each vault's wallet
\* the facilitator issues one credential at most, only while the vault says that
\* it may, whatever answers are lost and wherever commands stop.
IssuedOnce == Issuance!Spec

\* The treasury, the wallet and the credential of a vault never change, and a
\* credential in a vault was issued to its wallet.
VaultKeepsIdentity ==
    [][\A v \in Vault :
        /\ vault[v].pay_to # None => vault'[v].pay_to = vault[v].pay_to
        /\ vault[v].wallet # None => vault'[v].wallet = vault[v].wallet
        /\ vault[v].key # None => vault'[v].key = vault[v].key
        /\ vault'[v].key # None
             => [wallet |-> vault'[v].wallet, key |-> vault'[v].key] \in issued']_vars

\* The paid route never runs on variables that no vault stands for: each is set,
\* and is the wallet, the treasury or the credential of some vault.
EnabledIsComplete ==
    deployed.enabled =>
        /\ \E v \in Vault : vault[v].wallet = deployed.wallet /\ deployed.wallet # None
        /\ \E v \in Vault : vault[v].pay_to = deployed.pay_to /\ deployed.pay_to # None
        /\ \E v \in Vault : vault[v].key = deployed.key /\ deployed.key # None

\* "An incomplete publication leaves the paid route disabled": when it is
\* enabled, its wallet, treasury and credential are those of one vault.
PublishedTogether ==
    deployed.enabled =>
        \E v \in Vault : /\ vault[v].wallet = deployed.wallet
                         /\ vault[v].pay_to = deployed.pay_to
                         /\ vault[v].key = deployed.key

=============================================================================
