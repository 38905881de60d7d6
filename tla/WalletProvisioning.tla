------------------------- MODULE WalletProvisioning -------------------------
(***************************************************************************)
(* wallet_provisioning.py: a command creates the agent's wallet and leaves *)
(* its encrypted keystore, a public manifest and instructions in a new     *)
(* directory; the operator copies the files elsewhere one by one; another  *)
(* command verifies such a bundle.  Commands run together, stop anywhere,  *)
(* and leave files half written; a copy may be cut off or mix bundles.     *)
(*                                                                         *)
(* A keystore is the wallet and the password that decrypts it: no two      *)
(* encryptions give the same file.  A digest is the file it was taken of.  *)
(* A file that is not written to its end is no JSON object.                *)
(***************************************************************************)
EXTENDS Naturals

CONSTANTS
    Command,        \* commands the operator has running at once
    Destination,    \* values of --output
    Backup,         \* directories that the operator copies files to
    Wallet,         \* accounts that can be created; bounds them
    Password,
    None,           \* no file, no value
    Torn            \* a file that is opened and not written to its end

Place == Destination \cup Backup
Keystore == [wallet : Wallet, password : Password]
\* The manifest names the address and the digest of the keystore file.
Manifest == [wallet : Wallet, keystore : Keystore \cup {None, Torn}]

ASSUME PlacesDiffer == Destination \cap Backup = {}
ASSUME NoneIsNoFile ==
    /\ None \notin Keystore \cup Manifest \cup Place \cup Wallet \cup Password \cup {"text"}
    /\ Torn \notin Keystore \cup Manifest \cup {None, "text"}

VARIABLES
    made,       \* directories that exist
    keystore,   \* celo-agent-keystore.json of each directory
    manifest,   \* celo-agent-public-manifest.json
    notes,      \* BACKUP-INSTRUCTIONS.json
    pc,         \* where each provisioning command is
    place,      \* its destination
    account,    \* its keystore, in memory
    sealed,     \* the digest it has taken
    created,    \* accounts created so far
    reported,   \* the wallets that commands printed as created
    check       \* a verification under way, or its result

files == <<made, keystore, manifest, notes>>
commands == <<pc, place, account, sealed>>
vars == <<files, commands, created, reported, check>>

Step == {"idle", "making", "keystore", "in_keystore", "sealing", "manifest",
         "in_manifest", "notes", "in_notes"}

Report == [place : Destination, wallet : Wallet, password : Password]

NoCheck == [at |-> "none"]
Checking ==
    [at : {"manifest"}, place : Place, password : Password]
        \cup [at : {"keystore"}, place : Place, password : Password, manifest : Manifest]
        \cup [at : {"digest"}, place : Place, password : Password, manifest : Manifest,
              keystore : Keystore]
        \cup [at : {"verified"}, place : Place, password : Password, wallet : Wallet]

WalletTypeOK ==
    /\ made \subseteq Place
    /\ keystore \in [Place -> Keystore \cup {None, Torn}]
    /\ manifest \in [Place -> Manifest \cup {None, Torn}]
    /\ notes \in [Place -> {"text", None, Torn}]
    /\ pc \in [Command -> Step]
    /\ place \in [Command -> Destination \cup {None}]
    /\ account \in [Command -> Keystore \cup {None}]
    /\ sealed \in [Command -> Keystore \cup {None, Torn}]
    /\ created \subseteq Wallet
    /\ reported \subseteq Report
    /\ check \in Checking \cup {NoCheck}

Init ==
    /\ made = {}
    /\ keystore = [d \in Place |-> None]
    /\ manifest = [d \in Place |-> None]
    /\ notes = [d \in Place |-> None]
    /\ pc = [c \in Command |-> "idle"]
    /\ place = [c \in Command |-> None]
    /\ account = [c \in Command |-> None]
    /\ sealed = [c \in Command |-> None]
    /\ created = {}
    /\ reported = {}
    /\ check = NoCheck

-----------------------------------------------------------------------------
(* provision_celo_wallet. *)

Goto(c, step) == pc' = [pc EXCEPT ![c] = step]

\* Mutant: what is there already is written over.
IsNewOrNot(there) == TRUE

\* The directory and every file are created exclusively.
IsNew(there) == ~there

\* The arguments are admitted: a long password, outside the repository.
Start(c) ==
    /\ pc[c] = "idle"
    /\ \E d \in Destination :
        /\ IsNew(d \in made)
        /\ place' = [place EXCEPT ![c] = d]
    /\ Goto(c, "making")
    /\ UNCHANGED <<files, account, sealed, created, reported, check>>

\* The directory; then the account, encrypted in memory.
MakeDirectory(c) ==
    /\ pc[c] = "making"
    /\ IsNew(place[c] \in made)
    /\ made' = made \cup {place[c]}
    /\ \E w \in Wallet \ created, p \in Password :
        /\ created' = created \cup {w}
        /\ account' = [account EXCEPT ![c] = [wallet |-> w, password |-> p]]
    /\ Goto(c, "keystore")
    /\ UNCHANGED <<keystore, manifest, notes, place, sealed, reported, check>>

\* _write_exclusive_json: open, then write to the end.
WriteKeystore(c) ==
    /\ \/ /\ pc[c] = "keystore"
          /\ IsNew(keystore[place[c]] # None)
          /\ keystore' = [keystore EXCEPT ![place[c]] = Torn]
          /\ Goto(c, "in_keystore")
       \/ /\ pc[c] = "in_keystore"
          /\ keystore' = [keystore EXCEPT ![place[c]] = account[c]]
          /\ Goto(c, "sealing")
    /\ UNCHANGED <<made, manifest, notes, place, account, sealed, created, reported, check>>

\* The digest is taken of the file on the disk.
Seal(c) ==
    /\ pc[c] = "sealing"
    /\ sealed' = [sealed EXCEPT ![c] = keystore[place[c]]]
    /\ Goto(c, "manifest")
    /\ UNCHANGED <<files, place, account, created, reported, check>>

\* Mutant: the keystore is published for its address.
ManifestOfKeystore(c) == [wallet |-> account[c], keystore |-> sealed[c]]

ManifestOf(c) == [wallet |-> account[c].wallet, keystore |-> sealed[c]]

WriteManifest(c) ==
    /\ \/ /\ pc[c] = "manifest"
          /\ IsNew(manifest[place[c]] # None)
          /\ manifest' = [manifest EXCEPT ![place[c]] = Torn]
          /\ Goto(c, "in_manifest")
       \/ /\ pc[c] = "in_manifest"
          /\ manifest' = [manifest EXCEPT ![place[c]] = ManifestOf(c)]
          /\ Goto(c, "notes")
    /\ UNCHANGED <<made, keystore, notes, place, account, sealed, created, reported, check>>

\* With the instructions written the command prints the address.
WriteNotes(c) ==
    /\ \/ /\ pc[c] = "notes"
          /\ IsNew(notes[place[c]] # None)
          /\ notes' = [notes EXCEPT ![place[c]] = Torn]
          /\ Goto(c, "in_notes")
          /\ UNCHANGED reported
       \/ /\ pc[c] = "in_notes"
          /\ notes' = [notes EXCEPT ![place[c]] = "text"]
          /\ reported' = reported \cup {[place |-> place[c], wallet |-> account[c].wallet,
                                         password |-> account[c].password]}
          /\ Goto(c, "idle")
    /\ UNCHANGED <<made, keystore, manifest, place, account, sealed, created, check>>

\* A refusal, an error or a crash; what is written stays.
Stop(c) ==
    /\ pc[c] # "idle"
    /\ Goto(c, "idle")
    /\ UNCHANGED <<files, place, account, sealed, created, reported, check>>

Provision(c) ==
    \/ Start(c) \/ MakeDirectory(c) \/ WriteKeystore(c) \/ Seal(c)
    \/ WriteManifest(c) \/ WriteNotes(c) \/ Stop(c)

-----------------------------------------------------------------------------
(* The operator's copies: one file at a time, over what is there, or a part. *)

Copy(from, to) ==
    /\ \/ /\ keystore[from] # None
          /\ \E k \in {keystore[from], Torn} : keystore' = [keystore EXCEPT ![to] = k]
          /\ UNCHANGED manifest
       \/ /\ manifest[from] # None
          /\ \E m \in {manifest[from], Torn} : manifest' = [manifest EXCEPT ![to] = m]
          /\ UNCHANGED keystore
    /\ made' = made \cup {to}
    /\ UNCHANGED <<notes, commands, created, reported, check>>

-----------------------------------------------------------------------------
(* verify_celo_wallet: three reads, while files may change.  A verification *)
(* that stops early or refuses leaves nothing: the next one starts anew.    *)

StartVerify ==
    /\ \E d \in made, p \in Password :
        check' = [at |-> "manifest", place |-> d, password |-> p]
    /\ UNCHANGED <<files, commands, created, reported>>

ReadManifest ==
    /\ check.at = "manifest"
    /\ manifest[check.place] \in Manifest
    /\ check' = [at |-> "keystore", place |-> check.place, password |-> check.password,
                 manifest |-> manifest[check.place]]
    /\ UNCHANGED <<files, commands, created, reported>>

ReadKeystore ==
    /\ check.at = "keystore"
    /\ keystore[check.place] \in Keystore
    /\ check' = [at |-> "digest", place |-> check.place, password |-> check.password,
                 manifest |-> check.manifest, keystore |-> keystore[check.place]]
    /\ UNCHANGED <<files, commands, created, reported>>

\* Mutant: the decrypted address is not compared.
DecryptsToAny(k, m, p) == k.password = p

\* The password decrypts the keystore that was read, to the address claimed.
DecryptsTo(k, m, p) == k.password = p /\ k.wallet = m.wallet

\* The digest is taken of the file again; then no file is read any more.
Verify ==
    /\ check.at = "digest"
    /\ keystore[check.place] = check.manifest.keystore
    /\ DecryptsTo(check.keystore, check.manifest, check.password)
    /\ check' = [at |-> "verified", place |-> check.place, password |-> check.password,
                 wallet |-> check.keystore.wallet]
    /\ UNCHANGED <<files, commands, created, reported>>

Next ==
    \/ \E c \in Command : Provision(c)
    \/ \E from \in Place, to \in Backup : Copy(from, to)
    \/ StartVerify \/ ReadManifest \/ ReadKeystore \/ Verify

Spec == Init /\ [][Next]_vars

-----------------------------------------------------------------------------
(* Properties. *)

\* What a command printed as created stays: its destination holds the keystore
\* of that wallet under that password and the manifest of that keystore, however
\* many commands were given the same destination and wherever they stopped.
ReportedIsKept ==
    \A r \in reported : LET k == [wallet |-> r.wallet, password |-> r.password] IN
        /\ keystore[r.place] = k
        /\ manifest[r.place] = [wallet |-> r.wallet, keystore |-> k]
        /\ notes[r.place] = "text"

\* "Verify the backup before registration": when a bundle is verified, it holds
\* at that moment the keystore that the password opens to the wallet named,
\* although files of several bundles were copied into it while it was read.
VerifiedIsRecoverable ==
    [][check'.at = "verified" /\ check.at # "verified"
        => keystore'[check'.place]
             = [wallet |-> check'.wallet, password |-> check'.password]]_vars

=============================================================================
