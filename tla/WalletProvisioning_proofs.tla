---------------------- MODULE WalletProvisioning_proofs ----------------------
(* Theorems about WalletProvisioning: any number of commands, destinations, *)
(* copies and wallets.                                                       *)
EXTENDS WalletProvisioning, TLAPS

-----------------------------------------------------------------------------
(* The inductive invariant. *)

\* A command past the creation of its directory.
Working == Step \ {"idle", "making"}
Sealing == {"manifest", "in_manifest", "notes", "in_notes"}

\* A working command has its directory to itself, and what it has written there
\* is what it will report.
WorkInv(c) ==
    /\ pc[c] # "idle" => place[c] \in Destination
    /\ pc[c] \in Working =>
        /\ account[c] \in Keystore
        /\ place[c] \in made
        /\ \A d \in Command : pc[d] \in Working /\ place[d] = place[c] => d = c
        /\ \A r \in reported : r.place # place[c]
    /\ pc[c] \in {"sealing"} \cup Sealing => keystore[place[c]] = account[c]
    /\ pc[c] \in Sealing => sealed[c] = account[c]
    /\ pc[c] \in {"notes", "in_notes"} =>
        manifest[place[c]] = [wallet |-> account[c].wallet, keystore |-> account[c]]

ReportInv ==
    /\ ReportedIsKept
    /\ \A r \in reported : r.place \in made

\* The manifests that exist, among them the one a verification has read.
Manifests ==
    ({manifest[d] : d \in Place} \cap Manifest)
        \cup (IF check.at \in {"keystore", "digest"} THEN {check.manifest} ELSE {})

\* Every keystore in memory or in a file, or named by a manifest.
Known ==
    ({account[c] : c \in Command} \cup {keystore[d] : d \in Place}
        \cup {m.keystore : m \in Manifests}
        \cup (IF check.at = "digest" THEN {check.keystore} ELSE {})) \cap Keystore

\* A manifest names the wallet of its keystore.
ManifestsAgree == \A m \in Manifests : m.keystore \in Keystore /\ m.wallet = m.keystore.wallet

\* A wallet is created once, under one password.
OneKeystoreEach ==
    /\ \A k \in Known : k.wallet \in created
    /\ \A k, l \in Known : k.wallet = l.wallet => k = l

WalletInv ==
    /\ WalletTypeOK
    /\ \A c \in Command : WorkInv(c)
    /\ ReportInv
    /\ ManifestsAgree
    /\ OneKeystoreEach

-----------------------------------------------------------------------------
\* What a verification under way has read.
LEMMA CheckIs ==
    ASSUME WalletTypeOK
    PROVE  /\ check.at \in {"manifest", "keystore", "digest", "verified"} =>
                check.place \in Place /\ check.password \in Password
           /\ check.at \in {"keystore", "digest"} => check.manifest \in Manifest
           /\ check.at = "digest" => check.keystore \in Keystore
BY DEF WalletTypeOK, Checking, NoCheck

LEMMA ManifestsAre == WalletTypeOK => Manifests \subseteq Manifest
BY CheckIs DEF Manifests

LEMMA PlacesAre ==
    /\ \A d \in Destination : d \in Place /\ d \notin Backup
    /\ \A d \in Backup : d \in Place
BY PlacesDiffer DEF Place

LEMMA WalletInit == Init => WalletInv
<1> SUFFICES ASSUME Init
             PROVE  WalletInv
  OBVIOUS
<1>1. WalletTypeOK
  BY DEF Init, WalletTypeOK, Step, NoCheck
<1>2. \A c \in Command : WorkInv(c)
  BY DEF Init, WorkInv, Working, Sealing
<1>3. ReportInv
  BY DEF Init, ReportInv, ReportedIsKept
<1>4. Manifests = {}
  BY NoneIsNoFile DEF Init, Manifests, NoCheck
<1>5. Known = {}
  BY <1>4, NoneIsNoFile DEF Init, Known, NoCheck
<1> QED
  BY <1>1, <1>2, <1>3, <1>4, <1>5 DEF WalletInv, ManifestsAgree, OneKeystoreEach

-----------------------------------------------------------------------------
(* Types. *)

LEMMA AccountIs ==
    ASSUME WalletInv, NEW c \in Command, pc[c] \in Working
    PROVE  /\ account[c] \in Keystore
           /\ account[c].wallet \in Wallet /\ account[c].password \in Password
           /\ place[c] \in Destination /\ place[c] \in Place
BY PlacesAre DEF WalletInv, WorkInv, Working, Keystore

LEMMA ProvisionTypes ==
    ASSUME WalletInv, NEW c \in Command, Provision(c)
    PROVE  WalletTypeOK'
<1> USE DEF WalletTypeOK, Goto, files, Step
<1>1. WalletTypeOK
  BY DEF WalletInv
<1>2. CASE Start(c) \/ Stop(c)
  BY <1>1, <1>2 DEF Start, Stop
<1>3. CASE MakeDirectory(c)
  <2>1. place[c] \in Destination
    BY <1>3 DEF MakeDirectory, WalletInv, WorkInv
  <2> QED
    BY <1>1, <1>3, <2>1, PlacesAre DEF MakeDirectory, Keystore
<1>4. CASE WriteKeystore(c)
  BY <1>1, <1>4, AccountIs DEF WriteKeystore, Working
<1>5. CASE Seal(c)
  BY <1>1, <1>5, AccountIs DEF Seal, Working
<1>6. CASE WriteManifest(c)
  <2>1. pc[c] = "in_manifest" => ManifestOf(c) \in Manifest
    BY <1>1, AccountIs DEF ManifestOf, Manifest, Working
  <2> QED
    BY <1>1, <1>6, <2>1 DEF WriteManifest
<1>7. CASE WriteNotes(c)
  BY <1>1, <1>7, AccountIs DEF WriteNotes, Report, Working
<1> QED
  BY <1>2, <1>3, <1>4, <1>5, <1>6, <1>7 DEF Provision

LEMMA CopyTypes ==
    ASSUME WalletInv, NEW from \in Place, NEW to \in Backup, Copy(from, to)
    PROVE  WalletTypeOK'
BY PlacesAre DEF WalletInv, WalletTypeOK, Copy, commands

LEMMA VerifyTypes ==
    ASSUME WalletInv, StartVerify \/ ReadManifest \/ ReadKeystore \/ Verify
    PROVE  WalletTypeOK'
<1>1. WalletTypeOK
  BY DEF WalletInv
<1>2. check' \in Checking
  <2>1. CASE StartVerify
    BY <1>1, <2>1 DEF StartVerify, WalletTypeOK, Checking
  <2>2. CASE ReadManifest
    BY <1>1, <2>2, CheckIs DEF ReadManifest, Checking
  <2>3. CASE ReadKeystore
    BY <1>1, <2>3, CheckIs DEF ReadKeystore, Checking
  <2>4. CASE Verify
    BY <1>1, <2>4, CheckIs DEF Verify, Checking, Keystore
  <2> QED
    BY <2>1, <2>2, <2>3, <2>4
<1>3. UNCHANGED <<files, commands, created, reported>>
  BY DEF StartVerify, ReadManifest, ReadKeystore, Verify
<1> QED
  BY <1>1, <1>2, <1>3 DEF WalletTypeOK, files, commands

-----------------------------------------------------------------------------
(* Commands, and what they reported. *)

\* What a command's invariant is about; copies go elsewhere.
Watched(c) == <<pc[c], place[c], account[c], sealed[c]>>

WatchedFiles(d) == <<keystore[d], manifest[d], notes[d]>>

\* A command writes to the files of its own directory.
LEMMA WritesOwnFiles ==
    ASSUME WalletInv, NEW c \in Command, Provision(c), NEW e \in Place, e # place[c]
    PROVE  WatchedFiles(e)' = WatchedFiles(e)
<1>1. WalletTypeOK
  BY DEF WalletInv
<1>2. CASE WriteKeystore(c)
  BY <1>1, <1>2 DEF WriteKeystore, WatchedFiles, WalletTypeOK
<1>3. CASE WriteManifest(c)
  BY <1>1, <1>3 DEF WriteManifest, WatchedFiles, WalletTypeOK
<1>4. CASE WriteNotes(c)
  BY <1>1, <1>4 DEF WriteNotes, WatchedFiles, WalletTypeOK
<1>5. CASE Start(c) \/ MakeDirectory(c) \/ Seal(c) \/ Stop(c)
  BY <1>5 DEF Start, MakeDirectory, Seal, Stop, WatchedFiles, files
<1> QED
  BY <1>2, <1>3, <1>4, <1>5 DEF Provision

\* A command is not disturbed by what happens outside its directory.
LEMMA WorkStays ==
    ASSUME WalletInv, NEW c \in Command, Watched(c)' = Watched(c),
           made \subseteq made',
           pc[c] \in Working => WatchedFiles(place[c])' = WatchedFiles(place[c]),
           pc[c] \in Working =>
                /\ \A d \in Command : pc'[d] \in Working /\ place'[d] = place[c] => d = c
                /\ \A r \in reported' : r.place # place[c]
    PROVE  WorkInv(c)'
BY DEF WalletInv, WorkInv, Watched, WatchedFiles, Working, Sealing, Step

\* Of the steps of a command, only a new directory makes it a working one; it
\* writes to its own directory and reports of that one.
LEMMA ProvisionWork ==
    ASSUME WalletInv, NEW c \in Command, Provision(c)
    PROVE  \A d \in Command : WorkInv(d)'
<1> USE DEF Goto, files
<1>1. WalletTypeOK /\ \A d \in Command : WorkInv(d)
  BY DEF WalletInv
<1>3. WorkInv(c)'
  <2>1. CASE Start(c) \/ Stop(c)
    BY <1>1, <2>1 DEF Start, Stop, WorkInv, WalletTypeOK, Working, Sealing, Step
  <2>2. CASE MakeDirectory(c)
    <3>1. /\ pc[c] = "making" /\ pc' = [pc EXCEPT ![c] = "keystore"]
          /\ place[c] \notin made /\ made' = made \cup {place[c]}
          /\ UNCHANGED <<place, reported>>
      BY <2>2 DEF MakeDirectory, IsNew
    <3>2. account'[c] \in Keystore
      BY <1>1, <2>2 DEF MakeDirectory, WalletTypeOK, Keystore
    <3>3. \A d \in Command : pc[d] \in Working => place[d] # place[c]
      BY <1>1, <3>1 DEF WorkInv
    <3>4. \A r \in reported : r.place # place[c]
      BY <3>1 DEF WalletInv, ReportInv
    <3> QED
      BY <1>1, <3>1, <3>2, <3>3, <3>4 DEF WorkInv, WalletTypeOK, Working, Sealing, Step
  <2>3. CASE WriteKeystore(c)
    BY <1>1, <2>3, AccountIs
       DEF WriteKeystore, WorkInv, WalletTypeOK, Working, Sealing, Step
  <2>4. CASE Seal(c)
    BY <1>1, <2>4 DEF Seal, WorkInv, WalletTypeOK, Working, Sealing, Step
  <2>5. CASE WriteManifest(c)
    BY <1>1, <2>5, AccountIs
       DEF WriteManifest, ManifestOf, WorkInv, WalletTypeOK, Working, Sealing, Step
  <2>6. CASE WriteNotes(c)
    BY <1>1, <2>6 DEF WriteNotes, WorkInv, WalletTypeOK, Working, Sealing, Step
  <2> QED
    BY <2>1, <2>2, <2>3, <2>4, <2>5, <2>6 DEF Provision
<1>4. ASSUME NEW d \in Command, d # c
      PROVE  WorkInv(d)'
  <2>1. Watched(d)' = Watched(d) /\ made \subseteq made'
    BY <1>1, <1>4 DEF Provision, Start, MakeDirectory, WriteKeystore, Seal, WriteManifest,
       WriteNotes, Stop, Watched, WalletTypeOK
  <2>2. pc[c] \in Working /\ pc[d] \in Working => place[c] # place[d]
    BY <1>1, <1>4 DEF WorkInv
  <2>3. pc[d] \in Working => WatchedFiles(place[d])' = WatchedFiles(place[d])
    <3>1. ASSUME pc[c] \notin Working
          PROVE  UNCHANGED <<keystore, manifest, notes>>
      BY <3>1 DEF Provision, Start, MakeDirectory, WriteKeystore, Seal, WriteManifest,
         WriteNotes, Stop, Working, Step
    <3>2. ASSUME NEW e \in Place, e # place[c]
          PROVE  WatchedFiles(e)' = WatchedFiles(e)
      BY <3>2, WritesOwnFiles
    <3>3. pc[d] \in Working => place[d] \in Place
      BY AccountIs
    <3> QED
      BY <2>1, <2>2, <3>1, <3>2, <3>3 DEF Watched, WatchedFiles
  <2>4. ASSUME pc[d] \in Working
        PROVE  /\ \A e \in Command : pc'[e] \in Working /\ place'[e] = place[d] => e = d
               /\ \A r \in reported' : r.place # place[d]
    <3>1. \A e \in Command \ {c} : pc'[e] = pc[e] /\ place'[e] = place[e]
      BY <1>1 DEF Provision, Start, MakeDirectory, WriteKeystore, Seal, WriteManifest,
         WriteNotes, Stop, WalletTypeOK
    <3>2. \A e \in Command : pc[e] \in Working /\ place[e] = place[d] => e = d
      BY <1>1, <2>4 DEF WorkInv
    <3>3. pc'[c] \in Working => place'[c] = place[c]
      BY <1>1 DEF Provision, Start, MakeDirectory, WriteKeystore, Seal, WriteManifest,
         WriteNotes, Stop, WalletTypeOK, Working, Step
    <3>4. ~(pc[c] \in Working) /\ pc'[c] \in Working => place[c] # place[d]
      BY <1>1, <2>4 DEF Provision, Start, MakeDirectory, WriteKeystore, Seal, WriteManifest,
         WriteNotes, Stop, WalletTypeOK, WorkInv, Working, Step, IsNew
    <3>5. \A r \in reported' : r \in reported \/ (pc[c] \in Working /\ r.place = place[c])
      BY DEF Provision, Start, MakeDirectory, WriteKeystore, Seal, WriteManifest,
         WriteNotes, Stop, Working, Step
    <3>6. \A r \in reported : r.place # place[d]
      BY <1>1, <2>4 DEF WorkInv
    <3>7. pc'[c] \in Working => place'[c] # place[d]
      BY <1>4, <2>2, <2>4, <3>3, <3>4
    <3> QED
      BY <1>4, <2>2, <2>4, <3>1, <3>2, <3>5, <3>6, <3>7
  <2> QED
    BY <2>1, <2>3, <2>4, WorkStays
<1> QED
  BY <1>3, <1>4

\* A report is made of what the command has written; reported directories are
\* nobody's any more.
LEMMA ProvisionReports ==
    ASSUME WalletInv, NEW c \in Command, Provision(c)
    PROVE  ReportInv'
<1> USE DEF Goto, files
<1>1. WalletTypeOK /\ WorkInv(c) /\ ReportInv
  BY DEF WalletInv
<1>2. made \subseteq made'
  BY DEF Provision, Start, MakeDirectory, WriteKeystore, Seal, WriteManifest, WriteNotes, Stop
<1>3. ASSUME NEW r \in reported
      PROVE  WatchedFiles(r.place)' = WatchedFiles(r.place)
  <2>1. r.place \in Place
    BY <1>1, PlacesAre DEF WalletTypeOK, Report
  <2>2. pc[c] \in Working => r.place # place[c]
    BY <1>1 DEF WorkInv
  <2>3. CASE pc[c] \in Working
    BY <2>1, <2>2, <2>3, WritesOwnFiles
  <2>4. CASE pc[c] \notin Working
    BY <2>4 DEF Provision, Start, MakeDirectory, WriteKeystore, Seal, WriteManifest,
       WriteNotes, Stop, WatchedFiles, Working, Step
  <2> QED
    BY <2>3, <2>4
<1>4. CASE reported' = reported
  BY <1>1, <1>2, <1>3, <1>4 DEF ReportInv, ReportedIsKept, WatchedFiles
<1>5. CASE WriteNotes(c) /\ pc[c] = "in_notes"
  <2> DEFINE new == [place |-> place[c], wallet |-> account[c].wallet,
                     password |-> account[c].password]
  <2>1. /\ reported' = reported \cup {new}
        /\ notes' = [notes EXCEPT ![place[c]] = "text"]
        /\ UNCHANGED <<made, keystore, manifest>>
    BY <1>5 DEF WriteNotes
  <2>2. /\ keystore[place[c]] = account[c] /\ account[c] \in Keystore /\ place[c] \in made
        /\ manifest[place[c]] = [wallet |-> account[c].wallet, keystore |-> account[c]]
    BY <1>1, <1>5 DEF WorkInv, Working, Sealing, Step
  <2>3. account[c] = [wallet |-> account[c].wallet, password |-> account[c].password]
    BY <2>2 DEF Keystore
  <2>4. notes'[place[c]] = "text"
    BY <1>1, <1>5, <2>1, AccountIs DEF WalletTypeOK, Working, Step
  <2> QED
    BY <1>1, <1>3, <2>1, <2>2, <2>3, <2>4 DEF ReportInv, ReportedIsKept, WatchedFiles
<1> QED
  BY <1>4, <1>5
     DEF Provision, Start, MakeDirectory, WriteKeystore, Seal, WriteManifest, WriteNotes, Stop

\* Copies go to directories that no command is given.
LEMMA CopyKeeps ==
    ASSUME WalletInv, NEW from \in Place, NEW to \in Backup, Copy(from, to)
    PROVE  (\A c \in Command : WorkInv(c)') /\ ReportInv'
<1>1. /\ made \subseteq made'
      /\ UNCHANGED <<pc, place, account, sealed, reported>>
  BY DEF Copy, commands
<1>2. \A d \in Destination : WatchedFiles(d)' = WatchedFiles(d)
  BY PlacesAre DEF Copy, WatchedFiles, WalletInv, WalletTypeOK
<1>3. ASSUME NEW c \in Command
      PROVE  WorkInv(c)'
  <2>1. Watched(c)' = Watched(c)
    BY <1>1 DEF Watched
  <2>2. pc[c] \in Working => WatchedFiles(place[c])' = WatchedFiles(place[c])
    BY <1>1, <1>2, AccountIs DEF WatchedFiles
  <2>3. pc[c] \in Working =>
           /\ \A d \in Command : pc'[d] \in Working /\ place'[d] = place[c] => d = c
           /\ \A r \in reported' : r.place # place[c]
    BY <1>1 DEF WalletInv, WorkInv
  <2> QED
    BY <1>1, <2>1, <2>2, <2>3, WorkStays
<1>4. \A r \in reported : r.place \in Destination
  BY DEF WalletInv, WalletTypeOK, Report
<1>5. ReportInv'
  BY <1>1, <1>2, <1>4 DEF WalletInv, ReportInv, ReportedIsKept, WatchedFiles
<1> QED
  BY <1>3, <1>5

\* A verification only reads.
LEMMA VerifyKeeps ==
    ASSUME WalletInv, UNCHANGED <<files, commands, created, reported>>
    PROVE  (\A c \in Command : WorkInv(c)') /\ ReportInv'
BY DEF WalletInv, WorkInv, ReportInv, ReportedIsKept, files, commands

-----------------------------------------------------------------------------
(* Keystores: files, manifests and verifications hand on what there is, and a *)
(* new one is of a new wallet.                                                *)

LEMMA KnownIs ==
    ASSUME NEW k \in Keystore
    PROVE  k \in Known <=>
            \/ \E c \in Command : account[c] = k
            \/ \E d \in Place : keystore[d] = k
            \/ \E m \in Manifests : m.keystore = k
            \/ check.at = "digest" /\ check.keystore = k
BY DEF Known

\* Keystores are of Keystore, and so are their parts.
LEMMA NoNewKnown ==
    ASSUME OneKeystoreEach, Known' \subseteq Known, created \subseteq created'
    PROVE  OneKeystoreEach'
BY DEF OneKeystoreEach

LEMMA NewKnown ==
    ASSUME WalletInv, NEW k \in Keystore, k.wallet \notin created,
           Known' \subseteq Known \cup {k}, created' = created \cup {k.wallet}
    PROVE  OneKeystoreEach'
BY DEF WalletInv, OneKeystoreEach

LEMMA ProvisionKnown ==
    ASSUME WalletInv, NEW c \in Command, Provision(c)
    PROVE  ManifestsAgree' /\ OneKeystoreEach'
<1> USE DEF Goto, files
<1>1. WalletTypeOK /\ WorkInv(c) /\ ManifestsAgree /\ OneKeystoreEach /\ check' = check
  BY DEF WalletInv, Provision, Start, MakeDirectory, WriteKeystore, Seal, WriteManifest,
     WriteNotes, Stop
<1>2. WalletTypeOK'
  BY ProvisionTypes
<1>3. CASE Start(c) \/ Seal(c) \/ Stop(c) \/ WriteNotes(c)
  <2>1. UNCHANGED <<account, keystore, manifest, created>>
    BY <1>3 DEF Start, Seal, Stop, WriteNotes
  <2>2. Known' = Known /\ Manifests' = Manifests
    BY <1>1, <2>1 DEF Known, Manifests
  <2> QED
    BY <1>1, <2>1, <2>2 DEF ManifestsAgree, OneKeystoreEach
<1>4. CASE MakeDirectory(c)
  <2>1. PICK w \in Wallet \ created, p \in Password :
           /\ created' = created \cup {w}
           /\ account' = [account EXCEPT ![c] = [wallet |-> w, password |-> p]]
    BY <1>4 DEF MakeDirectory
  <2> DEFINE k == [wallet |-> w, password |-> p]
  <2>2. UNCHANGED <<keystore, manifest>>
    BY <1>4 DEF MakeDirectory
  <2>3. Manifests' = Manifests
    BY <1>1, <2>2 DEF Manifests
  <2>4. \A d \in Command : account'[d] = account[d] \/ account'[d] = k
    BY <1>1, <2>1 DEF WalletTypeOK
  <2>5. Known' \subseteq Known \cup {k}
    BY <1>1, <2>2, <2>3, <2>4 DEF Known
  <2>6. k \in Keystore /\ k.wallet = w
    BY DEF Keystore
  <2>7. OneKeystoreEach'
    BY <2>1, <2>5, <2>6, NewKnown
  <2> QED
    BY <1>1, <2>3, <2>7 DEF ManifestsAgree
<1>5. CASE WriteKeystore(c)
  <2>1. UNCHANGED <<account, manifest, created>>
    BY <1>5 DEF WriteKeystore
  <2>2. Manifests' = Manifests
    BY <1>1, <2>1 DEF Manifests
  <2>3. \A d \in Place : keystore'[d] \in {keystore[d], Torn, account[c]}
    BY <1>1, <1>5 DEF WriteKeystore, WalletTypeOK
  <2>4. Torn \notin Keystore
    BY NoneIsNoFile
  <2>5. Known' \subseteq Known
    BY <1>1, <2>1, <2>2, <2>3, <2>4 DEF Known
  <2> QED
    BY <1>1, <2>1, <2>2, <2>5, NoNewKnown DEF ManifestsAgree
<1>6. CASE WriteManifest(c)
  <2>1. UNCHANGED <<account, keystore, created>>
    BY <1>6 DEF WriteManifest
  <2>2. \A d \in Place : \/ manifest'[d] \in {manifest[d], Torn}
                         \/ pc[c] = "in_manifest" /\ manifest'[d] = ManifestOf(c)
    BY <1>1, <1>6 DEF WriteManifest, WalletTypeOK
  <2>3. Torn \notin Manifest
    BY NoneIsNoFile
  <2>4. pc[c] = "in_manifest" =>
           /\ ManifestOf(c).keystore = account[c] /\ account[c] \in Keystore
           /\ ManifestOf(c).wallet = account[c].wallet
    BY <1>1 DEF ManifestOf, WorkInv, Working, Sealing, Step
  <2>5. \A m \in Manifests' : m \in Manifests
                              \/ (pc[c] = "in_manifest" /\ m = ManifestOf(c))
    BY <1>1, <2>2, <2>3 DEF Manifests
  <2>6. ManifestsAgree'
    BY <1>1, <2>4, <2>5 DEF ManifestsAgree
  <2>7. ASSUME NEW m \in Manifests'
        PROVE  \/ \E l \in Manifests : m.keystore = l.keystore
               \/ \E d \in Command : m.keystore = account[d]
    BY <2>4, <2>5, <2>7
  <2>8. Known' \subseteq Known
    <3>1. {m.keystore : m \in Manifests'}
            \subseteq {m.keystore : m \in Manifests} \cup {account[d] : d \in Command}
      BY <2>7
    <3> QED
      BY <1>1, <2>1, <3>1 DEF Known
  <2> QED
    BY <1>1, <2>1, <2>6, <2>8, NoNewKnown
<1> QED
  BY <1>3, <1>4, <1>5, <1>6 DEF Provision

LEMMA CopyKnown ==
    ASSUME WalletInv, NEW from \in Place, NEW to \in Backup, Copy(from, to)
    PROVE  ManifestsAgree' /\ OneKeystoreEach'
<1>1. WalletTypeOK /\ ManifestsAgree /\ OneKeystoreEach /\ to \in Place
      /\ Torn \notin Keystore \cup Manifest
  BY PlacesAre, NoneIsNoFile DEF WalletInv
<1>2. UNCHANGED <<account, check, created>>
  BY DEF Copy, commands
<1>3. \A d \in Place : keystore'[d] \in {keystore[d], keystore[from], Torn}
  BY <1>1 DEF Copy, WalletTypeOK
<1>4. \A d \in Place : manifest'[d] \in {manifest[d], manifest[from], Torn}
  BY <1>1 DEF Copy, WalletTypeOK
<1>5. Manifests' \subseteq Manifests
  BY <1>1, <1>2, <1>4 DEF Manifests
<1>6. Known' \subseteq Known
  BY <1>1, <1>2, <1>3, <1>5 DEF Known
<1> QED
  BY <1>1, <1>2, <1>5, <1>6, NoNewKnown DEF ManifestsAgree

LEMMA VerifyKnown ==
    ASSUME WalletInv, StartVerify \/ ReadManifest \/ ReadKeystore \/ Verify
    PROVE  ManifestsAgree' /\ OneKeystoreEach'
<1>1. WalletTypeOK /\ ManifestsAgree /\ OneKeystoreEach
  BY DEF WalletInv
<1>2. UNCHANGED <<keystore, manifest, account, created>>
  BY DEF StartVerify, ReadManifest, ReadKeystore, Verify, files, commands
<1>3. check'.at \in {"keystore", "digest"} =>
        check'.manifest \in Manifests
  BY <1>1, CheckIs DEF StartVerify, ReadManifest, ReadKeystore, Verify, Manifests
<1>4. check'.at = "digest" => \E d \in Place : check'.keystore = keystore[d]
  BY <1>1, CheckIs DEF StartVerify, ReadManifest, ReadKeystore, Verify
<1>5. Manifests' \subseteq Manifests
  BY <1>2, <1>3 DEF Manifests
<1>6. Known' \subseteq Known
  BY <1>2, <1>4, <1>5 DEF Known
<1> QED
  BY <1>1, <1>2, <1>5, <1>6, NoNewKnown DEF ManifestsAgree

-----------------------------------------------------------------------------
LEMMA WalletNext == WalletInv /\ [Next]_vars => WalletInv'
<1> SUFFICES ASSUME WalletInv, [Next]_vars
             PROVE  WalletInv'
  OBVIOUS
<1>1. ASSUME NEW c \in Command, Provision(c)
      PROVE  WalletInv'
  BY <1>1, ProvisionTypes, ProvisionWork, ProvisionReports, ProvisionKnown DEF WalletInv
<1>2. ASSUME NEW from \in Place, NEW to \in Backup, Copy(from, to)
      PROVE  WalletInv'
  BY <1>2, CopyTypes, CopyKeeps, CopyKnown DEF WalletInv
<1>3. CASE StartVerify \/ ReadManifest \/ ReadKeystore \/ Verify
  <2>1. UNCHANGED <<files, commands, created, reported>>
    BY <1>3 DEF StartVerify, ReadManifest, ReadKeystore, Verify
  <2> QED
    BY <1>3, <2>1, VerifyTypes, VerifyKeeps, VerifyKnown DEF WalletInv
<1>4. CASE UNCHANGED vars
  BY <1>4 DEF vars, files, commands, WalletInv, WalletTypeOK, WorkInv, ReportInv,
     ReportedIsKept, ManifestsAgree, OneKeystoreEach, Known, Manifests
<1> QED
  BY <1>1, <1>2, <1>3, <1>4 DEF Next

\* The invariant holds throughout, however the commands of
\* wallet_provisioning.py stop or meet at one destination.
THEOREM WalletInvariant == Spec => []WalletInv
BY WalletInit, WalletNext, PTL DEF Spec

-----------------------------------------------------------------------------
\* The types of files, commands and verifications.
THEOREM WalletTypeCorrect == Spec => []WalletTypeOK
<1>1. WalletInv => WalletTypeOK
  BY DEF WalletInv
<1> QED
  BY <1>1, WalletInvariant, PTL

\* Whoever was told that a wallet was created finds its bundle where the command
\* wrote it, whatever other commands do with the same destination.
THEOREM ReportedBundlesStay == Spec => []ReportedIsKept
<1>1. WalletInv => ReportedIsKept
  BY DEF WalletInv, ReportInv
<1> QED
  BY <1>1, WalletInvariant, PTL

\* Two keystores of one wallet are the same: so the keystore that was decrypted
\* and the one whose digest agreed, read at two moments, are one.
LEMMA VerifiedIsThere ==
    ASSUME WalletInv, Verify
    PROVE  keystore'[check'.place] = [wallet |-> check'.wallet, password |-> check'.password]
<1> DEFINE m == check.manifest
           k == check.keystore
<1>1. /\ check.at = "digest"
      /\ keystore[check.place] = m.keystore
      /\ k.password = check.password /\ k.wallet = m.wallet
      /\ check'.place = check.place /\ check'.password = check.password
      /\ check'.wallet = k.wallet
      /\ keystore' = keystore
  BY DEF Verify, DecryptsTo, files
<1>2. m \in Manifests /\ m.keystore \in Keystore /\ m.wallet = m.keystore.wallet
  BY <1>1 DEF WalletInv, ManifestsAgree, Manifests
<1>3. k \in Keystore
  BY <1>1, CheckIs DEF WalletInv
<1>4. m.keystore \in Known /\ k \in Known
  BY <1>1, <1>2, <1>3, KnownIs
<1>5. k = m.keystore
  BY <1>1, <1>2, <1>4 DEF WalletInv, OneKeystoreEach
<1>6. k = [wallet |-> k.wallet, password |-> k.password]
  BY <1>3 DEF Keystore
<1> QED
  BY <1>1, <1>5, <1>6

\* What verify_celo_wallet reports holds of the disk when it reports it.
THEOREM VerifiedBundlesOpen == Spec => VerifiedIsRecoverable
<1>1. WalletInv /\ [Next]_vars
        => [check'.at = "verified" /\ check.at # "verified"
              => keystore'[check'.place]
                   = [wallet |-> check'.wallet, password |-> check'.password]]_vars
  <2> SUFFICES ASSUME WalletInv, Next, check'.at = "verified", check.at # "verified"
               PROVE  keystore'[check'.place]
                        = [wallet |-> check'.wallet, password |-> check'.password]
    OBVIOUS
  <2>1. Verify
    BY DEF Next, Provision, Start, MakeDirectory, WriteKeystore, Seal, WriteManifest,
       WriteNotes, Stop, Copy, StartVerify, ReadManifest, ReadKeystore
  <2> QED
    BY <2>1, VerifiedIsThere
<1> QED
  BY <1>1, WalletInvariant, PTL DEF Spec, VerifiedIsRecoverable

=============================================================================
