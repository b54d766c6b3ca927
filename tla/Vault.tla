------------------------------- MODULE Vault -------------------------------
(***************************************************************************)
(* The encrypted vault of the missions (src/missions/vault-store.ts,       *)
(* vault-crypto.ts), as the vault commands and vault.read use it.  An      *)
(* entry is a file sealed under a passphrase and the salt of the           *)
(* workspace, bound to its mission and name, and listed in a manifest per  *)
(* mission; a re-key opens and seals all of them in turn.                  *)
(*                                                                         *)
(* Sealing is perfect: a blob opens with the passphrase, the salt and the  *)
(* binding it was sealed with, and nothing else.  Files are written beside *)
(* their place and renamed, so a death leaves the old one; only the salt   *)
(* is written in place, 65 bytes in one write.                             *)
(***************************************************************************)
EXTENDS Naturals, FiniteSets, SequencesExt

CONSTANTS
  Calls,          \* commands that are issued
  Missions, Names,
  Values,         \* secrets
  Passphrases,
  MaxOverlap,     \* bound: how many commands are issued when they interleave
  MaxDeaths       \* bound: processes that die

ASSUME VaultAssumption ==
  /\ "error" \notin Values   \* a secret is told apart from a failed get
  /\ Passphrases # {} /\ MaxOverlap \in Nat /\ MaxDeaths \in Nat

VARIABLES
  salt,           \* vault-kdf.salt: 0 before it exists, else whose it is
  files,          \* the sealed files, by storage name
  manifests,      \* entries listed, per mission
  owner,          \* the passphrase the owner uses
  stored,         \* what each entry should hold, for the properties
  clean,          \* TRUE until a re-key fails or dies midway
  gone,           \* entries whose removal died after the file went
  pc, at,         \* per call: what it does next, and what it holds
  serial,         \* TRUE when one call ends before the next begins
  deaths

vars == <<salt, files, manifests, owner, stored, clean, gone, pc, at, serial, deaths>>

Entries == Missions \X Names
Blob == [value : Values, pass : Passphrases, salt : Nat, aad : Entries]
NoBlob == [value |-> "", pass |-> "", salt |-> 0, aad |-> <<>>]

(* vaultEntryStorageFileName: a hash of mission and name.                  *)
StorageFile_ofName(e) == <<CHOOSE m \in Missions : TRUE, e[2]>>

StorageFile(e) == e

(* sealVaultPayload and encodeVaultBlob.                                   *)
Seal(e, value, pass, s) == [value |-> value, pass |-> pass, salt |-> s, aad |-> e]

(* openVaultPayload and parseVaultBlob.                                    *)
Opens(e, pass, s) ==
  LET b == files[StorageFile(e)] IN b # NoBlob /\ b.aad = e /\ b.pass = pass /\ b.salt = s

Nothing == [entry |-> <<>>, value |-> "", pass |-> "", new |-> "", salt |-> 0,
            list |-> {}, todo |-> {}, blob |-> NoBlob]

TypeOK ==
  /\ salt \in Nat
  /\ files \in [Entries -> Blob \union {NoBlob}]
  /\ manifests \in [Missions -> SUBSET Names]
  /\ owner \in Passphrases
  /\ pc \in [Calls -> {"idle", "ensure", "fresh", "salt", "seal", "list", "record",
                       "rm", "unlist", "scan", "next", "reseal", "over"}]

Init ==
  /\ salt = 0
  /\ files = [e \in Entries |-> NoBlob]
  /\ manifests = [m \in Missions |-> {}]
  /\ owner \in Passphrases
  /\ stored = [e \in Entries |-> ""]
  /\ clean = TRUE /\ gone = {}
  /\ pc = [c \in Calls |-> "idle"]
  /\ at = [c \in Calls |-> Nothing]
  /\ serial \in BOOLEAN
  /\ deaths = 0

Working == {c \in Calls : pc[c] \notin {"idle", "over"}}
MayStart(c) ==
  /\ pc[c] = "idle"
  /\ IF serial THEN Working = {} ELSE Cardinality({d \in Calls : pc[d] # "idle"}) < MaxOverlap
Goto(c, step) == pc' = [pc EXCEPT ![c] = step]
Over(c) == Goto(c, "over") /\ at' = [at EXCEPT ![c] = Nothing]
ghosts == <<owner, stored, clean, gone>>
-----------------------------------------------------------------------------
(* vault put: the command makes sure of the salt, then vaultPut reads it.  *)
(* vault init stops after that.                                            *)
PutStarts(c, e, value) ==
  /\ MayStart(c)
  /\ at' = [at EXCEPT ![c] = [Nothing EXCEPT !.entry = e, !.value = value, !.pass = owner]]
  /\ Goto(c, "ensure")
  /\ UNCHANGED <<salt, files, manifests, ghosts, serial, deaths>>

InitStarts(c) ==
  /\ MayStart(c)
  /\ Goto(c, "ensure")
  /\ UNCHANGED <<salt, files, manifests, ghosts, at, serial, deaths>>

EnsureSalt(c) ==
  /\ pc[c] = "ensure"
  /\ \/ salt = 0 /\ Goto(c, "fresh") /\ UNCHANGED at
     \/ salt # 0 /\ at[c].entry # <<>> /\ Goto(c, "salt") /\ UNCHANGED at
     \/ salt # 0 /\ at[c].entry = <<>> /\ Over(c)
  /\ UNCHANGED <<salt, files, manifests, ghosts, serial, deaths>>

(* A salt somebody wrote in the meantime is replaced.                      *)
FreshSalt(c) ==
  /\ pc[c] = "fresh"
  /\ salt' = salt + 1
  /\ IF at[c].entry = <<>> THEN Over(c) ELSE Goto(c, "salt") /\ UNCHANGED at
  /\ UNCHANGED <<files, manifests, ghosts, serial, deaths>>

ReadSalt(c) ==
  /\ pc[c] = "salt"
  /\ at' = [at EXCEPT ![c].salt = salt]
  /\ Goto(c, "seal")
  /\ UNCHANGED <<salt, files, manifests, ghosts, serial, deaths>>

WriteEntry(c) ==
  /\ pc[c] = "seal"
  /\ LET e == at[c].entry
     IN /\ files' = [files EXCEPT ![StorageFile(e)] = Seal(e, at[c].value, at[c].pass, at[c].salt)]
        /\ stored' = [stored EXCEPT ![e] = at[c].value]
        /\ gone' = gone \ {e}
  /\ Goto(c, "list")
  /\ UNCHANGED <<salt, manifests, owner, clean, at, serial, deaths>>

(* A manifest that cannot be read counts as empty.                         *)
ReadManifest(c) ==
  /\ pc[c] = "list"
  /\ at' = [at EXCEPT ![c].list = manifests[at[c].entry[1]] \union {at[c].entry[2]}]
  /\ Goto(c, "record")
  /\ UNCHANGED <<salt, files, manifests, ghosts, serial, deaths>>

WriteManifest(c) ==
  /\ pc[c] = "record"
  /\ manifests' = [manifests EXCEPT ![at[c].entry[1]] = at[c].list]
  /\ Over(c)
  /\ UNCHANGED <<salt, files, ghosts, serial, deaths>>
-----------------------------------------------------------------------------
(* vaultRemove: the file goes first.                                       *)
RemoveStarts(c, e) ==
  /\ MayStart(c)
  /\ IF e[2] \in manifests[e[1]]
     THEN /\ at' = [at EXCEPT ![c] = [Nothing EXCEPT !.entry = e, !.list = manifests[e[1]] \ {e[2]}]]
          /\ Goto(c, "rm")
     ELSE Over(c)
  /\ UNCHANGED <<salt, files, manifests, ghosts, serial, deaths>>

RemoveFile(c) ==
  /\ pc[c] = "rm"
  /\ files' = [files EXCEPT ![StorageFile(at[c].entry)] = NoBlob]
  /\ gone' = gone \union {at[c].entry}
  /\ Goto(c, "unlist")
  /\ UNCHANGED <<salt, manifests, owner, stored, clean, at, serial, deaths>>

Unlist(c) ==
  /\ pc[c] = "unlist"
  /\ manifests' = [manifests EXCEPT ![at[c].entry[1]] = at[c].list]
  /\ gone' = gone \ {at[c].entry}
  /\ Over(c)
  /\ UNCHANGED <<salt, files, owner, stored, clean, serial, deaths>>
-----------------------------------------------------------------------------
(* rekeyAllVaultEntries: no salt, no re-key.  The manifests are read one   *)
(* by one, then the entries.                                               *)
RekeyStarts(c, new) ==
  /\ MayStart(c)
  /\ IF salt = 0
     THEN Over(c) /\ UNCHANGED clean
     ELSE /\ at' = [at EXCEPT ![c] = [Nothing EXCEPT !.pass = owner, !.new = new, !.salt = salt,
                                                     !.list = Missions]]
          /\ clean' = FALSE
          /\ Goto(c, "scan")
  /\ UNCHANGED <<salt, files, manifests, owner, stored, gone, serial, deaths>>

ScanMission(c) ==
  /\ pc[c] = "scan"
  /\ \/ \E m \in at[c].list :
          /\ at' = [at EXCEPT ![c].list = @ \ {m}, ![c].todo = @ \union ({m} \X manifests[m])]
          /\ Goto(c, "scan")
     \/ at[c].list = {} /\ UNCHANGED at /\ Goto(c, "next")
  /\ UNCHANGED <<salt, files, manifests, ghosts, serial, deaths>>

(* Opens the next entry; one that is missing or does not open ends it.     *)
RekeyOpens_skipsBad(c) ==
  /\ pc[c] = "next"
  /\ \/ /\ at[c].todo = {}
        /\ owner' = at[c].new /\ clean' = TRUE
        /\ Over(c)
     \/ \E e \in at[c].todo :
          /\ IF Opens(e, at[c].pass, at[c].salt)
             THEN /\ at' = [at EXCEPT ![c].entry = e, ![c].blob = files[StorageFile(e)]]
                  /\ Goto(c, "reseal")
             ELSE at' = [at EXCEPT ![c].todo = @ \ {e}] /\ Goto(c, "next")
          /\ UNCHANGED <<owner, clean>>
  /\ UNCHANGED <<salt, files, manifests, stored, gone, serial, deaths>>

RekeyOpens(c) ==
  /\ pc[c] = "next"
  /\ \/ /\ at[c].todo = {}
        /\ owner' = at[c].new /\ clean' = TRUE
        /\ Over(c)
     \/ \E e \in at[c].todo :
          /\ IF Opens(e, at[c].pass, at[c].salt)
             THEN /\ at' = [at EXCEPT ![c].entry = e, ![c].blob = files[StorageFile(e)]]
                  /\ Goto(c, "reseal")
             ELSE Over(c)
          /\ UNCHANGED <<owner, clean>>
  /\ UNCHANGED <<salt, files, manifests, stored, gone, serial, deaths>>

Reseal(c) ==
  /\ pc[c] = "reseal"
  /\ LET e == at[c].entry
     IN /\ files' = [files EXCEPT ![StorageFile(e)] = Seal(e, at[c].blob.value, at[c].new, at[c].salt)]
        /\ at' = [at EXCEPT ![c].todo = @ \ {e}]
  /\ Goto(c, "next")
  /\ UNCHANGED <<salt, manifests, ghosts, serial, deaths>>

(* The owner may also turn to another passphrase without a re-key: nothing *)
(* checks that a put uses the one the other entries are sealed under.      *)
Mistype(pass) ==
  /\ owner # pass /\ clean /\ Working = {}
  /\ owner' = pass
  /\ clean' = FALSE
  /\ UNCHANGED <<salt, files, manifests, stored, gone, pc, at, serial, deaths>>

Die(c) ==
  /\ c \in Working /\ deaths < MaxDeaths
  /\ Over(c)
  /\ deaths' = deaths + 1
  /\ UNCHANGED <<salt, files, manifests, ghosts, serial>>

(* The commands of narthynx vault that change something.                   *)
Command(c) ==
  \/ \E e \in Entries, value \in Values : PutStarts(c, e, value)
  \/ \E e \in Entries : RemoveStarts(c, e)
  \/ \E new \in Passphrases : RekeyStarts(c, new)
  \/ InitStarts(c)

Next ==
  \/ \E c \in Calls :
       \/ Command(c) \/ EnsureSalt(c) \/ FreshSalt(c) \/ ReadSalt(c)
       \/ WriteEntry(c) \/ ReadManifest(c) \/ WriteManifest(c)
       \/ RemoveFile(c) \/ Unlist(c)
       \/ ScanMission(c) \/ RekeyOpens(c) \/ Reseal(c)
       \/ Die(c)
  \/ \E pass \in Passphrases : Mistype(pass)

Spec == Init /\ [][Next]_vars
-----------------------------------------------------------------------------
AtRest == Working = {}
Listed == {e \in Entries : e[2] \in manifests[e[1]]}

(* vaultGet, to the end: what an entry yields under a passphrase.          *)
Get(e, pass) ==
  IF e \in Listed /\ salt # 0 /\ Opens(e, pass, salt) THEN files[StorageFile(e)].value ELSE "error"

(* Whatever dies midway, between two commands every listed entry still     *)
(* yields the last secret put under its own name, with one of the owner's  *)
(* passphrases: a half-done re-key leaves some under the old and some      *)
(* under the new, none unreadable.  Only a removal that died after the     *)
(* file went leaves a name without one.                                    *)
ListedOpens ==
  serial /\ AtRest =>
    \A e \in Listed \ gone : \E pass \in Passphrases : Get(e, pass) = stored[e]

(* A re-key that reports success leaves nothing under another passphrase:  *)
(* until one fails, dies or is bypassed, every listed entry opens with the *)
(* owner's.                                                                *)
RekeyIsTotal ==
  serial /\ AtRest /\ clean => \A e \in Listed \ gone : Get(e, owner) # "error"
=============================================================================
