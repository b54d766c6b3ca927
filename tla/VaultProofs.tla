---------------------------- MODULE VaultProofs ----------------------------
(***************************************************************************)
(* Theorems about the vault, for every set of commands, missions, names    *)
(* and passphrases, and any number of deaths.  Except for the types, they  *)
(* are about commands that do not overlap.                                 *)
(***************************************************************************)
EXTENDS Vault, TLAPS

(* What a call holds at each of its steps.                                 *)
Putting == {"ensure", "fresh", "salt", "seal", "list", "record"}
Removing == {"rm", "unlist"}
Rekeying == {"scan", "next", "reseal"}

Held == [entry : Entries \union {<<>>}, value : Values \union {""},
         pass : Passphrases \union {""}, new : Passphrases \union {""}, salt : Nat,
         list : (SUBSET Names) \union (SUBSET Missions), todo : SUBSET Entries,
         blob : Blob \union {NoBlob}]

HoldsEntry(c) ==
  at[c].entry \in Entries /\ at[c].value \in Values /\ at[c].pass \in Passphrases

Equipped(c) ==
  /\ pc[c] \in {"idle", "over"} => at[c] = Nothing
  /\ pc[c] \in {"ensure", "fresh"} /\ at[c].entry # <<>> => HoldsEntry(c)
  /\ pc[c] \in {"salt", "seal", "list", "record"} => HoldsEntry(c)
  /\ pc[c] \in Removing => at[c].entry \in Entries
  /\ pc[c] \in Removing \union {"record"} => at[c].list \subseteq Names
  /\ pc[c] \in Rekeying => at[c].pass \in Passphrases /\ at[c].new \in Passphrases
  /\ pc[c] = "scan" => at[c].list \subseteq Missions
  /\ pc[c] = "reseal" => at[c].entry \in Entries /\ at[c].blob \in Blob

TypeInv ==
  /\ TypeOK
  /\ stored \in [Entries -> Values \union {""}]
  /\ gone \subseteq Entries
  /\ clean \in BOOLEAN /\ serial \in BOOLEAN /\ deaths \in Nat
  /\ at \in [Calls -> Held]
  /\ \A c \in Calls : Equipped(c)

(* A file is sealed under the salt of the workspace and bound to its own   *)
(* entry, and holds what was last put there.                               *)
Sealed(e) ==
  files[e] # NoBlob =>
    salt # 0 /\ files[e].salt = salt /\ files[e].aad = e /\ files[e].value = stored[e]

(* A put works under the owner's passphrase and the salt.                  *)
PutTracks(c) ==
  LET e == at[c].entry
  IN /\ pc[c] \in Putting /\ e # <<>> => at[c].pass = owner
     /\ pc[c] = "fresh" => salt = 0
     /\ pc[c] \in {"salt", "seal"} => salt # 0
     /\ pc[c] = "seal" => at[c].salt = salt
     /\ pc[c] \in {"list", "record"} => files[e] # NoBlob /\ files[e].pass = owner
     /\ pc[c] \in {"list", "record"} => e \notin gone
     /\ pc[c] = "record" => at[c].list = manifests[e[1]] \union {e[2]}

RemoveTracks(c) ==
  LET e == at[c].entry
  IN /\ pc[c] \in Removing => at[c].list = manifests[e[1]] \ {e[2]}
     /\ pc[c] = "unlist" => files[e] = NoBlob

(* A re-key has yet to scan an entry's mission, has it on its list, or has *)
(* sealed it under the new passphrase.                                     *)
Rekeyed(c, e) ==
  \/ pc[c] = "scan" /\ e[1] \in at[c].list
  \/ e \in at[c].todo
  \/ files[e].pass = at[c].new

RekeyTracks(c) ==
  /\ pc[c] \in Rekeying =>
       /\ ~clean /\ salt # 0 /\ at[c].salt = salt
       /\ \A e \in Listed \ gone : Rekeyed(c, e)
  /\ pc[c] = "reseal" =>
       /\ files[at[c].entry] # NoBlob /\ at[c].blob = files[at[c].entry]

ListedAreThere ==
  \A e \in Listed \ gone : files[e] # NoBlob /\ (clean => files[e].pass = owner)

SerialInv ==
  /\ TypeInv
  /\ serial =>
       /\ \A c, d \in Working : c = d
       /\ \A e \in Entries : Sealed(e)
       /\ ListedAreThere
       /\ \A c \in Calls : PutTracks(c) /\ RemoveTracks(c) /\ RekeyTracks(c)
-----------------------------------------------------------------------------
(* The empty blob and the empty entry are told apart from all others.      *)
LEMMA Distinctions ==
  /\ NoBlob \notin Blob
  /\ <<>> \notin Entries
  /\ \A e \in Entries : e[1] \in Missions /\ e[2] \in Names /\ e = <<e[1], e[2]>>
<1>1. ASSUME NEW e \in Entries
      PROVE  e[1] \in Missions /\ e[2] \in Names /\ e = <<e[1], e[2]>>
  BY DEF Entries
<1>2. ASSUME <<>> \in Entries PROVE FALSE
  <2>1. PICK m \in Missions, n \in Names : <<>> = <<m, n>>
    BY <1>2 DEF Entries
  <2>2. Len(<<>>) = 0 /\ Len(<<m, n>>) = 2
    OBVIOUS
  <2>3. QED
    BY <2>1, <2>2
<1>3. NoBlob.aad = <<>>
  BY DEF NoBlob
<1>4. \A b \in Blob : b.aad \in Entries
  BY DEF Blob
<1>5. QED
  BY <1>1, <1>2, <1>3, <1>4

(* What a command holds when it starts, ends or dies.                      *)
LEMMA NothingHeld == Nothing \in Held /\ Nothing.entry = <<>>
<1>1. Nothing.entry = <<>>
  BY DEF Nothing
<1>2. QED
  BY <1>1 DEF Nothing, Held

(* TypeInv holds at the start.                                             *)
LEMMA TypeInit == Init => TypeInv
<1> SUFFICES ASSUME Init PROVE TypeInv
  OBVIOUS
<1> USE DEF Init
<1>1. TypeOK
  BY DEF TypeOK
<1>2. at \in [Calls -> Held] /\ \A c \in Calls : pc[c] = "idle"
  BY NothingHeld
<1>3. QED
  BY <1>1, <1>2 DEF TypeInv, Equipped, Removing, Rekeying

(* A step of one call keeps what the others are equipped with.             *)
LEMMA OthersEquipped ==
  ASSUME TypeInv, NEW c \in Calls, Equipped(c)',
         \A d \in Calls \ {c} : pc'[d] = pc[d] /\ at'[d] = at[d]
  PROVE  \A d \in Calls : Equipped(d)'
<1>1. ASSUME NEW d \in Calls \ {c} PROVE Equipped(d)'
  BY <1>1 DEF TypeInv, Equipped, HoldsEntry
<1>2. QED
  BY <1>1

(* A call that ends or dies holds nothing.                                 *)
LEMMA OverIsEquipped ==
  ASSUME TypeInv, NEW c \in Calls, Over(c)
  PROVE  /\ at' \in [Calls -> Held]
         /\ pc'[c] = "over" /\ at'[c] = Nothing
         /\ \A d \in Calls \ {c} : pc'[d] = pc[d] /\ at'[d] = at[d]
         /\ pc' \in [Calls -> {"idle", "ensure", "fresh", "salt", "seal", "list", "record",
                               "rm", "unlist", "scan", "next", "reseal", "over"}]
         /\ \A d \in Calls : Equipped(d)'
<1>1. /\ at' \in [Calls -> Held]
      /\ pc'[c] = "over" /\ at'[c] = Nothing
      /\ \A d \in Calls \ {c} : pc'[d] = pc[d] /\ at'[d] = at[d]
      /\ pc' \in [Calls -> {"idle", "ensure", "fresh", "salt", "seal", "list", "record",
                            "rm", "unlist", "scan", "next", "reseal", "over"}]
  BY NothingHeld DEF Over, Goto, TypeInv, TypeOK
<1>2. Equipped(c)'
  BY <1>1 DEF Equipped, Removing, Rekeying
<1>3. QED
  BY <1>1, <1>2, OthersEquipped

(* The rest of TypeInv, which most steps keep as they keep the variables.  *)
FilesTyped ==
  /\ salt \in Nat
  /\ files \in [Entries -> Blob \union {NoBlob}]
  /\ manifests \in [Missions -> SUBSET Names]
  /\ owner \in Passphrases
  /\ stored \in [Entries -> Values \union {""}]
  /\ gone \subseteq Entries
  /\ clean \in BOOLEAN /\ serial \in BOOLEAN /\ deaths \in Nat

(* Every step keeps FilesTyped.                                            *)
LEMMA FilesNext ==
  ASSUME TypeInv, [Next]_vars
  PROVE  FilesTyped'
<1> USE DEF FilesTyped, ghosts
<1>f. FilesTyped
  BY DEF TypeInv, TypeOK
<1>1. ASSUME NEW c \in Calls,
             Command(c) \/ EnsureSalt(c) \/ ReadSalt(c) \/ ReadManifest(c) \/ ScanMission(c)
      PROVE  FilesTyped'
  <2>1. CASE \E new \in Passphrases : RekeyStarts(c, new)
    BY <2>1, <1>f DEF RekeyStarts
  <2>2. CASE UNCHANGED <<salt, files, manifests, ghosts, serial, deaths>>
    BY <2>2, <1>f
  <2>3. QED
    BY <1>1, <2>1, <2>2 DEF Command, PutStarts, RemoveStarts, InitStarts, EnsureSalt, ReadSalt,
       ReadManifest, ScanMission
<1>2. ASSUME NEW c \in Calls, FreshSalt(c) PROVE FilesTyped'
  <2>1. salt' = salt + 1 /\ UNCHANGED <<files, manifests, ghosts, serial, deaths>>
    BY <1>2 DEF FreshSalt
  <2>2. salt \in Nat
    BY <1>f
  <2>3. salt' \in Nat
    BY <2>1, <2>2
  <2>4. QED
    BY <2>1, <2>3, <1>f
<1>3. ASSUME NEW c \in Calls, WriteEntry(c) PROVE FilesTyped'
  <2>1. HoldsEntry(c) /\ at[c].salt \in Nat
    BY <1>3 DEF WriteEntry, TypeInv, Equipped, Held
  <2>2. Seal(at[c].entry, at[c].value, at[c].pass, at[c].salt) \in Blob
    BY <2>1 DEF Seal, Blob, HoldsEntry
  <2>3. QED
    BY <1>3, <1>f, <2>1, <2>2 DEF WriteEntry, HoldsEntry, StorageFile
<1>4. ASSUME NEW c \in Calls, WriteManifest(c) PROVE FilesTyped'
  <2>1. at[c].entry[1] \in Missions /\ at[c].list \subseteq Names
    BY <1>4, Distinctions DEF WriteManifest, TypeInv, Equipped, HoldsEntry
  <2>2. QED
    BY <1>4, <1>f, <2>1 DEF WriteManifest
<1>5. ASSUME NEW c \in Calls, RemoveFile(c) PROVE FilesTyped'
  <2>1. at[c].entry \in Entries
    BY <1>5 DEF RemoveFile, TypeInv, Equipped, Removing
  <2>2. QED
    BY <1>5, <1>f, <2>1 DEF RemoveFile, StorageFile
<1>6. ASSUME NEW c \in Calls, Unlist(c) PROVE FilesTyped'
  <2>1. at[c].entry[1] \in Missions /\ at[c].list \subseteq Names
    BY <1>6, Distinctions DEF Unlist, TypeInv, Equipped, Removing
  <2>2. QED
    BY <1>6, <1>f, <2>1 DEF Unlist
<1>7. ASSUME NEW c \in Calls, RekeyOpens(c) PROVE FilesTyped'
  <2>1. at[c].new \in Passphrases
    BY <1>7 DEF RekeyOpens, TypeInv, Equipped, Rekeying
  <2>2. QED
    BY <1>7, <1>f, <2>1 DEF RekeyOpens
<1>8. ASSUME NEW c \in Calls, Reseal(c) PROVE FilesTyped'
  <2>1. /\ at[c].entry \in Entries /\ at[c].blob \in Blob
        /\ at[c].new \in Passphrases /\ at[c].salt \in Nat
    BY <1>8 DEF Reseal, TypeInv, Equipped, Rekeying, Held
  <2>2. Seal(at[c].entry, at[c].blob.value, at[c].new, at[c].salt) \in Blob
    BY <2>1 DEF Seal, Blob
  <2>3. QED
    BY <1>8, <1>f, <2>1, <2>2 DEF Reseal, StorageFile
<1>9. ASSUME NEW pass \in Passphrases, Mistype(pass) PROVE FilesTyped'
  BY <1>9, <1>f DEF Mistype
<1>10. ASSUME NEW c \in Calls, Die(c) PROVE FilesTyped'
  <2>1. deaths' = deaths + 1 /\ UNCHANGED <<salt, files, manifests, ghosts, serial>>
    BY <1>10 DEF Die
  <2>2. deaths \in Nat
    BY <1>f
  <2>3. deaths' \in Nat
    BY <2>1, <2>2
  <2>4. QED
    BY <2>1, <2>3, <1>f
<1>11. CASE UNCHANGED vars
  BY <1>11, <1>f DEF vars
<1>12. QED
  BY <1>1, <1>2, <1>3, <1>4, <1>5, <1>6, <1>7, <1>8, <1>9, <1>10, <1>11 DEF Next

(* A step of one call keeps the calls typed when it leaves that one so.    *)
Steps == {"idle", "ensure", "fresh", "salt", "seal", "list", "record", "rm", "unlist",
          "scan", "next", "reseal", "over"}

Keeps(c) ==
  /\ at' = at \/ \E held \in Held : at' = [at EXCEPT ![c] = held]
  /\ \E l \in Steps : Goto(c, l)
  /\ Equipped(c)'

LEMMA CallsTyped ==
  ASSUME TypeInv, [Next]_vars, NEW c \in Calls, Keeps(c)
  PROVE  TypeInv'
<1>1. /\ pc' \in [Calls -> Steps]
      /\ at' \in [Calls -> Held]
      /\ \A d \in Calls \ {c} : pc'[d] = pc[d] /\ at'[d] = at[d]
  BY DEF Keeps, Goto, TypeInv, TypeOK, Steps
<1>2. \A d \in Calls : Equipped(d)'
  BY <1>1, OthersEquipped DEF Keeps
<1>3. QED
  BY <1>1, <1>2, FilesNext DEF FilesTyped, TypeInv, TypeOK, Steps

(* Every step keeps TypeInv.                                               *)
LEMMA TypeNext ==
  ASSUME TypeInv, [Next]_vars
  PROVE  TypeInv'
<1>t. /\ \A c \in Calls : at[c] \in Held /\ Equipped(c)
      /\ FilesTyped /\ DOMAIN at = Calls /\ pc \in [Calls -> Steps]
  BY DEF TypeInv, TypeOK, FilesTyped, Steps
<1>o. ASSUME NEW c \in Calls, Over(c) PROVE TypeInv'
  BY <1>o, OverIsEquipped, FilesNext DEF TypeInv, TypeOK, FilesTyped
<1> USE DEF Goto, HoldsEntry, Removing, Rekeying
<1>1. ASSUME NEW c \in Calls, NEW e \in Entries, NEW value \in Values, PutStarts(c, e, value)
      PROVE  TypeInv'
  <2> DEFINE held == [Nothing EXCEPT !.entry = e, !.value = value, !.pass = owner]
  <2>1. held \in Held /\ at' = [at EXCEPT ![c] = held] /\ Goto(c, "ensure")
    <3>1. owner \in Passphrases
      BY <1>t DEF FilesTyped
    <3>2. held \in Held
      BY <3>1, NothingHeld DEF Held
    <3>3. QED
      BY <1>1, <3>2 DEF PutStarts
  <2>2. pc'[c] = "ensure" /\ at'[c] = held
    BY <2>1, <1>t
  <2>3. Equipped(c)'
    BY <2>2, <1>t DEF Equipped, Nothing, FilesTyped
  <2>4. QED
    BY <2>1, <2>3, CallsTyped DEF Keeps, Steps
<1>2. ASSUME NEW c \in Calls, InitStarts(c) PROVE TypeInv'
  <2>1. at' = at /\ Goto(c, "ensure") /\ at[c] = Nothing
    BY <1>2, <1>t DEF InitStarts, MayStart, Equipped
  <2>2. pc'[c] = "ensure" /\ at'[c] = at[c]
    BY <2>1, <1>t
  <2>3. Equipped(c)'
    <3>1. at'[c].entry = <<>>
      BY <2>1, <2>2, NothingHeld
    <3>2. QED
      BY <2>2, <3>1 DEF Equipped
  <2>4. QED
    BY <2>1, <2>3, CallsTyped DEF Keeps, Steps
<1>3. ASSUME NEW c \in Calls, EnsureSalt(c) PROVE TypeInv'
  <2>1. ASSUME NEW l \in {"fresh", "salt"}, Goto(c, l), at' = at, pc[c] = "ensure",
               l = "salt" => at[c].entry # <<>>
        PROVE  TypeInv'
    <3>1. pc'[c] = l /\ at'[c] = at[c]
      BY <2>1, <1>t
    <3>2. Equipped(c)'
      BY <2>1, <3>1, <1>t DEF Equipped
    <3>3. QED
      BY <2>1, <3>2, CallsTyped DEF Keeps, Steps
  <2>2. QED
    BY <1>3, <2>1, <1>o DEF EnsureSalt
<1>4. ASSUME NEW c \in Calls, FreshSalt(c) PROVE TypeInv'
  <2>1. ASSUME Goto(c, "salt"), at' = at, pc[c] = "fresh", at[c].entry # <<>>
        PROVE  TypeInv'
    <3>1. pc'[c] = "salt" /\ at'[c] = at[c]
      BY <2>1, <1>t
    <3>2. Equipped(c)'
      BY <2>1, <3>1, <1>t DEF Equipped
    <3>3. QED
      BY <2>1, <3>2, CallsTyped DEF Keeps, Steps
  <2>2. QED
    BY <1>4, <2>1, <1>o DEF FreshSalt
<1>5. ASSUME NEW c \in Calls, ReadSalt(c) PROVE TypeInv'
  <2> DEFINE held == [at[c] EXCEPT !.salt = salt]
  <2>0. salt \in Nat /\ at[c] \in Held
    BY <1>t DEF FilesTyped
  <2>1. held \in Held /\ at' = [at EXCEPT ![c] = held] /\ Goto(c, "seal") /\ pc[c] = "salt"
    <3>1. held \in Held
      BY <2>0 DEF Held
    <3>2. QED
      BY <1>5, <1>t, <3>1 DEF ReadSalt
  <2>2. pc'[c] = "seal" /\ at'[c] = held
    BY <2>1, <1>t
  <2>3. Equipped(c)'
    BY <2>1, <2>2, <1>t DEF Equipped, Held
  <2>4. QED
    BY <2>1, <2>3, CallsTyped DEF Keeps, Steps
<1>6. ASSUME NEW c \in Calls, WriteEntry(c) PROVE TypeInv'
  <2>1. at' = at /\ Goto(c, "list") /\ pc[c] = "seal"
    BY <1>6 DEF WriteEntry
  <2>2. pc'[c] = "list" /\ at'[c] = at[c]
    BY <2>1, <1>t
  <2>3. Equipped(c)'
    BY <2>1, <2>2, <1>t DEF Equipped
  <2>4. QED
    BY <2>1, <2>3, CallsTyped DEF Keeps, Steps
<1>7. ASSUME NEW c \in Calls, ReadManifest(c) PROVE TypeInv'
  <2> DEFINE names == manifests[at[c].entry[1]] \union {at[c].entry[2]}
             held == [at[c] EXCEPT !.list = names]
  <2>1. /\ at' = [at EXCEPT ![c] = held] /\ Goto(c, "record") /\ pc[c] = "list"
        /\ at[c].entry \in Entries
    BY <1>7, <1>t DEF ReadManifest, Equipped
  <2>2. names \subseteq Names
    BY <2>1, <1>t, Distinctions DEF FilesTyped
  <2>3. held \in Held
    BY <2>2, <1>t DEF Held
  <2>4. pc'[c] = "record" /\ at'[c] = held
    BY <2>1, <1>t
  <2>5. HoldsEntry(c) /\ at'[c].entry = at[c].entry /\ at'[c].value = at[c].value
        /\ at'[c].pass = at[c].pass /\ at'[c].list = names
    BY <2>1, <2>4, <1>t DEF Equipped, Held
  <2>6. Equipped(c)'
    BY <2>2, <2>4, <2>5 DEF Equipped
  <2>7. QED
    BY <2>1, <2>3, <2>6, CallsTyped DEF Keeps, Steps
<1>8. ASSUME NEW c \in Calls, WriteManifest(c) \/ Unlist(c) \/ Die(c) PROVE TypeInv'
  BY <1>8, <1>o DEF WriteManifest, Unlist, Die
<1>9. ASSUME NEW c \in Calls, NEW e \in Entries, RemoveStarts(c, e) PROVE TypeInv'
  <2> DEFINE names == manifests[e[1]] \ {e[2]}
             held == [Nothing EXCEPT !.entry = e, !.list = names]
  <2>1. CASE at' = [at EXCEPT ![c] = held] /\ Goto(c, "rm")
    <3>1. names \subseteq Names
      BY <1>t, Distinctions DEF FilesTyped
    <3>2. held \in Held
      BY <3>1, NothingHeld DEF Held
    <3>3. pc'[c] = "rm" /\ at'[c] = held
      BY <2>1, <1>t
    <3>4. Equipped(c)'
      BY <3>1, <3>3 DEF Equipped, Nothing
    <3>5. QED
      BY <2>1, <3>2, <3>4, CallsTyped DEF Keeps, Steps
  <2>2. QED
    BY <1>9, <2>1, <1>o DEF RemoveStarts
<1>10. ASSUME NEW c \in Calls, RemoveFile(c) PROVE TypeInv'
  <2>1. at' = at /\ Goto(c, "unlist") /\ pc[c] = "rm"
    BY <1>10 DEF RemoveFile
  <2>2. pc'[c] = "unlist" /\ at'[c] = at[c]
    BY <2>1, <1>t
  <2>3. Equipped(c)'
    BY <2>1, <2>2, <1>t DEF Equipped
  <2>4. QED
    BY <2>1, <2>3, CallsTyped DEF Keeps, Steps
<1>11. ASSUME NEW c \in Calls, NEW new \in Passphrases, RekeyStarts(c, new) PROVE TypeInv'
  <2> DEFINE held == [Nothing EXCEPT !.pass = owner, !.new = new, !.salt = salt,
                                     !.list = Missions]
  <2>1. CASE at' = [at EXCEPT ![c] = held] /\ Goto(c, "scan")
    <3>1. held \in Held
      <4>1. /\ Missions \in SUBSET Missions /\ new \in Passphrases
            /\ owner \in Passphrases /\ salt \in Nat
        BY <1>t DEF FilesTyped
      <4>2. Nothing \in Held
        BY NothingHeld
      <4>3. QED
        BY <4>1, <4>2 DEF Held
    <3>2. pc'[c] = "scan" /\ at'[c] = held
      BY <2>1, <1>t
    <3>3. Equipped(c)'
      BY <3>2, <1>t DEF Equipped, Nothing, FilesTyped
    <3>4. QED
      BY <2>1, <3>1, <3>3, CallsTyped DEF Keeps, Steps
  <2>2. QED
    BY <1>11, <2>1, <1>o DEF RekeyStarts
<1>12. ASSUME NEW c \in Calls, ScanMission(c) PROVE TypeInv'
  <2>1. pc[c] = "scan" /\ at[c].list \subseteq Missions
    BY <1>12, <1>t DEF ScanMission, Equipped
  <2>2. ASSUME NEW m \in at[c].list, Goto(c, "scan"),
               at' = [at EXCEPT ![c].list = @ \ {m}, ![c].todo = @ \union ({m} \X manifests[m])]
        PROVE  TypeInv'
    <3> DEFINE held == [at[c] EXCEPT !.list = @ \ {m}, !.todo = @ \union ({m} \X manifests[m])]
    <3>1. {m} \X manifests[m] \subseteq Entries
      BY <2>1, <1>t DEF Entries, FilesTyped
    <3>2. held \in Held /\ held.list \subseteq Missions
      BY <2>1, <3>1, <1>t DEF Held
    <3>3. at' = [at EXCEPT ![c] = held]
      BY <2>2, <1>t
    <3>4. pc'[c] = "scan" /\ at'[c] = held
      BY <2>2, <3>3, <1>t
    <3>5. Equipped(c)'
      BY <2>1, <3>2, <3>4, <1>t DEF Equipped, Held
    <3>6. QED
      BY <2>2, <3>2, <3>3, <3>5, CallsTyped DEF Keeps, Steps
  <2>3. ASSUME at' = at, Goto(c, "next") PROVE TypeInv'
    <3>1. pc'[c] = "next" /\ at'[c] = at[c]
      BY <2>3, <1>t
    <3>2. Equipped(c)'
      BY <2>1, <3>1, <1>t DEF Equipped
    <3>3. QED
      BY <2>3, <3>2, CallsTyped DEF Keeps, Steps
  <2>4. QED
    BY <1>12, <2>2, <2>3 DEF ScanMission
<1>13. ASSUME NEW c \in Calls, RekeyOpens(c) PROVE TypeInv'
  <2>1. ASSUME NEW e \in at[c].todo, Opens(e, at[c].pass, at[c].salt), Goto(c, "reseal"),
               pc[c] = "next",
               at' = [at EXCEPT ![c].entry = e, ![c].blob = files[StorageFile(e)]]
        PROVE  TypeInv'
    <3> DEFINE held == [at[c] EXCEPT !.entry = e, !.blob = files[StorageFile(e)]]
    <3>1. e \in Entries /\ files[StorageFile(e)] \in Blob
      BY <2>1, <1>t DEF Held, Opens, StorageFile, FilesTyped
    <3>2. held \in Held
      BY <3>1, <1>t DEF Held
    <3>3. at' = [at EXCEPT ![c] = held]
      BY <2>1, <1>t
    <3>4. pc'[c] = "reseal" /\ at'[c] = held
      BY <2>1, <3>3, <1>t
    <3>5. at[c].pass \in Passphrases /\ at[c].new \in Passphrases
      BY <2>1, <1>t DEF Equipped
    <3>6. Equipped(c)'
      BY <3>1, <3>4, <3>5, <1>t DEF Equipped, Held
    <3>7. QED
      BY <2>1, <3>2, <3>3, <3>6, CallsTyped DEF Keeps, Steps
  <2>2. QED
    BY <1>13, <2>1, <1>o DEF RekeyOpens
<1>14. ASSUME NEW c \in Calls, Reseal(c) PROVE TypeInv'
  <2> DEFINE held == [at[c] EXCEPT !.todo = @ \ {at[c].entry}]
  <2>1. at' = [at EXCEPT ![c] = held] /\ Goto(c, "next") /\ pc[c] = "reseal"
    BY <1>14, <1>t DEF Reseal
  <2>2. held \in Held
    BY <1>t DEF Held
  <2>3. pc'[c] = "next" /\ at'[c] = held
    BY <2>1, <1>t
  <2>4. Equipped(c)'
    BY <2>1, <2>3, <1>t DEF Equipped, Held
  <2>5. QED
    BY <2>1, <2>2, <2>4, CallsTyped DEF Keeps, Steps
<1>15. CASE UNCHANGED <<at, pc>>
  BY <1>15, <1>t, FilesNext DEF TypeInv, TypeOK, FilesTyped, Equipped, Steps
<1>16. QED
  BY <1>1, <1>2, <1>3, <1>4, <1>5, <1>6, <1>7, <1>8, <1>9, <1>10, <1>11, <1>12, <1>13, <1>14,
     <1>15 DEF Next, Command, Mistype, vars

(* The vault's files stay well-formed, whatever overlaps and dies.         *)
THEOREM VaultTypeCorrect == Spec => []TypeOK
<1>1. TypeInv /\ [Next]_vars => TypeInv'
  BY TypeNext
<1>2. QED
  BY <1>1, TypeInit, PTL DEF Spec, TypeInv
-----------------------------------------------------------------------------
(* SerialInv holds at the start.                                           *)
LEMMA SerialInit == Init => SerialInv
<1> SUFFICES ASSUME Init PROVE SerialInv
  OBVIOUS
<1>1. TypeInv
  BY TypeInit
<1>2. Listed = {} /\ Working = {} /\ \A e \in Entries : files[e] = NoBlob
  BY Distinctions DEF Init, Listed, Working
<1>3. \A c \in Calls : pc[c] = "idle"
  BY DEF Init
<1>4. QED
  BY <1>1, <1>2, <1>3 DEF SerialInv, ListedAreThere, Sealed, PutTracks, RemoveTracks, RekeyTracks,
     Putting, Removing, Rekeying

(* One call at a time: a step is judged by what it does to its own call    *)
(* and to the files.                                                       *)
LEMMA Solo ==
  ASSUME SerialInv, serial, TypeInv', serial' = serial,
         NEW c \in Calls, c \in Working \/ Working = {},
         \A d \in Calls \ {c} : pc'[d] = pc[d],
         PutTracks(c)', RemoveTracks(c)', RekeyTracks(c)',
         \A e \in Entries : Sealed(e)', ListedAreThere'
  PROVE  SerialInv'
<1>1. \A d \in Calls \ {c} : pc'[d] \in {"idle", "over"}
  BY DEF SerialInv, Working
<1>2. ASSUME NEW d \in Calls \ {c} PROVE PutTracks(d)' /\ RemoveTracks(d)' /\ RekeyTracks(d)'
  BY <1>1 DEF PutTracks, RemoveTracks, RekeyTracks, Putting, Removing, Rekeying
<1>3. \A b, d \in Working' : b = d
  BY <1>1 DEF Working
<1>4. QED
  BY <1>1, <1>2, <1>3 DEF SerialInv

(* A step that ends its call without touching the files.                   *)
LEMMA EndsAlone ==
  ASSUME SerialInv, serial, TypeInv', serial' = serial,
         NEW c \in Calls, c \in Working \/ Working = {}, Over(c),
         \A e \in Entries : Sealed(e)', ListedAreThere'
  PROVE  SerialInv'
<1>1. pc'[c] = "over" /\ \A d \in Calls \ {c} : pc'[d] = pc[d]
  BY OverIsEquipped DEF SerialInv
<1>2. PutTracks(c)' /\ RemoveTracks(c)' /\ RekeyTracks(c)'
  BY <1>1 DEF PutTracks, RemoveTracks, RekeyTracks, Putting, Removing, Rekeying
<1>3. QED
  BY <1>1, <1>2, Solo

(* A step that leaves the files alone leaves them in order.                *)
LEMMA FilesAlone ==
  ASSUME SerialInv, serial, UNCHANGED <<salt, files, manifests, owner, stored, gone>>,
         clean' => clean
  PROVE  (\A e \in Entries : Sealed(e)') /\ ListedAreThere'
<1>1. \A e \in Entries : Sealed(e)'
  BY DEF SerialInv, Sealed
<1>2. ListedAreThere'
  BY DEF SerialInv, ListedAreThere, Listed
<1>3. QED
  BY <1>1, <1>2

(* Every step keeps SerialInv.                                             *)
LEMMA SerialNext ==
  ASSUME SerialInv, [Next]_vars
  PROVE  SerialInv'
<1>t. TypeInv /\ TypeInv'
  BY TypeNext DEF SerialInv
<1>s. serial' = serial
  BY DEF Next, Command, PutStarts, InitStarts, RemoveStarts, RekeyStarts, EnsureSalt, FreshSalt,
     ReadSalt, WriteEntry, ReadManifest, WriteManifest, RemoveFile, Unlist, ScanMission,
     RekeyOpens, Reseal, Mistype, Die, vars
<1>n. CASE ~serial
  BY <1>t, <1>s, <1>n DEF SerialInv
<1>p. SUFFICES ASSUME serial PROVE SerialInv'
  BY <1>n
<1>f. /\ pc \in [Calls -> Steps] /\ DOMAIN at = Calls
      /\ \A c \in Calls : at[c] \in Held /\ Equipped(c)
      /\ \A e \in Entries : files[e] \in Blob \union {NoBlob}
      /\ DOMAIN files = Entries /\ DOMAIN stored = Entries /\ DOMAIN manifests = Missions
      /\ clean \in BOOLEAN
  BY <1>t DEF TypeInv, TypeOK, Steps
<1>i. /\ \A c, d \in Working : c = d
      /\ \A e \in Entries : Sealed(e)
      /\ ListedAreThere
      /\ \A c \in Calls : PutTracks(c) /\ RemoveTracks(c) /\ RekeyTracks(c)
  BY <1>p DEF SerialInv
<1>w. \A c \in Calls : pc[c] \in Putting \union Removing \union Rekeying => c \in Working
  BY DEF Working, Putting, Removing, Rekeying
<1> USE <1>p, <1>s
<1> USE DEF Goto, Putting, Removing, Rekeying
<1>1. ASSUME NEW c \in Calls, NEW e \in Entries, NEW value \in Values, PutStarts(c, e, value)
      PROVE  SerialInv'
  <2>1. /\ pc'[c] = "ensure" /\ at'[c].pass = owner /\ Working = {}
        /\ \A d \in Calls \ {c} : pc'[d] = pc[d]
        /\ UNCHANGED <<salt, files, manifests, owner, stored, clean, gone>>
    BY <1>1, <1>f DEF PutStarts, MayStart, ghosts, Nothing
  <2>2. PutTracks(c)' /\ RemoveTracks(c)' /\ RekeyTracks(c)'
    BY <2>1 DEF PutTracks, RemoveTracks, RekeyTracks
  <2>3. QED
    BY <1>t, <2>1, <2>2, FilesAlone, Solo
<1>2. ASSUME NEW c \in Calls, InitStarts(c) PROVE SerialInv'
  <2>1. /\ pc'[c] = "ensure" /\ at[c] = Nothing /\ at' = at /\ Working = {}
        /\ \A d \in Calls \ {c} : pc'[d] = pc[d]
        /\ UNCHANGED <<salt, files, manifests, owner, stored, clean, gone>>
    BY <1>2, <1>f DEF InitStarts, MayStart, ghosts, Equipped
  <2>2. at'[c].entry = <<>>
    BY <2>1, NothingHeld
  <2>3. PutTracks(c)' /\ RemoveTracks(c)' /\ RekeyTracks(c)'
    BY <2>1, <2>2 DEF PutTracks, RemoveTracks, RekeyTracks
  <2>4. QED
    BY <1>t, <2>1, <2>3, FilesAlone, Solo
<1>3. ASSUME NEW c \in Calls, EnsureSalt(c) PROVE SerialInv'
  <2>1. /\ c \in Working /\ pc[c] = "ensure"
        /\ UNCHANGED <<salt, files, manifests, owner, stored, clean, gone>>
    BY <1>3, <1>w DEF EnsureSalt, ghosts
  <2>2. CASE Over(c)
    BY <1>t, <2>1, <2>2, FilesAlone, EndsAlone
  <2>3. ASSUME NEW l \in {"fresh", "salt"}, Goto(c, l), at' = at,
               l = "fresh" => salt = 0, l = "salt" => salt # 0
        PROVE  SerialInv'
    <3>1. pc'[c] = l /\ \A d \in Calls \ {c} : pc'[d] = pc[d]
      BY <2>3, <1>f
    <3>2. PutTracks(c)' /\ RemoveTracks(c)' /\ RekeyTracks(c)'
      BY <1>i, <2>1, <2>3, <3>1 DEF PutTracks, RemoveTracks, RekeyTracks
    <3>3. QED
      BY <1>t, <2>1, <3>1, <3>2, FilesAlone, Solo
  <2>4. QED
    BY <1>3, <2>2, <2>3 DEF EnsureSalt
<1>4. ASSUME NEW c \in Calls, FreshSalt(c) PROVE SerialInv'
  <2>1. /\ c \in Working /\ pc[c] = "fresh" /\ salt = 0 /\ salt' = salt + 1
        /\ UNCHANGED <<files, manifests, owner, stored, clean, gone>>
    BY <1>4, <1>w, <1>i DEF FreshSalt, ghosts, PutTracks
  <2>2. \A e \in Entries : files[e] = NoBlob
    BY <1>i, <2>1 DEF Sealed
  <2>3. (\A e \in Entries : Sealed(e)') /\ ListedAreThere'
    BY <1>i, <2>1, <2>2 DEF Sealed, ListedAreThere, Listed
  <2>4. CASE Over(c)
    BY <1>t, <2>1, <2>3, <2>4, EndsAlone
  <2>5. CASE Goto(c, "salt") /\ UNCHANGED at
    <3>1. pc'[c] = "salt" /\ \A d \in Calls \ {c} : pc'[d] = pc[d]
      BY <2>5, <1>f
    <3>2. salt' # 0
      BY <2>1
    <3>3. PutTracks(c)' /\ RemoveTracks(c)' /\ RekeyTracks(c)'
      BY <1>i, <2>1, <2>5, <3>1, <3>2 DEF PutTracks, RemoveTracks, RekeyTracks
    <3>4. QED
      BY <1>t, <2>1, <2>3, <3>1, <3>3, Solo
  <2>6. QED
    BY <1>4, <2>4, <2>5 DEF FreshSalt
<1>5. ASSUME NEW c \in Calls, ReadSalt(c) PROVE SerialInv'
  <2>1. /\ c \in Working /\ pc[c] = "salt" /\ pc'[c] = "seal"
        /\ at'[c].salt = salt /\ at'[c].pass = at[c].pass /\ at'[c].entry = at[c].entry
        /\ \A d \in Calls \ {c} : pc'[d] = pc[d]
        /\ UNCHANGED <<salt, files, manifests, owner, stored, clean, gone>>
    BY <1>5, <1>w, <1>f DEF ReadSalt, ghosts, Held
  <2>2. PutTracks(c)' /\ RemoveTracks(c)' /\ RekeyTracks(c)'
    BY <1>i, <2>1 DEF PutTracks, RemoveTracks, RekeyTracks
  <2>3. QED
    BY <1>t, <2>1, <2>2, FilesAlone, Solo
<1>6. ASSUME NEW c \in Calls, WriteEntry(c) PROVE SerialInv'
  <2> DEFINE e == at[c].entry
             blob == Seal(e, at[c].value, at[c].pass, at[c].salt)
  <2>1. /\ c \in Working /\ pc[c] = "seal" /\ pc'[c] = "list" /\ at' = at /\ e \in Entries
        /\ \A d \in Calls \ {c} : pc'[d] = pc[d]
        /\ UNCHANGED <<salt, manifests, owner, clean>> /\ gone' = gone \ {e}
    BY <1>6, <1>w, <1>f DEF WriteEntry, Equipped, HoldsEntry
  <2>2. /\ salt # 0 /\ at[c].salt = salt /\ at[c].pass = owner
    BY <1>i, <2>1, Distinctions DEF PutTracks
  <2>3. /\ files'[e] = blob /\ stored'[e] = at[c].value
        /\ \A x \in Entries \ {e} : files'[x] = files[x] /\ stored'[x] = stored[x]
    BY <1>6, <1>f, <2>1 DEF WriteEntry, StorageFile
  <2>4. /\ blob.value = at[c].value /\ blob.pass = owner /\ blob.salt = salt /\ blob.aad = e
        /\ blob # NoBlob
    BY <2>1, <2>2, Distinctions DEF Seal, NoBlob
  <2>5. \A x \in Entries : Sealed(x)'
    BY <1>i, <2>1, <2>2, <2>3, <2>4 DEF Sealed
  <2>6. ListedAreThere'
    BY <1>i, <2>1, <2>3, <2>4 DEF ListedAreThere, Listed
  <2>7. PutTracks(c)' /\ RemoveTracks(c)' /\ RekeyTracks(c)'
    BY <2>1, <2>2, <2>3, <2>4 DEF PutTracks, RemoveTracks, RekeyTracks
  <2>8. QED
    BY <1>t, <2>1, <2>5, <2>6, <2>7, Solo
<1>7. ASSUME NEW c \in Calls, ReadManifest(c) PROVE SerialInv'
  <2>1. /\ c \in Working /\ pc[c] = "list" /\ pc'[c] = "record"
        /\ at'[c].list = manifests[at[c].entry[1]] \union {at[c].entry[2]}
        /\ at'[c].pass = at[c].pass /\ at'[c].entry = at[c].entry
        /\ \A d \in Calls \ {c} : pc'[d] = pc[d]
        /\ UNCHANGED <<salt, files, manifests, owner, stored, clean, gone>>
    BY <1>7, <1>w, <1>f DEF ReadManifest, ghosts, Held
  <2>2. PutTracks(c)' /\ RemoveTracks(c)' /\ RekeyTracks(c)'
    BY <1>i, <2>1 DEF PutTracks, RemoveTracks, RekeyTracks
  <2>3. QED
    BY <1>t, <2>1, <2>2, FilesAlone, Solo
<1>8. ASSUME NEW c \in Calls, WriteManifest(c) PROVE SerialInv'
  <2> DEFINE e == at[c].entry
  <2>1. /\ c \in Working /\ pc[c] = "record" /\ Over(c) /\ e \in Entries
        /\ manifests' = [manifests EXCEPT ![e[1]] = at[c].list]
        /\ UNCHANGED <<salt, files, owner, stored, clean, gone>>
    BY <1>8, <1>w, <1>f DEF WriteManifest, ghosts, Equipped, HoldsEntry
  <2>2. /\ at[c].list = manifests[e[1]] \union {e[2]} /\ at[c].pass = owner
        /\ files[e] # NoBlob /\ files[e].pass = owner
    BY <1>i, <2>1, Distinctions DEF PutTracks
  <2>3. Listed' = Listed \union {e}
    <3>1. \A x \in Entries : x[2] \in manifests'[x[1]] <=> x[2] \in manifests[x[1]] \/ x = e
      BY <1>f, <2>1, <2>2, Distinctions
    <3>2. QED
      BY <2>1, <3>1 DEF Listed
  <2>4. (\A x \in Entries : Sealed(x)') /\ ListedAreThere'
    <3>1. \A x \in Entries : Sealed(x)'
      BY <1>i, <2>1 DEF Sealed
    <3>2. QED
      BY <1>i, <2>1, <2>2, <2>3, <3>1 DEF ListedAreThere
  <2>5. QED
    BY <1>t, <2>1, <2>4, EndsAlone
<1>9. ASSUME NEW c \in Calls, NEW e \in Entries, RemoveStarts(c, e) PROVE SerialInv'
  <2>1. Working = {} /\ UNCHANGED <<salt, files, manifests, owner, stored, clean, gone>>
    BY <1>9 DEF RemoveStarts, MayStart, ghosts
  <2>2. CASE Over(c)
    BY <1>t, <2>1, <2>2, FilesAlone, EndsAlone
  <2>3. CASE /\ at' = [at EXCEPT ![c] = [Nothing EXCEPT !.entry = e,
                                                        !.list = manifests[e[1]] \ {e[2]}]]
             /\ Goto(c, "rm")
    <3>1. /\ pc'[c] = "rm" /\ at'[c].entry = e /\ at'[c].list = manifests[e[1]] \ {e[2]}
          /\ \A d \in Calls \ {c} : pc'[d] = pc[d]
      BY <2>3, <1>f DEF Nothing
    <3>2. PutTracks(c)' /\ RemoveTracks(c)' /\ RekeyTracks(c)'
      BY <2>1, <3>1 DEF PutTracks, RemoveTracks, RekeyTracks
    <3>3. QED
      BY <1>t, <2>1, <3>1, <3>2, FilesAlone, Solo
  <2>4. QED
    BY <1>9, <2>2, <2>3 DEF RemoveStarts
<1>10. ASSUME NEW c \in Calls, RemoveFile(c) PROVE SerialInv'
  <2> DEFINE e == at[c].entry
  <2>1. /\ c \in Working /\ pc[c] = "rm" /\ pc'[c] = "unlist" /\ at' = at /\ e \in Entries
        /\ \A d \in Calls \ {c} : pc'[d] = pc[d]
        /\ UNCHANGED <<salt, manifests, owner, stored, clean>> /\ gone' = gone \union {e}
        /\ files'[e] = NoBlob /\ \A x \in Entries \ {e} : files'[x] = files[x]
    BY <1>10, <1>w, <1>f DEF RemoveFile, StorageFile, Equipped
  <2>2. \A x \in Entries : Sealed(x)'
    BY <1>i, <2>1 DEF Sealed
  <2>3. ListedAreThere'
    BY <1>i, <2>1 DEF ListedAreThere, Listed
  <2>4. PutTracks(c)' /\ RemoveTracks(c)' /\ RekeyTracks(c)'
    BY <1>i, <2>1 DEF PutTracks, RemoveTracks, RekeyTracks
  <2>5. QED
    BY <1>t, <2>1, <2>2, <2>3, <2>4, Solo
<1>11. ASSUME NEW c \in Calls, Unlist(c) PROVE SerialInv'
  <2> DEFINE e == at[c].entry
  <2>1. /\ c \in Working /\ pc[c] = "unlist" /\ Over(c) /\ e \in Entries
        /\ manifests' = [manifests EXCEPT ![e[1]] = at[c].list]
        /\ UNCHANGED <<salt, files, owner, stored, clean>> /\ gone' = gone \ {e}
    BY <1>11, <1>w, <1>f DEF Unlist, Equipped
  <2>2. at[c].list = manifests[e[1]] \ {e[2]}
    BY <1>i, <2>1 DEF RemoveTracks
  <2>3. Listed' = Listed \ {e}
    <3>1. \A x \in Entries : x[2] \in manifests'[x[1]] <=> x[2] \in manifests[x[1]] /\ x # e
      BY <1>f, <2>1, <2>2, Distinctions
    <3>2. QED
      BY <2>1, <3>1 DEF Listed
  <2>4. \A x \in Entries : Sealed(x)'
    BY <1>i, <2>1 DEF Sealed
  <2>5. ListedAreThere'
    BY <1>i, <2>1, <2>3 DEF ListedAreThere
  <2>6. QED
    BY <1>t, <2>1, <2>4, <2>5, EndsAlone
<1>12. ASSUME NEW c \in Calls, NEW new \in Passphrases, RekeyStarts(c, new) PROVE SerialInv'
  <2>1. Working = {} /\ UNCHANGED <<salt, files, manifests, owner, stored, gone>>
    BY <1>12 DEF RekeyStarts, MayStart
  <2>2. CASE Over(c) /\ UNCHANGED clean
    BY <1>t, <2>1, <2>2, FilesAlone, EndsAlone
  <2>3. CASE /\ salt # 0 /\ clean' = FALSE /\ Goto(c, "scan")
             /\ at' = [at EXCEPT ![c] = [Nothing EXCEPT !.pass = owner, !.new = new, !.salt = salt,
                                                        !.list = Missions]]
    <3>1. /\ pc'[c] = "scan" /\ at'[c].salt = salt /\ at'[c].list = Missions
          /\ \A d \in Calls \ {c} : pc'[d] = pc[d]
      BY <2>3, <1>f DEF Nothing
    <3>2. \A e \in Listed' : Rekeyed(c, e)'
      BY <3>1, Distinctions DEF Rekeyed, Listed
    <3>3. PutTracks(c)' /\ RemoveTracks(c)' /\ RekeyTracks(c)'
      BY <2>1, <2>3, <3>1, <3>2 DEF PutTracks, RemoveTracks, RekeyTracks
    <3>4. QED
      BY <1>t, <2>1, <2>3, <3>1, <3>3, FilesAlone, Solo
  <2>4. QED
    BY <1>12, <2>2, <2>3 DEF RekeyStarts
<1>13. ASSUME NEW c \in Calls, ScanMission(c) PROVE SerialInv'
  <2>1. /\ c \in Working /\ pc[c] = "scan"
        /\ UNCHANGED <<salt, files, manifests, owner, stored, clean, gone>>
    BY <1>13, <1>w DEF ScanMission, ghosts
  <2>2. /\ ~clean /\ salt # 0 /\ at[c].salt = salt
        /\ \A e \in Listed \ gone : e[1] \in at[c].list \/ e \in at[c].todo
                                    \/ files[e].pass = at[c].new
    BY <1>i, <2>1 DEF RekeyTracks, Rekeyed
  <2>3. ASSUME NEW m \in at[c].list, Goto(c, "scan"),
               at' = [at EXCEPT ![c].list = @ \ {m}, ![c].todo = @ \union ({m} \X manifests[m])]
        PROVE  SerialInv'
    <3>1. /\ pc'[c] = "scan" /\ \A d \in Calls \ {c} : pc'[d] = pc[d]
          /\ at'[c].list = at[c].list \ {m} /\ at'[c].new = at[c].new /\ at'[c].salt = at[c].salt
          /\ at'[c].todo = at[c].todo \union ({m} \X manifests[m])
      BY <2>3, <1>f DEF Held
    <3>2. \A e \in Listed : e[1] = m => e \in {m} \X manifests[m]
      BY Distinctions DEF Listed
    <3>3. \A e \in Listed \ gone : Rekeyed(c, e)'
      BY <2>1, <2>2, <3>1, <3>2 DEF Rekeyed
    <3>4. PutTracks(c)' /\ RemoveTracks(c)' /\ RekeyTracks(c)'
      BY <2>1, <2>2, <3>1, <3>3 DEF PutTracks, RemoveTracks, RekeyTracks, Listed
    <3>5. QED
      BY <1>t, <2>1, <3>1, <3>4, FilesAlone, Solo
  <2>4. ASSUME at[c].list = {}, at' = at, Goto(c, "next") PROVE SerialInv'
    <3>1. /\ pc'[c] = "next" /\ \A d \in Calls \ {c} : pc'[d] = pc[d]
      BY <2>4, <1>f
    <3>2. \A e \in Listed \ gone : Rekeyed(c, e)'
      BY <2>1, <2>2, <2>4, <3>1 DEF Rekeyed
    <3>3. PutTracks(c)' /\ RemoveTracks(c)' /\ RekeyTracks(c)'
      BY <2>1, <2>2, <2>4, <3>1, <3>2 DEF PutTracks, RemoveTracks, RekeyTracks, Listed
    <3>4. QED
      BY <1>t, <2>1, <3>1, <3>3, FilesAlone, Solo
  <2>5. QED
    BY <1>13, <2>3, <2>4 DEF ScanMission
<1>14. ASSUME NEW c \in Calls, RekeyOpens(c) PROVE SerialInv'
  <2>1. /\ c \in Working /\ pc[c] = "next"
        /\ UNCHANGED <<salt, files, manifests, stored, gone>>
    BY <1>14, <1>w DEF RekeyOpens
  <2>2. /\ ~clean /\ salt # 0 /\ at[c].salt = salt
        /\ \A e \in Listed \ gone : e \in at[c].todo \/ files[e].pass = at[c].new
    BY <1>i, <2>1 DEF RekeyTracks, Rekeyed
  <2>3. CASE at[c].todo = {} /\ owner' = at[c].new /\ clean' = TRUE /\ Over(c)
    <3>1. \A e \in Entries : Sealed(e)'
      BY <1>i, <2>1 DEF Sealed
    <3>2. ListedAreThere'
      BY <1>i, <2>1, <2>2, <2>3 DEF ListedAreThere, Listed
    <3>3. QED
      BY <1>t, <2>1, <2>3, <3>1, <3>2, EndsAlone
  <2>4. CASE UNCHANGED <<owner, clean>> /\ Over(c)
    BY <1>t, <2>1, <2>4, FilesAlone, EndsAlone
  <2>5. ASSUME NEW e \in at[c].todo, Opens(e, at[c].pass, at[c].salt), Goto(c, "reseal"),
               at' = [at EXCEPT ![c].entry = e, ![c].blob = files[StorageFile(e)]],
               UNCHANGED <<owner, clean>>
        PROVE  SerialInv'
    <3>1. /\ pc'[c] = "reseal" /\ \A d \in Calls \ {c} : pc'[d] = pc[d]
          /\ at'[c].entry = e /\ at'[c].blob = files[e] /\ at'[c].todo = at[c].todo
          /\ at'[c].new = at[c].new /\ at'[c].salt = at[c].salt
      BY <2>5, <1>f DEF Held, StorageFile
    <3>2. files[e] # NoBlob
      BY <2>5 DEF Opens, StorageFile
    <3>3. \A x \in Listed \ gone : Rekeyed(c, x)'
      BY <2>1, <2>2, <3>1 DEF Rekeyed
    <3>4. PutTracks(c)' /\ RemoveTracks(c)' /\ RekeyTracks(c)'
      BY <2>1, <2>2, <2>5, <3>1, <3>2, <3>3 DEF PutTracks, RemoveTracks, RekeyTracks, Listed
    <3>5. QED
      BY <1>t, <2>1, <2>5, <3>1, <3>4, FilesAlone, Solo
  <2>6. QED
    BY <1>14, <2>3, <2>4, <2>5 DEF RekeyOpens
<1>15. ASSUME NEW c \in Calls, Reseal(c) PROVE SerialInv'
  <2> DEFINE e == at[c].entry
             blob == Seal(e, at[c].blob.value, at[c].new, at[c].salt)
  <2>1. /\ c \in Working /\ pc[c] = "reseal" /\ pc'[c] = "next" /\ e \in Entries
        /\ \A d \in Calls \ {c} : pc'[d] = pc[d]
        /\ at'[c].todo = at[c].todo \ {e} /\ at'[c].new = at[c].new /\ at'[c].salt = at[c].salt
        /\ UNCHANGED <<salt, manifests, owner, stored, clean, gone>>
    BY <1>15, <1>w, <1>f DEF Reseal, Equipped, Held, ghosts
  <2>2. files'[e] = blob /\ \A x \in Entries \ {e} : files'[x] = files[x]
    BY <1>15, <1>f, <2>1 DEF Reseal, StorageFile
  <2>3. /\ ~clean /\ salt # 0 /\ at[c].salt = salt
        /\ \A x \in Listed \ gone : x \in at[c].todo \/ files[x].pass = at[c].new
        /\ files[e] # NoBlob /\ at[c].blob = files[e]
    BY <1>i, <2>1 DEF RekeyTracks, Rekeyed
  <2>4. /\ blob.value = stored[e] /\ blob.pass = at[c].new /\ blob.salt = salt /\ blob.aad = e
        /\ blob # NoBlob
    BY <1>i, <2>1, <2>3, Distinctions DEF Seal, NoBlob, Sealed
  <2>5. \A x \in Entries : Sealed(x)'
    BY <1>i, <2>1, <2>2, <2>3, <2>4 DEF Sealed
  <2>6. ListedAreThere'
    BY <1>i, <2>1, <2>2, <2>3, <2>4 DEF ListedAreThere, Listed
  <2>7. \A x \in Listed \ gone : Rekeyed(c, x)'
    BY <2>1, <2>2, <2>3, <2>4 DEF Rekeyed, Listed
  <2>8. PutTracks(c)' /\ RemoveTracks(c)' /\ RekeyTracks(c)'
    BY <2>1, <2>3, <2>7 DEF PutTracks, RemoveTracks, RekeyTracks, Listed
  <2>9. QED
    BY <1>t, <2>1, <2>5, <2>6, <2>8, Solo
<1>16. ASSUME NEW pass \in Passphrases, Mistype(pass) PROVE SerialInv'
  <2>1. /\ Working = {} /\ clean' = FALSE
        /\ UNCHANGED <<salt, files, manifests, stored, gone, pc, at>>
    BY <1>16 DEF Mistype
  <2>2. \A c \in Calls : pc[c] \in {"idle", "over"}
    BY <2>1 DEF Working
  <2>3. (\A e \in Entries : Sealed(e)') /\ ListedAreThere' /\ Working' = {}
    <3>1. \A e \in Entries : Sealed(e)'
      BY <1>i, <2>1 DEF Sealed
    <3>2. QED
      BY <1>i, <2>1, <3>1 DEF ListedAreThere, Listed, Working
  <2>4. \A c \in Calls : PutTracks(c)' /\ RemoveTracks(c)' /\ RekeyTracks(c)'
    BY <2>1, <2>2 DEF PutTracks, RemoveTracks, RekeyTracks
  <2>5. QED
    BY <1>t, <2>3, <2>4 DEF SerialInv
<1>17. ASSUME NEW c \in Calls, Die(c) PROVE SerialInv'
  <2>1. /\ c \in Working /\ Over(c)
        /\ UNCHANGED <<salt, files, manifests, owner, stored, clean, gone>>
    BY <1>17 DEF Die, ghosts
  <2>2. QED
    BY <1>t, <2>1, FilesAlone, EndsAlone
<1>18. CASE UNCHANGED vars
  BY <1>t, <1>i, <1>18 DEF SerialInv, vars, Working, Sealed, ListedAreThere, Listed, PutTracks,
     RemoveTracks, RekeyTracks, Rekeyed
<1>19. QED
  BY <1>1, <1>2, <1>3, <1>4, <1>5, <1>6, <1>7, <1>8, <1>9, <1>10, <1>11, <1>12, <1>13, <1>14,
     <1>15, <1>16, <1>17, <1>18 DEF Next, Command

(* SerialInv holds whenever a command ends before the next begins.         *)
LEMMA SerialInvariant == Spec => []SerialInv
<1>1. SerialInv /\ [Next]_vars => SerialInv'
  BY SerialNext
<1>2. QED
  BY <1>1, SerialInit, PTL DEF Spec

(* Commands that do not overlap, any of them dying anywhere: every listed  *)
(* entry still yields the last secret put under its own name.              *)
THEOREM EntriesAlwaysOpen == Spec => []ListedOpens
<1>1. ASSUME SerialInv PROVE ListedOpens
  <2> SUFFICES ASSUME serial, AtRest, NEW e \in Listed \ gone
               PROVE  \E pass \in Passphrases : Get(e, pass) = stored[e]
    BY DEF ListedOpens
  <2>1. e \in Entries /\ files[e] # NoBlob /\ Sealed(e)
    BY <1>1 DEF SerialInv, ListedAreThere, Listed
  <2>2. files[e].pass \in Passphrases
    BY <1>1, <2>1 DEF SerialInv, TypeInv, TypeOK, Blob
  <2>3. Get(e, files[e].pass) = stored[e]
    BY <2>1 DEF Get, Opens, StorageFile, Sealed
  <2>4. QED
    BY <2>2, <2>3
<1>2. QED
  BY <1>1, SerialInvariant, PTL

(* Commands that do not overlap: until a re-key fails, dies or is          *)
(* bypassed, every listed entry opens with the owner's passphrase.         *)
THEOREM RekeysAreTotal == Spec => []RekeyIsTotal
<1>1. ASSUME SerialInv PROVE RekeyIsTotal
  <2> SUFFICES ASSUME serial, AtRest, clean, NEW e \in Listed \ gone
               PROVE  Get(e, owner) # "error"
    BY DEF RekeyIsTotal
  <2>1. e \in Entries /\ files[e] # NoBlob /\ files[e].pass = owner /\ Sealed(e)
    BY <1>1 DEF SerialInv, ListedAreThere, Listed
  <2>2. files[e].value \in Values
    BY <1>1, <2>1 DEF SerialInv, TypeInv, TypeOK, Blob
  <2>3. Get(e, owner) = files[e].value
    BY <2>1 DEF Get, Opens, StorageFile, Sealed
  <2>4. QED
    BY <2>2, <2>3, VaultAssumption
<1>2. QED
  BY <1>1, SerialInvariant, PTL
=============================================================================
