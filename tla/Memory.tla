------------------------------- MODULE Memory -------------------------------
(***************************************************************************)
(* The governed memory of the workspace (src/memory): items and proposals  *)
(* are append-only files of revisions, of which the latest by updated_at   *)
(* counts.  A proposal is approved or rejected by the user; an item is     *)
(* written by an approval or imported, once, from the files an earlier     *)
(* release kept.  Every command begins with that import.                   *)
(*                                                                         *)
(* A call reads the revisions in one step and appends to them in another,  *)
(* so two processes can both act on what both have read.  The clock may    *)
(* stand still between two appends (its resolution is a millisecond) but   *)
(* not run backwards.                                                      *)
(***************************************************************************)
EXTENDS Naturals, FiniteSets, SequencesExt

CONSTANTS
  Calls,          \* commands and chat turns
  OldItems,       \* approved memories of the earlier release
  OldProposals,   \* its pending ones
  MaxOverlap,     \* bound: how many calls are made when they interleave
  MaxTicks,       \* bound: how often the clock advances
  MaxSkips,       \* bound: lines an import skips
  MaxThrows,      \* bound: calls that end broken before one more throws
  MaxDeaths       \* bound: processes that die

VARIABLES
  items,          \* items.jsonl: revisions, in file order
  proposals,      \* proposals.jsonl: revisions, in file order
  migrated,       \* the flag file of the import exists
  skipped,        \* history: the lines some import gave up
  storage,        \* policy memory_storage
  blocks,         \* policy memory_sensitive_behavior is block
  clock,
  pc, at,         \* per call: what it does next, and what it holds
  serial,         \* one call ends before the next begins
  deaths

memory == <<items, proposals, migrated>>
memoryVars == <<memory, skipped, storage, blocks, clock, pc, at, serial, deaths>>

(* The rows as far as they are told apart here; a proposal from a chat     *)
(* turn has the turn's name, the item of an approval the approver's too.   *)
ProposalIds == Calls \union OldProposals
ItemIds == OldItems \union (ProposalIds \X Calls)

(* Nothing new has the name of something old: ids are random (ids.ts).     *)
ASSUME MemoryAssumption ==
  /\ MaxOverlap \in Nat /\ MaxTicks \in Nat /\ MaxDeaths \in Nat
  /\ MaxSkips \in Nat /\ MaxThrows \in Nat
  /\ OldItems \intersect (ProposalIds \X Calls) = {}
  /\ OldProposals \intersect Calls = {} /\ "old" \notin ProposalIds

Item == [id : ItemIds, at : Nat, status : {"active", "revoked"},
         scope : {"user", "relationship"}, of : ProposalIds \union {"old"}]
Proposal == [id : ProposalIds, at : Nat, status : {"pending", "approved", "rejected"},
             scope : {"relationship"}, sensitive : BOOLEAN]

Nothing == [job |-> "none", todo |-> {}, prev |-> <<>>, row |-> 0, offer |-> {}]

InitMemory ==
  /\ items = <<>> /\ proposals = <<>>
  /\ migrated = FALSE /\ skipped = {}
  /\ storage \in {"off", "balanced"} /\ blocks \in BOOLEAN
  /\ clock = 1
  /\ pc = [c \in Calls |-> "idle"]
  /\ at = [c \in Calls |-> Nothing]
  /\ serial \in BOOLEAN
  /\ deaths = 0

(* A call that is over returned; a broken one threw or died on the way.    *)
InFlight == {c \in Calls : pc[c] \notin {"idle", "over", "broken"}}
Issued == {c \in Calls : pc[c] # "idle"}
MayStart(c) ==
  /\ pc[c] = "idle"
  /\ IF serial THEN InFlight = {} ELSE Cardinality(Issued) < MaxOverlap

Goto(c, step) == pc' = [pc EXCEPT ![c] = step]
End(c) == Goto(c, "over") /\ at' = [at EXCEPT ![c] = Nothing]

(* mergeLatestMemoryItems, mergeLatestProposals: the latest revision of an *)
(* id; of two with the same time, the later line.                          *)
Latest(rows, id) ==
  LET mine == {i \in DOMAIN rows : rows[i].id = id}
      newest == {i \in mine : \A j \in mine : rows[j].at <= rows[i].at}
  IN rows[CHOOSE i \in newest : \A j \in newest : j <= i]

Ids(rows) == {rows[i].id : i \in DOMAIN rows}

(* isMemoryItemVisible, without expiry dates.                              *)
Visible == {id \in Ids(items) : Latest(items, id).status = "active"}

(* allowedScopesForStorage.                                                *)
Scopes ==
  CASE storage = "off" -> {}
    [] storage = "minimal" -> {"user", "relationship"}
    [] OTHER -> {"user", "relationship", "workspace", "mission"}

-----------------------------------------------------------------------------
(* maybeMigrateFromCompanionLegacy: unless the flag file exists, collect   *)
(* the ids already present, append the others line by line, with the time  *)
(* of the old line, the items before the proposals, then write the flag.   *)
OldLines == ({"item"} \X OldItems) \union ({"proposal"} \X OldProposals)

StillMissing ==
  {l \in OldLines : l[2] \notin IF l[1] = "item" THEN Ids(items) ELSE Ids(proposals)}

Enter(c, job) ==
  /\ MayStart(c)
  /\ Goto(c, IF migrated THEN "read" ELSE "import")
  /\ at' = [at EXCEPT ![c] = [Nothing EXCEPT !.job = job,
                              !.todo = IF migrated THEN {} ELSE StillMissing]]

ImportLine_asNew(c) ==
  /\ pc[c] = "import"
  /\ \E l \in at[c].todo :
       /\ IF l[1] = "item"
          THEN /\ items' = Append(items, [id |-> l[2], at |-> clock, status |-> "active",
                                          scope |-> "user", of |-> "old"])
               /\ UNCHANGED proposals
          ELSE /\ at[c].todo \subseteq {"proposal"} \X OldProposals
               /\ proposals' = Append(proposals, [id |-> l[2], at |-> clock, status |-> "pending",
                                                  scope |-> "relationship", sensitive |-> FALSE])
               /\ UNCHANGED items
       /\ at' = [at EXCEPT ![c].todo = @ \ {l}]
  /\ UNCHANGED <<migrated, skipped, storage, blocks, clock, pc, serial, deaths>>

ImportLine(c) ==
  /\ pc[c] = "import"
  /\ \E l \in at[c].todo :
       /\ IF l[1] = "item"
          THEN /\ items' = Append(items, [id |-> l[2], at |-> 0, status |-> "active",
                                          scope |-> "user", of |-> "old"])
               /\ UNCHANGED proposals
          ELSE /\ at[c].todo \subseteq {"proposal"} \X OldProposals
               /\ proposals' = Append(proposals, [id |-> l[2], at |-> 0, status |-> "pending",
                                                  scope |-> "relationship", sensitive |-> FALSE])
               /\ UNCHANGED items
       /\ at' = [at EXCEPT ![c].todo = @ \ {l}]
  /\ UNCHANGED <<migrated, skipped, storage, blocks, clock, pc, serial, deaths>>

(* A line that is not a memory, or whose append fails, is skipped without  *)
(* a word, and so are all the lines of a file that cannot be read.         *)
SkipLine(c) ==
  /\ pc[c] = "import" /\ Cardinality(skipped) < MaxSkips
  /\ \E l \in at[c].todo :
       /\ l[1] = "proposal" => at[c].todo \subseteq {"proposal"} \X OldProposals
       /\ skipped' = skipped \cup {l}
       /\ at' = [at EXCEPT ![c].todo = @ \ {l}]
  /\ UNCHANGED <<memory, storage, blocks, clock, pc, serial, deaths>>

Imported_flagsFirst(c) ==
  /\ pc[c] = "import"
  /\ migrated' = TRUE
  /\ IF at[c].todo = {} THEN Goto(c, "read") ELSE UNCHANGED pc
  /\ UNCHANGED <<items, proposals, skipped, storage, blocks, clock, at, serial, deaths>>

Imported(c) ==
  /\ pc[c] = "import" /\ at[c].todo = {}
  /\ migrated' = TRUE
  /\ Goto(c, "read")
  /\ UNCHANGED <<items, proposals, skipped, storage, blocks, clock, at, serial, deaths>>
-----------------------------------------------------------------------------
(* The three commands on what is stored.  memory approve returns without a *)
(* word for a proposal that is not pending, or sensitive and blocked.      *)
ApproveRead(c) ==
  /\ pc[c] = "read" /\ at[c].job = "approve"
  /\ \E id \in Ids(proposals) :
       LET p == Latest(proposals, id)
       IN IF p.status = "pending" /\ ~(p.sensitive /\ blocks)
          THEN Goto(c, "approved") /\ at' = [at EXCEPT ![c].prev = <<p>>]
          ELSE End(c)
  /\ UNCHANGED <<memory, skipped, storage, blocks, clock, serial, deaths>>

NewItem(c) ==
  LET p == at[c].prev[1]
  IN [id |-> <<p.id, c>>, at |-> clock, status |-> "active", scope |-> p.scope, of |-> p.id]

ApprovedRow(c) == [at[c].prev[1] EXCEPT !.at = clock, !.status = "approved"]

AppendApproved_after(c) ==
  /\ pc[c] \in {"approved", "item"}
  /\ IF pc[c] = "approved"
     THEN /\ IF at[c].prev[1].scope \in Scopes
             THEN items' = Append(items, NewItem(c)) /\ Goto(c, "item") /\ UNCHANGED at
             ELSE End(c) /\ UNCHANGED items
          /\ UNCHANGED proposals
     ELSE proposals' = Append(proposals, ApprovedRow(c)) /\ End(c) /\ UNCHANGED items
  /\ UNCHANGED <<migrated, skipped, storage, blocks, clock, serial, deaths>>

(* The approved row first, then appendMemoryItem, which throws when the    *)
(* policy keeps no item of this scope: the proposal stays approved.        *)
AppendApproved(c) ==
  /\ pc[c] = "approved"
  /\ proposals' = Append(proposals, ApprovedRow(c))
  /\ IF at[c].prev[1].scope \in Scopes THEN Goto(c, "item") /\ UNCHANGED at ELSE End(c)
  /\ UNCHANGED <<items, migrated, skipped, storage, blocks, clock, serial, deaths>>

AppendItem(c) ==
  /\ pc[c] = "item"
  /\ items' = Append(items, NewItem(c))
  /\ End(c)
  /\ UNCHANGED <<proposals, migrated, skipped, storage, blocks, clock, serial, deaths>>

RejectRead(c) ==
  /\ pc[c] = "read" /\ at[c].job = "reject"
  /\ \E id \in Ids(proposals) :
       IF Latest(proposals, id).status = "pending"
       THEN /\ Goto(c, "rejected")
            /\ at' = [at EXCEPT ![c].prev = <<Latest(proposals, id)>>]
       ELSE End(c)
  /\ UNCHANGED <<memory, skipped, storage, blocks, clock, serial, deaths>>

AppendRejected(c) ==
  /\ pc[c] = "rejected"
  /\ proposals' = Append(proposals, [at[c].prev[1] EXCEPT !.at = clock, !.status = "rejected"])
  /\ End(c)
  /\ UNCHANGED <<items, migrated, skipped, storage, blocks, clock, serial, deaths>>

(* memory delete: revokeMemoryItem appends a tombstone for a visible item. *)
RevokeRead(c) ==
  /\ pc[c] = "read" /\ at[c].job = "revoke"
  /\ \E id \in Ids(items) :
       IF id \in Visible
       THEN Goto(c, "revoked") /\ at' = [at EXCEPT ![c].prev = <<Latest(items, id)>>]
       ELSE End(c)
  /\ UNCHANGED <<memory, skipped, storage, blocks, clock, serial, deaths>>

AppendRevoked(c) ==
  /\ pc[c] = "revoked"
  /\ items' = Append(items, [at[c].prev[1] EXCEPT !.at = clock, !.status = "revoked"])
  /\ End(c)
  /\ UNCHANGED <<proposals, migrated, skipped, storage, blocks, clock, serial, deaths>>

(* A command that finds nothing to act on, or only lists or exports, ends. *)
JustRead(c) ==
  /\ pc[c] = "read" /\ at[c].job \in {"approve", "reject", "revoke"}
  /\ End(c)
  /\ UNCHANGED <<memory, skipped, storage, blocks, clock, serial, deaths>>

Tick ==
  /\ clock <= MaxTicks
  /\ clock' = clock + 1
  /\ UNCHANGED <<memory, skipped, storage, blocks, pc, at, serial, deaths>>

(* The user turns memory_storage off.                                      *)
EditStorage ==
  /\ storage # "off" /\ InFlight = {}
  /\ storage' = "off"
  /\ UNCHANGED <<memory, skipped, blocks, clock, pc, at, serial, deaths>>

StartCommand(c) ==
  /\ \E job \in {"approve", "reject", "revoke"} : Enter(c, job)
  /\ UNCHANGED <<memory, skipped, storage, blocks, clock, serial, deaths>>

NextMemory ==
  \/ \E c \in Calls :
       \/ StartCommand(c) \/ ImportLine(c) \/ SkipLine(c) \/ Imported(c) \/ JustRead(c)
       \/ ApproveRead(c) \/ AppendApproved(c) \/ AppendItem(c)
       \/ RejectRead(c) \/ AppendRejected(c) \/ RevokeRead(c) \/ AppendRevoked(c)
  \/ Tick \/ EditStorage
-----------------------------------------------------------------------------
(* A deleted item stays deleted: no later import by another process, and   *)
(* no other append, brings it back (store.ts:43, migrate.ts:77).           *)
RevokedStaysRevoked ==
  \A i \in DOMAIN items : items[i].status = "revoked" => items[i].id \notin Visible

(* Once the flag is written the memories of the earlier release are there, *)
(* though imports may overlap and die on the way, but for the lines an     *)
(* import skipped: those are lost for good.                                *)
MigrationComplete == migrated => StillMissing \subseteq skipped

(* One command at a time, an approval leaves at most one item, and none is *)
(* written before the approval is, wherever a process dies.                *)
OneItemPerApproval ==
  serial => \A p \in Ids(proposals) :
    /\ Cardinality({id \in Ids(items) : Latest(items, id).of = p}) <= 1
    /\ (\E id \in Ids(items) : Latest(items, id).of = p) => Latest(proposals, p).status = "approved"
=============================================================================
