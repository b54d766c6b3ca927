--------------------------- MODULE CompanionProofs ---------------------------
(***************************************************************************)
(* Theorems about the governed memory under the companion, for every set   *)
(* of commands and turns, of old memories and of deaths, and, at the end,  *)
(* about the companion's reminders, for every number of reminders, ticks   *)
(* and crashes.  Except for their types, the reminders assume Serial:      *)
(* nobody reads their file while somebody else is about to write it.       *)
(***************************************************************************)
EXTENDS Companion, Reminders, SequenceTheorems, FiniteSetTheorems, WellFoundedInduction, TLAPS

Less == {p \in Nat \X Nat : p[1] < p[2]}

(* The naturals have no infinite descent.                                  *)
LEMMA LessWF == IsWellFoundedOn(Less, Nat)
<1>1. OpToRel(<, Nat) = Less
  BY Zenon DEF OpToRel, Less
<1> QED BY <1>1, NatLessThanWellFounded, Zenon

(* A bounded set of naturals with a member has a greatest one.             *)
LEMMA Highest ==
  ASSUME NEW T, T \subseteq Nat, NEW b \in Nat, \A t \in T : t <= b, T # {}
  PROVE  \E m \in T : \A t \in T : t <= m
<1> DEFINE U == {b - t : t \in T}
<1>1. U \subseteq Nat /\ U # {}
  <2>1. \A t \in T : b - t \in Nat
    OBVIOUS
  <2>2. PICK t \in T : TRUE
    OBVIOUS
  <2> QED BY <2>1, <2>2
<1>2. PICK x \in U : \A y \in U : ~(<<y, x>> \in Less)
  <2> HIDE DEF U
  <2> QED BY <1>1, LessWF, WFMin
<1>3. PICK m \in T : x = b - m
  BY <1>2
<1>4. \A t \in T : b - t \in Nat /\ ~(b - t < b - m)
  BY <1>1, <1>2, <1>3 DEF Less
<1>5. \A t \in T : t <= m
  BY <1>4
<1> QED BY <1>3, <1>5

(* What a line appended to a file changes.                                 *)
LEMMA Appended ==
  ASSUME NEW R, NEW rows \in Seq(R), NEW row \in R, NEW new, new = Append(rows, row)
  PROVE  /\ new \in Seq(R)
         /\ \A i \in DOMAIN rows : i \in DOMAIN new /\ new[i] = rows[i] /\ i < Len(rows) + 1
         /\ \A i \in DOMAIN new : \/ i \in DOMAIN rows /\ new[i] = rows[i]
                                  \/ i = Len(rows) + 1 /\ new[i] = row
         /\ Len(rows) + 1 \in DOMAIN new /\ new[Len(rows) + 1] = row
  OBVIOUS

(* The latest revision is one of the id's rows, and no other is newer.     *)
LEMMA LatestRow ==
  ASSUME NEW R, NEW rows \in Seq(R), NEW b \in Nat,
         \A i \in DOMAIN rows : rows[i].at \in Nat /\ rows[i].at <= b,
         NEW id \in Ids(rows)
  PROVE  \E k \in DOMAIN rows :
           /\ Latest(rows, id) = rows[k] /\ rows[k].id = id
           /\ \A j \in DOMAIN rows : rows[j].id = id =>
                rows[j].at < rows[k].at \/ (rows[j].at = rows[k].at /\ j <= k)
<1> DEFINE mine == {i \in DOMAIN rows : rows[i].id = id}
           times == {rows[i].at : i \in mine}
           newest == {i \in mine : \A j \in mine : rows[j].at <= rows[i].at}
           k == CHOOSE i \in newest : \A j \in newest : j <= i
<1>1. mine # {} /\ mine \subseteq 1..Len(rows) /\ Len(rows) \in Nat
  BY DEF Ids
<1>2. PICK m \in times : \A t \in times : t <= m
  <2>1. times # {} /\ times \subseteq Nat /\ \A t \in times : t <= b
    BY <1>1
  <2> HIDE DEF times
  <2> QED BY <2>1, Highest
<1>3. newest # {}
  BY <1>2
<1>4. newest \subseteq Nat /\ \A i \in newest : i <= Len(rows)
  BY <1>1
<1>5. \E i \in newest : \A j \in newest : j <= i
  <2> HIDE DEF newest
  <2> QED BY <1>1, <1>3, <1>4, Highest
<1>6. k \in newest /\ \A j \in newest : j <= k
  <2> HIDE DEF newest
  <2> QED BY <1>5
<1>7. Latest(rows, id) = rows[k]
  BY DEF Latest
<1>8. k \in mine /\ \A j \in mine : rows[j].at <= rows[k].at
  <2> HIDE DEF mine, k
  <2> QED BY <1>6
<1>9. ASSUME NEW j \in mine, ~(rows[j].at < rows[k].at)
      PROVE  rows[j].at = rows[k].at /\ j <= k
  <2> HIDE DEF k
  <2>1. k \in DOMAIN rows /\ j \in DOMAIN rows
    BY <1>8
  <2>2. rows[j].at = rows[k].at
    BY <1>8, <1>9, <2>1
  <2>3. j \in newest
    BY <1>8, <2>2
  <2> QED BY <1>6, <2>2, <2>3
<1> HIDE DEF k
<1> QED BY <1>7, <1>8, <1>9
-----------------------------------------------------------------------------
Fields == {"job", "todo", "prev", "row", "offer"}
Shaped == DOMAIN at = Calls /\ DOMAIN pc = Calls /\ \A c \in Calls : DOMAIN at[c] = Fields

(* How one call moves in a step: it stands, or it is its own action that   *)
(* brings it to where it appends to a file.                                *)
Stands(d) == pc'[d] = pc[d] /\ at'[d] = at[d]

Advanced(d) ==
  /\ pc[d] = "over" => pc'[d] = "over"
  /\ pc'[d] = "revoked" => Stands(d) \/ RevokeRead(d)
  /\ pc'[d] = "approved" => Stands(d) \/ ApproveRead(d)
  /\ pc'[d] = "item" => Stands(d) \/ AppendApproved(d)
  /\ pc'[d] = "rejected" => Stands(d) \/ RejectRead(d)
  /\ pc'[d] = "import" => \/ Stands(d) \/ ImportLine(d) \/ SkipLine(d)
                          \/ at'[d].todo = StillMissing /\ UNCHANGED memory

Touched ==
  /\ Shaped' /\ \A d \in Calls : Advanced(d)
  /\ items' = items \/ \E c \in Calls : ImportLine(c) \/ AppendItem(c) \/ AppendRevoked(c)
  /\ proposals' = proposals \/
       \E c \in Calls : ImportLine(c) \/ AppendApproved(c) \/ AppendRejected(c) \/ Remember(c)
  /\ migrated' = migrated \/ \E c \in Calls : Imported(c)
  /\ clock' \in Nat /\ clock <= clock'
  /\ skipped \subseteq skipped'

(* Every step touches the files as Touched says.                           *)
LEMMA StepTouches == Shaped /\ clock \in Nat /\ [Next]_vars => Touched
<1> SUFFICES ASSUME Shaped, clock \in Nat, [Next]_vars PROVE Touched
  OBVIOUS
<1>0. DOMAIN Nothing = Fields
  BY DEF Nothing, Fields
<1> USE <1>0 DEF Shaped, Touched, Advanced, Stands, Goto, memory
<1>1. ASSUME NEW c \in Calls, StartCommand(c) PROVE Touched
  <2>1. PICK job : Enter(c, job)
    BY <1>1 DEF StartCommand
  <2>2. UNCHANGED <<memory, skipped, clock>>
    BY <1>1 DEF StartCommand
  <2> DEFINE todo == IF migrated THEN {} ELSE StillMissing
             row == [Nothing EXCEPT !.job = job, !.todo = todo]
             step == IF migrated THEN "read" ELSE "import"
  <2>3. pc[c] = "idle" /\ pc' = [pc EXCEPT ![c] = step] /\ at' = [at EXCEPT ![c] = row]
    BY <2>1 DEF Enter, MayStart
  <2>4. DOMAIN row = Fields /\ row.todo = todo
    BY DEF Fields, Nothing
  <2>5. (step = "import" /\ todo = StillMissing) \/ step = "read"
    OBVIOUS
  <2> HIDE DEF row, step, todo
  <2> QED BY <2>2, <2>3, <2>4, <2>5
<1>2. ASSUME NEW c \in Calls, ImportLine(c) PROVE Touched
  <2>1. PICK row : at' = [at EXCEPT ![c] = row] /\ DOMAIN row = Fields
    <3>1. PICK l \in at[c].todo : at' = [at EXCEPT ![c] = [at[c] EXCEPT !.todo = @ \ {l}]]
      BY <1>2 DEF ImportLine
    <3>2. DOMAIN [at[c] EXCEPT !.todo = @ \ {l}] = Fields
      OBVIOUS
    <3> QED BY <3>1, <3>2
  <2>2. UNCHANGED <<migrated, skipped, clock, pc>> /\ pc[c] = "import"
    BY <1>2 DEF ImportLine
  <2>3. Shaped' /\ \A d \in Calls : Advanced(d)
    BY <1>2, <2>1, <2>2
  <2> HIDE DEF Shaped, Advanced
  <2> QED BY <1>2, <2>1, <2>2, <2>3
<1>3. ASSUME NEW c \in Calls, Imported(c) PROVE Touched
  <2>1. UNCHANGED <<items, proposals, skipped, clock, at>> /\ pc[c] = "import" /\ Goto(c, "read")
    BY <1>3 DEF Imported
  <2>3. Shaped' /\ \A d \in Calls : Advanced(d)
    BY <1>3, <2>1
  <2> HIDE DEF Shaped, Advanced
  <2> QED BY <1>3, <2>1, <2>3
<1>4. ASSUME NEW c \in Calls, JustRead(c) PROVE Touched
  BY <1>4 DEF JustRead, End
<1>5. ASSUME NEW c \in Calls, ApproveRead(c) PROVE Touched
  BY <1>5 DEF ApproveRead, End
<1>6. ASSUME NEW c \in Calls, AppendApproved(c) PROVE Touched
  BY <1>6 DEF AppendApproved, End
<1>7. ASSUME NEW c \in Calls, AppendItem(c) PROVE Touched
  <2>1. UNCHANGED <<proposals, migrated, skipped, clock>> /\ End(c)
    BY <1>7 DEF AppendItem
  <2> QED BY <1>7, <2>1 DEF End
<1>8. ASSUME NEW c \in Calls, RejectRead(c) PROVE Touched
  BY <1>8 DEF RejectRead, End
<1>9. ASSUME NEW c \in Calls, AppendRejected(c) PROVE Touched
  <2>1. UNCHANGED <<items, migrated, skipped, clock>> /\ End(c)
    BY <1>9 DEF AppendRejected
  <2> QED BY <1>9, <2>1 DEF End
<1>10. ASSUME NEW c \in Calls, RevokeRead(c) PROVE Touched
  BY <1>10 DEF RevokeRead, End
<1>11. ASSUME NEW c \in Calls, AppendRevoked(c) PROVE Touched
  <2>1. UNCHANGED <<proposals, migrated, skipped, clock>> /\ End(c)
    BY <1>11 DEF AppendRevoked
  <2> QED BY <1>11, <2>1 DEF End
<1>12. ASSUME NEW c \in Calls, ChatStarts(c) PROVE Touched
  <2> DEFINE row == [Nothing EXCEPT !.job = "chat"]
  <2>1. UNCHANGED <<memory, skipped, clock>> /\ pc[c] = "idle" /\ Goto(c, "host")
        /\ at' = [at EXCEPT ![c] = row]
    BY <1>12 DEF ChatStarts, MayStart
  <2>2. DOMAIN row = Fields
    BY DEF Fields, Nothing
  <2> HIDE DEF row
  <2> QED BY <2>1, <2>2
<1>13. ASSUME NEW c \in Calls, AcceptStarts(c) PROVE Touched
  <2> DEFINE row == [Nothing EXCEPT !.job = "accept", !.prev = suggestions,
                                  !.row = Max(Proposed(suggestions))]
  <2>1. /\ UNCHANGED <<memory, skipped, clock>> /\ pc[c] = "idle" /\ \E s \in {"over", "accept"} : Goto(c, s)
        /\ at' = at \/ at' = [at EXCEPT ![c] = row]
    BY <1>13 DEF AcceptStarts, MayStart
  <2>2. DOMAIN row = Fields
    BY DEF Fields, Nothing
  <2> HIDE DEF row
  <2> QED BY <2>1, <2>2
<1>14. ASSUME NEW c \in Calls, ReadHost(c) PROVE Touched
  BY <1>14 DEF ReadHost, End
<1>15. ASSUME NEW c \in Calls, CreateHost(c) PROVE Touched
  BY <1>15 DEF CreateHost, End
<1>16. ASSUME NEW c \in Calls, WriteMeta(c) PROVE Touched
  BY <1>16 DEF WriteMeta, End
<1>17. ASSUME NEW c \in Calls, Recall(c) PROVE Touched
  BY <1>17 DEF Recall, End
<1>18. ASSUME NEW c \in Calls, Answers(c) PROVE Touched
  BY <1>18 DEF Answers, End
<1>19. ASSUME NEW c \in Calls, Suggest(c) PROVE Touched
  BY <1>19 DEF Suggest, End
<1>20. ASSUME NEW c \in Calls, Remember(c) PROVE Touched
  <2>1. UNCHANGED <<items, migrated, skipped, clock, at>> /\ pc[c] = "remember" /\ Goto(c, "reply")
    BY <1>20 DEF Remember
  <2>3. Shaped' /\ \A d \in Calls : Advanced(d)
    BY <1>20, <2>1
  <2> HIDE DEF Shaped, Advanced
  <2> QED BY <1>20, <2>1, <2>3
<1>21. ASSUME NEW c \in Calls, Reply(c) PROVE Touched
  BY <1>21 DEF Reply, End
<1>22. ASSUME NEW c \in Calls, MakeMission(c) PROVE Touched
  BY <1>22 DEF MakeMission, End
<1>23. ASSUME NEW c \in Calls, Rewrite(c) PROVE Touched
  BY <1>23 DEF Rewrite, End
<1>24. ASSUME NEW c \in Calls, Die(c) PROVE Touched
  <2>1. UNCHANGED <<items, proposals, migrated, skipped, clock>> /\ Break(c)
        /\ pc[c] \notin {"over", "broken"}
    BY <1>24 DEF Die, InFlight
  <2> QED BY <2>1 DEF Break
<1>28. ASSUME NEW c \in Calls, SkipLine(c) PROVE Touched
  <2>1. PICK row : at' = [at EXCEPT ![c] = row] /\ DOMAIN row = Fields
    <3>1. PICK l \in at[c].todo : at' = [at EXCEPT ![c] = [at[c] EXCEPT !.todo = @ \ {l}]]
      BY <1>28 DEF SkipLine
    <3>2. DOMAIN [at[c] EXCEPT !.todo = @ \ {l}] = Fields
      OBVIOUS
    <3> QED BY <3>1, <3>2
  <2>2. UNCHANGED <<items, proposals, migrated, clock, pc>> /\ pc[c] = "import"
        /\ skipped \subseteq skipped'
    BY <1>28 DEF SkipLine
  <2>3. Shaped' /\ \A d \in Calls : Advanced(d)
    BY <1>28, <2>1, <2>2
  <2> HIDE DEF Shaped, Advanced
  <2> QED BY <2>2, <2>3
<1>29. ASSUME NEW c \in Calls, TurnThrows(c) PROVE Touched
  BY <1>29 DEF TurnThrows, Break
<1>25. CASE Tick
  BY <1>25 DEF Tick, End
<1>26. CASE EditStorage
  BY <1>26 DEF EditStorage, End
<1>27. CASE UNCHANGED vars
  BY <1>27 DEF vars, memoryVars
<1> QED
  BY <1>1, <1>2, <1>3, <1>4, <1>5, <1>6, <1>7, <1>8, <1>9, <1>10, <1>11,
     <1>12, <1>13, <1>14, <1>15, <1>16, <1>17, <1>18, <1>19, <1>20, <1>21,
     <1>22, <1>23, <1>24, <1>25, <1>26, <1>27, <1>28, <1>29
  DEF Next, NextMemory, Command
-----------------------------------------------------------------------------
(* The rows are well typed, and none is from the future; a revocation has  *)
(* a time of this release.                                                 *)
Dated ==
  /\ items \in Seq(Item) /\ proposals \in Seq(Proposal)
  /\ clock \in Nat /\ 1 <= clock
  /\ \A i \in DOMAIN items : /\ items[i].at <= clock
                             /\ items[i].status = "revoked" => 1 <= items[i].at
  /\ \A i \in DOMAIN proposals : proposals[i].at <= clock

(* What a call holds when it is about to append.                           *)
Holding(c) ==
  /\ pc[c] = "import" => at[c].todo \subseteq OldLines
  /\ pc[c] = "revoked" => at[c].prev[1] \in Item /\ at[c].prev[1].id \in Ids(items)
  /\ pc[c] \in {"approved", "item", "rejected"} => at[c].prev[1] \in Proposal

(* The name of an item that an approval wrote belongs to a command that is *)
(* over.                                                                   *)
Fresh ==
  \A i \in DOMAIN items : \A p \in ProposalIds, c \in Calls :
    items[i].id = <<p, c>> => pc[c] = "over"

(* A revocation is newer than any active row of the same item, or of the   *)
(* same time and further down the file.                                    *)
Outdone(i, j) == items[j].at < items[i].at \/ (items[j].at = items[i].at /\ j < i)
Dominates ==
  \A i, j \in DOMAIN items :
    /\ items[i].status = "revoked" /\ items[j].status = "active"
    /\ items[i].id = items[j].id
    => Outdone(i, j)

MemoryInv ==
  /\ Shaped /\ Dated
  /\ \A c \in Calls : Holding(c)
  /\ Fresh /\ Dominates

(* MemoryInv holds at the start.                                           *)
LEMMA MemoryInit == Init => MemoryInv
<1> SUFFICES ASSUME Init PROVE MemoryInv
  OBVIOUS
<1>1. items = <<>> /\ proposals = <<>> /\ clock = 1
      /\ pc = [c \in Calls |-> "idle"] /\ at = [c \in Calls |-> Nothing]
  BY DEF Init, InitMemory
<1> QED BY <1>1 DEF MemoryInv, Shaped, Fields, Nothing, Dated, Holding, Fresh, Dominates

(* The four kinds of rows that are appended to items.jsonl are items, and  *)
(* the four appended to proposals.jsonl proposals.                         *)
OldItem(l) == [id |-> l[2], at |-> 0, status |-> "active", scope |-> "user", of |-> "old"]
OldProposal(l) == [id |-> l[2], at |-> 0, status |-> "pending", scope |-> "relationship",
                   sensitive |-> FALSE]
Tombstone(c) == [at[c].prev[1] EXCEPT !.at = clock, !.status = "revoked"]
Rejected(c) == [at[c].prev[1] EXCEPT !.at = clock, !.status = "rejected"]
Offered(c) == [id |-> c, at |-> clock, status |-> "pending", scope |-> "relationship",
               sensitive |-> "secret" \in at[c].offer]

LEMMA RowsTyped ==
  ASSUME MemoryInv, NEW c \in Calls
  PROVE  /\ pc[c] = "import" => \A l \in at[c].todo :
              IF l[1] = "item" THEN l[2] \in OldItems /\ OldItem(l) \in Item
              ELSE l[2] \in OldProposals /\ OldProposal(l) \in Proposal
         /\ pc[c] = "item" => NewItem(c) \in Item
         /\ pc[c] = "revoked" => Tombstone(c) \in Item /\ Tombstone(c).id \in Ids(items)
         /\ pc[c] = "approved" => ApprovedRow(c) \in Proposal
         /\ pc[c] = "rejected" => Rejected(c) \in Proposal
         /\ Offered(c) \in Proposal
<1> USE DEF MemoryInv, Holding, Dated
<1>1. ASSUME pc[c] = "import", NEW l \in at[c].todo
      PROVE  IF l[1] = "item" THEN l[2] \in OldItems /\ OldItem(l) \in Item
             ELSE l[2] \in OldProposals /\ OldProposal(l) \in Proposal
  <2>1. l \in OldLines
    BY <1>1
  <2>2. IF l[1] = "item" THEN l[2] \in OldItems ELSE l[2] \in OldProposals
    BY <2>1 DEF OldLines
  <2> QED BY <2>2 DEF OldItem, OldProposal, Item, Proposal, ItemIds, ProposalIds
<1>2. ASSUME pc[c] = "item" PROVE NewItem(c) \in Item
  <2>1. at[c].prev[1] \in Proposal
    BY <1>2
  <2> QED BY <2>1 DEF NewItem, Item, Proposal, ItemIds
<1>3. ASSUME pc[c] = "revoked" PROVE Tombstone(c) \in Item /\ Tombstone(c).id \in Ids(items)
  <2>1. at[c].prev[1] \in Item /\ at[c].prev[1].id \in Ids(items)
    BY <1>3
  <2>2. Tombstone(c) \in Item /\ Tombstone(c).id = at[c].prev[1].id
    BY <2>1 DEF Tombstone, Item
  <2> QED BY <2>1, <2>2
<1>4. ASSUME pc[c] = "approved" PROVE ApprovedRow(c) \in Proposal
  <2>1. at[c].prev[1] \in Proposal
    BY <1>4
  <2> QED BY <2>1 DEF ApprovedRow, Proposal
<1>5. ASSUME pc[c] = "rejected" PROVE Rejected(c) \in Proposal
  <2>1. at[c].prev[1] \in Proposal
    BY <1>5
  <2> QED BY <2>1 DEF Rejected, Proposal
<1>6. Offered(c) \in Proposal
  BY DEF Offered, Proposal, ProposalIds
<1> QED BY <1>1, <1>2, <1>3, <1>4, <1>5, <1>6

(* The times of the rows are numbers up to the clock.                      *)
LEMMA RowsPast ==
  ASSUME MemoryInv
  PROVE  /\ \A i \in DOMAIN items :
              items[i] \in Item /\ items[i].at \in Nat /\ items[i].at <= clock
         /\ \A i \in DOMAIN proposals :
              proposals[i] \in Proposal /\ proposals[i].at \in Nat /\ proposals[i].at <= clock
<1>1. /\ \A i \in DOMAIN items : items[i] \in Item
      /\ \A i \in DOMAIN proposals : proposals[i] \in Proposal
  BY DEF MemoryInv, Dated
<1>2. /\ \A i \in DOMAIN items : items[i].at \in Nat
      /\ \A i \in DOMAIN proposals : proposals[i].at \in Nat
  BY <1>1 DEF Item, Proposal
<1> QED BY <1>1, <1>2 DEF MemoryInv, Dated

(* What a step may append to items.jsonl.                                  *)
NewRow(row) ==
  /\ row \in Item
  /\ \/ row.at = 0 /\ row.status = "active" /\ row.id \in OldItems
     \/ \E c \in Calls, p \in ProposalIds :
          /\ row.id = <<p, c>> /\ row.at = clock /\ row.status = "active"
          /\ pc[c] = "item" /\ pc'[c] = "over"
     \/ row.at = clock /\ row.status = "revoked" /\ row.id \in Ids(items)

LEMMA ItemsGrow ==
  ASSUME MemoryInv, [Next]_vars
  PROVE  items' = items \/ (clock' = clock /\ \E row : NewRow(row) /\ items' = Append(items, row))
<1>1. Touched
  BY StepTouches DEF MemoryInv, Dated
<1>2. ASSUME NEW c \in Calls, ImportLine(c), items' # items
      PROVE  clock' = clock /\ \E row : NewRow(row) /\ items' = Append(items, row)
  <2>1. PICK l \in at[c].todo : l[1] = "item" /\ items' = Append(items, OldItem(l))
    BY <1>2 DEF ImportLine, OldItem
  <2>2. OldItem(l) \in Item /\ l[2] \in OldItems
    BY <1>2, <2>1, RowsTyped DEF ImportLine
  <2>3. NewRow(OldItem(l))
    BY <2>2 DEF NewRow, OldItem
  <2> QED BY <1>2, <2>1, <2>3 DEF ImportLine
<1>3. ASSUME NEW c \in Calls, AppendItem(c)
      PROVE  clock' = clock /\ \E row : NewRow(row) /\ items' = Append(items, row)
  <2>1. pc[c] = "item" /\ items' = Append(items, NewItem(c)) /\ clock' = clock /\ pc'[c] = "over"
    BY <1>3 DEF AppendItem, End, Goto, MemoryInv, Shaped
  <2>2. NewItem(c) \in Item /\ at[c].prev[1] \in Proposal
    BY <2>1, RowsTyped DEF MemoryInv, Holding
  <2>3. /\ NewItem(c).id = <<at[c].prev[1].id, c>> /\ at[c].prev[1].id \in ProposalIds
        /\ NewItem(c).at = clock /\ NewItem(c).status = "active"
    BY <2>2 DEF NewItem, Proposal
  <2> QED BY <2>1, <2>2, <2>3 DEF NewRow
<1>4. ASSUME NEW c \in Calls, AppendRevoked(c)
      PROVE  clock' = clock /\ \E row : NewRow(row) /\ items' = Append(items, row)
  <2>1. pc[c] = "revoked" /\ items' = Append(items, Tombstone(c)) /\ clock' = clock
    BY <1>4 DEF AppendRevoked, Tombstone
  <2>2. Tombstone(c) \in Item /\ Tombstone(c).id \in Ids(items) /\ at[c].prev[1] \in Item
    BY <2>1, RowsTyped DEF MemoryInv, Holding
  <2>3. Tombstone(c).at = clock /\ Tombstone(c).status = "revoked"
    BY <2>2 DEF Tombstone, Item
  <2> QED BY <2>1, <2>2, <2>3 DEF NewRow
<1> QED BY <1>1, <1>2, <1>3, <1>4 DEF Touched

(* Proposals grow by proposals of the present or of the earlier release.   *)
LEMMA ProposalsGrow ==
  ASSUME MemoryInv, [Next]_vars
  PROVE  proposals' = proposals \/
           (clock' = clock /\ \E row \in Proposal :
              row.at <= clock /\ proposals' = Append(proposals, row))
<1> DEFINE Goal == proposals' = proposals \/
                     (clock' = clock /\ \E row \in Proposal :
                        row.at <= clock /\ proposals' = Append(proposals, row))
<1>0. Touched /\ clock \in Nat
  BY StepTouches DEF MemoryInv, Dated
<1>1. ASSUME NEW c \in Calls, ImportLine(c) PROVE Goal
  <2>1. CASE proposals' = proposals
    BY <2>1
  <2>2. CASE proposals' # proposals
    <3>1. PICK l \in at[c].todo : l[1] # "item" /\ proposals' = Append(proposals, OldProposal(l))
      BY <1>1, <2>2 DEF ImportLine, OldProposal
    <3>2. OldProposal(l) \in Proposal /\ OldProposal(l).at = 0
      BY <1>1, <3>1, RowsTyped DEF ImportLine, OldProposal
    <3>3. clock' = clock
      BY <1>1 DEF ImportLine
    <3> QED BY <1>0, <3>1, <3>2, <3>3
  <2> QED BY <2>1, <2>2
<1>2. ASSUME NEW c \in Calls, AppendApproved(c) PROVE Goal
  <2>1. pc[c] = "approved" /\ proposals' = Append(proposals, ApprovedRow(c)) /\ clock' = clock
    BY <1>2 DEF AppendApproved
  <2>2. ApprovedRow(c) \in Proposal /\ at[c].prev[1] \in Proposal
    BY <2>1, RowsTyped DEF MemoryInv, Holding
  <2>3. ApprovedRow(c).at = clock
    BY <2>2 DEF ApprovedRow, Proposal
  <2> QED BY <1>0, <2>1, <2>2, <2>3
<1>3. ASSUME NEW c \in Calls, AppendRejected(c) PROVE Goal
  <2>1. pc[c] = "rejected" /\ proposals' = Append(proposals, Rejected(c)) /\ clock' = clock
    BY <1>3 DEF AppendRejected, Rejected
  <2>2. Rejected(c) \in Proposal /\ at[c].prev[1] \in Proposal
    BY <2>1, RowsTyped DEF MemoryInv, Holding
  <2>3. Rejected(c).at = clock
    BY <2>2 DEF Rejected, Proposal
  <2> QED BY <1>0, <2>1, <2>2, <2>3
<1>4. ASSUME NEW c \in Calls, Remember(c) PROVE Goal
  <2>1. (proposals' = proposals \/ proposals' = Append(proposals, Offered(c))) /\ clock' = clock
    BY <1>4 DEF Remember, Propose, Offered
  <2>2. Offered(c) \in Proposal /\ Offered(c).at = clock
    BY RowsTyped DEF Offered
  <2> QED BY <1>0, <2>1, <2>2
<1> QED BY <1>0, <1>1, <1>2, <1>3, <1>4 DEF Touched

(* Every step keeps Dated, Fresh and Dominates.                            *)
LEMMA RowsNext ==
  ASSUME MemoryInv, [Next]_vars
  PROVE  Dated' /\ Fresh' /\ Dominates' /\ Ids(items) \subseteq Ids(items)'
<1>0. /\ Touched /\ clock \in Nat /\ items \in Seq(Item) /\ proposals \in Seq(Proposal)
      /\ \A i \in DOMAIN items : items[i] \in Item
  BY StepTouches DEF MemoryInv, Dated
<1>1. /\ clock' \in Nat /\ clock <= clock'
      /\ \A c \in Calls : pc[c] = "over" => pc'[c] = "over"
  BY <1>0 DEF Touched, Advanced
<1>2. proposals' \in Seq(Proposal) /\ \A i \in DOMAIN proposals' : proposals'[i].at <= clock'
  <2>1. CASE proposals' = proposals
    <3>1. \A i \in DOMAIN proposals : proposals[i].at \in Nat
      BY RowsPast
    <3> QED BY <1>0, <1>1, <2>1, <3>1 DEF MemoryInv, Dated
  <2>2. ASSUME clock' = clock, NEW row \in Proposal, row.at <= clock,
               proposals' = Append(proposals, row)
        PROVE  proposals' \in Seq(Proposal) /\ \A i \in DOMAIN proposals' : proposals'[i].at <= clock'
    <3>1. /\ proposals' \in Seq(Proposal)
          /\ \A i \in DOMAIN proposals' : \/ i \in DOMAIN proposals /\ proposals'[i] = proposals[i]
                                          \/ i = Len(proposals) + 1 /\ proposals'[i] = row
      BY <1>0, <2>2, Appended
    <3> QED BY <2>2, <3>1 DEF MemoryInv, Dated
  <2> QED BY <2>1, <2>2, ProposalsGrow
<1>3. CASE items' = items
  <2>1. \A i \in DOMAIN items : items[i].at \in Nat
    BY <1>0 DEF Item
  <2>2. Dated'
    BY <1>0, <1>1, <1>2, <1>3, <2>1 DEF MemoryInv, Dated
  <2> QED BY <1>1, <1>3, <2>2 DEF MemoryInv, Fresh, Dominates, Outdone, Ids
<1>4. ASSUME clock' = clock, NEW row, NewRow(row), items' = Append(items, row)
      PROVE  Dated' /\ Fresh' /\ Dominates' /\ Ids(items) \subseteq Ids(items)'
  <2> DEFINE n == Len(items) + 1
  <2>1. /\ items' \in Seq(Item)
        /\ \A i \in DOMAIN items : i \in DOMAIN items' /\ items'[i] = items[i] /\ i < n
        /\ \A i \in DOMAIN items' : \/ i \in DOMAIN items /\ items'[i] = items[i]
                                    \/ i = n /\ items'[i] = row
    BY <1>0, <1>4, Appended DEF NewRow
  <2> HIDE DEF n
  <2>2. row.at <= clock /\ (row.status = "revoked" => 1 <= row.at)
    BY <1>0, <1>4 DEF NewRow, MemoryInv, Dated
  <2>3. Dated'
    BY <1>1, <1>2, <1>4, <2>1, <2>2 DEF MemoryInv, Dated
  <2>4. \A p \in ProposalIds, c \in Calls : row.id = <<p, c>> => pc'[c] = "over"
    <3> SUFFICES ASSUME NEW p \in ProposalIds, NEW c \in Calls, row.id = <<p, c>>
                 PROVE  pc'[c] = "over"
      OBVIOUS
    <3>1. CASE row.id \in OldItems
      BY <3>1, MemoryAssumption
    <3>2. CASE \E d \in Calls, q \in ProposalIds : row.id = <<q, d>> /\ pc'[d] = "over"
      BY <3>2
    <3>3. CASE row.id \in Ids(items)
      BY <3>3, <1>1 DEF MemoryInv, Fresh, Ids
    <3> QED BY <1>4, <3>1, <3>2, <3>3 DEF NewRow
  <2>5. Fresh'
    BY <1>1, <2>1, <2>4 DEF MemoryInv, Fresh
  <2>6. ASSUME NEW i \in DOMAIN items, items[i].status = "revoked", row.status = "active",
               items[i].id = row.id
        PROVE  row.at < items[i].at
    <3>1. items[i].at \in Nat /\ 1 <= items[i].at
      BY <1>0, <2>6 DEF MemoryInv, Dated, Item
    <3>2. CASE row.at = 0
      BY <3>1, <3>2
    <3>3. ASSUME NEW c \in Calls, NEW p \in ProposalIds, row.id = <<p, c>>, pc[c] = "item"
          PROVE  FALSE
      BY <2>6, <3>3 DEF MemoryInv, Fresh
    <3> QED BY <1>4, <2>6, <3>2, <3>3 DEF NewRow
  <2>7. ASSUME NEW j \in DOMAIN items, items[j].status = "active", row.status = "revoked"
        PROVE  items[j].at < row.at \/ (items[j].at = row.at /\ j < n)
    <3>1. items[j].at \in Nat /\ items[j].at <= clock /\ row.at = clock /\ j < n
      BY <1>0, <1>4, <2>1, <2>7 DEF NewRow, MemoryInv, Dated, Item
    <3> QED BY <1>0, <3>1
  <2>8. Dominates'
    BY <2>1, <2>6, <2>7 DEF MemoryInv, Dominates, Outdone
  <2>9. Ids(items) \subseteq Ids(items)'
    BY <2>1 DEF Ids
  <2> QED BY <2>3, <2>5, <2>8, <2>9
<1> QED BY <1>3, <1>4, ItemsGrow

(* An import only takes lines off its list.                                *)
LEMMA TodoShrinks ==
  ASSUME Shaped, NEW c \in Calls, ImportLine(c) \/ SkipLine(c)
  PROVE  pc[c] = "import" /\ at'[c].todo \subseteq at[c].todo
<1>1. CASE ImportLine(c)
  BY <1>1 DEF ImportLine, Shaped, Fields
<1>2. CASE SkipLine(c)
  BY <1>2 DEF SkipLine, Shaped, Fields
<1> QED BY <1>1, <1>2

(* Every step keeps what the calls hold.                                   *)
LEMMA HoldingNext ==
  ASSUME MemoryInv, [Next]_vars, NEW c \in Calls
  PROVE  Holding(c)'
<1>0. /\ Touched /\ clock \in Nat /\ items \in Seq(Item) /\ proposals \in Seq(Proposal)
      /\ Ids(items) \subseteq Ids(items)' /\ Advanced(c) /\ Holding(c)
      /\ Shaped /\ DOMAIN at = Calls /\ DOMAIN at[c] = Fields
  BY StepTouches, RowsNext DEF MemoryInv, Dated, Touched, Shaped
<1>1. Stands(c) => Holding(c)'
  BY <1>0 DEF Holding, Stands
<1>2. ASSUME NEW id \in Ids(items) PROVE Latest(items, id) \in Item /\ Latest(items, id).id = id
  <2>1. \A i \in DOMAIN items : items[i] \in Item /\ items[i].at \in Nat /\ items[i].at <= clock
    BY RowsPast
  <2>2. \E k \in DOMAIN items : Latest(items, id) = items[k] /\ items[k].id = id
    BY <1>0, <2>1, LatestRow, SMTT(30)
  <2> QED BY <2>1, <2>2
<1>3. ASSUME NEW id \in Ids(proposals) PROVE Latest(proposals, id) \in Proposal
  <2>1. \A i \in DOMAIN proposals : proposals[i] \in Proposal /\ proposals[i].at \in Nat
                                    /\ proposals[i].at <= clock
    BY RowsPast
  <2>2. \E k \in DOMAIN proposals : Latest(proposals, id) = proposals[k]
    BY <1>0, <2>1, LatestRow, SMTT(30)
  <2> QED BY <2>1, <2>2
<1>4. ASSUME RevokeRead(c), pc'[c] = "revoked"
      PROVE  at'[c].prev[1] \in Item /\ at'[c].prev[1].id \in Ids(items)'
  <2>1. PICK id \in Ids(items) : at' = [at EXCEPT ![c].prev = <<Latest(items, id)>>]
    BY <1>4, <1>0 DEF RevokeRead, End, Goto, MemoryInv, Shaped
  <2>2. at'[c].prev = <<Latest(items, id)>>
    BY <1>0, <2>1 DEF Fields
  <2> QED BY <1>0, <1>2, <2>2
<1>5. ASSUME RejectRead(c), pc'[c] = "rejected" PROVE at'[c].prev[1] \in Proposal
  <2>1. PICK id \in Ids(proposals) : at' = [at EXCEPT ![c].prev = <<Latest(proposals, id)>>]
    BY <1>5, <1>0 DEF RejectRead, End, Goto, MemoryInv, Shaped
  <2>2. at'[c].prev = <<Latest(proposals, id)>>
    BY <1>0, <2>1 DEF Fields
  <2> QED BY <1>3, <2>2
<1>6. ASSUME ApproveRead(c), pc'[c] = "approved" PROVE at'[c].prev[1] \in Proposal
  <2>1. PICK id \in Ids(proposals) : at' = [at EXCEPT ![c].prev = <<Latest(proposals, id)>>]
    BY <1>6, <1>0 DEF ApproveRead, End, Goto, MemoryInv, Shaped
  <2>2. at'[c].prev = <<Latest(proposals, id)>>
    BY <1>0, <2>1 DEF Fields
  <2> QED BY <1>3, <2>2
<1>7. ASSUME AppendApproved(c), pc'[c] = "item" PROVE at'[c].prev[1] \in Proposal
  <2>1. at' = at /\ pc[c] = "approved"
    BY <1>7, <1>0 DEF AppendApproved, End, Goto, MemoryInv, Shaped
  <2> QED BY <1>0, <2>1 DEF Holding
<1>8. ASSUME ImportLine(c) \/ SkipLine(c)
      PROVE  pc[c] = "import" /\ at'[c].todo \subseteq at[c].todo
  BY <1>0, <1>8, TodoShrinks
<1>9. pc'[c] = "import" => at'[c].todo \subseteq OldLines
  BY <1>0, <1>8 DEF Advanced, Stands, Holding, StillMissing
<1> QED BY <1>0, <1>1, <1>4, <1>5, <1>6, <1>7, <1>9 DEF Advanced, Holding

(* Every step keeps MemoryInv.                                             *)
LEMMA MemoryNext == MemoryInv /\ [Next]_vars => MemoryInv'
<1> SUFFICES ASSUME MemoryInv, [Next]_vars PROVE MemoryInv'
  OBVIOUS
<1>1. Shaped'
  BY StepTouches DEF MemoryInv, Dated, Touched
<1> QED BY <1>1, RowsNext, HoldingNext DEF MemoryInv

(* A deleted memory stays deleted, whatever imports and appends overlap    *)
(* with its deletion or come after it.                                     *)
THEOREM DeletedStaysDeleted == Spec => []RevokedStaysRevoked
<1>1. MemoryInv => RevokedStaysRevoked
  <2> SUFFICES ASSUME MemoryInv, NEW i \in DOMAIN items, items[i].status = "revoked",
                      Latest(items, items[i].id).status = "active"
               PROVE  FALSE
    BY DEF RevokedStaysRevoked, Visible
  <2>1. items \in Seq(Item) /\ clock \in Nat
        /\ \A j \in DOMAIN items : items[j].at \in Nat /\ items[j].at <= clock
    BY RowsPast DEF MemoryInv, Dated
  <2>2. PICK k \in DOMAIN items :
          /\ Latest(items, items[i].id) = items[k] /\ items[k].id = items[i].id
          /\ items[i].at < items[k].at \/ (items[i].at = items[k].at /\ i <= k)
    BY <2>1, LatestRow DEF Ids
  <2>3. Outdone(i, k)
    BY <2>2 DEF MemoryInv, Dominates
  <2> QED BY <2>1, <2>2, <2>3 DEF Outdone
<1> QED BY <1>1, MemoryInit, MemoryNext, PTL DEF Spec
-----------------------------------------------------------------------------
(* What an importer need not append is there, or was skipped by one.       *)
There(l) ==
  \/ l \in skipped
  \/ IF l[1] = "item" THEN l[2] \in Ids(items) ELSE l[2] \in Ids(proposals)

ImportInv ==
  /\ MemoryInv
  /\ \A c \in Calls : pc[c] = "import" => \A l \in OldLines : l \in at[c].todo \/ There(l)
  /\ migrated => \A l \in OldLines : There(l)

(* ImportInv holds at the start.                                           *)
LEMMA ImportInit == Init => ImportInv
  BY MemoryInit DEF Init, InitMemory, ImportInv

(* What is there or was skipped stays so.                                  *)
LEMMA ThereStays ==
  ASSUME MemoryInv, [Next]_vars
  PROVE  \A l \in OldLines : There(l) => There(l)'
<1>1. Ids(items) \subseteq Ids(items)'
  BY RowsNext
<1>2. Ids(proposals) \subseteq Ids(proposals)'
  <2>0. proposals \in Seq(Proposal)
    BY DEF MemoryInv, Dated
  <2>1. ASSUME NEW row \in Proposal, proposals' = Append(proposals, row)
        PROVE  Ids(proposals) \subseteq Ids(proposals)'
    <3>1. \A i \in DOMAIN proposals : i \in DOMAIN proposals' /\ proposals'[i] = proposals[i]
      BY <2>0, <2>1, Appended
    <3> QED BY <3>1 DEF Ids
  <2> QED BY <2>1, ProposalsGrow DEF Ids
<1>3. skipped \subseteq skipped'
  BY StepTouches DEF MemoryInv, Dated, Touched
<1> QED BY <1>1, <1>2, <1>3 DEF There

(* The line an importer takes off its list is there afterwards.            *)
LEMMA ImportedIsThere ==
  ASSUME MemoryInv, NEW c \in Calls, ImportLine(c)
  PROVE  \A l \in at[c].todo : l \in at'[c].todo \/ There(l)'
<1>0. items \in Seq(Item) /\ proposals \in Seq(Proposal) /\ DOMAIN at = Calls
      /\ DOMAIN at[c] = Fields /\ pc[c] = "import"
  BY DEF MemoryInv, Dated, Shaped, ImportLine
<1>1. PICK k \in at[c].todo :
        /\ IF k[1] = "item" THEN items' = Append(items, OldItem(k))
           ELSE proposals' = Append(proposals, OldProposal(k))
        /\ at' = [at EXCEPT ![c].todo = @ \ {k}]
  BY DEF ImportLine, OldItem, OldProposal
<1>2. at'[c].todo = at[c].todo \ {k}
  BY <1>0, <1>1 DEF Fields
<1>3. CASE k[1] = "item"
  <2>1. OldItem(k) \in Item
    BY <1>0, <1>3, RowsTyped
  <2>2. Len(items) + 1 \in DOMAIN items' /\ items'[Len(items) + 1] = OldItem(k)
    BY <1>0, <1>1, <1>3, <2>1, Appended
  <2>3. OldItem(k).id = k[2]
    BY DEF OldItem
  <2> QED BY <1>2, <1>3, <2>2, <2>3 DEF There, Ids
<1>4. CASE k[1] # "item"
  <2>1. OldProposal(k) \in Proposal
    BY <1>0, <1>4, RowsTyped
  <2>2. Len(proposals) + 1 \in DOMAIN proposals' /\ proposals'[Len(proposals) + 1] = OldProposal(k)
    BY <1>0, <1>1, <1>4, <2>1, Appended
  <2>3. OldProposal(k).id = k[2]
    BY DEF OldProposal
  <2> QED BY <1>2, <1>4, <2>2, <2>3 DEF There, Ids
<1> QED BY <1>3, <1>4

(* The line it gives up is skipped.                                        *)
LEMMA SkippedIsThere ==
  ASSUME MemoryInv, NEW c \in Calls, SkipLine(c)
  PROVE  \A l \in at[c].todo : l \in at'[c].todo \/ There(l)'
<1>1. PICK k \in at[c].todo :
        skipped' = skipped \union {k} /\ at' = [at EXCEPT ![c].todo = @ \ {k}]
  BY DEF SkipLine
<1>2. at'[c].todo = at[c].todo \ {k}
  BY <1>1 DEF MemoryInv, Shaped, Fields
<1> QED BY <1>1, <1>2 DEF There

(* Every step keeps ImportInv.                                             *)
LEMMA ImportNext == ImportInv /\ [Next]_vars => ImportInv'
<1> SUFFICES ASSUME ImportInv, [Next]_vars PROVE ImportInv'
  OBVIOUS
<1>1. MemoryInv' /\ Touched /\ (\A l \in OldLines : There(l) => There(l)')
  BY MemoryNext, StepTouches, ThereStays DEF ImportInv, MemoryInv, Dated
<1>2. ASSUME NEW c \in Calls, pc'[c] = "import"
      PROVE  \A l \in OldLines : l \in at'[c].todo \/ There(l)'
  <2>1. CASE Stands(c)
    BY <1>1, <1>2, <2>1 DEF Stands, ImportInv
  <2>2. CASE ImportLine(c)
    <3>1. pc[c] = "import"
      BY <2>2 DEF ImportLine
    <3> QED BY <1>1, <2>2, <3>1, ImportedIsThere DEF ImportInv
  <2>3. CASE at'[c].todo = StillMissing /\ UNCHANGED memory
    BY <2>3 DEF StillMissing, There, memory, Ids
  <2>4. CASE SkipLine(c)
    <3>1. pc[c] = "import"
      BY <2>4 DEF SkipLine
    <3> QED BY <1>1, <2>4, <3>1, SkippedIsThere DEF ImportInv
  <2> QED BY <1>1, <1>2, <2>1, <2>2, <2>3, <2>4 DEF Touched, Advanced
<1>3. migrated' => \A l \in OldLines : There(l)'
  <2>1. CASE migrated' = migrated
    BY <1>1, <2>1 DEF ImportInv
  <2>2. ASSUME NEW c \in Calls, Imported(c) PROVE \A l \in OldLines : There(l)'
    <3>1. pc[c] = "import" /\ at[c].todo = {}
      BY <2>2 DEF Imported
    <3> QED BY <1>1, <3>1 DEF ImportInv
  <2> QED BY <1>1, <2>1, <2>2 DEF Touched
<1> QED BY <1>1, <1>2, <1>3 DEF ImportInv

(* Once the import's flag is written, every old memory and proposal has    *)
(* been imported but for those an import skipped, however many imports     *)
(* overlapped or died.                                                     *)
THEOREM ImportIsComplete == Spec => []MigrationComplete
<1>1. ImportInv => MigrationComplete
  <2> SUFFICES ASSUME ImportInv, migrated, NEW l \in StillMissing PROVE l \in skipped
    BY DEF MigrationComplete
  <2> QED BY DEF StillMissing, ImportInv, There
<1> QED BY <1>1, ImportInit, ImportNext, PTL DEF Spec
-----------------------------------------------------------------------------
ChatSteps == {"host", "create", "meta", "recall", "import", "read", "suggest", "remember", "reply"}
InTurn(c) == pc[c] \in ChatSteps /\ at[c].job = "chat"
HasAnswer(c) == \E i \in Lines("user", c), j \in Lines("assistant", c) : i < j

(* A turn under way goes on, is answered or breaks; one that is over or    *)
(* broken stays so; lines are only added by the two ends of a turn.        *)
Goes(d) ==
  /\ InTurn(d) => InTurn(d)' \/ Reply(d) \/ pc'[d] = "broken"
  /\ pc[d] = "over" => pc'[d] = "over"
  /\ pc[d] = "broken" => pc'[d] = "broken"
Talked ==
  /\ \A d \in Calls : Goes(d)
  /\ messages' = messages \/ \E c \in Calls : ChatStarts(c) \/ Reply(c)
  /\ deaths' \in Nat /\ deaths <= deaths'

(* Every step does so.                                                     *)
LEMMA StepTalks == Shaped /\ deaths \in Nat /\ [Next]_vars => Talked
<1> SUFFICES ASSUME Shaped, deaths \in Nat, [Next]_vars PROVE Talked
  OBVIOUS
<1> USE DEF Shaped, Fields
<1>1. ASSUME NEW c \in Calls, StartCommand(c), UNCHANGED companion PROVE Talked
  <2>1. messages' = messages /\ deaths' = deaths
    BY <1>1 DEF StartCommand, companion
  <2>2. ~InTurn(c) /\ pc[c] \notin {"over", "broken"}
    BY <1>1 DEF StartCommand, MayStart, Enter, InTurn, ChatSteps
  <2>3. \A d \in Calls : d # c => pc'[d] = pc[d] /\ at'[d] = at[d]
    BY <1>1 DEF StartCommand, MayStart, Enter, Goto, End
  <2> QED BY <2>1, <2>2, <2>3 DEF Talked, Goes, InTurn
<1>2. ASSUME NEW c \in Calls, ImportLine(c), UNCHANGED companion PROVE Talked
  <2>1. messages' = messages /\ deaths' = deaths
    BY <1>2 DEF ImportLine, companion
  <2>2. pc[c] \notin {"over", "broken"} /\ (InTurn(c) => InTurn(c)')
    BY <1>2 DEF ImportLine, InTurn, ChatSteps, Goto
  <2>3. \A d \in Calls : d # c => pc'[d] = pc[d] /\ at'[d] = at[d]
    BY <1>2 DEF ImportLine, Goto
  <2> QED BY <2>1, <2>2, <2>3 DEF Talked, Goes, InTurn
<1>3. ASSUME NEW c \in Calls, Imported(c), UNCHANGED companion PROVE Talked
  <2>1. messages' = messages /\ deaths' = deaths
    BY <1>3 DEF Imported, companion
  <2>2. pc[c] \notin {"over", "broken"} /\ (InTurn(c) => InTurn(c)')
    BY <1>3 DEF Imported, InTurn, ChatSteps, Goto
  <2>3. \A d \in Calls : d # c => pc'[d] = pc[d] /\ at'[d] = at[d]
    BY <1>3 DEF Imported, Goto
  <2> QED BY <2>1, <2>2, <2>3 DEF Talked, Goes, InTurn
<1>4. ASSUME NEW c \in Calls, JustRead(c), UNCHANGED companion PROVE Talked
  <2>1. messages' = messages /\ deaths' = deaths
    BY <1>4 DEF JustRead, companion
  <2>2. ~InTurn(c) /\ pc[c] \notin {"over", "broken"}
    BY <1>4 DEF JustRead, InTurn, ChatSteps
  <2>3. \A d \in Calls : d # c => pc'[d] = pc[d] /\ at'[d] = at[d]
    BY <1>4 DEF JustRead, Goto, End
  <2> QED BY <2>1, <2>2, <2>3 DEF Talked, Goes, InTurn
<1>5. ASSUME NEW c \in Calls, ApproveRead(c), UNCHANGED companion PROVE Talked
  <2>1. messages' = messages /\ deaths' = deaths
    BY <1>5 DEF ApproveRead, companion
  <2>2. ~InTurn(c) /\ pc[c] \notin {"over", "broken"}
    BY <1>5 DEF ApproveRead, InTurn, ChatSteps
  <2>3. \A d \in Calls : d # c => pc'[d] = pc[d] /\ at'[d] = at[d]
    BY <1>5 DEF ApproveRead, Goto, End
  <2> QED BY <2>1, <2>2, <2>3 DEF Talked, Goes, InTurn
<1>6. ASSUME NEW c \in Calls, AppendApproved(c), UNCHANGED companion PROVE Talked
  <2>1. messages' = messages /\ deaths' = deaths
    BY <1>6 DEF AppendApproved, companion
  <2>2. ~InTurn(c) /\ pc[c] \notin {"over", "broken"}
    BY <1>6 DEF AppendApproved, InTurn, ChatSteps
  <2>3. \A d \in Calls : d # c => pc'[d] = pc[d] /\ at'[d] = at[d]
    BY <1>6 DEF AppendApproved, Goto, End
  <2> QED BY <2>1, <2>2, <2>3 DEF Talked, Goes, InTurn
<1>7. ASSUME NEW c \in Calls, AppendItem(c), UNCHANGED companion PROVE Talked
  <2>1. messages' = messages /\ deaths' = deaths
    BY <1>7 DEF AppendItem, companion
  <2>2. ~InTurn(c) /\ pc[c] \notin {"over", "broken"}
    BY <1>7 DEF AppendItem, InTurn, ChatSteps
  <2>3. \A d \in Calls : d # c => pc'[d] = pc[d] /\ at'[d] = at[d]
    BY <1>7 DEF AppendItem, Goto, End
  <2> QED BY <2>1, <2>2, <2>3 DEF Talked, Goes, InTurn
<1>8. ASSUME NEW c \in Calls, RejectRead(c), UNCHANGED companion PROVE Talked
  <2>1. messages' = messages /\ deaths' = deaths
    BY <1>8 DEF RejectRead, companion
  <2>2. ~InTurn(c) /\ pc[c] \notin {"over", "broken"}
    BY <1>8 DEF RejectRead, InTurn, ChatSteps
  <2>3. \A d \in Calls : d # c => pc'[d] = pc[d] /\ at'[d] = at[d]
    BY <1>8 DEF RejectRead, Goto, End
  <2> QED BY <2>1, <2>2, <2>3 DEF Talked, Goes, InTurn
<1>9. ASSUME NEW c \in Calls, AppendRejected(c), UNCHANGED companion PROVE Talked
  <2>1. messages' = messages /\ deaths' = deaths
    BY <1>9 DEF AppendRejected, companion
  <2>2. ~InTurn(c) /\ pc[c] \notin {"over", "broken"}
    BY <1>9 DEF AppendRejected, InTurn, ChatSteps
  <2>3. \A d \in Calls : d # c => pc'[d] = pc[d] /\ at'[d] = at[d]
    BY <1>9 DEF AppendRejected, Goto, End
  <2> QED BY <2>1, <2>2, <2>3 DEF Talked, Goes, InTurn
<1>10. ASSUME NEW c \in Calls, RevokeRead(c), UNCHANGED companion PROVE Talked
  <2>1. messages' = messages /\ deaths' = deaths
    BY <1>10 DEF RevokeRead, companion
  <2>2. ~InTurn(c) /\ pc[c] \notin {"over", "broken"}
    BY <1>10 DEF RevokeRead, InTurn, ChatSteps
  <2>3. \A d \in Calls : d # c => pc'[d] = pc[d] /\ at'[d] = at[d]
    BY <1>10 DEF RevokeRead, Goto, End
  <2> QED BY <2>1, <2>2, <2>3 DEF Talked, Goes, InTurn
<1>11. ASSUME NEW c \in Calls, AppendRevoked(c), UNCHANGED companion PROVE Talked
  <2>1. messages' = messages /\ deaths' = deaths
    BY <1>11 DEF AppendRevoked, companion
  <2>2. ~InTurn(c) /\ pc[c] \notin {"over", "broken"}
    BY <1>11 DEF AppendRevoked, InTurn, ChatSteps
  <2>3. \A d \in Calls : d # c => pc'[d] = pc[d] /\ at'[d] = at[d]
    BY <1>11 DEF AppendRevoked, Goto, End
  <2> QED BY <2>1, <2>2, <2>3 DEF Talked, Goes, InTurn
<1>12. ASSUME NEW c \in Calls, ChatStarts(c) PROVE Talked
  <2>1. deaths' = deaths /\ pc[c] = "idle"
    BY <1>12 DEF ChatStarts, MayStart
  <2>2. \A d \in Calls : d # c => pc'[d] = pc[d] /\ at'[d] = at[d]
    BY <1>12 DEF ChatStarts, Goto
  <2>3. ~InTurn(c)
    BY <2>1 DEF InTurn, ChatSteps
  <2> QED BY <1>12, <2>1, <2>2, <2>3 DEF Talked, Goes, InTurn
<1>13. ASSUME NEW c \in Calls, AcceptStarts(c) PROVE Talked
  <2>1. messages' = messages /\ deaths' = deaths
    BY <1>13 DEF AcceptStarts, companion
  <2>2. ~InTurn(c) /\ pc[c] \notin {"over", "broken"}
    BY <1>13 DEF AcceptStarts, MayStart, Enter, InTurn, ChatSteps
  <2>3. \A d \in Calls : d # c => pc'[d] = pc[d] /\ at'[d] = at[d]
    BY <1>13 DEF AcceptStarts, MayStart, Enter, Goto, End
  <2> QED BY <2>1, <2>2, <2>3 DEF Talked, Goes, InTurn
<1>14. ASSUME NEW c \in Calls, ReadHost(c) PROVE Talked
  <2>1. messages' = messages /\ deaths' = deaths
    BY <1>14 DEF ReadHost, companion
  <2>2. pc[c] \notin {"over", "broken"} /\ (InTurn(c) => InTurn(c)')
    BY <1>14 DEF ReadHost, InTurn, ChatSteps, Goto
  <2>3. \A d \in Calls : d # c => pc'[d] = pc[d] /\ at'[d] = at[d]
    BY <1>14 DEF ReadHost, Goto
  <2> QED BY <2>1, <2>2, <2>3 DEF Talked, Goes, InTurn
<1>15. ASSUME NEW c \in Calls, CreateHost(c) PROVE Talked
  <2>1. messages' = messages /\ deaths' = deaths
    BY <1>15 DEF CreateHost, companion
  <2>2. pc[c] \notin {"over", "broken"} /\ (InTurn(c) => InTurn(c)')
    BY <1>15 DEF CreateHost, InTurn, ChatSteps, Goto
  <2>3. \A d \in Calls : d # c => pc'[d] = pc[d] /\ at'[d] = at[d]
    BY <1>15 DEF CreateHost, Goto
  <2> QED BY <2>1, <2>2, <2>3 DEF Talked, Goes, InTurn
<1>16. ASSUME NEW c \in Calls, WriteMeta(c) PROVE Talked
  <2>1. messages' = messages /\ deaths' = deaths
    BY <1>16 DEF WriteMeta, companion
  <2>2. pc[c] \notin {"over", "broken"} /\ (InTurn(c) => InTurn(c)')
    BY <1>16 DEF WriteMeta, InTurn, ChatSteps, Goto
  <2>3. \A d \in Calls : d # c => pc'[d] = pc[d] /\ at'[d] = at[d]
    BY <1>16 DEF WriteMeta, Goto
  <2> QED BY <2>1, <2>2, <2>3 DEF Talked, Goes, InTurn
<1>17. ASSUME NEW c \in Calls, Recall(c) PROVE Talked
  <2>1. messages' = messages /\ deaths' = deaths
    BY <1>17 DEF Recall, companion
  <2>2. pc[c] \notin {"over", "broken"} /\ (InTurn(c) => InTurn(c)')
    BY <1>17 DEF Recall, InTurn, ChatSteps, Goto
  <2>3. \A d \in Calls : d # c => pc'[d] = pc[d] /\ at'[d] = at[d]
    BY <1>17 DEF Recall, Goto
  <2> QED BY <2>1, <2>2, <2>3 DEF Talked, Goes, InTurn
<1>18. ASSUME NEW c \in Calls, Answers(c) PROVE Talked
  <2>1. messages' = messages /\ deaths' = deaths
    BY <1>18 DEF Answers, companion
  <2>2. pc[c] \notin {"over", "broken"} /\ (InTurn(c) => InTurn(c)')
    BY <1>18 DEF Answers, InTurn, ChatSteps, Goto
  <2>3. \A d \in Calls : d # c => pc'[d] = pc[d] /\ at'[d] = at[d]
    BY <1>18 DEF Answers, Goto
  <2> QED BY <2>1, <2>2, <2>3 DEF Talked, Goes, InTurn
<1>19. ASSUME NEW c \in Calls, Suggest(c) PROVE Talked
  <2>1. messages' = messages /\ deaths' = deaths
    BY <1>19 DEF Suggest, companion
  <2>2. pc[c] \notin {"over", "broken"} /\ (InTurn(c) => InTurn(c)')
    BY <1>19 DEF Suggest, InTurn, ChatSteps, Goto
  <2>3. \A d \in Calls : d # c => pc'[d] = pc[d] /\ at'[d] = at[d]
    BY <1>19 DEF Suggest, Goto
  <2> QED BY <2>1, <2>2, <2>3 DEF Talked, Goes, InTurn
<1>20. ASSUME NEW c \in Calls, Remember(c) PROVE Talked
  <2>1. messages' = messages /\ deaths' = deaths
    BY <1>20 DEF Remember, companion
  <2>2. pc[c] \notin {"over", "broken"} /\ (InTurn(c) => InTurn(c)')
    BY <1>20 DEF Remember, InTurn, ChatSteps, Goto
  <2>3. \A d \in Calls : d # c => pc'[d] = pc[d] /\ at'[d] = at[d]
    BY <1>20 DEF Remember, Goto
  <2> QED BY <2>1, <2>2, <2>3 DEF Talked, Goes, InTurn
<1>21. ASSUME NEW c \in Calls, Reply(c) PROVE Talked
  <2>1. deaths' = deaths /\ pc[c] = "reply"
    BY <1>21 DEF Reply
  <2>2. \A d \in Calls : d # c => pc'[d] = pc[d] /\ at'[d] = at[d]
    BY <1>21 DEF Reply, Goto, End
  <2> QED BY <1>21, <2>1, <2>2 DEF Talked, Goes, InTurn
<1>22. ASSUME NEW c \in Calls, MakeMission(c) PROVE Talked
  <2>1. messages' = messages /\ deaths' = deaths
    BY <1>22 DEF MakeMission, companion
  <2>2. ~InTurn(c) /\ pc[c] \notin {"over", "broken"}
    BY <1>22 DEF MakeMission, InTurn, ChatSteps
  <2>3. \A d \in Calls : d # c => pc'[d] = pc[d] /\ at'[d] = at[d]
    BY <1>22 DEF MakeMission, Goto, End
  <2> QED BY <2>1, <2>2, <2>3 DEF Talked, Goes, InTurn
<1>23. ASSUME NEW c \in Calls, Rewrite(c) PROVE Talked
  <2>1. messages' = messages /\ deaths' = deaths
    BY <1>23 DEF Rewrite, companion
  <2>2. ~InTurn(c) /\ pc[c] \notin {"over", "broken"}
    BY <1>23 DEF Rewrite, InTurn, ChatSteps
  <2>3. \A d \in Calls : d # c => pc'[d] = pc[d] /\ at'[d] = at[d]
    BY <1>23 DEF Rewrite, Goto, End
  <2> QED BY <2>1, <2>2, <2>3 DEF Talked, Goes, InTurn
<1>24. ASSUME NEW c \in Calls, Die(c) PROVE Talked
  <2>1. /\ messages' = messages /\ deaths' = deaths + 1
        /\ pc[c] \notin {"over", "broken"} /\ pc'[c] = "broken"
    BY <1>24 DEF Die, InFlight, Break, Goto
  <2>2. \A d \in Calls : d # c => pc'[d] = pc[d] /\ at'[d] = at[d]
    BY <1>24 DEF Die, Goto, Break
  <2>3. deaths' \in Nat /\ deaths <= deaths'
    BY <2>1
  <2> QED BY <2>1, <2>2, <2>3 DEF Talked, Goes, InTurn
<1>28. ASSUME NEW c \in Calls, SkipLine(c), UNCHANGED companion PROVE Talked
  <2>1. messages' = messages /\ deaths' = deaths
    BY <1>28 DEF SkipLine, companion
  <2>2. pc[c] \notin {"over", "broken"} /\ (InTurn(c) => InTurn(c)')
    BY <1>28 DEF SkipLine, InTurn, ChatSteps, Goto
  <2>3. \A d \in Calls : d # c => pc'[d] = pc[d] /\ at'[d] = at[d]
    BY <1>28 DEF SkipLine, Goto
  <2> QED BY <2>1, <2>2, <2>3 DEF Talked, Goes, InTurn
<1>29. ASSUME NEW c \in Calls, TurnThrows(c) PROVE Talked
  <2>1. /\ messages' = messages /\ deaths' = deaths
        /\ pc[c] \notin {"over", "broken"} /\ pc'[c] = "broken"
    BY <1>29 DEF TurnThrows, Break, Goto, companion
  <2>2. \A d \in Calls : d # c => pc'[d] = pc[d] /\ at'[d] = at[d]
    BY <1>29 DEF TurnThrows, Goto, Break
  <2> QED BY <2>1, <2>2 DEF Talked, Goes, InTurn
<1>25. CASE Tick /\ UNCHANGED companion
  BY <1>25 DEF Tick, Talked, Goes, InTurn, companion
<1>26. CASE EditStorage /\ UNCHANGED companion
  BY <1>26 DEF EditStorage, Talked, Goes, InTurn, companion
<1>27. CASE UNCHANGED vars
  BY <1>27 DEF vars, memoryVars, companion, Talked, Goes, InTurn
<1> QED
  BY <1>1, <1>2, <1>3, <1>4, <1>5, <1>6, <1>7, <1>8, <1>9, <1>10, <1>11,
     <1>12, <1>13, <1>14, <1>15, <1>16, <1>17, <1>18, <1>19, <1>20, <1>21,
     <1>22, <1>23, <1>24, <1>25, <1>26, <1>27, <1>28, <1>29
  DEF Next, NextMemory, Command

(* Who has asked is in a turn, has been answered or was broken off.        *)
TurnInv ==
  /\ Shaped /\ clock \in Nat /\ deaths \in Nat
  /\ messages \in Seq({"user", "assistant"} \X Calls)
  /\ \A c \in Calls : Lines("user", c) # {} =>
       InTurn(c) \/ pc[c] = "broken" \/ (pc[c] = "over" /\ HasAnswer(c))

(* TurnInv holds at the start.                                             *)
LEMMA TurnInit == Init => TurnInv
<1> SUFFICES ASSUME Init PROVE TurnInv
  OBVIOUS
<1>1. messages = <<>> /\ clock = 1 /\ deaths = 0
      /\ pc = [c \in Calls |-> "idle"] /\ at = [c \in Calls |-> Nothing]
  BY DEF Init, InitMemory
<1> QED BY <1>1 DEF TurnInv, Shaped, Fields, Nothing, Lines

(* Every step keeps it.                                                    *)
LEMMA TurnNext == TurnInv /\ [Next]_vars => TurnInv'
<1> SUFFICES ASSUME TurnInv, [Next]_vars PROVE TurnInv'
  OBVIOUS
<1>1. Touched /\ Talked
  BY StepTouches, StepTalks DEF TurnInv
<1>2. Shaped' /\ clock' \in Nat /\ deaths' \in Nat
  BY <1>1 DEF Touched, Talked
<1> DEFINE Good(c) == Lines("user", c) # {} =>
             InTurn(c) \/ pc[c] = "broken" \/ (pc[c] = "over" /\ HasAnswer(c))
<1>3. messages \in Seq({"user", "assistant"} \X Calls) /\ \A c \in Calls : Good(c)
  BY DEF TurnInv
<1>4. \A c \in Calls : Goes(c)
  BY <1>1 DEF Talked
<1>6. CASE messages' = messages
  <2>1. \A r, c : Lines(r, c)' = Lines(r, c)
    BY <1>6 DEF Lines
  <2>2. ASSUME NEW c \in Calls PROVE Good(c)'
    <3>1. ~Reply(c)
      <4>1. Append(messages, <<"assistant", c>>) # messages
        <5>1. Len(Append(messages, <<"assistant", c>>)) = Len(messages) + 1 /\ Len(messages) \in Nat
          BY <1>3
        <5> QED BY <5>1
      <4> QED BY <1>6, <4>1 DEF Reply
    <3>2. HasAnswer(c)' = HasAnswer(c)
      BY <2>1 DEF HasAnswer
    <3>3. Good(c) /\ Goes(c)
      BY <1>3, <1>4
    <3> QED BY <2>1, <3>1, <3>2, <3>3 DEF Goes
  <2> HIDE DEF Good
  <2>3. messages' \in Seq({"user", "assistant"} \X Calls) /\ \A c \in Calls : Good(c)'
    BY <1>3, <1>6, <2>2
  <2> QED BY <1>2, <2>3 DEF TurnInv, Good
<1>7. ASSUME NEW r \in {"user", "assistant"}, NEW x \in Calls,
             messages' = Append(messages, <<r, x>>),
             deaths' = deaths, \A d \in Calls : d # x => pc'[d] = pc[d] /\ at'[d] = at[d],
             Good(x)'
      PROVE  TurnInv'
  <2>1. /\ messages' \in Seq({"user", "assistant"} \X Calls)
        /\ \A i \in DOMAIN messages : i \in DOMAIN messages' /\ messages'[i] = messages[i]
        /\ \A i \in DOMAIN messages' : \/ i \in DOMAIN messages /\ messages'[i] = messages[i]
                                       \/ i = Len(messages) + 1 /\ messages'[i] = <<r, x>>
    BY <1>3, <1>7
  <2>2. ASSUME NEW c \in Calls, c # x PROVE Good(c)'
    <3>1. \A s : Lines(s, c)' = Lines(s, c)
      BY <2>1, <2>2 DEF Lines
    <3>2. HasAnswer(c)' = HasAnswer(c)
      BY <3>1 DEF HasAnswer
    <3>3. InTurn(c)' = InTurn(c) /\ pc'[c] = pc[c]
      BY <1>7, <2>2 DEF InTurn
    <3>4. Good(c)
      BY <1>3
    <3> QED BY <1>7, <3>1, <3>2, <3>3, <3>4
  <2> HIDE DEF Good
  <2>3. \A c \in Calls : Good(c)'
    BY <1>7, <2>2
  <2> QED BY <1>2, <2>1, <2>3 DEF TurnInv, Good
<1>8. ASSUME NEW x \in Calls, ChatStarts(x) PROVE TurnInv'
  <2>1. /\ messages' = Append(messages, <<"user", x>>) /\ deaths' = deaths
        /\ \A d \in Calls : d # x => pc'[d] = pc[d] /\ at'[d] = at[d]
    BY <1>8 DEF ChatStarts, Goto, TurnInv, Shaped
  <2>2. InTurn(x)'
    BY <1>8 DEF ChatStarts, Goto, TurnInv, Shaped, InTurn, ChatSteps, Nothing
  <2>3. Good(x)'
    BY <2>2
  <2> HIDE DEF Good
  <2> QED BY <1>7, <2>1, <2>3
<1>9. ASSUME NEW x \in Calls, Reply(x) PROVE TurnInv'
  <2>1. /\ messages' = Append(messages, <<"assistant", x>>) /\ deaths' = deaths
        /\ \A d \in Calls : d # x => pc'[d] = pc[d] /\ at'[d] = at[d]
        /\ pc'[x] = "over"
    BY <1>9 DEF Reply, End, Goto, TurnInv, Shaped
  <2>2. ASSUME Lines("user", x)' # {} PROVE HasAnswer(x)'
    <3>1. PICK i \in DOMAIN messages' : messages'[i] = <<"user", x>>
      BY <2>2 DEF Lines
    <3>2. i \in 1..(Len(messages) + 1) /\ Len(messages) \in Nat
      BY <1>3, <2>1
    <3>3. Len(messages) + 1 \in DOMAIN messages'
          /\ messages'[Len(messages) + 1] = <<"assistant", x>>
      BY <1>3, <2>1
    <3>4. i # Len(messages) + 1
      BY <3>1, <3>3
    <3>5. i < Len(messages) + 1
      BY <3>2, <3>4
    <3> QED BY <3>1, <3>3, <3>5 DEF HasAnswer, Lines
  <2>3. Good(x)'
    BY <2>1, <2>2
  <2> HIDE DEF Good
  <2> QED BY <1>7, <2>1, <2>3
<1> QED BY <1>1, <1>6, <1>8, <1>9 DEF Talked

(* Every turn that returned has its answer after its question, whatever    *)
(* became of the model's call and of the memory it proposed (chat.ts:89,   *)
(* 119), with any number of turns and commands interleaved; a turn that    *)
(* threw outside the two tries, or died, may have none.                    *)
THEOREM TurnsAlwaysAnswered == Spec => []TurnsAreAnswered
<1>1. TurnInv => TurnsAreAnswered
  <2> SUFFICES ASSUME TurnInv, NEW c \in Calls, pc[c] = "over", Lines("user", c) # {}
               PROVE  HasAnswer(c)
    BY DEF TurnsAreAnswered, HasAnswer
  <2>1. ~InTurn(c)
    BY DEF InTurn, ChatSteps
  <2> QED BY <2>1 DEF TurnInv
<1> QED BY <1>1, TurnInit, TurnNext, PTL DEF Spec
-----------------------------------------------------------------------------
(* Types without those of the rows.                                        *)
LessTyped ==
  /\ migrated \in BOOLEAN /\ clock \in 1..(MaxTicks + 1)
  /\ pc \in [Calls -> Steps] /\ deaths \in 0..MaxDeaths
  /\ hosts \subseteq Calls /\ hostMeta \in {<<>>} \union {<<h>> : h \in Calls}

(* Every step keeps them.                                                  *)
LEMMA LessTypedNext == LessTyped /\ [Next]_vars => LessTyped'
<1> SUFFICES ASSUME LessTyped, [Next]_vars PROVE LessTyped'
  OBVIOUS
<1> USE MemoryAssumption DEF LessTyped, Goto, memory, Steps
<1>1. ASSUME NEW c \in Calls, StartCommand(c), UNCHANGED companion PROVE LessTyped'
  <2>1. PICK job : Enter(c, job)
    BY <1>1 DEF StartCommand
  <2>2. UNCHANGED <<migrated, clock, deaths, companion>>
    BY <1>1 DEF StartCommand
  <2> QED BY <2>1, <2>2 DEF Enter, companion
<1>2. ASSUME NEW c \in Calls, ImportLine(c), UNCHANGED companion PROVE LessTyped'
  BY <1>2 DEF ImportLine, End, memory, companion
<1>3. ASSUME NEW c \in Calls, Imported(c), UNCHANGED companion PROVE LessTyped'
  BY <1>3 DEF Imported, End, memory, companion
<1>4. ASSUME NEW c \in Calls, JustRead(c), UNCHANGED companion PROVE LessTyped'
  BY <1>4 DEF JustRead, End, memory, companion
<1>5. ASSUME NEW c \in Calls, ApproveRead(c), UNCHANGED companion PROVE LessTyped'
  BY <1>5 DEF ApproveRead, End, memory, companion
<1>6. ASSUME NEW c \in Calls, AppendApproved(c), UNCHANGED companion PROVE LessTyped'
  BY <1>6 DEF AppendApproved, End, memory, companion
<1>7. ASSUME NEW c \in Calls, AppendItem(c), UNCHANGED companion PROVE LessTyped'
  BY <1>7 DEF AppendItem, End, memory, companion
<1>8. ASSUME NEW c \in Calls, RejectRead(c), UNCHANGED companion PROVE LessTyped'
  BY <1>8 DEF RejectRead, End, memory, companion
<1>9. ASSUME NEW c \in Calls, AppendRejected(c), UNCHANGED companion PROVE LessTyped'
  BY <1>9 DEF AppendRejected, End, memory, companion
<1>10. ASSUME NEW c \in Calls, RevokeRead(c), UNCHANGED companion PROVE LessTyped'
  BY <1>10 DEF RevokeRead, End, memory, companion
<1>11. ASSUME NEW c \in Calls, AppendRevoked(c), UNCHANGED companion PROVE LessTyped'
  BY <1>11 DEF AppendRevoked, End, memory, companion
<1>12. ASSUME NEW c \in Calls, ChatStarts(c) PROVE LessTyped'
  BY <1>12 DEF ChatStarts, End, memory, companion
<1>13. ASSUME NEW c \in Calls, AcceptStarts(c) PROVE LessTyped'
  BY <1>13 DEF AcceptStarts, End, memory, companion
<1>14. ASSUME NEW c \in Calls, ReadHost(c) PROVE LessTyped'
  BY <1>14 DEF ReadHost, End, memory, companion
<1>15. ASSUME NEW c \in Calls, CreateHost(c) PROVE LessTyped'
  BY <1>15 DEF CreateHost, End, memory, companion
<1>16. ASSUME NEW c \in Calls, WriteMeta(c) PROVE LessTyped'
  BY <1>16 DEF WriteMeta, End, memory, companion
<1>17. ASSUME NEW c \in Calls, Recall(c) PROVE LessTyped'
  BY <1>17 DEF Recall, End, memory, companion
<1>18. ASSUME NEW c \in Calls, Answers(c) PROVE LessTyped'
  BY <1>18 DEF Answers, End, memory, companion
<1>19. ASSUME NEW c \in Calls, Suggest(c) PROVE LessTyped'
  BY <1>19 DEF Suggest, End, memory, companion
<1>20. ASSUME NEW c \in Calls, Remember(c) PROVE LessTyped'
  BY <1>20 DEF Remember, End, memory, companion
<1>21. ASSUME NEW c \in Calls, Reply(c) PROVE LessTyped'
  BY <1>21 DEF Reply, End, memory, companion
<1>22. ASSUME NEW c \in Calls, MakeMission(c) PROVE LessTyped'
  BY <1>22 DEF MakeMission, End, memory, companion
<1>23. ASSUME NEW c \in Calls, Rewrite(c) PROVE LessTyped'
  BY <1>23 DEF Rewrite, End, memory, companion
<1>24. ASSUME NEW c \in Calls, Die(c) PROVE LessTyped'
  BY <1>24 DEF Die, Break, memory, companion
<1>28. ASSUME NEW c \in Calls, SkipLine(c), UNCHANGED companion PROVE LessTyped'
  BY <1>28 DEF SkipLine, End, memory, companion
<1>29. ASSUME NEW c \in Calls, TurnThrows(c) PROVE LessTyped'
  BY <1>29 DEF TurnThrows, Break, memory, companion
<1>25. CASE Tick /\ UNCHANGED companion
  BY <1>25 DEF Tick, End, memory, companion
<1>26. CASE EditStorage /\ UNCHANGED companion
  BY <1>26 DEF EditStorage, End, memory, companion
<1>27. CASE UNCHANGED vars
  BY <1>27 DEF vars, memoryVars, companion
<1> QED
  BY <1>1, <1>2, <1>3, <1>4, <1>5, <1>6, <1>7, <1>8, <1>9, <1>10, <1>11,
     <1>12, <1>13, <1>14, <1>15, <1>16, <1>17, <1>18, <1>19, <1>20, <1>21,
     <1>22, <1>23, <1>24, <1>25, <1>26, <1>27, <1>28, <1>29
  DEF Next, NextMemory, Command

(* A call that accepts has a row to accept.                                *)
Choosing == {"accept", "rewrite"}
Chosen(c) ==
  pc[c] \in Choosing => at[c].prev \in Seq(Suggestion) /\ at[c].row \in DOMAIN at[c].prev

(* How a step goes about the suggestions.                                  *)
Weighed ==
  /\ \A d \in Calls : pc'[d] \in Choosing =>
       (pc[d] \in Choosing /\ at'[d] = at[d]) \/ AcceptStarts(d)
  /\ suggestions' = suggestions \/ \E c \in Calls : Suggest(c) \/ Rewrite(c) \/ Die(c)
  /\ missions' = missions \/ \E c \in Calls : MakeMission(c)

(* Every step does so.                                                     *)
LEMMA StepWeighs == Shaped /\ [Next]_vars => Weighed
<1> SUFFICES ASSUME Shaped, [Next]_vars PROVE Weighed
  OBVIOUS
<1> USE DEF Shaped, Fields, Choosing
<1>1. ASSUME NEW c \in Calls, StartCommand(c), UNCHANGED companion PROVE Weighed
  <2>1. suggestions' = suggestions /\ missions' = missions
    BY <1>1 DEF StartCommand, companion
  <2>2. \A d \in Calls : d # c => pc'[d] = pc[d] /\ at'[d] = at[d]
    BY <1>1 DEF StartCommand, MayStart, Enter, Goto, End
  <2>3. pc'[c] \notin Choosing
    BY <1>1 DEF StartCommand, MayStart, Enter, Goto, End
  <2> QED BY <1>1, <2>1, <2>2, <2>3 DEF Weighed
<1>2. ASSUME NEW c \in Calls, ImportLine(c), UNCHANGED companion PROVE Weighed
  <2>1. suggestions' = suggestions /\ missions' = missions
    BY <1>2 DEF ImportLine, companion
  <2>2. \A d \in Calls : d # c => pc'[d] = pc[d] /\ at'[d] = at[d]
    BY <1>2 DEF ImportLine, Goto, End
  <2>3. pc'[c] \notin Choosing
    BY <1>2 DEF ImportLine, Goto, End
  <2> QED BY <1>2, <2>1, <2>2, <2>3 DEF Weighed
<1>3. ASSUME NEW c \in Calls, Imported(c), UNCHANGED companion PROVE Weighed
  <2>1. suggestions' = suggestions /\ missions' = missions
    BY <1>3 DEF Imported, companion
  <2>2. \A d \in Calls : d # c => pc'[d] = pc[d] /\ at'[d] = at[d]
    BY <1>3 DEF Imported, Goto, End
  <2>3. pc'[c] \notin Choosing
    BY <1>3 DEF Imported, Goto, End
  <2> QED BY <1>3, <2>1, <2>2, <2>3 DEF Weighed
<1>4. ASSUME NEW c \in Calls, JustRead(c), UNCHANGED companion PROVE Weighed
  <2>1. suggestions' = suggestions /\ missions' = missions
    BY <1>4 DEF JustRead, companion
  <2>2. \A d \in Calls : d # c => pc'[d] = pc[d] /\ at'[d] = at[d]
    BY <1>4 DEF JustRead, Goto, End
  <2>3. pc'[c] \notin Choosing
    BY <1>4 DEF JustRead, Goto, End
  <2> QED BY <1>4, <2>1, <2>2, <2>3 DEF Weighed
<1>5. ASSUME NEW c \in Calls, ApproveRead(c), UNCHANGED companion PROVE Weighed
  <2>1. suggestions' = suggestions /\ missions' = missions
    BY <1>5 DEF ApproveRead, companion
  <2>2. \A d \in Calls : d # c => pc'[d] = pc[d] /\ at'[d] = at[d]
    BY <1>5 DEF ApproveRead, Goto, End
  <2>3. pc'[c] \notin Choosing
    BY <1>5 DEF ApproveRead, Goto, End
  <2> QED BY <1>5, <2>1, <2>2, <2>3 DEF Weighed
<1>6. ASSUME NEW c \in Calls, AppendApproved(c), UNCHANGED companion PROVE Weighed
  <2>1. suggestions' = suggestions /\ missions' = missions
    BY <1>6 DEF AppendApproved, companion
  <2>2. \A d \in Calls : d # c => pc'[d] = pc[d] /\ at'[d] = at[d]
    BY <1>6 DEF AppendApproved, Goto, End
  <2>3. pc'[c] \notin Choosing
    BY <1>6 DEF AppendApproved, Goto, End
  <2> QED BY <1>6, <2>1, <2>2, <2>3 DEF Weighed
<1>7. ASSUME NEW c \in Calls, AppendItem(c), UNCHANGED companion PROVE Weighed
  <2>1. suggestions' = suggestions /\ missions' = missions
    BY <1>7 DEF AppendItem, companion
  <2>2. \A d \in Calls : d # c => pc'[d] = pc[d] /\ at'[d] = at[d]
    BY <1>7 DEF AppendItem, Goto, End
  <2>3. pc'[c] \notin Choosing
    BY <1>7 DEF AppendItem, Goto, End
  <2> QED BY <1>7, <2>1, <2>2, <2>3 DEF Weighed
<1>8. ASSUME NEW c \in Calls, RejectRead(c), UNCHANGED companion PROVE Weighed
  <2>1. suggestions' = suggestions /\ missions' = missions
    BY <1>8 DEF RejectRead, companion
  <2>2. \A d \in Calls : d # c => pc'[d] = pc[d] /\ at'[d] = at[d]
    BY <1>8 DEF RejectRead, Goto, End
  <2>3. pc'[c] \notin Choosing
    BY <1>8 DEF RejectRead, Goto, End
  <2> QED BY <1>8, <2>1, <2>2, <2>3 DEF Weighed
<1>9. ASSUME NEW c \in Calls, AppendRejected(c), UNCHANGED companion PROVE Weighed
  <2>1. suggestions' = suggestions /\ missions' = missions
    BY <1>9 DEF AppendRejected, companion
  <2>2. \A d \in Calls : d # c => pc'[d] = pc[d] /\ at'[d] = at[d]
    BY <1>9 DEF AppendRejected, Goto, End
  <2>3. pc'[c] \notin Choosing
    BY <1>9 DEF AppendRejected, Goto, End
  <2> QED BY <1>9, <2>1, <2>2, <2>3 DEF Weighed
<1>10. ASSUME NEW c \in Calls, RevokeRead(c), UNCHANGED companion PROVE Weighed
  <2>1. suggestions' = suggestions /\ missions' = missions
    BY <1>10 DEF RevokeRead, companion
  <2>2. \A d \in Calls : d # c => pc'[d] = pc[d] /\ at'[d] = at[d]
    BY <1>10 DEF RevokeRead, Goto, End
  <2>3. pc'[c] \notin Choosing
    BY <1>10 DEF RevokeRead, Goto, End
  <2> QED BY <1>10, <2>1, <2>2, <2>3 DEF Weighed
<1>11. ASSUME NEW c \in Calls, AppendRevoked(c), UNCHANGED companion PROVE Weighed
  <2>1. suggestions' = suggestions /\ missions' = missions
    BY <1>11 DEF AppendRevoked, companion
  <2>2. \A d \in Calls : d # c => pc'[d] = pc[d] /\ at'[d] = at[d]
    BY <1>11 DEF AppendRevoked, Goto, End
  <2>3. pc'[c] \notin Choosing
    BY <1>11 DEF AppendRevoked, Goto, End
  <2> QED BY <1>11, <2>1, <2>2, <2>3 DEF Weighed
<1>12. ASSUME NEW c \in Calls, ChatStarts(c) PROVE Weighed
  <2>1. suggestions' = suggestions /\ missions' = missions
    BY <1>12 DEF ChatStarts, companion
  <2>2. \A d \in Calls : d # c => pc'[d] = pc[d] /\ at'[d] = at[d]
    BY <1>12 DEF ChatStarts, Goto, End
  <2>3. pc'[c] \notin Choosing
    BY <1>12 DEF ChatStarts, Goto, End
  <2> QED BY <1>12, <2>1, <2>2, <2>3 DEF Weighed
<1>13. ASSUME NEW c \in Calls, AcceptStarts(c) PROVE Weighed
  <2>1. suggestions' = suggestions /\ missions' = missions
    BY <1>13 DEF AcceptStarts, companion
  <2>2. \A d \in Calls : d # c => pc'[d] = pc[d] /\ at'[d] = at[d]
    BY <1>13 DEF AcceptStarts, Goto, End
  <2> QED BY <1>13, <2>1, <2>2 DEF Weighed
<1>14. ASSUME NEW c \in Calls, ReadHost(c) PROVE Weighed
  <2>1. suggestions' = suggestions /\ missions' = missions
    BY <1>14 DEF ReadHost, companion
  <2>2. \A d \in Calls : d # c => pc'[d] = pc[d] /\ at'[d] = at[d]
    BY <1>14 DEF ReadHost, Goto, End
  <2>3. pc'[c] \notin Choosing
    BY <1>14 DEF ReadHost, Goto, End
  <2> QED BY <1>14, <2>1, <2>2, <2>3 DEF Weighed
<1>15. ASSUME NEW c \in Calls, CreateHost(c) PROVE Weighed
  <2>1. suggestions' = suggestions /\ missions' = missions
    BY <1>15 DEF CreateHost, companion
  <2>2. \A d \in Calls : d # c => pc'[d] = pc[d] /\ at'[d] = at[d]
    BY <1>15 DEF CreateHost, Goto, End
  <2>3. pc'[c] \notin Choosing
    BY <1>15 DEF CreateHost, Goto, End
  <2> QED BY <1>15, <2>1, <2>2, <2>3 DEF Weighed
<1>16. ASSUME NEW c \in Calls, WriteMeta(c) PROVE Weighed
  <2>1. suggestions' = suggestions /\ missions' = missions
    BY <1>16 DEF WriteMeta, companion
  <2>2. \A d \in Calls : d # c => pc'[d] = pc[d] /\ at'[d] = at[d]
    BY <1>16 DEF WriteMeta, Goto, End
  <2>3. pc'[c] \notin Choosing
    BY <1>16 DEF WriteMeta, Goto, End
  <2> QED BY <1>16, <2>1, <2>2, <2>3 DEF Weighed
<1>17. ASSUME NEW c \in Calls, Recall(c) PROVE Weighed
  <2>1. suggestions' = suggestions /\ missions' = missions
    BY <1>17 DEF Recall, companion
  <2>2. \A d \in Calls : d # c => pc'[d] = pc[d] /\ at'[d] = at[d]
    BY <1>17 DEF Recall, Goto, End
  <2>3. pc'[c] \notin Choosing
    BY <1>17 DEF Recall, Goto, End
  <2> QED BY <1>17, <2>1, <2>2, <2>3 DEF Weighed
<1>18. ASSUME NEW c \in Calls, Answers(c) PROVE Weighed
  <2>1. suggestions' = suggestions /\ missions' = missions
    BY <1>18 DEF Answers, companion
  <2>2. \A d \in Calls : d # c => pc'[d] = pc[d] /\ at'[d] = at[d]
    BY <1>18 DEF Answers, Goto, End
  <2>3. pc'[c] \notin Choosing
    BY <1>18 DEF Answers, Goto, End
  <2> QED BY <1>18, <2>1, <2>2, <2>3 DEF Weighed
<1>19. ASSUME NEW c \in Calls, Suggest(c) PROVE Weighed
  <2>1. missions' = missions
    BY <1>19 DEF Suggest, companion
  <2>2. \A d \in Calls : d # c => pc'[d] = pc[d] /\ at'[d] = at[d]
    BY <1>19 DEF Suggest, Goto, End
  <2>3. pc'[c] \notin Choosing
    BY <1>19 DEF Suggest, Goto, End
  <2> QED BY <1>19, <2>1, <2>2, <2>3 DEF Weighed
<1>20. ASSUME NEW c \in Calls, Remember(c) PROVE Weighed
  <2>1. suggestions' = suggestions /\ missions' = missions
    BY <1>20 DEF Remember, companion
  <2>2. \A d \in Calls : d # c => pc'[d] = pc[d] /\ at'[d] = at[d]
    BY <1>20 DEF Remember, Goto, End
  <2>3. pc'[c] \notin Choosing
    BY <1>20 DEF Remember, Goto, End
  <2> QED BY <1>20, <2>1, <2>2, <2>3 DEF Weighed
<1>21. ASSUME NEW c \in Calls, Reply(c) PROVE Weighed
  <2>1. suggestions' = suggestions /\ missions' = missions
    BY <1>21 DEF Reply, companion
  <2>2. \A d \in Calls : d # c => pc'[d] = pc[d] /\ at'[d] = at[d]
    BY <1>21 DEF Reply, Goto, End
  <2>3. pc'[c] \notin Choosing
    BY <1>21 DEF Reply, Goto, End
  <2> QED BY <1>21, <2>1, <2>2, <2>3 DEF Weighed
<1>22. ASSUME NEW c \in Calls, MakeMission(c) PROVE Weighed
  <2>1. suggestions' = suggestions
    BY <1>22 DEF MakeMission, companion
  <2>2. \A d \in Calls : d # c => pc'[d] = pc[d] /\ at'[d] = at[d]
    BY <1>22 DEF MakeMission, Goto, End
  <2>3. pc[c] = "accept" /\ at'[c] = at[c]
    BY <1>22 DEF MakeMission
  <2> QED BY <1>22, <2>1, <2>2, <2>3 DEF Weighed
<1>23. ASSUME NEW c \in Calls, Rewrite(c) PROVE Weighed
  <2>1. missions' = missions
    BY <1>23 DEF Rewrite, companion
  <2>2. \A d \in Calls : d # c => pc'[d] = pc[d] /\ at'[d] = at[d]
    BY <1>23 DEF Rewrite, Goto, End
  <2>3. pc'[c] \notin Choosing
    BY <1>23 DEF Rewrite, Goto, End
  <2> QED BY <1>23, <2>1, <2>2, <2>3 DEF Weighed
<1>24. ASSUME NEW c \in Calls, Die(c) PROVE Weighed
  <2>1. missions' = missions
    BY <1>24 DEF Die, companion
  <2>2. \A d \in Calls : d # c => pc'[d] = pc[d] /\ at'[d] = at[d]
    BY <1>24 DEF Die, Goto, Break
  <2>3. pc'[c] \notin Choosing
    BY <1>24 DEF Die, Goto, Break
  <2> QED BY <1>24, <2>1, <2>2, <2>3 DEF Weighed
<1>28. ASSUME NEW c \in Calls, SkipLine(c), UNCHANGED companion PROVE Weighed
  <2>1. suggestions' = suggestions /\ missions' = missions
    BY <1>28 DEF SkipLine, companion
  <2>2. \A d \in Calls : d # c => pc'[d] = pc[d] /\ at'[d] = at[d]
    BY <1>28 DEF SkipLine, Goto
  <2>3. pc'[c] \notin Choosing
    BY <1>28 DEF SkipLine, Goto
  <2> QED BY <1>28, <2>1, <2>2, <2>3 DEF Weighed
<1>29. ASSUME NEW c \in Calls, TurnThrows(c) PROVE Weighed
  <2>1. suggestions' = suggestions /\ missions' = missions
    BY <1>29 DEF TurnThrows, companion
  <2>2. \A d \in Calls : d # c => pc'[d] = pc[d] /\ at'[d] = at[d]
    BY <1>29 DEF TurnThrows, Goto, Break
  <2>3. pc'[c] \notin Choosing
    BY <1>29 DEF TurnThrows, Goto, Break
  <2> QED BY <1>29, <2>1, <2>2, <2>3 DEF Weighed
<1>25. CASE Tick /\ UNCHANGED companion
  BY <1>25 DEF Tick, companion, Weighed
<1>26. CASE EditStorage /\ UNCHANGED companion
  BY <1>26 DEF EditStorage, companion, Weighed
<1>27. CASE UNCHANGED vars
  BY <1>27 DEF vars, memoryVars, companion, Weighed
<1> QED
  BY <1>1, <1>2, <1>3, <1>4, <1>5, <1>6, <1>7, <1>8, <1>9, <1>10, <1>11,
     <1>12, <1>13, <1>14, <1>15, <1>16, <1>17, <1>18, <1>19, <1>20, <1>21,
     <1>22, <1>23, <1>24, <1>25, <1>26, <1>27, <1>28, <1>29
  DEF Next, NextMemory, Command

OfferInv ==
  /\ Shaped /\ clock \in Nat
  /\ suggestions \in Seq(Suggestion) /\ missions \subseteq Calls \X Calls
  /\ \A c \in Calls : Chosen(c)

(* OfferInv holds at the start.                                            *)
LEMMA OfferInit == Init => OfferInv
<1> SUFFICES ASSUME Init PROVE OfferInv
  OBVIOUS
<1>1. suggestions = <<>> /\ missions = {} /\ clock = 1
      /\ pc = [c \in Calls |-> "idle"] /\ at = [c \in Calls |-> Nothing]
  BY DEF Init, InitMemory
<1> QED BY <1>1 DEF OfferInv, Shaped, Fields, Nothing, Chosen, Choosing

(* The rows a call writes back are suggestions.                            *)
LEMMA RowsAccepted ==
  ASSUME OfferInv, NEW c \in Calls, pc[c] \in Choosing
  PROVE  /\ AcceptedRows(c) \in Seq(Suggestion)
         /\ \A n \in 0..(Len(AcceptedRows(c)) - 1) : SubSeq(AcceptedRows(c), 1, n) \in Seq(Suggestion)
         /\ Candidate(c) \in Calls
<1> DEFINE s == at[c].prev
           r == at[c].row
           row == [s[r] EXCEPT !.status = "accepted", !.mission = <<c>>]
<1>1. s \in Seq(Suggestion) /\ r \in DOMAIN s
  BY DEF OfferInv, Chosen
<1>2. s[r] \in Suggestion
  BY <1>1
<1>3. row \in Suggestion
  <2>1. <<c>> \in Seq(Calls)
    OBVIOUS
  <2> HIDE DEF s, r
  <2> QED BY <1>2, <2>1 DEF Suggestion
<1>4. AcceptedRows(c) = [s EXCEPT ![r] = row]
  BY <1>1 DEF AcceptedRows
<1>5. Candidate(c) \in Calls
  BY <1>2 DEF Candidate, Suggestion
<1> HIDE DEF row, s, r
<1>6. AcceptedRows(c) \in Seq(Suggestion)
  BY <1>1, <1>3, <1>4
<1>7. ASSUME NEW n \in 0..(Len(AcceptedRows(c)) - 1)
      PROVE  SubSeq(AcceptedRows(c), 1, n) \in Seq(Suggestion)
  BY <1>6, SubSeqProperties
<1> QED BY <1>5, <1>6, <1>7

(* Every step keeps it.                                                    *)
LEMMA OfferNext == OfferInv /\ [Next]_vars => OfferInv'
<1> SUFFICES ASSUME OfferInv, [Next]_vars PROVE OfferInv'
  OBVIOUS
<1>1. Touched /\ Weighed
  BY StepTouches, StepWeighs DEF OfferInv
<1>2. Shaped' /\ clock' \in Nat
  BY <1>1 DEF Touched
<1>3. suggestions' \in Seq(Suggestion)
  <2>1. ASSUME NEW c \in Calls, Suggest(c) PROVE suggestions' \in Seq(Suggestion)
    <3>1. [id |-> c, status |-> "proposed", mission |-> <<>>] \in Suggestion
      BY DEF Suggestion
    <3> QED BY <2>1, <3>1 DEF Suggest, OfferInv
  <2>2. ASSUME NEW c \in Calls, Rewrite(c) PROVE suggestions' \in Seq(Suggestion)
    BY <2>2, RowsAccepted DEF Rewrite, Choosing
  <2>3. ASSUME NEW c \in Calls, Die(c) PROVE suggestions' \in Seq(Suggestion)
    BY <2>3, RowsAccepted DEF Die, Choosing, OfferInv
  <2> QED BY <1>1, <2>1, <2>2, <2>3 DEF Weighed, OfferInv
<1>4. missions' \subseteq Calls \X Calls
  <2>1. ASSUME NEW c \in Calls, MakeMission(c) PROVE missions' \subseteq Calls \X Calls
    <3>1. Candidate(c) \in Calls
      BY <2>1, RowsAccepted DEF MakeMission, Choosing
    <3> QED BY <2>1, <3>1 DEF MakeMission, OfferInv
  <2> QED BY <1>1, <2>1 DEF Weighed, OfferInv
<1>5. ASSUME NEW d \in Calls PROVE Chosen(d)'
  <2>1. CASE pc[d] \in Choosing /\ at'[d] = at[d]
    <3>1. Chosen(d)
      BY DEF OfferInv
    <3> QED BY <2>1, <3>1 DEF Chosen
  <2>2. CASE AcceptStarts(d)
    <3>1. CASE Proposed(suggestions) = {}
      <4>1. pc'[d] = "over"
        BY <2>2, <3>1 DEF AcceptStarts, Goto, OfferInv, Shaped
      <4> QED BY <4>1 DEF Chosen, Choosing
    <3>2. CASE Proposed(suggestions) # {}
      <4> DEFINE P == Proposed(suggestions)
      <4>1. P \subseteq Nat /\ P \subseteq DOMAIN suggestions /\ \A i \in P : i <= Len(suggestions)
            /\ Len(suggestions) \in Nat
        BY DEF Proposed, OfferInv
      <4>2. \E m \in P : \A i \in P : i <= m
        <5> HIDE DEF P
        <5> QED BY <3>2, <4>1, Highest DEF P
      <4>3. \E m \in P : \A i \in P : m >= i
        <5> HIDE DEF P
        <5> QED BY <4>1, <4>2
      <4>4. Max(P) \in DOMAIN suggestions
        <5> HIDE DEF P
        <5> QED BY <4>1, <4>3 DEF Max
      <4>5. at'[d].prev = suggestions /\ at'[d].row = Max(P)
        BY <2>2, <3>2 DEF AcceptStarts, OfferInv, Shaped, Nothing
      <4> QED BY <4>4, <4>5 DEF Chosen, OfferInv
    <3> QED BY <3>1, <3>2
  <2>3. CASE pc'[d] \notin Choosing
    BY <2>3 DEF Chosen
  <2> QED BY <1>1, <2>1, <2>2, <2>3 DEF Weighed
<1> QED BY <1>2, <1>3, <1>4, <1>5 DEF OfferInv
-----------------------------------------------------------------------------
(* Who moves in a step: nobody, or one call that is not over, which begins *)
(* only when no other is under way if calls do not overlap.                *)
Suggested == {"remember", "reply", "over", "broken"}
Reported == {"reply", "over", "broken"}
Mover(c) ==
  /\ \A d \in Calls \ {c} : Stands(d)
  /\ pc[c] \notin {"over", "broken"} /\ (pc[c] = "idle" /\ serial => InFlight = {})
Turns ==
  /\ serial' = serial
  /\ \A d \in Calls : /\ pc[d] \in Suggested => pc'[d] \in Suggested
                      /\ pc[d] \in Reported => pc'[d] \in Reported
                      /\ pc'[d] = "rewrite" => Stands(d) \/ MakeMission(d)
                      /\ pc[d] = "rewrite" => Stands(d) \/ Rewrite(d) \/ Die(d)
  /\ (pc' = pc /\ at' = at) \/ \E c \in Calls : Mover(c)

(* Every step is so.                                                       *)
LEMMA StepTurns == Shaped /\ [Next]_vars => Turns
<1> SUFFICES ASSUME Shaped, [Next]_vars PROVE Turns
  OBVIOUS
<1> USE DEF Shaped, Stands, Suggested, Reported
<1>1. ASSUME NEW c \in Calls, StartCommand(c) PROVE Turns
  <2>1. serial' = serial /\ pc[c] \notin {"over", "broken"} /\ (pc[c] = "idle" /\ serial => InFlight = {})
    BY <1>1 DEF StartCommand, MayStart, Enter
  <2>2. \A d \in Calls \ {c} : Stands(d)
    BY <1>1 DEF StartCommand, MayStart, Enter, Goto, End
  <2>3. pc[c] \in Suggested => pc'[c] \in Suggested
    BY <1>1 DEF StartCommand, MayStart, Enter, Goto, End
  <2>4. pc[c] \in Reported => pc'[c] \in Reported
    BY <1>1 DEF StartCommand, MayStart, Enter, Goto, End
  <2>5. pc'[c] = "rewrite" => MakeMission(c)
    BY <1>1 DEF StartCommand, MayStart, Enter, Goto, End
  <2>6. pc[c] = "rewrite" => Rewrite(c) \/ Die(c)
    BY <1>1 DEF StartCommand, MayStart, Enter, Goto, End
  <2> QED BY <2>1, <2>2, <2>3, <2>4, <2>5, <2>6 DEF Turns, Mover
<1>2. ASSUME NEW c \in Calls, ImportLine(c) PROVE Turns
  <2>1. serial' = serial /\ pc[c] \notin {"over", "broken"} /\ (pc[c] = "idle" /\ serial => InFlight = {})
    BY <1>2 DEF ImportLine, MayStart
  <2>2. \A d \in Calls \ {c} : Stands(d)
    BY <1>2 DEF ImportLine, Goto, End
  <2>3. pc[c] \in Suggested => pc'[c] \in Suggested
    BY <1>2 DEF ImportLine, Goto, End
  <2>4. pc[c] \in Reported => pc'[c] \in Reported
    BY <1>2 DEF ImportLine, Goto, End
  <2>5. pc'[c] = "rewrite" => MakeMission(c)
    BY <1>2 DEF ImportLine, Goto, End
  <2>6. pc[c] = "rewrite" => Rewrite(c) \/ Die(c)
    BY <1>2 DEF ImportLine, Goto, End
  <2> QED BY <2>1, <2>2, <2>3, <2>4, <2>5, <2>6 DEF Turns, Mover
<1>3. ASSUME NEW c \in Calls, Imported(c) PROVE Turns
  <2>1. serial' = serial /\ pc[c] \notin {"over", "broken"} /\ (pc[c] = "idle" /\ serial => InFlight = {})
    BY <1>3 DEF Imported, MayStart
  <2>2. \A d \in Calls \ {c} : Stands(d)
    BY <1>3 DEF Imported, Goto, End
  <2>3. pc[c] \in Suggested => pc'[c] \in Suggested
    BY <1>3 DEF Imported, Goto, End
  <2>4. pc[c] \in Reported => pc'[c] \in Reported
    BY <1>3 DEF Imported, Goto, End
  <2>5. pc'[c] = "rewrite" => MakeMission(c)
    BY <1>3 DEF Imported, Goto, End
  <2>6. pc[c] = "rewrite" => Rewrite(c) \/ Die(c)
    BY <1>3 DEF Imported, Goto, End
  <2> QED BY <2>1, <2>2, <2>3, <2>4, <2>5, <2>6 DEF Turns, Mover
<1>4. ASSUME NEW c \in Calls, JustRead(c) PROVE Turns
  <2>1. serial' = serial /\ pc[c] \notin {"over", "broken"} /\ (pc[c] = "idle" /\ serial => InFlight = {})
    BY <1>4 DEF JustRead, MayStart
  <2>2. \A d \in Calls \ {c} : Stands(d)
    BY <1>4 DEF JustRead, Goto, End
  <2>3. pc[c] \in Suggested => pc'[c] \in Suggested
    BY <1>4 DEF JustRead, Goto, End
  <2>4. pc[c] \in Reported => pc'[c] \in Reported
    BY <1>4 DEF JustRead, Goto, End
  <2>5. pc'[c] = "rewrite" => MakeMission(c)
    BY <1>4 DEF JustRead, Goto, End
  <2>6. pc[c] = "rewrite" => Rewrite(c) \/ Die(c)
    BY <1>4 DEF JustRead, Goto, End
  <2> QED BY <2>1, <2>2, <2>3, <2>4, <2>5, <2>6 DEF Turns, Mover
<1>5. ASSUME NEW c \in Calls, ApproveRead(c) PROVE Turns
  <2>1. serial' = serial /\ pc[c] \notin {"over", "broken"} /\ (pc[c] = "idle" /\ serial => InFlight = {})
    BY <1>5 DEF ApproveRead, MayStart
  <2>2. \A d \in Calls \ {c} : Stands(d)
    BY <1>5 DEF ApproveRead, Goto, End
  <2>3. pc[c] \in Suggested => pc'[c] \in Suggested
    BY <1>5 DEF ApproveRead, Goto, End
  <2>4. pc[c] \in Reported => pc'[c] \in Reported
    BY <1>5 DEF ApproveRead, Goto, End
  <2>5. pc'[c] = "rewrite" => MakeMission(c)
    BY <1>5 DEF ApproveRead, Goto, End
  <2>6. pc[c] = "rewrite" => Rewrite(c) \/ Die(c)
    BY <1>5 DEF ApproveRead, Goto, End
  <2> QED BY <2>1, <2>2, <2>3, <2>4, <2>5, <2>6 DEF Turns, Mover
<1>6. ASSUME NEW c \in Calls, AppendApproved(c) PROVE Turns
  <2>1. serial' = serial /\ pc[c] \notin {"over", "broken"} /\ (pc[c] = "idle" /\ serial => InFlight = {})
    BY <1>6 DEF AppendApproved, MayStart
  <2>2. \A d \in Calls \ {c} : Stands(d)
    BY <1>6 DEF AppendApproved, Goto, End
  <2>3. pc[c] \in Suggested => pc'[c] \in Suggested
    BY <1>6 DEF AppendApproved, Goto, End
  <2>4. pc[c] \in Reported => pc'[c] \in Reported
    BY <1>6 DEF AppendApproved, Goto, End
  <2>5. pc'[c] = "rewrite" => MakeMission(c)
    BY <1>6 DEF AppendApproved, Goto, End
  <2>6. pc[c] = "rewrite" => Rewrite(c) \/ Die(c)
    BY <1>6 DEF AppendApproved, Goto, End
  <2> QED BY <2>1, <2>2, <2>3, <2>4, <2>5, <2>6 DEF Turns, Mover
<1>7. ASSUME NEW c \in Calls, AppendItem(c) PROVE Turns
  <2>1. serial' = serial /\ pc[c] \notin {"over", "broken"} /\ (pc[c] = "idle" /\ serial => InFlight = {})
    BY <1>7 DEF AppendItem, MayStart
  <2>2. \A d \in Calls \ {c} : Stands(d)
    BY <1>7 DEF AppendItem, Goto, End
  <2>3. pc[c] \in Suggested => pc'[c] \in Suggested
    BY <1>7 DEF AppendItem, Goto, End
  <2>4. pc[c] \in Reported => pc'[c] \in Reported
    BY <1>7 DEF AppendItem, Goto, End
  <2>5. pc'[c] = "rewrite" => MakeMission(c)
    BY <1>7 DEF AppendItem, Goto, End
  <2>6. pc[c] = "rewrite" => Rewrite(c) \/ Die(c)
    BY <1>7 DEF AppendItem, Goto, End
  <2> QED BY <2>1, <2>2, <2>3, <2>4, <2>5, <2>6 DEF Turns, Mover
<1>8. ASSUME NEW c \in Calls, RejectRead(c) PROVE Turns
  <2>1. serial' = serial /\ pc[c] \notin {"over", "broken"} /\ (pc[c] = "idle" /\ serial => InFlight = {})
    BY <1>8 DEF RejectRead, MayStart
  <2>2. \A d \in Calls \ {c} : Stands(d)
    BY <1>8 DEF RejectRead, Goto, End
  <2>3. pc[c] \in Suggested => pc'[c] \in Suggested
    BY <1>8 DEF RejectRead, Goto, End
  <2>4. pc[c] \in Reported => pc'[c] \in Reported
    BY <1>8 DEF RejectRead, Goto, End
  <2>5. pc'[c] = "rewrite" => MakeMission(c)
    BY <1>8 DEF RejectRead, Goto, End
  <2>6. pc[c] = "rewrite" => Rewrite(c) \/ Die(c)
    BY <1>8 DEF RejectRead, Goto, End
  <2> QED BY <2>1, <2>2, <2>3, <2>4, <2>5, <2>6 DEF Turns, Mover
<1>9. ASSUME NEW c \in Calls, AppendRejected(c) PROVE Turns
  <2>1. serial' = serial /\ pc[c] \notin {"over", "broken"} /\ (pc[c] = "idle" /\ serial => InFlight = {})
    BY <1>9 DEF AppendRejected, MayStart
  <2>2. \A d \in Calls \ {c} : Stands(d)
    BY <1>9 DEF AppendRejected, Goto, End
  <2>3. pc[c] \in Suggested => pc'[c] \in Suggested
    BY <1>9 DEF AppendRejected, Goto, End
  <2>4. pc[c] \in Reported => pc'[c] \in Reported
    BY <1>9 DEF AppendRejected, Goto, End
  <2>5. pc'[c] = "rewrite" => MakeMission(c)
    BY <1>9 DEF AppendRejected, Goto, End
  <2>6. pc[c] = "rewrite" => Rewrite(c) \/ Die(c)
    BY <1>9 DEF AppendRejected, Goto, End
  <2> QED BY <2>1, <2>2, <2>3, <2>4, <2>5, <2>6 DEF Turns, Mover
<1>10. ASSUME NEW c \in Calls, RevokeRead(c) PROVE Turns
  <2>1. serial' = serial /\ pc[c] \notin {"over", "broken"} /\ (pc[c] = "idle" /\ serial => InFlight = {})
    BY <1>10 DEF RevokeRead, MayStart
  <2>2. \A d \in Calls \ {c} : Stands(d)
    BY <1>10 DEF RevokeRead, Goto, End
  <2>3. pc[c] \in Suggested => pc'[c] \in Suggested
    BY <1>10 DEF RevokeRead, Goto, End
  <2>4. pc[c] \in Reported => pc'[c] \in Reported
    BY <1>10 DEF RevokeRead, Goto, End
  <2>5. pc'[c] = "rewrite" => MakeMission(c)
    BY <1>10 DEF RevokeRead, Goto, End
  <2>6. pc[c] = "rewrite" => Rewrite(c) \/ Die(c)
    BY <1>10 DEF RevokeRead, Goto, End
  <2> QED BY <2>1, <2>2, <2>3, <2>4, <2>5, <2>6 DEF Turns, Mover
<1>11. ASSUME NEW c \in Calls, AppendRevoked(c) PROVE Turns
  <2>1. serial' = serial /\ pc[c] \notin {"over", "broken"} /\ (pc[c] = "idle" /\ serial => InFlight = {})
    BY <1>11 DEF AppendRevoked, MayStart
  <2>2. \A d \in Calls \ {c} : Stands(d)
    BY <1>11 DEF AppendRevoked, Goto, End
  <2>3. pc[c] \in Suggested => pc'[c] \in Suggested
    BY <1>11 DEF AppendRevoked, Goto, End
  <2>4. pc[c] \in Reported => pc'[c] \in Reported
    BY <1>11 DEF AppendRevoked, Goto, End
  <2>5. pc'[c] = "rewrite" => MakeMission(c)
    BY <1>11 DEF AppendRevoked, Goto, End
  <2>6. pc[c] = "rewrite" => Rewrite(c) \/ Die(c)
    BY <1>11 DEF AppendRevoked, Goto, End
  <2> QED BY <2>1, <2>2, <2>3, <2>4, <2>5, <2>6 DEF Turns, Mover
<1>12. ASSUME NEW c \in Calls, ChatStarts(c) PROVE Turns
  <2>1. serial' = serial /\ pc[c] \notin {"over", "broken"} /\ (pc[c] = "idle" /\ serial => InFlight = {})
    BY <1>12 DEF ChatStarts, MayStart
  <2>2. \A d \in Calls \ {c} : Stands(d)
    BY <1>12 DEF ChatStarts, MayStart, Goto, End
  <2>3. pc[c] \in Suggested => pc'[c] \in Suggested
    BY <1>12 DEF ChatStarts, MayStart, Goto, End
  <2>4. pc[c] \in Reported => pc'[c] \in Reported
    BY <1>12 DEF ChatStarts, MayStart, Goto, End
  <2>5. pc'[c] = "rewrite" => MakeMission(c)
    BY <1>12 DEF ChatStarts, MayStart, Goto, End
  <2>6. pc[c] = "rewrite" => Rewrite(c) \/ Die(c)
    BY <1>12 DEF ChatStarts, MayStart, Goto, End
  <2> QED BY <2>1, <2>2, <2>3, <2>4, <2>5, <2>6 DEF Turns, Mover
<1>13. ASSUME NEW c \in Calls, AcceptStarts(c) PROVE Turns
  <2>1. serial' = serial /\ pc[c] \notin {"over", "broken"} /\ (pc[c] = "idle" /\ serial => InFlight = {})
    BY <1>13 DEF AcceptStarts, MayStart
  <2>2. \A d \in Calls \ {c} : Stands(d)
    BY <1>13 DEF AcceptStarts, MayStart, Goto, End
  <2>3. pc[c] \in Suggested => pc'[c] \in Suggested
    BY <1>13 DEF AcceptStarts, MayStart, Goto, End
  <2>4. pc[c] \in Reported => pc'[c] \in Reported
    BY <1>13 DEF AcceptStarts, MayStart, Goto, End
  <2>5. pc'[c] = "rewrite" => MakeMission(c)
    BY <1>13 DEF AcceptStarts, MayStart, Goto, End
  <2>6. pc[c] = "rewrite" => Rewrite(c) \/ Die(c)
    BY <1>13 DEF AcceptStarts, MayStart, Goto, End
  <2> QED BY <2>1, <2>2, <2>3, <2>4, <2>5, <2>6 DEF Turns, Mover
<1>14. ASSUME NEW c \in Calls, ReadHost(c) PROVE Turns
  <2>1. serial' = serial /\ pc[c] \notin {"over", "broken"} /\ (pc[c] = "idle" /\ serial => InFlight = {})
    BY <1>14 DEF ReadHost, MayStart
  <2>2. \A d \in Calls \ {c} : Stands(d)
    BY <1>14 DEF ReadHost, Goto, End
  <2>3. pc[c] \in Suggested => pc'[c] \in Suggested
    BY <1>14 DEF ReadHost, Goto, End
  <2>4. pc[c] \in Reported => pc'[c] \in Reported
    BY <1>14 DEF ReadHost, Goto, End
  <2>5. pc'[c] = "rewrite" => MakeMission(c)
    BY <1>14 DEF ReadHost, Goto, End
  <2>6. pc[c] = "rewrite" => Rewrite(c) \/ Die(c)
    BY <1>14 DEF ReadHost, Goto, End
  <2> QED BY <2>1, <2>2, <2>3, <2>4, <2>5, <2>6 DEF Turns, Mover
<1>15. ASSUME NEW c \in Calls, CreateHost(c) PROVE Turns
  <2>1. serial' = serial /\ pc[c] \notin {"over", "broken"} /\ (pc[c] = "idle" /\ serial => InFlight = {})
    BY <1>15 DEF CreateHost, MayStart
  <2>2. \A d \in Calls \ {c} : Stands(d)
    BY <1>15 DEF CreateHost, Goto, End
  <2>3. pc[c] \in Suggested => pc'[c] \in Suggested
    BY <1>15 DEF CreateHost, Goto, End
  <2>4. pc[c] \in Reported => pc'[c] \in Reported
    BY <1>15 DEF CreateHost, Goto, End
  <2>5. pc'[c] = "rewrite" => MakeMission(c)
    BY <1>15 DEF CreateHost, Goto, End
  <2>6. pc[c] = "rewrite" => Rewrite(c) \/ Die(c)
    BY <1>15 DEF CreateHost, Goto, End
  <2> QED BY <2>1, <2>2, <2>3, <2>4, <2>5, <2>6 DEF Turns, Mover
<1>16. ASSUME NEW c \in Calls, WriteMeta(c) PROVE Turns
  <2>1. serial' = serial /\ pc[c] \notin {"over", "broken"} /\ (pc[c] = "idle" /\ serial => InFlight = {})
    BY <1>16 DEF WriteMeta, MayStart
  <2>2. \A d \in Calls \ {c} : Stands(d)
    BY <1>16 DEF WriteMeta, Goto, End
  <2>3. pc[c] \in Suggested => pc'[c] \in Suggested
    BY <1>16 DEF WriteMeta, Goto, End
  <2>4. pc[c] \in Reported => pc'[c] \in Reported
    BY <1>16 DEF WriteMeta, Goto, End
  <2>5. pc'[c] = "rewrite" => MakeMission(c)
    BY <1>16 DEF WriteMeta, Goto, End
  <2>6. pc[c] = "rewrite" => Rewrite(c) \/ Die(c)
    BY <1>16 DEF WriteMeta, Goto, End
  <2> QED BY <2>1, <2>2, <2>3, <2>4, <2>5, <2>6 DEF Turns, Mover
<1>17. ASSUME NEW c \in Calls, Recall(c) PROVE Turns
  <2>1. serial' = serial /\ pc[c] \notin {"over", "broken"} /\ (pc[c] = "idle" /\ serial => InFlight = {})
    BY <1>17 DEF Recall, MayStart
  <2>2. \A d \in Calls \ {c} : Stands(d)
    BY <1>17 DEF Recall, Goto, End
  <2>3. pc[c] \in Suggested => pc'[c] \in Suggested
    BY <1>17 DEF Recall, Goto, End
  <2>4. pc[c] \in Reported => pc'[c] \in Reported
    BY <1>17 DEF Recall, Goto, End
  <2>5. pc'[c] = "rewrite" => MakeMission(c)
    BY <1>17 DEF Recall, Goto, End
  <2>6. pc[c] = "rewrite" => Rewrite(c) \/ Die(c)
    BY <1>17 DEF Recall, Goto, End
  <2> QED BY <2>1, <2>2, <2>3, <2>4, <2>5, <2>6 DEF Turns, Mover
<1>18. ASSUME NEW c \in Calls, Answers(c) PROVE Turns
  <2>1. serial' = serial /\ pc[c] \notin {"over", "broken"} /\ (pc[c] = "idle" /\ serial => InFlight = {})
    BY <1>18 DEF Answers, MayStart
  <2>2. \A d \in Calls \ {c} : Stands(d)
    BY <1>18 DEF Answers, Goto, End
  <2>3. pc[c] \in Suggested => pc'[c] \in Suggested
    BY <1>18 DEF Answers, Goto, End
  <2>4. pc[c] \in Reported => pc'[c] \in Reported
    BY <1>18 DEF Answers, Goto, End
  <2>5. pc'[c] = "rewrite" => MakeMission(c)
    BY <1>18 DEF Answers, Goto, End
  <2>6. pc[c] = "rewrite" => Rewrite(c) \/ Die(c)
    BY <1>18 DEF Answers, Goto, End
  <2> QED BY <2>1, <2>2, <2>3, <2>4, <2>5, <2>6 DEF Turns, Mover
<1>19. ASSUME NEW c \in Calls, Suggest(c) PROVE Turns
  <2>1. serial' = serial /\ pc[c] \notin {"over", "broken"} /\ (pc[c] = "idle" /\ serial => InFlight = {})
    BY <1>19 DEF Suggest, MayStart
  <2>2. \A d \in Calls \ {c} : Stands(d)
    BY <1>19 DEF Suggest, Goto, End
  <2>3. pc[c] \in Suggested => pc'[c] \in Suggested
    BY <1>19 DEF Suggest, Goto, End
  <2>4. pc[c] \in Reported => pc'[c] \in Reported
    BY <1>19 DEF Suggest, Goto, End
  <2>5. pc'[c] = "rewrite" => MakeMission(c)
    BY <1>19 DEF Suggest, Goto, End
  <2>6. pc[c] = "rewrite" => Rewrite(c) \/ Die(c)
    BY <1>19 DEF Suggest, Goto, End
  <2> QED BY <2>1, <2>2, <2>3, <2>4, <2>5, <2>6 DEF Turns, Mover
<1>20. ASSUME NEW c \in Calls, Remember(c) PROVE Turns
  <2>1. serial' = serial /\ pc[c] \notin {"over", "broken"} /\ (pc[c] = "idle" /\ serial => InFlight = {})
    BY <1>20 DEF Remember, MayStart
  <2>2. \A d \in Calls \ {c} : Stands(d)
    BY <1>20 DEF Remember, Goto, End
  <2>3. pc[c] \in Suggested => pc'[c] \in Suggested
    BY <1>20 DEF Remember, Goto, End
  <2>4. pc[c] \in Reported => pc'[c] \in Reported
    BY <1>20 DEF Remember, Goto, End
  <2>5. pc'[c] = "rewrite" => MakeMission(c)
    BY <1>20 DEF Remember, Goto, End
  <2>6. pc[c] = "rewrite" => Rewrite(c) \/ Die(c)
    BY <1>20 DEF Remember, Goto, End
  <2> QED BY <2>1, <2>2, <2>3, <2>4, <2>5, <2>6 DEF Turns, Mover
<1>21. ASSUME NEW c \in Calls, Reply(c) PROVE Turns
  <2>1. serial' = serial /\ pc[c] \notin {"over", "broken"} /\ (pc[c] = "idle" /\ serial => InFlight = {})
    BY <1>21 DEF Reply, MayStart
  <2>2. \A d \in Calls \ {c} : Stands(d)
    BY <1>21 DEF Reply, Goto, End
  <2>3. pc[c] \in Suggested => pc'[c] \in Suggested
    BY <1>21 DEF Reply, Goto, End
  <2>4. pc[c] \in Reported => pc'[c] \in Reported
    BY <1>21 DEF Reply, Goto, End
  <2>5. pc'[c] = "rewrite" => MakeMission(c)
    BY <1>21 DEF Reply, Goto, End
  <2>6. pc[c] = "rewrite" => Rewrite(c) \/ Die(c)
    BY <1>21 DEF Reply, Goto, End
  <2> QED BY <2>1, <2>2, <2>3, <2>4, <2>5, <2>6 DEF Turns, Mover
<1>22. ASSUME NEW c \in Calls, MakeMission(c) PROVE Turns
  <2>1. serial' = serial /\ pc[c] \notin {"over", "broken"} /\ (pc[c] = "idle" /\ serial => InFlight = {})
    BY <1>22 DEF MakeMission, MayStart
  <2>2. \A d \in Calls \ {c} : Stands(d)
    BY <1>22 DEF MakeMission, Goto, End
  <2>3. pc[c] \in Suggested => pc'[c] \in Suggested
    BY <1>22 DEF MakeMission, Goto, End
  <2>4. pc[c] \in Reported => pc'[c] \in Reported
    BY <1>22 DEF MakeMission, Goto, End
  <2>5. pc'[c] = "rewrite" => MakeMission(c)
    BY <1>22 DEF MakeMission, Goto, End
  <2>6. pc[c] = "rewrite" => Rewrite(c) \/ Die(c)
    BY <1>22 DEF MakeMission, Goto, End
  <2> QED BY <2>1, <2>2, <2>3, <2>4, <2>5, <2>6 DEF Turns, Mover
<1>23. ASSUME NEW c \in Calls, Rewrite(c) PROVE Turns
  <2>1. serial' = serial /\ pc[c] \notin {"over", "broken"} /\ (pc[c] = "idle" /\ serial => InFlight = {})
    BY <1>23 DEF Rewrite, MayStart
  <2>2. \A d \in Calls \ {c} : Stands(d)
    BY <1>23 DEF Rewrite, Goto, End
  <2>3. pc[c] \in Suggested => pc'[c] \in Suggested
    BY <1>23 DEF Rewrite, Goto, End
  <2>4. pc[c] \in Reported => pc'[c] \in Reported
    BY <1>23 DEF Rewrite, Goto, End
  <2>5. pc'[c] = "rewrite" => MakeMission(c)
    BY <1>23 DEF Rewrite, Goto, End
  <2>6. pc[c] = "rewrite" => Rewrite(c) \/ Die(c)
    BY <1>23 DEF Rewrite, Goto, End
  <2> QED BY <2>1, <2>2, <2>3, <2>4, <2>5, <2>6 DEF Turns, Mover
<1>24. ASSUME NEW c \in Calls, Die(c) PROVE Turns
  <2>1. serial' = serial /\ pc[c] \notin {"over", "broken"} /\ (pc[c] = "idle" /\ serial => InFlight = {})
    BY <1>24 DEF Die, InFlight
  <2>2. \A d \in Calls \ {c} : Stands(d)
    BY <1>24 DEF Die, InFlight, Goto, Break
  <2>3. pc[c] \in Suggested => pc'[c] \in Suggested
    BY <1>24 DEF Die, InFlight, Goto, Break
  <2>4. pc[c] \in Reported => pc'[c] \in Reported
    BY <1>24 DEF Die, InFlight, Goto, Break
  <2>5. pc'[c] = "rewrite" => MakeMission(c)
    BY <1>24 DEF Die, InFlight, Goto, Break
  <2>6. pc[c] = "rewrite" => Rewrite(c) \/ Die(c)
    BY <1>24 DEF Die, InFlight, Goto, Break
  <2> QED BY <2>1, <2>2, <2>3, <2>4, <2>5, <2>6 DEF Turns, Mover
<1>28. ASSUME NEW c \in Calls, SkipLine(c) PROVE Turns
  <2>1. serial' = serial /\ pc[c] \notin {"over", "broken"} /\ (pc[c] = "idle" /\ serial => InFlight = {})
    BY <1>28 DEF SkipLine
  <2>2. \A d \in Calls \ {c} : Stands(d)
    BY <1>28 DEF SkipLine, Goto
  <2>3. pc[c] \in Suggested => pc'[c] \in Suggested
    BY <1>28 DEF SkipLine, Goto
  <2>4. pc[c] \in Reported => pc'[c] \in Reported
    BY <1>28 DEF SkipLine, Goto
  <2>5. pc'[c] = "rewrite" => MakeMission(c)
    BY <1>28 DEF SkipLine, Goto
  <2>6. pc[c] = "rewrite" => Rewrite(c) \/ Die(c)
    BY <1>28 DEF SkipLine, Goto
  <2> QED BY <2>1, <2>2, <2>3, <2>4, <2>5, <2>6 DEF Turns, Mover
<1>29. ASSUME NEW c \in Calls, TurnThrows(c) PROVE Turns
  <2>1. serial' = serial /\ pc[c] \notin {"over", "broken"} /\ (pc[c] = "idle" /\ serial => InFlight = {})
    BY <1>29 DEF TurnThrows
  <2>2. \A d \in Calls \ {c} : Stands(d)
    BY <1>29 DEF TurnThrows, Goto, Break
  <2>3. pc[c] \in Suggested => pc'[c] \in Suggested
    BY <1>29 DEF TurnThrows, Goto, Break
  <2>4. pc[c] \in Reported => pc'[c] \in Reported
    BY <1>29 DEF TurnThrows, Goto, Break
  <2>5. pc'[c] = "rewrite" => MakeMission(c)
    BY <1>29 DEF TurnThrows, Goto, Break
  <2>6. pc[c] = "rewrite" => Rewrite(c) \/ Die(c)
    BY <1>29 DEF TurnThrows, Goto, Break
  <2> QED BY <2>1, <2>2, <2>3, <2>4, <2>5, <2>6 DEF Turns, Mover
<1>25. CASE Tick
  BY <1>25 DEF Tick, Turns
<1>26. CASE EditStorage
  BY <1>26 DEF EditStorage, Turns
<1>27. CASE UNCHANGED vars
  BY <1>27 DEF vars, memoryVars, Turns
<1> QED
  BY <1>1, <1>2, <1>3, <1>4, <1>5, <1>6, <1>7, <1>8, <1>9, <1>10, <1>11,
     <1>12, <1>13, <1>14, <1>15, <1>16, <1>17, <1>18, <1>19, <1>20, <1>21,
     <1>22, <1>23, <1>24, <1>25, <1>26, <1>27, <1>28, <1>29
  DEF Next, NextMemory, Command

(* Calls that do not overlap: at most one is under way.                    *)
Alone == serial => \A c, d \in InFlight : c = d

LEMMA AloneNext == Alone /\ Turns => Alone'
<1> SUFFICES ASSUME Alone, Turns, serial', NEW c \in InFlight', NEW d \in InFlight' PROVE c = d
  BY DEF Alone
<1>1. serial /\ c \in Calls /\ d \in Calls
  BY DEF Turns, InFlight
<1>2. CASE pc' = pc
  BY <1>1, <1>2 DEF Alone, InFlight
<1>3. ASSUME NEW m \in Calls, Mover(m) PROVE c = d
  <2>1. \A e \in InFlight' : e = m \/ e \in InFlight
    BY <1>3 DEF InFlight, Mover, Stands
  <2>2. m \in InFlight \/ InFlight = {}
    BY <1>1, <1>3 DEF Mover, InFlight
  <2> QED BY <1>1, <2>1, <2>2 DEF Alone
<1> QED BY <1>2, <1>3 DEF Turns
-----------------------------------------------------------------------------
(* The missions made of a suggestion.                                      *)
Made(s) == {m \in missions : m[1] = s}

(* An accepted row names a mission that was made of it.                    *)
Truthful(rows) ==
  \A i \in DOMAIN rows : rows[i].status = "accepted" =>
    <<rows[i].id, rows[i].mission[1]>> \in missions

(* What a call that accepts knows: its rows are truthful, and the mission  *)
(* is made before they are written.                                        *)
Honest(c) ==
  /\ pc[c] \in Choosing => Truthful(at[c].prev)
  /\ pc[c] = "rewrite" => <<Candidate(c), c>> \in missions

(* One command at a time the rows it holds are those of the file, and its  *)
(* candidate is proposed still.                                            *)
Held(c) ==
  pc[c] \in Choosing =>
    at[c].prev = suggestions /\ suggestions[at[c].row].status = "proposed"

(* The one mission too many that a proposed row may be charged with while  *)
(* the call that made it has not written the rows back.                    *)
Pending(i) == \E c \in Calls : pc[c] = "rewrite" /\ at[c].row = i
Charge(i) == IF Pending(i) THEN 1 ELSE 0

Tally ==
  /\ \A i, j \in DOMAIN suggestions : suggestions[i].id = suggestions[j].id => i = j
  /\ \A i \in DOMAIN suggestions : pc[suggestions[i].id] \in Suggested
  /\ \A m \in missions : pc[m[1]] \in Suggested
  /\ \A c \in Calls : Held(c)
  /\ \A s \in Calls : Cardinality(Made(s)) <= 1 + deaths
  /\ \A i \in DOMAIN suggestions : suggestions[i].status = "proposed" =>
       Cardinality(Made(suggestions[i].id)) <= deaths + Charge(i)

SuggestInv ==
  /\ OfferInv /\ Alone /\ deaths \in Nat /\ IsFiniteSet(missions)
  /\ Truthful(suggestions) /\ \A c \in Calls : Honest(c)
  /\ serial => Tally

(* SuggestInv holds at the start.                                          *)
LEMMA SuggestInit == Init => SuggestInv
<1> SUFFICES ASSUME Init PROVE SuggestInv
  OBVIOUS
<1>1. suggestions = <<>> /\ missions = {} /\ deaths = 0 /\ pc = [c \in Calls |-> "idle"]
  BY DEF Init, InitMemory
<1>2. IsFiniteSet(missions) /\ \A s \in Calls : Made(s) = {} /\ Cardinality(Made(s)) = 0
  BY <1>1, FS_EmptySet DEF Made
<1>3. Tally
  BY <1>1, <1>2 DEF Tally, Held, Choosing
<1> QED BY <1>1, <1>2, <1>3, OfferInit DEF SuggestInv, Truthful, Honest, Choosing, Alone, InFlight

(* The missions of a suggestion are finitely many.                         *)
LEMMA MadeCounted ==
  ASSUME IsFiniteSet(missions), NEW s
  PROVE  IsFiniteSet(Made(s)) /\ Cardinality(Made(s)) \in Nat
<1>1. Made(s) \subseteq missions
  BY DEF Made
<1> QED BY <1>1, FS_Subset, FS_CardinalityType

(* The rows a call writes back: its candidate accepted, the others as they *)
(* were.                                                                   *)
LEMMA AcceptedIs ==
  ASSUME OfferInv, NEW c \in Calls, pc[c] \in Choosing
  PROVE  /\ DOMAIN AcceptedRows(c) = DOMAIN at[c].prev /\ at[c].row \in DOMAIN at[c].prev
         /\ \A i \in DOMAIN at[c].prev :
              /\ AcceptedRows(c)[i].id = at[c].prev[i].id
              /\ i # at[c].row => AcceptedRows(c)[i] = at[c].prev[i]
         /\ AcceptedRows(c)[at[c].row].status = "accepted"
         /\ AcceptedRows(c)[at[c].row].mission[1] = c
<1> DEFINE s == at[c].prev
           r == at[c].row
           row == [s[r] EXCEPT !.status = "accepted", !.mission = <<c>>]
<1>1. s \in Seq(Suggestion) /\ r \in DOMAIN s
  BY DEF OfferInv, Chosen
<1>2. s[r] \in Suggestion
  BY <1>1
<1>3. AcceptedRows(c) = [s EXCEPT ![r] = row]
  BY <1>1 DEF AcceptedRows
<1>4. row.id = s[r].id /\ row.status = "accepted" /\ row.mission[1] = c
  <2> HIDE DEF s, r
  <2> QED BY <1>2 DEF Suggestion
<1> HIDE DEF row
<1> QED BY <1>1, <1>3, <1>4

(* What becomes of suggestions.jsonl in a step: it stays, a proposal of a  *)
(* turn is added, or a call that accepts writes its rows, or some of them. *)
Written(c, n) ==
  /\ pc[c] = "rewrite" /\ pc'[c] \in {"over", "broken"}
  /\ suggestions' \in Seq(Suggestion) /\ DOMAIN suggestions' = 1..n /\ n \in 0..Len(AcceptedRows(c))
  /\ \A i \in 1..n : suggestions'[i] = AcceptedRows(c)[i]
  /\ n = Len(AcceptedRows(c)) \/ deaths' = deaths + 1

LEMMA SuggestionsMove ==
  ASSUME OfferInv, [Next]_vars
  PROVE  \/ suggestions' = suggestions
         \/ \E c \in Calls : Suggest(c)
         \/ missions' = missions /\ \E c \in Calls, n \in Nat : Written(c, n)
<1>1. Weighed
  BY StepWeighs DEF OfferInv
<1>2. ASSUME NEW c \in Calls, Rewrite(c) PROVE Written(c, Len(AcceptedRows(c))) /\ missions' = missions
  <2>1. pc[c] = "rewrite" /\ suggestions' = AcceptedRows(c) /\ pc'[c] = "over" /\ missions' = missions
    BY <1>2 DEF Rewrite, End, Goto, OfferInv, Shaped
  <2>2. AcceptedRows(c) \in Seq(Suggestion)
    BY <2>1, RowsAccepted DEF Choosing
  <2> QED BY <2>1, <2>2 DEF Written
<1>3. ASSUME NEW c \in Calls, Die(c), suggestions' # suggestions
      PROVE  \E n \in Nat : Written(c, n) /\ missions' = missions
  <2>1. pc[c] = "rewrite" /\ pc'[c] = "broken" /\ missions' = missions /\ deaths' = deaths + 1
    BY <1>3 DEF Die, Break, Goto, OfferInv, Shaped
  <2>2. PICK n \in 0..(Len(AcceptedRows(c)) - 1) : suggestions' = SubSeq(AcceptedRows(c), 1, n)
    BY <1>3 DEF Die
  <2>3. AcceptedRows(c) \in Seq(Suggestion)
    BY <2>1, RowsAccepted DEF Choosing
  <2>4. n \in Nat /\ n <= Len(AcceptedRows(c)) /\ Len(AcceptedRows(c)) \in Nat
    BY <2>2, <2>3
  <2>5. suggestions' \in Seq(Suggestion) /\ DOMAIN suggestions' = 1..n
        /\ \A i \in 1..n : suggestions'[i] = AcceptedRows(c)[i]
    BY <2>2, <2>3, <2>4
  <2>6. Written(c, n)
    BY <2>1, <2>4, <2>5 DEF Written
  <2> QED BY <2>1, <2>4, <2>6
<1>4. \A c \in Calls : Rewrite(c) => Len(AcceptedRows(c)) \in Nat
  BY RowsAccepted DEF Rewrite, Choosing
<1> QED BY <1>1, <1>2, <1>3, <1>4 DEF Weighed

LEMMA RewriteWrites ==
  ASSUME OfferInv, NEW c \in Calls, Rewrite(c)
  PROVE  Written(c, Len(AcceptedRows(c))) /\ Len(AcceptedRows(c)) \in Nat
<1>1. pc[c] = "rewrite" /\ suggestions' = AcceptedRows(c) /\ pc'[c] = "over"
  BY DEF Rewrite, End, Goto, OfferInv, Shaped
<1>2. AcceptedRows(c) \in Seq(Suggestion)
  BY <1>1, RowsAccepted DEF Choosing
<1> QED BY <1>1, <1>2 DEF Written

(* What becomes of the missions made.                                      *)
LEMMA MissionsMove ==
  ASSUME OfferInv, deaths \in Nat, [Next]_vars
  PROVE  /\ deaths' \in Nat /\ deaths <= deaths'
         /\ \/ missions' = missions
            \/ \E c \in Calls : MakeMission(c) /\ missions' = missions \union {<<Candidate(c), c>>}
<1>1. Weighed /\ Talked
  BY StepWeighs, StepTalks DEF OfferInv
<1> QED BY <1>1 DEF Weighed, Talked, MakeMission

(* Every step keeps the rows truthful, those of the file and those held.   *)
LEMMA TruthNext ==
  ASSUME SuggestInv, [Next]_vars
  PROVE  Truthful(suggestions)' /\ \A c \in Calls : Honest(c)'
<1>0. OfferInv /\ deaths \in Nat /\ Truthful(suggestions) /\ \A c \in Calls : Honest(c)
  BY DEF SuggestInv
<1>1. missions \subseteq missions'
  BY <1>0, MissionsMove
<1>2. Turns /\ Weighed
  BY <1>0, StepTurns, StepWeighs DEF OfferInv
<1>3. Truthful(suggestions)'
  <2>1. CASE suggestions' = suggestions
    BY <1>0, <1>1, <2>1 DEF Truthful
  <2>2. ASSUME NEW c \in Calls, Suggest(c) PROVE Truthful(suggestions)'
    <3>1. PICK row : row = [id |-> c, status |-> "proposed", mission |-> <<>>]
      OBVIOUS
    <3>2. suggestions' = suggestions \/ suggestions' = Append(suggestions, row)
      BY <2>2, <3>1 DEF Suggest
    <3>3. row \in Suggestion /\ row.status # "accepted"
      BY <3>1 DEF Suggestion
    <3>4. CASE suggestions' = Append(suggestions, row)
      <4>1. \A i \in DOMAIN suggestions' : \/ i \in DOMAIN suggestions /\ suggestions'[i] = suggestions[i]
                                           \/ suggestions'[i] = row
        BY <1>0, <3>3, <3>4, Appended DEF OfferInv
      <4> QED BY <1>0, <1>1, <3>3, <4>1 DEF Truthful
    <3> QED BY <2>1, <3>2, <3>4
  <2>3. ASSUME NEW c \in Calls, NEW n \in Nat, Written(c, n) PROVE Truthful(suggestions)'
    <3>1. pc[c] \in Choosing /\ Truthful(at[c].prev) /\ <<Candidate(c), c>> \in missions
      BY <1>0, <2>3 DEF Written, Honest, Choosing
    <3>2. /\ DOMAIN AcceptedRows(c) = DOMAIN at[c].prev /\ at[c].row \in DOMAIN at[c].prev
          /\ \A i \in DOMAIN at[c].prev :
               /\ AcceptedRows(c)[i].id = at[c].prev[i].id
               /\ i # at[c].row => AcceptedRows(c)[i] = at[c].prev[i]
          /\ AcceptedRows(c)[at[c].row].mission[1] = c
      BY <1>0, <3>1, AcceptedIs
    <3>3. AcceptedRows(c) \in Seq(Suggestion)
      BY <1>0, <3>1, RowsAccepted
    <3>4. \A i \in DOMAIN suggestions' : i \in DOMAIN at[c].prev /\ suggestions'[i] = AcceptedRows(c)[i]
      BY <2>3, <3>2, <3>3 DEF Written
    <3>5. Candidate(c) = at[c].prev[at[c].row].id
      BY DEF Candidate
    <3>6. ASSUME NEW i \in DOMAIN suggestions', suggestions'[i].status = "accepted"
          PROVE  <<suggestions'[i].id, suggestions'[i].mission[1]>> \in missions'
      <4>1. CASE i = at[c].row
        BY <1>1, <3>1, <3>2, <3>4, <3>5, <4>1
      <4>2. CASE i # at[c].row
        BY <1>1, <3>1, <3>2, <3>4, <3>6, <4>2 DEF Truthful
      <4> QED BY <4>1, <4>2
    <3> QED BY <3>6 DEF Truthful
  <2> QED BY <1>0, <2>1, <2>2, <2>3, SuggestionsMove
<1>4. ASSUME NEW d \in Calls PROVE Honest(d)'
  <2>1. ASSUME pc'[d] \in Choosing PROVE Truthful(at[d].prev)'
    <3>1. CASE pc[d] \in Choosing /\ at'[d] = at[d]
      BY <1>0, <1>1, <3>1 DEF Honest, Truthful
    <3>2. CASE AcceptStarts(d)
      <4>1. suggestions' = suggestions
        BY <3>2 DEF AcceptStarts, companion
      <4>2. at'[d].prev = suggestions'
        BY <3>2, <2>1, <4>1 DEF AcceptStarts, Goto, OfferInv, SuggestInv, Shaped, Nothing, Choosing
      <4> QED BY <1>3, <4>2 DEF Truthful
    <3> QED BY <1>2, <2>1, <3>1, <3>2 DEF Weighed
  <2>2. ASSUME pc'[d] = "rewrite" PROVE <<Candidate(d), d>>' \in missions'
    <3>1. CASE Stands(d)
      <4>1. pc[d] = "rewrite" /\ Candidate(d)' = Candidate(d)
        BY <2>2, <3>1 DEF Stands, Candidate
      <4> QED BY <1>0, <1>1, <4>1 DEF Honest
    <3>2. CASE MakeMission(d)
      BY <3>2 DEF MakeMission, Candidate
    <3> QED BY <1>2, <2>2, <3>1, <3>2 DEF Turns
  <2> QED BY <2>1, <2>2 DEF Honest
<1> QED BY <1>3, <1>4

(* A suggestion has the name of the turn that made it.                     *)
LEMMA RowIds ==
  ASSUME OfferInv
  PROVE  \A i \in DOMAIN suggestions : suggestions[i].id \in Calls
<1>1. \A i \in DOMAIN suggestions : suggestions[i] \in Suggestion
  BY DEF OfferInv
<1> QED BY <1>1 DEF Suggestion

(* One command at a time nobody else writes while a call holds rows.       *)
LEMMA OnlyOne ==
  ASSUME SuggestInv, serial, [Next]_vars, NEW c \in InFlight
  PROVE  /\ \A d \in Calls : Suggest(d) \/ MakeMission(d) \/ pc[d] \in Choosing => d = c
         /\ \A d \in Calls : Pending(at[d].row) => pc[c] = "rewrite"
<1>1. \A d \in Calls : Suggest(d) \/ MakeMission(d) \/ pc[d] \in Choosing => d \in InFlight
  BY DEF Suggest, MakeMission, Choosing, InFlight
<1>2. \A d \in InFlight : d = c
  BY DEF SuggestInv, Alone
<1>3. \A d \in Calls : pc[d] = "rewrite" => d \in InFlight
  BY DEF InFlight
<1> QED BY <1>1, <1>2, <1>3 DEF Pending

(* A call keeps holding the rows of the file.                              *)
LEMMA HeldNext ==
  ASSUME SuggestInv, serial, Tally, [Next]_vars, NEW d \in Calls
  PROVE  Held(d)'
<1>0. OfferInv /\ Held(d)
  BY DEF SuggestInv, Tally
<1>1. Turns /\ Weighed
  BY <1>0, StepTurns, StepWeighs DEF OfferInv
<1> SUFFICES ASSUME pc'[d] \in Choosing
             PROVE  at'[d].prev = suggestions' /\ suggestions'[at'[d].row].status = "proposed"
  BY DEF Held
<1>2. CASE pc[d] \in Choosing /\ at'[d] = at[d]
  <2>1. d \in InFlight /\ pc[d] # "suggest" /\ pc'[d] # "over"
    BY <1>2 DEF Choosing, InFlight
  <2>2. \A c \in Calls : ~Suggest(c)
    BY <2>1, OnlyOne DEF Suggest
  <2>3. \A c \in Calls, n \in Nat : ~Written(c, n)
    BY <2>1, OnlyOne DEF Written, Choosing
  <2>4. suggestions' = suggestions
    BY <1>0, <2>2, <2>3, SuggestionsMove
  <2> QED BY <1>0, <1>2, <2>4 DEF Held
<1>3. CASE AcceptStarts(d)
  <2> DEFINE P == Proposed(suggestions)
  <2>1. suggestions' = suggestions
    BY <1>3 DEF AcceptStarts, companion
  <2>2. P # {} /\ at'[d].prev = suggestions /\ at'[d].row = Max(P)
    BY <1>0, <1>3 DEF AcceptStarts, Goto, OfferInv, Shaped, Nothing, Choosing
  <2>3. P \subseteq Nat /\ (\A i \in P : i <= Len(suggestions)) /\ Len(suggestions) \in Nat
    BY <1>0 DEF Proposed, OfferInv
  <2>4. \E m \in P : \A i \in P : i <= m
    <3> HIDE DEF P
    <3> QED BY <2>2, <2>3, Highest
  <2>5. \E m \in P : \A i \in P : m >= i
    <3> HIDE DEF P
    <3> QED BY <2>3, <2>4
  <2>6. Max(P) \in P
    <3> HIDE DEF P
    <3> QED BY <2>5 DEF Max
  <2> QED BY <2>1, <2>2, <2>6 DEF Proposed
<1> QED BY <1>1, <1>2, <1>3 DEF Weighed

(* A turn that suggests has suggested nothing before.                      *)
LEMMA TallySuggest ==
  ASSUME SuggestInv, serial, Tally, [Next]_vars, NEW c \in Calls, Suggest(c),
         \A d \in Calls : Held(d)'
  PROVE  Tally'
<1>0. OfferInv /\ deaths \in Nat /\ pc[c] = "suggest" /\ pc'[c] = "remember" /\ c \in InFlight
      /\ missions' = missions /\ deaths' = deaths
  BY DEF SuggestInv, Suggest, Goto, OfferInv, Shaped, InFlight
<1>1. /\ \A i \in DOMAIN suggestions : suggestions[i].id # c
      /\ Made(c) = {}
  BY <1>0 DEF Tally, Suggested, Made
<1>2. Turns
  BY <1>0, StepTurns DEF OfferInv
<1>3. PICK row : row = [id |-> c, status |-> "proposed", mission |-> <<>>]
  OBVIOUS
<1>4. row \in Suggestion /\ row.id = c
  BY <1>3 DEF Suggestion
<1>5. \A i \in DOMAIN suggestions' : \/ i \in DOMAIN suggestions /\ suggestions'[i] = suggestions[i]
                                     \/ i = Len(suggestions) + 1 /\ suggestions'[i] = row
  <2>1. CASE suggestions' = Append(suggestions, row)
    BY <1>0, <1>4, <2>1, Appended DEF OfferInv
  <2>2. suggestions' = suggestions \/ suggestions' = Append(suggestions, row)
    BY <1>3 DEF Suggest
  <2> QED BY <2>1, <2>2
<1>6. \A d \in Calls : pc[d] # "rewrite"
  BY <1>0 DEF SuggestInv, Alone, InFlight
<1>7. \A i \in DOMAIN suggestions : Charge(i) = 0
  BY <1>6 DEF Charge, Pending
<1>8. \A i \in DOMAIN suggestions' : Charge(i)' \in {0, 1}
  BY DEF Charge
<1>9. \A s \in Calls : Made(s)' = Made(s) /\ Cardinality(Made(s)) \in Nat
  BY <1>0, MadeCounted DEF Made, SuggestInv
<1>10. \A i \in DOMAIN suggestions : suggestions[i].id \in Calls
  BY <1>0, RowIds
<1>11. \A i \in DOMAIN suggestions' : suggestions'[i].status = "proposed" =>
         Cardinality(Made(suggestions'[i].id)) <= deaths
  <2>1. Cardinality(Made(c)) = 0
    BY <1>1, FS_EmptySet
  <2> QED BY <1>0, <1>4, <1>5, <1>7, <2>1 DEF Tally
<1>12. \A i \in DOMAIN suggestions' : suggestions'[i].status = "proposed" =>
         Cardinality(Made(suggestions[i].id))' <= deaths' + Charge(i)'
  <2> SUFFICES ASSUME NEW i \in DOMAIN suggestions', suggestions'[i].status = "proposed"
               PROVE  Cardinality(Made(suggestions[i].id))' <= deaths' + Charge(i)'
    OBVIOUS
  <2>1. PICK s : s = suggestions'[i].id
    OBVIOUS
  <2>2. s \in Calls /\ Made(suggestions[i].id)' = Made(s) /\ Cardinality(Made(s)) \in Nat
    BY <1>0, <1>4, <1>5, <1>9, <1>10, <2>1 DEF Made
  <2>3. Cardinality(Made(s)) <= deaths
    BY <1>11, <2>1
  <2> QED BY <1>0, <1>8, <2>2, <2>3
<1>13. \A s \in Calls : Cardinality(Made(s))' <= 1 + deaths'
  BY <1>0, <1>9 DEF Tally
<1>14. \A i, j \in DOMAIN suggestions' : suggestions'[i].id = suggestions'[j].id => i = j
  BY <1>1, <1>4, <1>5 DEF Tally
<1>15. \A i \in DOMAIN suggestions' : pc'[suggestions'[i].id] \in Suggested
  BY <1>0, <1>2, <1>4, <1>5, <1>10 DEF Tally, Turns, Suggested
<1>16. \A m \in missions' : pc'[m[1]] \in Suggested
  BY <1>0, <1>2 DEF Tally, Turns, OfferInv
<1> QED BY <1>12, <1>13, <1>14, <1>15, <1>16 DEF Tally

(* The mission a call makes of its candidate is charged to the row.        *)
LEMMA TallyMake ==
  ASSUME SuggestInv, serial, Tally, [Next]_vars, NEW c \in Calls, MakeMission(c),
         \A d \in Calls : Held(d)'
  PROVE  Tally'
<1>0. /\ OfferInv /\ deaths \in Nat /\ pc[c] = "accept" /\ pc'[c] = "rewrite" /\ c \in InFlight
      /\ missions' = missions \union {<<Candidate(c), c>>}
      /\ deaths' = deaths /\ suggestions' = suggestions /\ at' = at
  BY DEF SuggestInv, MakeMission, Goto, OfferInv, Shaped, InFlight
<1>1. Turns
  BY <1>0, StepTurns DEF OfferInv
<1>2. PICK r : r = at[c].row
  OBVIOUS
<1>3. PICK s : s = suggestions[r].id
  OBVIOUS
<1>4. r \in DOMAIN suggestions /\ suggestions[r].status = "proposed" /\ Candidate(c) = s /\ s \in Calls
  <2>1. Held(c) /\ Chosen(c)
    BY <1>0 DEF Tally, OfferInv
  <2> QED BY <1>0, <1>2, <1>3, <2>1, RowIds DEF Held, Chosen, Choosing, Candidate
<1>5. \A d \in Calls : pc[d] # "rewrite"
  BY <1>0 DEF SuggestInv, Alone, InFlight
<1>6. \A i \in DOMAIN suggestions : Charge(i) = 0
  BY <1>5 DEF Charge, Pending
<1>7. Charge(r)' = 1
  BY <1>0, <1>2 DEF Charge, Pending
<1>8. \A i \in DOMAIN suggestions : Charge(i)' \in {0, 1}
  BY DEF Charge
<1>9. \A t : t # s => Made(t)' = Made(t)
  BY <1>0, <1>4 DEF Made
<1>10. \A t : IsFiniteSet(Made(t)) /\ Cardinality(Made(t)) \in Nat
  BY MadeCounted DEF SuggestInv
<1>11. Cardinality(Made(s)) <= deaths
  BY <1>3, <1>4, <1>6, <1>10, <1>0 DEF Tally
<1>12. Cardinality(Made(s))' <= 1 + deaths
  <2>1. Made(s)' = Made(s) \union {<<s, c>>}
    BY <1>0, <1>4 DEF Made
  <2>2. Cardinality(Made(s) \union {<<s, c>>}) <= Cardinality(Made(s)) + 1
    <3>1. PICK S : S = Made(s)
      OBVIOUS
    <3>2. IsFiniteSet(S) /\ Cardinality(S) \in Nat
      BY <1>10, <3>1
    <3>3. Cardinality(S \union {<<s, c>>}) = IF <<s, c>> \in S THEN Cardinality(S) ELSE Cardinality(S) + 1
      BY <3>2, FS_AddElement
    <3> QED BY <3>1, <3>2, <3>3
  <2>3. Cardinality(Made(s) \union {<<s, c>>}) \in Nat
    BY <1>10, FS_AddElement, FS_CardinalityType
  <2> QED BY <1>0, <1>10, <1>11, <2>1, <2>2, <2>3
<1>13. \A t \in Calls : Cardinality(Made(t))' <= 1 + deaths'
  BY <1>0, <1>9, <1>12 DEF Tally
<1>14. \A i \in DOMAIN suggestions' : suggestions'[i].status = "proposed" =>
         Cardinality(Made(suggestions[i].id))' <= deaths' + Charge(i)'
  <2> SUFFICES ASSUME NEW i \in DOMAIN suggestions, suggestions[i].status = "proposed"
               PROVE  Cardinality(Made(suggestions[i].id))' <= deaths + Charge(i)'
    BY <1>0
  <2>1. PICK t : t = suggestions[i].id
    OBVIOUS
  <2>2. Made(suggestions[i].id)' = Made(t)'
    BY <1>0, <2>1 DEF Made
  <2>3. CASE i = r
    BY <1>0, <1>3, <1>7, <1>12, <2>1, <2>2, <2>3
  <2>4. CASE i # r
    <3>1. t # s
      BY <1>3, <1>4, <2>1, <2>4 DEF Tally
    <3>2. Cardinality(Made(t)) <= deaths
      BY <1>0, <1>6, <1>10, <2>1 DEF Tally
    <3> QED BY <1>0, <1>8, <1>9, <1>10, <2>2, <3>1, <3>2
  <2> QED BY <2>3, <2>4
<1>15. \A i \in DOMAIN suggestions' : pc'[suggestions'[i].id] \in Suggested
  BY <1>0, <1>1, RowIds DEF Tally, Turns
<1>16. \A m \in missions' : pc'[m[1]] \in Suggested
  <2>1. pc[s] \in Suggested
    BY <1>3, <1>4 DEF Tally
  <2> QED BY <1>0, <1>1, <1>4, <2>1 DEF Tally, Turns, OfferInv
<1> QED BY <1>0, <1>13, <1>14, <1>15, <1>16 DEF Tally

(* Rows written back are those read, but for the one accepted.             *)
LEMMA TallyWritten ==
  ASSUME SuggestInv, serial, Tally, [Next]_vars, NEW c \in Calls, NEW n \in Nat, Written(c, n),
         missions' = missions, \A d \in Calls : Held(d)'
  PROVE  Tally'
<1>0. /\ OfferInv /\ deaths \in Nat /\ pc[c] = "rewrite" /\ c \in InFlight
      /\ deaths' \in Nat /\ deaths <= deaths' /\ pc[c] \in Choosing
  BY MissionsMove DEF SuggestInv, Written, InFlight, Choosing
<1>1. Turns
  BY <1>0, StepTurns DEF OfferInv
<1>2. at[c].prev = suggestions
  BY <1>0 DEF Tally, Held
<1>3. /\ DOMAIN AcceptedRows(c) = DOMAIN suggestions
      /\ \A i \in DOMAIN suggestions :
           /\ AcceptedRows(c)[i].id = suggestions[i].id
           /\ i # at[c].row => AcceptedRows(c)[i] = suggestions[i]
      /\ AcceptedRows(c)[at[c].row].status = "accepted"
  BY <1>0, <1>2, AcceptedIs
<1>4. AcceptedRows(c) \in Seq(Suggestion)
  BY <1>0, RowsAccepted
<1>5. \A i \in DOMAIN suggestions' :
        /\ i \in DOMAIN suggestions /\ suggestions'[i].id = suggestions[i].id
        /\ suggestions'[i].status = "proposed" =>
             i # at[c].row /\ suggestions[i].status = "proposed"
  <2>1. \A i \in DOMAIN suggestions' : i \in DOMAIN suggestions /\ suggestions'[i] = AcceptedRows(c)[i]
    BY <1>3, <1>4 DEF Written
  <2> QED BY <1>3, <2>1
<1>6. \A d \in Calls : pc[d] = "rewrite" => d = c
  BY <1>0, OnlyOne DEF Choosing
<1>7. \A i : i # at[c].row => Charge(i) = 0
  BY <1>6 DEF Charge, Pending
<1>8. \A i : Charge(i)' \in {0, 1}
  BY DEF Charge
<1>9. \A t : Made(t)' = Made(t) /\ Cardinality(Made(t)) \in Nat
  BY MadeCounted DEF Made, SuggestInv
<1>10. \A t \in Calls : Cardinality(Made(t))' <= 1 + deaths'
  BY <1>0, <1>9 DEF Tally
<1>11. \A i \in DOMAIN suggestions' : suggestions'[i].status = "proposed" =>
         Cardinality(Made(suggestions[i].id))' <= deaths' + Charge(i)'
  <2> SUFFICES ASSUME NEW i \in DOMAIN suggestions', suggestions'[i].status = "proposed"
               PROVE  Cardinality(Made(suggestions[i].id))' <= deaths' + Charge(i)'
    OBVIOUS
  <2>1. PICK t : t = suggestions[i].id
    OBVIOUS
  <2>2. Made(suggestions[i].id)' = Made(t)
    BY <1>5, <1>9, <2>1 DEF Made
  <2>3. Cardinality(Made(t)) <= deaths
    BY <1>0, <1>5, <1>7, <1>9, <2>1 DEF Tally
  <2> QED BY <1>0, <1>8, <1>9, <2>2, <2>3
<1>12. \A i \in DOMAIN suggestions' : pc'[suggestions'[i].id] \in Suggested
  BY <1>0, <1>1, <1>5, RowIds DEF Tally, Turns
<1>13. \A m \in missions' : pc'[m[1]] \in Suggested
  BY <1>0, <1>1 DEF Tally, Turns, OfferInv
<1>14. \A i, j \in DOMAIN suggestions' : suggestions'[i].id = suggestions'[j].id => i = j
  BY <1>5 DEF Tally
<1> QED BY <1>10, <1>11, <1>12, <1>13, <1>14 DEF Tally

(* A step that leaves the file and the missions alone does not lift a      *)
(* charge but by a death.                                                  *)
LEMMA TallyStands ==
  ASSUME SuggestInv, serial, Tally, [Next]_vars, missions' = missions, suggestions' = suggestions,
         \A c \in Calls, n \in Nat : ~Written(c, n), \A d \in Calls : Held(d)'
  PROVE  Tally'
<1>0. OfferInv /\ deaths \in Nat /\ deaths' \in Nat /\ deaths <= deaths'
  BY MissionsMove DEF SuggestInv
<1>1. Turns
  BY <1>0, StepTurns DEF OfferInv
<1>2. ASSUME NEW c \in Calls, pc[c] = "rewrite" PROVE Stands(c) \/ deaths' = deaths + 1
  <2>1. Stands(c) \/ Rewrite(c) \/ Die(c)
    BY <1>1, <1>2 DEF Turns
  <2>2. ~Rewrite(c)
    BY <1>0, RewriteWrites
  <2> QED BY <2>1, <2>2 DEF Die
<1>3. \A i : Charge(i) \in {0, 1} /\ Charge(i)' \in {0, 1}
  BY DEF Charge
<1>4. \A i : deaths + Charge(i) <= deaths' + Charge(i)'
  <2> SUFFICES ASSUME NEW i PROVE deaths + Charge(i) <= deaths' + Charge(i)'
    OBVIOUS
  <2>1. CASE Pending(i)
    <3>1. PICK c \in Calls : pc[c] = "rewrite" /\ at[c].row = i
      BY <2>1 DEF Pending
    <3>2. CASE Stands(c)
      <4>1. Charge(i)' = 1
        BY <3>1, <3>2 DEF Stands, Charge, Pending
      <4> QED BY <1>0, <1>3, <4>1
    <3> QED BY <1>0, <1>2, <1>3, <3>1, <3>2
  <2>2. CASE ~Pending(i)
    <3>1. Charge(i) = 0
      BY <2>2 DEF Charge
    <3> QED BY <1>0, <1>3, <3>1
  <2> QED BY <2>1, <2>2
<1>5. \A t : Made(t)' = Made(t) /\ Cardinality(Made(t)) \in Nat
  BY MadeCounted DEF Made, SuggestInv
<1>6. \A t \in Calls : Cardinality(Made(t))' <= 1 + deaths'
  BY <1>0, <1>5 DEF Tally
<1>7. \A i \in DOMAIN suggestions' : suggestions'[i].status = "proposed" =>
         Cardinality(Made(suggestions[i].id))' <= deaths' + Charge(i)'
  <2> SUFFICES ASSUME NEW i \in DOMAIN suggestions, suggestions[i].status = "proposed"
               PROVE  Cardinality(Made(suggestions[i].id))' <= deaths' + Charge(i)'
    OBVIOUS
  <2>1. PICK t : t = suggestions[i].id
    OBVIOUS
  <2>2. Made(suggestions[i].id)' = Made(t)
    BY <1>5, <2>1 DEF Made
  <2>3. Cardinality(Made(t)) <= deaths + Charge(i)
    BY <2>1 DEF Tally
  <2>4. Cardinality(Made(t)) \in Nat /\ Charge(i) \in {0, 1} /\ Charge(i)' \in {0, 1}
        /\ deaths + Charge(i) <= deaths' + Charge(i)'
    BY <1>3, <1>4, <1>5
  <2> HIDE DEF Tally
  <2> QED BY <1>0, <2>2, <2>3, <2>4
<1>8. \A i \in DOMAIN suggestions' : pc'[suggestions'[i].id] \in Suggested
  BY <1>0, <1>1, RowIds DEF Tally, Turns
<1>9. \A m \in missions' : pc'[m[1]] \in Suggested
  BY <1>0, <1>1 DEF Tally, Turns, OfferInv
<1> QED BY <1>6, <1>7, <1>8, <1>9 DEF Tally

(* Every step keeps SuggestInv.                                            *)
LEMMA SuggestNext == SuggestInv /\ [Next]_vars => SuggestInv'
<1> SUFFICES ASSUME SuggestInv, [Next]_vars PROVE SuggestInv'
  OBVIOUS
<1>0. OfferInv /\ deaths \in Nat /\ IsFiniteSet(missions)
  BY DEF SuggestInv
<1>1. OfferInv'
  BY <1>0, OfferNext
<1>2. Turns
  BY <1>0, StepTurns DEF OfferInv
<1>3. Alone'
  BY <1>2, AloneNext DEF SuggestInv
<1>4. deaths' \in Nat
  BY <1>0, MissionsMove
<1>5. IsFiniteSet(missions')
  <2>1. ASSUME NEW m PROVE IsFiniteSet(missions \union {m})
    BY <1>0, FS_AddElement
  <2> QED BY <1>0, <2>1, MissionsMove
<1>6. Truthful(suggestions)' /\ \A c \in Calls : Honest(c)'
  BY TruthNext
<1>7. ASSUME serial' PROVE Tally'
  <2>1. serial /\ Tally
    BY <1>2, <1>7 DEF Turns, SuggestInv
  <2>2. \A d \in Calls : Held(d)'
    BY <2>1, HeldNext
  <2>3. ASSUME NEW c \in Calls, Suggest(c) PROVE Tally'
    BY <2>1, <2>2, <2>3, TallySuggest
  <2>4. ASSUME NEW c \in Calls, MakeMission(c) PROVE Tally'
    BY <2>1, <2>2, <2>4, TallyMake
  <2>5. ASSUME \A c \in Calls : ~Suggest(c) /\ ~MakeMission(c) PROVE Tally'
    <3>1. missions' = missions
      BY <1>0, <2>5, MissionsMove
    <3>2. ASSUME NEW c \in Calls, NEW n \in Nat, Written(c, n) PROVE Tally'
      BY <2>1, <2>2, <3>1, <3>2, TallyWritten
    <3>3. ASSUME \A c \in Calls, n \in Nat : ~Written(c, n) PROVE Tally'
      <4>1. suggestions' = suggestions
        BY <1>0, <2>5, <3>3, SuggestionsMove
      <4> QED BY <2>1, <2>2, <3>1, <3>3, <4>1, TallyStands
    <3> QED BY <3>2, <3>3
  <2> QED BY <2>3, <2>4, <2>5
<1> QED BY <1>1, <1>3, <1>4, <1>5, <1>6, <1>7 DEF SuggestInv

(* One command at a time a suggestion becomes one mission, and one more    *)
(* only for a death; whatever overlaps, an accepted suggestion names a     *)
(* mission that was made of it.                                            *)
THEOREM SuggestionsBecomeOneMission == Spec => []OneMissionPerSuggestion
<1>1. SuggestInv => OneMissionPerSuggestion
  BY DEF SuggestInv, Tally, Truthful, OneMissionPerSuggestion, Made
<1> QED BY <1>1, SuggestInit, SuggestNext, PTL DEF Spec
-----------------------------------------------------------------------------
(* What a row of proposals.jsonl says, and an item that came of it.        *)
Approved(p) == \E i \in DOMAIN proposals : proposals[i].id = p /\ proposals[i].status = "approved"
Yielded(p) == \E i \in DOMAIN items : items[i].of = p

(* Later than: by time, and by line at the same time.                      *)
Precedes(i, j) ==
  proposals[i].at < proposals[j].at \/ (proposals[i].at = proposals[j].at /\ i < j)

(* What the calls hold, in every interleaving: rows of what there is.      *)
Copies(c) ==
  /\ pc[c] \in {"approved", "item", "rejected"} => at[c].prev[1].id \in Ids(proposals)
  /\ pc[c] = "revoked" => \E i \in DOMAIN items : /\ items[i].id = at[c].prev[1].id
                                                  /\ items[i].of = at[c].prev[1].of

(* A turn that has not proposed yet has no proposal.                       *)
Told(c) == c \in Ids(proposals) => pc[c] \in Reported

(* One command at a time: what an approval or a rejection holds is still   *)
(* pending, what is about to become an item is approved and has none, and  *)
(* an import only appends what is not there.                               *)
Open(c) ==
  /\ pc[c] \in {"approved", "rejected"} => ~Approved(at[c].prev[1].id)
  /\ pc[c] = "item" => Approved(at[c].prev[1].id) /\ ~Yielded(at[c].prev[1].id)
  /\ pc[c] = "import" => \A p \in OldProposals : <<"proposal", p>> \in at[c].todo => p \notin Ids(proposals)

Decided ==
  /\ \A c \in Calls : Open(c)
  /\ \A i, j \in DOMAIN proposals :
       proposals[i].status = "approved" /\ proposals[j].id = proposals[i].id /\ i # j => Precedes(j, i)
  /\ \A i \in DOMAIN items : items[i].of \in ProposalIds => Approved(items[i].of)
  /\ \A i, j \in DOMAIN items :
       items[i].of \in ProposalIds /\ items[j].of = items[i].of => items[j].id = items[i].id

ItemInv ==
  /\ MemoryInv /\ Alone
  /\ \A c \in Calls : Copies(c) /\ Told(c)
  /\ serial => Decided

(* ItemInv holds at the start.                                             *)
LEMMA ItemInit == Init => ItemInv
<1> SUFFICES ASSUME Init PROVE ItemInv
  OBVIOUS
<1>1. items = <<>> /\ proposals = <<>> /\ pc = [c \in Calls |-> "idle"]
  BY DEF Init, InitMemory
<1> QED BY <1>1, MemoryInit
        DEF ItemInv, Alone, InFlight, Copies, Told, Ids, Decided, Open

(* The four ways a row is appended to proposals.jsonl.                     *)
Submits(c, row) ==
  \/ \E l \in at[c].todo : /\ pc[c] = "import" /\ row = OldProposal(l) /\ l[1] # "item"
                           /\ l \in OldLines /\ at'[c].todo = at[c].todo \ {l}
  \/ pc[c] = "approved" /\ row = ApprovedRow(c) /\ pc'[c] \in {"item", "over"}
     /\ (pc'[c] = "item" => at'[c] = at[c])
  \/ pc[c] = "rejected" /\ row = Rejected(c) /\ pc'[c] = "over"
  \/ pc[c] = "remember" /\ row = Offered(c) /\ pc'[c] = "reply"

LEMMA ProposalsMove ==
  ASSUME MemoryInv, [Next]_vars
  PROVE  \/ proposals' = proposals
         \/ \E c \in Calls, row \in Proposal :
              Submits(c, row) /\ proposals' = Append(proposals, row) /\ items' = items
<1> DEFINE Goal == \/ proposals' = proposals
                   \/ \E c \in Calls, row \in Proposal :
                        Submits(c, row) /\ proposals' = Append(proposals, row) /\ items' = items
<1>0. Touched /\ Shaped
  BY StepTouches DEF MemoryInv, Dated
<1>1. ASSUME NEW c \in Calls, ImportLine(c) PROVE Goal
  <2>1. CASE proposals' = proposals
    BY <2>1
  <2>2. CASE proposals' # proposals
    <3>1. PICK l \in at[c].todo : /\ l[1] # "item" /\ proposals' = Append(proposals, OldProposal(l))
                                  /\ items' = items /\ at' = [at EXCEPT ![c].todo = @ \ {l}]
      BY <1>1, <2>2 DEF ImportLine, OldProposal
    <3>2. OldProposal(l) \in Proposal /\ pc[c] = "import" /\ l \in OldLines
      BY <1>1, <3>1, RowsTyped DEF ImportLine, MemoryInv, Holding
    <3>3. at'[c].todo = at[c].todo \ {l}
      BY <1>0, <3>1 DEF Shaped, Fields
    <3>4. Submits(c, OldProposal(l))
      BY <3>1, <3>2, <3>3 DEF Submits
    <3> QED BY <3>1, <3>2, <3>4
  <2> QED BY <2>1, <2>2
<1>2. ASSUME NEW c \in Calls, AppendApproved(c) PROVE Goal
  <2>1. /\ pc[c] = "approved" /\ proposals' = Append(proposals, ApprovedRow(c)) /\ items' = items
        /\ pc'[c] \in {"item", "over"} /\ (pc'[c] = "item" => at'[c] = at[c])
    BY <1>0, <1>2 DEF AppendApproved, End, Goto, Shaped
  <2>2. ApprovedRow(c) \in Proposal
    BY <2>1, RowsTyped
  <2> QED BY <2>1, <2>2 DEF Submits
<1>3. ASSUME NEW c \in Calls, AppendRejected(c) PROVE Goal
  <2>1. /\ pc[c] = "rejected" /\ proposals' = Append(proposals, Rejected(c)) /\ items' = items
        /\ pc'[c] = "over"
    BY <1>0, <1>3 DEF AppendRejected, Rejected, End, Goto, Shaped
  <2>2. Rejected(c) \in Proposal
    BY <2>1, RowsTyped
  <2> QED BY <2>1, <2>2 DEF Submits
<1>4. ASSUME NEW c \in Calls, Remember(c) PROVE Goal
  <2>1. /\ pc[c] = "remember" /\ items' = items /\ pc'[c] = "reply"
        /\ proposals' = proposals \/ proposals' = Append(proposals, Offered(c))
    BY <1>0, <1>4 DEF Remember, Propose, Offered, Goto, Shaped
  <2>2. Offered(c) \in Proposal
    BY RowsTyped
  <2> QED BY <2>1, <2>2 DEF Submits
<1> QED BY <1>0, <1>1, <1>2, <1>3, <1>4 DEF Touched

(* The three ways a row is appended to items.jsonl.                        *)
Stores(c, row) ==
  \/ \E l \in at[c].todo : pc[c] = "import" /\ row = OldItem(l)
  \/ pc[c] = "item" /\ row = NewItem(c) /\ pc'[c] = "over"
  \/ pc[c] = "revoked" /\ row = Tombstone(c) /\ pc'[c] = "over"

LEMMA ItemsMove ==
  ASSUME MemoryInv, [Next]_vars
  PROVE  \/ items' = items
         \/ \E c \in Calls, row \in Item :
              Stores(c, row) /\ items' = Append(items, row) /\ proposals' = proposals
<1> DEFINE Goal == \/ items' = items
                   \/ \E c \in Calls, row \in Item :
                        Stores(c, row) /\ items' = Append(items, row) /\ proposals' = proposals
<1>0. Touched /\ Shaped
  BY StepTouches DEF MemoryInv, Dated
<1>1. ASSUME NEW c \in Calls, ImportLine(c) PROVE Goal
  <2>1. CASE items' = items
    BY <2>1
  <2>2. CASE items' # items
    <3>1. PICK l \in at[c].todo : /\ l[1] = "item" /\ items' = Append(items, OldItem(l))
                                  /\ proposals' = proposals
      BY <1>1, <2>2 DEF ImportLine, OldItem
    <3>2. OldItem(l) \in Item /\ pc[c] = "import"
      BY <1>1, <3>1, RowsTyped DEF ImportLine
    <3> QED BY <3>1, <3>2 DEF Stores
  <2> QED BY <2>1, <2>2
<1>2. ASSUME NEW c \in Calls, AppendItem(c) PROVE Goal
  <2>1. /\ pc[c] = "item" /\ items' = Append(items, NewItem(c)) /\ proposals' = proposals
        /\ pc'[c] = "over"
    BY <1>0, <1>2 DEF AppendItem, End, Goto, Shaped
  <2>2. NewItem(c) \in Item
    BY <2>1, RowsTyped
  <2> QED BY <2>1, <2>2 DEF Stores
<1>3. ASSUME NEW c \in Calls, AppendRevoked(c) PROVE Goal
  <2>1. /\ pc[c] = "revoked" /\ items' = Append(items, Tombstone(c)) /\ proposals' = proposals
        /\ pc'[c] = "over"
    BY <1>0, <1>3 DEF AppendRevoked, Tombstone, End, Goto, Shaped
  <2>2. Tombstone(c) \in Item
    BY <2>1, RowsTyped
  <2> QED BY <2>1, <2>2 DEF Stores
<1> QED BY <1>0, <1>1, <1>2, <1>3 DEF Touched

(* Ids, approvals and yields only grow, and what appends is under way.     *)
LEMMA Growth ==
  ASSUME ItemInv, [Next]_vars
  PROVE  /\ Ids(proposals) \subseteq Ids(proposals)' /\ Ids(items) \subseteq Ids(items)'
         /\ \A p : Approved(p) => Approved(p)'
         /\ \A i \in DOMAIN items : i \in DOMAIN items' /\ items'[i] = items[i]
<1>0. MemoryInv /\ proposals \in Seq(Proposal) /\ items \in Seq(Item)
  BY DEF ItemInv, MemoryInv, Dated
<1>1. \A i \in DOMAIN proposals : i \in DOMAIN proposals' /\ proposals'[i] = proposals[i]
  <2>1. ASSUME NEW row \in Proposal, proposals' = Append(proposals, row)
        PROVE  \A i \in DOMAIN proposals : i \in DOMAIN proposals' /\ proposals'[i] = proposals[i]
    BY <1>0, <2>1, Appended
  <2> QED BY <1>0, <2>1, ProposalsMove
<1>2. \A i \in DOMAIN items : i \in DOMAIN items' /\ items'[i] = items[i]
  <2>1. ASSUME NEW row \in Item, items' = Append(items, row)
        PROVE  \A i \in DOMAIN items : i \in DOMAIN items' /\ items'[i] = items[i]
    BY <1>0, <2>1, Appended
  <2> QED BY <1>0, <2>1, ItemsMove
<1> QED BY <1>1, <1>2 DEF Ids, Approved

(* The latest revision of a proposal that has an approved row is that row, *)
(* as long as no row outlasts an approval.                                 *)
LEMMA ApprovalIsLatest ==
  ASSUME MemoryInv, Decided, NEW p \in Ids(proposals)
  PROVE  /\ \E k \in DOMAIN proposals : Latest(proposals, p) = proposals[k] /\ proposals[k].id = p
         /\ Approved(p) <=> Latest(proposals, p).status = "approved"
<1>0. proposals \in Seq(Proposal) /\ clock \in Nat
  BY DEF MemoryInv, Dated
<1>1. \A i \in DOMAIN proposals : proposals[i].at \in Nat /\ proposals[i].at <= clock
  BY RowsPast
<1>2. PICK k \in DOMAIN proposals :
        /\ Latest(proposals, p) = proposals[k] /\ proposals[k].id = p
        /\ \A j \in DOMAIN proposals : proposals[j].id = p =>
             proposals[j].at < proposals[k].at \/ (proposals[j].at = proposals[k].at /\ j <= k)
  BY <1>0, <1>1, LatestRow, SMTT(60)
<1>3. ASSUME NEW i \in DOMAIN proposals, proposals[i].id = p, proposals[i].status = "approved"
      PROVE  i = k
  <2>1. i # k => Precedes(k, i)
    BY <1>2, <1>3 DEF Decided
  <2>2. i \in Nat /\ k \in Nat
    BY <1>0
  <2> QED BY <1>1, <1>2, <1>3, <2>1, <2>2 DEF Precedes
<1> QED BY <1>2, <1>3 DEF Approved

(* Every step keeps what the calls hold rows of.                           *)
LEMMA CopiesNext ==
  ASSUME ItemInv, [Next]_vars, NEW c \in Calls
  PROVE  Copies(c)'
<1>0. /\ MemoryInv /\ Copies(c) /\ Touched /\ Shaped /\ Advanced(c)
      /\ proposals \in Seq(Proposal) /\ items \in Seq(Item) /\ clock \in Nat
  BY StepTouches DEF ItemInv, MemoryInv, Dated, Touched
<1>1. Stands(c) => Copies(c)'
  <2> SUFFICES ASSUME Stands(c) PROVE Copies(c)'
    OBVIOUS
  <2>1. pc'[c] = pc[c] /\ at'[c] = at[c]
    BY DEF Stands
  <2>2. at[c].prev[1].id \in Ids(proposals) => at[c].prev[1].id \in Ids(proposals)'
    BY Growth
  <2>3. \A i \in DOMAIN items : i \in DOMAIN items' /\ items'[i] = items[i]
    BY Growth
  <2> QED BY <1>0, <2>1, <2>2, <2>3 DEF Copies
<1>2. ASSUME pc'[c] = "revoked", RevokeRead(c)
      PROVE  \E i \in DOMAIN items' : items'[i].id = at'[c].prev[1].id /\ items'[i].of = at'[c].prev[1].of
  <2>1. PICK id \in Ids(items) : at' = [at EXCEPT ![c].prev = <<Latest(items, id)>>]
    BY <1>2, <1>0 DEF RevokeRead, End, Goto, Shaped
  <2>2. at'[c].prev = <<Latest(items, id)>>
    BY <1>0, <2>1 DEF Fields, Shaped
  <2>3. \A i \in DOMAIN items : items[i].at \in Nat /\ items[i].at <= clock
    BY <1>0, RowsPast
  <2>4. \E k \in DOMAIN items : Latest(items, id) = items[k]
    <3>1. items \in Seq(Item) /\ clock \in Nat
      BY <1>0
    <3> QED BY <2>3, <3>1, LatestRow, SMTT(60)
  <2>5. items' = items
    BY <1>2 DEF RevokeRead, memory
  <2> QED BY <2>2, <2>4, <2>5
<1>3. ASSUME NEW id \in Ids(proposals), at'[c].prev = <<Latest(proposals, id)>>
      PROVE  at'[c].prev[1].id \in Ids(proposals)
  <2>1. \A i \in DOMAIN proposals : proposals[i].at \in Nat /\ proposals[i].at <= clock
    BY <1>0, RowsPast
  <2>2. \E k \in DOMAIN proposals : Latest(proposals, id) = proposals[k] /\ proposals[k].id = id
    <3>1. proposals \in Seq(Proposal) /\ clock \in Nat
      BY <1>0
    <3> QED BY <2>1, <3>1, LatestRow, SMTT(60)
  <2> QED BY <1>3, <2>2
<1>4. ASSUME pc'[c] = "approved", ApproveRead(c) PROVE at'[c].prev[1].id \in Ids(proposals)
  <2>1. PICK id \in Ids(proposals) : at' = [at EXCEPT ![c].prev = <<Latest(proposals, id)>>]
    BY <1>4, <1>0 DEF ApproveRead, End, Goto, Shaped
  <2>2. at'[c].prev = <<Latest(proposals, id)>>
    BY <1>0, <2>1 DEF Fields, Shaped
  <2> QED BY <1>3, <2>2
<1>5. ASSUME pc'[c] = "rejected", RejectRead(c) PROVE at'[c].prev[1].id \in Ids(proposals)
  <2>1. PICK id \in Ids(proposals) : at' = [at EXCEPT ![c].prev = <<Latest(proposals, id)>>]
    BY <1>5, <1>0 DEF RejectRead, End, Goto, Shaped
  <2>2. at'[c].prev = <<Latest(proposals, id)>>
    BY <1>0, <2>1 DEF Fields, Shaped
  <2> QED BY <1>3, <2>2
<1>6. ASSUME pc'[c] = "item", AppendApproved(c) PROVE at'[c].prev[1].id \in Ids(proposals)
  <2>1. at' = at /\ pc[c] = "approved"
    BY <1>6, <1>0 DEF AppendApproved, End, Goto, Shaped
  <2> QED BY <1>0, <2>1 DEF Copies
<1>7. Ids(proposals) \subseteq Ids(proposals)'
  BY Growth
<1> QED BY <1>0, <1>1, <1>2, <1>4, <1>5, <1>6, <1>7 DEF Advanced, Copies

(* A turn proposes once.                                                   *)
LEMMA ToldNext ==
  ASSUME ItemInv, [Next]_vars, NEW c \in Calls
  PROVE  Told(c)'
<1>0. MemoryInv /\ Told(c) /\ proposals \in Seq(Proposal)
  BY DEF ItemInv, MemoryInv, Dated
<1>1. pc[c] \in Reported => pc'[c] \in Reported
  BY <1>0, StepTurns DEF Turns, MemoryInv
<1>2. CASE proposals' = proposals
  BY <1>0, <1>1, <1>2 DEF Told, Ids
<1>3. ASSUME NEW d \in Calls, NEW row \in Proposal, Submits(d, row), proposals' = Append(proposals, row)
      PROVE  Told(c)'
  <2>1. \A i \in DOMAIN proposals' : \/ i \in DOMAIN proposals /\ proposals'[i] = proposals[i]
                                     \/ proposals'[i] = row
    BY <1>0, <1>3, Appended
  <2>2. c \in Ids(proposals)' => c \in Ids(proposals) \/ row.id = c
    BY <2>1 DEF Ids
  <2>3. ASSUME row.id = c PROVE c \in Ids(proposals) \/ pc'[c] \in Reported
    <3>1. ASSUME NEW l \in OldLines, l[1] # "item", row = OldProposal(l) PROVE FALSE
      <4>1. l[2] \in OldProposals /\ row.id = l[2]
        BY <3>1 DEF OldLines, OldProposal
      <4> QED BY <2>3, <4>1, MemoryAssumption
    <3>2. ASSUME pc[d] \in {"approved", "rejected"}, row = ApprovedRow(d) \/ row = Rejected(d)
          PROVE  c \in Ids(proposals)
      <4>1. at[d].prev[1] \in Proposal /\ at[d].prev[1].id \in Ids(proposals)
        BY <1>0, <3>2 DEF ItemInv, Copies, MemoryInv, Holding
      <4>2. row.id = at[d].prev[1].id
        BY <3>2, <4>1 DEF ApprovedRow, Rejected, Proposal
      <4> QED BY <2>3, <4>1, <4>2
    <3>3. ASSUME row = Offered(d), pc'[d] = "reply" PROVE pc'[c] \in Reported
      BY <2>3, <3>3 DEF Offered, Reported
    <3> QED BY <1>3, <3>1, <3>2, <3>3 DEF Submits
  <2> QED BY <1>0, <1>1, <2>2, <2>3 DEF Told
<1> QED BY <1>0, <1>2, <1>3, ProposalsMove

(* One command at a time, the call under way is the only one that writes.  *)
LEMMA OnlyWriter ==
  ASSUME ItemInv, serial, NEW c \in InFlight, NEW d \in Calls
  PROVE  /\ \A row : Submits(d, row) => d = c
         /\ \A row : Stores(d, row) => d = c
<1>1. \A row : Submits(d, row) \/ Stores(d, row) => d \in InFlight
  BY DEF Submits, Stores, InFlight
<1> QED BY <1>1 DEF ItemInv, Alone

(* Every step keeps what the call under way knows.                         *)
LEMMA OpenNext ==
  ASSUME ItemInv, serial, Decided, [Next]_vars, NEW c \in Calls
  PROVE  Open(c)'
<1>0. /\ MemoryInv /\ Open(c) /\ Touched /\ Shaped /\ Advanced(c)
      /\ proposals \in Seq(Proposal) /\ items \in Seq(Item) /\ clock \in Nat
  BY StepTouches DEF ItemInv, MemoryInv, Dated, Touched, Decided
<1>1. ASSUME Stands(c), pc'[c] \in {"approved", "rejected", "item", "import"}
      PROVE  (proposals' = proposals /\ items' = items) \/ pc[c] = "import"
  <2>1. c \in InFlight /\ pc'[c] = pc[c]
    BY <1>1 DEF Stands, InFlight
  <2>2. proposals' = proposals \/ pc[c] = "import"
    <3>1. ASSUME NEW row \in Proposal, Submits(c, row) PROVE pc[c] = "import"
      BY <1>1, <2>1, <3>1 DEF Submits
    <3> QED BY <1>0, <2>1, <3>1, OnlyWriter, ProposalsMove
  <2>3. items' = items \/ pc[c] = "import"
    <3>1. ASSUME NEW row \in Item, Stores(c, row) PROVE pc[c] = "import"
      BY <1>1, <2>1, <3>1 DEF Stores
    <3> QED BY <1>0, <2>1, <3>1, OnlyWriter, ItemsMove
  <2> QED BY <2>2, <2>3
<1>2. ASSUME NEW id \in Ids(proposals), Latest(proposals, id).status = "pending",
             at'[c].prev = <<Latest(proposals, id)>>, proposals' = proposals
      PROVE  ~Approved(at[c].prev[1].id)'
  <2>1. ~Approved(id) /\ Latest(proposals, id).id = id
    BY <1>0, <1>2, ApprovalIsLatest
  <2>2. at'[c].prev[1].id = id
    BY <1>2, <2>1
  <2> QED BY <1>2, <2>1, <2>2 DEF Approved
<1>3. ASSUME pc'[c] = "approved" PROVE ~Approved(at[c].prev[1].id)'
  <2>1. CASE ApproveRead(c)
    <3>1. PICK id \in Ids(proposals) :
            /\ at' = [at EXCEPT ![c].prev = <<Latest(proposals, id)>>]
            /\ Latest(proposals, id).status = "pending"
      BY <1>3, <2>1, <1>0 DEF ApproveRead, End, Goto, Shaped
    <3>2. at'[c].prev = <<Latest(proposals, id)>> /\ proposals' = proposals
      BY <1>0, <2>1, <3>1 DEF Fields, Shaped, ApproveRead, memory
    <3> QED BY <1>2, <3>1, <3>2
  <2>2. CASE Stands(c)
    <3>1. proposals' = proposals /\ at'[c] = at[c] /\ pc[c] = "approved"
      BY <1>1, <1>3, <2>2 DEF Stands
    <3> QED BY <1>0, <3>1 DEF Open, Approved
  <2> QED BY <1>0, <1>3, <2>1, <2>2 DEF Advanced
<1>4. ASSUME pc'[c] = "rejected" PROVE ~Approved(at[c].prev[1].id)'
  <2>1. CASE RejectRead(c)
    <3>1. PICK id \in Ids(proposals) :
            /\ at' = [at EXCEPT ![c].prev = <<Latest(proposals, id)>>]
            /\ Latest(proposals, id).status = "pending"
      BY <1>4, <2>1, <1>0 DEF RejectRead, End, Goto, Shaped
    <3>2. at'[c].prev = <<Latest(proposals, id)>> /\ proposals' = proposals
      BY <1>0, <2>1, <3>1 DEF Fields, Shaped, RejectRead, memory
    <3> QED BY <1>2, <3>1, <3>2
  <2>2. CASE Stands(c)
    <3>1. proposals' = proposals /\ at'[c] = at[c] /\ pc[c] = "rejected"
      BY <1>1, <1>4, <2>2 DEF Stands
    <3> QED BY <1>0, <3>1 DEF Open, Approved
  <2> QED BY <1>0, <1>4, <2>1, <2>2 DEF Advanced
<1>5. ASSUME pc'[c] = "item" PROVE Approved(at[c].prev[1].id)' /\ ~Yielded(at[c].prev[1].id)'
  <2>1. CASE AppendApproved(c)
    <3>1. /\ pc[c] = "approved" /\ proposals' = Append(proposals, ApprovedRow(c)) /\ items' = items
          /\ at' = at
      BY <1>5, <1>0, <2>1 DEF AppendApproved, End, Goto, Shaped
    <3>2. PICK p : p = at[c].prev[1].id
      OBVIOUS
    <3>3. at[c].prev[1] \in Proposal /\ p \in ProposalIds
      BY <1>0, <3>1, <3>2 DEF MemoryInv, Holding, Proposal
    <3>4. ApprovedRow(c).id = p /\ ApprovedRow(c).status = "approved" /\ ApprovedRow(c) \in Proposal
      BY <1>0, <3>1, <3>2, <3>3, RowsTyped DEF ApprovedRow, Proposal
    <3>5. \E i \in DOMAIN proposals' : proposals'[i] = ApprovedRow(c)
      BY <1>0, <3>1, <3>4, Appended
    <3>6. ~Approved(p)
      BY <1>0, <3>1, <3>2 DEF Open
    <3>7. ~Yielded(p)
      BY <3>3, <3>6 DEF Yielded, Decided
    <3> QED BY <3>1, <3>2, <3>4, <3>5, <3>7 DEF Approved, Yielded
  <2>2. CASE Stands(c)
    <3>1. proposals' = proposals /\ items' = items /\ at'[c] = at[c] /\ pc[c] = "item"
      BY <1>1, <1>5, <2>2 DEF Stands
    <3> QED BY <1>0, <3>1 DEF Open, Approved, Yielded
  <2> QED BY <1>0, <1>5, <2>1, <2>2 DEF Advanced
<1>6. ASSUME pc'[c] = "import", NEW p \in OldProposals, <<"proposal", p>> \in at'[c].todo
      PROVE  p \notin Ids(proposals)'
  <2>1. CASE at'[c].todo = StillMissing /\ UNCHANGED memory
    BY <1>6, <2>1 DEF StillMissing, memory, Ids
  <2>2. CASE ~(at'[c].todo = StillMissing /\ UNCHANGED memory)
    <3>1. pc[c] = "import" /\ at'[c].todo \subseteq at[c].todo
      <4>1. ImportLine(c) \/ SkipLine(c) => pc[c] = "import" /\ at'[c].todo \subseteq at[c].todo
        BY <1>0, TodoShrinks
      <4> QED BY <1>0, <1>6, <2>2, <4>1 DEF Advanced, Stands
    <3>2. p \notin Ids(proposals) /\ c \in InFlight
      BY <1>0, <1>6, <3>1 DEF Open, InFlight
    <3>3. CASE proposals' = proposals
      BY <3>2, <3>3 DEF Ids
    <3>4. ASSUME NEW row \in Proposal, Submits(c, row), proposals' = Append(proposals, row)
          PROVE  p \notin Ids(proposals)'
      <4>1. \A i \in DOMAIN proposals' : \/ i \in DOMAIN proposals /\ proposals'[i] = proposals[i]
                                         \/ proposals'[i] = row
        BY <1>0, <3>4, Appended
      <4>2. PICK l \in at[c].todo : /\ row = OldProposal(l) /\ l[1] # "item" /\ l \in OldLines
                                    /\ at'[c].todo = at[c].todo \ {l}
        BY <3>1, <3>4 DEF Submits
      <4>3. l = <<"proposal", l[2]>> /\ row.id = l[2]
        BY <4>2 DEF OldLines, OldProposal
      <4>4. row.id # p
        BY <1>6, <4>2, <4>3
      <4> QED BY <3>2, <4>1, <4>4 DEF Ids
    <3> QED BY <1>0, <3>2, <3>3, <3>4, OnlyWriter, ProposalsMove
  <2> QED BY <2>1, <2>2
<1> QED BY <1>3, <1>4, <1>5, <1>6 DEF Open

(* A decision is the last word on a proposal, and its item the only one.   *)
LEMMA DecidedNext ==
  ASSUME ItemInv, serial, Decided, [Next]_vars
  PROVE  Decided'
<1>0. /\ MemoryInv /\ proposals \in Seq(Proposal) /\ items \in Seq(Item) /\ clock \in Nat
      /\ \A c \in Calls : Open(c) /\ Copies(c) /\ Told(c)
  BY DEF ItemInv, MemoryInv, Dated, Decided
<1>1. \A c \in Calls : Open(c)'
  BY OpenNext
<1>2. \A i, j \in DOMAIN proposals' :
        proposals'[i].status = "approved" /\ proposals'[j].id = proposals'[i].id /\ i # j => Precedes(j, i)'
  <2>1. CASE proposals' = proposals
    BY <2>1 DEF Decided, Precedes
  <2>2. ASSUME NEW c \in Calls, NEW row \in Proposal, Submits(c, row), proposals' = Append(proposals, row)
        PROVE  \A i, j \in DOMAIN proposals' :
                 proposals'[i].status = "approved" /\ proposals'[j].id = proposals'[i].id /\ i # j =>
                   Precedes(j, i)'
    <3> DEFINE n == Len(proposals) + 1
    <3>1. /\ \A i \in DOMAIN proposals' : \/ i \in DOMAIN proposals /\ proposals'[i] = proposals[i]
                                          \/ i = n /\ proposals'[i] = row
          /\ \A i \in DOMAIN proposals : i < n
      BY <1>0, <2>2, Appended
    <3> HIDE DEF n
    <3>2. ~Approved(row.id)
      <4>1. ASSUME NEW l \in OldLines, l \in at[c].todo, l[1] # "item", row = OldProposal(l),
                   pc[c] = "import"
            PROVE  row.id \notin Ids(proposals)
        <5>1. l = <<"proposal", l[2]>> /\ row.id = l[2] /\ l[2] \in OldProposals
          BY <4>1 DEF OldLines, OldProposal
        <5> QED BY <1>0, <4>1, <5>1 DEF Open
      <4>2. ASSUME pc[c] \in {"approved", "rejected"}, row = ApprovedRow(c) \/ row = Rejected(c)
            PROVE  ~Approved(row.id)
        <5>1. at[c].prev[1] \in Proposal
          BY <1>0, <4>2 DEF MemoryInv, Holding
        <5>2. row.id = at[c].prev[1].id
          BY <4>2, <5>1 DEF ApprovedRow, Rejected, Proposal
        <5> QED BY <1>0, <4>2, <5>2 DEF Open
      <4>3. ASSUME row = Offered(c), pc[c] = "remember" PROVE row.id \notin Ids(proposals)
        BY <1>0, <4>3 DEF Offered, Told, Reported
      <4>4. row.id \notin Ids(proposals) => ~Approved(row.id)
        BY DEF Ids, Approved
      <4> QED BY <2>2, <4>1, <4>2, <4>3, <4>4 DEF Submits
    <3>3. ASSUME row.status = "approved" PROVE row.at = clock
      <4>1. row = ApprovedRow(c) /\ pc[c] = "approved"
        <5>1. \A l : OldProposal(l).status # "approved"
          BY DEF OldProposal
        <5>2. Offered(c).status # "approved"
          BY DEF Offered
        <5>3. pc[c] = "rejected" => Rejected(c).status # "approved"
          <6>1. pc[c] = "rejected" => at[c].prev[1] \in Proposal
            BY <1>0 DEF MemoryInv, Holding
          <6> QED BY <6>1 DEF Rejected, Proposal
        <5> QED BY <2>2, <3>3, <5>1, <5>2, <5>3 DEF Submits
      <4>2. at[c].prev[1] \in Proposal
        BY <1>0, <4>1 DEF MemoryInv, Holding
      <4> QED BY <4>1, <4>2 DEF ApprovedRow, Proposal
    <3>4. \A i \in DOMAIN proposals : proposals[i].at \in Nat /\ proposals[i].at <= clock
      BY <1>0, RowsPast
    <3>5. ASSUME NEW i \in DOMAIN proposals', NEW j \in DOMAIN proposals', i # j,
                 proposals'[i].status = "approved", proposals'[j].id = proposals'[i].id
          PROVE  Precedes(j, i)'
      <4>1. CASE i = n
        <5>1. j \in DOMAIN proposals /\ proposals'[j] = proposals[j] /\ j < n
          BY <3>1, <3>5, <4>1
        <5>2. proposals'[i] = row \/ (i \in DOMAIN proposals /\ i < n)
          BY <3>1, <3>5
        <5>3. n \in Nat
          BY <1>0 DEF n
        <5>4. proposals'[i] = row
          BY <4>1, <5>2, <5>3
        <5> QED BY <1>0, <3>3, <3>4, <3>5, <4>1, <5>1, <5>4 DEF Precedes
      <4>2. CASE i # n
        <5>1. i \in DOMAIN proposals /\ proposals'[i] = proposals[i]
          BY <3>1, <3>5, <4>2
        <5>2. j \in DOMAIN proposals /\ proposals'[j] = proposals[j]
          <6>1. proposals'[j] # row
            BY <3>2, <3>5, <5>1 DEF Approved
          <6> QED BY <3>1, <3>5, <6>1
        <5> QED BY <3>5, <5>1, <5>2 DEF Decided, Precedes
      <4> QED BY <4>1, <4>2
    <3> QED BY <3>5
  <2> QED BY <1>0, <2>1, <2>2, ProposalsMove
<1>3. \A p : Approved(p) => Approved(p)'
  BY Growth
<1>4. CASE items' = items
  <2>1. \A i \in DOMAIN items' : items'[i].of \in ProposalIds => Approved(items[i].of)'
    <3> SUFFICES ASSUME NEW i \in DOMAIN items, items[i].of \in ProposalIds
                 PROVE  Approved(items[i].of)'
      BY <1>4
    <3>1. PICK p : p = items[i].of
      OBVIOUS
    <3>2. Approved(p)'
      BY <1>3, <3>1 DEF Decided
    <3> QED BY <1>4, <3>1, <3>2 DEF Approved
  <2>2. \A i, j \in DOMAIN items' :
          items'[i].of \in ProposalIds /\ items'[j].of = items'[i].of => items'[j].id = items'[i].id
    BY <1>4 DEF Decided
  <2> QED BY <1>1, <1>2, <2>1, <2>2 DEF Decided
<1>5. ASSUME NEW c \in Calls, NEW row \in Item, Stores(c, row), items' = Append(items, row)
      PROVE  Decided'
  <2>1. \A i \in DOMAIN items' : \/ i \in DOMAIN items /\ items'[i] = items[i]
                                 \/ i = Len(items) + 1 /\ items'[i] = row
    BY <1>0, <1>5, Appended
  <2>2. ASSUME row.of \in ProposalIds
        PROVE  /\ Approved(row.of)
               /\ \A i \in DOMAIN items : items[i].of = row.of => items[i].id = row.id
    <3>1. ASSUME NEW l, row = OldItem(l) PROVE FALSE
      BY <2>2, <3>1, MemoryAssumption DEF OldItem
    <3>2. CASE pc[c] = "item" /\ row = NewItem(c)
      <4>1. row.of = at[c].prev[1].id
        BY <3>2 DEF NewItem
      <4> QED BY <1>0, <3>2, <4>1 DEF Open, Yielded
    <3>3. CASE pc[c] = "revoked" /\ row = Tombstone(c)
      <4>1. at[c].prev[1] \in Item
        BY <1>0, <3>3 DEF MemoryInv, Holding
      <4>2. row.id = at[c].prev[1].id /\ row.of = at[c].prev[1].of
        BY <3>3, <4>1 DEF Tombstone, Item
      <4>3. PICK k \in DOMAIN items : items[k].id = row.id /\ items[k].of = row.of
        BY <1>0, <3>3, <4>2 DEF Copies
      <4> QED BY <2>2, <4>3 DEF Decided
    <3> QED BY <1>5, <3>1, <3>2, <3>3 DEF Stores
  <2>3. \A i \in DOMAIN items' : items'[i].of \in ProposalIds => Approved(items[i].of)'
    <3> SUFFICES ASSUME NEW i \in DOMAIN items', items'[i].of \in ProposalIds
                 PROVE  Approved(items[i].of)'
      OBVIOUS
    <3>1. PICK p : p = items'[i].of
      OBVIOUS
    <3>2. Approved(p)
      BY <2>1, <2>2, <3>1 DEF Decided
    <3>3. Approved(p)'
      BY <1>3, <3>2
    <3> QED BY <3>1, <3>3 DEF Approved
  <2>4. \A i, j \in DOMAIN items' :
          items'[i].of \in ProposalIds /\ items'[j].of = items'[i].of => items'[j].id = items'[i].id
    BY <2>1, <2>2 DEF Decided
  <2> QED BY <1>1, <1>2, <2>3, <2>4 DEF Decided
<1> QED BY <1>0, <1>4, <1>5, ItemsMove

(* Every step keeps ItemInv.                                               *)
LEMMA ItemNext == ItemInv /\ [Next]_vars => ItemInv'
<1> SUFFICES ASSUME ItemInv, [Next]_vars PROVE ItemInv'
  OBVIOUS
<1>1. MemoryInv' /\ Turns
  BY MemoryNext, StepTurns DEF ItemInv, MemoryInv
<1>2. Alone'
  BY <1>1, AloneNext DEF ItemInv
<1>3. \A c \in Calls : Copies(c)' /\ Told(c)'
  BY CopiesNext, ToldNext
<1>4. serial' => Decided'
  BY <1>1, DecidedNext DEF ItemInv, Turns
<1> QED BY <1>1, <1>2, <1>3, <1>4 DEF ItemInv

(* One command at a time, wherever a process dies: an approval leaves at   *)
(* most one item, and what an item came of stays approved.                 *)
THEOREM ApprovalsYieldOneItem == Spec => []OneItemPerApproval
<1>1. ItemInv => OneItemPerApproval
  <2> SUFFICES ASSUME ItemInv, serial, NEW p \in Ids(proposals)
               PROVE  /\ Cardinality({id \in Ids(items) : Latest(items, id).of = p}) <= 1
                      /\ (\E id \in Ids(items) : Latest(items, id).of = p) =>
                           Latest(proposals, p).status = "approved"
    BY DEF OneItemPerApproval
  <2>0. /\ MemoryInv /\ Decided /\ items \in Seq(Item) /\ proposals \in Seq(Proposal)
        /\ clock \in Nat
    BY DEF ItemInv, MemoryInv, Dated
  <2>1. p \in ProposalIds
    <3>1. \A i \in DOMAIN proposals : proposals[i] \in Proposal
      BY <2>0
    <3> QED BY <3>1 DEF Ids, Proposal
  <2>2. ASSUME NEW id \in Ids(items)
        PROVE  \E k \in DOMAIN items : Latest(items, id) = items[k] /\ items[k].id = id
    <3>1. \A i \in DOMAIN items : items[i].at \in Nat /\ items[i].at <= clock
      BY <2>0, RowsPast
    <3>2. items \in Seq(Item) /\ clock \in Nat
      BY <2>0
    <3> QED BY <2>2, <3>1, <3>2, LatestRow, SMTT(60)
  <2> DEFINE mine == {id \in Ids(items) : Latest(items, id).of = p}
  <2>3. \A a, b \in mine : a = b
    BY <2>0, <2>1, <2>2 DEF Decided
  <2>4. mine = {} \/ \E a : mine = {a}
    <3> HIDE DEF mine
    <3> QED BY <2>3
  <2>5. Cardinality(mine) <= 1
    <3> HIDE DEF mine
    <3>1. CASE mine = {}
      <4>1. Cardinality(mine) = 0
        BY <3>1, FS_EmptySet
      <4> QED BY <4>1
    <3>2. ASSUME NEW a, mine = {a} PROVE Cardinality(mine) <= 1
      <4>1. Cardinality(mine) = 1
        BY <3>2, FS_Singleton
      <4> QED BY <4>1
    <3> QED BY <2>4, <3>1, <3>2
  <2>6. ASSUME NEW id \in Ids(items), Latest(items, id).of = p
        PROVE  Latest(proposals, p).status = "approved"
    <3>1. Approved(p)
      BY <2>0, <2>1, <2>2, <2>6 DEF Decided
    <3> QED BY <2>0, <3>1, ApprovalIsLatest
  <2> QED BY <2>5, <2>6
<1> QED BY <1>1, ItemInit, ItemNext, PTL DEF Spec
-----------------------------------------------------------------------------
(* The files keep their types: every row is an item, a proposal, a line of *)
(* the conversation or a suggestion, whatever interleaving, refusal or     *)
(* death.                                                                  *)
THEOREM CompanionTypeCorrect == Spec => []TypeOK
<1>1. Init => LessTyped
  <2> SUFFICES ASSUME Init PROVE LessTyped
    OBVIOUS
  <2>1. migrated = FALSE /\ clock = 1 /\ deaths = 0 /\ hosts = {} /\ hostMeta = <<>>
        /\ pc = [c \in Calls |-> "idle"]
    BY DEF Init, InitMemory
  <2>2. pc \in [Calls -> Steps]
    BY <2>1 DEF Steps
  <2>3. hostMeta \in {<<>>} \union {<<h>> : h \in Calls}
    BY <2>1
  <2>4. clock \in 1..(MaxTicks + 1) /\ deaths \in 0..MaxDeaths
    BY <2>1, MemoryAssumption
  <2> QED BY <2>1, <2>2, <2>3, <2>4 DEF LessTyped
<1>2. MemoryInv /\ LessTyped /\ TurnInv /\ OfferInv => TypeOK
  BY DEF MemoryInv, Dated, LessTyped, TurnInv, OfferInv, TypeOK
<1> QED BY <1>1, <1>2, LessTypedNext, MemoryInit, MemoryNext, TurnInit, TurnNext,
           OfferInit, OfferNext, PTL DEF Spec
-----------------------------------------------------------------------------
(* RemindersTypeOK holds at the start.                                     *)
LEMMA RemindersTypeInit == InitReminders => RemindersTypeOK
  BY ReminderAssumption DEF InitReminders, RemindersTypeOK, Writers

(* Every step keeps RemindersTypeOK.                                       *)
LEMMA RemindersTypeNext ==
  RemindersTypeOK /\ [NextReminders]_reminderVars => RemindersTypeOK'
<1> SUFFICES ASSUME RemindersTypeOK, [NextReminders]_reminderVars PROVE RemindersTypeOK'
  OBVIOUS
<1> USE ReminderAssumption DEF RemindersTypeOK, Writers, Moves, ReadFile
<1>1. ASSUME NEW r \in Reminds, RemindReads(r)
      PROVE  RemindersTypeOK'
  BY <1>1 DEF RemindReads
<1>2. ASSUME NEW r \in Reminds, RemindWrites(r)
      PROVE  RemindersTypeOK'
  BY <1>2 DEF RemindWrites
<1>3. ASSUME NEW r \in Reminds, FallsDue(r)
      PROVE  RemindersTypeOK'
  BY <1>3 DEF FallsDue
<1>4. ASSUME NEW t \in Ticks, PeelReads(t)
      PROVE  RemindersTypeOK'
  BY <1>4 DEF PeelReads
<1>5. ASSUME NEW t \in Ticks, PeelWrites(t)
      PROVE  RemindersTypeOK'
  BY <1>5 DEF PeelWrites
<1>6. ASSUME NEW t \in Ticks, Deliver(t)
      PROVE  RemindersTypeOK'
  BY <1>6 DEF Deliver
<1>7. ASSUME NEW t \in Ticks, DeliverFails(t)
      PROVE  RemindersTypeOK'
  BY <1>7 DEF DeliverFails
<1>8. CASE Crash
  BY <1>8 DEF Crash
<1>9. CASE UNCHANGED reminderVars
  BY <1>9 DEF reminderVars
<1>10. QED
  BY <1>1, <1>2, <1>3, <1>4, <1>5, <1>6, <1>7, <1>8, <1>9 DEF NextReminders, TickStep

(* The reminders file keeps its types.                                     *)
THEOREM RemindersTypeCorrect == ReminderSpec => []RemindersTypeOK
  BY RemindersTypeInit, RemindersTypeNext, PTL DEF ReminderSpec
-----------------------------------------------------------------------------
(* Who is about to write holds the rows as they are, and what it fires is  *)
(* still pending.  What is being delivered is marked, belongs to one tick  *)
(* and has not been delivered before.                                      *)
ReadsCurrent(w) == stage[w] = "write" => seen[w] = file
Fires(t) == stage[t] = "write" => \A r \in batch[t] : file[r] = "pending"
Owned(t, u) ==
  stage[t] = "deliver" /\ stage[u] = "deliver" /\ t # u =>
    batch[t] \intersect batch[u] = {}
Undelivered(t) == stage[t] = "deliver" => \A r \in batch[t] : notified[r] = 0
Unset(r) == stage[r] \in {"idle", "write"} => file[r] = "absent"
Counted(r) ==
  /\ notified[r] <= 1
  /\ notified[r] > 0 => file[r] = "delivered"

RemindersInv ==
  /\ RemindersTypeOK
  /\ \A v, w \in Writing : v = w
  /\ \A w \in Writers : ReadsCurrent(w)
  /\ FiredIsMarked
  /\ MarkedIsAccounted
  /\ \A t \in Ticks : Fires(t) /\ Undelivered(t)
  /\ \A t, u \in Ticks : Owned(t, u)
  /\ \A r \in Reminds : Unset(r) /\ Counted(r)

(* RemindersInv holds at the start.                                        *)
LEMMA RemindersInit == InitReminders => RemindersInv
<1> SUFFICES ASSUME InitReminders PROVE RemindersInv
  OBVIOUS
<1>1. RemindersTypeOK
  BY RemindersTypeInit
<1>2. QED
  BY <1>1, ReminderAssumption DEF InitReminders, RemindersInv, Writers, Writing,
     ReadsCurrent, FiredIsMarked, MarkedIsAccounted, Fires, Owned, Undelivered, Unset,
     Counted

(* A mark stays accounted for, step by step.                               *)
LEMMA AccountedNext ==
  ASSUME RemindersInv, [NextReminders]_reminderVars
  PROVE  MarkedIsAccounted'
<1> USE DEF MarkedIsAccounted
<1>t. RemindersTypeOK /\ MarkedIsAccounted
  BY DEF RemindersInv
<1>w. \A w \in Writers : stage[w] = "write" => seen[w] = file
  BY DEF RemindersInv, ReadsCurrent
<1> USE ReminderAssumption DEF RemindersTypeOK, Writers, Moves, ReadFile
<1>1. ASSUME NEW r \in Reminds, RemindReads(r) \/ RemindWrites(r) \/ FallsDue(r)
      PROVE  MarkedIsAccounted'
  BY <1>t, <1>w, <1>1 DEF RemindReads, MayRead, RemindWrites, FallsDue
<1>2. ASSUME NEW t \in Ticks, PeelReads(t)
      PROVE  MarkedIsAccounted'
  BY <1>t, <1>2 DEF PeelReads, MayRead
<1>3. ASSUME NEW t \in Ticks, PeelWrites(t)
      PROVE  MarkedIsAccounted'
  BY <1>t, <1>w, <1>3 DEF PeelWrites
<1>4. ASSUME NEW t \in Ticks, Deliver(t)
      PROVE  MarkedIsAccounted'
  <2>1. PICK r \in batch[t] :
          /\ notified' = [notified EXCEPT ![r] = @ + 1]
          /\ batch' = [batch EXCEPT ![t] = batch[t] \ {r}]
          /\ Moves(t, IF batch[t] \ {r} = {} THEN "idle" ELSE "deliver")
    BY <1>4 DEF Deliver
  <2>2. UNCHANGED <<file, lost>> /\ stage[t] = "deliver" /\ r \in Reminds
    BY <1>t, <1>4 DEF Deliver
  <2>3. notified'[r] > 0 /\ \A x \in Reminds : notified[x] > 0 => notified'[x] > 0
    BY <1>t, <2>1, <2>2
  <2>4. \A x \in batch[t] : x # r => stage'[t] = "deliver" /\ x \in batch'[t]
    BY <1>t, <2>1, <2>2
  <2>5. \A u \in Ticks \ {t} : stage'[u] = stage[u] /\ batch'[u] = batch[u]
    BY <1>t, <2>1
  <2>6. SUFFICES ASSUME NEW x \in Reminds, file'[x] = "delivered", ~(notified'[x] > 0)
                 PROVE  \/ x \in lost'
                        \/ \E u \in Ticks : stage'[u] = "deliver" /\ x \in batch'[u]
    BY <1>t, <2>1, <2>2
  <2>7. ~(notified[x] > 0) /\ x # r /\ file[x] = "delivered"
    BY <1>t, <2>2, <2>3, <2>6
  <2>8. x \in lost \/ \E u \in Ticks : stage[u] = "deliver" /\ x \in batch[u]
    BY <1>t, <2>7
  <2>9. QED
    BY <2>2, <2>4, <2>5, <2>7, <2>8
<1>5. ASSUME NEW t \in Ticks, DeliverFails(t)
      PROVE  MarkedIsAccounted'
  BY <1>t, <1>5 DEF DeliverFails
<1>6. CASE Crash
  BY <1>t, <1>6 DEF Crash
<1>7. CASE UNCHANGED reminderVars
  BY <1>t, <1>7 DEF reminderVars
<1>8. QED
  BY <1>1, <1>2, <1>3, <1>4, <1>5, <1>6, <1>7 DEF NextReminders, TickStep

(* With an uncontended file, every step keeps RemindersInv.                *)
LEMMA RemindersNext ==
  ASSUME RemindersInv, Serial, [NextReminders]_reminderVars
  PROVE  RemindersInv'
<1> USE ReminderAssumption DEF RemindersInv, Writers, Writing, ReadsCurrent,
     FiredIsMarked, Fires, Owned, Undelivered, Unset, Counted, Moves, ReadFile
<1>t. RemindersTypeOK /\ RemindersTypeOK'
  BY RemindersTypeNext
<1>m. MarkedIsAccounted'
  BY <1>t, AccountedNext
<1>1. ASSUME NEW r \in Reminds, RemindReads(r)
      PROVE  RemindersInv'
  BY <1>t, <1>m, <1>1 DEF RemindReads, MayRead, RemindersTypeOK
<1>2. ASSUME NEW r \in Reminds, RemindWrites(r)
      PROVE  RemindersInv'
  BY <1>t, <1>m, <1>2 DEF RemindWrites, RemindersTypeOK
<1>3. ASSUME NEW r \in Reminds, FallsDue(r)
      PROVE  RemindersInv'
  BY <1>t, <1>m, <1>3 DEF FallsDue
<1>4. ASSUME NEW t \in Ticks, PeelReads(t)
      PROVE  RemindersInv'
  BY <1>t, <1>m, <1>4 DEF PeelReads, MayRead, RemindersTypeOK
<1>5. ASSUME NEW t \in Ticks, PeelWrites(t)
      PROVE  RemindersInv'
  BY <1>t, <1>m, <1>5 DEF PeelWrites, RemindersTypeOK
<1>6. ASSUME NEW t \in Ticks, Deliver(t)
      PROVE  RemindersInv'
  BY <1>t, <1>m, <1>6 DEF Deliver, RemindersTypeOK
<1>7. ASSUME NEW t \in Ticks, DeliverFails(t)
      PROVE  RemindersInv'
  BY <1>t, <1>m, <1>7 DEF DeliverFails, RemindersTypeOK
<1>8. CASE Crash
  BY <1>t, <1>m, <1>8 DEF Crash, RemindersTypeOK
<1>9. CASE UNCHANGED reminderVars
  BY <1>t, <1>m, <1>9 DEF reminderVars
<1>10. QED
  BY <1>1, <1>2, <1>3, <1>4, <1>5, <1>6, <1>7, <1>8, <1>9 DEF NextReminders, TickStep

(* RemindersInv holds with an uncontended file.                            *)
THEOREM RemindersInvariant == ASSUME Serial PROVE ReminderSpec => []RemindersInv
<1>1. RemindersInv /\ [NextReminders]_reminderVars => RemindersInv'
  BY RemindersNext
<1>2. QED
  BY RemindersInit, <1>1, PTL DEF ReminderSpec

(* An uncontended file: no reminder is delivered twice, whatever crashes.  *)
THEOREM SerialDeliversOnce == ASSUME Serial PROVE ReminderSpec => []DeliveredOnce
<1>1. RemindersInv => DeliveredOnce
  BY DEF RemindersInv, Counted, DeliveredOnce
<1>2. QED
  BY RemindersInvariant, <1>1, PTL

(* An uncontended file: what is being delivered is marked as delivered.    *)
THEOREM SerialFiredIsMarked == ASSUME Serial PROVE ReminderSpec => []FiredIsMarked
  BY RemindersInvariant, PTL DEF RemindersInv

(* An uncontended file: no mark without a delivery that was begun.         *)
THEOREM SerialMarkedIsAccounted == ASSUME Serial PROVE ReminderSpec => []MarkedIsAccounted
  BY RemindersInvariant, PTL DEF RemindersInv

(* An uncontended file: no reminder is dropped or becomes pending again.   *)
THEOREM SerialRemindersKept == ASSUME Serial PROVE ReminderSpec => RemindersKept
<1> DEFINE Kept == \A r \in Reminds :
                     /\ file[r] # "absent" => file'[r] # "absent"
                     /\ file[r] = "delivered" => file'[r] = "delivered"
<1>1. RemindersInv /\ [NextReminders]_reminderVars => [Kept]_reminderVars
  BY DEF RemindersInv, RemindersTypeOK, Writers, ReadsCurrent, Unset, NextReminders, RemindReads,
     RemindWrites, FallsDue, TickStep, PeelReads, PeelWrites, Deliver,
     DeliverFails, Crash, reminderVars
<1>2. QED
  BY RemindersInvariant, <1>1, PTL DEF ReminderSpec, RemindersKept
=============================================================================
