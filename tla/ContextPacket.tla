--------------------------- MODULE ContextPacket ---------------------------
(***************************************************************************)
(* How a context packet is compiled from a mission's context               *)
(* (src/context/kernel.ts, budget.ts, sensitive-filter.ts): candidates,    *)
(* their order, deduplication, the budget, and the flag the model router   *)
(* relies on.                                                              *)
(*                                                                         *)
(* A text is a member of Contents and stands for its own SHA-256; Bytes is *)
(* its size after truncation.  An empty text adds nothing to a packet and  *)
(* is none of them; "" stands for a text that was left out.  A file is the *)
(* number its name sorts by, a note the number of its entry.  The diff of  *)
(* a tracked file that has changed since git took it stands for its        *)
(* content, "delta" for the empty diff.                                    *)
(***************************************************************************)
EXTENDS Naturals, FiniteSets, SequencesExt

CONSTANTS
  Files,          \* the files of the workspace, numbered in the order of names
  Contents,       \* texts
  Bytes,          \* their sizes in a packet
  Hits,           \* how many of the mission's keywords they contain
  Secret,         \* the texts that look like credentials
  SecretPaths,    \* the files whose names do
  Remembered,     \* approved memory items, [id, text, sens]
  WorkspaceNotes, \* the text of workspace-notes.md
  PackMaxBytes,   \* pack_max_bytes of context-diet.yaml
  PackMaxTokens   \* pack_max_estimated_tokens

ASSUME PacketAssumption ==
  /\ Files \subseteq Nat \ {0}
  /\ {"", "absent", "delta"} \intersect Contents = {}
  /\ Bytes \in [Contents -> Nat] /\ Hits \in [Contents -> Nat]
  /\ Secret \subseteq Contents /\ SecretPaths \subseteq Files
  /\ IsFiniteSet(Remembered)
  /\ Remembered \subseteq [id : Nat, text : Contents, sens : {"none", "low", "sensitive"}]
  /\ WorkspaceNotes \in Contents
  /\ PackMaxBytes \in Nat /\ PackMaxTokens \in Nat

(* An entry of context.json; dup is 0 or points to the entry it repeats.   *)
Entry == [kind : {"note", "file"}, src : Files \union {0}, text : Contents, dup : Nat]
Diet == [stale : {"warn", "omit"}, mode : {"full", "diff"}, notes : BOOLEAN, memory : BOOLEAN]

(* The note of the i-th entry is the n-th of mission.yaml.                 *)
NoteCursor(ix, i) == Cardinality({j \in 1..i : ix[j].kind = "note"})

(* isSensitiveContextPath and workspaceNoteLooksSensitive.                 *)
LooksSensitive(kind, label, text) == text \in Secret \/ (kind = "file" /\ label \in SecretPaths)

PackBytes(text) == IF text = "delta" THEN 1 ELSE Bytes[text]
Relevance(text) == IF text = "delta" THEN 0 ELSE Hits[text]
EstimatedTokens(bytes) == (bytes + 3) \div 4

Candidate(kind, label, text, key, raw, weight, stale, sens) ==
  [kind |-> kind, label |-> label, text |-> text, key |-> key, hits |-> Relevance(raw),
   weight |-> weight, stale |-> stale, sens |-> sens]

SensOf(kind, label, text) == IF LooksSensitive(kind, label, text) THEN "sensitive" ELSE "none"
-----------------------------------------------------------------------------
(* chooseFileBodyAsync: in diff mode a tracked file is its diff, empty     *)
(* when git holds what is on the disk and else with all of the new text,   *)
(* since one text replaces another whole; an untracked file is its content.*)
FileBody(f, disk, committed, diet) ==
  IF diet.mode = "diff" /\ f \in DOMAIN committed /\ committed[f] = disk[f]
  THEN "delta" ELSE disk[f]

Unreadable(f, disk, denied) == f \in denied \/ disk[f] = "absent"

NoteCandidates(ix, ns) ==
  {Candidate("note", i, ns[NoteCursor(ix, i)], <<"hash", ix[i].text>>,
             ns[NoteCursor(ix, i)], 0, FALSE, SensOf("note", i, ns[NoteCursor(ix, i)])) :
     i \in {j \in DOMAIN ix : /\ ix[j].kind = "note" /\ ix[j].dup = 0
                              /\ NoteCursor(ix, j) <= Len(ns)}}

FileCandidates(ix, disk, denied, committed, diet) ==
  {LET e == ix[i]
       body == FileBody(e.src, disk, committed, diet)
   IN Candidate("file", e.src, body, <<"hash", e.text>>, disk[e.src],
                100 + PackBytes(body), e.text # disk[e.src], SensOf("file", e.src, body)) :
     i \in {j \in DOMAIN ix : /\ ix[j].kind = "file" /\ ix[j].dup = 0
                              /\ ~Unreadable(ix[j].src, disk, denied)}}

NotesFile(diet) ==
  {Candidate("workspace_note", 0, WorkspaceNotes, <<"ws">>, WorkspaceNotes, 50, FALSE,
             SensOf("workspace_note", 0, WorkspaceNotes)) : t \in {d \in {diet} : d.notes}}

MemoryRows(diet) ==
  {Candidate("memory", m.id, m.text, <<"mem", m.id>>, m.text, 62, FALSE, m.sens) :
     m \in {r \in Remembered : diet.memory}}

Excluded(ix, disk, denied, committed, diet) ==
  {<<ix[i].src,
     CASE ix[i].src \in denied -> "policy_deny_path"
       [] disk[ix[i].src] = "absent" -> "unreadable_file"
       [] OTHER -> "git_diff_failed">> :
     i \in {j \in DOMAIN ix : /\ ix[j].kind = "file" /\ ix[j].dup = 0
                              /\ \/ Unreadable(ix[j].src, disk, denied)
                                 \/ diet.mode = "diff" /\ ix[j].src \notin DOMAIN committed}}
-----------------------------------------------------------------------------
(* prepareSortedCandidates: the sort is by relevance, weight and label.    *)
Before(c, d) ==
  \/ c.hits > d.hits
  \/ c.hits = d.hits /\ c.weight < d.weight
  \/ c.hits = d.hits /\ c.weight = d.weight /\ c.label < d.label

Foremost(cands) == CHOOSE c \in cands : \A d \in cands : ~Before(d, c)
InOrder(cands) ==
  MapThenFoldSet(LAMBDA c, rest : <<c>> \o rest, <<>>, LAMBDA c : c, Foremost, cands)

(* The first half of applyPackBudget: one candidate per key.               *)
Unique(cands) ==
  FoldLeft(LAMBDA kept, c : IF \E k \in DOMAIN kept : kept[k].key = c.key
                            THEN kept ELSE Append(kept, c), <<>>, cands)

Placed(c, text, included, reason) ==
  [kind |-> c.kind, label |-> c.label, text |-> text, key |-> c.key, sens |-> c.sens,
   included |-> included, reason |-> reason, bytes |-> PackBytes(c.text)]

(* The second half: what fits is taken, in that order.                     *)
TakeItem_refillsLast(done, c, diet) ==
  LET nextBytes == done.bytes + PackBytes(c.text)
      over == nextBytes > PackMaxBytes \/ done.tokens >= PackMaxTokens
  IN IF c.stale /\ diet.stale = "omit"
     THEN [done EXCEPT !.items = Append(@, Placed(c, "", FALSE, "stale"))]
     ELSE IF over
     THEN [done EXCEPT !.items = Append(@, Placed(c, "", FALSE, "size"))]
     ELSE [items |-> Append(done.items, Placed(c, c.text, TRUE, "none")),
           bytes |-> nextBytes, tokens |-> done.tokens + EstimatedTokens(PackBytes(c.text))]

TakeItem(done, c, diet) ==
  LET nextBytes == done.bytes + PackBytes(c.text)
      nextTokens == done.tokens + EstimatedTokens(PackBytes(c.text))
      over == nextBytes > PackMaxBytes \/ nextTokens > PackMaxTokens
  IN IF c.stale /\ diet.stale = "omit"
     THEN [done EXCEPT !.items = Append(@, Placed(c, "", FALSE, "stale"))]
     ELSE IF over
     THEN [done EXCEPT !.items = Append(@, Placed(c, "", FALSE, "size"))]
     ELSE [items |-> Append(done.items, Placed(c, c.text, TRUE, "none")),
           bytes |-> nextBytes, tokens |-> nextTokens]

ApplyPackBudget(cands, diet) ==
  FoldLeft(LAMBDA done, c : TakeItem(done, c, diet),
           [items |-> <<>>, bytes |-> 0, tokens |-> 0], Unique(cands))

(* sensitiveContextIncluded, computed from what ended up in the packet.    *)
SensitiveIncluded_ofNotes(items) ==
  \E i \in DOMAIN items :
     items[i].included /\ LooksSensitive(items[i].kind, items[i].label, items[i].text)

SensitiveIncluded(items) ==
  \E i \in DOMAIN items :
     /\ items[i].text # ""
     /\ \/ LooksSensitive(items[i].kind, items[i].label, items[i].text)
        \/ items[i].kind = "memory" /\ items[i].sens = "sensitive"

(* compileContextPacket, after its reads.                                  *)
Compile(ix, ns, disk, denied, committed, diet) ==
  LET cands == UNION {NoteCandidates(ix, ns), FileCandidates(ix, disk, denied, committed, diet),
                      NotesFile(diet), MemoryRows(diet)}
      packed == ApplyPackBudget(InOrder(cands), diet)
  IN [items |-> packed.items, bytes |-> packed.bytes, tokens |-> packed.tokens,
      excluded |-> Excluded(ix, disk, denied, committed, diet),
      sensitive |-> SensitiveIncluded(packed.items)]
=============================================================================
