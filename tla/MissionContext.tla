--------------------------- MODULE MissionContext ---------------------------
(***************************************************************************)
(* A mission's context (src/missions/context.ts, context-diet.ts): notes   *)
(* and attached files are kept in context.json, mirrored in mission.yaml,  *)
(* deduplicated by content, pruned when stale, and compiled into a packet  *)
(* for a model call (ContextPacket).                                       *)
(*                                                                         *)
(* Each command is a call that reads and writes whole files with an await  *)
(* in between.  context.md is a transcript nobody reads back and is left   *)
(* out; refCount and sizes are not kept.                                   *)
(***************************************************************************)
EXTENDS ContextPacket

CONSTANTS
  Calls,          \* commands that are issued
  Committed,      \* what git holds of the files it tracks
  Diets,          \* context-diet.yaml as it may be
  FirstDisks,     \* what the files may hold at first
  MaxOverlap,     \* bound: how many calls are made when they interleave
  MaxEdits,       \* bound: changes of a file or of the policy's deny list
  MaxCallDeaths   \* bound: processes that die

ASSUME ContextAssumption ==
  /\ DOMAIN Committed \subseteq Files /\ Diets \subseteq Diet
  /\ FirstDisks \subseteq [Files -> Contents]
  /\ MaxOverlap \in Nat
  /\ MaxEdits \in Nat /\ MaxCallDeaths \in Nat

VARIABLES
  disk,           \* the workspace's files
  denied,         \* files the policy denies
  diet,           \* context-diet.yaml, and whether memory is stored
  index,          \* the entries of context.json
  notes, files,   \* mission.yaml: context.notes and context.files
  artifacts,      \* context packets written
  ledger,         \* lines of ledger.jsonl, [type, call]
  pc, seen,       \* per call: what it does next, and what it holds
  inTurn,         \* TRUE when one call ends before the next begins
  edits, callDeaths

contextVars == <<disk, denied, diet, index, notes, files, artifacts, ledger, pc, seen,
          inTurn, edits, callDeaths>>
mission == <<notes, files>>
contextWorld == <<disk, denied, diet, inTurn, edits, callDeaths>>

Held(ix, ns, fs, text, src) ==
  [index |-> ix, notes |-> ns, files |-> fs, text |-> text, src |-> src, pack |-> <<>>]
Nothing == Held(<<>>, <<>>, {}, "", 0)

ContextTypeOK ==
  /\ disk \in [Files -> Contents \union {"absent"}]
  /\ denied \subseteq Files /\ diet \in Diet
  /\ index \in Seq(Entry) /\ notes \in Seq(Contents) /\ files \subseteq Files
  /\ artifacts \subseteq Calls /\ ledger \subseteq {"user.note", "packet"} \X Calls
  /\ pc \in [Calls -> {"idle", "noteLooks", "fileLooks", "reread", "put", "mirror",
                       "record", "scan", "compile", "artifact", "log", "over"}]

InitContext ==
  /\ disk \in FirstDisks
  /\ denied = {}
  /\ diet \in Diets
  /\ index = <<>> /\ notes = <<>> /\ files = {}
  /\ artifacts = {} /\ ledger = {}
  /\ pc = [c \in Calls |-> "idle"]
  /\ seen = [c \in Calls |-> Nothing]
  /\ inTurn \in BOOLEAN
  /\ edits = 0 /\ callDeaths = 0

Working == {c \in Calls : pc[c] \notin {"idle", "over"}}
MayBegin(c) ==
  /\ pc[c] = "idle"
  /\ IF inTurn THEN Working = {} ELSE Cardinality({d \in Calls : pc[d] # "idle"}) < MaxOverlap
Goto(c, step) == pc' = [pc EXCEPT ![c] = step]

NoteEntry(text, dup) == [kind |-> "note", src |-> 0, text |-> text, dup |-> dup]
FileEntry(f, text, dup) == [kind |-> "file", src |-> f, text |-> text, dup |-> dup]

(* The entry a new one would repeat: same kind and content, itself no      *)
(* repetition.                                                             *)
Canonical(kind, text) ==
  {i \in DOMAIN index : index[i].kind = kind /\ index[i].text = text /\ index[i].dup = 0}
Without(ix, gone) ==
  FoldLeft(LAMBDA kept, e : IF e \in gone THEN kept ELSE Append(kept, e), <<>>, ix)
SamePath(ix, f) == {i \in DOMAIN ix : ix[i].kind = "file" /\ ix[i].src = f}
Least(S) == CHOOSE i \in S : \A j \in S : i <= j
-----------------------------------------------------------------------------
(* addNote.                                                                *)
NoteReads(c, text) ==
  /\ MayBegin(c)
  /\ seen' = [seen EXCEPT ![c] = Held(<<>>, Append(notes, text), files, text, 0)]
  /\ Goto(c, "noteLooks")
  /\ UNCHANGED <<index, mission, artifacts, ledger, contextWorld>>

NoteLooks(c) ==
  /\ pc[c] = "noteLooks"
  /\ LET same == Canonical("note", seen[c].text)
     IN \/ /\ same # {}
           /\ seen' = [seen EXCEPT ![c].index =
                         Append(index, NoteEntry(seen[c].text, Least(same)))]
           /\ Goto(c, "put")
        \/ same = {} /\ UNCHANGED seen /\ Goto(c, "reread")
  /\ UNCHANGED <<index, mission, artifacts, ledger, contextWorld>>

(* addFile: the path guard and stat refuse before anything is written.     *)
FileReads(c, f) ==
  /\ MayBegin(c)
  /\ IF Unreadable(f, disk, denied)
     THEN Goto(c, "over") /\ UNCHANGED seen
     ELSE /\ seen' = [seen EXCEPT ![c] = Held(<<>>, notes, files \union {f}, disk[f], f)]
          /\ Goto(c, "fileLooks")
  /\ UNCHANGED <<index, mission, artifacts, ledger, contextWorld>>

FileLooks_anyHash(c) ==
  /\ pc[c] = "fileLooks"
  /\ LET f == seen[c].src
         text == seen[c].text
         path == SamePath(index, f)
         same == {i \in DOMAIN index : index[i].kind = "file" /\ index[i].dup = 0}
     IN \/ /\ path # {}
           /\ seen' = [seen EXCEPT ![c].index =
                         [index EXCEPT ![Least(path)] = FileEntry(f, text, 0)]]
           /\ Goto(c, "put")
        \/ /\ path = {} /\ same # {}
           /\ seen' = [seen EXCEPT ![c].index =
                         Append(index, FileEntry(f, text, index[Least(same)].src))]
           /\ Goto(c, "put")
        \/ path = {} /\ same = {} /\ UNCHANGED seen /\ Goto(c, "reread")
  /\ UNCHANGED <<index, mission, artifacts, ledger, contextWorld>>

FileLooks(c) ==
  /\ pc[c] = "fileLooks"
  /\ LET f == seen[c].src
         text == seen[c].text
         path == SamePath(index, f)
         same == Canonical("file", text)
     IN \/ /\ path # {}
           /\ seen' = [seen EXCEPT ![c].index =
                         [index EXCEPT ![Least(path)] = FileEntry(f, text, 0)]]
           /\ Goto(c, "put")
        \/ /\ path = {} /\ same # {}
           /\ seen' = [seen EXCEPT ![c].index =
                         Append(index, FileEntry(f, text, index[Least(same)].src))]
           /\ Goto(c, "put")
        \/ path = {} /\ same = {} /\ UNCHANGED seen /\ Goto(c, "reread")
  /\ UNCHANGED <<index, mission, artifacts, ledger, contextWorld>>

(* upsertContextEntry reads the index again; a file replaces its path.     *)
Reread(c) ==
  /\ pc[c] = "reread"
  /\ LET s == seen[c]
         others == Without(index, {e \in Range(index) : e.kind = "file" /\ e.src = s.src})
     IN seen' = [seen EXCEPT ![c].index =
                   IF s.src = 0 THEN Append(index, NoteEntry(s.text, 0))
                                ELSE Append(others, FileEntry(s.src, s.text, 0))]
  /\ Goto(c, "put")
  /\ UNCHANGED <<index, mission, artifacts, ledger, contextWorld>>

Put(c) ==
  /\ pc[c] = "put"
  /\ index' = seen[c].index
  /\ Goto(c, "mirror")
  /\ UNCHANGED <<mission, artifacts, ledger, seen, contextWorld>>

(* mirrorMissionContext writes the mission read at the beginning.          *)
MirrorMission_notesOnly(c) ==
  /\ pc[c] = "mirror"
  /\ notes' = seen[c].notes
  /\ IF seen[c].text = "" THEN Goto(c, "over") /\ seen' = [seen EXCEPT ![c] = Nothing]
                         ELSE Goto(c, "record") /\ UNCHANGED seen
  /\ UNCHANGED <<files, index, artifacts, ledger, contextWorld>>

MirrorMission(c) ==
  /\ pc[c] = "mirror"
  /\ notes' = seen[c].notes
  /\ files' = seen[c].files
  /\ IF seen[c].text = "" THEN Goto(c, "over") /\ seen' = [seen EXCEPT ![c] = Nothing]
                         ELSE Goto(c, "record") /\ UNCHANGED seen
  /\ UNCHANGED <<index, artifacts, ledger, contextWorld>>

Record(c) ==
  /\ pc[c] = "record"
  /\ ledger' = ledger \union {<<"user.note", c>>}
  /\ Goto(c, "over")
  /\ seen' = [seen EXCEPT ![c] = Nothing]
  /\ UNCHANGED <<index, mission, artifacts, contextWorld>>
-----------------------------------------------------------------------------
(* pruneStaleContextEntries.                                               *)
PruneReads(c) ==
  /\ MayBegin(c)
  /\ seen' = [seen EXCEPT ![c] = Held(index, <<>>, {}, "", 0)]
  /\ Goto(c, "scan")
  /\ UNCHANGED <<index, mission, artifacts, ledger, contextWorld>>

(* listStaleContextEntries throws for a denied path and looks at no        *)
(* repetition; an unreadable file is stale.                                *)
StaleSources(ix) ==
  {ix[i].src : i \in {j \in DOMAIN ix : /\ ix[j].kind = "file" /\ ix[j].dup = 0
                                        /\ ix[j].text # disk[ix[j].src]}}
Throws(ix) == \E i \in DOMAIN ix : ix[i].kind = "file" /\ ix[i].dup = 0 /\ ix[i].src \in denied

PruneScan(c) ==
  /\ pc[c] = "scan"
  /\ LET stale == StaleSources(index)
         next == Without(seen[c].index,
                         {e \in Range(seen[c].index) :
                            e.kind = "file" /\ (e.src \in stale \/ e.dup \in stale)})
     IN IF Throws(index) \/ Len(next) = Len(seen[c].index)
        THEN Goto(c, "over") /\ seen' = [seen EXCEPT ![c] = Nothing]
        ELSE /\ seen' = [seen EXCEPT ![c] = Held(next, notes, files \ stale, "", 0)]
             /\ Goto(c, "put")
  /\ UNCHANGED <<index, mission, artifacts, ledger, contextWorld>>
-----------------------------------------------------------------------------
(* compileContextPacket and the artifact and ledger lines it leaves.       *)
PackReads(c) ==
  /\ MayBegin(c)
  /\ seen' = [seen EXCEPT ![c] = Held(index, <<>>, {}, "", 0)]
  /\ Goto(c, "compile")
  /\ UNCHANGED <<index, mission, artifacts, ledger, contextWorld>>

PackCompiles(c) ==
  /\ pc[c] = "compile"
  /\ seen' = [seen EXCEPT ![c].pack =
                <<Compile(seen[c].index, notes, disk, denied, Committed, diet)>>]
  /\ Goto(c, "artifact")
  /\ UNCHANGED <<index, mission, artifacts, ledger, contextWorld>>

WriteArtifact_logsFirst(c) ==
  /\ pc[c] = "artifact"
  /\ ledger' = ledger \union {<<"packet", c>>}
  /\ Goto(c, "log")
  /\ UNCHANGED <<index, mission, artifacts, seen, contextWorld>>

WriteArtifact(c) ==
  /\ pc[c] = "artifact"
  /\ artifacts' = artifacts \union {c}
  /\ Goto(c, "log")
  /\ UNCHANGED <<index, mission, ledger, seen, contextWorld>>

LogPacket(c) ==
  /\ pc[c] = "log"
  /\ ledger' = ledger \union {<<"packet", c>>}
  /\ Goto(c, "over")
  /\ seen' = [seen EXCEPT ![c] = Nothing]
  /\ UNCHANGED <<index, mission, artifacts, contextWorld>>
-----------------------------------------------------------------------------
(* The workspace changes under the mission.                                *)
Edit(f, text) ==
  /\ edits < MaxEdits
  /\ disk[f] # text
  /\ disk' = [disk EXCEPT ![f] = text]
  /\ edits' = edits + 1
  /\ UNCHANGED <<denied, diet, index, mission, artifacts, ledger, pc, seen, inTurn, callDeaths>>

Deny(f) ==
  /\ edits < MaxEdits
  /\ f \notin denied
  /\ denied' = denied \union {f}
  /\ edits' = edits + 1
  /\ UNCHANGED <<disk, diet, index, mission, artifacts, ledger, pc, seen, inTurn, callDeaths>>

CallDies(c) ==
  /\ c \in Working
  /\ callDeaths < MaxCallDeaths
  /\ Goto(c, "over")
  /\ seen' = [seen EXCEPT ![c] = Nothing]
  /\ callDeaths' = callDeaths + 1
  /\ UNCHANGED <<disk, denied, diet, index, mission, artifacts, ledger, inTurn, edits>>

(* narthynx context, by its options; the planner packs as --pack does.     *)
Command(c) ==
  \/ \E text \in Contents : NoteReads(c, text)
  \/ \E f \in Files : FileReads(c, f)
  \/ PruneReads(c)
  \/ PackReads(c)

NextContext ==
  \/ \E c \in Calls :
       \/ Command(c)
       \/ NoteLooks(c) \/ FileLooks(c) \/ Reread(c) \/ Put(c) \/ MirrorMission(c) \/ Record(c)
       \/ PruneScan(c) \/ PackCompiles(c) \/ WriteArtifact(c) \/ LogPacket(c)
       \/ CallDies(c)
  \/ \E f \in Files : Deny(f) \/ \E text \in Contents \union {"absent"} : Edit(f, text)

ContextSpec == InitContext /\ [][NextContext]_contextVars
-----------------------------------------------------------------------------
AllIdle == Working = {}
Sources(ix) == {ix[i].src : i \in {j \in DOMAIN ix : ix[j].kind = "file"}}
NoteTexts(ix) ==
  FoldLeft(LAMBDA texts, e : IF e.kind = "note" THEN Append(texts, e.text) ELSE texts, <<>>, ix)

(* Commands that do not overlap, none of which died, leave context.json    *)
(* and mission.yaml in step: the notes are those of the entries, in their  *)
(* order, on which the kernel's cursor relies (kernel.ts:207), and every   *)
(* attached file is on the mission's list.                                 *)
IndexMatchesMission ==
  inTurn /\ callDeaths = 0 /\ AllIdle => NoteTexts(index) = notes /\ Sources(index) \subseteq files

(* What was attached is in the packet, or listed in it as omitted: as long *)
(* as nothing is edited, deduplication by content, within files and across *)
(* notes and files, loses no text.  In diff mode a tracked file stands for *)
(* its text by its diff, which is empty when git holds that very text,     *)
(* even for an untracked repetition of it, which is left out               *)
(* (kernel.ts:242).  In any case a repeated file points to an entry that   *)
(* stands for it: pruning removes it with its original.                    *)
Carries(it, text, d) ==
  \/ ~it.included
  \/ it.text = text
  \/ /\ d.mode = "diff" /\ it.kind = "file" /\ it.text = "delta"
     /\ it.label \in DOMAIN Committed /\ Committed[it.label] = text

AttachedIsListed ==
  inTurn /\ callDeaths = 0 /\ AllIdle =>
    /\ edits = 0 =>
         LET items == Compile(index, notes, disk, denied, Committed, diet).items
         IN \A i \in DOMAIN index : \E k \in DOMAIN items :
              items[k].key = <<"hash", index[i].text>> /\ Carries(items[k], index[i].text, diet)
    /\ \A i \in DOMAIN index :
         index[i].kind = "file" /\ index[i].dup # 0 =>
           \E j \in DOMAIN index : index[j].kind = "file" /\ index[j].src = index[i].dup

(* Whatever overlaps, a packet keeps both budgets, wastes no room (what    *)
(* was left out for its size would not fit in what is left), and carries   *)
(* the flag when anything in it is sensitive: the router asks for consent  *)
(* on the strength of the flag alone.                                      *)
Total(items) ==
  FoldLeft(LAMBDA sum, it : IF it.included
                            THEN [bytes |-> sum.bytes + it.bytes,
                                  tokens |-> sum.tokens + EstimatedTokens(it.bytes)]
                            ELSE sum,
           [bytes |-> 0, tokens |-> 0], items)
Included(p) == {i \in DOMAIN p.items : p.items[i].included}
FitsBudgets(p) ==
  LET sum == Total(p.items)
  IN /\ sum.bytes <= PackMaxBytes /\ sum.tokens <= PackMaxTokens
     /\ \A i \in DOMAIN p.items : p.items[i].reason = "size" =>
          \/ sum.bytes + p.items[i].bytes > PackMaxBytes
          \/ sum.tokens + EstimatedTokens(p.items[i].bytes) > PackMaxTokens
FlagIsTrue(p) == \A i \in Included(p) : p.items[i].sens = "sensitive" => p.sensitive

PackFits == \A c \in Calls : \A k \in DOMAIN seen[c].pack : FitsBudgets(seen[c].pack[k])
FlagCoversPack == \A c \in Calls : \A k \in DOMAIN seen[c].pack : FlagIsTrue(seen[c].pack[k])

(* A packet the ledger names can be inspected: its artifact exists.        *)
LoggedHasArtifact == \A c \in Calls : <<"packet", c>> \in ledger => c \in artifacts
=============================================================================
