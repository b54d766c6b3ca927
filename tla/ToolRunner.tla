----------------------------- MODULE ToolRunner -----------------------------
(***************************************************************************)
(* Running tools (src/tools/runner.ts and the tools under src/tools): a    *)
(* request is checked, allowed, blocked or turned into an approval; the    *)
(* approved request is continued later, when the policy file, the files    *)
(* and the configuration may have changed; a file is written only after a  *)
(* checkpoint of it, which can be rewound (src/missions/checkpoints.ts);   *)
(* long outputs become artifacts of the mission (src/missions/artifacts.ts).*)
(*                                                                         *)
(* One action per step between two awaits that touch shared files.  The    *)
(* approvals file itself is ApprovalGate's; here an approval is a status.  *)
(***************************************************************************)
EXTENDS ToolPolicy, Naturals, FiniteSets, SequencesExt

CONSTANTS
  Calls,          \* tool requests
  Requests,       \* what a request can be: records [tool, target]
  Policies,       \* contents of policy.yaml
  Absent,         \* the content of a file that does not exist
  MaxDeaths,      \* bound: processes that die
  MaxTries,       \* bound: continuations of approved requests
  MaxEdits,       \* bound: edits of policy.yaml
  MaxRewinds,     \* bound: rewind commands
  MaxOverlap      \* bound: continuations and rewinds when processes overlap

ASSUME ToolRunnerAssumption ==
  /\ Policies \subseteq Policy
  /\ Requests \subseteq [tool : Tools, target : Targets]
  /\ MaxDeaths \in Nat /\ MaxTries \in Nat /\ MaxEdits \in Nat /\ MaxRewinds \in Nat
  /\ MaxOverlap \in Nat

VARIABLES
  request,        \* what each call asks for
  policy,         \* policy.yaml
  files,          \* the workspace files
  checkpoints,    \* checkpoint files, in order of creation
  outputs,        \* output files of the mission
  listed,         \* artifacts in mission.yaml
  cache,          \* mcp-cache: servers with a fresh entry
  approval,       \* per call: none, pending, approved, denied, executed
  pc,             \* per call: what it does next
  list,           \* per call: the artifacts it has read from mission.yaml
  rewind,         \* the rewind command in progress: step and checkpoint
  effects,        \* how often each call took effect
  failed,         \* how often each call failed or died
  since,          \* policies in force since the call was last started
  base,           \* the files before the first checkpoint
  orderly,        \* no file edited by hand, no rewind out of turn: each by
                  \* one process at a time, newest first, none twice
  serial,         \* one process at a time
  budget          \* what is left of the bounds

vars == <<request, policy, files, checkpoints, outputs, listed, cache, approval, pc, list, rewind, effects, failed, since, base, orderly, serial, budget>>
disk == <<files, checkpoints, outputs, listed, cache>>
ghosts == <<effects, failed, since, base, orderly, serial>>

Contents == Calls \union {Absent, "original", "binary", "mangled", "byHand", "torn"}

(* A file read as utf8: what is no text comes out as other text.  (What is *)
(* left of a torn text is taken to be text.)                               *)
Decoded(content) == IF content = "binary" THEN "mangled" ELSE content
Text(fs) == [x \in Targets |-> Decoded(fs[x])]
Statuses == {"none", "pending", "approved", "denied", "executed"}
Resting == {"idle", "over"}

Init ==
  /\ request \in [Calls -> Requests]
  /\ policy \in Policies
  /\ files \in [Targets -> {Absent, "original", "binary"}]
  /\ checkpoints = <<>>
  /\ outputs = {} /\ listed = {} /\ cache = {}
  /\ approval = [c \in Calls |-> "none"]
  /\ pc = [c \in Calls |-> "idle"]
  /\ list = [c \in Calls |-> {}]
  /\ rewind = [step |-> "none", of |-> 0]
  /\ effects = [c \in Calls |-> 0]
  /\ failed = [c \in Calls |-> 0]
  /\ since = [c \in Calls |-> {}]
  /\ base = files
  /\ orderly = TRUE
  /\ serial \in BOOLEAN
  /\ budget = [deaths |-> MaxDeaths, edits |-> MaxEdits,
               rewinds |-> IF serial THEN MaxRewinds ELSE MaxOverlap,
               tries |-> IF serial THEN MaxTries ELSE MaxOverlap]

Tool(c) == request[c].tool
Target(c) == request[c].target
InFlight == {c \in Calls : pc[c] \notin Resting}
Quiet == InFlight = {} /\ rewind.step = "none"
MayStart == serial => Quiet
Goto(c, step) == pc' = [pc EXCEPT ![c] = step]
Spend(what) == budget' = [budget EXCEPT ![what] = @ - 1]

(* appendFailed: the call reports a failure.                               *)
Fail(c) == Goto(c, "over") /\ failed' = [failed EXCEPT ![c] = @ + 1]
-----------------------------------------------------------------------------
(* runTool: an unknown tool, an invalid input or an invalid policy fails;  *)
(* the policy read decides the rest.                                       *)
Request(c) ==
  /\ pc[c] = "idle" /\ MayStart
  /\ since' = [since EXCEPT ![c] = {policy}]
  /\ LET t == Tool(c)
         decision == Decision(policy, t, Target(c))
         refused == ~policy.valid \/ ~InputSafe(policy, t, Target(c)) \/ decision = "block"
     IN /\ approval' = [approval EXCEPT ![c] = IF ~refused /\ decision = "approval"
                                                THEN "pending" ELSE @]
        /\ Goto(c, IF ~refused /\ decision = "allow" THEN "start" ELSE "over")
  /\ UNCHANGED <<request, policy, disk, list, rewind, effects, failed, base, orderly, serial,
                 budget>>

(* The user rules on the approval.                                         *)
Rule(c) ==
  /\ approval[c] = "pending" /\ MayStart
  /\ \E ruling \in {"approved", "denied"} : approval' = [approval EXCEPT ![c] = ruling]
  /\ UNCHANGED <<request, policy, disk, pc, list, rewind, ghosts, budget>>

Continue_trustsRequest(c) ==
  /\ pc[c] = "over" /\ MayStart
  /\ approval[c] = "approved" /\ Continues(Tool(c))
  /\ budget.tries > 0 /\ Spend("tries")
  /\ since' = [since EXCEPT ![c] = {policy}]
  /\ Goto(c, IF Tool(c) = "filesystem.write" THEN "snapshot" ELSE "start")
  /\ UNCHANGED <<request, policy, disk, approval, list, rewind, effects, failed, base,
                 orderly, serial>>

(* runApprovedTool: only an approved entry that is not executed, of a tool *)
(* that has a continuation; the policy and the input are checked again.    *)
Continue(c) ==
  /\ pc[c] = "over" /\ MayStart
  /\ approval[c] = "approved" /\ Continues(Tool(c))
  /\ budget.tries > 0 /\ Spend("tries")
  /\ since' = [since EXCEPT ![c] = {policy}]
  /\ IF ~policy.valid \/ ~InputSafe(policy, Tool(c), Target(c))
     THEN Fail(c)
     ELSE Goto(c, IF Tool(c) = "filesystem.write" THEN "snapshot" ELSE "start")
          /\ UNCHANGED failed
  /\ UNCHANGED <<request, policy, disk, approval, list, rewind, effects, base, orderly, serial>>

-----------------------------------------------------------------------------
(* createFilesystemWriteCheckpoint: the file's content, read as utf8, goes *)
(* into a checkpoint file, and mission.yaml lists the checkpoint files,    *)
(* which throws when one of them is torn.                                  *)
Readable == \A k \in DOMAIN checkpoints : ~checkpoints[k].torn

NewCheckpoint(c, torn) ==
  Append(checkpoints, [target |-> Target(c), by |-> c, snapshot |-> Decoded(files[Target(c)]),
                       restored |-> FALSE, torn |-> torn])

Snapshot(c) ==
  /\ pc[c] = "snapshot"
  /\ IF ~RunAccepts(policy, "filesystem.write", Target(c))
     THEN Fail(c) /\ UNCHANGED checkpoints
     ELSE /\ checkpoints' = NewCheckpoint(c, FALSE)
          /\ IF Readable THEN Goto(c, "start") /\ UNCHANGED failed ELSE Fail(c)
  /\ UNCHANGED <<request, policy, files, outputs, listed, cache, approval, list, rewind,
                 effects, since, base, orderly, serial, budget>>

(* executeTool appends its started line.                                   *)
Start(c) ==
  /\ pc[c] = "start"
  /\ Goto(c, "run")
  /\ UNCHANGED <<request, policy, disk, approval, list, rewind, ghosts, budget>>

(* The artifact a call leaves: output names carry the time, the report has *)
(* one name.                                                               *)
Output(c) == IF Tool(c) = "report.write" THEN <<"report", 0>> ELSE <<c, effects[c]>>

TookEffect(c) == effects' = [effects EXCEPT ![c] = @ + 1]

(* A tool's run reads the policy where it checks once more, does its work  *)
(* and goes on to its output, if it has one.                               *)
Works(c, next) ==
  /\ pc[c] = "run" /\ RunAccepts(policy, Tool(c), Target(c))
  /\ TookEffect(c)
  /\ Goto(c, next)
  /\ UNCHANGED <<request, policy, checkpoints, outputs, listed, approval, list, rewind,
                 failed, since, base, orderly, serial, budget>>

(* It throws before it did anything: appendFailed.                         *)
Throws(c) ==
  /\ pc[c] = "run" /\ Fail(c)
  /\ UNCHANGED <<request, policy, disk, approval, list, rewind, effects, since, base,
                 orderly, serial, budget>>

RunFilesystem(c) ==
  /\ Tool(c) \in {"filesystem.read", "filesystem.write"}
  /\ Works(c, "complete")
  /\ files' = IF Tool(c) = "filesystem.write" THEN [files EXCEPT ![Target(c)] = c] ELSE files
  /\ UNCHANGED cache

(* Inside a repository the whole output of git becomes an artifact; that of *)
(* a shell command always does.                                            *)
RunGit(c) ==
  /\ Tool(c) = "git.diff"
  /\ \E next \in {"output", "complete"} : Works(c, next)
  /\ UNCHANGED <<files, cache>>

RunShell(c) == Tool(c) = "shell.run" /\ Works(c, "output") /\ UNCHANGED <<files, cache>>
RunReport(c) == Tool(c) = "report.write" /\ Works(c, "output") /\ UNCHANGED <<files, cache>>

(* vault.read and mcp.servers.list only read.                              *)
RunReading(c) ==
  /\ Tool(c) \in {"vault.read", "mcp.servers.list"}
  /\ Works(c, "complete") /\ UNCHANGED <<files, cache>>

(* A snapshot or screenshot of the page is an artifact; the other browser  *)
(* tools leave none.                                                       *)
RunBrowser(c) ==
  /\ Family(Tool(c)) = "browser"
  /\ Works(c, IF Tool(c) = "browser.snapshot" THEN "output" ELSE "complete")
  /\ UNCHANGED <<files, cache>>

(* Answers too long for a line of the ledger become artifacts.             *)
RunGithub(c) ==
  /\ Family(Tool(c)) = "github"
  /\ \E next \in {"output", "complete"} : Works(c, next)
  /\ UNCHANGED <<files, cache>>

RunMcpCall(c) ==
  /\ Tool(c) = "mcp.tools.call"
  /\ \E next \in {"output", "complete"} : Works(c, next)
  /\ UNCHANGED <<files, cache>>

RunMcpList(c) ==
  /\ Tool(c) \in {"mcp.tools.list", "mcp.tools.refresh"}
  /\ Works(c, "complete")
  /\ cache' = cache \union {Target(c)}
  /\ UNCHANGED files

(* A page or a server that answers late, or with what cannot be used, has  *)
(* done the work of a call that reports a failure.                         *)
WorksButFails(c) ==
  /\ pc[c] = "run" /\ RunAccepts(policy, Tool(c), Target(c))
  /\ Meta[Tool(c)].side \in {"network", "external_comm"}
  /\ TookEffect(c) /\ Fail(c)
  /\ UNCHANGED <<request, policy, disk, approval, list, rewind, since, base, orderly,
                 serial, budget>>

(* mcp.tools.list answers from an entry younger than five minutes unless   *)
(* it was asked to refresh: the server is not reached.                     *)
AnswerFromCache(c) ==
  /\ pc[c] = "run"
  /\ Tool(c) = "mcp.tools.list" /\ Target(c) \in cache
  /\ Goto(c, "complete")
  /\ UNCHANGED <<request, policy, disk, approval, list, rewind, ghosts, budget>>

Expire ==
  /\ cache # {} /\ cache' = {}
  /\ UNCHANGED <<request, policy, files, checkpoints, outputs, listed, approval, pc, list, rewind, ghosts, budget>>

WriteOutput_later(c) ==
  /\ pc[c] = "output"
  /\ Goto(c, "artifacts")
  /\ UNCHANGED <<request, policy, disk, approval, list, rewind, ghosts, budget>>

(* writeOutputArtifact, which may fail after the tool's work is done, then *)
(* registerArtifact: read the artifacts, write them back with this one.    *)
WriteOutput(c) ==
  /\ pc[c] = "output"
  /\ \/ /\ outputs' = outputs \union {Output(c)}
        /\ Goto(c, "artifacts") /\ UNCHANGED failed
     \/ Fail(c) /\ UNCHANGED outputs
  /\ UNCHANGED <<request, policy, files, checkpoints, listed, cache, approval, list,
                 rewind, effects, since, base, orderly, serial, budget>>

ReadArtifacts(c) ==
  /\ pc[c] = "artifacts"
  /\ list' = [list EXCEPT ![c] = listed]
  /\ Goto(c, "register")
  /\ UNCHANGED <<request, policy, disk, approval, rewind, ghosts, budget>>

Register(c) ==
  /\ pc[c] = "register"
  /\ listed' = list[c] \union {Output(c)}
  /\ Goto(c, "complete")
  /\ UNCHANGED <<request, policy, files, checkpoints, outputs, cache, approval, list,
                 rewind, ghosts, budget>>

(* The output is checked and the completed line appended; the approval of  *)
(* a continued call is marked executed after that.                         *)
Complete(c) ==
  /\ pc[c] = "complete"
  /\ Goto(c, IF approval[c] = "approved" THEN "mark" ELSE "over")
  /\ UNCHANGED <<request, policy, disk, approval, list, rewind, ghosts, budget>>

MarkExecuted_checkpointedOnly(c) ==
  /\ pc[c] = "mark"
  /\ approval' = IF Tool(c) = "filesystem.write" THEN [approval EXCEPT ![c] = "executed"]
                 ELSE approval
  /\ Goto(c, "over")
  /\ UNCHANGED <<request, policy, disk, list, rewind, ghosts, budget>>

MarkExecuted(c) ==
  /\ pc[c] = "mark"
  /\ approval' = [approval EXCEPT ![c] = "executed"]
  /\ Goto(c, "over")
  /\ UNCHANGED <<request, policy, disk, list, rewind, ghosts, budget>>

-----------------------------------------------------------------------------
(* rewindCheckpoint: the file gets the snapshot, or is removed when it did *)
(* not exist; then the checkpoint is marked restored and mission.yaml and  *)
(* the ledger are written, which may throw.  A checkpoint may be rewound   *)
(* in any order and any number of times.                                   *)
Newest(k) ==
  \A j \in DOMAIN checkpoints : j > k => checkpoints[j].restored \/ checkpoints[j].torn

Rewind_emptiesNew(k) ==
  /\ rewind.step = "none" /\ MayStart
  /\ budget.rewinds > 0 /\ Spend("rewinds")
  /\ k \in DOMAIN checkpoints /\ ~checkpoints[k].torn
  /\ files' = IF checkpoints[k].snapshot = Absent THEN files
              ELSE [files EXCEPT ![checkpoints[k].target] = checkpoints[k].snapshot]
  /\ rewind' = [step |-> "mark", of |-> k]
  /\ orderly' = (orderly /\ serial /\ ~checkpoints[k].restored /\ Newest(k))
  /\ UNCHANGED <<request, policy, checkpoints, outputs, listed, cache, approval, pc, list, effects, failed, since, base, serial>>

Rewind(k) ==
  /\ rewind.step = "none" /\ MayStart
  /\ budget.rewinds > 0 /\ Spend("rewinds")
  /\ k \in DOMAIN checkpoints /\ ~checkpoints[k].torn
  /\ RunAccepts(policy, "filesystem.write", checkpoints[k].target)
  /\ files' = [files EXCEPT ![checkpoints[k].target] = checkpoints[k].snapshot]
  /\ rewind' = [step |-> "mark", of |-> k]
  /\ orderly' = (orderly /\ serial /\ ~checkpoints[k].restored /\ Newest(k))
  /\ UNCHANGED <<request, policy, checkpoints, outputs, listed, cache, approval, pc, list, effects, failed, since, base, serial>>

MarkRestored ==
  /\ rewind.step = "mark"
  /\ checkpoints' = [checkpoints EXCEPT ![rewind.of].restored = TRUE]
  /\ rewind' = [step |-> "none", of |-> 0]
  /\ UNCHANGED <<request, policy, files, outputs, listed, cache, approval, pc, list,
                 ghosts, budget>>
-----------------------------------------------------------------------------
(* The user edits policy.yaml, or a file.                                  *)
EditPolicy ==
  /\ MayStart /\ budget.edits > 0 /\ Spend("edits")
  /\ \E p \in Policies \ {policy} :
       /\ policy' = p
       /\ since' = [c \in Calls |-> IF c \in InFlight THEN since[c] \union {p} ELSE since[c]]
  /\ UNCHANGED <<request, disk, approval, pc, list, rewind, effects, failed, base,
                 orderly, serial>>

EditFile(x) ==
  /\ MayStart /\ files[x] # "byHand"
  /\ budget.edits > 0 /\ Spend("edits")
  /\ files' = [files EXCEPT ![x] = "byHand"]
  /\ orderly' = FALSE
  /\ UNCHANGED <<request, policy, checkpoints, outputs, listed, cache, approval, pc, list, rewind, effects, failed, since, base, serial>>

(* A process dies between two steps, or in the middle of writing a         *)
(* checkpoint or the target of a write, which leaves a torn file.          *)
Die(c) ==
  /\ c \in InFlight
  /\ budget.deaths > 0 /\ Spend("deaths")
  /\ Fail(c)
  /\ \/ UNCHANGED <<files, checkpoints>>
     \/ /\ pc[c] = "snapshot"
        /\ checkpoints' = NewCheckpoint(c, TRUE)
        /\ UNCHANGED files
     \/ /\ pc[c] = "run" /\ Tool(c) = "filesystem.write"
        /\ files' = [files EXCEPT ![Target(c)] = "torn"]
        /\ UNCHANGED checkpoints
  /\ UNCHANGED <<request, policy, outputs, listed, cache, approval, list, rewind,
                 effects, since, base, orderly, serial>>

(* A rewind dies while it writes the file or the checkpoint, or between.   *)
DieRewinding ==
  /\ rewind.step = "mark"
  /\ budget.deaths > 0 /\ Spend("deaths")
  /\ rewind' = [step |-> "none", of |-> 0]
  /\ \/ UNCHANGED <<files, checkpoints>>
     \/ /\ checkpoints[rewind.of].snapshot # Absent
        /\ files' = [files EXCEPT ![checkpoints[rewind.of].target] = "torn"]
        /\ UNCHANGED checkpoints
     \/ /\ checkpoints' = [checkpoints EXCEPT ![rewind.of].torn = TRUE]
        /\ UNCHANGED files
  /\ UNCHANGED <<request, policy, outputs, listed, cache, approval, pc, list,
                 ghosts>>

Next ==
  \/ \E c \in Calls :
       \/ Request(c) \/ Rule(c) \/ Continue(c) \/ Snapshot(c) \/ Start(c)
       \/ Throws(c) \/ RunFilesystem(c) \/ RunGit(c) \/ RunShell(c) \/ RunReport(c)
       \/ RunReading(c) \/ RunBrowser(c) \/ RunGithub(c) \/ RunMcpCall(c) \/ RunMcpList(c)
       \/ WorksButFails(c) \/ AnswerFromCache(c) \/ WriteOutput(c) \/ ReadArtifacts(c) \/ Register(c)
       \/ Complete(c) \/ MarkExecuted(c) \/ Die(c)
  \/ \E k \in DOMAIN checkpoints : Rewind(k)
  \/ MarkRestored \/ DieRewinding \/ EditPolicy \/ Expire
  \/ \E x \in Targets : EditFile(x)

Spec == Init /\ [][Next]_vars
-----------------------------------------------------------------------------
(* Every variable has its type.                                            *)
TypeOK ==
  /\ policy \in Policies
  /\ files \in [Targets -> Contents]
  /\ approval \in [Calls -> Statuses]
  /\ pc \in [Calls -> Resting \union {"snapshot", "start", "run", "output", "artifacts",
                                      "register", "complete", "mark"}]
  /\ cache \subseteq Targets
  /\ effects \in [Calls -> Nat] /\ failed \in [Calls -> Nat]

(* A browser, MCP or GitHub tool takes effect only if a policy in force    *)
(* since the call, or its continuation, was started lets the family and    *)
(* the target it aims at through: an approval given under an older policy  *)
(* does not carry it past a newer one (runner.ts:149-161).  It says        *)
(* nothing of shell.run: a continued command is checked against the        *)
(* dangerous ones, not against a shell: block written since.               *)
NoStalePolicy ==
  [][\A c \in Calls :
       effects'[c] > effects[c] /\ Family(Tool(c)) \in {"browser", "mcp", "github"} =>
         \E p \in since[c] :
           /\ p.valid /\ Family(Tool(c)) \notin p.blocks
           /\ AimsAtTarget(Tool(c)) => Target(c) \in p.targets]_vars

(* Undoing the checkpoints that are not restored, newest first, gives the  *)
(* files back as they were before the first of them, read as text,         *)
(* whatever failed or died in between: a torn target, a write that threw,  *)
(* a rewind that died half way.  A file that is no text comes back as what *)
(* it decodes to.  It holds while no file is edited by hand, processes run *)
(* one at a time and rewinds go newest first (orderly).                    *)
Undo(row, fs) ==
  IF row.restored \/ row.torn THEN fs ELSE [fs EXCEPT ![row.target] = row.snapshot]

Undone == FoldRight(Undo, checkpoints, files)

RewindRestores == orderly /\ serial /\ Quiet => Text(Undone) = Text(base)

(* One process at a time, an approved action takes effect once, and again  *)
(* only after an attempt that reported a failure or died: a timeout of a   *)
(* server that did the work is such a failure (mcp-session.ts:48).         *)
OnceUnlessFailed == serial => \A c \in Calls : effects[c] <= 1 + failed[c]

(* mission.yaml lists no artifact without its file, however calls overlap, *)
(* fail and die.                                                           *)
ListedHasFile == listed \subseteq outputs
=============================================================================
