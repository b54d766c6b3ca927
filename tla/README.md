# Narthynx in TLA+

TLA+ specifications of the parts of Narthynx that keep durable state and are
driven by several processes at once: the daemon's job queue and its lock, the
approval gate in front of tools, the tool runner with its policy and its
checkpoints, the execution of a mission, the context a model call is given, the
router that makes the call, the vault, the memory, the companion and its
reminders, and trigger ingestion.  TLC checks them on small instances; TLAPS
proves the main safety properties for every value of the constants.

Narthynx has no database and no file locks.  Every component keeps its state in
a JSON, JSONL or YAML file that it reads whole, changes in memory and writes
whole (or appends to), with an `await` in between.  The CLI, the interactive
shell, the cockpit and the daemon are separate processes over the same
workspace directory, and inside the daemon `setInterval` starts a tick every
250 ms whether or not the previous one has returned.  The hard behaviour is
therefore always the same: a value read before an await and used after it, two
writers of one file, and a death between two writes that belong together.

Paths below are relative to the repository root (`src/`, `docs/`, `tests/`).

## The system

| Component | State it keeps | Operations | Modelled in |
|---|---|---|---|
| Job queue (`src/daemon/queue.ts`) | `queue.jsonl`, an append-only log of enqueue, start and finish | enqueue with a cap, replay, start-up reconciliation | `DaemonQueue`, `JobQueue` |
| Worker (`src/daemon/worker.ts`) | none of its own | claim the head, run a handler, finish | `DaemonQueue` |
| Daemon lock (`src/daemon/process-manager.ts`) | `daemon.lock`, `daemon.pid` | acquire, clear stale files, release | `DaemonLock` |
| Main loop (`src/daemon/run.ts`) | timer | boot, tick, shutdown | as far as its calls, in `DaemonQueue`, `DaemonLock`, `Reminders` |
| Recovery (`src/daemon/recovery.ts`) | none | pause every running mission at start-up | `MissionExecution` |
| Scheduler (`src/daemon/scheduler.ts`) | `schedules.json`, `scheduler-state.json` | enqueue what is due | its enqueue, in `DaemonQueue` |
| HTTP API, event bus (`src/daemon/server.ts`, `event-bus.ts`) | `events.jsonl` | enqueue, read, append | enqueue only |
| Approval store (`src/missions/approvals.ts`) | `approvals.json`, a copy in `mission.yaml`, ledger events | create, decide, mark executed | `ApprovalGate`, `Consent` |
| Tool runner (`src/tools/runner.ts`) | ledger events, artifacts | run, ask for approval, run approved | `ToolRunner`; the approvals' file in `ApprovalGate` |
| Tool policy, guards and built-in tools (`src/tools/policy.ts`, `builtin.ts`, `*-guard.ts`) | none of their own | classify, guard the input, act | `ToolPolicy`, `ToolRunner` |
| Checkpoints (`src/missions/checkpoints.ts`) | one file per checkpoint | snapshot, rewind | `ToolRunner` |
| MCP tools (`src/tools/mcp-*.ts`) | a listing cache | list, call with a timeout | `ToolRunner`, without the protocol |
| GitHub and browser connectors (`src/tools/github*.ts`, `browser*.ts`) | none | guarded calls | `ToolRunner`, without the network |
| Mission store (`src/missions/store.ts`, `state-machine.ts`, `graph.ts`) | `mission.yaml`, `graph.json` | create, change state, change a node's status, plan anew | `MissionExecution` |
| Executor (`src/agent/executor.ts`) | none of its own | run, resume, pause; nodes, approval node, report | `MissionExecution` |
| Ledger, reports, artifacts | `ledger.jsonl`, `artifacts/` | append, generate | `MissionExecution`, as facts |
| Reminders (`src/companion/reminders.ts`, `reminder-delivery.ts`) | `reminders.jsonl` | set, peel the due ones, deliver | `Reminders` |
| Triggers (`src/triggers/engine.ts`, `dedup.ts`, `event-log.ts`) | `trigger-dedup.json`, `trigger-events.jsonl`, inbox files | ingest, replay, prune | `TriggerIngest` |
| Context (`src/missions/context.ts`, `context-diet.ts`, `src/context`) | `context.json`, `mission.yaml`, packet files, ledger lines | note, attach, prune, pack | `MissionContext`, `ContextPacket` |
| Model router and providers (`src/agent/model-*.ts`, `providers`) | ledger lines, consents | a call with budget, consent and fallback; planning | `ModelRouter` |
| Vault (`src/missions/vault-store.ts`, `vault-crypto.ts`) | salt, manifests, sealed entries | put, read, remove, re-key | `Vault` |
| Memory (`src/memory`) | `items.jsonl`, `proposals.jsonl`, the import's flag | import, approve, reject, delete, recall | `Memory` |
| Companion (`src/companion`) | messages, suggestions, host mission | a chat turn, accepting a suggestion | `Companion` |
| Subagents (`src/subagents`) | a session's budget | phases of an orchestrated session | not modelled |
| Trigger rules and templates (`src/triggers/rules.ts`, `template.ts`) | none | matching, rendering | a choice in `TriggerIngest` |
| Replay, graph view, proof card, cost summaries | read-only | rendering | not modelled |
| Cockpit (`src/cockpit`), CLI (`src/cli`), configuration (`src/config`) | none of their own | parse, call the above, print | the commands that start the operations above |

How they interact.  A job reaches the queue from the HTTP API, the scheduler, a
trigger's follow-up or the CLI.  A tick first delivers reminders, then enqueues
what is scheduled, then processes one job; an `execute_mission` job calls the
executor.  The executor works through the mission's plan, and for the approval
node calls the tool runner, which creates an approval and stops.  The approval
is decided in another process, which runs the approved tool itself; a resumed
executor may run it instead.  Both update `mission.yaml` behind each other's
back.  At start-up the daemon takes the lock, re-queues the interrupted job and
pauses the missions that are running.  A trigger creates a mission, records its
key and enqueues a follow-up job.  Planning and the companion's chat call the
router; the packet a planning call sends is compiled from the mission's notes,
its attached files and the approved memory, and its sensitivity flag decides
whether the router asks the user first.  A model's answer never acts: it becomes
a plan, a suggestion or a memory proposal, which the user approves.

What makes each component correct, and what is hard about it:

* *Queue.*  Accepted jobs run in order, one at a time, at least once, none is
  forgotten.  Hard: overlapping ticks, a death at each append, a recovery that
  is itself two appends, a cap that the tick itself runs into.
* *Lock.*  At most one daemon; stale files never keep one from starting.
  Hard: two files, written one after the other, a decision made on the second,
  and removals whose failure nobody notices.
* *Approvals.*  Nothing runs unapproved; a ruling is given once, is final, and
  its action runs once.  Hard: two deciders, the decider's run racing a
  resume, three files per decision, a failure reported after the action.
* *Mission execution.*  Nodes complete in order, finished work stays finished,
  one question is asked, the records agree, and the mission ends.  Hard: a
  death anywhere, a state read in one process and changed in another, a daemon
  that does not know of a CLI run, a new plan over a half-executed one.
* *Reminders.*  Every due reminder is delivered once.  Hard: whole-file rewrites
  by a shell and by ticks, marking before delivering.
* *Triggers.*  One mission per key unless forced, every event in the event
  memory, a bounded index.  Hard: look-up and recording far apart, exceptions
  between them, pruning.
* *Tools.*  What acts is allowed by the policy in force when it acts, takes
  effect once, can be undone, and is on record.  Hard: the policy changes
  between the request and its continuation, a timeout is not a failure, the
  snapshot, the write and the record are three files.
* *Context.*  Nothing attached is lost, the two records of it agree, packets fit
  their budgets and say truthfully whether they are sensitive.  Hard: notes are
  found by position in another file, duplicates are found by content and by
  position, two budgets at once.
* *Router.*  Nothing sensitive leaves unasked, a consent is used once, the budget
  is overrun by one answer at most.  Hard: consent, budget and policy are read
  before the call and written after it, and a failed leg changes the endpoint.
* *Vault.*  What was stored can be read with the owner's passphrase.  Hard:
  re-keying file by file, a salt created by whoever comes first.
* *Memory and companion.*  What is deleted stays deleted, imports lose nothing, a
  turn is answered, an approval has one effect.  Hard: the effect is in another
  file than the decision, the import runs in every process that starts and
  swallows what fails, and most of a turn is outside any `try`.

## Modules

The step of every model is one file operation: a read together with the
computation on it, or a write.  Everything a function carries over an await is
a local variable of the process that executes it.  Reading and appending one
file are atomic; a torn write is not modelled.

**`DaemonQueue`** represents `queue.jsonl` by the value of its replay (`pending`,
`processing`, `started`, `finished`), and an append by the matching step of
`deriveQueueFromOps`.  `EnqueueCheck`/`EnqueueAppend` are the two halves of
`enqueue`; `TickRead`, `TickStart`, `TickHandle`, `TickFinish` those of
`processNextQueueJob`; `Boot`, `RecoverFinish`, `RecoverRequeue` those of
`reconcileOrphanProcessing`; `Crash` is a death or a shutdown, which exits with
ticks in flight.  The calls of `Scheduled` are the scheduler's: `FallDue` makes one
due, a tick enqueues it (`ScheduleCheck`, `EnqueueAppend`) before it looks at the
queue (`NothingDue`), and at the cap it does neither; `Withdraw` is the user taking
the schedule away.  **`JobQueue`** is the queue without its file: submit, claim,
run, retire, withdraw, resubmit or lose.  `ImplementsJobQueue` maps one to the
other: a job is its call and status, and the promise is about the waiting ones,
the claimed ones and the order between them.

**`DaemonLock`** has one step per file operation of `acquireDaemonInstance` and
`release`; a pid is the process itself, `process.kill(pid, 0)` is `Running`.  A
removal may fail and keep the file (`Removal` is the one that does not), and the
write of the pid file may throw and leave the lock behind.

**`ApprovalGate`** follows a call of `runTool`, `decideApproval` or
`runApprovedTool` from await to await.  `file`, `mirror` and `ledger` are the
three places a decision is written to, `seen` the list a call has read and will
write back.  A run succeeds, fails without having acted, or acts and reports a
failure (`late`): an answer after the timeout, an output that does not parse, a
ledger line that cannot be appended.  **`Consent`** is the promise to the person who is asked; the
refinement is `ImplementsConsent`.

**`MissionExecution`** represents what a process still has to do as a sequence of
operations, `todo`.  An operation that reads the files puts the writes it will
make, with the values it will write, in its place (`DoStatus` puts `PutGraph`
and `PutYaml`); so a write may be stale, a death leaves the rest undone, and an
uncaught exception empties the sequence.  The plan is the deterministic graph:
`Safe` nodes, the approval node, the report node.  `StartPlan` is the write of a new
plan (`plan --model`), which looks at no state and opens every node again.

**`Reminders`** splits `appendCompanionReminder` and `peelDueCompanionReminders`
at their await, and delivers one reminder per step.

**`TriggerIngest`** has one step per stage of `ingestTriggerEvent`; matching a
rule and rendering a key are choices, `PruneDedup` is the code's pruning.

**`ToolPolicy`** is the pure part of the tools: `Tools` is the registry with risk,
side effect and approval requirement, `Decision` is `classifyToolPolicy`,
`InputSafe` the guards, `RunAccepts` what a tool's own run checks again.

**`ToolRunner`** follows a call through `runTool` (`Request`), `runApprovedTool`
(`Continue`), `executeTool` (`Start`, then the `Run...` of the tool's family, then
`Register`, `Complete`, `MarkExecuted`) with every failure (`Throws`, `Fail`,
`WorksButFails` for a server that did the work and answered too late).
`Snapshot` takes the checkpoint before a write, `Rewind` and `MarkRestored` are
the two halves of `rewindCheckpoint`; a death may tear a checkpoint or a target, and
come between the halves (`DieRewinding`).  A snapshot is the file read as UTF-8:
`Decoded` is what that leaves of bytes that are none.

**`ContextPacket`** is the pure part of the context: `NoteCursor` finds a note's
text by position, `NoteCandidates`, `FileCandidates`, `NotesFile` and `MemoryRows`
are the four sources, `Unique` and `Before` deduplicate and order them,
`ApplyPackBudget` takes what fits and `SensitiveIncluded` computes the flag.
`FileBody` chooses between a file's content and its diff, which is empty when git
holds what is on the disk (`Committed`).
Texts are members of `Contents` with a size; relevance is a number of hits.

**`MissionContext`** has the commands: `NoteReads` … `Record` is `addNote` and
`addFile` (index, then `mission.yaml`, then the ledger), `PruneReads`/`PruneScan`
is `context prune`, `PackReads` … `LogPacket` compiles a packet, writes its file
and then its ledger line.  `Edit` and `Deny` are the user.

**`ModelRouter`** has one step per await of `ModelRouter.call`: `Load` (policy and
routing), `CheckBudget`, `TryLeg` for each endpoint, with `Guarded` and `Blocked`
for the consent, `Send`, `Answered` or `ProviderFails`, `MarkExecuted`, `LogCalled`,
`LogCost`; `Plan` and `Fail` are what `model-planner.ts` does with the result, and
`PlanThrows` its failure before it tries the model.  `Rule`
is the user's answer to a request for consent.

**`Vault`** has one step per file write: `EnsureSalt` and `FreshSalt`,
`WriteEntry`, `ReadManifest`, `WriteManifest` for a put, `RemoveFile` and
`Unlist`, and `ScanMission`, `RekeyOpens`, `Reseal` for each mission and entry of a
re-key.  A blob opens under what it was sealed with (`Opens`); the ciphers are
external.  `Mistype` is the owner turning to another passphrase without a re-key.

**`Memory`** keeps the two append-only logs as sequences of revisions (`Latest`
is the merge the code does) and has the import of the earlier release's files
(`ImportLine`, `SkipLine` for one whose parse or append fails, `Imported`), run by
whichever process starts before the flag is written, and approve, reject, delete
and recall.  **`Companion`** extends it with a
chat turn (`ChatStarts`, `ReadHost`, `CreateHost`, `WriteMeta`, `Recall`, `Answers`,
`Suggest`, `Propose`/`Refused`, `Remember`, `Reply`), which may throw wherever no `try`
is around it (`TurnThrows`), and the acceptance of a
suggestion (`AcceptStarts`, `MakeMission`, `Rewrite`).  The model answers with any
combination of a suggestion and a memory, or fails.

Each `MC...` module gives a module its instances.  Operators named `X_how`,
written above the `X` they resemble, are versions of `X` with one mistake in it;
nothing uses them in a specification.  They record, for each property, a
mistake in the code that it would catch.

### One at a time, or interleaved

Most of what these components promise is kept only while calls do not overlap,
and some of it always.  The models cover both: `serial` (`inTurn` in `TriggerIngest`
and `MissionContext`; in `MissionExecution`, `together = {}`) is chosen in the initial state and says that no call starts
while another is at work.  A property with the antecedent `serial` or `inTurn` is promised
for that case only; a property without it is checked against every interleaving
of the same run.  `Reminders` and `DaemonLock` have the constant `Serial` and
`SerialStarts` for the same purpose, since nothing of theirs survives an
overlap.  The serial case is the usual one: a person at a terminal issues one
command at a time, and a tick takes less than 250 ms.  Nothing in the code
guards it; what an overlap does is listed below under the departures.

## Runs

All passing runs explore the whole state space of their instance.

| Run | Instance | What it shows |
|---|---|---|
| `queue` | 3 enqueue calls (1 by the scheduler, 1 by the daemon's server, 1 by another process), 2 ticks, cap 2, 2 crashes | a claimed id never waits again, even when ticks overlap; while they do not, no claim is forgotten, `JobQueue` is implemented, and every accepted job finishes unless the queue is `Wedged` for good |
| `lock_serial` | 4 processes, failing removals and writes | one daemon, and every start ends once a stale lock can be removed |
| `gate` | 2 requests, 2 deciders, 1 resume, runs that fail before or after acting, 1 death | no tool without approval in any interleaving; one call at a time: rulings that stand, agreeing copies, `Consent` implemented |
| `mission` | 2 safe nodes, one of which may fail; run, resume, job, pause, boot, decider and a new plan; 2 deaths when serial, the pairs of `Overlaps` otherwise | work that only a new plan takes back, one question, answerable waits, and, without a new plan, agreeing records and an end |
| `remind` | 3 reminders, 2 ticks, failing deliveries, 2 crashes | at most one delivery, every loss accounted for, none left waiting |
| `trigger` | 4 ingests in turn or 3 interleaved, 3 keys, an index of 2, 1 death | skips are duplicates, second missions have a reason |
| `tools` | 2 requests of 10 tools under 5 policies, 2 continuations, 1 edit of the policy, 2 rewinds, 1 death; 1 continuation or rewind when they overlap; files that are text, bytes or absent | no browser, MCP or GitHub tool acts on a policy that is out of force, checkpoints lead back to the text, one effect unless an attempt failed, listed artifacts exist |
| `context` | 4 commands, 2 overlapping; 2 files, one of them tracked, 2 texts, 2 diets, 2 edits, 1 death; packets of 10 bytes and 3 tokens | index and `mission.yaml` agree, every attached text is in the packet, listed, or an empty diff, both budgets kept, the flag covers the packet, logged packets exist |
| `router` | 3 calls, 2 overlapping; 5 endpoints, 5 routings, 3 policies, answers of at most 2 tokens, 1 edit, 1 death | sensitive context leaves with consent only, one answer per consent, an overrun of one answer, a plan or an error once the model was tried |
| `vault` | 4 commands, 2 overlapping; 2 missions with 2 names, 2 values, 2 passphrases, 1 death | listed entries yield the last value stored, a successful re-key leaves nothing behind |
| `companion` | 3 commands or turns, 2 overlapping; 1 item and 1 proposal of the earlier release, either of which may be skipped, 2 turns that throw, 1 clock tick, 1 death | deleted stays deleted, the import loses only what it skipped, one item per approval, every turn that returns answered, one mission per suggestion |
| `queue_lost` | as `queue`, 1 tick | a death between the recovery's two appends loses the job |

Bounds, and why they are enough.  Three jobs give a head, a rest and a
newcomer, and exceed the cap of 2; the second crash is needed to hit the
recovery of the first.  Four processes give a holder, a corpse whose files are
stale, a starter and a later one.  Two requests make a stale list matter to an
entry that is not the writer's own; two deciders and a resume are all pairs of
callers that can meet at one approval.  Two safe nodes and one tool node make
order and failure visible; two deaths allow one to hit the run that repairs the
first.  An index of 2 with 3 keys and 4 ingests prunes twice, also after a
replay.  Two tool calls share a target, so that checkpoints of one file stack and
rewinds can meet them in both orders; ten tools are one of each way a run goes.
Four context commands attach, repeat, edit around, prune and pack; texts of 4 and
5 bytes against 10 bytes and 3 tokens let either budget be the tight one.  Three
model calls put a failed leg, a reused consent and a spent budget in one
behaviour; the routings are a fallback that is networked, one that is not, a
downgrade, an unreadable file and a missing key.  Four vault commands are two puts,
a re-key and its repetition.  Three turns or commands make, approve and repeat, or
delete and meet an import again; two skips and two throws are all lines and all
but one of the turns.  `MaxCrashes`, `MaxDeaths`, `MaxCallDeaths`, `MaxPlans`,
`MaxSkips`, `MaxThrows`, `MaxOverlap`, `MaxEdits`, `MaxTries`, `MaxRewinds`, `MaxTicks`
and `Overlaps` are the only bounds that restrict behaviour; the others are the
sizes of sets.

`CHECK_DEADLOCK FALSE` stands in every configuration since the modelled commands
come to their end: each call, process, reminder and event happens once.

Symmetry is used in `gate`, `trigger`, `tools`, `context`, `router`, `vault` and
`companion`, whose properties are safety only.

### Fairness

* `queue`: `WF` of the start-up, of each tick and of the scheduler's enqueue, which
  is the first thing a tick does.  The timer keeps firing, an operator restarts a
  dead daemon, and a handler returns or throws.  Nothing is assumed of the cap: a
  queue that is full when a schedule is due stops every tick before it processes a
  job.  `AcceptedFinishes` names that state (`Wedged`) as the one in which an accepted
  job may wait for ever.
* `lock_serial`: `WF` of each file operation of a running process, and `SF` of the
  removal of a stale lock.  The code swallows a failing unlink and tries again
  without a bound (`process-manager.ts:70`, `73`); that it succeeds at some try is an
  assumption about the file system, without which TLC finds the start that never
  ends.
* `remind`: a tick's reading of the file has `SF`, since `/remind` may hold the
  file whenever that tick looks; what has begun has `WF`.
* `mission`: a command at work goes on (`WF`), the operator resumes a resumable
  mission and decides a pending approval again and again (`SF`), and the
  approved tool does not fail for ever (`SF` of `ConsumeRuns`).  The last two are
  assumptions about the world; without them no program could promise an end.

The other modules state safety only: what their calls wait for is a person, a
server or a model, and the code retries none of it.

## Proofs

Eight modules hold theorems: `DaemonProofs` (queue, lock, triggers),
`ApprovalGateProofs`, `MissionProofs` (executor and context), `ToolRunnerProofs`,
`ModelRouterProofs`, `VaultProofs`, `CompanionProofs` (memory, companion,
reminders), and `FiniteFolds`, the lemmas about folds that the others share.
Modules whose names are disjoint are proved about together.  `serial` and `inTurn`
are variables that never change, so the theorems about them are of the form
`Spec => [](serial => ...)`.

The theorems assume only what the `ASSUME` of a module says of its constants (and
`Serial`, `SerialStarts` where a theorem names it).  Beyond types that is:

* `DaemonQueue`: `None`, no job, is neither a call nor an id.
* `ModelRouter`: there is a stub endpoint (the code has one built in).
* `Vault`: the value that stands for a failed decryption is no stored value.
* `Memory`: the earlier release's items and proposals have ids of their own, also
  apart from the calls that draw new ones.
* `ContextPacket`: `"absent"` (no file), `"delta"` (a listed difference) and `""` (no
  text) are no contents, and the memory is finite.  Leaving the empty text out
  matters: the kernel marks an empty file of a sensitive name as sensitive and
  includes nothing of it, so the flag says less than the entry; nothing is sent.

* *Queue.*  `QueueInv` strengthens `ClaimedNeverWaits`: no id is twice in the
  list, an id a tick is about to claim is still the head or has been claimed by
  the other tick, ids not drawn yet occur nowhere.  It needs what `RemoveFirst`
  does to a list without duplicates, proved first from the definition in the
  community modules.  `ClaimsHead` follows because between a read of the head and
  the append of its start only other starts of the same id and appends at the
  tail can happen.  `SerialInv` adds that the working tick holds the processing
  id; `NoForgottenClaim` and `ClaimedOnce` follow.  The refinement of `JobQueue`
  is proved step by step from it (`StepImplements`): a start removes the head
  (`HeadRemoved`), an enqueue and the recovery's second append add one job
  (`JobAppended`), the recovery's first append withdraws the claim, a crash before
  its second is the loss the abstract queue admits to, and the rest stutters.
* *Lock.*  `LockInv` describes which files exist at each step of the only process
  between the files, whatever a dead one left; one daemon and its record follow.
* *Triggers.*  `SkipInv` says that every entry of the file and of every list in
  flight points to a mission of its own key.  `UnloggedDied` bounds a
  cardinality by counting the deaths.  The serial invariant orders missions and
  entries by the beginning of their ingests.
* *Gate.*  `GateInv` carries the approval with the lists calls hold, so that
  neither a stale list nor a late write can conjure an approval or a mark:
  `NeverUnapproved` and `MarkedMeansRan` hold in every interleaving.  `SerialInv`
  says that the call at work has a fresh list; the books (`CopiesAgree`), the
  finality of rulings, the count of performances (`RerunHasReason`: one, and one more
  for a death or a late failure at most) and the refinement of `Consent` are proved
  from it.  `Consent` counts the performances that were reported as failures
  (`disowned`): only after one of these is an action performed again.
* *Mission.*  `ExecInv` reads each command's `todo` as a whole: an operation that
  asks for approval stands in a sequence only while there is none, one that would
  set a node back only while the node is open, and none of the latter comes after
  one that may complete a node (`Ordered`); a graph about to be written is first in
  its sequence and keeps what is completed (`Fresh`).  Each action is the
  replacement of the first operation by a sequence that may be given in that state
  (`Plannable`, closed under joining by `PlanJoined`); `AskedOnce`,
  `WaitingIsAnswerable` and `WorkIsKept` follow for any number of nodes and any plan.
  A planner's sequence carries the one graph that may open completed nodes
  (`PlannerKeeps`).
* *Records.*  `RecordsAgree` speaks of a mission at rest, and nearly every operation
  in between breaks it for a moment.  `BooksInv` says what holds then: `Books` relates
  the three records to the operations the one command still has ahead, in eight
  named parts.  `CopyBooks`: `mission.yaml` shows the graph but between the two writes
  of a status.  `FailBooks`: a node fails only in a sequence that ends by failing the
  mission, with nothing in between that could throw.  `ActBooks` and `ViewBooks`: what
  acts or looks finds the mission in a state in which it may; that keeps
  `failIfRunning` from finding anything but `running`.  `EndBooks`: a mission that is
  verifying has its completion ahead and only operations that cannot throw before
  it.  `DoneBooks`: what waits or asks for approval has every safe node completed
  behind it.  `ReportBooks` and `EventBooks`: the report and the ledger's notes are
  there or are next.  Every operation replaces itself by others and leaves the rest
  (`Shift`); one lemma per part says what the others must be for that part to survive,
  `QuietBooks` joins them for the operations that write nothing, and `OpenedBooks`
  covers the sequences a command starts with.  All of it is for missions that are
  not planned again (`plans = 0`).  At rest (`RestBooks`) the invariant is
  `RecordsAgree` and a little more: a mission is failed exactly if one of its nodes is.
  TLC had `BooksInv` as an invariant of `MCMissionExecution` before it was proved.
* *Context.*  `ContextTyped` says what each command holds at each of its steps, the
  packet of a command that compiled one included: `CompiledIsTrue` proves of
  `Compile`, for any index, notes and files, that what it includes keeps both
  budgets, that nothing left out for its size would fit, that the flag is set when
  anything included is sensitive, and that every candidate is listed once.  So
  `PackFits` and `FlagCoversPack` hold however commands overlap.  `ContextInv` is for
  commands in turn: at rest the index is `Whole` (its notes are `mission.yaml`'s,
  its files are on the list, a repeated file names an entry that is there), and
  each step of the only command says how far it is from that (`InStep`).
  `AttachedIsListed` follows with `CursorCounts`, a note's position never runs past the
  mission's notes, and `CursorFinds`, the note found there has the entry's text; a
  candidate carries the text it is keyed by or is the empty diff of it
  (`CandidateCarries`), and whatever is packed was such a candidate (`MadeOf`).
* *Tools.*  `Typed` is inductive as it stands.  `ListedAlwaysHasFile` needs that the
  list a call has read and will write back is of existing files too, and that a
  call at `Register` has written its own.  `NeverStalePolicy` is an action property:
  its invariant says that a call that is about to act was checked under some
  policy of `since`, the policies in force since it was last started; `since` only
  grows while the call is in flight.  `OnceUnlessFailed` needs that a call which will
  act again stands for no effect yet or has a failed attempt on record.
  `RewindRestores` rests on the oldest standing checkpoint of each target holding
  what the target was at first, as text (`BaseKept`); that undoing all of them, newest
  first, yields the oldest snapshot of each target is proved of the fold itself
  (`UndoneHolds`).
* *Router.*  `CloudInv` adds to `CloudNeedsConsent` that a call at `send` is backed by
  an approval of its task when its policy asks for one, and that approved entries
  never change.  `PlanInv` follows a planning call from its answer to its plan.
  `OnceInv` says, for calls one at a time, that the consent a call holds is not
  executed until its answer, that it is executed and in no ledger line between the
  mark and the line, and that every consent the ledger names is executed.
  `BudgetKept` compares the sum over the ledger with what the call read: the sum is
  a fold over a finite set, and a line adds its own amount (`FiniteFolds`).
* *Vault.*  The serial invariant says, for each step of the only command, which
  entries still wait to be re-sealed and under what the others open; the owner's
  passphrase, the salt and the manifests are those the command has read.
  `ListedOpens` and `RekeyIsTotal` are proved for any number of missions and entries.
* *Memory and companion.*  `RevokedStaysRevoked` rests on the order of revisions: no
  revision of a revoked id is dated after the revocation, since a writer dates its
  row when it appends it and an import adds only ids it does not find (`Dated`,
  `Holding`, `Fresh`, `Dominates`).  It needs that a finite set of revisions has a
  latest one, which is proved from well-foundedness.  `ImportInv` says that every
  line of the earlier release is there, was skipped, or is still ahead of each import
  in progress, up to the flag.  `ItemInv` follows an approval: while it holds a proposal the
  proposal is pending, once its row is written that row is the latest, and an item
  names the proposal it came from.  `SuggestInv` counts the missions made of a
  suggestion: as long as its row is proposed there are at most as many as deaths,
  and one more while the acceptance is between `MakeMission` and `Rewrite`.
  `TurnInv` follows a turn's line to its answer, unless the turn throws or dies.
* *Reminders.*  The invariant says that a writer's rows are the rows of the file
  and that what is in a batch was marked and not delivered yet.
* *Folds.*  Nothing recursive is defined in these modules, and induction over data
  is out of the provers' reach.  Sums, texts and choices are therefore folds of the
  community modules, and `FiniteFolds` proves of their definition what is needed:
  a fold over a set takes one element after another, whichever comes first, and
  a fold over a sequence extended by one element applies the operator once more.

Every safety and action property a run checks is stated by a theorem.
Model-checked only are the liveness properties (`AcceptedFinishes`, `StartsEnd`,
`DueIsSettled`, `MissionEnds`), which TLAPS cannot prove under fairness.

## Where the code departs from its documentation

The run `queue_lost` shows with a behaviour that the code does not do what its
comment says (`PROJECT.json`, findings).  The models contain more such departures,
which no run is spent on.

Queue, lock and approvals:

* Two enqueue calls that both passed the check of `queue.ts:117` exceed the hard
  cap of `queue.ts:9`.
* With overlapping ticks two jobs may be started together; after a crash
  `reconcileOrphanProcessing` finds only the one the replay reports, so
  `NoForgottenClaim` and `AcceptedFinishes` need `serial`.
* A start that reads the lock before its holder has written the pid file takes it
  for dead and becomes a second daemon (`process-manager.ts:61`;
  `docs/daemon.md:56` promises one): `SingleInstance` needs `SerialStarts`.
  Starters that interleave clear stale files more than once, and an unlink that
  fails is swallowed and tried again without a bound (`process-manager.ts:39` says
  once): `StartsEnd` needs the fairness of `Removal`.
* A tick enqueues what is scheduled before it processes a job, and the enqueue throws
  at the cap: a full queue with a schedule due is never drained, and a restart does
  not help, since the last firing is stored only after the enqueue
  (`scheduler.ts:61`, `run.ts:115`).  `Wedged` is that state; it ends only when the
  user takes the schedule away.
* A tool that acts and then reports a failure (its answer came after the timeout,
  its output does not parse, its ledger line was not appended: `mcp-session.ts:48`,
  `runner.ts:219-265`) leaves the approval without `executedAt`, so a repeated
  `approve` or `resume` acts again, without a death: `RerunHasReason` and `Consent`
  count it, and so does `OnceUnlessFailed`.
* Two deciders that read the pending entry may rule differently, so an action on
  record as denied has been performed (`approvals.ts:129`, `docs/cli-ux.md:192`).
* The decider's own run and a resume can run one approved tool twice
  (`runner.ts:121`), and two requests can drop each other's approval
  (`approvals.ts:86`): `RulingsStand` needs `serial`.
* A decider killed after writing the decision leaves it out of the ledger for
  good, since repeating the decision returns early (`approvals.ts:129`):
  `CopiesAgree` needs `deaths = 0`.

Missions, reminders and triggers:

* `plan --model` writes a new `graph.json` and its copy in `mission.yaml` without looking
  at the mission's state (`cli/index.ts:492`, `store.ts:226`): completed nodes are open
  again, a completed or failed mission has open ones, and an executor that goes on
  meets nodes its state does not expect.  `WorkIsKept` excuses that write,
  `RecordsAgree` and `MissionEnds` are for missions that are not planned again.
  Modelled is the write of a plan with the executor's own nodes; a model may also
  return others (`planGraphSchema` takes any ids), and then `readNode` throws in every
  later run.
* A run killed after completing the mission and before its report never writes
  one: a completed mission is not resumed (`executor.ts:259`; `docs/mission-spec.md:89`
  promises the report).
* A run killed between a node's status and its ledger event leaves a transition
  the ledger does not explain: `RecordsAgree` needs `deaths = 0`.
* A run that fails a mission and the recovery that pauses it both pass the
  transition check on one read, and `failed` becomes `paused`; the recovery pauses
  a mission that a CLI run is executing, and the run goes on.
* Two executors of one mission both find no approval and both ask, and may start
  a node the other has completed.  The overlaps of two executors are therefore
  left out of `Overlaps` (every round of them adds an approval, so the instance
  would not be finite) and `WorkIsKept` says `OneExecutor`.
* Reminders are marked before they are delivered (`reminders.ts:108`), so a death
  loses what was marked (`docs/daemon.md:79`).  Two ticks that both read the file
  before either writes deliver one twice, and a tick can overwrite a reminder that
  `/remind` has just added: `Serial`.
* Overlapping ingests of one key both find no mission (`engine.ts:160`;
  `docs/triggers.md:11` says one).  A trigger whose context note throws after the
  mission was created records no key, and a retry creates a second mission
  (`engine.ts:214`), in `serial` too.

Tools and checkpoints:

* `runApprovedTool` repeats the input guards and not `classifyToolPolicy`
  (`runner.ts:149`): a mode changed to `safe` in between does not stop the approved
  action, a blocked connector does.
* GitHub read tools that asked for approval can never be continued:
  `isApprovalContinuationTool` (`runner.ts:417`) does not name them.
* A torn checkpoint file makes every later checkpoint of the mission throw, hence
  every later write (`checkpoints.ts:172`).
* A call of a server that times out is reported as failed though the work may be
  done (`mcp-session.ts:48`), and the approval stays open for another try.
* Rewinding an older checkpoint before a newer one restores content from between
  the two: `RewindRestores` says `orderly`.
* A checkpoint holds its target read as UTF-8 and writes that string back
  (`checkpoints.ts:77`, `115`): a file that is no text is not restored.
  `RewindRestores` compares texts.
* The continuation of an approved `shell.run` does not look at `shell: block` again
  (`runner.ts:149`): `NoStalePolicy` is about browser, MCP and GitHub tools only.
* `runProcess` waits for `close` even when a killed child ignores the signal.

Context:

* A file whose canonical copy was attached again with other content vanishes from
  packets though it is still listed (`missions/context.ts:137`, `kernel.ts:242`), and
  the recorded hash of a stale entry can deduplicate another text away:
  `AttachedIsListed` says `edits = 0` for the texts.
* `context prune` leaves the paths of duplicates in `mission.yaml`'s `files`
  (`docs/cli-ux.md:102` says that it synchronises them), and throws when one attached
  path is denied now (`context-diet.ts:158`).
* Two overlapping notes are written in one order to the index and in the other to
  `mission.yaml`, and are shown under each other's entry: `serial`.
* A tracked file without changes is packed as an empty delta in diff mode, and an
  untracked file of the same text that was attached later is left out as its
  repetition: the packet has the text of neither (`missions/context.ts:237`,
  `kernel.ts:242`).  `AttachedIsListed` allows exactly that.

Router:

* An abort while the answer's body is read is not eligible for the fallback
  (`openai-compatible.ts:90`), an abort before it is.
* An answer without `total_tokens` counts nothing, and the cost is always 0, so a
  budget of cost never bites.
* A planning call that fails at the mission, the policy or the context packet, before
  its `try`, leaves neither a plan nor an error (`model-planner.ts:23-53`):
  `PlanIsAccounted` is about the calls that came as far as the router.
* A consent used by a failed call stays reusable, and is not bound to the packet it
  was asked for; the companion's chat always says that its context is not sensitive
  (`chat.ts:100`).
* Overlapping calls read the spend before each other's lines: `BudgetKept` and
  `ConsentOnce` need `serial`.

Vault:

* Two first puts race on the salt; the entry sealed with the overwritten one can
  never be opened (`vault-store.ts:46`): `ListedOpens` needs `serial`.
* A re-key that dies midway leaves entries under both passphrases, and its
  repetition fails on the entries already done; a put does not check that its
  passphrase is the one of the other entries.  `ListedOpens` asks for some passphrase.
* A removal that dies after the file and before the manifest leaves a name that
  makes every later re-key throw.
* Overlapping puts lose an entry of the manifest; a put during a re-key is lost to
  it.  An unreadable manifest is empty to a put and skipped by a re-key.

Memory and companion:

* The import swallows a line that does not parse or cannot be appended, or a whole
  file that cannot be read, and writes its flag all the same (`migrate.ts:91-97`,
  `130-136`, `139`): what it skipped is never imported.  `MigrationComplete` excuses
  those lines.
* A turn that throws after the user's line was stored, at a malformed `persona.yaml`, the
  host mission, the recall or the suggestion's append (`chat.ts:67-70`, `114-120`),
  stores no answer: `TurnsAreAnswered` is about turns that return.
* Approving with storage off writes the approval and then throws: approved, with no
  item (`proposals.ts:131`; `memory-cmd.ts:101` says that it writes one).  Two
  approvals at once make two items.
* A clock that steps back lets a revoked item reappear (`store.ts:43`); in `Memory`
  the clock does not.
* A suggestion is accepted by reading all rows, creating the mission and rewriting
  all rows: a suggestion appended in between is lost, and a death in between makes
  the next acceptance create a second mission (`mission-suggestions.ts:31`).  Two
  first turns at once make two host missions.
* The chat's answer tells the user to run `/mission-from-chat create`
  (`chat.ts:134`), which the shell does not know (`slash-commands.ts:1168`).

## Not modelled, and why

* Contents: prompts, tool inputs and outputs, report and ledger texts, file
  paths, ciphers.  A text is a member of a small set with the attributes a
  property needs (its size, its sensitivity, whether the policy allows it).
* Torn and partial writes (`writeFile` truncates first), except of checkpoints
  and their targets in `ToolRunner`.  A reader that meets one throws; the
  component is then stuck until somebody repairs the file.
* Recycled pids, and clocks beyond their order (a reminder falls due at some
  point; a revision is dated).
* Of `src/daemon/scheduler.ts` the intervals and the file of last firings, which is
  stored after the enqueues (a death in between fires a schedule again; one that
  cannot be parsed makes every tick throw).  In `DaemonQueue` a schedule fires once.
* `file_context_mode: auto` packs a file's diff when that is not empty and not longer
  than the file; with texts that are replaced whole it is the full mode.  A `git diff`
  that is killed by its timeout counts as an empty one.
* An I/O error of a store's own read or write.  Where the code does not catch it, the
  call ends there, and the models have it as the death of that call, which leaves the
  same files (in `DaemonLock`, `ModelRouter`, `Companion` and `Memory`, where the code
  goes on after it, it is an action of its own).
* `src/daemon/server.ts`, `event-bus.ts`: routing around the enqueue, which is
  modelled, and an append-only file that nothing reads back to decide.
* `src/subagents`: one sequential session; its model calls are `ModelRouter`'s and
  its tools go through `ToolRunner`.  Its budget is kept in memory and lost with
  the session.
* Trigger rules, templates and signatures: pure; a match is a choice in
  `TriggerIngest`.
* Replay, graph views, proof cards, cost summaries: read-only renderings.
* Cockpit, CLI, shell: they call the modelled operations, or compute and print.
* Expiry dates, conflicts and exports of memory; the operations no command calls
  (`supersedeMemoryItem`, `recordMemoryConflict`, `appendApprovedMemory`,
  `rejectLatestProposedMissionSuggestion`).
* The protocols of MCP, GitHub and the browser, sessions and paging.

## What could come next

1. `Daemon`: the composition of queue, recovery and execution, for the job that
   resumes a mission the recovery has just paused.
2. `DaemonScheduler`, with its file of last firings, composed with `DaemonQueue` as the
   source of its calls: at most one extra firing per death.
3. `QueueReplay`: `deriveQueueFromOps` over logs with torn lines, against a
   reference definition.
