---------------------------- MODULE DaemonQueue ----------------------------
(***************************************************************************)
(* The daemon's durable job queue (src/daemon/queue.ts), its worker        *)
(* (src/daemon/worker.ts) and the start-up recovery of an interrupted job. *)
(*                                                                         *)
(* queue.jsonl is an append-only log.  Every reader replays it, so the log *)
(* is represented by the value of its replay (pending, processing,         *)
(* finished) and one append is one step of deriveQueueFromOps.  An append  *)
(* is atomic; everything between a read of the log and the append that     *)
(* depends on it is not: enqueue checks the depth and then appends, and a  *)
(* tick of the worker reads the head and then appends its start.  Nothing  *)
(* keeps two ticks apart: setInterval fires whether or not the previous    *)
(* tick has returned.                                                      *)
(*                                                                         *)
(* A call of enqueue is a member of Calls and names the job it carries.    *)
(* The random job id is <<call, n>>: the first id of the job has n = 0 and *)
(* each recovery draws the next one.                                       *)
(***************************************************************************)
EXTENDS Naturals, SequencesExt

CONSTANTS
  Calls,       \* enqueue calls, one job each
  HttpCalls,   \* those served inside the daemon process (HTTP, schedules)
  Scheduled,   \* those a tick makes for a schedule whose interval is over
  Ticks,       \* worker ticks that may be in flight together
  MaxPending,  \* MAX_PENDING_DAEMON_JOBS
  MaxCrashes,  \* bound: how often the daemon dies
  None

ASSUME QueueAssumption ==
  /\ HttpCalls \subseteq Calls
  /\ Scheduled \subseteq HttpCalls
  /\ MaxPending \in Nat \ {0}
  /\ MaxCrashes \in Nat
  /\ None \notin Calls \union (Calls \X Nat)

VARIABLES
  pending,     \* replay of the log: ids waiting, in log order
  processing,  \* replay of the log: the id of the claimed job, or None
  started,     \* ids with a start op in the log
  finished,    \* ids with a finish op in the log
  call,        \* state of each enqueue call
  latest,      \* the number of the newest id drawn for a job
  phase,       \* the daemon: down, recovering in two appends, up
  orphan,      \* the interrupted id being recovered, or None
  tick,        \* state of each tick in processNextQueueJob
  next,        \* the id a tick has read as the head of the queue
  ended,       \* ids whose handler ran to its end (returned or threw)
  crashes,
  serial       \* TRUE when no tick begins while another is in flight

log == <<pending, processing, started, finished>>
producers == <<call, latest>>
daemon == <<phase, orphan>>
worker == <<tick, next, ended>>
world == <<crashes, serial>>
vars == <<log, producers, daemon, worker, world>>

Ids == Calls \X Nat
JobOf(id) == id[1]
Depth == Len(pending) + (IF processing = None THEN 0 ELSE 1)

(* One step of deriveQueueFromOps per kind of operation. *)
AppendEnqueue_front(id) ==
  /\ pending' = <<id>> \o pending
  /\ UNCHANGED <<processing, started, finished>>

AppendEnqueue(id) ==
  /\ pending' = Append(pending, id)
  /\ UNCHANGED <<processing, started, finished>>

AppendStart_keepsPending(id) ==
  /\ UNCHANGED <<pending, finished>>
  /\ processing' = id
  /\ started' = started \union {id}

AppendStart(id) ==
  /\ pending' = RemoveFirst(pending, id)
  /\ processing' = id
  /\ started' = started \union {id}
  /\ UNCHANGED finished

AppendFinish(id) ==
  /\ pending' = RemoveFirst(pending, id)
  /\ processing' = IF processing = id THEN None ELSE processing
  /\ finished' = finished \union {id}
  /\ UNCHANGED started

Init ==
  /\ pending = <<>>
  /\ processing = None
  /\ started = {}
  /\ finished = {}
  /\ call = [c \in Calls |-> "new"]
  /\ latest = [c \in Calls |-> 0]
  /\ phase = "down"
  /\ orphan = None
  /\ tick = [t \in Ticks |-> "idle"]
  /\ next = [t \in Ticks |-> None]
  /\ ended = {}
  /\ crashes = 0
  /\ serial \in BOOLEAN
-----------------------------------------------------------------------------
(* enqueue: replay the log, refuse at the cap, append.  A call made by a   *)
(* CLI process needs no running daemon.                                    *)
EnqueueCheck(c) ==
  /\ c \notin Scheduled
  /\ call[c] = "new"
  /\ c \in HttpCalls => phase = "up"
  /\ call' = [call EXCEPT ![c] = IF Depth >= MaxPending THEN "refused"
                                                         ELSE "checked"]
  /\ UNCHANGED <<log, latest, daemon, worker, world>>

EnqueueAppend(c) ==
  /\ call[c] = "checked"
  /\ call' = [call EXCEPT ![c] = "accepted"]
  /\ AppendEnqueue(<<c, 0>>)
  /\ UNCHANGED <<latest, daemon, worker, world>>
-----------------------------------------------------------------------------
(* runDaemonForeground: reconcileOrphanProcessing replays the log; an id   *)
(* that is still processing has a start and no later finish.               *)
Boot ==
  /\ phase = "down"
  /\ phase' = IF processing = None THEN "up" ELSE "failClose"
  /\ orphan' = processing
  /\ UNCHANGED <<log, producers, worker, world>>

RecoverFinish ==
  /\ phase = "failClose"
  /\ AppendFinish(orphan)
  /\ phase' = "requeue"
  /\ UNCHANGED <<orphan, producers, worker, world>>

RecoverRequeue ==
  LET job == JobOf(orphan)
      n == latest[job] + 1
  IN /\ phase = "requeue"
     /\ AppendEnqueue(<<job, n>>)
     /\ latest' = [latest EXCEPT ![job] = n]
     /\ phase' = "up"
     /\ orphan' = None
     /\ UNCHANGED <<call, worker, world>>
-----------------------------------------------------------------------------
(* A tick of the worker.  While every job takes less than the interval of  *)
(* the timer, ticks do not overlap (serial); nothing else keeps them       *)
(* apart.                                                                  *)
MayTick(t) ==
  /\ phase = "up"
  /\ tick[t] = "idle"
  /\ serial => /\ \A u \in Ticks : tick[u] = "idle"
               /\ \A c \in Scheduled : call[c] # "checked"

(* A schedule falls due with the clock, and with a second tick before the  *)
(* first has stored that it fired.  The operator may take it out of        *)
(* schedule.yaml, or the policy be unreadable, which skips the schedules.  *)
FallDue(c) ==
  /\ c \in Scheduled
  /\ call[c] = "new"
  /\ call' = [call EXCEPT ![c] = "due"]
  /\ UNCHANGED <<log, latest, daemon, worker, world>>

Withdraw(c) ==
  /\ call[c] = "due"
  /\ call' = [call EXCEPT ![c] = "dropped"]
  /\ UNCHANGED <<log, latest, daemon, worker, world>>

(* maybeEnqueueScheduledJobs comes first in a tick: it enqueues what is    *)
(* due, in the two steps of enqueue.  At the cap enqueue throws, and the   *)
(* whole tick ends with nothing stored: the schedule stays due, and no     *)
(* tick gets as far as processNextQueueJob.                                *)
ScheduleCheck(c) ==
  /\ \E t \in Ticks : MayTick(t)
  /\ call[c] = "due"
  /\ Depth < MaxPending
  /\ call' = [call EXCEPT ![c] = "checked"]
  /\ UNCHANGED <<log, latest, daemon, worker, world>>

NothingDue == \A c \in Scheduled : call[c] # "due"

(* processNextQueueJob: replay the log and return while a job is claimed   *)
(* or none waits; otherwise append the start of the head that was read,    *)
(* run its handler, append its finish.                                     *)
TickRead_offByOne(t) ==
  /\ MayTick(t)
  /\ NothingDue
  /\ processing = None
  /\ Len(pending) > 1
  /\ next' = [next EXCEPT ![t] = Head(pending)]
  /\ tick' = [tick EXCEPT ![t] = "claiming"]
  /\ UNCHANGED <<log, producers, daemon, ended, world>>

TickRead(t) ==
  /\ MayTick(t)
  /\ NothingDue
  /\ processing = None
  /\ pending # <<>>
  /\ next' = [next EXCEPT ![t] = Head(pending)]
  /\ tick' = [tick EXCEPT ![t] = "claiming"]
  /\ UNCHANGED <<log, producers, daemon, ended, world>>

TickStart(t) ==
  /\ tick[t] = "claiming"
  /\ AppendStart(next[t])
  /\ tick' = [tick EXCEPT ![t] = "running"]
  /\ UNCHANGED <<producers, daemon, next, ended, world>>

TickHandle(t) ==
  /\ tick[t] = "running"
  /\ ended' = ended \union {next[t]}
  /\ tick' = [tick EXCEPT ![t] = "handled"]
  /\ UNCHANGED <<log, producers, daemon, next, world>>

TickFinish(t) ==
  /\ tick[t] = "handled"
  /\ AppendFinish(next[t])
  /\ tick' = [tick EXCEPT ![t] = "idle"]
  /\ next' = [next EXCEPT ![t] = None]
  /\ UNCHANGED <<producers, daemon, ended, world>>

(* The process ends, killed or through shutdown: ticks in flight and the   *)
(* enqueue calls it was serving stop where they are; a schedule that had   *)
(* not stored its firing is due again.                                     *)
Crash_clearsSlot ==
  /\ phase # "down"
  /\ crashes < MaxCrashes
  /\ crashes' = crashes + 1
  /\ phase' = "down"
  /\ orphan' = None
  /\ processing' = None
  /\ tick' = [t \in Ticks |-> "idle"]
  /\ next' = [t \in Ticks |-> None]
  /\ call' = [c \in Calls |-> IF c \in HttpCalls /\ call[c] = "checked"
                              THEN IF c \in Scheduled THEN "due" ELSE "dropped"
                              ELSE call[c]]
  /\ UNCHANGED <<pending, started, finished, latest, ended, serial>>

Crash ==
  /\ phase # "down"
  /\ crashes < MaxCrashes
  /\ crashes' = crashes + 1
  /\ phase' = "down"
  /\ orphan' = None
  /\ tick' = [t \in Ticks |-> "idle"]
  /\ next' = [t \in Ticks |-> None]
  /\ call' = [c \in Calls |-> IF c \in HttpCalls /\ call[c] = "checked"
                              THEN IF c \in Scheduled THEN "due" ELSE "dropped"
                              ELSE call[c]]
  /\ UNCHANGED <<log, latest, ended, serial>>

Tick(t) == TickRead(t) \/ TickStart(t) \/ TickHandle(t) \/ TickFinish(t)
Recover == Boot \/ RecoverFinish \/ RecoverRequeue
Enqueue(c) == EnqueueCheck(c) \/ ScheduleCheck(c) \/ EnqueueAppend(c)

Next ==
  \/ \E c \in Calls : Enqueue(c) \/ FallDue(c) \/ Withdraw(c)
  \/ Recover
  \/ \E t \in Ticks : Tick(t)
  \/ Crash

Spec == Init /\ [][Next]_vars

(* The operator restarts a dead daemon, the interval timer keeps firing    *)
(* ticks, a tick enqueues what is due, and a handler ends: it returns or   *)
(* throws.                                                                 *)
FairSpec ==
  /\ Spec
  /\ WF_vars(Recover)
  /\ \A t \in Ticks : WF_vars(Tick(t))
  /\ \A c \in Scheduled : WF_vars(Enqueue(c))
-----------------------------------------------------------------------------
(* Every variable holds a value of its kind; the ids a tick or a recovery  *)
(* carries over an await are ids it really read from the log.              *)
TypeOK ==
  /\ pending \in Seq(Ids)
  /\ processing \in Ids \union {None}
  /\ started \subseteq Ids
  /\ finished \subseteq Ids
  /\ ended \subseteq Ids
  /\ call \in [Calls ->
        {"new", "due", "checked", "refused", "accepted", "dropped"}]
  /\ latest \in [Calls -> Nat]
  /\ phase \in {"down", "failClose", "requeue", "up"}
  /\ orphan \in Ids \union {None}
  /\ phase \in {"failClose", "requeue"} <=> orphan # None
  /\ tick \in [Ticks -> {"idle", "claiming", "running", "handled"}]
  /\ next \in [Ticks -> Ids \union {None}]
  /\ \A t \in Ticks : tick[t] = "idle" <=> next[t] = None
  /\ crashes \in Nat
  /\ serial \in BOOLEAN

(* A job that was claimed once never waits in the queue again under the    *)
(* same id, whatever ticks overlap and whenever the daemon dies: the       *)
(* worker takes an id from the head of the queue at most once per read.    *)
ClaimedNeverWaits ==
  \A i \in 1..Len(pending) : pending[i] \notin started \union finished

(* While ticks do not overlap, an interrupted claim is always visible to   *)
(* the next start-up: the only id with a start and no finish is the one    *)
(* the replay reports as processing, so reconcileOrphanProcessing          *)
(* overlooks none.                                                         *)
NoForgottenClaim == serial => started \ finished \subseteq {processing}

(* While the daemon is up and no tick is at work the replayed log names no *)
(* claimed job; otherwise every later tick would return without work and   *)
(* the queue would stand still until the next restart.                     *)
NeverStalled ==
  phase = "up" /\ (\A t \in Ticks : tick[t] = "idle") => processing = None

Newest(c) == <<c, latest[c]>>
InQueue(c) == processing = Newest(c) \/ Newest(c) \in ToSet(pending)

(* A job is claimed in the order of the log: what is appended as started   *)
(* is the head of the queue at that moment, not only when it was read.     *)
ClaimsHead ==
  [][\A id \in started' \ started : pending # <<>> /\ id = Head(pending)]_vars

(* While ticks do not overlap, no id is claimed twice: a start is appended *)
(* only for an id that has none, so no handler runs twice for one id.      *)
ClaimedOnce ==
  [][serial => \A t \in Ticks : TickStart(t) => next[t] \notin started]_vars

(* A claim that was interrupted is re-queued: an accepted job stays in    *)
(* the queue or in recovery until a handler ran it to its end.             *)
NoJobLost ==
  \A c \in Calls : call[c] = "accepted" =>
    InQueue(c) \/ orphan = Newest(c) \/ \E id \in ended : JobOf(id) = c

(* A full queue and a schedule that is due: no tick can do anything.       *)
Wedged == Depth >= MaxPending /\ ~NothingDue

(* While ticks do not overlap, every accepted job is eventually finished   *)
(* in the log, by the worker or by a recovery: no job starves behind       *)
(* others or behind a stale claim.  One thing only can keep it waiting for *)
(* ever: the queue is full while a schedule is due, and stays so.          *)
AcceptedFinishes ==
  \A c \in Calls :
    \/ serial /\ call[c] = "accepted" ~> \E id \in finished : JobOf(id) = c
    \/ <>[]Wedged
-----------------------------------------------------------------------------
(* The queue that the log, its worker and its recovery amount to.          *)
ToJob(id) == IF id = None THEN None ELSE JobOf(id)
JobsWaiting == [i \in DOMAIN pending |-> JobOf(pending[i])]
JobsEnded == {JobOf(id) : id \in ended}

Promise == INSTANCE JobQueue WITH
  Jobs <- Calls,
  waiting <- JobsWaiting,
  active <- ToJob(processing),
  withdrawn <- IF phase = "requeue" THEN ToJob(orphan) ELSE None,
  settled <- JobsEnded

(* While ticks do not overlap, the log, its worker and its recovery        *)
(* implement the queue JobQueue promises: one claim at a time, in arrival  *)
(* order.                                                                  *)
ImplementsJobQueue ==
  Promise!Init /\ [][serial => Promise!Next]_(Promise!vars)
=============================================================================
