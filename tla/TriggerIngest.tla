--------------------------- MODULE TriggerIngest ---------------------------
(***************************************************************************)
(* Trigger ingestion (src/triggers/engine.ts) and its idempotency index    *)
(* (src/triggers/dedup.ts): a webhook, `triggers ingest`, `triggers test`  *)
(* or `triggers replay` turns an event into at most one mission.           *)
(*                                                                         *)
(* trigger-dedup.json is looked up before the mission is created, and read *)
(* again, whole, to be written whole after it; nothing locks it.  Every    *)
(* await is a point where another ingest may run, and where the process    *)
(* may die.                                                                *)
(*                                                                         *)
(* A mission, an inbox file, a log line and a follow-up job are named by   *)
(* the event they belong to; an index entry is the mission it points to,   *)
(* and createdAt is the order in which the ingests began.                  *)
(***************************************************************************)
EXTENDS Naturals, FiniteSets

CONSTANTS
  Events,      \* ingests
  Keys,        \* what dedupKeyFrom may render to
  NoMission,   \* no entry, no mission
  MaxEntries,  \* MAX_DEDUP_ENTRIES
  MaxOverlap,  \* bound: how many ingests there are when they overlap
  MaxDeaths    \* bound: how many ingests may die halfway

ASSUME IngestAssumption ==
  /\ NoMission \notin Events
  /\ MaxEntries \in Nat \ {0}
  /\ MaxOverlap \in Nat
  /\ MaxDeaths \in Nat

VARIABLES
  index,       \* trigger-dedup.json: the mission of each key
  eventLog,    \* trigger-events.jsonl: the outcome of each event
  cited,       \* the mission its line names
  missions,    \* events whose mission exists
  jobs,        \* follow-up jobs in the daemon's queue
  key,         \* the key each event renders to
  mode,        \* how an event is ingested: plain, dry or force
  began,       \* when it began, 0 before
  pc,          \* what its ingest does next
  seen,        \* the index it has read in order to write it
  recorded,    \* history: events whose entry was written
  pruned,      \* history: keys whose entry was dropped
  deaths,
  inTurn       \* TRUE when no ingest begins while another one is running

stored == <<index, eventLog, cited, missions, jobs>>
local == <<key, mode, began, pc, seen>>
history == <<recorded, pruned>>
ingestWorld == <<deaths, inTurn>>
ingestVars == <<stored, local, history, ingestWorld>>

Empty == [k \in Keys |-> NoMission]

InitIngest ==
  /\ index = Empty
  /\ eventLog = [e \in Events |-> "none"]
  /\ cited = [e \in Events |-> NoMission]
  /\ missions = {}
  /\ jobs = {}
  /\ key \in [Events -> Keys]
  /\ mode = [e \in Events |-> "plain"]
  /\ began = [e \in Events |-> 0]
  /\ pc = [e \in Events |-> "idle"]
  /\ seen = [e \in Events |-> Empty]
  /\ recorded = {}
  /\ pruned = {}
  /\ deaths = 0
  /\ inTurn \in BOOLEAN

InFlight == {e \in Events : pc[e] \notin {"idle", "over"}}
Begun == {e \in Events : began[e] > 0}
Advance(e, step) == pc' = [pc EXCEPT ![e] = step]

(* appendTriggerLog.                                                       *)
WriteLog(e, outcome, mission) ==
  /\ eventLog' = [eventLog EXCEPT ![e] = outcome]
  /\ cited' = [cited EXCEPT ![e] = mission]

(* pruneDedup keeps the MaxEntries entries created last.                   *)
Live(entries) == {k \in Keys : entries[k] # NoMission}
Younger(entries, k) == {j \in Live(entries) : began[entries[j]] > began[entries[k]]}
PruneDedup(entries) ==
  [k \in Keys |->
     IF k \in Live(entries) /\ Cardinality(Younger(entries, k)) < MaxEntries
     THEN entries[k] ELSE NoMission]
-----------------------------------------------------------------------------
(* ingestTriggerEvent begins: the time is taken, the payload is filed.     *)
Begin(e, how) ==
  /\ pc[e] = "idle"
  /\ IF inTurn THEN InFlight = {} ELSE Cardinality(Begun) < MaxOverlap
  /\ mode' = [mode EXCEPT ![e] = how]
  /\ began' = [began EXCEPT ![e] = Cardinality(Begun) + 1]
  /\ Advance(e, "match")
  /\ UNCHANGED <<stored, key, seen, history, ingestWorld>>

(* replayTriggerByEventId ingests the payload of a logged event again.     *)
Replay(e) ==
  /\ \E prior \in Events : eventLog[prior] # "none" /\ key[prior] = key[e]
  /\ \E how \in {"plain", "force"} : Begin(e, how)

(* No valid rules, no rule that matches, or no key: "no_match" or "error"  *)
(* in the log, which is all there is of the event.                         *)
Ignore(e) ==
  /\ pc[e] = "match"
  /\ WriteLog(e, "ignored", NoMission)
  /\ Advance(e, "over")
  /\ UNCHANGED <<index, missions, jobs, key, mode, began, seen, history, ingestWorld>>

(* A rule matches, and the key is looked up.                               *)
Skip(e) ==
  LET existing == index[key[e]]
  IN /\ pc[e] = "match"
     /\ existing # NoMission
     /\ mode[e] # "force"
     /\ WriteLog(e, "dedup_skip", existing)
     /\ Advance(e, "over")
     /\ UNCHANGED <<index, missions, jobs, key, mode, began, seen, history, ingestWorld>>

DryRun(e) ==
  /\ pc[e] = "match"
  /\ index[key[e]] = NoMission
  /\ mode[e] = "dry"
  /\ WriteLog(e, "dry_run", NoMission)
  /\ Advance(e, "over")
  /\ UNCHANGED <<index, missions, jobs, key, mode, began, seen, history, ingestWorld>>

Admit_always(e) ==
  /\ pc[e] = "match"
  /\ mode[e] # "dry"
  /\ Advance(e, "create")
  /\ UNCHANGED <<stored, key, mode, began, seen, history, ingestWorld>>

Admit(e) ==
  /\ pc[e] = "match"
  /\ mode[e] = "force" \/ (mode[e] = "plain" /\ index[key[e]] = NoMission)
  /\ Advance(e, "create")
  /\ UNCHANGED <<stored, key, mode, began, seen, history, ingestWorld>>
-----------------------------------------------------------------------------
CreateMission(e) ==
  /\ pc[e] = "create"
  /\ missions' = missions \union {e}
  /\ Advance(e, "note")
  /\ UNCHANGED <<index, eventLog, cited, jobs, key, mode, began, seen, history, ingestWorld>>

AddNotes(e) ==
  /\ pc[e] = "note"
  /\ Advance(e, "record")
  /\ UNCHANGED <<stored, key, mode, began, seen, history, ingestWorld>>

(* recordDedup reads the index once more, and writes it.                   *)
ReadIndex(e) ==
  /\ pc[e] = "record"
  /\ seen' = [seen EXCEPT ![e] = index]
  /\ Advance(e, "write")
  /\ UNCHANGED <<stored, key, mode, began, history, ingestWorld>>

WriteIndex_wrongKey(e) ==
  /\ pc[e] = "write"
  /\ \E k \in Keys : index' = PruneDedup([seen[e] EXCEPT ![k] = e])
  /\ recorded' = recorded \union {e}
  /\ pruned' = pruned \union (Live(index) \ Live(index'))
  /\ seen' = [seen EXCEPT ![e] = Empty]
  /\ Advance(e, "log")
  /\ UNCHANGED <<eventLog, cited, missions, jobs, key, mode, began, ingestWorld>>

WriteIndex(e) ==
  LET kept == PruneDedup([seen[e] EXCEPT ![key[e]] = e])
  IN /\ pc[e] = "write"
     /\ index' = kept
     /\ recorded' = recorded \union {e}
     /\ pruned' = pruned \union (Live(index) \ Live(kept))
     /\ seen' = [seen EXCEPT ![e] = Empty]
     /\ Advance(e, "log")
     /\ UNCHANGED <<eventLog, cited, missions, jobs, key, mode, began, ingestWorld>>

LogMatched(e) ==
  /\ pc[e] = "log"
  /\ WriteLog(e, "matched", e)
  /\ Advance(e, "followup")
  /\ UNCHANGED <<index, missions, jobs, key, mode, began, seen, history, ingestWorld>>

(* enqueueTriggerFollowupJob, best effort.                                 *)
Followup(e) ==
  /\ pc[e] = "followup"
  /\ jobs' \in {jobs, jobs \union {e}}
  /\ Advance(e, "over")
  /\ UNCHANGED <<index, eventLog, cited, missions, key, mode, began, seen, history, ingestWorld>>

(* An exception leaves what was done as it is, and is logged.              *)
Throws(e) ==
  /\ pc[e] \in {"create", "note", "record", "write", "log"}
  /\ Advance(e, "fail")
  /\ UNCHANGED <<stored, key, mode, began, seen, history, ingestWorld>>

LogError(e) ==
  /\ pc[e] = "fail"
  /\ WriteLog(e, "error", NoMission)
  /\ Advance(e, "over")
  /\ UNCHANGED <<index, missions, jobs, key, mode, began, seen, history, ingestWorld>>

(* The process dies between two steps, or an exception falls outside the   *)
(* try block and ends the ingest without a line in the log.                *)
IngestDies(e) ==
  /\ e \in InFlight
  /\ deaths < MaxDeaths
  /\ deaths' = deaths + 1
  /\ Advance(e, "over")
  /\ UNCHANGED <<stored, key, mode, began, seen, history, inTurn>>

StartIngest(e) == Replay(e) \/ \E how \in {"plain", "dry"} : Begin(e, how)
Step(e) ==
  \/ Ignore(e) \/ Skip(e) \/ DryRun(e) \/ Admit(e)
  \/ CreateMission(e) \/ AddNotes(e) \/ ReadIndex(e) \/ WriteIndex(e)
  \/ LogMatched(e) \/ Followup(e) \/ LogError(e)

NextIngest == \E e \in Events : StartIngest(e) \/ Step(e) \/ Throws(e) \/ IngestDies(e)

IngestSpec == InitIngest /\ [][NextIngest]_ingestVars
-----------------------------------------------------------------------------
Outcomes == {"none", "ignored", "error", "dedup_skip", "dry_run", "matched"}
Steps == {"idle", "match", "create", "note", "record", "write", "log",
          "followup", "fail", "over"}
Entries == [Keys -> Events \union {NoMission}]

IngestTypeOK ==
  /\ index \in Entries
  /\ eventLog \in [Events -> Outcomes]
  /\ cited \in [Events -> Events \union {NoMission}]
  /\ missions \subseteq Events
  /\ jobs \subseteq Events
  /\ key \in [Events -> Keys]
  /\ mode \in [Events -> {"plain", "dry", "force"}]
  /\ began \in [Events -> Nat]
  /\ pc \in [Events -> Steps]
  /\ seen \in [Events -> Entries]
  /\ recorded \subseteq Events
  /\ pruned \subseteq Keys
  /\ deaths \in 0..MaxDeaths
  /\ inTurn \in BOOLEAN

(* An event is skipped as a duplicate only of a mission that exists and    *)
(* was created for the same key, however the ingests overlap.              *)
SkipsAreDuplicates ==
  \A e \in Events : eventLog[e] = "dedup_skip" =>
    cited[e] \in missions /\ key[cited[e]] = key[e]

(* Ingests one at a time: a second mission for a key was forced, or the    *)
(* first one's ingest failed before it was recorded, or its entry was      *)
(* pruned.                                                                 *)
SecondHasReason ==
  inTurn => \A d, e \in missions :
    began[d] < began[e] /\ key[d] = key[e] =>
      mode[e] = "force" \/ d \notin recorded \/ key[d] \in pruned

(* Ingests one at a time: the index names, for a key, its latest recorded  *)
(* mission, so a forced replay takes over from the mission it repeats.     *)
LatestIsNamed ==
  inTurn => \A e \in recorded : key[e] \notin pruned =>
    index[key[e]] # NoMission /\ began[e] <= began[index[key[e]]]

(* Every ingest that does not die leaves a line in the event memory, even  *)
(* one whose mission could not be created or recorded.                     *)
Unlogged == {e \in Events : pc[e] = "over" /\ eventLog[e] = "none"}
UnloggedDied == Cardinality(Unlogged) <= deaths
=============================================================================
