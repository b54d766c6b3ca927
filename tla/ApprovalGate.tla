---------------------------- MODULE ApprovalGate ----------------------------
(***************************************************************************)
(* The approval gate of one mission: the approval store                    *)
(* (src/missions/approvals.ts), the tool runner that asks for and consumes *)
(* approvals (src/tools/runner.ts), and their callers: `narthynx approve`, *)
(* the slash command, the cockpit's decide route and the executor.         *)
(*                                                                         *)
(* approvals.json is read whole and written whole, without a lock, by      *)
(* every process of the workspace.  So each call carries the list it read  *)
(* (seen) and writes that list back with one entry changed; mission.yaml   *)
(* gets a copy (mirror) and, for a decision, the ledger gets an event, in  *)
(* three separate writes.  A call may die between any two steps.           *)
(*                                                                         *)
(* An approval is named by the runTool call that asked for it.  Its entry  *)
(* is its status; "executed" is an approved entry with executedAt.         *)
(***************************************************************************)
EXTENDS Naturals, FiniteSets

CONSTANTS
  Requests,    \* runTool calls, one gated action each
  Deciders,    \* approve and deny commands
  Resumes,     \* executor runs that continue an approved action
  MaxDeaths    \* bound: how many calls may die halfway

Calls == Requests \union Deciders \union Resumes

ASSUME GateAssumption ==
  /\ Requests \intersect Deciders = {}
  /\ Requests \intersect Resumes = {}
  /\ Deciders \intersect Resumes = {}
  /\ MaxDeaths \in Nat

Rulings == {"approved", "denied"}
Status == {"absent", "pending", "executed"} \union Rulings

VARIABLES
  file,        \* approvals.json
  mirror,      \* the approvals of mission.yaml
  ledger,      \* the rulings the ledger holds for each approval
  pc,          \* what each call does next
  seen,        \* the list a call has read, then the one it has written
  of,          \* the approval a decider or a resume is about
  ruling,      \* what a decider decides
  ruled,       \* history: the rulings ever written for each approval
  ran,         \* history: how often each gated action took effect
  late,        \* history: how often it did and was reported as a failure
  deaths,
  serial       \* TRUE when no call starts while another one is running

stored == <<file, mirror, ledger>>
local == <<pc, seen, of, ruling>>
history == <<ruled, ran, late>>
world == <<deaths, serial>>
vars == <<stored, local, history, world>>

Init ==
  /\ file = [a \in Requests |-> "absent"]
  /\ mirror = [a \in Requests |-> "absent"]
  /\ ledger = [a \in Requests |-> {}]
  /\ pc = [c \in Calls |-> "idle"]
  /\ seen = [c \in Calls |-> [a \in Requests |-> "absent"]]
  /\ of \in [Deciders \union Resumes -> Requests]
  /\ ruling \in [Deciders -> Rulings]
  /\ ruled = [a \in Requests |-> {}]
  /\ ran = [a \in Requests |-> 0]
  /\ late = [a \in Requests |-> 0]
  /\ deaths = 0
  /\ serial \in BOOLEAN

InFlight == {c \in Calls : pc[c] \notin {"idle", "over"}}

MayStart(c) ==
  /\ pc[c] = "idle"
  /\ serial => InFlight = {}

Subject(c) == IF c \in Requests THEN c ELSE of[c]

Goto(c, step) == pc' = [pc EXCEPT ![c] = step]
ReadFile(c) == seen' = [seen EXCEPT ![c] = file]

(* Write the list the call has read, with the entry of its approval set.   *)
WriteEntry(c, status) ==
  LET list == [seen[c] EXCEPT ![Subject(c)] = status]
  IN /\ file' = list
     /\ seen' = [seen EXCEPT ![c] = list]

(* The ruling of an approval, whether or not it has been marked executed.  *)
Ruled(status) ==
  IF status = "executed" THEN {"approved"} ELSE {status} \intersect Rulings
-----------------------------------------------------------------------------
(* runTool: the policy lets the tool run at once, blocks it, or demands an *)
(* approval, which createApproval adds to the list it reads.               *)
Request(r) ==
  /\ MayStart(r)
  /\ \/ Goto(r, "over") /\ UNCHANGED seen
     \/ Goto(r, "create") /\ ReadFile(r)
  /\ UNCHANGED <<stored, of, ruling, history, world>>

CreateApproval(r) ==
  /\ pc[r] = "create"
  /\ WriteEntry(r, "pending")
  /\ Goto(r, "mirror")
  /\ UNCHANGED <<mirror, ledger, of, ruling, history, world>>
-----------------------------------------------------------------------------
(* decideApproval: a pending entry is to be decided; an entry that already *)
(* has this ruling is returned as it is, and approving it again goes on to *)
(* run it; any other entry is an error.                                    *)
Decide_again(d) ==
  LET status == file[Subject(d)]
  IN /\ MayStart(d)
     /\ status # "absent"
     /\ Goto(d, IF status = "pending" \/ ruling[d] \in Ruled(status) THEN "decide"
                ELSE "over")
     /\ ReadFile(d)
     /\ UNCHANGED <<stored, of, ruling, history, world>>

Decide(d) ==
  LET status == file[Subject(d)]
      approved == status \in {"approved", "executed"}
  IN /\ MayStart(d)
     /\ status # "absent"
     /\ Goto(d, IF status = "pending" THEN "decide"
                ELSE IF ruling[d] = "approved" /\ approved THEN "fetch"
                ELSE "over")
     /\ ReadFile(d)
     /\ UNCHANGED <<stored, of, ruling, history, world>>

WriteDecision_unmirrored(d) ==
  /\ pc[d] = "decide"
  /\ WriteEntry(d, ruling[d])
  /\ ruled' = [ruled EXCEPT ![Subject(d)] = @ \union {ruling[d]}]
  /\ Goto(d, "ledger")
  /\ UNCHANGED <<mirror, ledger, of, ruling, ran, late, world>>

WriteDecision(d) ==
  /\ pc[d] = "decide"
  /\ WriteEntry(d, ruling[d])
  /\ ruled' = [ruled EXCEPT ![Subject(d)] = @ \union {ruling[d]}]
  /\ Goto(d, "mirror")
  /\ UNCHANGED <<mirror, ledger, of, ruling, ran, late, world>>

(* mirrorMissionApprovals copies the list that was written; only a         *)
(* decision has a ledger event to append after it.                         *)
Mirror(c) ==
  /\ pc[c] = "mirror"
  /\ mirror' = seen[c]
  /\ Goto(c, IF seen[c][Subject(c)] \in Rulings THEN "ledger" ELSE "over")
  /\ UNCHANGED <<file, ledger, seen, of, ruling, history, world>>

RecordDecision_runsDenied(d) ==
  /\ pc[d] = "ledger"
  /\ ledger' = [ledger EXCEPT ![Subject(d)] = @ \union {ruling[d]}]
  /\ Goto(d, "run")
  /\ UNCHANGED <<file, mirror, seen, of, ruling, history, world>>

RecordDecision(d) ==
  /\ pc[d] = "ledger"
  /\ ledger' = [ledger EXCEPT ![Subject(d)] = @ \union {ruling[d]}]
  /\ Goto(d, IF ruling[d] = "approved" THEN "fetch" ELSE "over")
  /\ UNCHANGED <<file, mirror, seen, of, ruling, history, world>>
-----------------------------------------------------------------------------
(* The executor continues an approval that it has read as approved and not *)
(* yet executed.                                                           *)
Resume(e) ==
  /\ MayStart(e)
  /\ file[Subject(e)] = "approved"
  /\ Goto(e, "fetch")
  /\ UNCHANGED <<stored, seen, of, ruling, history, world>>

(* runApprovedTool: only an approved entry without executedAt goes on; its *)
(* tool may have no continuation, and its input may no longer pass.        *)
Fetch(c) ==
  /\ pc[c] = "fetch"
  /\ \/ Goto(c, "over")
     \/ file[Subject(c)] = "approved" /\ Goto(c, "run")
  /\ UNCHANGED <<stored, seen, of, ruling, history, world>>

(* executeTool succeeds, or fails and leaves the approval unexecuted.  A   *)
(* failure may come after the effect: a time-out that abandons the call, an *)
(* output that does not validate, a ledger line that cannot be appended.   *)
RunTool(c) ==
  LET a == Subject(c)
  IN /\ pc[c] = "run"
     /\ \/ Goto(c, "executed") /\ ran' = [ran EXCEPT ![a] = @ + 1] /\ UNCHANGED late
        \/ Goto(c, "over") /\ UNCHANGED <<ran, late>>
        \/ /\ Goto(c, "over")
           /\ ran' = [ran EXCEPT ![a] = @ + 1]
           /\ late' = [late EXCEPT ![a] = @ + 1]
     /\ UNCHANGED <<stored, seen, of, ruling, ruled, world>>

(* markApprovalExecuted: throws unless the entry is approved, returns when *)
(* it is marked already, and otherwise writes the list it has just read.   *)
Executed(c) ==
  /\ pc[c] = "executed"
  /\ Goto(c, IF file[Subject(c)] = "approved" THEN "mark" ELSE "over")
  /\ ReadFile(c)
  /\ UNCHANGED <<stored, of, ruling, history, world>>

MarkExecuted_reopens(c) ==
  /\ pc[c] = "mark"
  /\ WriteEntry(c, "pending")
  /\ Goto(c, "mirror")
  /\ UNCHANGED <<mirror, ledger, of, ruling, history, world>>

MarkExecuted(c) ==
  /\ pc[c] = "mark"
  /\ WriteEntry(c, "executed")
  /\ Goto(c, "mirror")
  /\ UNCHANGED <<mirror, ledger, of, ruling, history, world>>

(* The process of a call dies between two of its steps, or a write of it   *)
(* throws, which ends the call there.                                      *)
Die(c) ==
  /\ c \in InFlight
  /\ deaths < MaxDeaths
  /\ deaths' = deaths + 1
  /\ Goto(c, "over")
  /\ UNCHANGED <<stored, seen, of, ruling, history, serial>>

Next ==
  \/ \E r \in Requests : Request(r) \/ CreateApproval(r)
  \/ \E d \in Deciders : Decide(d) \/ WriteDecision(d) \/ RecordDecision(d)
  \/ \E e \in Resumes : Resume(e)
  \/ \E c \in Deciders \union Resumes :
       Fetch(c) \/ RunTool(c) \/ Executed(c) \/ MarkExecuted(c)
  \/ \E c \in Calls : Mirror(c) \/ Die(c)

Spec == Init /\ [][Next]_vars
-----------------------------------------------------------------------------
(* Every variable has its type.                                            *)
TypeOK ==
  /\ file \in [Requests -> Status]
  /\ mirror \in [Requests -> Status]
  /\ ledger \in [Requests -> SUBSET Rulings]
  /\ pc \in [Calls -> {"idle", "create", "decide", "mirror", "ledger",
                       "fetch", "run", "executed", "mark", "over"}]
  /\ seen \in [Calls -> [Requests -> Status]]
  /\ of \in [Deciders \union Resumes -> Requests]
  /\ ruling \in [Deciders -> Rulings]
  /\ ruled \in [Requests -> SUBSET Rulings]
  /\ ran \in [Requests -> Nat]
  /\ late \in [Requests -> Nat]
  /\ deaths \in 0..MaxDeaths
  /\ serial \in BOOLEAN

(* However the calls interleave, overwrite each other's lists and die, a   *)
(* gated action took effect only if somebody approved it (runApprovedTool  *)
(* reads the approval again before it runs).                               *)
NeverUnapproved ==
  \A a \in Requests : ran[a] > 0 => "approved" \in ruled[a]

(* executedAt is never set on an action that did not take effect: a stale  *)
(* list can drop the mark but no list carries one that was not earned.     *)
MarkedMeansRan ==
  \A a \in Requests : file[a] = "executed" => ran[a] > 0

(* With one call at a time and no deaths, whenever no call is in the       *)
(* middle of its writes mission.yaml shows the approvals of approvals.json *)
(* and the ledger holds the one ruling each of them was given.             *)
CopiesAgree ==
  serial /\ deaths = 0 /\ InFlight = {} =>
    /\ mirror = file
    /\ \A a \in Requests : ledger[a] = Ruled(file[a])

(* With one call at a time, a gated action takes effect again only when a  *)
(* process died between the effect and markApprovalExecuted, or when the   *)
(* runner reported a failure although the tool had acted.                  *)
RerunHasReason == serial => \A a \in Requests : ran[a] <= 1 + deaths + late[a]

(* With one call at a time, deaths or not, an entry never leaves           *)
(* approvals.json, a ruling is never changed and a mark never taken back.  *)
Progress(old, new) ==
  \/ new = old
  \/ old = "absent" /\ new = "pending"
  \/ old = "pending" /\ new \in Rulings
  \/ old = "approved" /\ new = "executed"

RulingsStand ==
  [][serial => \A a \in Requests : Progress(file[a], file'[a])]_vars

-----------------------------------------------------------------------------
(* The stored status of an approval, without the mark that it was run, is  *)
(* the decision; the effects of its action are the performances.           *)
Decision ==
  [a \in Requests |-> IF file[a] = "executed" THEN "approved" ELSE file[a]]

Gate == INSTANCE Consent WITH Actions <- Requests, decision <- Decision,
                              performed <- ran, disowned <- late

(* As long as calls run one at a time and none has died, approvals.ts and  *)
(* runner.ts implement the promise of Consent: one ruling, standing; no    *)
(* performance without an approval; and none after one that the runner     *)
(* reported as a success.  After one it reported as a failure the action   *)
(* may be performed again, although it had taken effect.                   *)
ImplementsConsent ==
  Gate!Init /\ [][serial /\ deaths' = 0 => Gate!Next]_(Gate!vars)
=============================================================================
