-------------------------- MODULE MissionExecution --------------------------
(***************************************************************************)
(* One mission and everything that drives it: the mission store            *)
(* (src/missions/store.ts) with its state machine, the executor            *)
(* (src/agent/executor.ts), the daemon's execute_mission job, the start-up *)
(* recovery (src/daemon/recovery.ts), `pause`, `plan --model` and the      *)
(* approval commands.                                                      *)
(*                                                                         *)
(* mission.yaml and graph.json are read whole and written whole by every   *)
(* process, without a lock.  What a process still has to do is a sequence  *)
(* of operations (todo), and an operation that reads the files puts the    *)
(* writes it will make, with the values it will write, in its place: a     *)
(* write may be stale by the time it happens, and a process that dies      *)
(* leaves the rest of its sequence undone.  An exception that nobody       *)
(* catches empties the sequence.                                           *)
(*                                                                         *)
(* The plan is the deterministic graph: the Safe nodes 1..Safe, then the   *)
(* approval node and the report node.  A model that regenerates the plan   *)
(* is given that graph as it was created and is taken to return it.        *)
(***************************************************************************)
EXTENDS Naturals, Sequences, FiniteSets

CONSTANTS
  Safe,        \* how many safe nodes precede the approval node
  ToolNodes,   \* the safe nodes that run a tool, which may fail
  Runs,        \* `run` commands
  Resumes,     \* `resume` commands
  Jobs,        \* execute_mission jobs of the daemon
  Pausers,     \* `pause` commands
  Boots,       \* daemon start-ups
  Deciders,    \* approve and deny commands
  Planners,    \* `plan --model` commands and planner subagents that apply
  Overlaps,    \* bound: the sets of commands that may overlap each other
  MaxDeaths,   \* bound: how many commands may die halfway, one at a time
  MaxPlans     \* bound: how many times the plan is regenerated

Executors == Runs \union Resumes \union Jobs
Commands == Executors \union Pausers \union Boots \union Deciders \union Planners

ApprovalNode == Safe + 1
ReportNode == Safe + 2
Nodes == 1..ReportNode

ASSUME ExecutionAssumption ==
  /\ Safe \in Nat
  /\ ToolNodes \subseteq 1..Safe
  /\ Overlaps \subseteq SUBSET Commands
  /\ MaxDeaths \in Nat
  /\ MaxPlans \in Nat

VARIABLES
  yaml,        \* mission.yaml: the state, the copy of the graph, and
               \* whether it lists the report artifact
  graph,       \* graph.json: the status of each node
  approvals,   \* approvals.json: the statuses of the executor's approvals
  nodeEvents,  \* the node events in the ledger
  todo,        \* what each command still has to do
  deaths,
  plans,       \* history: how many times the plan was regenerated
  together     \* the commands that may overlap, {} when none may

world == <<deaths, plans, together>>
vars == <<yaml, graph, approvals, nodeEvents, todo, world>>

Transitions ==
  [created              |-> {"planning", "cancelled"},
   planning             |-> {"running", "cancelled"},
   running              |-> {"waiting_for_approval", "failed", "paused",
                             "verifying", "cancelled"},
   waiting_for_approval |-> {"running", "paused", "cancelled"},
   paused               |-> {"running", "cancelled"},
   verifying            |-> {"completed", "failed", "running", "cancelled"},
   failed               |-> {"recovering", "cancelled"},
   recovering           |-> {"running", "failed", "cancelled"},
   completed            |-> {"cancelled"},
   cancelled            |-> {}]

States == DOMAIN Transitions
Statuses == {"pending", "blocked", "ready", "completed", "failed"}
CanTransition(from, to) == to \in Transitions[from]

(* createDeterministicPlanGraph, with which the planner starts as well.    *)
FreshPlan == [n \in Nodes |-> "pending"]

Init ==
  /\ yaml = [state |-> "created", report |-> FALSE, graph |-> FreshPlan]
  /\ graph = FreshPlan
  /\ approvals = <<>>
  /\ nodeEvents = {}
  /\ todo = [c \in Commands |-> <<>>]
  /\ deaths = 0
  /\ plans = 0
  /\ together \in {{}} \union Overlaps
-----------------------------------------------------------------------------
(* The operations a command is made of.                                    *)
Move(s) == <<"move", s>>                    \* updateMissionState
Ensure(s) == <<"ensure", s>>                \* ensureMissionState
View(n) == <<"view", n>>                    \* readNode, then what it calls for
Status(n, s) == <<"status", n, s>>          \* updateMissionPlanNodeStatus
Note(event, n) == <<"note", event, n>>      \* a node event for the ledger
Complete(n) == <<"complete", n>>            \* completeNode
Tool(n, viewed) == <<"tool", n, viewed>>    \* the action of a safe node
Gate(viewed) == <<"gate", viewed>>          \* findExecutorApproval
Request(viewed) == <<"request", viewed>>    \* runTool for report.write
Consume(i) == <<"consume", i>>              \* runApprovedTool
Mark(i) == <<"mark", i>>                    \* markApprovalExecuted
Mirror == <<"mirror">>                      \* approvals into mission.yaml
Report == <<"report">>                      \* the report and its artifact
FailIfRunning == <<"failIfRunning">>
PutGraph(g) == <<"putGraph", g>>            \* a write with the value to write
PutYaml(y) == <<"putYaml", y>>

(* setNodeStatus compares with the node as it was viewed, not as it is.    *)
SetStatus(n, viewed, s) == IF viewed = s THEN <<>> ELSE <<Status(n, s)>>

StartNode(n, viewed) ==
  IF viewed = "ready" THEN <<>> ELSE <<Status(n, "ready"), Note("started", n)>>

FailNode(n, viewed) ==
  SetStatus(n, viewed, "failed") \o <<Note("failed", n), FailIfRunning>>

(* runExecutor after prepareMissionForExecution.                           *)
Body == [n \in Nodes |-> View(n)] \o <<Ensure("completed"), Report>>

(* What readNode leads to, unless the node is completed: a safe node is    *)
(* started, run and completed; the approval node looks for its approval;   *)
(* the report node enters verifying.                                       *)
SafeWork(n, viewed) ==
  StartNode(n, viewed) \o <<Tool(n, viewed), Complete(n)>>

ReportWork(viewed) ==
  StartNode(ReportNode, viewed) \o <<Ensure("verifying"), Complete(ReportNode)>>

NodeWork(n, viewed) ==
  CASE viewed = "completed" -> <<>>
    [] viewed # "completed" /\ n = ApprovalNode -> <<Gate(viewed)>>
    [] viewed # "completed" /\ n = ReportNode -> ReportWork(viewed)
    [] viewed # "completed" /\ n <= Safe -> SafeWork(n, viewed)

(* prepareMissionForExecution for the state it is given.                   *)
Prepare(state, fromResume) ==
  CASE state = "created" -> <<Move("planning"), Move("running")>> \o Body
    [] state = "planning" -> <<Move("running")>> \o Body
    [] state = "paused" -> IF fromResume THEN <<Move("running")>> \o Body ELSE <<>>
    [] state \in {"completed", "failed", "cancelled"} -> <<>>
    [] OTHER -> Body
-----------------------------------------------------------------------------
InFlight == {c \in Commands : todo[c] # <<>>}
serial == together = {}

MayStart(c) ==
  /\ todo[c] = <<>>
  /\ IF serial THEN InFlight = {} ELSE c \in together

Plan(c, ops) == todo' = [todo EXCEPT ![c] = ops]

(* The command is about to perform op; Rest is what follows it.            *)
Does(c, kind) == todo[c] # <<>> /\ todo[c][1][1] = kind
Arg(c) == todo[c][1][2]
Arg2(c) == todo[c][1][3]
Rest(c) == Tail(todo[c])
Throw(c) == Plan(c, <<>>)

(* run and resume read the mission and prepare it; an execute_mission job  *)
(* resumes a mission that it finds paused.                                 *)
StartRun(c) ==
  /\ c \in Executors
  /\ MayStart(c)
  /\ Plan(c, Prepare(yaml.state, c \in Resumes \union Jobs))
  /\ UNCHANGED <<yaml, graph, approvals, nodeEvents, world>>

StartPause(c) ==
  /\ c \in Pausers
  /\ MayStart(c)
  /\ yaml.state \in {"running", "waiting_for_approval"}
  /\ Plan(c, <<Move("paused")>>)
  /\ UNCHANGED <<yaml, graph, approvals, nodeEvents, world>>

(* reconcileRunningMissionsOnDaemonStartup: every running mission.         *)
StartBoot(c) ==
  /\ c \in Boots
  /\ MayStart(c)
  /\ yaml.state = "running"
  /\ Plan(c, <<Move("paused")>>)
  /\ UNCHANGED <<yaml, graph, approvals, nodeEvents, world>>

(* decideApproval, then runApprovedTool when it was approved.  The races   *)
(* on approvals.json itself are those of ApprovalGate.                     *)
StartDecide(c) ==
  /\ c \in Deciders
  /\ MayStart(c)
  /\ \E i \in DOMAIN approvals :
       /\ approvals[i] = "pending"
       /\ \/ /\ approvals' = [approvals EXCEPT ![i] = "approved"]
             /\ Plan(c, <<Mirror, Consume(i)>>)
          \/ /\ approvals' = [approvals EXCEPT ![i] = "denied"]
             /\ Plan(c, <<Mirror>>)
  /\ UNCHANGED <<yaml, graph, nodeEvents, world>>

(* updateMissionPlanGraph reads the mission, whatever its state, and       *)
(* writes the new plan over graph.json and into mission.yaml.              *)
StartPlan(c) ==
  /\ c \in Planners
  /\ MayStart(c)
  /\ plans < MaxPlans
  /\ plans' = plans + 1
  /\ Plan(c, <<PutGraph(FreshPlan), PutYaml([yaml EXCEPT !.graph = FreshPlan])>>)
  /\ UNCHANGED <<yaml, graph, approvals, nodeEvents, deaths, together>>
-----------------------------------------------------------------------------
(* The mission store.  updateMissionState reads, asserts the transition    *)
(* and writes; completing a mission without a report generates one.        *)
DoMove(c) ==
  LET late == IF Arg(c) = "completed" /\ ~yaml.report THEN <<Report>> ELSE <<>>
  IN /\ Does(c, "move")
     /\ IF CanTransition(yaml.state, Arg(c))
        THEN Plan(c, <<PutYaml([yaml EXCEPT !.state = Arg(c)])>> \o late \o Rest(c))
        ELSE Throw(c)
     /\ UNCHANGED <<yaml, graph, approvals, nodeEvents, world>>

(* ensureMissionState checks on a read of its own before it moves.         *)
DoEnsure(c) ==
  /\ Does(c, "ensure")
  /\ Plan(c, IF yaml.state = Arg(c) THEN Rest(c)
             ELSE IF CanTransition(yaml.state, Arg(c))
                  THEN <<Move(Arg(c))>> \o Rest(c)
             ELSE <<>>)
  /\ UNCHANGED <<yaml, graph, approvals, nodeEvents, world>>

(* readNode: ensureMissionPlanGraph copies the graph into mission.yaml     *)
(* when the two differ.                                                    *)
Sync == IF yaml.graph = graph THEN <<>> ELSE <<PutYaml([yaml EXCEPT !.graph = graph])>>

DoView(c) ==
  /\ Does(c, "view")
  /\ Plan(c, Sync \o NodeWork(Arg(c), graph[Arg(c)]) \o Rest(c))
  /\ UNCHANGED <<yaml, graph, approvals, nodeEvents, world>>

DoComplete(c) ==
  LET n == Arg(c)
      work == IF graph[n] = "completed" THEN <<>>
              ELSE <<Status(n, "completed"), Note("completed", n)>>
  IN /\ Does(c, "complete")
     /\ Plan(c, Sync \o work \o Rest(c))
     /\ UNCHANGED <<yaml, graph, approvals, nodeEvents, world>>

(* updateMissionPlanNodeStatus reads both files, then writes both.         *)
DoStatus_forgetsCopy(c) ==
  LET g == [graph EXCEPT ![Arg(c)] = Arg2(c)]
  IN /\ Does(c, "status")
     /\ Plan(c, <<PutGraph(g)>> \o Rest(c))
     /\ UNCHANGED <<yaml, graph, approvals, nodeEvents, world>>

DoStatus_resetsEarlier(c) ==
  LET g == [n \in Nodes |-> IF n < Arg(c) THEN "ready"
                            ELSE IF n = Arg(c) THEN Arg2(c) ELSE graph[n]]
  IN /\ Does(c, "status")
     /\ Plan(c, <<PutGraph(g), PutYaml([yaml EXCEPT !.graph = g])>> \o Rest(c))
     /\ UNCHANGED <<yaml, graph, approvals, nodeEvents, world>>

DoStatus(c) ==
  LET g == [graph EXCEPT ![Arg(c)] = Arg2(c)]
  IN /\ Does(c, "status")
     /\ Plan(c, <<PutGraph(g), PutYaml([yaml EXCEPT !.graph = g])>> \o Rest(c))
     /\ UNCHANGED <<yaml, graph, approvals, nodeEvents, world>>

DoPutGraph(c) ==
  /\ Does(c, "putGraph")
  /\ graph' = Arg(c)
  /\ Plan(c, Rest(c))
  /\ UNCHANGED <<yaml, approvals, nodeEvents, world>>

DoPutYaml(c) ==
  /\ Does(c, "putYaml")
  /\ yaml' = Arg(c)
  /\ Plan(c, Rest(c))
  /\ UNCHANGED <<graph, approvals, nodeEvents, world>>

DoNote(c) ==
  /\ Does(c, "note")
  /\ nodeEvents' = nodeEvents \union {<<Arg(c), Arg2(c)>>}
  /\ Plan(c, Rest(c))
  /\ UNCHANGED <<yaml, graph, approvals, world>>

(* mirrorMissionApprovals and the artifact's mirror rewrite mission.yaml   *)
(* as they have read it; the second adds the report artifact.              *)
DoMirror(c) ==
  /\ Does(c, "mirror")
  /\ Plan(c, <<PutYaml(yaml)>> \o Rest(c))
  /\ UNCHANGED <<yaml, graph, approvals, nodeEvents, world>>

DoReport(c) ==
  /\ Does(c, "report")
  /\ Plan(c, <<PutYaml([yaml EXCEPT !.report = TRUE])>> \o Rest(c))
  /\ UNCHANGED <<yaml, graph, approvals, nodeEvents, world>>
-----------------------------------------------------------------------------
(* The executor.  A safe node whose action throws is failed, the mission   *)
(* with it, and the exception ends the run.                                *)
DoTool(c) ==
  /\ Does(c, "tool")
  /\ \/ Plan(c, Rest(c))
     \/ Arg(c) \in ToolNodes /\ Plan(c, FailNode(Arg(c), Arg2(c)))
  /\ UNCHANGED <<yaml, graph, approvals, nodeEvents, world>>

DoFailIfRunning(c) ==
  /\ Does(c, "failIfRunning")
  /\ Plan(c, IF yaml.state = "running" THEN <<Move("failed")>> ELSE <<>>)
  /\ UNCHANGED <<yaml, graph, approvals, nodeEvents, world>>

Newest == IF approvals = <<>> THEN "absent" ELSE approvals[Len(approvals)]

(* handleApprovalNode: the newest approval decides; a pending one ends the *)
(* run, and without one the report is requested.                           *)
DoGate_asksAgain(c) ==
  /\ Does(c, "gate")
  /\ Plan(c, StartNode(ApprovalNode, Arg(c)) \o <<Request(Arg(c))>> \o Rest(c))
  /\ Len(approvals) < 2
  /\ UNCHANGED <<yaml, graph, approvals, nodeEvents, world>>

DoGate_staysWaiting(c) ==
  LET close == <<Complete(ApprovalNode)>> \o Rest(c)
  IN /\ Does(c, "gate")
     /\ Plan(c,
          CASE Newest = "pending" -> <<Ensure("waiting_for_approval")>>
                                     \o SetStatus(ApprovalNode, Arg(c), "blocked")
            [] Newest = "approved" -> <<Consume(Len(approvals))>> \o close
            [] Newest \in {"executed", "denied"} -> close
            [] Newest = "absent" -> StartNode(ApprovalNode, Arg(c))
                                    \o <<Request(Arg(c))>> \o Rest(c))
     /\ UNCHANGED <<yaml, graph, approvals, nodeEvents, world>>

DoGate(c) ==
  LET close == <<Complete(ApprovalNode)>> \o Rest(c)
  IN /\ Does(c, "gate")
     /\ Plan(c,
          CASE Newest = "pending" -> <<Ensure("waiting_for_approval")>>
                                     \o SetStatus(ApprovalNode, Arg(c), "blocked")
            [] Newest = "approved" -> <<Ensure("running"), Consume(Len(approvals))>>
                                      \o close
            [] Newest \in {"executed", "denied"} -> <<Ensure("running")>> \o close
            [] Newest = "absent" -> StartNode(ApprovalNode, Arg(c))
                                    \o <<Request(Arg(c))>> \o Rest(c))
     /\ UNCHANGED <<yaml, graph, approvals, nodeEvents, world>>

(* runTool for report.write: the policy lets it run, wants an approval or  *)
(* blocks it.                                                              *)
DoRequest_unsaved(c) ==
  /\ Does(c, "request")
  /\ Plan(c, SetStatus(ApprovalNode, Arg(c), "blocked")
             \o <<Ensure("waiting_for_approval")>>)
  /\ UNCHANGED <<yaml, graph, approvals, nodeEvents, world>>

DoRequest(c) ==
  /\ Does(c, "request")
  /\ \/ /\ Plan(c, <<Report, Complete(ApprovalNode)>> \o Rest(c))
        /\ UNCHANGED approvals
     \/ /\ Plan(c, <<Mirror>> \o SetStatus(ApprovalNode, Arg(c), "blocked")
                   \o <<Ensure("waiting_for_approval")>>)
        /\ approvals' = Append(approvals, "pending")
     \/ /\ Plan(c, FailNode(ApprovalNode, Arg(c)))
        /\ UNCHANGED approvals
  /\ UNCHANGED <<yaml, graph, nodeEvents, world>>

(* runApprovedTool: an approval that is not approved, or was executed      *)
(* already, or whose tool fails, makes the executor throw.                 *)
ConsumeRuns(c) ==
  /\ Does(c, "consume")
  /\ approvals[Arg(c)] = "approved"
  /\ Plan(c, <<Report, Mark(Arg(c))>> \o Rest(c))
  /\ UNCHANGED <<yaml, graph, approvals, nodeEvents, world>>

ConsumeFails(c) ==
  /\ Does(c, "consume")
  /\ Throw(c)
  /\ UNCHANGED <<yaml, graph, approvals, nodeEvents, world>>

DoMark(c) ==
  LET i == Arg(c)
  IN /\ Does(c, "mark")
     /\ IF approvals[i] = "approved"
        THEN /\ approvals' = [approvals EXCEPT ![i] = "executed"]
             /\ Plan(c, <<Mirror>> \o Rest(c))
        ELSE /\ Plan(c, IF approvals[i] = "executed" THEN Rest(c) ELSE <<>>)
             /\ UNCHANGED approvals
     /\ UNCHANGED <<yaml, graph, nodeEvents, world>>

(* The process of a command dies between two of its operations.            *)
Die(c) ==
  /\ todo[c] # <<>>
  /\ serial
  /\ deaths < MaxDeaths
  /\ deaths' = deaths + 1
  /\ Plan(c, <<>>)
  /\ UNCHANGED <<yaml, graph, approvals, nodeEvents, plans, together>>

Start(c) ==
  StartRun(c) \/ StartPause(c) \/ StartBoot(c) \/ StartDecide(c) \/ StartPlan(c)

Step(c) ==
  \/ DoMove(c) \/ DoEnsure(c) \/ DoView(c) \/ DoComplete(c) \/ DoStatus(c)
  \/ DoPutGraph(c) \/ DoPutYaml(c) \/ DoNote(c) \/ DoMirror(c) \/ DoReport(c)
  \/ DoTool(c) \/ DoFailIfRunning(c) \/ DoGate(c) \/ DoRequest(c)
  \/ ConsumeRuns(c) \/ ConsumeFails(c) \/ DoMark(c)

Next == \E c \in Commands : Start(c) \/ Step(c) \/ Die(c)

Spec == Init /\ [][Next]_vars

(* A command that runs goes on running.  That somebody keeps resuming the  *)
(* mission, decides what is pending, and that the approved tool does not   *)
(* fail for ever is assumed of the operator and the workspace.             *)
Fairness ==
  /\ \A c \in Commands : WF_vars(Step(c)) /\ SF_vars(ConsumeRuns(c))
  /\ \A c \in Resumes : SF_vars(StartRun(c))
  /\ \A c \in Deciders : SF_vars(StartDecide(c))

FairSpec == Spec /\ Fairness
-----------------------------------------------------------------------------
AtRest == InFlight = {}

(* Every variable has its type; todo holds operations of the known kinds.  *)
Kinds == {"move", "ensure", "view", "status", "note", "complete", "tool", "gate",
          "request", "consume", "mark", "mirror", "report", "failIfRunning",
          "putGraph", "putYaml"}

TypeOK ==
  /\ yaml \in [state : States, report : BOOLEAN, graph : [Nodes -> Statuses]]
  /\ graph \in [Nodes -> Statuses]
  /\ approvals \in Seq({"pending", "approved", "denied", "executed"})
  /\ nodeEvents \subseteq {"started", "completed", "failed"} \X Nodes
  /\ \A c \in Commands : \A i \in DOMAIN todo[c] : todo[c][i][1] \in Kinds
  /\ deaths \in 0..MaxDeaths
  /\ plans \in 0..MaxPlans
  /\ together \subseteq Commands

OneExecutor == \A c, d \in together \intersect Executors : c = d

(* While no two executors work on the mission, completed work is taken     *)
(* back by a regenerated plan only: the executor takes node statuses from  *)
(* graph.json, which besides it only the planner writes, so stale writes   *)
(* of mission.yaml by other commands do not matter.                        *)
WorkIsKept ==
  [][OneExecutor =>
       \A n \in Nodes :
         graph[n] = "completed" /\ graph'[n] # "completed"
           => \E c \in Planners : DoPutGraph(c)]_vars

(* tests/executor.test.ts:58: the executor asks once and does not          *)
(* duplicate the request.  One command at a time, deaths included.         *)
AskedOnce == serial => Len(approvals) <= 1

(* A mission that waits for approval has an approval somebody can decide   *)
(* or has decided, so `resume` has something to continue with.             *)
WaitingIsAnswerable == yaml.state = "waiting_for_approval" => approvals # <<>>

(* One command at a time: when no command is running, none has died and    *)
(* the plan was not regenerated (which leaves a failed mission without a   *)
(* failed node), mission.yaml shows the graph, a failed mission the node   *)
(* that failed, a completed one its report, and the ledger has each        *)
(* completed node.                                                         *)
Settled == serial /\ AtRest /\ deaths = 0 /\ plans = 0
RecordsAgree ==
  Settled =>
    /\ yaml.graph = graph
    /\ yaml.state = "failed" => \E n \in Nodes : graph[n] = "failed"
    /\ yaml.state = "completed" => yaml.report
    /\ \A n \in Nodes : graph[n] = "completed" => <<"completed", n>> \in nodeEvents

(* Whoever dies where, an operator who keeps resuming and deciding brings  *)
(* the mission to an end (docs/mission-spec.md:58), unless its plan is     *)
(* regenerated: a tool that runs again while the mission waits or is being *)
(* verified may fail for ever, and only a running mission fails with it.   *)
MissionEnds ==
  serial => <>(yaml.state \in {"completed", "failed"} \/ plans # 0)
=============================================================================
