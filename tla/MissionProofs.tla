---------------------------- MODULE MissionProofs ----------------------------
(***************************************************************************)
(* Theorems about one mission, what drives it and the context it gathers,  *)
(* for every number of nodes, commands, files and texts, and every way     *)
(* the commands overlap and die.                                           *)
(***************************************************************************)
EXTENDS MissionExecution, MissionContext, FiniteFolds

Waiting == "waiting_for_approval"
Yaml == [state : States, report : BOOLEAN, graph : [Nodes -> Statuses]]

(* The operations a command may still have to do.                          *)
Ops ==
  ({"move", "ensure"} \X States) \union ({"view", "complete"} \X Nodes)
  \union ({"status"} \X Nodes \X Statuses) \union ({"tool"} \X Nodes \X Statuses)
  \union ({"note"} \X {"started", "completed", "failed"} \X Nodes)
  \union ({"gate", "request"} \X Statuses) \union ({"consume", "mark"} \X Nat)
  \union {Mirror, Report, FailIfRunning}
  \union ({"putGraph"} \X [Nodes -> Statuses]) \union ({"putYaml"} \X Yaml)

Typed ==
  /\ yaml \in Yaml
  /\ graph \in [Nodes -> Statuses]
  /\ approvals \in Seq({"pending", "approved", "denied", "executed"})
  /\ nodeEvents \subseteq {"started", "completed", "failed"} \X Nodes
  /\ todo \in [Commands -> Seq(Ops)]
  /\ deaths \in 0..MaxDeaths
  /\ plans \in 0..MaxPlans
  /\ together \in {{}} \union Overlaps

(* An operation that may lead to the completion of its node, and one that  *)
(* may give its node another status than completed.                        *)
Closes(op) ==
  op[1] \in {"view", "complete", "gate", "request"} \/ (op[1] = "status" /\ op[3] = "completed")
Touches(op) ==
  op[1] \in {"tool", "gate", "request"} \/ (op[1] = "status" /\ op[3] # "completed")
NodeOf(op) == IF op[1] \in {"gate", "request"} THEN ApprovalNode ELSE op[2]

NoTouch(q) == \A i \in DOMAIN q : ~Touches(q[i])
NoClose(q) == \A i \in DOMAIN q : ~Closes(q[i])
Ordered(q) == \A i, j \in DOMAIN q : j < i /\ Closes(q[j]) => ~Touches(q[i])

(* What the commands that are not executors are made of.                   *)
Side == {"move", "putYaml", "mirror", "consume", "report", "mark"}

OpOk(c, op) ==
  /\ op[1] \in {"move", "ensure"} /\ op[2] = Waiting => approvals # <<>>
  /\ op[1] = "putYaml" /\ op[2].state = Waiting => approvals # <<>>
  /\ op[1] = "request" /\ serial => approvals = <<>>
  /\ Touches(op) /\ OneExecutor => graph[NodeOf(op)] # "completed"
  /\ c \in Executors \/ op[1] \in Side
     \/ (c \in Planners /\ plans # 0 /\ op = PutGraph(FreshPlan))

(* A graph about to be written keeps what is completed, unless the plan    *)
(* was regenerated and a planner writes it, and completes no node that *)
(* an operation which follows gives another status.                        *)
Fresh(c, q) ==
  OneExecutor =>
    /\ \/ c \in Planners /\ plans # 0
       \/ \A n \in Nodes : graph[n] = "completed" => q[1][2][n] = "completed"
    /\ \A i \in DOMAIN Tail(q) :
         Touches(Tail(q)[i]) => q[1][2][NodeOf(Tail(q)[i])] # "completed"

QueueOk(c) ==
  LET q == todo[c]
  IN /\ \A i \in DOMAIN q : OpOk(c, q[i])
     /\ Ordered(q)
     /\ \A i \in DOMAIN q : q[i][1] = "putGraph" => i = 1 /\ Fresh(c, q)

Flights ==
  /\ serial => \A c, d \in InFlight : c = d
  /\ ~serial => InFlight \subseteq together

ExecInv ==
  /\ Typed
  /\ Flights
  /\ \A c \in Commands : QueueOk(c)
  /\ AskedOnce /\ WaitingIsAnswerable
-----------------------------------------------------------------------------
(* The nodes of a mission that are named, and its states.                  *)
LEMMA NodesKnown ==
  /\ ApprovalNode \in Nodes /\ ReportNode \in Nodes /\ 1..Safe \subseteq Nodes
  /\ Nodes \subseteq Nat /\ ToolNodes \subseteq Nodes /\ ReportNode \in Nat
  /\ ApprovalNode # ReportNode /\ ApprovalNode \in Nat /\ Safe \in Nat
  BY ExecutionAssumption DEF ApprovalNode, ReportNode, Nodes

LEMMA StatesKnown ==
  States = {"created", "planning", "running", "waiting_for_approval", "paused", "verifying",
            "failed", "recovering", "completed", "cancelled"}
  BY DEF States, Transitions

(* Every state that can be moved to is one.                                *)
LEMMA MovesToState ==
  ASSUME NEW from \in States, NEW to, CanTransition(from, to)
  PROVE  to \in States
  BY StatesKnown DEF CanTransition, Transitions

(* What an operation says about itself.                                    *)
LEMMA OpArgs ==
  ASSUME NEW op \in Ops
  PROVE  /\ op[1] \in Kinds
         /\ op[1] \in {"move", "ensure"} => op[2] \in States
         /\ op[1] \in {"view", "complete"} => op[2] \in Nodes
         /\ op[1] \in {"status", "tool"} => op[2] \in Nodes /\ op[3] \in Statuses
         /\ op[1] = "note" => op[2] \in {"started", "completed", "failed"} /\ op[3] \in Nodes
         /\ op[1] \in {"gate", "request"} => op[2] \in Statuses
         /\ op[1] \in {"consume", "mark"} => op[2] \in Nat
         /\ op[1] = "putGraph" => op[2] \in [Nodes -> Statuses]
         /\ op[1] = "putYaml" => op[2] \in Yaml
<1> USE DEF Kinds
<1>1. CASE op \in {"move", "ensure"} \X States
  BY <1>1
<1>2. CASE op \in {"view", "complete"} \X Nodes
  BY <1>2
<1>3. CASE op \in {"status"} \X Nodes \X Statuses
  BY <1>3
<1>4. CASE op \in {"tool"} \X Nodes \X Statuses
  BY <1>4
<1>5. CASE op \in {"note"} \X {"started", "completed", "failed"} \X Nodes
  BY <1>5
<1>6. CASE op \in {"gate", "request"} \X Statuses
  BY <1>6
<1>7. CASE op \in {"consume", "mark"} \X Nat
  BY <1>7
<1>8. CASE op \in {Mirror, Report, FailIfRunning}
  BY <1>8 DEF Mirror, Report, FailIfRunning
<1>9. CASE op \in {"putGraph"} \X [Nodes -> Statuses]
  BY <1>9
<1>10. CASE op \in {"putYaml"} \X Yaml
  BY <1>10
<1> QED BY <1>1, <1>2, <1>3, <1>4, <1>5, <1>6, <1>7, <1>8, <1>9, <1>10 DEF Ops

(* The operations, by name.                                                *)
LEMMA OpsMade ==
  /\ \A s \in States : Move(s) \in Ops /\ Ensure(s) \in Ops
  /\ \A n \in Nodes : View(n) \in Ops /\ Complete(n) \in Ops
  /\ \A n \in Nodes, s \in Statuses : Status(n, s) \in Ops /\ Tool(n, s) \in Ops
  /\ \A n \in Nodes, e \in {"started", "completed", "failed"} : Note(e, n) \in Ops
  /\ \A s \in Statuses : Gate(s) \in Ops /\ Request(s) \in Ops
  /\ \A i \in Nat : Consume(i) \in Ops /\ Mark(i) \in Ops
  /\ Mirror \in Ops /\ Report \in Ops /\ FailIfRunning \in Ops
  /\ \A g \in [Nodes -> Statuses] : PutGraph(g) \in Ops
  /\ \A y \in Yaml : PutYaml(y) \in Ops
<1>1. \A s \in States : Move(s) \in Ops /\ Ensure(s) \in Ops
  BY DEF Ops, Move, Ensure
<1>2. \A n \in Nodes : View(n) \in Ops /\ Complete(n) \in Ops
  BY DEF Ops, View, Complete
<1>3. \A n \in Nodes, s \in Statuses : Status(n, s) \in Ops /\ Tool(n, s) \in Ops
  BY DEF Ops, Status, Tool
<1>4. \A n \in Nodes, e \in {"started", "completed", "failed"} : Note(e, n) \in Ops
  BY DEF Ops, Note
<1>5. \A s \in Statuses : Gate(s) \in Ops /\ Request(s) \in Ops
  BY DEF Ops, Gate, Request
<1>6. \A i \in Nat : Consume(i) \in Ops /\ Mark(i) \in Ops
  BY DEF Ops, Consume, Mark
<1>7. Mirror \in Ops /\ Report \in Ops /\ FailIfRunning \in Ops
  BY DEF Ops
<1>8. \A g \in [Nodes -> Statuses] : PutGraph(g) \in Ops
  BY DEF Ops, PutGraph
<1>9. \A y \in Yaml : PutYaml(y) \in Ops
  BY DEF Ops, PutYaml
<1> QED BY <1>1, <1>2, <1>3, <1>4, <1>5, <1>6, <1>7, <1>8, <1>9

(* What joining two sequences of operations keeps.                         *)
LEMMA Joined ==
  ASSUME NEW s \in Seq(Ops), NEW t \in Seq(Ops)
  PROVE  /\ s \o t \in Seq(Ops)
         /\ NoTouch(s) /\ NoTouch(t) => NoTouch(s \o t)
         /\ NoClose(s) /\ NoClose(t) => NoClose(s \o t)
         /\ Ordered(s) /\ Ordered(t) /\ (NoClose(s) \/ NoTouch(t)) => Ordered(s \o t)
         /\ \A i \in DOMAIN (s \o t) : (\E j \in DOMAIN s : (s \o t)[i] = s[j])
                                       \/ (\E j \in DOMAIN t : (s \o t)[i] = t[j])
         /\ s # <<>> => (s \o t)[1] = s[1] /\ Tail(s \o t) = Tail(s) \o t
<1>1. s \o t \in Seq(Ops) /\ Len(s \o t) = Len(s) + Len(t) /\ Len(s) \in Nat /\ Len(t) \in Nat
  OBVIOUS
<1>2. ASSUME NEW i \in DOMAIN (s \o t)
      PROVE  \/ i \in DOMAIN s /\ (s \o t)[i] = s[i]
             \/ i - Len(s) \in DOMAIN t /\ (s \o t)[i] = t[i - Len(s)] /\ i > Len(s)
  BY <1>1
<1> DEFINE st == s \o t
<1>3. NoTouch(s) /\ NoTouch(t) => NoTouch(st)
  BY <1>2 DEF NoTouch
<1>4. NoClose(s) /\ NoClose(t) => NoClose(st)
  BY <1>2 DEF NoClose
<1>5. ASSUME Ordered(s), Ordered(t), NoClose(s) \/ NoTouch(t) PROVE Ordered(st)
  <2> SUFFICES ASSUME NEW i \in DOMAIN st, NEW j \in DOMAIN st, j < i, Closes(st[j])
               PROVE  ~Touches(st[i])
    BY DEF Ordered
  <2>0. i \in Nat /\ j \in Nat
    BY <1>1
  <2>1. CASE i \in DOMAIN s /\ st[i] = s[i]
    <3>1. j \in DOMAIN s /\ st[j] = s[j]
      BY <1>2, <2>0, <2>1
    <3> QED BY <1>5, <2>1, <3>1 DEF Ordered
  <2>2. CASE i - Len(s) \in DOMAIN t /\ st[i] = t[i - Len(s)] /\ i > Len(s)
    <3>1. CASE j \in DOMAIN s /\ st[j] = s[j]
      BY <1>5, <2>2, <3>1 DEF NoClose, NoTouch
    <3>2. CASE j - Len(s) \in DOMAIN t /\ st[j] = t[j - Len(s)] /\ j > Len(s)
      <4>1. j - Len(s) < i - Len(s)
        BY <1>1, <2>0
      <4> HIDE DEF st
      <4> QED BY <1>5, <2>2, <3>2, <4>1 DEF Ordered
    <3> QED BY <1>2, <3>1, <3>2
  <2> QED BY <1>2, <2>1, <2>2
<1>6. s # <<>> => st[1] = s[1] /\ Tail(st) = Tail(s) \o t
  OBVIOUS
<1> QED BY <1>1, <1>2, <1>3, <1>4, <1>5, <1>6
-----------------------------------------------------------------------------
(* A sequence of operations that a command may be given in this state.     *)
Plannable(c, q) ==
  /\ q \in Seq(Ops)
  /\ \A i \in DOMAIN q : OpOk(c, q[i]) /\ q[i][1] # "putGraph"
  /\ Ordered(q)

(* No operation, and one that may be given.                                *)
LEMMA PlanOne ==
  ASSUME NEW c, NEW op \in Ops, OpOk(c, op), op[1] # "putGraph"
  PROVE  /\ Plannable(c, <<op>>)
         /\ ~Closes(op) => NoClose(<<op>>)
         /\ ~Touches(op) => NoTouch(<<op>>)
  BY DEF Plannable, NoClose, NoTouch, Ordered

LEMMA PlanNothing == \A c : Plannable(c, <<>>) /\ NoClose(<<>>) /\ NoTouch(<<>>)
  BY DEF Plannable, NoClose, NoTouch, Ordered

(* Sequences that may be given can be joined, unless the first could close *)
(* a node that the second still touches.                                   *)
LEMMA PlanJoined ==
  ASSUME NEW c, NEW s, NEW t, Plannable(c, s), Plannable(c, t), NoClose(s) \/ NoTouch(t)
  PROVE  /\ Plannable(c, s \o t)
         /\ NoClose(s) /\ NoClose(t) => NoClose(s \o t)
         /\ NoTouch(s) /\ NoTouch(t) => NoTouch(s \o t)
<1>1. s \in Seq(Ops) /\ t \in Seq(Ops)
  BY DEF Plannable
<1>2. \A i \in DOMAIN (s \o t) : OpOk(c, (s \o t)[i]) /\ (s \o t)[i][1] # "putGraph"
  BY <1>1, Joined DEF Plannable
<1> QED BY <1>1, <1>2, Joined DEF Plannable

(* What a command still has to do after its next operation may be given.   *)
LEMMA PlanRest ==
  ASSUME NEW c \in Commands, Typed, QueueOk(c), todo[c] # <<>>
  PROVE  /\ Plannable(c, Rest(c))
         /\ todo[c][1] \in Ops /\ OpOk(c, todo[c][1])
         /\ Closes(todo[c][1]) => NoTouch(Rest(c))
<1> DEFINE q == todo[c]
<1>1. q \in Seq(Ops) /\ q # <<>>
  BY DEF Typed
<1>2. /\ \A i \in DOMAIN q : OpOk(c, q[i]) /\ (q[i][1] = "putGraph" => i = 1)
      /\ Ordered(q)
  BY DEF QueueOk
<1>3. Rest(c) = Tail(q)
  BY DEF Rest
<1> HIDE DEF q
<1>4. /\ Tail(q) \in Seq(Ops) /\ 1 \in DOMAIN q /\ q[1] \in Ops
      /\ \A i \in DOMAIN Tail(q) : i + 1 \in DOMAIN q /\ Tail(q)[i] = q[i + 1] /\ i \in Nat /\ i + 1 # 1
                                  /\ 1 < i + 1
  BY <1>1
<1>5. \A i \in DOMAIN Tail(q) : OpOk(c, Tail(q)[i]) /\ Tail(q)[i][1] # "putGraph"
  BY <1>2, <1>4
<1>6. Ordered(Tail(q))
  <2> SUFFICES ASSUME NEW i \in DOMAIN Tail(q), NEW j \in DOMAIN Tail(q), j < i, Closes(Tail(q)[j])
               PROVE  ~Touches(Tail(q)[i])
    BY DEF Ordered
  <2>1. j + 1 < i + 1
    BY <1>4
  <2> QED BY <1>2, <1>4, <2>1 DEF Ordered
<1>7. Closes(q[1]) => NoTouch(Tail(q))
  BY <1>2, <1>4 DEF Ordered, NoTouch
<1> QED BY <1>2, <1>3, <1>4, <1>5, <1>6, <1>7 DEF Plannable, q

(* A command given a new plan, in its own time, leaves the others theirs.  *)
LEMMA Replanned ==
  ASSUME ExecInv, NEW c \in Commands, NEW q, Plannable(c, q), Plan(c, q),
         graph' = graph, together' = together, plans' = plans, (approvals' = <<>>) <=> (approvals = <<>>),
         todo[c] # <<>> \/ MayStart(c)
  PROVE  /\ todo' \in [Commands -> Seq(Ops)]
         /\ Flights' /\ \A d \in Commands : QueueOk(d)'
<1>1. todo \in [Commands -> Seq(Ops)] /\ q \in Seq(Ops)
  BY DEF ExecInv, Typed, Plannable
<1>2. todo' \in [Commands -> Seq(Ops)] /\ todo'[c] = q /\ \A d \in Commands : d # c => todo'[d] = todo[d]
  BY <1>1 DEF Plan
<1>3. \A d : \A op : OpOk(d, op) => OpOk(d, op)'
  BY DEF OpOk, serial, OneExecutor
<1>4. ASSUME NEW d \in Commands PROVE QueueOk(d)'
  <2>1. CASE d = c
    BY <1>2, <1>3, <2>1 DEF QueueOk, Plannable
  <2>2. CASE d # c
    <3>1. QueueOk(d) /\ todo'[d] = todo[d]
      BY <1>2, <2>2 DEF ExecInv
    <3>2. \A i \in DOMAIN todo[d] : OpOk(d, todo[d][i])'
      BY <1>3, <3>1 DEF QueueOk
    <3> HIDE <1>3
    <3> QED BY <3>1, <3>2 DEF QueueOk, Fresh, OneExecutor
  <2> QED BY <2>1, <2>2
<1>5. InFlight' \subseteq InFlight \union {c}
  BY <1>2 DEF InFlight
<1>6. Flights'
  <2>1. CASE todo[c] # <<>>
    <3>1. InFlight' \subseteq InFlight
      BY <1>5, <2>1 DEF InFlight
    <3> QED BY <3>1 DEF ExecInv, Flights, serial
  <2>2. CASE MayStart(c)
    BY <1>5, <2>2 DEF ExecInv, Flights, serial, MayStart
  <2> QED BY <2>1, <2>2
<1> QED BY <1>2, <1>4, <1>6
-----------------------------------------------------------------------------
LEMMA Paired ==
  ASSUME NEW a, NEW b
  PROVE  <<a, b>> = <<a>> \o <<b>>
<1>1. <<a, b>> \in Seq({a, b}) /\ <<a>> \in Seq({a, b}) /\ <<b>> \in Seq({a, b})
  OBVIOUS
<1>2. <<a>> \o <<b>> \in Seq({a, b}) /\ Len(<<a>> \o <<b>>) = 2
  BY <1>1
<1>3. (<<a>> \o <<b>>)[1] = a /\ (<<a>> \o <<b>>)[2] = b
  BY <1>1
<1>4. Len(<<a, b>>) = 2 /\ <<a, b>>[1] = a /\ <<a, b>>[2] = b
  OBVIOUS
<1>5. \A i \in 1..2 : i = 1 \/ i = 2
  OBVIOUS
<1>6. \A i \in 1..2 : <<a, b>>[i] = (<<a>> \o <<b>>)[i]
  BY <1>3, <1>4, <1>5
<1> QED BY <1>1, <1>2, <1>4, <1>6, SeqEqual

(* A node whose status may be set back.                                    *)
Open(n) == OneExecutor => graph[n] # "completed"

(* The operations an executor may be given in every state.                 *)
LEMMA Light ==
  ASSUME NEW c \in Executors, NEW op \in Ops,
         \/ op[1] \in {"view", "complete", "note", "report", "mirror", "consume", "mark",
                       "failIfRunning"}
         \/ op[1] \in {"move", "ensure"} /\ op[2] # Waiting
  PROVE  Plannable(c, <<op>>) /\ NoTouch(<<op>>)
<1>1. OpOk(c, op) /\ ~Touches(op) /\ op[1] # "putGraph"
  BY DEF OpOk, Touches
<1> QED BY <1>1, PlanOne

(* A status given to a node that may be set back.                          *)
LEMMA PlanStatus ==
  ASSUME NEW c \in Executors, NEW n \in Nodes, NEW s \in Statuses, s # "completed", Open(n)
  PROVE  Plannable(c, <<Status(n, s)>>) /\ NoClose(<<Status(n, s)>>)
<1>1. Status(n, s) \in Ops
  BY OpsMade
<1>2. OpOk(c, Status(n, s)) /\ ~Closes(Status(n, s)) /\ Status(n, s)[1] # "putGraph"
  BY DEF OpOk, Closes, Touches, Status, NodeOf, Open
<1> QED BY <1>1, <1>2, PlanOne

LEMMA PlanSetStatus ==
  ASSUME NEW c \in Executors, NEW n \in Nodes, NEW viewed, NEW s \in Statuses,
         s # "completed", Open(n)
  PROVE  Plannable(c, SetStatus(n, viewed, s)) /\ NoClose(SetStatus(n, viewed, s))
  BY PlanStatus, PlanNothing DEF SetStatus

(* A note for the ledger.                                                  *)
LEMMA PlanNote ==
  ASSUME NEW c \in Executors, NEW n \in Nodes, NEW e \in {"started", "completed", "failed"}
  PROVE  Plannable(c, <<Note(e, n)>>) /\ NoTouch(<<Note(e, n)>>) /\ NoClose(<<Note(e, n)>>)
<1>1. Note(e, n) \in Ops /\ Note(e, n)[1] = "note"
  BY OpsMade DEF Note
<1>2. ~Closes(Note(e, n))
  BY <1>1 DEF Closes
<1> QED BY <1>1, <1>2, Light, PlanOne DEF Plannable

LEMMA PlanStart ==
  ASSUME NEW c \in Executors, NEW n \in Nodes, NEW viewed, Open(n)
  PROVE  Plannable(c, StartNode(n, viewed)) /\ NoClose(StartNode(n, viewed))
<1>1. Plannable(c, <<Status(n, "ready")>>) /\ NoClose(<<Status(n, "ready")>>)
  BY PlanStatus DEF Statuses
<1>2. Plannable(c, <<Note("started", n)>>) /\ NoClose(<<Note("started", n)>>)
  BY PlanNote
<1>3. <<Status(n, "ready"), Note("started", n)>> = <<Status(n, "ready")>> \o <<Note("started", n)>>
  OBVIOUS
<1> QED BY <1>1, <1>2, <1>3, PlanJoined, PlanNothing DEF StartNode

LEMMA PlanFail ==
  ASSUME NEW c \in Executors, NEW n \in Nodes, NEW viewed, Open(n)
  PROVE  Plannable(c, FailNode(n, viewed))
<1>1. Plannable(c, SetStatus(n, viewed, "failed")) /\ NoClose(SetStatus(n, viewed, "failed"))
  BY PlanSetStatus DEF Statuses
<1>2. Plannable(c, <<Note("failed", n)>>) /\ NoClose(<<Note("failed", n)>>)
  BY PlanNote
<1>3. Plannable(c, <<FailIfRunning>>)
  BY OpsMade, Light DEF FailIfRunning
<1>4. <<Note("failed", n), FailIfRunning>> = <<Note("failed", n)>> \o <<FailIfRunning>>
  OBVIOUS
<1>5. Plannable(c, <<Note("failed", n), FailIfRunning>>)
  BY <1>2, <1>3, <1>4, PlanJoined
<1> QED BY <1>1, <1>5, PlanJoined DEF FailNode

LEMMA PlanComplete ==
  ASSUME NEW c \in Executors, NEW n \in Nodes
  PROVE  Plannable(c, <<Complete(n)>>) /\ NoTouch(<<Complete(n)>>)
  BY OpsMade, Light DEF Complete

LEMMA PlanEnsure ==
  ASSUME NEW c \in Executors, NEW s \in States, s # Waiting \/ approvals # <<>>
  PROVE  /\ Plannable(c, <<Ensure(s)>>) /\ NoTouch(<<Ensure(s)>>) /\ NoClose(<<Ensure(s)>>)
         /\ Plannable(c, <<Move(s)>>) /\ NoTouch(<<Move(s)>>)
<1>1. Ensure(s) \in Ops /\ Move(s) \in Ops
  BY OpsMade
<1>2. OpOk(c, Ensure(s)) /\ ~Touches(Ensure(s)) /\ ~Closes(Ensure(s)) /\ Ensure(s)[1] # "putGraph"
  BY DEF OpOk, Touches, Closes, Ensure
<1>3. OpOk(c, Move(s)) /\ ~Touches(Move(s)) /\ Move(s)[1] # "putGraph"
  BY DEF OpOk, Touches, Move
<1> QED BY <1>1, <1>2, <1>3, PlanOne

(* A write of mission.yaml.                                                *)
LEMMA PlanPutYaml ==
  ASSUME NEW c, NEW y \in Yaml, y.state = Waiting => approvals # <<>>
  PROVE  /\ Plannable(c, <<PutYaml(y)>>)
         /\ NoTouch(<<PutYaml(y)>>) /\ NoClose(<<PutYaml(y)>>)
<1>1. PutYaml(y) \in Ops
  BY OpsMade
<1>2. /\ OpOk(c, PutYaml(y)) /\ ~Touches(PutYaml(y)) /\ ~Closes(PutYaml(y))
      /\ PutYaml(y)[1] # "putGraph"
  BY DEF OpOk, Touches, Closes, PutYaml, Side
<1> QED BY <1>1, <1>2, PlanOne

LEMMA PlanSync ==
  ASSUME NEW c, Typed, WaitingIsAnswerable
  PROVE  Plannable(c, Sync) /\ NoClose(Sync) /\ NoTouch(Sync)
<1> DEFINE y == [yaml EXCEPT !.graph = graph]
<1>1. y \in Yaml /\ y.state = yaml.state
  BY DEF Typed, Yaml
<1> HIDE DEF y
<1>2. Plannable(c, <<PutYaml(y)>>) /\ NoTouch(<<PutYaml(y)>>) /\ NoClose(<<PutYaml(y)>>)
  BY <1>1, PlanPutYaml DEF WaitingIsAnswerable, Waiting
<1> QED BY <1>2, PlanNothing DEF Sync, y

(* The work of a node that is not completed.                               *)
LEMMA PlanWork ==
  ASSUME NEW c \in Executors, NEW n \in Nodes, NEW viewed \in Statuses,
         viewed = "completed" \/ Open(n)
  PROVE  Plannable(c, NodeWork(n, viewed))
<1>1. CASE viewed = "completed"
  BY <1>1, PlanNothing DEF NodeWork
<1>2. CASE viewed # "completed" /\ n = ApprovalNode
  <2>1. Gate(viewed) \in Ops /\ OpOk(c, Gate(viewed)) /\ Gate(viewed)[1] # "putGraph"
    BY <1>2, OpsMade DEF OpOk, Gate, Touches, NodeOf, Open
  <2>2. n # ReportNode /\ ~(n <= Safe)
    BY <1>2, NodesKnown DEF ApprovalNode
  <2>3. NodeWork(n, viewed) = <<Gate(viewed)>>
    BY <1>2, <2>2 DEF NodeWork
  <2> QED BY <2>1, <2>3, PlanOne
<1>3. CASE viewed # "completed" /\ n = ReportNode
  <2>1. Plannable(c, <<Ensure("verifying")>>) /\ NoClose(<<Ensure("verifying")>>)
    BY PlanEnsure, StatesKnown DEF Waiting
  <2>2. Plannable(c, <<Ensure("verifying")>> \o <<Complete(n)>>)
    BY <2>1, PlanComplete, PlanJoined
  <2>3. n # ApprovalNode /\ ~(n <= Safe)
    BY <1>3, NodesKnown DEF ReportNode
  <2>4. NodeWork(n, viewed) = StartNode(n, viewed) \o <<Ensure("verifying"), Complete(n)>>
    BY <1>3, <2>3 DEF NodeWork, ReportWork
  <2> QED BY <1>3, <2>2, <2>4, Paired, PlanStart, PlanJoined
<1>4. CASE viewed # "completed" /\ n # ApprovalNode /\ n # ReportNode
  <2>1. n <= Safe
    BY <1>4, ExecutionAssumption DEF Nodes, ApprovalNode, ReportNode
  <2>2. NodeWork(n, viewed) = StartNode(n, viewed) \o <<Tool(n, viewed), Complete(n)>>
    BY <1>4, <2>1 DEF NodeWork, SafeWork
  <2>3. /\ Tool(n, viewed) \in Ops /\ OpOk(c, Tool(n, viewed)) /\ ~Closes(Tool(n, viewed))
        /\ Tool(n, viewed)[1] # "putGraph"
    BY <1>4, OpsMade DEF OpOk, Tool, Touches, Closes, NodeOf, Open
  <2>4. Plannable(c, <<Tool(n, viewed)>>) /\ NoClose(<<Tool(n, viewed)>>)
    BY <2>3, PlanOne
  <2>5. Plannable(c, <<Tool(n, viewed)>> \o <<Complete(n)>>)
    BY <2>4, PlanComplete, PlanJoined
  <2> QED BY <1>4, <2>2, <2>5, Paired, PlanStart, PlanJoined
<1> QED BY <1>1, <1>2, <1>3, <1>4

(* What run, resume and a job set out to do.                               *)
LEMMA PlanBody ==
  ASSUME NEW c \in Executors
  PROVE  Plannable(c, Body) /\ NoTouch(Body)
<1> DEFINE views == [n \in Nodes |-> View(n)]
<1>1. views \in Seq(Ops) /\ DOMAIN views = Nodes
  BY NodesKnown, OpsMade DEF Nodes, ReportNode
<1>2. \A i \in DOMAIN views : OpOk(c, views[i]) /\ views[i][1] # "putGraph" /\ ~Touches(views[i])
  BY <1>1 DEF OpOk, View, Touches
<1>3. Plannable(c, views) /\ NoTouch(views)
  BY <1>1, <1>2 DEF Plannable, Ordered, NoTouch
<1> HIDE DEF views
<1>4. Plannable(c, <<Ensure("completed")>>) /\ NoTouch(<<Ensure("completed")>>)
  BY PlanEnsure, StatesKnown DEF Waiting
<1>5. Plannable(c, <<Report>>) /\ NoTouch(<<Report>>)
  BY OpsMade, Light DEF Report
<1>6. <<Ensure("completed"), Report>> = <<Ensure("completed")>> \o <<Report>>
  OBVIOUS
<1>7. Plannable(c, <<Ensure("completed"), Report>>) /\ NoTouch(<<Ensure("completed"), Report>>)
  BY <1>4, <1>5, <1>6, PlanJoined
<1>8. Body = views \o <<Ensure("completed"), Report>>
  BY DEF Body, views
<1> QED BY <1>3, <1>7, <1>8, PlanJoined

LEMMA PlanPrepare ==
  ASSUME NEW c \in Executors, NEW state, NEW fromResume
  PROVE  Plannable(c, Prepare(state, fromResume))
<1>1. /\ Plannable(c, <<Move("running")>>) /\ NoTouch(<<Move("running")>>)
      /\ Plannable(c, <<Move("planning")>>) /\ NoTouch(<<Move("planning")>>)
  BY PlanEnsure, StatesKnown DEF Waiting
<1>2. Plannable(c, Body) /\ NoTouch(Body)
  BY PlanBody
<1>3. <<Move("planning"), Move("running")>> = <<Move("planning")>> \o <<Move("running")>>
  OBVIOUS
<1>4. Plannable(c, <<Move("planning"), Move("running")>>)
  BY <1>1, <1>3, PlanJoined
<1>5. /\ Plannable(c, <<Move("planning"), Move("running")>> \o Body)
      /\ Plannable(c, <<Move("running")>> \o Body)
  BY <1>1, <1>2, <1>4, PlanJoined
<1> QED BY <1>2, <1>5, PlanNothing DEF Prepare
-----------------------------------------------------------------------------
(* The steps that only change what a command still has to do.              *)
LEMMA Replans ==
  ASSUME ExecInv, NEW c \in Commands, NEW q, Plannable(c, q), Plan(c, q),
         todo[c] # <<>> \/ MayStart(c),
         UNCHANGED <<yaml, graph, approvals, nodeEvents, world>>
  PROVE  ExecInv'
<1>1. graph' = graph /\ together' = together /\ approvals' = approvals /\ yaml' = yaml
      /\ nodeEvents' = nodeEvents /\ deaths' = deaths /\ plans' = plans
  BY DEF world
<1>2. todo' \in [Commands -> Seq(Ops)] /\ Flights' /\ \A d \in Commands : QueueOk(d)'
  BY <1>1, Replanned
<1>3. Typed'
  BY <1>1, <1>2 DEF ExecInv, Typed
<1>4. AskedOnce' /\ WaitingIsAnswerable'
  BY <1>1 DEF ExecInv, AskedOnce, WaitingIsAnswerable, serial
<1> QED BY <1>2, <1>3, <1>4 DEF ExecInv

(* What the head of a command's operations says of it.                     *)
LEMMA HeadFacts ==
  ASSUME ExecInv, NEW c \in Commands, NEW kind, Does(c, kind)
  PROVE  /\ todo[c] # <<>> /\ todo[c] \in Seq(Ops) /\ todo[c][1][1] = kind
         /\ todo[c][1] \in Ops /\ OpOk(c, todo[c][1])
         /\ Plannable(c, Rest(c))
         /\ Closes(todo[c][1]) => NoTouch(Rest(c))
         /\ kind \notin Side \union {"putGraph"} => c \in Executors
<1>1. todo[c] # <<>> /\ todo[c][1][1] = kind
  BY DEF Does
<1>2. QueueOk(c) /\ Typed
  BY DEF ExecInv
<1>3. kind \notin Side \union {"putGraph"} => c \in Executors
  BY <1>1, <1>2, PlanRest DEF OpOk, PutGraph
<1> QED BY <1>1, <1>2, <1>3, PlanRest DEF Typed

LEMMA StartsKeep ==
  ASSUME ExecInv, NEW c \in Commands, StartRun(c) \/ StartPause(c) \/ StartBoot(c)
  PROVE  ExecInv'
<1>1. CASE StartRun(c)
  <2> DEFINE q == Prepare(yaml.state, c \in Resumes \union Jobs)
  <2>1. Plannable(c, q)
    BY <1>1, PlanPrepare DEF StartRun
  <2> QED BY <1>1, <2>1, Replans DEF StartRun
<1>2. CASE StartPause(c) \/ StartBoot(c)
  <2>1. Move("paused") \in Ops
    BY OpsMade, StatesKnown
  <2>2. OpOk(c, Move("paused")) /\ Move("paused")[1] # "putGraph"
    BY DEF OpOk, Move, Waiting, Touches, Side
  <2>3. Plannable(c, <<Move("paused")>>)
    BY <2>1, <2>2, PlanOne
  <2>4. /\ MayStart(c) /\ Plan(c, <<Move("paused")>>)
        /\ UNCHANGED <<yaml, graph, approvals, nodeEvents, world>>
    BY <1>2 DEF StartPause, StartBoot
  <2> QED BY <2>3, <2>4, Replans
<1> QED BY <1>1, <1>2

(* An operation every command may be given, the executors or not.          *)
LEMMA PlanSide ==
  ASSUME NEW c, NEW op \in Ops, op[1] \in {"mirror", "consume", "report", "mark"}
  PROVE  Plannable(c, <<op>>) /\ NoTouch(<<op>>) /\ NoClose(<<op>>)
<1>1. OpOk(c, op) /\ ~Touches(op) /\ ~Closes(op) /\ op[1] # "putGraph"
  BY DEF OpOk, Touches, Closes, Side
<1> QED BY <1>1, PlanOne

(* The mission store.                                                      *)
LEMMA StoreKeeps ==
  ASSUME ExecInv, NEW c \in Commands,
         DoMove(c) \/ DoEnsure(c) \/ DoMirror(c) \/ DoReport(c)
  PROVE  ExecInv'
<1>0. Typed /\ WaitingIsAnswerable
  BY DEF ExecInv
<1>1. CASE DoMove(c)
  <2>1. Does(c, "move") /\ UNCHANGED <<yaml, graph, approvals, nodeEvents, world>>
    BY <1>1 DEF DoMove
  <2>2. Plannable(c, Rest(c)) /\ todo[c] # <<>> /\ OpOk(c, todo[c][1]) /\ todo[c][1] \in Ops
    BY <2>1, HeadFacts
  <2>3. CASE ~CanTransition(yaml.state, Arg(c))
    <3>1. Plan(c, <<>>)
      BY <1>1, <2>3 DEF DoMove, Throw
    <3> QED BY <2>1, <2>2, <3>1, Replans, PlanNothing
  <2>4. CASE CanTransition(yaml.state, Arg(c))
    <3> DEFINE late == IF Arg(c) = "completed" /\ ~yaml.report THEN <<Report>> ELSE <<>>
               y == [yaml EXCEPT !.state = Arg(c)]
    <3>1. Arg(c) \in States
      BY <2>1, <2>2, OpArgs DEF Arg, Does
    <3>2. y \in Yaml /\ y.state = Arg(c)
      BY <1>0, <3>1 DEF Typed, Yaml
    <3>3. Plan(c, <<PutYaml(y)>> \o late \o Rest(c))
      BY <1>1, <2>4 DEF DoMove
    <3>4. Arg(c) = Waiting => approvals # <<>>
      BY <2>1, <2>2 DEF OpOk, Arg, Does
    <3>5. Plannable(c, late) /\ NoTouch(late) /\ NoClose(late)
      BY OpsMade, PlanSide, PlanNothing DEF Report
    <3> HIDE DEF y, late
    <3>6. /\ Plannable(c, <<PutYaml(y)>>)
          /\ NoTouch(<<PutYaml(y)>>) /\ NoClose(<<PutYaml(y)>>)
      BY <3>2, <3>4, PlanPutYaml
    <3>7. Plannable(c, <<PutYaml(y)>> \o late) /\ NoClose(<<PutYaml(y)>> \o late)
      BY <3>5, <3>6, PlanJoined
    <3>8. Plannable(c, <<PutYaml(y)>> \o late \o Rest(c))
      BY <2>2, <3>7, PlanJoined
    <3> QED BY <2>1, <2>2, <3>3, <3>8, Replans
  <2> QED BY <2>3, <2>4
<1>2. CASE DoEnsure(c)
  <2>1. Does(c, "ensure") /\ UNCHANGED <<yaml, graph, approvals, nodeEvents, world>>
    BY <1>2 DEF DoEnsure
  <2>2. /\ Plannable(c, Rest(c)) /\ todo[c] # <<>> /\ OpOk(c, todo[c][1]) /\ todo[c][1] \in Ops
        /\ c \in Executors
    BY <2>1, HeadFacts DEF Side
  <2>3. Arg(c) \in States
    BY <2>1, <2>2, OpArgs DEF Arg, Does
  <2>4. Arg(c) = Waiting => approvals # <<>>
    BY <2>1, <2>2 DEF OpOk, Arg, Does
  <2>5. Move(Arg(c)) \in Ops /\ OpOk(c, Move(Arg(c)))
    BY <2>2, <2>3, <2>4, OpsMade DEF OpOk, Move, Touches
  <2>6. Move(Arg(c))[1] # "putGraph" /\ ~Closes(Move(Arg(c)))
    BY DEF Move, Closes
  <2>7. Plannable(c, <<Move(Arg(c))>> \o Rest(c))
    BY <2>2, <2>5, <2>6, PlanOne, PlanJoined
  <2>8. \E q \in {Rest(c), <<Move(Arg(c))>> \o Rest(c), <<>>} : Plan(c, q)
    BY <1>2 DEF DoEnsure
  <2> QED BY <2>1, <2>2, <2>7, <2>8, PlanNothing, Replans
<1>3. CASE DoMirror(c) \/ DoReport(c)
  <2> DEFINE listed == [yaml EXCEPT !.report = TRUE]
  <2>1. /\ Does(c, "mirror") \/ Does(c, "report")
        /\ UNCHANGED <<yaml, graph, approvals, nodeEvents, world>>
        /\ \E y \in {yaml, listed} : Plan(c, <<PutYaml(y)>> \o Rest(c))
    BY <1>3 DEF DoMirror, DoReport
  <2>2. PICK y \in {yaml, listed} : Plan(c, <<PutYaml(y)>> \o Rest(c))
    BY <2>1
  <2>3. Plannable(c, Rest(c)) /\ todo[c] # <<>>
    BY <2>1, HeadFacts
  <2>4. y \in Yaml /\ y.state = yaml.state
    BY <1>0, <2>2 DEF Typed, Yaml
  <2>5. Plannable(c, <<PutYaml(y)>>) /\ NoClose(<<PutYaml(y)>>)
    BY <1>0, <2>4, PlanPutYaml DEF WaitingIsAnswerable, Waiting
  <2>6. Plannable(c, <<PutYaml(y)>> \o Rest(c))
    BY <2>3, <2>5, PlanJoined
  <2> QED BY <2>1, <2>2, <2>3, <2>6, Replans
<1> QED BY <1>1, <1>2, <1>3

(* Looking at a node, and completing it.                                   *)
LEMMA NodesKeep ==
  ASSUME ExecInv, NEW c \in Commands, DoView(c) \/ DoComplete(c)
  PROVE  ExecInv'
<1>0. Typed /\ WaitingIsAnswerable
  BY DEF ExecInv
<1>1. Plannable(c, Sync) /\ NoClose(Sync)
  BY <1>0, PlanSync
<1> DEFINE work == IF graph[Arg(c)] = "completed" THEN <<>>
                   ELSE <<Status(Arg(c), "completed"), Note("completed", Arg(c))>>
<1>2. /\ Does(c, "view") \/ Does(c, "complete")
      /\ UNCHANGED <<yaml, graph, approvals, nodeEvents, world>>
      /\ \E w \in {NodeWork(Arg(c), graph[Arg(c)]), work} : Plan(c, Sync \o w \o Rest(c))
  BY DEF DoView, DoComplete
<1>3. /\ todo[c] # <<>> /\ todo[c][1] \in Ops /\ Plannable(c, Rest(c)) /\ c \in Executors
      /\ todo[c][1][1] \in {"view", "complete"}
      /\ Closes(todo[c][1]) => NoTouch(Rest(c))
  BY <1>2, HeadFacts DEF Side
<1>4. NoTouch(Rest(c)) /\ Arg(c) \in Nodes
  BY <1>3, OpArgs DEF Closes, Arg
<1>5. graph[Arg(c)] \in Statuses
  BY <1>0, <1>4 DEF Typed
<1>6. Plannable(c, NodeWork(Arg(c), graph[Arg(c)]))
  BY <1>3, <1>4, <1>5, PlanWork DEF Open
<1>7. Plannable(c, work)
  <2>1. Status(Arg(c), "completed") \in Ops
    BY <1>4, OpsMade DEF Statuses
  <2>2. /\ OpOk(c, Status(Arg(c), "completed")) /\ Status(Arg(c), "completed")[1] # "putGraph"
    BY <1>3 DEF OpOk, Status, Touches
  <2>3. Plannable(c, <<Status(Arg(c), "completed")>>)
    BY <2>1, <2>2, PlanOne
  <2>4. Plannable(c, <<Note("completed", Arg(c))>>) /\ NoTouch(<<Note("completed", Arg(c))>>)
    BY <1>3, <1>4, PlanNote
  <2>5. Plannable(c, <<Status(Arg(c), "completed"), Note("completed", Arg(c))>>)
    BY <2>3, <2>4, Paired, PlanJoined
  <2> QED BY <2>5, PlanNothing
<1> HIDE DEF work
<1>8. PICK w \in {NodeWork(Arg(c), graph[Arg(c)]), work} : Plan(c, Sync \o w \o Rest(c))
  BY <1>2
<1>9. Plannable(c, w)
  BY <1>6, <1>7, <1>8
<1>10. Plannable(c, Sync \o w)
  BY <1>1, <1>9, PlanJoined
<1>11. Plannable(c, Sync \o w \o Rest(c))
  BY <1>3, <1>4, <1>10, PlanJoined
<1> QED BY <1>2, <1>3, <1>8, <1>11, Replans

(* The work of a node.                                                     *)
LEMMA WorkKeeps ==
  ASSUME ExecInv, NEW c \in Commands,
         DoTool(c) \/ DoFailIfRunning(c) \/ ConsumeRuns(c) \/ ConsumeFails(c)
  PROVE  ExecInv'
<1>1. CASE DoTool(c)
  <2>1. /\ Does(c, "tool") /\ UNCHANGED <<yaml, graph, approvals, nodeEvents, world>>
        /\ \E q \in {Rest(c), FailNode(Arg(c), Arg2(c))} : Plan(c, q)
    BY <1>1 DEF DoTool
  <2>2. /\ todo[c] # <<>> /\ todo[c][1] \in Ops /\ todo[c][1][1] = "tool"
        /\ Plannable(c, Rest(c)) /\ c \in Executors /\ OpOk(c, todo[c][1])
    BY <2>1, HeadFacts DEF Side
  <2>3. Arg(c) \in Nodes
    BY <2>2, OpArgs DEF Arg
  <2>4. Open(Arg(c))
    BY <2>2 DEF OpOk, Touches, NodeOf, Open, Arg
  <2>5. Plannable(c, FailNode(Arg(c), Arg2(c)))
    BY <2>2, <2>3, <2>4, PlanFail
  <2> QED BY <2>1, <2>2, <2>5, Replans
<1>2. CASE DoFailIfRunning(c)
  <2>1. /\ Does(c, "failIfRunning") /\ UNCHANGED <<yaml, graph, approvals, nodeEvents, world>>
        /\ \E q \in {<<Move("failed")>>, <<>>} : Plan(c, q)
    BY <1>2 DEF DoFailIfRunning
  <2>2. todo[c] # <<>> /\ c \in Executors
    BY <2>1, HeadFacts DEF Side
  <2>3. Plannable(c, <<Move("failed")>>)
    BY <2>2, PlanEnsure, StatesKnown DEF Waiting
  <2> QED BY <2>1, <2>2, <2>3, PlanNothing, Replans
<1>3. CASE ConsumeRuns(c)
  <2>1. /\ Does(c, "consume") /\ UNCHANGED <<yaml, graph, approvals, nodeEvents, world>>
        /\ Plan(c, <<Report, Mark(Arg(c))>> \o Rest(c))
    BY <1>3 DEF ConsumeRuns
  <2>2. todo[c] # <<>> /\ todo[c][1] \in Ops /\ todo[c][1][1] = "consume" /\ Plannable(c, Rest(c))
    BY <2>1, HeadFacts
  <2>3. Arg(c) \in Nat
    BY <2>2, OpArgs DEF Arg
  <2>4. Report \in Ops /\ Mark(Arg(c)) \in Ops /\ Report[1] = "report" /\ Mark(Arg(c))[1] = "mark"
    BY <2>3, OpsMade DEF Report, Mark
  <2>5. /\ Plannable(c, <<Report>>) /\ NoClose(<<Report>>)
        /\ Plannable(c, <<Mark(Arg(c))>>) /\ NoClose(<<Mark(Arg(c))>>)
    BY <2>4, PlanSide
  <2>6. /\ Plannable(c, <<Report>> \o <<Mark(Arg(c))>>)
        /\ NoClose(<<Report>> \o <<Mark(Arg(c))>>)
    BY <2>5, PlanJoined
  <2>7. <<Report, Mark(Arg(c))>> = <<Report>> \o <<Mark(Arg(c))>>
    BY Paired
  <2>8. Plannable(c, <<Report, Mark(Arg(c))>> \o Rest(c))
    BY <2>2, <2>6, <2>7, PlanJoined
  <2> QED BY <2>1, <2>2, <2>8, Replans
<1>4. CASE ConsumeFails(c)
  <2>1. /\ todo[c] # <<>> /\ UNCHANGED <<yaml, graph, approvals, nodeEvents, world>>
        /\ Plan(c, <<>>)
    BY <1>4 DEF ConsumeFails, Throw, Does
  <2> QED BY <2>1, PlanNothing, Replans
<1> QED BY <1>1, <1>2, <1>3, <1>4

(* The approval node.                                                      *)
LEMMA GateKeeps ==
  ASSUME ExecInv, NEW c \in Commands, DoGate(c)
  PROVE  ExecInv'
<1> DEFINE close == <<Complete(ApprovalNode)>> \o Rest(c)
           asks == StartNode(ApprovalNode, Arg(c)) \o <<Request(Arg(c))>> \o Rest(c)
           waits == <<Ensure(Waiting)>> \o SetStatus(ApprovalNode, Arg(c), "blocked")
<1>0. Does(c, "gate") /\ UNCHANGED <<yaml, graph, approvals, nodeEvents, world>>
  BY DEF DoGate
<1>1. /\ todo[c] # <<>> /\ todo[c][1] \in Ops /\ todo[c][1][1] = "gate"
      /\ Plannable(c, Rest(c)) /\ c \in Executors /\ OpOk(c, todo[c][1])
      /\ Closes(todo[c][1]) => NoTouch(Rest(c))
  BY <1>0, HeadFacts DEF Side
<1>2. NoTouch(Rest(c)) /\ Open(ApprovalNode) /\ Arg(c) \in Statuses /\ ApprovalNode \in Nodes
  BY <1>1, OpArgs, NodesKnown DEF Closes, OpOk, Touches, NodeOf, Open, Arg
<1>3. approvals \in Seq({"pending", "approved", "denied", "executed"})
  BY DEF ExecInv, Typed
<1>4. Plannable(c, close) /\ NoTouch(close)
  BY <1>1, <1>2, PlanComplete, PlanJoined
<1>5. CASE Newest = "pending"
  <2>1. approvals # <<>>
    BY <1>5 DEF Newest
  <2>2. Plannable(c, <<Ensure(Waiting)>>) /\ NoClose(<<Ensure(Waiting)>>)
    BY <1>1, <2>1, PlanEnsure, StatesKnown DEF Waiting
  <2>3. Plannable(c, SetStatus(ApprovalNode, Arg(c), "blocked"))
    BY <1>1, <1>2, PlanSetStatus DEF Statuses
  <2>4. Plannable(c, waits)
    BY <2>2, <2>3, PlanJoined
  <2>5. Plan(c, waits)
    BY <1>5 DEF DoGate, Waiting
  <2> QED BY <1>0, <1>1, <2>4, <2>5, Replans
<1>6. CASE Newest # "pending" /\ Newest # "absent"
  <2> DEFINE again == <<Ensure("running")>>
             runs == <<Consume(Len(approvals))>>
  <2>1. Plannable(c, again) /\ NoTouch(again) /\ NoClose(again)
    BY <1>1, PlanEnsure, StatesKnown DEF Waiting
  <2>2. Consume(Len(approvals)) \in Ops /\ Consume(Len(approvals))[1] = "consume"
    BY <1>3, OpsMade DEF Consume
  <2>3. Plannable(c, runs) /\ NoTouch(runs) /\ NoClose(runs)
    BY <2>2, PlanSide
  <2> HIDE DEF close
  <2>4. <<Ensure("running"), Consume(Len(approvals))>> = again \o runs
    BY Paired
  <2> HIDE DEF again, runs
  <2>5. Plannable(c, again \o runs) /\ NoClose(again \o runs)
    BY <2>1, <2>3, PlanJoined
  <2>6. Plannable(c, again \o runs \o close) /\ Plannable(c, again \o close)
    BY <1>4, <2>1, <2>5, PlanJoined
  <2>7. Newest \in {"approved", "executed", "denied"}
    <3>1. approvals # <<>> /\ Newest = approvals[Len(approvals)]
      BY <1>6 DEF Newest
    <3>2. Len(approvals) \in 1..Len(approvals)
      BY <1>3, <3>1
    <3> QED BY <1>3, <1>6, <3>1, <3>2
  <2>8. \E q \in {again \o runs \o close, again \o close} : Plan(c, q)
    <3>1. CASE Newest = "approved"
      BY <2>4, <3>1 DEF DoGate, close
    <3>2. CASE Newest \in {"executed", "denied"}
      BY <3>2 DEF DoGate, close, again
    <3> QED BY <2>7, <3>1, <3>2
  <2> QED BY <1>0, <1>1, <2>6, <2>8, Replans
<1>7. CASE Newest = "absent"
  <2>1. approvals = <<>>
    <3> SUFFICES ASSUME approvals # <<>> PROVE FALSE
      OBVIOUS
    <3>1. Len(approvals) \in 1..Len(approvals)
      BY <1>3
    <3> QED BY <1>3, <1>7, <3>1 DEF Newest
  <2>2. Request(Arg(c)) \in Ops
    BY <1>2, OpsMade
  <2>3. OpOk(c, Request(Arg(c))) /\ Request(Arg(c))[1] # "putGraph"
    BY <1>1, <1>2, <2>1 DEF OpOk, Request, Touches, NodeOf, Open
  <2>4. Plannable(c, <<Request(Arg(c))>>)
    BY <2>2, <2>3, PlanOne
  <2>5. Plannable(c, StartNode(ApprovalNode, Arg(c)) \o <<Request(Arg(c))>>)
    BY <1>1, <1>2, <2>4, PlanStart, PlanJoined
  <2>6. Plannable(c, asks)
    BY <1>1, <1>2, <2>5, PlanJoined
  <2>7. Plan(c, asks)
    BY <1>7 DEF DoGate
  <2> QED BY <1>0, <1>1, <2>6, <2>7, Replans
<1> QED BY <1>5, <1>6, <1>7

(* The steps that change the ledger, or end a process.                     *)
LEMMA NoteDieKeep ==
  ASSUME ExecInv, NEW c \in Commands, DoNote(c) \/ Die(c)
  PROVE  ExecInv'
<1>1. /\ todo[c] # <<>> /\ UNCHANGED <<yaml, graph, approvals, plans, together>>
      /\ \E q \in {Rest(c), <<>>} : Plan(c, q)
  BY DEF DoNote, Die, Does, world
<1>2. Plannable(c, Rest(c))
  BY <1>1, PlanRest DEF ExecInv
<1>3. todo' \in [Commands -> Seq(Ops)] /\ Flights' /\ \A d \in Commands : QueueOk(d)'
  BY <1>1, <1>2, PlanNothing, Replanned
<1>4. nodeEvents' \subseteq {"started", "completed", "failed"} \X Nodes /\ deaths' \in 0..MaxDeaths
      /\ plans' = plans
  <2>1. CASE DoNote(c)
    <3>1. todo[c][1] \in Ops /\ todo[c][1][1] = "note"
      BY <2>1, HeadFacts DEF DoNote
    <3>2. Arg(c) \in {"started", "completed", "failed"} /\ Arg2(c) \in Nodes
      BY <3>1, OpArgs DEF Arg, Arg2
    <3> QED BY <2>1, <3>2 DEF DoNote, world, ExecInv, Typed
  <2>2. CASE Die(c)
    BY <2>2, ExecutionAssumption DEF Die, ExecInv, Typed
  <2> QED BY <2>1, <2>2
<1>5. Typed'
  BY <1>1, <1>3, <1>4 DEF ExecInv, Typed
<1>6. AskedOnce' /\ WaitingIsAnswerable'
  BY <1>1 DEF ExecInv, AskedOnce, WaitingIsAnswerable, serial
<1> QED BY <1>3, <1>5, <1>6 DEF ExecInv

(* A decision and the mark on an approval change no number of approvals.   *)
LEMMA DecisionsKeep ==
  ASSUME ExecInv, NEW c \in Commands, StartDecide(c) \/ DoMark(c)
  PROVE  ExecInv'
<1>0. approvals \in Seq({"pending", "approved", "denied", "executed"})
  BY DEF ExecInv, Typed
<1>1. /\ todo[c] # <<>> \/ MayStart(c)
      /\ UNCHANGED <<yaml, graph, nodeEvents, world>>
      /\ \E i \in Nat, s \in {"approved", "denied", "executed"} :
           /\ approvals' \in {approvals, [approvals EXCEPT ![i] = s]}
           /\ \/ \E q \in {<<Mirror, Consume(i)>>, <<Mirror>>, <<>>} : Plan(c, q)
              \/ todo[c] # <<>> /\ \E q \in {<<Mirror>> \o Rest(c), Rest(c)} : Plan(c, q)
  <2>1. CASE StartDecide(c)
    <3>1. PICK i \in DOMAIN approvals :
            \/ /\ approvals' = [approvals EXCEPT ![i] = "approved"]
               /\ Plan(c, <<Mirror, Consume(i)>>)
            \/ /\ approvals' = [approvals EXCEPT ![i] = "denied"]
               /\ Plan(c, <<Mirror>>)
      BY <2>1 DEF StartDecide
    <3>2. i \in Nat
      BY <1>0
    <3>3. MayStart(c) /\ UNCHANGED <<yaml, graph, nodeEvents, world>>
      BY <2>1 DEF StartDecide
    <3>4. CASE approvals' = [approvals EXCEPT ![i] = "approved"] /\ Plan(c, <<Mirror, Consume(i)>>)
      BY <3>2, <3>3, <3>4
    <3>5. CASE approvals' = [approvals EXCEPT ![i] = "denied"] /\ Plan(c, <<Mirror>>)
      BY <3>2, <3>3, <3>5
    <3> QED BY <3>1, <3>4, <3>5
  <2>2. CASE DoMark(c)
    <3>1. todo[c] # <<>> /\ todo[c][1] \in Ops /\ todo[c][1][1] = "mark"
      BY <2>2, HeadFacts DEF DoMark
    <3>2. Arg(c) \in Nat
      BY <3>1, OpArgs DEF Arg
    <3> QED BY <2>2, <3>1, <3>2 DEF DoMark
  <2> QED BY <2>1, <2>2
<1>2. PICK i \in Nat, s \in {"approved", "denied", "executed"} :
        /\ approvals' \in {approvals, [approvals EXCEPT ![i] = s]}
        /\ \/ \E q \in {<<Mirror, Consume(i)>>, <<Mirror>>, <<>>} : Plan(c, q)
           \/ todo[c] # <<>> /\ \E q \in {<<Mirror>> \o Rest(c), Rest(c)} : Plan(c, q)
  BY <1>1
<1>4. /\ approvals' \in Seq({"pending", "approved", "denied", "executed"})
      /\ Len(approvals') = Len(approvals)
  BY <1>0, <1>2
<1>5. (approvals' = <<>>) <=> (approvals = <<>>)
  BY <1>0, <1>4
<1>6. Mirror \in Ops /\ Consume(i) \in Ops /\ Mirror[1] = "mirror" /\ Consume(i)[1] = "consume"
  BY <1>2, OpsMade DEF Mirror, Consume
<1>7. /\ Plannable(c, <<Mirror>>) /\ NoTouch(<<Mirror>>) /\ NoClose(<<Mirror>>)
      /\ Plannable(c, <<Consume(i)>>)
  BY <1>6, PlanSide
<1>8. Plannable(c, <<Mirror, Consume(i)>>)
  BY <1>7, Paired, PlanJoined
<1>9. todo[c] # <<>> => Plannable(c, Rest(c)) /\ Plannable(c, <<Mirror>> \o Rest(c))
  BY <1>7, PlanRest, PlanJoined DEF ExecInv
<1>10. PICK q : Plannable(c, q) /\ Plan(c, q)
  BY <1>2, <1>7, <1>8, <1>9, PlanNothing
<1>11. graph' = graph /\ together' = together /\ yaml' = yaml /\ nodeEvents' = nodeEvents
      /\ deaths' = deaths /\ plans' = plans
  BY <1>1 DEF world
<1>12. todo' \in [Commands -> Seq(Ops)] /\ Flights' /\ \A d \in Commands : QueueOk(d)'
  BY <1>1, <1>5, <1>10, <1>11, Replanned
<1>13. Typed'
  BY <1>4, <1>11, <1>12 DEF ExecInv, Typed
<1>14. AskedOnce' /\ WaitingIsAnswerable'
  BY <1>4, <1>5, <1>11 DEF ExecInv, AskedOnce, WaitingIsAnswerable, serial
<1> QED BY <1>12, <1>13, <1>14 DEF ExecInv

(* runTool for the report: a request that is stored is the first one when  *)
(* one command runs at a time, and the others have nothing left to do.     *)
LEMMA RequestKeeps ==
  ASSUME ExecInv, NEW c \in Commands, DoRequest(c)
  PROVE  ExecInv'
<1>0. Does(c, "request") /\ UNCHANGED <<yaml, graph, nodeEvents, world>>
  BY DEF DoRequest
<1>1. /\ todo[c] # <<>> /\ todo[c][1] \in Ops /\ todo[c][1][1] = "request"
      /\ Plannable(c, Rest(c)) /\ c \in Executors /\ OpOk(c, todo[c][1])
      /\ Closes(todo[c][1]) => NoTouch(Rest(c))
  BY <1>0, HeadFacts DEF Side
<1>2. NoTouch(Rest(c)) /\ Open(ApprovalNode) /\ ApprovalNode \in Nodes
  BY <1>1, NodesKnown DEF Closes, OpOk, Touches, NodeOf, Open
<1>3. CASE Plan(c, <<Report, Complete(ApprovalNode)>> \o Rest(c)) /\ UNCHANGED approvals
  <2>1. Plannable(c, <<Report>>)
    BY OpsMade, PlanSide DEF Report
  <2>2. Plannable(c, <<Complete(ApprovalNode)>>) /\ NoTouch(<<Complete(ApprovalNode)>>)
    BY <1>1, <1>2, PlanComplete
  <2>3. Plannable(c, <<Report, Complete(ApprovalNode)>>)
    BY <2>1, <2>2, Paired, PlanJoined
  <2>4. Plannable(c, <<Report, Complete(ApprovalNode)>> \o Rest(c))
    BY <1>1, <1>2, <2>3, PlanJoined
  <2> QED BY <1>0, <1>1, <1>3, <2>4, Replans
<1>4. CASE Plan(c, FailNode(ApprovalNode, Arg(c))) /\ UNCHANGED approvals
  <2>1. Plannable(c, FailNode(ApprovalNode, Arg(c)))
    BY <1>1, <1>2, PlanFail
  <2> QED BY <1>0, <1>1, <1>4, <2>1, Replans
<1>5. CASE /\ Plan(c, <<Mirror>> \o SetStatus(ApprovalNode, Arg(c), "blocked")
                      \o <<Ensure("waiting_for_approval")>>)
           /\ approvals' = Append(approvals, "pending")
  <2>19. PICK old, wait : /\ old = SetStatus(ApprovalNode, Arg(c), "blocked")
                         /\ wait = Ensure("waiting_for_approval")
    OBVIOUS
  <2>20. PICK q : q = <<Mirror>> \o old \o <<wait>>
    OBVIOUS
  <2>1. approvals \in Seq({"pending", "approved", "denied", "executed"}) /\ todo \in [Commands -> Seq(Ops)]
    BY DEF ExecInv, Typed
  <2>2. /\ approvals' \in Seq({"pending", "approved", "denied", "executed"})
        /\ approvals' # <<>> /\ Len(approvals') = Len(approvals) + 1
    <3>1. "pending" \in {"pending", "approved", "denied", "executed"}
      OBVIOUS
    <3>2. approvals' = Append(approvals, "pending")
      BY <1>5
    <3> QED BY <2>1, <3>1, <3>2, AppendProperties
  <2>3. graph' = graph /\ together' = together /\ yaml' = yaml /\ nodeEvents' = nodeEvents
      /\ deaths' = deaths /\ plans' = plans
    BY <1>0 DEF world
  <2>4. serial => approvals = <<>>
    BY <1>1 DEF OpOk
  <2>5. /\ Plannable(c, <<Mirror>>) /\ NoClose(<<Mirror>>)
    BY OpsMade, PlanSide DEF Mirror
  <2>6. Plannable(c, old) /\ NoClose(old)
    BY <1>1, <1>2, <2>19, PlanSetStatus DEF Statuses
  <2>7. Plannable(c, <<Mirror>> \o old) /\ NoClose(<<Mirror>> \o old)
    BY <2>5, <2>6, PlanJoined
  <2>15. \A i \in DOMAIN (<<Mirror>> \o old) : (<<Mirror>> \o old)[i][1] \in {"mirror", "status"}
    <3>1. <<Mirror>>[1][1] = "mirror" /\ DOMAIN <<Mirror>> = {1}
      BY DEF Mirror
    <3>2. \A i \in DOMAIN old : old[i][1] = "status"
      BY <2>19 DEF SetStatus, Status
    <3>3. <<Mirror>> \in Seq(Ops) /\ old \in Seq(Ops)
      BY <2>5, <2>6 DEF Plannable
    <3>4. \A i \in DOMAIN (<<Mirror>> \o old) :
             \/ \E j \in DOMAIN <<Mirror>> : (<<Mirror>> \o old)[i] = <<Mirror>>[j]
             \/ \E j \in DOMAIN old : (<<Mirror>> \o old)[i] = old[j]
      BY <3>3, Joined
    <3> QED BY <3>1, <3>2, <3>4
  <2>8. wait \in Ops /\ wait[1] = "ensure" /\ ~Touches(wait)
    BY <2>19, OpsMade, StatesKnown DEF Ensure, Touches
  <2>9. /\ q \in Seq(Ops) /\ Ordered(q)
        /\ \A i \in DOMAIN q : q[i] = wait \/ (OpOk(c, q[i]) /\ q[i][1] \in {"mirror", "status"})
    <3>1. <<wait>> \in Seq(Ops) /\ NoTouch(<<wait>>) /\ Ordered(<<wait>>)
      BY <2>8 DEF NoTouch, Ordered
    <3>2. <<Mirror>> \o old \in Seq(Ops) /\ Ordered(<<Mirror>> \o old)
      BY <2>7 DEF Plannable
    <3> DEFINE s == <<Mirror>> \o old
    <3>3. q = s \o <<wait>>
      BY <2>20
    <3>4. \A i \in DOMAIN s : OpOk(c, s[i]) /\ s[i][1] \in {"mirror", "status"}
      BY <2>7, <2>15 DEF Plannable
    <3>5. \A i \in DOMAIN <<wait>> : <<wait>>[i] = wait
      OBVIOUS
    <3> HIDE DEF s
    <3>6. q \in Seq(Ops) /\ Ordered(q)
      BY <3>1, <3>2, <3>3, Joined DEF s
    <3>7. \A i \in DOMAIN q : (\E j \in DOMAIN s : q[i] = s[j])
                              \/ (\E j \in DOMAIN <<wait>> : q[i] = <<wait>>[j])
      BY <3>1, <3>2, <3>3, Joined DEF s
    <3> QED BY <3>4, <3>5, <3>6, <3>7
  <2>10. todo' \in [Commands -> Seq(Ops)] /\ todo'[c] = q /\ \A d \in Commands : d # c => todo'[d] = todo[d]
    BY <1>5, <2>1, <2>9, <2>19, <2>20 DEF Plan
  <2>11. ASSUME NEW d \in Commands, NEW op, OpOk(d, op), ~serial \/ op[1] # "request"
         PROVE  OpOk(d, op)'
    BY <2>2, <2>3, <2>11 DEF OpOk, serial, OneExecutor
  <2>12. OpOk(c, wait)'
    BY <1>1, <2>2, <2>8 DEF OpOk, Touches
  <2>13. QueueOk(c)'
    <3>1. ASSUME NEW i \in DOMAIN q PROVE OpOk(c, q[i])' /\ q[i][1] # "putGraph"
      <4>1. CASE q[i] = wait
        BY <2>8, <2>12, <4>1
      <4>2. CASE OpOk(c, q[i]) /\ q[i][1] \in {"mirror", "status"}
        BY <2>11, <4>2
      <4> QED BY <2>9, <4>1, <4>2
    <3> QED BY <2>9, <2>10, <3>1 DEF QueueOk
  <2>14. ASSUME NEW d \in Commands, d # c PROVE QueueOk(d)'
    <3>1. QueueOk(d) /\ todo'[d] = todo[d]
      BY <2>10, <2>14 DEF ExecInv
    <3>2. ~serial \/ todo[d] = <<>>
      BY <1>1, <2>14 DEF ExecInv, Flights, InFlight
    <3>3. \A i \in DOMAIN todo[d] : OpOk(d, todo[d][i])'
      <4>1. CASE todo[d] = <<>>
        BY <4>1
      <4>2. CASE ~serial
        BY <2>11, <3>1, <4>2 DEF QueueOk
      <4> QED BY <3>2, <4>1, <4>2
    <3> QED BY <2>3, <3>1, <3>3 DEF QueueOk, Fresh, OneExecutor
  <2>16. Flights'
    <3>1. InFlight' \subseteq InFlight
      BY <1>1, <2>10 DEF InFlight
    <3> QED BY <2>3, <3>1 DEF ExecInv, Flights, serial
  <2>17. Typed'
    BY <2>2, <2>3, <2>10 DEF ExecInv, Typed
  <2>18. AskedOnce' /\ WaitingIsAnswerable'
    <3>1. serial => Len(approvals') = 1
      BY <2>2, <2>4
    <3> QED BY <2>2, <2>3, <3>1 DEF AskedOnce, WaitingIsAnswerable, serial
  <2> QED BY <2>13, <2>14, <2>16, <2>17, <2>18 DEF ExecInv
<1> QED BY <1>3, <1>4, <1>5 DEF DoRequest

(* An update of a node's status.                                           *)
(* The node an operation may give another status is one of the plan's.     *)
LEMMA TouchedNode ==
  ASSUME NEW op \in Ops, Touches(op)
  PROVE  NodeOf(op) \in Nodes
  BY OpArgs, NodesKnown DEF Touches, NodeOf

LEMMA StatusKeeps ==
  ASSUME ExecInv, NEW c \in Commands, DoStatus(c)
  PROVE  ExecInv'
<1>0. Does(c, "status") /\ UNCHANGED <<yaml, graph, approvals, nodeEvents, world>>
  BY DEF DoStatus
<1>1. /\ todo[c] # <<>> /\ todo[c][1] \in Ops /\ todo[c][1][1] = "status"
      /\ Plannable(c, Rest(c)) /\ c \in Executors /\ OpOk(c, todo[c][1])
      /\ Closes(todo[c][1]) => NoTouch(Rest(c))
  BY <1>0, HeadFacts DEF Side
<1>2. Arg(c) \in Nodes /\ Arg2(c) \in Statuses
  BY <1>1, OpArgs DEF Arg, Arg2
<1>3. /\ Arg2(c) = "completed" => NoTouch(Rest(c))
      /\ Arg2(c) # "completed" => Open(Arg(c))
  BY <1>1 DEF Closes, OpOk, Touches, NodeOf, Open, Arg, Arg2
<1>4. Typed /\ WaitingIsAnswerable
  BY DEF ExecInv
<1>5. PICK g : g = [graph EXCEPT ![Arg(c)] = Arg2(c)]
  OBVIOUS
<1>6. g \in [Nodes -> Statuses]
  BY <1>2, <1>4, <1>5 DEF Typed
<1>7. PICK y : y = [yaml EXCEPT !.graph = g]
  OBVIOUS
<1>8. y \in Yaml /\ y.state = yaml.state
  BY <1>4, <1>6, <1>7 DEF Typed, Yaml
<1>9. Plannable(c, <<PutYaml(y)>>) /\ NoTouch(<<PutYaml(y)>>) /\ NoClose(<<PutYaml(y)>>)
  BY <1>4, <1>8, PlanPutYaml DEF WaitingIsAnswerable, Waiting
<1>10. PICK t : t = <<PutYaml(y)>> \o Rest(c)
  OBVIOUS
<1>11. Plannable(c, t) /\ (NoTouch(Rest(c)) => NoTouch(t))
  BY <1>1, <1>9, <1>10, PlanJoined
<1>12. PICK q : q = <<PutGraph(g)>> \o t
  OBVIOUS
<1>13. Plan(c, q)
  <2>1. Plan(c, <<PutGraph(g), PutYaml(y)>> \o Rest(c))
    BY <1>5, <1>7 DEF DoStatus
  <2>2. <<PutGraph(g), PutYaml(y)>> = <<PutGraph(g)>> \o <<PutYaml(y)>>
    BY Paired
  <2>3. Rest(c) \in Seq(Ops) /\ <<PutYaml(y)>> \in Seq(Ops) /\ <<PutGraph(g)>> \in Seq(Ops)
    BY <1>1, <1>6, <1>9, OpsMade DEF Plannable
  <2>4. (<<PutGraph(g)>> \o <<PutYaml(y)>>) \o Rest(c) = <<PutGraph(g)>> \o (<<PutYaml(y)>> \o Rest(c))
    BY <2>3, ConcatAssociative
  <2> QED BY <1>10, <1>12, <2>1, <2>2, <2>4
<1>14. PutGraph(g) \in Ops /\ PutGraph(g)[1] = "putGraph" /\ PutGraph(g)[2] = g
  BY <1>6, OpsMade DEF PutGraph
<1>15. /\ q \in Seq(Ops) /\ q # <<>> /\ q[1] = PutGraph(g) /\ Tail(q) = t
       /\ \A i \in DOMAIN q : i = 1 \/ (i - 1 \in DOMAIN t /\ q[i] = t[i - 1] /\ 1 < i)
       /\ \A i \in DOMAIN q : i \in Nat
  BY <1>11, <1>12, <1>14 DEF Plannable
<1>16. OpOk(c, PutGraph(g)) /\ ~Closes(PutGraph(g)) /\ ~Touches(PutGraph(g))
  BY <1>1, <1>14 DEF OpOk, Closes, Touches
<1>17. \A i \in DOMAIN q : OpOk(c, q[i]) /\ (q[i][1] = "putGraph" => i = 1)
  BY <1>11, <1>15, <1>16 DEF Plannable
<1>18. Ordered(q)
  <2> SUFFICES ASSUME NEW i \in DOMAIN q, NEW j \in DOMAIN q, j < i, Closes(q[j])
               PROVE  ~Touches(q[i])
    BY DEF Ordered
  <2>1. j # 1 /\ i # 1
    BY <1>15, <1>16
  <2>2. i - 1 \in DOMAIN t /\ j - 1 \in DOMAIN t /\ j - 1 < i - 1 /\ q[i] = t[i - 1] /\ q[j] = t[j - 1]
    BY <1>15, <2>1
  <2> QED BY <1>11, <2>2 DEF Plannable, Ordered
<1>19. Fresh(c, q)
  <2> SUFFICES ASSUME OneExecutor
               PROVE  /\ \A n \in Nodes : graph[n] = "completed" => g[n] = "completed"
                      /\ \A i \in DOMAIN t : Touches(t[i]) => g[NodeOf(t[i])] # "completed"
    BY <1>14, <1>15 DEF Fresh
  <2>1. \A n \in Nodes : g[n] = IF n = Arg(c) THEN Arg2(c) ELSE graph[n]
    BY <1>4, <1>5 DEF Typed
  <2>2. CASE Arg2(c) = "completed"
    BY <1>3, <1>11, <2>1, <2>2 DEF NoTouch
  <2>3. CASE Arg2(c) # "completed"
    <3>1. graph[Arg(c)] # "completed"
      BY <1>3, <2>3 DEF Open
    <3>2. ASSUME NEW i \in DOMAIN t, Touches(t[i]) PROVE g[NodeOf(t[i])] # "completed"
      <4>1. OpOk(c, t[i]) /\ t[i] \in Ops
        BY <1>11 DEF Plannable
      <4>2. graph[NodeOf(t[i])] # "completed" /\ NodeOf(t[i]) \in Nodes
        BY <3>2, <4>1, TouchedNode DEF OpOk
      <4> QED BY <2>1, <2>3, <4>2
    <3> QED BY <2>1, <3>1, <3>2
  <2> QED BY <2>2, <2>3
<1>20. graph' = graph /\ together' = together /\ approvals' = approvals /\ yaml' = yaml
       /\ nodeEvents' = nodeEvents /\ deaths' = deaths /\ plans' = plans
  BY <1>0 DEF world
<1>21. todo' \in [Commands -> Seq(Ops)] /\ todo'[c] = q /\ \A d \in Commands : d # c => todo'[d] = todo[d]
  BY <1>4, <1>13, <1>15 DEF Plan, Typed
<1>22. ASSUME NEW d \in Commands PROVE QueueOk(d)'
  <2>1. \A op : OpOk(d, op) => OpOk(d, op)'
    BY <1>20 DEF OpOk, serial, OneExecutor
  <2>2. PICK r : r = todo'[d]
    OBVIOUS
  <2>3. /\ \A i \in DOMAIN r : OpOk(d, r[i])
        /\ Ordered(r)
        /\ \A i \in DOMAIN r : r[i][1] = "putGraph" => i = 1 /\ Fresh(d, r)
    <3>1. CASE d = c
      BY <1>17, <1>18, <1>19, <1>21, <2>2, <3>1
    <3>2. CASE d # c
      BY <1>21, <2>2, <3>2 DEF ExecInv, QueueOk
    <3> QED BY <3>1, <3>2
  <2>4. \A i \in DOMAIN r : OpOk(d, r[i])'
    BY <2>1, <2>3
  <2>5. Fresh(d, r) => Fresh(d, r)'
    BY <1>20 DEF Fresh, OneExecutor
  <2> QED BY <2>2, <2>3, <2>4, <2>5 DEF QueueOk
<1>23. Flights'
  <2>1. InFlight' \subseteq InFlight
    BY <1>1, <1>21 DEF InFlight
  <2> QED BY <1>20, <2>1 DEF ExecInv, Flights, serial
<1>24. Typed'
  BY <1>20, <1>21 DEF ExecInv, Typed
<1>25. AskedOnce' /\ WaitingIsAnswerable'
  BY <1>20 DEF ExecInv, AskedOnce, WaitingIsAnswerable, serial
<1> QED BY <1>22, <1>23, <1>24, <1>25 DEF ExecInv

(* A planner is given a graph without a completed node, which it writes    *)
(* over whatever is there.                                                 *)
LEMMA PlannerKeeps ==
  ASSUME ExecInv, NEW c \in Commands, StartPlan(c)
  PROVE  ExecInv'
<1>1. Typed /\ WaitingIsAnswerable
  BY DEF ExecInv
<1>2. FreshPlan \in [Nodes -> Statuses] /\ \A n \in Nodes : FreshPlan[n] # "completed"
  BY DEF FreshPlan, Statuses
<1>3. PICK y : y = [yaml EXCEPT !.graph = FreshPlan]
  OBVIOUS
<1>4. y \in Yaml /\ y.state = yaml.state
  BY <1>1, <1>2, <1>3 DEF Typed, Yaml
<1>5. Plannable(c, <<PutYaml(y)>>) /\ NoTouch(<<PutYaml(y)>>) /\ NoClose(<<PutYaml(y)>>)
  BY <1>1, <1>4, PlanPutYaml DEF WaitingIsAnswerable, Waiting
<1>6. OpOk(c, PutYaml(y)) /\ PutYaml(y) \in Ops
  BY <1>5 DEF Plannable
<1>7. PutYaml(y)[1] = "putYaml" /\ ~Touches(PutYaml(y)) /\ ~Closes(PutYaml(y))
  BY DEF PutYaml, Touches, Closes
<1>8. PICK w : w = PutYaml(y)
  OBVIOUS
<1>9. PICK v : v = PutGraph(FreshPlan)
  OBVIOUS
<1>10. v \in Ops /\ v[1] = "putGraph" /\ v[2] = FreshPlan /\ ~Touches(v) /\ ~Closes(v)
  BY <1>2, <1>9, OpsMade DEF PutGraph, Touches, Closes
<1>11. PICK q : q = <<v, w>>
  OBVIOUS
<1>12. q \in Seq(Ops) /\ DOMAIN q = {1, 2} /\ q[1] = v /\ q[2] = w /\ Tail(q) = <<w>>
  BY <1>6, <1>8, <1>10, <1>11
<1>13. graph' = graph /\ together' = together /\ approvals' = approvals /\ yaml' = yaml
       /\ nodeEvents' = nodeEvents /\ deaths' = deaths /\ MayStart(c) /\ Plan(c, q)
  BY <1>3, <1>8, <1>9, <1>11 DEF StartPlan
<1>14. plans' \in 0..MaxPlans /\ plans' # 0
  BY <1>1, ExecutionAssumption DEF StartPlan, Typed
<1>15. todo' \in [Commands -> Seq(Ops)] /\ todo'[c] = q
       /\ \A d \in Commands : d # c => todo'[d] = todo[d]
  BY <1>1, <1>12, <1>13 DEF Plan, Typed
<1>16. \A d \in Commands : \A op : OpOk(d, op) => OpOk(d, op)'
  BY <1>13, <1>14 DEF OpOk, serial, OneExecutor
<1>17. \A d \in Commands : \A r : Fresh(d, r) => Fresh(d, r)'
  BY <1>13, <1>14 DEF Fresh, OneExecutor
<1>18. OpOk(c, v)'
  BY <1>9, <1>10, <1>14 DEF OpOk, StartPlan
<1>19. Fresh(c, q)'
  BY <1>7, <1>8, <1>12, <1>14 DEF Fresh, StartPlan
<1>20. Ordered(q) /\ \A i \in DOMAIN q : OpOk(c, q[i])' /\ (q[i][1] = "putGraph" => i = 1)
  BY <1>6, <1>7, <1>8, <1>10, <1>12, <1>16, <1>18 DEF Ordered
<1>21. ASSUME NEW d \in Commands PROVE QueueOk(d)'
  <2>1. PICK r : r = todo'[d]
    OBVIOUS
  <2>2. /\ \A i \in DOMAIN r : OpOk(d, r[i])'
        /\ Ordered(r)
        /\ \A i \in DOMAIN r : r[i][1] = "putGraph" => i = 1 /\ Fresh(d, r)'
    <3>1. CASE d = c
      BY <1>15, <1>19, <1>20, <2>1, <3>1
    <3>2. CASE d # c
      BY <1>15, <1>16, <1>17, <2>1, <3>2 DEF ExecInv, QueueOk
    <3> QED BY <3>1, <3>2
  <2> QED BY <2>1, <2>2 DEF QueueOk
<1>22. Flights'
  <2>1. InFlight' \subseteq InFlight \union {c}
    BY <1>15 DEF InFlight
  <2> QED BY <1>13, <2>1 DEF ExecInv, Flights, serial, MayStart
<1>23. Typed'
  BY <1>13, <1>14, <1>15 DEF ExecInv, Typed
<1>24. AskedOnce' /\ WaitingIsAnswerable'
  BY <1>13 DEF ExecInv, AskedOnce, WaitingIsAnswerable, serial
<1> QED BY <1>21, <1>22, <1>23, <1>24 DEF ExecInv

(* A command whose next operation writes graph.json is the only executor   *)
(* under way where no two are, or a planner that completes no node.        *)
LEMMA OneWriter ==
  ASSUME ExecInv, NEW c \in Commands, DoPutGraph(c), OneExecutor,
         NEW d \in Commands, d # c, NEW i \in DOMAIN todo[d]
  PROVE  \/ Arg(c) = FreshPlan
         \/ ~Touches(todo[d][i]) /\ (todo[d][i][1] = "putGraph" => d \in Planners /\ plans # 0)
<1>1. todo[c] # <<>> /\ OpOk(c, todo[c][1]) /\ todo[c][1][1] = "putGraph"
  BY HeadFacts DEF DoPutGraph
<1>2. CASE c \notin Executors
  BY <1>1, <1>2 DEF OpOk, Side, PutGraph, Arg
<1>3. CASE c \in Executors
  <2>1. d \notin Executors
    <3>1. c \in InFlight /\ d \in InFlight
      BY <1>1 DEF InFlight
    <3> QED BY <1>3, <3>1 DEF ExecInv, Flights, OneExecutor, serial
  <2>2. OpOk(d, todo[d][i])
    BY DEF ExecInv, QueueOk
  <2> QED BY <2>1, <2>2 DEF OpOk, Side, Touches, PutGraph
<1> QED BY <1>2, <1>3

LEMMA PutGraphKeeps ==
  ASSUME ExecInv, NEW c \in Commands, DoPutGraph(c)
  PROVE  ExecInv'
<1>0. Does(c, "putGraph")
  BY DEF DoPutGraph
<1>1. /\ todo[c] # <<>> /\ todo[c] \in Seq(Ops) /\ todo[c][1] \in Ops /\ todo[c][1][1] = "putGraph"
      /\ Plannable(c, Rest(c))
  BY <1>0, HeadFacts
<1>2. Arg(c) \in [Nodes -> Statuses] /\ graph' = Arg(c) /\ Plan(c, Rest(c))
  BY <1>1, OpArgs DEF DoPutGraph, Arg
<1>3. together' = together /\ approvals' = approvals /\ yaml' = yaml /\ nodeEvents' = nodeEvents
      /\ deaths' = deaths /\ plans' = plans
  BY DEF DoPutGraph, world
<1>4. OneExecutor =>
        \A i \in DOMAIN Rest(c) : Touches(Rest(c)[i]) => graph'[NodeOf(Rest(c)[i])] # "completed"
  <2>1. 1 \in DOMAIN todo[c]
    BY <1>1
  <2> QED BY <1>1, <1>2, <2>1 DEF ExecInv, QueueOk, Fresh, Rest, Arg
<1>5. /\ todo' \in [Commands -> Seq(Ops)] /\ todo'[c] = Rest(c)
      /\ \A d \in Commands : d # c => todo'[d] = todo[d]
  BY <1>1, <1>2 DEF Plan, ExecInv, Typed, Plannable
<1>6. OneExecutor' = OneExecutor /\ serial' = serial
  BY <1>3 DEF OneExecutor, serial
<1>7. ASSUME NEW d \in Commands, NEW op \in Ops, OpOk(d, op),
             OneExecutor /\ Touches(op) => graph'[NodeOf(op)] # "completed"
      PROVE  OpOk(d, op)'
  BY <1>3, <1>6, <1>7 DEF OpOk
<1>8. QueueOk(c)'
  <2>1. PICK r : r = Rest(c)
    OBVIOUS
  <2>2. /\ r \in Seq(Ops) /\ Ordered(r)
        /\ \A i \in DOMAIN r : OpOk(c, r[i]) /\ r[i][1] # "putGraph" /\ r[i] \in Ops
    BY <1>1, <2>1 DEF Plannable
  <2>3. \A i \in DOMAIN r : OpOk(c, r[i])'
    BY <1>4, <1>7, <2>1, <2>2
  <2> QED BY <1>5, <2>1, <2>2, <2>3 DEF QueueOk
<1>9. ASSUME NEW d \in Commands, d # c PROVE QueueOk(d)'
  <2>1. PICK r : r = todo[d]
    OBVIOUS
  <2>2. /\ r \in Seq(Ops) /\ Ordered(r)
        /\ \A i \in DOMAIN r : OpOk(d, r[i]) /\ r[i] \in Ops
                               /\ (r[i][1] = "putGraph" => i = 1 /\ Fresh(d, r))
    BY <2>1 DEF ExecInv, Typed, QueueOk
  <2>3. \A i \in DOMAIN r :
          OneExecutor => \/ Arg(c) = FreshPlan
                         \/ ~Touches(r[i]) /\ (r[i][1] = "putGraph" => d \in Planners /\ plans # 0)
    BY <1>9, <2>1, OneWriter
  <2>4. Arg(c) = FreshPlan => \A n \in Nodes : graph'[n] # "completed"
    BY <1>2 DEF FreshPlan
  <2>5. ASSUME NEW i \in DOMAIN r, OneExecutor, Touches(r[i])
        PROVE  graph'[NodeOf(r[i])] # "completed"
    BY <2>2, <2>3, <2>4, <2>5, TouchedNode
  <2>6. \A i \in DOMAIN r : OpOk(d, r[i])'
    BY <1>7, <2>2, <2>5
  <2>7. ASSUME NEW i \in DOMAIN r, r[i][1] = "putGraph" PROVE Fresh(d, r)'
    <3>1. OneExecutor => (d \in Planners /\ plans # 0) \/ \A n \in Nodes : graph'[n] # "completed"
      BY <2>3, <2>4, <2>7
    <3>2. Fresh(d, r)
      BY <2>2, <2>7
    <3> QED BY <1>3, <1>6, <3>1, <3>2 DEF Fresh
  <2>8. todo'[d] = r
    BY <1>5, <1>9, <2>1
  <2> QED BY <2>2, <2>6, <2>7, <2>8 DEF QueueOk
<1>10. Flights'
  <2>1. InFlight' \subseteq InFlight
    BY <1>1, <1>5 DEF InFlight
  <2> QED BY <1>3, <2>1 DEF ExecInv, Flights, serial
<1>11. Typed'
  BY <1>2, <1>3, <1>5 DEF ExecInv, Typed
<1>12. AskedOnce' /\ WaitingIsAnswerable'
  BY <1>3 DEF ExecInv, AskedOnce, WaitingIsAnswerable, serial
<1> QED BY <1>8, <1>9, <1>10, <1>11, <1>12 DEF ExecInv

LEMMA PutYamlKeeps ==
  ASSUME ExecInv, NEW c \in Commands, DoPutYaml(c)
  PROVE  ExecInv'
<1>0. Does(c, "putYaml")
  BY DEF DoPutYaml
<1>1. /\ todo[c] # <<>> /\ todo[c][1] \in Ops /\ todo[c][1][1] = "putYaml" /\ OpOk(c, todo[c][1])
      /\ Plannable(c, Rest(c))
  BY <1>0, HeadFacts
<1>2. Arg(c) \in Yaml /\ yaml' = Arg(c) /\ Plan(c, Rest(c))
  BY <1>1, OpArgs DEF DoPutYaml, Arg
<1>3. graph' = graph /\ together' = together /\ approvals' = approvals /\ nodeEvents' = nodeEvents
      /\ deaths' = deaths /\ plans' = plans
  BY DEF DoPutYaml, world
<1>4. todo' \in [Commands -> Seq(Ops)] /\ Flights' /\ \A d \in Commands : QueueOk(d)'
  BY <1>1, <1>2, <1>3, Replanned
<1>5. Typed'
  BY <1>2, <1>3, <1>4 DEF ExecInv, Typed
<1>6. AskedOnce' /\ WaitingIsAnswerable'
  BY <1>1, <1>2, <1>3 DEF ExecInv, AskedOnce, WaitingIsAnswerable, serial, OpOk, Arg, Waiting
<1> QED BY <1>4, <1>5, <1>6 DEF ExecInv
-----------------------------------------------------------------------------
LEMMA ExecInit ==
  ASSUME Init
  PROVE  ExecInv
<1>1. Typed
  <2>1. yaml \in Yaml /\ graph \in [Nodes -> Statuses]
    BY StatesKnown DEF Init, FreshPlan, Yaml, Statuses
  <2> QED BY <2>1, ExecutionAssumption DEF Init, Typed
<1>2. \A c \in Commands : todo[c] = <<>>
  BY DEF Init
<1>3. Flights /\ \A c \in Commands : QueueOk(c)
  BY <1>2 DEF Flights, InFlight, QueueOk, Ordered
<1>4. AskedOnce /\ WaitingIsAnswerable
  BY DEF Init, AskedOnce, WaitingIsAnswerable
<1> QED BY <1>1, <1>3, <1>4 DEF ExecInv

LEMMA ExecNext ==
  ASSUME ExecInv, [Next]_vars
  PROVE  ExecInv'
<1>1. CASE UNCHANGED vars
  <2>1. /\ yaml' = yaml /\ graph' = graph /\ together' = together /\ approvals' = approvals
        /\ nodeEvents' = nodeEvents /\ deaths' = deaths /\ plans' = plans /\ todo' = todo
    BY <1>1 DEF vars, world
  <2>2. \A c \in Commands : QueueOk(c)'
    BY <2>1 DEF ExecInv, QueueOk, OpOk, Fresh, OneExecutor, serial
  <2>3. Flights' /\ Typed'
    BY <2>1 DEF ExecInv, Flights, Typed, InFlight, serial
  <2>4. AskedOnce' /\ WaitingIsAnswerable'
    BY <2>1 DEF ExecInv, AskedOnce, WaitingIsAnswerable, serial
  <2> QED BY <2>2, <2>3, <2>4 DEF ExecInv
<1>2. ASSUME NEW c \in Commands, Start(c) \/ Step(c) \/ Die(c) PROVE ExecInv'
  <2>1. CASE Start(c) \/ Die(c)
    BY <2>1, StartsKeep, PlannerKeeps, DecisionsKeep, NoteDieKeep DEF Start
  <2>2. CASE Step(c)
    BY <2>2, StoreKeeps, NodesKeep, WorkKeeps, GateKeeps, RequestKeeps, DecisionsKeep, NoteDieKeep,
       StatusKeeps, PutGraphKeeps, PutYamlKeeps DEF Step
  <2> QED BY <1>2, <2>1, <2>2
<1> QED BY <1>1, <1>2 DEF Next

LEMMA ExecInvariant == Spec => []ExecInv
<1>1. Init => ExecInv
  BY ExecInit
<1>2. ExecInv /\ [Next]_vars => ExecInv'
  BY ExecNext
<1> QED BY <1>1, <1>2, PTL DEF Spec

(* Every variable keeps its type, whichever commands overlap.              *)
THEOREM MissionTypeCorrect == Spec => []TypeOK
<1>1. ExecInv => TypeOK
  <2> SUFFICES ASSUME ExecInv PROVE TypeOK
    OBVIOUS
  <2>1. \A c \in Commands : \A i \in DOMAIN todo[c] : todo[c][i] \in Ops
    BY DEF ExecInv, Typed
  <2>2. \A c \in Commands : \A i \in DOMAIN todo[c] : todo[c][i][1] \in Kinds
    BY <2>1, OpArgs
  <2>3. together \subseteq Commands
    BY ExecutionAssumption DEF ExecInv, Typed
  <2> QED BY <2>2, <2>3 DEF ExecInv, Typed, TypeOK, Yaml
<1> QED BY <1>1, ExecInvariant, PTL

(* One command at a time, deaths included, the executor asks at most once: *)
(* it asks only where it has seen no approval, and forgets the request it  *)
(* meant to make if it dies before making it.                              *)
THEOREM SerialAskedOnce == Spec => []AskedOnce
<1>1. ExecInv => AskedOnce
  BY DEF ExecInv
<1> QED BY <1>1, ExecInvariant, PTL

(* Whatever the overlaps, a mission never waits for an approval that was   *)
(* never requested: not even a stale write of mission.yaml brings that     *)
(* state before the request is stored.                                     *)
THEOREM WaitsAreAnswerable == Spec => []WaitingIsAnswerable
<1>1. ExecInv => WaitingIsAnswerable
  BY DEF ExecInv
<1> QED BY <1>1, ExecInvariant, PTL

(* With one executor at work, whatever else overlaps it, the completion of *)
(* a node is taken back by no step but a planner's write of a new plan.    *)
THEOREM CompletedWorkIsKept == Spec => WorkIsKept
<1> DEFINE Keep == OneExecutor =>
                     \A n \in Nodes :
                       graph[n] = "completed" /\ graph'[n] # "completed"
                         => \E c \in Planners : DoPutGraph(c)
<1>1. ASSUME ExecInv, [Next]_vars PROVE Keep \/ UNCHANGED vars
  <2> SUFFICES ASSUME OneExecutor, NEW n \in Nodes, graph[n] = "completed", ~UNCHANGED vars,
                      ~\E d \in Planners : DoPutGraph(d)
               PROVE  graph'[n] = "completed"
    OBVIOUS
  <2>1. PICK c \in Commands : Start(c) \/ Step(c) \/ Die(c)
    BY <1>1 DEF Next
  <2>2. CASE ~DoPutGraph(c)
    <3>1. graph' = graph
      <4>1. CASE Start(c) \/ Die(c)
        BY <4>1 DEF Start, StartRun, StartPause, StartBoot, StartDecide, StartPlan, Die
      <4>2. CASE Step(c)
        BY <2>2, <4>2 DEF Step, DoMove, DoEnsure, DoView, DoComplete, DoStatus, DoPutYaml, DoNote,
           DoMirror, DoReport, DoTool, DoFailIfRunning, DoGate, DoRequest, ConsumeRuns,
           ConsumeFails, DoMark
      <4> QED BY <2>1, <4>1, <4>2
    <3> QED BY <3>1
  <2>3. CASE DoPutGraph(c)
    <3>1. todo[c] # <<>> /\ todo[c] \in Seq(Ops) /\ todo[c][1][1] = "putGraph" /\ graph' = todo[c][1][2]
      BY <1>1, <2>3, HeadFacts DEF DoPutGraph, Arg
    <3>2. 1 \in DOMAIN todo[c] /\ c \notin Planners
      BY <2>3, <3>1
    <3> QED BY <1>1, <3>1, <3>2 DEF ExecInv, QueueOk, Fresh
  <2> QED BY <2>2, <2>3
<1>2. ExecInv /\ [Next]_vars => [Keep]_vars
  BY <1>1
<1> QED BY <1>2, ExecInvariant, PTL DEF Spec, WorkIsKept
-----------------------------------------------------------------------------
(* The state the mission is in, or is about to be written to be in.        *)
Heading(q, y) == IF q # <<>> /\ q[1][1] = "putYaml" THEN q[1][2].state ELSE y.state

(* A graph with a node that failed.                                        *)
Broken(g) == \E n \in Nodes : g[n] = "failed"

(* Operations that move the mission nowhere and cannot fail; that end it   *)
(* in failure; that act and need the mission at work; that give a node     *)
(* its completion in the ledger.                                           *)
Writes(op) == op[1] \in {"status", "putGraph", "putYaml", "note"}
Mild(op) == Writes(op) \/ op[1] = "complete"
Reaches(op, s) == op[1] \in {"ensure", "move"} /\ op[2] = s
Fatal(op) == op[1] = "failIfRunning" \/ (op[1] = "move" /\ op[2] = "failed")
Guarded(op) == op[1] \in {"tool", "request", "gate"} \/ Fatal(op)
Notes(op, n) == op[1] = "note" /\ op[2] = "completed" /\ op[3] = n

(* mission.yaml shows the graph, but between the two writes of a status.   *)
CopyBooks(q, y, g) ==
  /\ \A i \in DOMAIN q :
       /\ q[i][1] = "putGraph" => i = 1
       /\ q[i][1] = "putYaml" => i = 1 \/ (i = 2 /\ q[1][1] = "putGraph")
  /\ q # <<>> /\ q[1][1] = "putGraph" =>
       /\ 2 \in DOMAIN q /\ q[2][1] = "putYaml"
       /\ q[2][2].graph = q[1][2] /\ q[2][2].state = y.state /\ q[2][2].report = y.report
  /\ IF q # <<>> /\ q[1][1] = "putYaml"
     THEN q[1][2].graph = g /\ (y.report => q[1][2].report)
     ELSE y.graph = g

(* A node fails only in a command that goes on to fail the mission.        *)
Failing(q) == \E i \in DOMAIN q : Fatal(q[i])
Deciding(op) == op[1] \in {"putYaml", "mirror", "consume", "report", "mark"}
Breaks(op) == (op[1] = "status" /\ op[3] = "failed") \/ (op[1] = "putGraph" /\ Broken(op[2]))
Unbroken(op) ==
  /\ op[1] = "tool" => op[3] # "failed"
  /\ op[1] \in {"gate", "request", "ensure"} => op[2] # "failed"
(* A mission is failed exactly when a node of it is, or a command is on    *)
(* its way to fail the one after the other; only a command that decides    *)
(* an approval goes on with a failed mission.                              *)
FailBooks(q, h, g) ==
  /\ h = "failed" => Broken(g) /\ \A i \in DOMAIN q : Deciding(q[i])
  /\ Broken(g) => h = "failed" \/ Failing(q)
  /\ \A i \in DOMAIN q : Fatal(q[i]) => i = Len(q)
  /\ Failing(q) =>
       /\ \A j \in DOMAIN q : q[j][1] = "status" => q[j][3] = "failed"
       /\ q[1][1] # "status" => Broken(IF q[1][1] = "putGraph" THEN q[1][2] ELSE g)
  /\ \A i \in DOMAIN q : (Breaks(q[i]) => Failing(q)) /\ Unbroken(q[i])

(* What acts is next but for writes, and finds the mission at work.        *)
Ready(op, h) == h = "running" \/ (op[1] = "gate" /\ h = "waiting_for_approval")
ActBooks(q, h) ==
  \A i \in DOMAIN q : Guarded(q[i]) => Ready(q[i], h) /\ \A j \in DOMAIN q : j < i => Writes(q[j])

(* A command looks at a node of a mission that works or waits, or after    *)
(* it has set it running; it looks at the report node to complete the      *)
(* mission next.                                                           *)
ViewBooks(q, h) ==
  \A i \in DOMAIN q : q[i][1] = "view" =>
    /\ \/ h \in {"running", "waiting_for_approval"}
       \/ \E j \in DOMAIN q : j < i /\ q[j][1] = "move" /\ q[j][2] = "running"
    /\ \A j \in DOMAIN q : j < i /\ q[j][1] \in {"move", "ensure"} => q[j][2] \in {"planning", "running"}
    /\ q[i][2] = ReportNode => i + 1 \in DOMAIN q /\ Reaches(q[i + 1], "completed")

(* A mission that is verifying is on its way to completion.                *)
Ends(q, i) ==
  \E k \in DOMAIN q : /\ i < k /\ Reaches(q[k], "completed")
                      /\ \A j \in DOMAIN q : i < j /\ j < k => Mild(q[j])
EndBooks(q, h) ==
  /\ h # "recovering"
  /\ \A i \in DOMAIN q : ~Reaches(q[i], "recovering")
  /\ h = "verifying" => Ends(q, 0)
  /\ \A i \in DOMAIN q : Reaches(q[i], "verifying") => Ends(q, i)

(* The safe nodes an operation takes for completed.                        *)
Assumes(op, k) ==
  \/ op[1] = "view" /\ k < op[2]
  \/ op[1] \in {"gate", "request"} \/ Reaches(op, "waiting_for_approval")
Completes(op, k) ==
  \/ op[1] \in {"view", "complete"} /\ op[2] = k
  \/ op[1] = "status" /\ op[2] = k /\ op[3] = "completed"
  \/ op[1] = "putGraph" /\ op[2][k] = "completed"
(* A safe node that is taken for completed is, or is completed first.      *)
DoneBooks(q, h, g) ==
  /\ h = "waiting_for_approval" => \A k \in 1..Safe : g[k] = "completed"
  /\ \A i \in DOMAIN q : \A k \in 1..Safe : Assumes(q[i], k) =>
       g[k] = "completed" \/ \E j \in DOMAIN q : j < i /\ Completes(q[j], k)

(* A mission about to be completed has its report, or is about to.         *)
ReportBooks(q, y) ==
  Heading(q, y) = "completed" =>
    \/ y.report
    \/ q # <<>> /\ q[1][1] = "report"
    \/ /\ q # <<>> /\ q[1][1] = "putYaml"
       /\ q[1][2].report \/ (2 \in DOMAIN q /\ q[2][1] = "report")

(* The ledger has each node that is completed, or its note is next.        *)
EventBooks(q, g, events) ==
  /\ \A n \in Nodes : g[n] = "completed" =>
       \/ <<"completed", n>> \in events
       \/ q # <<>> /\ Notes(q[1], n)
       \/ 2 \in DOMAIN q /\ q[1][1] = "putYaml" /\ Notes(q[2], n)
  /\ q # <<>> /\ q[1][1] = "putGraph" =>
       \A n \in Nodes : q[1][2][n] = "completed" =>
         g[n] = "completed" \/ (3 \in DOMAIN q /\ Notes(q[3], n))
  /\ \A i \in DOMAIN q : q[i][1] = "status" /\ q[i][3] = "completed" =>
       i + 1 \in DOMAIN q /\ Notes(q[i + 1], q[i][2])

(* The books of a command that has q to do.                                *)
Books(q, y, g, events) ==
  LET h == Heading(q, y)
  IN /\ CopyBooks(q, y, g) /\ FailBooks(q, h, g) /\ ActBooks(q, h) /\ ViewBooks(q, h)
     /\ EndBooks(q, h) /\ DoneBooks(q, h, g) /\ ReportBooks(q, y) /\ EventBooks(q, g, events)

(* One command at a time, none of which has died, and the first plan.      *)
BooksInv ==
  serial /\ deaths = 0 /\ plans = 0 =>
    /\ InFlight = {} => Books(<<>>, yaml, graph, nodeEvents)
    /\ \A c \in InFlight : Books(todo[c], yaml, graph, nodeEvents)

(* p is q with n operations in the place of its first.                     *)
Shift(p, q, n) ==
  /\ p # <<>> => 1 \in DOMAIN p
  /\ 1 \in DOMAIN q /\ q # <<>> /\ Len(q) \in Nat /\ Len(p) = n + Len(q) - 1
  /\ \A i \in DOMAIN p : i \in Nat /\ i > 0 /\ i <= Len(p)
  /\ \A k \in DOMAIN q : k \in Nat /\ k > 0 /\ k <= Len(q)
  /\ \A i \in DOMAIN p : i > n =>
       \E k \in DOMAIN q : k > 1 /\ i = k + n - 1 /\ p[i] = q[k]
  /\ \A k \in DOMAIN q : k > 1 =>
       \E i \in DOMAIN p : i > n /\ i = k + n - 1 /\ p[i] = q[k]

(* Operations put in the place of the first of q shift the others.         *)
LEMMA Shifted ==
  ASSUME NEW q \in Seq(Ops), q # <<>>, NEW w \in Seq(Ops)
  PROVE  /\ Shift(w \o Tail(q), q, Len(w))
         /\ \A i \in DOMAIN w : i \in DOMAIN (w \o Tail(q)) /\ (w \o Tail(q))[i] = w[i]
<1>1. /\ Tail(q) \in Seq(Ops) /\ Len(Tail(q)) = Len(q) - 1 /\ Len(q) \in Nat /\ Len(q) > 0
      /\ Len(w) \in Nat
      /\ \A k \in DOMAIN q : k > 1 => k - 1 \in DOMAIN Tail(q) /\ Tail(q)[k - 1] = q[k]
      /\ \A k \in DOMAIN Tail(q) : k + 1 \in DOMAIN q /\ Tail(q)[k] = q[k + 1]
  OBVIOUS
<1> DEFINE r == Tail(q)
           p == w \o r
<1>2. p \in Seq(Ops) /\ Len(p) = Len(w) + Len(r)
  BY <1>1
<1>3. \A i \in DOMAIN p : i > Len(w) => i - Len(w) \in DOMAIN r /\ p[i] = r[i - Len(w)]
  BY <1>1
<1>4. \A i \in DOMAIN w : i \in DOMAIN p /\ p[i] = w[i]
  BY <1>1
<1>5. \A k \in DOMAIN r : k + Len(w) \in DOMAIN p /\ p[k + Len(w)] = r[k]
  BY <1>1
<1> HIDE DEF p
<1>6. ASSUME NEW i \in DOMAIN p, i > Len(w)
      PROVE  \E k \in DOMAIN q : k \in Nat /\ k > 1 /\ i = k + Len(w) - 1 /\ p[i] = q[k]
  <2>1. i - Len(w) \in DOMAIN r /\ p[i] = r[i - Len(w)]
    BY <1>3, <1>6
  <2>2. i \in Nat
    BY <1>2
  <2>3. PICK k : k = i - Len(w) + 1
    OBVIOUS
  <2>4. k \in DOMAIN q /\ p[i] = q[k] /\ k \in Nat /\ k > 1 /\ i = k + Len(w) - 1
    BY <1>1, <1>6, <2>1, <2>2, <2>3
  <2> QED BY <2>4
<1>7. ASSUME NEW k \in DOMAIN q, k > 1
      PROVE  \E i \in DOMAIN p : i \in Nat /\ i > Len(w) /\ i = k + Len(w) - 1 /\ p[i] = q[k]
  <2>1. k - 1 \in DOMAIN r /\ r[k - 1] = q[k] /\ k \in Nat
    BY <1>1, <1>7
  <2>2. (k - 1) + Len(w) \in DOMAIN p /\ p[(k - 1) + Len(w)] = r[k - 1]
    BY <1>5, <2>1
  <2>3. PICK i : i = (k - 1) + Len(w)
    OBVIOUS
  <2>4. i \in DOMAIN p /\ i \in Nat /\ i > Len(w) /\ i = k + Len(w) - 1 /\ p[i] = q[k]
    BY <1>1, <1>7, <2>1, <2>2, <2>3
  <2> QED BY <2>4
<1>8. /\ \A i \in DOMAIN p : i \in Nat /\ i > 0 /\ i <= Len(p)
      /\ \A k \in DOMAIN q : k \in Nat /\ k > 0 /\ k <= Len(q)
      /\ 1 \in DOMAIN q /\ (p # <<>> => 1 \in DOMAIN p) /\ Len(p) = Len(w) + Len(q) - 1
  BY <1>1, <1>2
<1>9. Shift(p, q, Len(w))
  BY <1>1, <1>6, <1>7, <1>8 DEF Shift
<1> QED BY <1>4, <1>9 DEF p

(* What each part of the books needs of the operations put in.             *)
LEMMA ActShift ==
  ASSUME NEW p, NEW q, NEW n \in Nat, Shift(p, q, n), NEW h, NEW h2, ActBooks(q, h),
         Writes(q[1]) => h2 = h /\ \A i \in DOMAIN p : i <= n => Writes(p[i]),
         \A i \in DOMAIN p : i <= n /\ Guarded(p[i]) =>
           Ready(p[i], h2) /\ \A j \in DOMAIN p : j < i => Writes(p[j])
  PROVE  ActBooks(p, h2)
<1> SUFFICES ASSUME NEW i \in DOMAIN p, Guarded(p[i])
             PROVE  Ready(p[i], h2) /\ \A j \in DOMAIN p : j < i => Writes(p[j])
  BY DEF ActBooks
<1>1. CASE i <= n
  BY <1>1
<1>2. CASE i > n
  <2>1. PICK k \in DOMAIN q : k \in Nat /\ k > 1 /\ i = k + n - 1 /\ p[i] = q[k]
    BY <1>2 DEF Shift
  <2>2. 1 \in DOMAIN q /\ Writes(q[1]) /\ Ready(p[i], h2)
    BY <2>1 DEF ActBooks, Shift
  <2>3. ASSUME NEW j \in DOMAIN p, j < i PROVE Writes(p[j])
    <3>1. CASE j <= n
      BY <2>2, <3>1
    <3>2. CASE j > n
      <4>1. PICK l \in DOMAIN q : l \in Nat /\ l > 1 /\ j = l + n - 1 /\ p[j] = q[l]
        BY <3>2 DEF Shift
      <4>2. l < k
        BY <2>1, <2>3, <4>1
      <4> QED BY <2>1, <4>1, <4>2 DEF ActBooks
    <3>3. j <= n \/ j > n
      BY DEF Shift
    <3> QED BY <3>1, <3>2, <3>3
  <2> QED BY <2>2, <2>3
<1>3. i <= n \/ i > n
  BY DEF Shift
<1> QED BY <1>1, <1>2, <1>3

(* There are nodes to view beyond the first operation, which leads there;  *)
(* so do the operations in its place.                                      *)
Onward(q) ==
  /\ q[1][1] \in {"move", "ensure"} => q[1][2] \in {"planning", "running"}
  /\ \E k \in DOMAIN q : k > 1 /\ q[k][1] = "view"
LeadsOn(p, q, n, h, h2) ==
  /\ \A j \in DOMAIN p : j <= n /\ p[j][1] \in {"move", "ensure"} => p[j][2] \in {"planning", "running"}
  /\ h \in {"running", "waiting_for_approval"} \/ (q[1][1] = "move" /\ q[1][2] = "running") =>
       \/ h2 \in {"running", "waiting_for_approval"}
       \/ \E j \in DOMAIN p : j <= n /\ p[j][1] = "move" /\ p[j][2] = "running"

LEMMA ViewShift ==
  ASSUME NEW p, NEW q, NEW n \in Nat, Shift(p, q, n), NEW h, NEW h2, ViewBooks(q, h),
         \A i \in DOMAIN p : i <= n => p[i][1] # "view",
         Onward(q) => LeadsOn(p, q, n, h, h2)
  PROVE  ViewBooks(p, h2)
<1> SUFFICES ASSUME NEW i \in DOMAIN p, p[i][1] = "view"
             PROVE  /\ \/ h2 \in {"running", "waiting_for_approval"}
                       \/ \E j \in DOMAIN p : j < i /\ p[j][1] = "move" /\ p[j][2] = "running"
                    /\ \A j \in DOMAIN p : j < i /\ p[j][1] \in {"move", "ensure"} => p[j][2] \in {"planning", "running"}
                    /\ p[i][2] = ReportNode => i + 1 \in DOMAIN p /\ Reaches(p[i + 1], "completed")
  BY DEF ViewBooks
<1>1. i \in Nat /\ i > n
  BY DEF Shift
<1>2. PICK k \in DOMAIN q : k \in Nat /\ k > 1 /\ i = k + n - 1 /\ p[i] = q[k]
  BY <1>1 DEF Shift
<1>3. 1 \in DOMAIN q /\ (q[1][1] \in {"move", "ensure"} => q[1][2] \in {"planning", "running"})
  BY <1>2 DEF ViewBooks, Shift
<1>4. /\ \A j \in DOMAIN p : j <= n /\ p[j][1] \in {"move", "ensure"} => p[j][2] \in {"planning", "running"}
      /\ h \in {"running", "waiting_for_approval"} \/ (q[1][1] = "move" /\ q[1][2] = "running") =>
           \/ h2 \in {"running", "waiting_for_approval"}
           \/ \E j \in DOMAIN p : j <= n /\ p[j][1] = "move" /\ p[j][2] = "running"
  BY <1>2, <1>3 DEF Onward, LeadsOn
<1>5. \/ h2 \in {"running", "waiting_for_approval"}
      \/ \E j \in DOMAIN p : j < i /\ p[j][1] = "move" /\ p[j][2] = "running"
  <2>1. CASE h \in {"running", "waiting_for_approval"} \/ (q[1][1] = "move" /\ q[1][2] = "running")
    <3>1. \A j \in DOMAIN p : j <= n => j < i
      BY <1>1 DEF Shift
    <3> QED BY <1>4, <2>1, <3>1
  <2>2. CASE ~(h \in {"running", "waiting_for_approval"} \/ (q[1][1] = "move" /\ q[1][2] = "running"))
    <3>1. PICK j \in DOMAIN q : j < k /\ j # 1 /\ q[j][1] = "move" /\ q[j][2] = "running"
      BY <1>2, <2>2 DEF ViewBooks
    <3>2. PICK l \in DOMAIN p : l \in Nat /\ l > n /\ l = j + n - 1 /\ p[l] = q[j]
      BY <3>1 DEF Shift
    <3>3. l < i
      BY <1>2, <3>1, <3>2 DEF Shift
    <3> QED BY <3>1, <3>2, <3>3
  <2> QED BY <2>1, <2>2
<1>6. ASSUME NEW j \in DOMAIN p, j < i, p[j][1] \in {"move", "ensure"} PROVE p[j][2] \in {"planning", "running"}
  <2>1. CASE j <= n
    BY <1>4, <1>6, <2>1
  <2>2. CASE j > n
    <3>1. PICK l \in DOMAIN q : l \in Nat /\ l > 1 /\ j = l + n - 1 /\ p[j] = q[l]
      BY <2>2 DEF Shift
    <3>2. l < k
      BY <1>2, <1>6, <3>1
    <3> QED BY <1>2, <1>6, <3>1, <3>2 DEF ViewBooks
  <2>3. j <= n \/ j > n
    BY DEF Shift
  <2> QED BY <2>1, <2>2, <2>3
<1>7. ASSUME p[i][2] = ReportNode PROVE i + 1 \in DOMAIN p /\ Reaches(p[i + 1], "completed")
  <2>1. k + 1 \in DOMAIN q /\ Reaches(q[k + 1], "completed")
    BY <1>2, <1>7 DEF ViewBooks
  <2>2. k + 1 > 1
    BY <1>2
  <2>3. PICK l \in DOMAIN p : l \in Nat /\ l > n /\ l = (k + 1) + n - 1 /\ p[l] = q[k + 1]
    BY <2>1, <2>2 DEF Shift
  <2>4. l = i + 1
    BY <1>1, <1>2, <2>3
  <2> QED BY <2>1, <2>3, <2>4
<1> QED BY <1>5, <1>6, <1>7

(* A completion that is ahead of q stays ahead.                            *)
LEMMA EndsShift ==
  ASSUME NEW p, NEW q, NEW n \in Nat, Shift(p, q, n), NEW k \in Nat, k > 0, Ends(q, k)
  PROVE  \A i \in Nat : i + 1 = k + n => Ends(p, i)
<1> SUFFICES ASSUME NEW i \in Nat, i + 1 = k + n PROVE Ends(p, i)
  OBVIOUS
<1>1. PICK l \in DOMAIN q : /\ k < l /\ Reaches(q[l], "completed")
                            /\ \A j \in DOMAIN q : k < j /\ j < l => Mild(q[j])
  BY DEF Ends
<1>2. PICK m \in DOMAIN p : m > n /\ m = l + n - 1 /\ p[m] = q[l]
  BY <1>1 DEF Shift
<1>3. i < m
  BY <1>1, <1>2 DEF Shift
<1>4. ASSUME NEW j \in DOMAIN p, i < j, j < m PROVE Mild(p[j])
  <2>1. j > n
    BY <1>4 DEF Shift
  <2>2. PICK x \in DOMAIN q : x > 1 /\ j = x + n - 1 /\ p[j] = q[x]
    BY <2>1 DEF Shift
  <2>3. x \in Nat /\ l \in Nat /\ j \in Nat /\ m \in Nat
    BY <2>2 DEF Shift
  <2>4. k < x /\ x < l
    BY <1>2, <1>4, <2>2, <2>3
  <2> QED BY <1>1, <2>2, <2>4
<1> QED BY <1>1, <1>2, <1>3, <1>4 DEF Ends

(* An end further on is an end from before mild operations.                *)
LEMMA EndsEarlier ==
  ASSUME NEW p, NEW i \in Nat, NEW n \in Nat, i <= n, Ends(p, n), \A j \in DOMAIN p : j \in Nat,
         \A j \in DOMAIN p : i < j /\ j <= n => Mild(p[j])
  PROVE  Ends(p, i)
<1>1. PICK m \in DOMAIN p : /\ n < m /\ Reaches(p[m], "completed")
                            /\ \A j \in DOMAIN p : n < j /\ j < m => Mild(p[j])
  BY DEF Ends
<1> QED BY <1>1 DEF Ends

LEMMA EndShift ==
  ASSUME NEW p, NEW q, NEW n \in Nat, Shift(p, q, n), NEW h, NEW h2, EndBooks(q, h), h2 # "recovering",
         \A i \in DOMAIN p : i <= n => ~Reaches(p[i], "recovering"),
         h2 = "verifying" =>
           \/ /\ (h = "verifying" /\ Mild(q[1])) \/ Reaches(q[1], "verifying")
              /\ \A j \in DOMAIN p : j <= n => Mild(p[j])
           \/ Ends(p, 0),
         \A i \in DOMAIN p : i <= n /\ Reaches(p[i], "verifying") =>
           /\ Reaches(q[1], "verifying") \/ (2 \in DOMAIN q /\ Reaches(q[2], "completed"))
           /\ \A j \in DOMAIN p : i < j /\ j <= n => Mild(p[j])
  PROVE  EndBooks(p, h2)
<1>0. (0 \in Nat /\ n >= 0 /\ 1 \in Nat /\ 1 > 0) /\ \A j \in DOMAIN p : j \in Nat
  BY DEF Shift
<1>1. ASSUME NEW i \in DOMAIN p PROVE ~Reaches(p[i], "recovering")
  <2>1. CASE i > n
    BY <2>1 DEF Shift, EndBooks
  <2> QED BY <2>1 DEF Shift
<1>2. Reaches(q[1], "verifying") \/ (2 \in DOMAIN q /\ Reaches(q[2], "completed")) => Ends(p, n)
  <2>1. CASE Reaches(q[1], "verifying")
    <3>1. Ends(q, 1)
      BY <2>1 DEF Shift, EndBooks
    <3> QED BY <1>0, <3>1, EndsShift
  <2>2. CASE 2 \in DOMAIN q /\ Reaches(q[2], "completed")
    <3>1. Ends(q, 1)
      <4>1. \A j \in DOMAIN q : ~(1 < j /\ j < 2)
        BY DEF Shift
      <4> QED BY <2>2, <4>1 DEF Ends
    <3> QED BY <1>0, <3>1, EndsShift
  <2> QED BY <2>1, <2>2
<1>3. ASSUME h2 = "verifying" PROVE Ends(p, 0)
  <2>1. CASE /\ (h = "verifying" /\ Mild(q[1])) \/ Reaches(q[1], "verifying")
             /\ \A j \in DOMAIN p : j <= n => Mild(p[j])
    <3>1. CASE Reaches(q[1], "verifying")
      BY <1>0, <1>2, <2>1, <3>1, EndsEarlier
    <3>2. CASE h = "verifying" /\ Mild(q[1]) /\ ~Reaches(q[1], "verifying")
      <4>1. PICK k \in DOMAIN q : /\ 0 < k /\ Reaches(q[k], "completed")
                                  /\ \A j \in DOMAIN q : 0 < j /\ j < k => Mild(q[j])
        BY <3>2 DEF EndBooks, Ends
      <4>2. k # 1
        BY <3>2, <4>1 DEF Mild, Writes, Reaches
      <4>3. Ends(q, 1)
        BY <4>1, <4>2 DEF Ends, Shift
      <4>4. Ends(p, n)
        BY <1>0, <4>3, EndsShift
      <4> QED BY <1>0, <2>1, <4>4, EndsEarlier
    <3> QED BY <2>1, <3>1, <3>2
  <2> QED BY <1>3, <2>1
<1>4. ASSUME NEW i \in DOMAIN p, Reaches(p[i], "verifying") PROVE Ends(p, i)
  <2>1. CASE i <= n
    BY <1>0, <1>2, <1>4, <2>1, EndsEarlier
  <2>2. CASE i > n
    <3>1. PICK k \in DOMAIN q : k > 1 /\ i = k + n - 1 /\ p[i] = q[k]
      BY <2>2 DEF Shift
    <3>2. Ends(q, k) /\ k \in Nat /\ i + 1 = k + n /\ i \in Nat
      BY <1>4, <3>1 DEF EndBooks, Shift
    <3> QED BY <3>1, <3>2, EndsShift
  <2> QED BY <1>0, <2>1, <2>2
<1> QED BY <1>1, <1>3, <1>4 DEF EndBooks

LEMMA DoneShift ==
  ASSUME NEW p, NEW q, NEW n \in Nat, Shift(p, q, n), NEW h, NEW h2, NEW g, NEW g2, DoneBooks(q, h, g),
         h2 = "waiting_for_approval" => \A k \in 1..Safe : g2[k] = "completed",
         \A k \in 1..Safe : g[k] = "completed" => g2[k] = "completed",
         \A k \in 1..Safe : Completes(q[1], k) =>
           g2[k] = "completed" \/ \E j \in DOMAIN p : j <= n /\ Completes(p[j], k),
         \A i \in DOMAIN p : i <= n => \A k \in 1..Safe : Assumes(p[i], k) => g2[k] = "completed"
  PROVE  DoneBooks(p, h2, g2)
<1> SUFFICES ASSUME NEW i \in DOMAIN p, NEW k \in 1..Safe, Assumes(p[i], k)
             PROVE  g2[k] = "completed" \/ \E j \in DOMAIN p : j < i /\ Completes(p[j], k)
  BY DEF DoneBooks
<1>1. CASE i > n
  <2>1. PICK x \in DOMAIN q : x > 1 /\ i = x + n - 1 /\ p[i] = q[x]
    BY <1>1 DEF Shift
  <2>2. g[k] = "completed" \/ \E j \in DOMAIN q : j < x /\ Completes(q[j], k)
    BY <2>1 DEF DoneBooks
  <2>3. ASSUME NEW j \in DOMAIN q, j < x, Completes(q[j], k), j > 1
        PROVE  \E l \in DOMAIN p : l < i /\ Completes(p[l], k)
    <3>1. PICK l \in DOMAIN p : l > n /\ l = j + n - 1 /\ p[l] = q[j]
      BY <2>3 DEF Shift
    <3>2. l < i
      BY <2>1, <2>3, <3>1 DEF Shift
    <3> QED BY <2>3, <3>1, <3>2
  <2>4. ASSUME Completes(q[1], k)
        PROVE  g2[k] = "completed" \/ \E j \in DOMAIN p : j < i /\ Completes(p[j], k)
    <3>1. \A j \in DOMAIN p : j <= n => j < i
      <4>1. i \in Nat /\ \A j \in DOMAIN p : j \in Nat
        BY DEF Shift
      <4> QED BY <1>1, <4>1
    <3> QED BY <2>4, <3>1
  <2>5. \A j \in DOMAIN q : j = 1 \/ j > 1
    BY DEF Shift
  <2> QED BY <2>2, <2>3, <2>4, <2>5
<1>2. CASE i <= n
  BY <1>2
<1> QED BY <1>1, <1>2 DEF Shift

(* Books of commands none of whose operations is fatal.                    *)
LEMMA FailShift ==
  ASSUME NEW p, NEW q, NEW n \in Nat, Shift(p, q, n), NEW h, NEW h2, NEW g, NEW g2, FailBooks(q, h, g),
         h2 = "failed" => /\ Broken(g2)
                          /\ h = "failed" \/ Len(q) = 1
                          /\ \A i \in DOMAIN p : i <= n => Deciding(p[i]),
         Broken(g2) => h2 = "failed" \/ (Failing(q) /\ ~Fatal(q[1])),
         Failing(q) /\ ~Fatal(q[1]) =>
           /\ \A j \in DOMAIN p : j <= n /\ p[j][1] = "status" => p[j][3] = "failed"
           /\ p[1][1] # "status" => Broken(IF p[1][1] = "putGraph" THEN p[1][2] ELSE g2),
         \A i \in DOMAIN p : i <= n =>
           ~Fatal(p[i]) /\ Unbroken(p[i]) /\ (Breaks(p[i]) => Failing(q) /\ ~Fatal(q[1]))
  PROVE  FailBooks(p, h2, g2)
<1>1. \A i \in DOMAIN p : i <= n \/ i > n
  BY DEF Shift
<1>2. ASSUME Failing(p) PROVE Failing(q) /\ ~Fatal(q[1])
  <2>1. PICK i \in DOMAIN p : Fatal(p[i])
    BY <1>2 DEF Failing
  <2>2. PICK k \in DOMAIN q : k > 1 /\ p[i] = q[k]
    BY <1>1, <2>1 DEF Shift
  <2>3. k = Len(q) /\ 1 \in DOMAIN q
    BY <2>1, <2>2 DEF FailBooks, Shift
  <2>4. ~Fatal(q[1])
    BY <2>2, <2>3 DEF FailBooks
  <2> QED BY <2>1, <2>2, <2>4 DEF Failing
<1>3. ASSUME Failing(q), ~Fatal(q[1]) PROVE Failing(p)
  <2>1. PICK k \in DOMAIN q : Fatal(q[k]) /\ k # 1
    BY <1>3 DEF Failing
  <2>2. k > 1
    BY <2>1 DEF Shift
  <2> QED BY <2>1, <2>2 DEF Failing, Shift
<1>4. h2 = "failed" => Broken(g2) /\ \A i \in DOMAIN p : Deciding(p[i])
  <2> SUFFICES ASSUME h2 = "failed", NEW i \in DOMAIN p, i > n PROVE Deciding(p[i])
    BY <1>1
  <2>1. PICK k \in DOMAIN q : k > 1 /\ p[i] = q[k]
    BY DEF Shift
  <2>2. Len(q) # 1
    BY <2>1 DEF Shift
  <2> QED BY <2>1, <2>2 DEF FailBooks
<1>5. Broken(g2) => h2 = "failed" \/ Failing(p)
  BY <1>3
<1>6. ASSUME NEW i \in DOMAIN p, Fatal(p[i]) PROVE i = Len(p)
  <2>1. i > n
    BY <1>1, <1>6
  <2>2. PICK k \in DOMAIN q : k > 1 /\ i = k + n - 1 /\ p[i] = q[k]
    BY <2>1 DEF Shift
  <2>3. k = Len(q)
    BY <1>6, <2>2 DEF FailBooks
  <2> QED BY <2>2, <2>3 DEF Shift
<1>7. ASSUME Failing(p)
      PROVE  /\ \A j \in DOMAIN p : p[j][1] = "status" => p[j][3] = "failed"
             /\ p[1][1] # "status" => Broken(IF p[1][1] = "putGraph" THEN p[1][2] ELSE g2)
  <2>1. Failing(q) /\ ~Fatal(q[1])
    BY <1>2, <1>7
  <2>2. ASSUME NEW j \in DOMAIN p, j > n, p[j][1] = "status" PROVE p[j][3] = "failed"
    <3>1. PICK k \in DOMAIN q : k > 1 /\ p[j] = q[k]
      BY <2>2 DEF Shift
    <3> QED BY <2>1, <2>2, <3>1 DEF FailBooks
  <2> QED BY <1>1, <2>1, <2>2
<1>8. ASSUME NEW i \in DOMAIN p PROVE (Breaks(p[i]) => Failing(p)) /\ Unbroken(p[i])
  <2>1. CASE i <= n
    BY <1>3, <2>1
  <2>2. CASE i > n
    <3>1. PICK k \in DOMAIN q : k > 1 /\ p[i] = q[k]
      BY <2>2 DEF Shift
    <3>2. (Breaks(p[i]) => Failing(q)) /\ Unbroken(p[i])
      BY <3>1 DEF FailBooks
    <3>3. Fatal(q[1]) => Len(q) = 1
      BY DEF FailBooks, Shift
    <3>4. Len(q) # 1
      BY <3>1 DEF Shift
    <3> QED BY <1>3, <3>2, <3>3, <3>4
  <2> QED BY <1>1, <2>1, <2>2
<1> QED BY <1>4, <1>5, <1>6, <1>7, <1>8 DEF FailBooks

(* The note that follows a completion is kept with it.                     *)
LEMMA NotesShift ==
  ASSUME NEW p, NEW q, NEW n \in Nat, Shift(p, q, n), NEW g, NEW events, EventBooks(q, g, events),
         NEW i \in DOMAIN p, i > n, p[i][1] = "status", p[i][3] = "completed"
  PROVE  i + 1 \in DOMAIN p /\ Notes(p[i + 1], p[i][2])
<1>1. PICK k \in DOMAIN q : k > 1 /\ i = k + n - 1 /\ p[i] = q[k]
  BY DEF Shift
<1>2. k + 1 \in DOMAIN q /\ Notes(q[k + 1], q[k][2]) /\ k \in Nat
  BY <1>1 DEF EventBooks, Shift
<1>3. k + 1 > 1
  BY <1>1, <1>2
<1>4. PICK l \in DOMAIN p : l = (k + 1) + n - 1 /\ p[l] = q[k + 1]
  BY <1>2, <1>3 DEF Shift
<1>5. l = i + 1
  BY <1>1, <1>2, <1>4
<1> QED BY <1>1, <1>2, <1>4, <1>5

(* Operations that leave the books in order in the place of one that       *)
(* writes nothing and moves the mission nowhere.                           *)
Quiet(p, q, n, y, g) ==
  /\ \A i \in DOMAIN p : i <= n =>
       /\ p[i][1] \notin {"putGraph", "view"} /\ ~Fatal(p[i]) /\ ~Breaks(p[i]) /\ Unbroken(p[i])
       /\ p[i][1] = "putYaml" =>
            i = 1 /\ p[i][2].graph = g /\ p[i][2].state = y.state /\ (y.report => p[i][2].report)
       /\ Guarded(p[i]) => Ready(p[i], y.state) /\ \A j \in DOMAIN p : j < i => Writes(p[j])
       /\ \A k \in 1..Safe : Assumes(p[i], k) => g[k] = "completed"
       /\ p[i][1] \in {"move", "ensure"} =>
            p[i][2] = "running" \/ Reaches(q[1], p[i][2]) \/ (2 \in DOMAIN q /\ Reaches(q[2], "completed"))
       /\ ~Reaches(p[i], "recovering")
       /\ Reaches(p[i], "verifying") =>
            /\ Reaches(q[1], "verifying") \/ (2 \in DOMAIN q /\ Reaches(q[2], "completed"))
            /\ \A j \in DOMAIN p : i < j /\ j <= n => Mild(p[j])
       /\ y.state = "failed" => Deciding(p[i])
       /\ p[i][1] = "status" /\ p[i][3] = "completed" => i + 1 \in DOMAIN p /\ Notes(p[i + 1], p[i][2])
  /\ y.state = "verifying" =>
       (Mild(q[1]) /\ \A j \in DOMAIN p : j <= n => Mild(p[j])) \/ Ends(p, 0)
  /\ \A k \in 1..Safe : Completes(q[1], k) =>
       g[k] = "completed" \/ \E j \in DOMAIN p : j <= n /\ Completes(p[j], k)
  /\ q[1][1] = "report" /\ y.state = "completed" =>
       y.report \/ (n > 0 /\ 1 \in DOMAIN p /\ p[1][1] = "putYaml" /\ p[1][2].report)

(* Quiet operations leave the books in order.                              *)
LEMMA QuietBooks ==
  ASSUME NEW p, NEW q, NEW n \in Nat, Shift(p, q, n), NEW y, NEW g, NEW events, Books(q, y, g, events),
         ~Writes(q[1]), q[1][1] \notin {"move", "failIfRunning"}, Quiet(p, q, n, y, g)
  PROVE  Books(p, y, g, events)
<1> DEFINE h == y.state
<1>1. /\ Heading(q, y) = h /\ ~Fatal(q[1]) /\ q # <<>> /\ 1 \in DOMAIN q
      /\ q[1][1] \notin {"putYaml", "putGraph", "note", "status"}
  BY DEF Heading, Writes, Fatal, Shift
<1>2. /\ CopyBooks(q, y, g) /\ FailBooks(q, h, g) /\ ActBooks(q, h) /\ ViewBooks(q, h)
      /\ EndBooks(q, h) /\ DoneBooks(q, h, g) /\ ReportBooks(q, y) /\ EventBooks(q, g, events)
  BY <1>1 DEF Books
<1>3. \A i \in DOMAIN p : i <= n \/ (i > n /\ p[i][1] \notin {"putYaml", "putGraph"})
  BY <1>1, <1>2 DEF CopyBooks, Shift
<1>4. p # <<>> => /\ 1 \in DOMAIN p /\ p[1][1] # "putGraph"
                  /\ p[1][1] = "putYaml" =>
                       p[1][2].graph = g /\ p[1][2].state = h /\ (y.report => p[1][2].report)
  BY <1>3 DEF Shift, Quiet
<1>5. Heading(p, y) = h
  BY <1>4 DEF Heading
<1>6. CopyBooks(p, y, g)
  BY <1>1, <1>2, <1>3, <1>4 DEF CopyBooks, Quiet
<1>7. ~Failing(q)
  <2> SUFFICES ASSUME NEW i \in DOMAIN q, Fatal(q[i]) PROVE FALSE
    BY DEF Failing
  <2>1. i > 1
    BY <1>1 DEF Shift
  <2> QED BY <1>1, <1>2, <2>1 DEF ActBooks, Guarded
<1>8. FailBooks(p, h, g)
  <2>1. Broken(g) => h = "failed"
    BY <1>2, <1>7 DEF FailBooks
  <2>2. h = "failed" => Broken(g)
    BY <1>2 DEF FailBooks
  <2> QED BY <1>2, <1>7, <2>1, <2>2, FailShift DEF Quiet
<1>9. ActBooks(p, h)
  BY <1>1, <1>2, ActShift DEF Quiet
<1>10. ViewBooks(p, h)
  <2>1. ASSUME Onward(q), NEW j \in DOMAIN p, j <= n, p[j][1] \in {"move", "ensure"}
        PROVE  p[j][2] \in {"planning", "running"}
    <3>1. CASE p[j][2] = "running"
      BY <3>1
    <3>2. CASE Reaches(q[1], p[j][2])
      BY <2>1, <3>2 DEF Onward, Reaches
    <3>3. CASE 2 \in DOMAIN q /\ Reaches(q[2], "completed")
      <4>1. PICK k \in DOMAIN q : k > 1 /\ q[k][1] = "view"
        BY <2>1 DEF Onward
      <4>2. k # 2 /\ q[2][1] \in {"move", "ensure"} /\ q[2][2] \notin {"planning", "running"}
        BY <3>3, <4>1 DEF Reaches
      <4>3. 2 < k
        BY <4>1, <4>2 DEF Shift
      <4> QED BY <1>2, <3>3, <4>1, <4>2, <4>3 DEF ViewBooks
    <3> QED BY <2>1, <3>1, <3>2, <3>3 DEF Quiet
  <2>2. Onward(q) => LeadsOn(p, q, n, h, h)
    BY <2>1 DEF LeadsOn
  <2> QED BY <1>2, <2>2, ViewShift DEF Quiet
<1>11. EndBooks(p, h)
  <2>1. h # "recovering"
    BY <1>2 DEF EndBooks
  <2> QED BY <1>2, <2>1, EndShift DEF Quiet
<1>12. DoneBooks(p, h, g)
  <2>1. h = "waiting_for_approval" => \A k \in 1..Safe : g[k] = "completed"
    BY <1>2 DEF DoneBooks
  <2> QED BY <1>2, <2>1, DoneShift DEF Quiet
<1>13. ReportBooks(p, y)
  <2>1. p # <<>> => 1 \in DOMAIN p
    BY <1>4
  <2>2. n > 0 /\ 1 \in DOMAIN p => p # <<>>
    OBVIOUS
  <2> QED BY <1>1, <1>2, <1>5, <2>2 DEF ReportBooks, Quiet
<1>14. EventBooks(p, g, events)
  <2>1. \A m \in Nodes : g[m] = "completed" => <<"completed", m>> \in events
    BY <1>1, <1>2 DEF EventBooks, Notes
  <2>2. ASSUME NEW i \in DOMAIN p, i > n, p[i][1] = "status", p[i][3] = "completed"
        PROVE  i + 1 \in DOMAIN p /\ Notes(p[i + 1], p[i][2])
    BY <1>2, <2>2, NotesShift
  <2> QED BY <1>3, <1>4, <2>1, <2>2 DEF EventBooks, Quiet
<1> QED BY <1>5, <1>6, <1>8, <1>9, <1>10, <1>11, <1>12, <1>13, <1>14 DEF Books

(* A command at an operation that neither writes nor is fatal has nothing  *)
(* fatal ahead, owes the ledger nothing, and shows the graph.              *)
Clear(q, y, g, events) ==
  /\ Heading(q, y) = y.state /\ y.graph = g /\ ~Failing(q)
  /\ (Broken(g) <=> y.state = "failed")
  /\ \A m \in Nodes : g[m] = "completed" => <<"completed", m>> \in events

(* Every such command is clear.                                            *)
LEMMA Clearing ==
  ASSUME NEW p, NEW q, NEW n, Shift(p, q, n), NEW y, NEW g, NEW events, Books(q, y, g, events),
         ~Writes(q[1]), ~Fatal(q[1])
  PROVE  Clear(q, y, g, events)
<1>1. Heading(q, y) = y.state /\ y.graph = g
  BY DEF Heading, Writes, Books, CopyBooks, Shift
<1>2. ~Failing(q)
  <2> SUFFICES ASSUME NEW i \in DOMAIN q, Fatal(q[i]) PROVE FALSE
    BY DEF Failing
  <2>1. i > 1 /\ 1 \in DOMAIN q
    BY DEF Shift
  <2> QED BY <2>1 DEF Books, ActBooks, Guarded
<1>3. Broken(g) <=> y.state = "failed"
  BY <1>1, <1>2 DEF Books, FailBooks
<1>4. \A m \in Nodes : g[m] = "completed" => <<"completed", m>> \in events
  BY DEF Books, EventBooks, Notes, Writes
<1> QED BY <1>1, <1>2, <1>3, <1>4 DEF Clear

(* The books of a mission at rest.                                         *)
LEMMA RestBooks ==
  ASSUME NEW y, NEW g, NEW events
  PROVE  Books(<<>>, y, g, events) <=>
           /\ y.graph = g /\ (Broken(g) <=> y.state = "failed")
           /\ y.state \notin {"recovering", "verifying"}
           /\ y.state = "waiting_for_approval" => \A k \in 1..Safe : g[k] = "completed"
           /\ y.state = "completed" => y.report
           /\ \A m \in Nodes : g[m] = "completed" => <<"completed", m>> \in events
<1>1. Heading(<<>>, y) = y.state /\ \A i \in DOMAIN <<>> : FALSE
  BY DEF Heading
<1>2. ~Failing(<<>>) /\ ~Ends(<<>>, 0) /\ 2 \notin DOMAIN <<>>
  BY <1>1 DEF Failing, Ends
<1>3. CopyBooks(<<>>, y, g) <=> y.graph = g
  BY <1>1 DEF CopyBooks
<1>4. FailBooks(<<>>, y.state, g) <=> (Broken(g) <=> y.state = "failed")
  BY <1>1, <1>2 DEF FailBooks
<1>5. ActBooks(<<>>, y.state) /\ ViewBooks(<<>>, y.state)
  BY <1>1 DEF ActBooks, ViewBooks
<1>6. EndBooks(<<>>, y.state) <=> y.state \notin {"recovering", "verifying"}
  BY <1>1, <1>2 DEF EndBooks
<1>7. DoneBooks(<<>>, y.state, g) <=>
        (y.state = "waiting_for_approval" => \A k \in 1..Safe : g[k] = "completed")
  BY <1>1 DEF DoneBooks
<1>8. ReportBooks(<<>>, y) <=> (y.state = "completed" => y.report)
  BY <1>1 DEF ReportBooks
<1>9. EventBooks(<<>>, g, events) <=>
        \A m \in Nodes : g[m] = "completed" => <<"completed", m>> \in events
  BY <1>1, <1>2 DEF EventBooks
<1> QED BY <1>1, <1>3, <1>4, <1>5, <1>6, <1>7, <1>8, <1>9 DEF Books

(* A mission that is not verifying is in order without its command.        *)
LEMMA EndedBooks ==
  ASSUME NEW p, NEW q, NEW n, Shift(p, q, n), NEW y, NEW g, NEW events, Books(q, y, g, events),
         ~Writes(q[1]), ~Fatal(q[1]), q[1][1] # "report", y.state # "verifying"
  PROVE  Books(<<>>, y, g, events)
<1>1. Clear(q, y, g, events)
  BY Clearing
<1>2. y.state # "recovering" /\ (y.state = "waiting_for_approval" => \A k \in 1..Safe : g[k] = "completed")
  BY <1>1 DEF Books, EndBooks, DoneBooks, Clear
<1>3. y.state = "completed" => y.report
  BY <1>1 DEF Books, ReportBooks, Clear, Writes
<1> QED BY <1>1, <1>2, <1>3, RestBooks DEF Clear

(* The note of a node is made.                                             *)
LEMMA NoteDone ==
  ASSUME NEW p, NEW q, Shift(p, q, 0), NEW y, NEW g, NEW events, Books(q, y, g, events), q[1][1] = "note"
  PROVE  Books(p, y, g, events \union {<<q[1][2], q[1][3]>>})
<1> DEFINE h == y.state
           e == events \union {<<q[1][2], q[1][3]>>}
<1>0. 0 \in Nat /\ \A i \in DOMAIN p : ~(i <= 0)
  BY DEF Shift
<1>1. Heading(q, y) = h /\ ~Fatal(q[1]) /\ Writes(q[1]) /\ q # <<>> /\ 1 \in DOMAIN q /\ Mild(q[1])
  BY DEF Heading, Writes, Fatal, Shift, Mild
<1>2. /\ CopyBooks(q, y, g) /\ FailBooks(q, h, g) /\ ActBooks(q, h) /\ ViewBooks(q, h)
      /\ EndBooks(q, h) /\ DoneBooks(q, h, g) /\ ReportBooks(q, y) /\ EventBooks(q, g, events)
  BY <1>1 DEF Books
<1>3. \A i \in DOMAIN p : p[i][1] \notin {"putYaml", "putGraph"}
  BY <1>0, <1>2 DEF CopyBooks, Shift
<1>4. p # <<>> => 1 \in DOMAIN p
  BY DEF Shift
<1>5. Heading(p, y) = h
  BY <1>3, <1>4 DEF Heading
<1>6. CopyBooks(p, y, g)
  BY <1>1, <1>2, <1>3, <1>4 DEF CopyBooks
<1>7. FailBooks(p, h, g)
  <2>1. h = "failed" => Broken(g) /\ Deciding(q[1])
    BY <1>1, <1>2 DEF FailBooks
  <2>2. Broken(g) => h = "failed" \/ Failing(q)
    BY <1>2 DEF FailBooks
  <2>3. Failing(q) => Broken(g)
    BY <1>1, <1>2 DEF FailBooks
  <2>4. h # "failed"
    BY <2>1 DEF Deciding
  <2>5. Failing(q) => p # <<>>
    <3> SUFFICES ASSUME NEW i \in DOMAIN q, Fatal(q[i]) PROVE p # <<>>
      BY DEF Failing
    <3>1. i # 1 /\ i > 1
      BY <1>1 DEF Shift
    <3>2. PICK k \in DOMAIN p : TRUE
      BY <3>1 DEF Shift
    <3> QED BY <3>2
  <2>6. Failing(q) => p[1][1] # "putGraph"
    BY <1>3, <1>4, <2>5
  <2> QED BY <1>0, <1>1, <1>2, <2>2, <2>3, <2>4, <2>6, FailShift
<1>8. ActBooks(p, h)
  BY <1>0, <1>2, ActShift
<1>9. ViewBooks(p, h)
  <2>1. Onward(q) => LeadsOn(p, q, 0, h, h)
    BY <1>0 DEF LeadsOn
  <2> QED BY <1>0, <1>2, <2>1, ViewShift
<1>10. EndBooks(p, h)
  <2>1. h # "recovering"
    BY <1>2 DEF EndBooks
  <2> QED BY <1>0, <1>1, <1>2, <2>1, EndShift
<1>11. DoneBooks(p, h, g)
  <2>1. h = "waiting_for_approval" => \A k \in 1..Safe : g[k] = "completed"
    BY <1>2 DEF DoneBooks
  <2>2. \A k \in 1..Safe : ~Completes(q[1], k)
    BY DEF Completes
  <2> QED BY <1>0, <1>2, <2>1, <2>2, DoneShift
<1>12. ReportBooks(p, y)
  BY <1>1, <1>2, <1>5 DEF ReportBooks
<1>13. EventBooks(p, g, e)
  <2>1. \A m \in Nodes : g[m] = "completed" => <<"completed", m>> \in e
    BY <1>1, <1>2 DEF EventBooks, Notes
  <2>2. ASSUME NEW i \in DOMAIN p, p[i][1] = "status", p[i][3] = "completed"
        PROVE  i + 1 \in DOMAIN p /\ Notes(p[i + 1], p[i][2])
    <3>1. i > 0
      BY DEF Shift
    <3> QED BY <1>0, <1>2, <2>2, <3>1, NotesShift
  <2> QED BY <1>3, <1>4, <2>1, <2>2 DEF EventBooks
<1> QED BY <1>5, <1>6, <1>7, <1>8, <1>9, <1>10, <1>11, <1>12, <1>13 DEF Books

(* Where a head that writes stood nothing needs to stand.                  *)
LEMMA YamlPut ==
  ASSUME NEW p, NEW q, Shift(p, q, 0), NEW y, NEW g, NEW events, Books(q, y, g, events), q[1][1] = "putYaml"
  PROVE  Books(p, q[1][2], g, events)
<1> DEFINE h == q[1][2].state
<1>0. 0 \in Nat /\ \A i \in DOMAIN p : i > 0 /\ ~(i <= 0)
  BY DEF Shift
<1>1. Heading(q, y) = h /\ ~Fatal(q[1]) /\ Writes(q[1]) /\ q # <<>> /\ 1 \in DOMAIN q /\ Mild(q[1])
  BY DEF Heading, Writes, Fatal, Shift, Mild
<1>2. /\ CopyBooks(q, y, g) /\ FailBooks(q, h, g) /\ ActBooks(q, h) /\ ViewBooks(q, h)
      /\ EndBooks(q, h) /\ DoneBooks(q, h, g) /\ ReportBooks(q, y) /\ EventBooks(q, g, events)
  BY <1>1 DEF Books
<1>3. \A i \in DOMAIN p : p[i][1] \notin {"putYaml", "putGraph"}
  <2> SUFFICES ASSUME NEW i \in DOMAIN p PROVE p[i][1] \notin {"putYaml", "putGraph"}
    OBVIOUS
  <2>1. PICK k \in DOMAIN q : k > 1 /\ p[i] = q[k]
    BY <1>0 DEF Shift
  <2>2. k # 1
    BY <2>1 DEF Shift
  <2> QED BY <1>2, <2>1, <2>2 DEF CopyBooks
<1>4. p # <<>> => 1 \in DOMAIN p
  BY DEF Shift
<1>5. Heading(p, q[1][2]) = h
  BY <1>3, <1>4 DEF Heading
<1>6. q[1][2].graph = g /\ (y.report => q[1][2].report)
  BY <1>1, <1>2 DEF CopyBooks
<1>7. CopyBooks(p, q[1][2], g)
  BY <1>3, <1>4, <1>6 DEF CopyBooks
<1>8. FailBooks(p, h, g)
  <2>1. h = "failed" => Broken(g)
    BY <1>2 DEF FailBooks
  <2>2. Broken(g) => h = "failed" \/ Failing(q)
    BY <1>2 DEF FailBooks
  <2>3. Failing(q) => Broken(g)
    BY <1>1, <1>2 DEF FailBooks
  <2>4. Failing(q) => p # <<>>
    <3> SUFFICES ASSUME NEW i \in DOMAIN q, Fatal(q[i]) PROVE p # <<>>
      BY DEF Failing
    <3>1. i # 1 /\ i > 1
      BY <1>1 DEF Shift
    <3>2. PICK k \in DOMAIN p : TRUE
      BY <3>1 DEF Shift
    <3> QED BY <3>2
  <2>5. Failing(q) => p[1][1] # "putGraph"
    BY <1>3, <1>4, <2>4
  <2> QED BY <1>0, <1>1, <1>2, <2>1, <2>2, <2>3, <2>5, FailShift
<1>9. ActBooks(p, h)
  BY <1>0, <1>2, ActShift
<1>10. ViewBooks(p, h)
  <2>1. Onward(q) => LeadsOn(p, q, 0, h, h)
    BY <1>0 DEF LeadsOn
  <2> QED BY <1>0, <1>2, <2>1, ViewShift
<1>11. EndBooks(p, h)
  <2>1. h # "recovering"
    BY <1>2 DEF EndBooks
  <2> QED BY <1>0, <1>1, <1>2, <2>1, EndShift
<1>12. DoneBooks(p, h, g)
  <2>1. h = "waiting_for_approval" => \A k \in 1..Safe : g[k] = "completed"
    BY <1>2 DEF DoneBooks
  <2>2. \A k \in 1..Safe : ~Completes(q[1], k)
    BY DEF Completes
  <2> QED BY <1>0, <1>2, <2>1, <2>2, DoneShift
<1>13. 2 \in DOMAIN q => 1 \in DOMAIN p /\ p[1] = q[2] /\ p # <<>>
  <2> SUFFICES ASSUME 2 \in DOMAIN q PROVE 1 \in DOMAIN p /\ p[1] = q[2]
    OBVIOUS
  <2>1. PICK i \in DOMAIN p : i = 2 + 0 - 1 /\ p[i] = q[2]
    BY DEF Shift
  <2> QED BY <2>1
<1>14. ReportBooks(p, q[1][2])
  <2>1. ASSUME h = "completed"
        PROVE  q[1][2].report \/ (2 \in DOMAIN q /\ q[2][1] = "report")
    BY <1>1, <1>2, <1>6, <2>1 DEF ReportBooks
  <2> QED BY <1>5, <1>13, <2>1 DEF ReportBooks
<1>15. EventBooks(p, g, events)
  <2>1. \A m \in Nodes : g[m] = "completed" =>
          <<"completed", m>> \in events \/ (2 \in DOMAIN q /\ Notes(q[2], m))
    BY <1>1, <1>2 DEF EventBooks, Notes
  <2>2. \A m \in Nodes : g[m] = "completed" =>
          <<"completed", m>> \in events \/ (p # <<>> /\ Notes(p[1], m))
    BY <1>13, <2>1
  <2>3. ASSUME NEW i \in DOMAIN p, p[i][1] = "status", p[i][3] = "completed"
        PROVE  i + 1 \in DOMAIN p /\ Notes(p[i + 1], p[i][2])
    BY <1>0, <1>2, <2>3, NotesShift
  <2> QED BY <1>3, <1>4, <2>2, <2>3 DEF EventBooks
<1> QED BY <1>5, <1>7, <1>8, <1>9, <1>10, <1>11, <1>12, <1>14, <1>15 DEF Books

(* The write of graph.json is made.                                        *)
LEMMA GraphPut ==
  ASSUME NEW p, NEW q, Shift(p, q, 0), NEW y, NEW g, NEW events, Books(q, y, g, events), q[1][1] = "putGraph",
         \A m \in Nodes : g[m] = "completed" => q[1][2][m] = "completed"
  PROVE  Books(p, y, q[1][2], events)
<1> DEFINE h == y.state
           G == q[1][2]
<1>0. 0 \in Nat /\ \A i \in DOMAIN p : i > 0 /\ ~(i <= 0)
  BY DEF Shift
<1>1. Heading(q, y) = h /\ ~Fatal(q[1]) /\ Writes(q[1]) /\ q # <<>> /\ 1 \in DOMAIN q /\ Mild(q[1])
  BY DEF Heading, Writes, Fatal, Shift, Mild
<1>2. /\ CopyBooks(q, y, g) /\ FailBooks(q, h, g) /\ ActBooks(q, h) /\ ViewBooks(q, h)
      /\ EndBooks(q, h) /\ DoneBooks(q, h, g) /\ ReportBooks(q, y) /\ EventBooks(q, g, events)
  BY <1>1 DEF Books
<1>3. /\ 2 \in DOMAIN q /\ q[2][1] = "putYaml"
      /\ q[2][2].graph = G /\ q[2][2].state = h /\ q[2][2].report = y.report
  BY <1>1, <1>2 DEF CopyBooks
<1>4. 1 \in DOMAIN p /\ p[1] = q[2] /\ p # <<>>
  <2>1. PICK i \in DOMAIN p : i = 2 + 0 - 1 /\ p[i] = q[2]
    BY <1>3 DEF Shift
  <2> QED BY <2>1
<1>5. \A i \in DOMAIN p : p[i][1] # "putGraph" /\ (p[i][1] = "putYaml" => i = 1)
  <2> SUFFICES ASSUME NEW i \in DOMAIN p PROVE p[i][1] # "putGraph" /\ (p[i][1] = "putYaml" => i = 1)
    OBVIOUS
  <2>1. PICK k \in DOMAIN q : k > 1 /\ i = k + 0 - 1 /\ p[i] = q[k]
    BY <1>0 DEF Shift
  <2>2. k # 1 /\ (k = 2 => i = 1)
    BY <2>1 DEF Shift
  <2> QED BY <1>2, <2>1, <2>2 DEF CopyBooks
<1>6. Heading(p, y) = h
  BY <1>3, <1>4 DEF Heading
<1>7. CopyBooks(p, y, G)
  BY <1>3, <1>4, <1>5 DEF CopyBooks
<1>8. FailBooks(p, h, G)
  <2>1. h # "failed"
    BY <1>1, <1>2 DEF FailBooks, Deciding
  <2>2. Broken(G) => Failing(q)
    BY <1>1, <1>2 DEF FailBooks, Breaks
  <2>3. Failing(q) => Broken(G)
    BY <1>1, <1>2 DEF FailBooks
  <2> QED BY <1>0, <1>1, <1>2, <1>3, <1>4, <2>1, <2>2, <2>3, FailShift
<1>9. ActBooks(p, h)
  BY <1>0, <1>2, ActShift
<1>10. ViewBooks(p, h)
  <2>1. Onward(q) => LeadsOn(p, q, 0, h, h)
    BY <1>0 DEF LeadsOn
  <2> QED BY <1>0, <1>2, <2>1, ViewShift
<1>11. EndBooks(p, h)
  <2>1. h # "recovering"
    BY <1>2 DEF EndBooks
  <2> QED BY <1>0, <1>1, <1>2, <2>1, EndShift
<1>12. DoneBooks(p, h, G)
  <2>0. \A k \in 1..Safe : g[k] = "completed" => G[k] = "completed"
    BY NodesKnown
  <2>1. h = "waiting_for_approval" => \A k \in 1..Safe : G[k] = "completed"
    BY <1>2, <2>0 DEF DoneBooks
  <2>2. \A k \in 1..Safe : Completes(q[1], k) => G[k] = "completed"
    BY DEF Completes
  <2> QED BY <1>0, <1>2, <2>0, <2>1, <2>2, DoneShift
<1>13. ReportBooks(p, y)
  BY <1>1, <1>2, <1>3, <1>4, <1>6 DEF ReportBooks
<1>14. EventBooks(p, G, events)
  <2>1. 3 \in DOMAIN q => 2 \in DOMAIN p /\ p[2] = q[3]
    <3> SUFFICES ASSUME 3 \in DOMAIN q PROVE 2 \in DOMAIN p /\ p[2] = q[3]
      OBVIOUS
    <3>1. PICK i \in DOMAIN p : i = 3 + 0 - 1 /\ p[i] = q[3]
      BY DEF Shift
    <3> QED BY <3>1
  <2>2. \A m \in Nodes : g[m] = "completed" => <<"completed", m>> \in events
    BY <1>1, <1>2 DEF EventBooks, Notes
  <2>3. \A m \in Nodes : G[m] = "completed" =>
          <<"completed", m>> \in events \/ (2 \in DOMAIN p /\ Notes(p[2], m))
    BY <1>1, <1>2, <2>1, <2>2 DEF EventBooks
  <2>4. ASSUME NEW i \in DOMAIN p, p[i][1] = "status", p[i][3] = "completed"
        PROVE  i + 1 \in DOMAIN p /\ Notes(p[i + 1], p[i][2])
    BY <1>0, <1>2, <2>4, NotesShift
  <2> QED BY <1>3, <1>4, <1>5, <2>3, <2>4 DEF EventBooks
<1> QED BY <1>6, <1>7, <1>8, <1>9, <1>10, <1>11, <1>12, <1>13, <1>14 DEF Books

(* A status given to a node becomes the two writes of it.                  *)
LEMMA StatusSet ==
  ASSUME NEW p, NEW q, Shift(p, q, 2), NEW y \in Yaml, NEW g \in [Nodes -> Statuses], NEW events,
         Books(q, y, g, events), NEW n \in Nodes, NEW s, q[1] = Status(n, s),
         NEW G, G = [g EXCEPT ![n] = s], NEW Y, Y = [y EXCEPT !.graph = G],
         1 \in DOMAIN p, 2 \in DOMAIN p, p[1] = PutGraph(G), p[2] = PutYaml(Y),
         s # "completed" => g[n] # "completed"
  PROVE  Books(p, y, g, events)
<1> DEFINE h == y.state
<1>0. /\ 2 \in Nat /\ p # <<>>
      /\ \A i \in DOMAIN p : i <= 2 => i = 1 \/ i = 2
  BY DEF Shift
<1>1. /\ Heading(q, y) = h /\ ~Fatal(q[1]) /\ Writes(q[1]) /\ q # <<>> /\ 1 \in DOMAIN q /\ Mild(q[1])
      /\ q[1][1] = "status" /\ q[1][2] = n /\ q[1][3] = s
  BY DEF Heading, Writes, Fatal, Shift, Mild, Status
<1>2. /\ CopyBooks(q, y, g) /\ FailBooks(q, h, g) /\ ActBooks(q, h) /\ ViewBooks(q, h)
      /\ EndBooks(q, h) /\ DoneBooks(q, h, g) /\ ReportBooks(q, y) /\ EventBooks(q, g, events)
  BY <1>1 DEF Books
<1>3. /\ p[1][1] = "putGraph" /\ p[1][2] = G /\ p[2][1] = "putYaml" /\ p[2][2] = Y
      /\ Y.graph = G /\ Y.state = h /\ Y.report = y.report
  BY DEF PutGraph, PutYaml, Yaml
<1>4. \A m \in Nodes : G[m] = IF m = n THEN s ELSE g[m]
  OBVIOUS
<1>5. \A i \in DOMAIN p : i <= 2 \/ (i > 2 /\ p[i][1] \notin {"putYaml", "putGraph"})
  <2> SUFFICES ASSUME NEW i \in DOMAIN p, i > 2 PROVE p[i][1] \notin {"putYaml", "putGraph"}
    BY DEF Shift
  <2>1. PICK k \in DOMAIN q : k > 1 /\ p[i] = q[k]
    BY DEF Shift
  <2>2. k # 1
    BY <2>1 DEF Shift
  <2> QED BY <1>1, <1>2, <2>1, <2>2 DEF CopyBooks
<1>6. Heading(p, y) = h
  BY <1>3 DEF Heading
<1>7. CopyBooks(p, y, g)
  BY <1>0, <1>1, <1>2, <1>3, <1>5 DEF CopyBooks
<1>8. FailBooks(p, h, g)
  <2>1. h # "failed"
    BY <1>1, <1>2 DEF FailBooks, Deciding
  <2>2. Broken(g) => Failing(q)
    BY <1>2, <2>1 DEF FailBooks
  <2>3. Failing(q) => Broken(G)
    <3>1. Failing(q) => s = "failed"
      BY <1>1, <1>2 DEF FailBooks
    <3> QED BY <1>4, <3>1 DEF Broken
  <2>4. Broken(G) => Failing(q)
    <3>1. Broken(G) => s = "failed" \/ Broken(g)
      BY <1>4 DEF Broken
    <3>2. s = "failed" => Failing(q)
      BY <1>1, <1>2 DEF FailBooks, Breaks
    <3> QED BY <2>2, <3>1, <3>2
  <2>5. \A i \in DOMAIN p : i <= 2 =>
          /\ ~Fatal(p[i]) /\ Unbroken(p[i]) /\ p[i][1] # "status"
          /\ Breaks(p[i]) => Failing(q)
    BY <1>0, <1>3, <2>4 DEF Fatal, Unbroken, Breaks
  <2> HIDE DEF h
  <2> QED BY <1>0, <1>1, <1>2, <1>3, <2>1, <2>2, <2>3, <2>5, FailShift
<1>9. ActBooks(p, h)
  <2>1. \A i \in DOMAIN p : i <= 2 => Writes(p[i]) /\ ~Guarded(p[i])
    BY <1>0, <1>3 DEF Writes, Guarded, Fatal
  <2> QED BY <1>0, <1>2, <2>1, ActShift
<1>10. ViewBooks(p, h)
  <2>1. \A i \in DOMAIN p : i <= 2 => p[i][1] \notin {"view", "move", "ensure"}
    BY <1>0, <1>3
  <2>2. Onward(q) => LeadsOn(p, q, 2, h, h)
    BY <1>1, <2>1 DEF LeadsOn
  <2> QED BY <1>0, <1>2, <2>1, <2>2, ViewShift
<1>11. EndBooks(p, h)
  <2>1. h # "recovering"
    BY <1>2 DEF EndBooks
  <2>2. \A i \in DOMAIN p : i <= 2 => Mild(p[i]) /\ ~Reaches(p[i], "recovering") /\ ~Reaches(p[i], "verifying")
    BY <1>0, <1>3 DEF Mild, Writes, Reaches
  <2> QED BY <1>0, <1>1, <1>2, <2>1, <2>2, EndShift
<1>12. DoneBooks(p, h, g)
  <2>1. h = "waiting_for_approval" => \A k \in 1..Safe : g[k] = "completed"
    BY <1>2 DEF DoneBooks
  <2>2. \A k \in 1..Safe : Completes(q[1], k) => Completes(p[1], k)
    BY <1>1, <1>3, <1>4, NodesKnown DEF Completes
  <2>3. \A i \in DOMAIN p : i <= 2 => \A k \in 1..Safe : ~Assumes(p[i], k)
    BY <1>0, <1>3 DEF Assumes, Reaches
  <2>4. \A k \in 1..Safe : Completes(q[1], k) => \E j \in DOMAIN p : j <= 2 /\ Completes(p[j], k)
    <3>1. 1 <= 2
      OBVIOUS
    <3> QED BY <2>2, <3>1, Zenon
  <2> HIDE DEF h
  <2> QED BY <1>0, <1>2, <2>1, <2>3, <2>4, DoneShift
<1>13. ReportBooks(p, y)
  BY <1>1, <1>2, <1>6 DEF ReportBooks
<1>14. EventBooks(p, g, events)
  <2>1. 2 \in DOMAIN q => 3 \in DOMAIN p /\ p[3] = q[2]
    <3> SUFFICES ASSUME 2 \in DOMAIN q PROVE 3 \in DOMAIN p /\ p[3] = q[2]
      OBVIOUS
    <3>1. PICK i \in DOMAIN p : i = 2 + 2 - 1 /\ p[i] = q[2]
      BY DEF Shift
    <3> QED BY <3>1
  <2>2. \A m \in Nodes : g[m] = "completed" => <<"completed", m>> \in events
    BY <1>1, <1>2 DEF EventBooks, Notes
  <2>3. s = "completed" => 2 \in DOMAIN q /\ Notes(q[2], n)
    <3>1. s = "completed" => 1 + 1 \in DOMAIN q /\ Notes(q[1 + 1], n)
      BY <1>1, <1>2 DEF EventBooks
    <3> QED BY <3>1
  <2>4. \A m \in Nodes : G[m] = "completed" =>
          g[m] = "completed" \/ (3 \in DOMAIN p /\ Notes(p[3], m))
    BY <1>4, <2>1, <2>3
  <2>5. ASSUME NEW i \in DOMAIN p, p[i][1] = "status", p[i][3] = "completed"
        PROVE  i + 1 \in DOMAIN p /\ Notes(p[i + 1], p[i][2])
    <3>1. i > 2
      BY <1>0, <1>3, <1>5, <2>5
    <3> QED BY <1>0, <1>2, <2>5, <3>1, NotesShift
  <2> QED BY <1>3, <2>2, <2>4, <2>5 DEF EventBooks
<1> QED BY <1>6, <1>7, <1>8, <1>9, <1>10, <1>11, <1>12, <1>13, <1>14 DEF Books

(* The mission is moved: its new state is about to be written.             *)
LEMMA Moved ==
  ASSUME NEW p, NEW q, NEW n \in {1, 2}, Shift(p, q, n), NEW y \in Yaml, NEW g, NEW events,
         Books(q, y, g, events), NEW s, q[1] = Move(s), CanTransition(y.state, s),
         NEW Y, Y = [y EXCEPT !.state = s], 1 \in DOMAIN p, p[1] = PutYaml(Y),
         (s = "completed" /\ ~y.report) <=> n = 2,
         n = 2 => 2 \in DOMAIN p /\ p[2] = Report
  PROVE  Books(p, y, g, events)
<1> DEFINE h == y.state
<1>0. /\ n \in Nat /\ p # <<>>
      /\ \A i \in DOMAIN p : i <= n => i = 1 \/ (n = 2 /\ i = 2)
  BY DEF Shift
<1>1. /\ Heading(q, y) = h /\ ~Writes(q[1]) /\ q # <<>> /\ 1 \in DOMAIN q /\ ~Mild(q[1])
      /\ q[1][1] = "move" /\ q[1][2] = s
  BY DEF Heading, Writes, Shift, Mild, Move
<1>2. /\ CopyBooks(q, y, g) /\ FailBooks(q, h, g) /\ ActBooks(q, h) /\ ViewBooks(q, h)
      /\ EndBooks(q, h) /\ DoneBooks(q, h, g) /\ ReportBooks(q, y) /\ EventBooks(q, g, events)
  BY <1>1 DEF Books
<1>3. /\ p[1][1] = "putYaml" /\ p[1][2] = Y /\ (n = 2 => p[2][1] = "report")
      /\ Y.graph = y.graph /\ Y.state = s /\ Y.report = y.report
  BY DEF PutYaml, Yaml, Report
<1>4. \A i \in DOMAIN p : i <= n => p[i][1] \in {"putYaml", "report"}
  BY <1>0, <1>3
<1>5. \A i \in DOMAIN p : i <= n \/ (i > n /\ p[i][1] \notin {"putYaml", "putGraph"})
  <2> SUFFICES ASSUME NEW i \in DOMAIN p, i > n PROVE p[i][1] \notin {"putYaml", "putGraph"}
    BY <1>0 DEF Shift
  <2>1. PICK k \in DOMAIN q : k > 1 /\ p[i] = q[k]
    BY DEF Shift
  <2>2. k # 1
    BY <2>1 DEF Shift
  <2> QED BY <1>1, <1>2, <2>1, <2>2 DEF CopyBooks
<1>6. Heading(p, y) = s
  BY <1>0, <1>3 DEF Heading
<1>7. CopyBooks(p, y, g)
  <2>1. y.graph = g
    BY <1>1, <1>2 DEF CopyBooks
  <2>2. \A i \in DOMAIN p : p[i][1] # "putGraph" /\ (p[i][1] = "putYaml" => i = 1)
    BY <1>0, <1>3, <1>5
  <2> QED BY <1>0, <1>3, <2>1, <2>2 DEF CopyBooks
<1>8. FailBooks(p, s, g)
  <2>1. h # "failed"
    BY <1>1, <1>2 DEF FailBooks, Deciding
  <2>2. Fatal(q[1]) <=> s = "failed"
    BY <1>1 DEF Fatal
  <2>3. Failing(q) => Fatal(q[1])
    <3> SUFFICES ASSUME NEW i \in DOMAIN q, Fatal(q[i]), i # 1 PROVE FALSE
      BY DEF Failing
    <3>1. 1 < i
      BY DEF Shift
    <3> QED BY <1>1, <1>2, <3>1 DEF ActBooks, Guarded
  <2>4. s = "failed" => Broken(g) /\ Len(q) = 1
    <3> SUFFICES ASSUME Fatal(q[1]) PROVE Broken(g) /\ Len(q) = 1
      BY <2>2
    <3>1. Failing(q)
      BY <1>1 DEF Failing
    <3> QED BY <1>1, <1>2, <3>1 DEF FailBooks
  <2>5. Broken(g) => s = "failed"
    BY <1>2, <2>1, <2>2, <2>3 DEF FailBooks
  <2>6. \A i \in DOMAIN p : i <= n => Deciding(p[i]) /\ ~Fatal(p[i]) /\ Unbroken(p[i]) /\ ~Breaks(p[i])
    BY <1>4 DEF Deciding, Fatal, Unbroken, Breaks
  <2> HIDE DEF h
  <2> QED BY <1>0, <1>2, <2>3, <2>4, <2>5, <2>6, FailShift
<1>9. ActBooks(p, s)
  <2>1. \A i \in DOMAIN p : i <= n => ~Guarded(p[i])
    BY <1>4 DEF Guarded, Fatal
  <2> QED BY <1>0, <1>1, <1>2, <2>1, ActShift
<1>10. ViewBooks(p, s)
  <2>1. \A i \in DOMAIN p : i <= n => p[i][1] \notin {"view", "move", "ensure"}
    BY <1>4
  <2>2. h = "running" => s \notin {"planning", "running"}
    BY DEF CanTransition, Transitions
  <2>3. h = "waiting_for_approval" /\ s \in {"planning", "running"} => s = "running"
    BY DEF CanTransition, Transitions
  <2>4. Onward(q) => LeadsOn(p, q, n, h, s)
    BY <1>1, <2>1, <2>2, <2>3 DEF LeadsOn, Onward
  <2> QED BY <1>0, <1>2, <2>1, <2>4, ViewShift
<1>11. EndBooks(p, s)
  <2>1. s # "recovering"
    BY <1>1, <1>2 DEF EndBooks, Reaches
  <2>2. \A i \in DOMAIN p : i <= n => ~Reaches(p[i], "recovering") /\ ~Reaches(p[i], "verifying")
    BY <1>4 DEF Reaches
  <2>3. s = "verifying" => Reaches(q[1], "verifying") /\ \A j \in DOMAIN p : j <= n => Mild(p[j])
    BY <1>0, <1>1, <1>3 DEF Reaches, Mild, Writes
  <2> QED BY <1>0, <1>2, <2>1, <2>2, <2>3, EndShift
<1>12. DoneBooks(p, s, g)
  <2>1. s = "waiting_for_approval" => \A k \in 1..Safe : g[k] = "completed"
    <3> SUFFICES ASSUME s = "waiting_for_approval", NEW k \in 1..Safe PROVE g[k] = "completed"
      OBVIOUS
    <3>1. Assumes(q[1], k)
      BY <1>1 DEF Assumes, Reaches
    <3>2. \A j \in DOMAIN q : ~(j < 1)
      BY DEF Shift
    <3> QED BY <1>1, <1>2, <3>1, <3>2 DEF DoneBooks
  <2>2. \A k \in 1..Safe : ~Completes(q[1], k)
    BY <1>1 DEF Completes
  <2>3. \A i \in DOMAIN p : i <= n => \A k \in 1..Safe : ~Assumes(p[i], k)
    BY <1>4 DEF Assumes, Reaches
  <2> HIDE DEF h
  <2> QED BY <1>0, <1>2, <2>1, <2>2, <2>3, DoneShift
<1>13. ReportBooks(p, y)
  BY <1>0, <1>3, <1>6 DEF ReportBooks
<1>14. EventBooks(p, g, events)
  <2>1. \A m \in Nodes : g[m] = "completed" => <<"completed", m>> \in events
    BY <1>1, <1>2 DEF EventBooks, Notes
  <2>2. ASSUME NEW i \in DOMAIN p, p[i][1] = "status", p[i][3] = "completed"
        PROVE  i + 1 \in DOMAIN p /\ Notes(p[i + 1], p[i][2])
    <3>1. i > n
      BY <1>4, <1>5, <2>2
    <3> QED BY <1>0, <1>2, <2>2, <3>1, NotesShift
  <2> QED BY <1>3, <2>1, <2>2 DEF EventBooks
<1> QED BY <1>6, <1>7, <1>8, <1>9, <1>10, <1>11, <1>12, <1>13, <1>14 DEF Books

(* Operations that may be set out on from books in order.                  *)
Opens(p, y, g) ==
  /\ p # <<>> => 1 \in DOMAIN p
  /\ \A i \in DOMAIN p :
       /\ p[i][1] \notin {"putGraph", "putYaml"} /\ ~Guarded(p[i]) /\ ~Breaks(p[i]) /\ Unbroken(p[i])
       /\ p[i][1] = "status" => p[i][3] # "completed"
       /\ ~Reaches(p[i], "recovering") /\ ~Reaches(p[i], "verifying")
       /\ y.state = "failed" => Deciding(p[i])
       /\ \A k \in 1..Safe : Assumes(p[i], k) =>
            g[k] = "completed" \/ \E j \in DOMAIN p : j < i /\ Completes(p[j], k)
  /\ ViewBooks(p, y.state)

(* Operations set out on with the books in order keep them so.             *)
LEMMA OpenedBooks ==
  ASSUME NEW p, NEW y, NEW g, NEW events, Books(<<>>, y, g, events), Opens(p, y, g)
  PROVE  Books(p, y, g, events)
<1> DEFINE h == y.state
<1>1. Heading(p, y) = h
  BY DEF Heading, Opens
<1>2. /\ y.graph = g /\ (Broken(g) <=> h = "failed")
      /\ h \notin {"recovering", "verifying"}
      /\ h = "waiting_for_approval" => \A k \in 1..Safe : g[k] = "completed"
      /\ h = "completed" => y.report
      /\ \A m \in Nodes : g[m] = "completed" => <<"completed", m>> \in events
  BY RestBooks
<1>3. CopyBooks(p, y, g)
  BY <1>2 DEF CopyBooks, Opens
<1>4. ~Failing(p)
  BY DEF Failing, Opens, Guarded
<1>5. FailBooks(p, h, g)
  BY <1>2, <1>4 DEF FailBooks, Opens, Failing
<1>6. ActBooks(p, h) /\ ViewBooks(p, h)
  BY DEF ActBooks, Opens
<1>7. EndBooks(p, h)
  BY <1>2 DEF EndBooks, Opens
<1>8. DoneBooks(p, h, g)
  BY <1>2 DEF DoneBooks, Opens
<1>9. ReportBooks(p, y)
  BY <1>1, <1>2 DEF ReportBooks
<1>10. EventBooks(p, g, events)
  BY <1>2 DEF EventBooks, Opens
<1> QED BY <1>1, <1>3, <1>5, <1>6, <1>7, <1>8, <1>9, <1>10 DEF Books

(* A node that fails, and the mission that fails with it.                  *)
LEMMA FailsNode ==
  ASSUME NEW y, NEW g, NEW events, Books(<<>>, y, g, events), y.state = "running", NEW n
  PROVE  Books(<<Status(n, "failed"), Note("failed", n), FailIfRunning>>, y, g, events)
<1>0. PICK p : p = <<Status(n, "failed"), Note("failed", n), FailIfRunning>>
  OBVIOUS
<1>1. /\ DOMAIN p = {1, 2, 3} /\ Len(p) = 3 /\ p # <<>>
      /\ p[1] = Status(n, "failed") /\ p[2] = Note("failed", n) /\ p[3] = FailIfRunning
  BY <1>0
<1>2. /\ p[1][1] = "status" /\ p[1][3] = "failed" /\ p[2][1] = "note" /\ p[2][2] = "failed"
      /\ p[3][1] = "failIfRunning"
  BY <1>1 DEF Status, Note, FailIfRunning
<1>3. Heading(p, y) = "running"
  BY <1>2 DEF Heading
<1>4. /\ y.graph = g /\ ~Broken(g)
      /\ \A m \in Nodes : g[m] = "completed" => <<"completed", m>> \in events
  BY RestBooks
<1>5. CopyBooks(p, y, g)
  BY <1>1, <1>2, <1>4 DEF CopyBooks
<1>6. Failing(p) /\ \A i \in DOMAIN p : Fatal(p[i]) <=> i = 3
  BY <1>1, <1>2 DEF Failing, Fatal
<1>7. FailBooks(p, "running", g)
  BY <1>1, <1>2, <1>4, <1>6 DEF FailBooks, Unbroken
<1>8. ActBooks(p, "running")
  BY <1>1, <1>2 DEF ActBooks, Guarded, Fatal, Ready, Writes
<1>9. ViewBooks(p, "running") /\ EndBooks(p, "running")
  BY <1>1, <1>2 DEF ViewBooks, EndBooks, Reaches
<1>10. DoneBooks(p, "running", g)
  BY <1>1, <1>2 DEF DoneBooks, Assumes, Reaches
<1>11. ReportBooks(p, y) /\ EventBooks(p, g, events)
  BY <1>1, <1>2, <1>3, <1>4 DEF ReportBooks, EventBooks
<1> QED BY <1>0, <1>3, <1>5, <1>7, <1>8, <1>9, <1>10, <1>11 DEF Books

(* A mission whose node has failed is running, and fails next.             *)
LEMMA FailsMission ==
  ASSUME NEW q, NEW y, NEW g, NEW events, Books(q, y, g, events), 1 \in DOMAIN q, q # <<>>,
         q[1][1] = "failIfRunning"
  PROVE  y.state = "running" /\ Books(<<Move("failed")>>, y, g, events)
<1>1. Heading(q, y) = y.state /\ Fatal(q[1]) /\ Failing(q)
  BY DEF Heading, Fatal, Failing
<1>2. y.state = "running"
  BY <1>1 DEF Books, ActBooks, Guarded, Ready
<1>3. y.graph = g /\ Broken(g) /\ \A m \in Nodes : g[m] = "completed" => <<"completed", m>> \in events
  BY <1>1 DEF Books, FailBooks, CopyBooks, EventBooks, Notes
<1>4. PICK p : p = <<Move("failed")>>
  OBVIOUS
<1>5. DOMAIN p = {1} /\ Len(p) = 1 /\ p # <<>> /\ p[1][1] = "move" /\ p[1][2] = "failed"
  BY <1>4 DEF Move
<1>6. Heading(p, y) = "running" /\ CopyBooks(p, y, g)
  BY <1>2, <1>3, <1>5 DEF Heading, CopyBooks
<1>7. Failing(p) /\ FailBooks(p, "running", g)
  BY <1>3, <1>5 DEF Failing, FailBooks, Fatal, Unbroken
<1>8. ActBooks(p, "running") /\ ViewBooks(p, "running") /\ EndBooks(p, "running")
  BY <1>5 DEF ActBooks, ViewBooks, EndBooks, Guarded, Ready, Reaches
<1>9. DoneBooks(p, "running", g) /\ ReportBooks(p, y) /\ EventBooks(p, g, events)
  BY <1>3, <1>5, <1>6 DEF DoneBooks, Assumes, Reaches, ReportBooks, EventBooks
<1> QED BY <1>2, <1>4, <1>6, <1>7, <1>8, <1>9 DEF Books
-----------------------------------------------------------------------------
(* One command at a time, none of which has died, and its books in order.  *)
AtWork(c) ==
  /\ ExecInv /\ serial /\ deaths = 0 /\ plans = 0
  /\ todo[c] # <<>> /\ Books(todo[c], yaml, graph, nodeEvents)

(* Operations w, or the ones listed, in the place of the first of q.       *)
InPlace(p, q, w) ==
  /\ Shift(p, q, Len(w))
  /\ \A i \in DOMAIN w : i \in DOMAIN p /\ p[i] = w[i]
  /\ \A i \in DOMAIN p : i <= Len(w) => i \in DOMAIN w
LedOne(p, q, a) == Shift(p, q, 1) /\ 1 \in DOMAIN p /\ p[1] = a /\ \A i \in DOMAIN p : i <= 1 => i = 1
LedTwo(p, q, a, b) ==
  /\ Shift(p, q, 2) /\ 1 \in DOMAIN p /\ p[1] = a /\ 2 \in DOMAIN p /\ p[2] = b
  /\ \A i \in DOMAIN p : i <= 2 => i = 1 \/ i = 2
LedThree(p, q, a, b, d) ==
  /\ Shift(p, q, 3) /\ 1 \in DOMAIN p /\ p[1] = a /\ 2 \in DOMAIN p /\ p[2] = b /\ 3 \in DOMAIN p /\ p[3] = d
  /\ \A i \in DOMAIN p : i <= 3 => i = 1 \/ i = 2 \/ i = 3
LedFour(p, q, a, b, d, e) ==
  /\ Shift(p, q, 4) /\ 1 \in DOMAIN p /\ p[1] = a /\ 2 \in DOMAIN p /\ p[2] = b
  /\ 3 \in DOMAIN p /\ p[3] = d /\ 4 \in DOMAIN p /\ p[4] = e
  /\ \A i \in DOMAIN p : i <= 4 => i = 1 \/ i = 2 \/ i = 3 \/ i = 4

(* Tuples of operations in the place of the first of q.                    *)
LEMMA Swapped ==
  ASSUME NEW q \in Seq(Ops), q # <<>>, NEW w \in Seq(Ops)
  PROVE  InPlace(w \o Tail(q), q, w)
<1>0. PICK p : p = w \o Tail(q)
  OBVIOUS
<1>1. /\ Shift(p, q, Len(w))
      /\ \A i \in DOMAIN w : i \in DOMAIN p /\ p[i] = w[i]
  BY <1>0, Shifted
<1>2. \A i \in DOMAIN p : i <= Len(w) => i \in DOMAIN w
  <2>1. DOMAIN w = 1..Len(w) /\ Len(w) \in Nat
    OBVIOUS
  <2>2. \A i \in DOMAIN p : i \in Nat /\ i > 0
    BY <1>1 DEF Shift
  <2> QED BY <2>1, <2>2
<1> QED BY <1>0, <1>1, <1>2 DEF InPlace

LEMMA SwapNone ==
  ASSUME NEW q \in Seq(Ops), q # <<>>
  PROVE  Shift(Tail(q), q, 0) /\ \A i \in DOMAIN Tail(q) : ~(i <= 0)
<1>1. <<>> \in Seq(Ops) /\ Len(<<>>) = 0 /\ Tail(q) \in Seq(Ops)
  OBVIOUS
<1>2. Tail(q) = <<>> \o Tail(q)
  BY <1>1, ConcatEmptySeq
<1>3. InPlace(Tail(q), q, <<>>)
  BY <1>1, <1>2, Swapped
<1>4. Shift(Tail(q), q, 0)
  BY <1>1, <1>3 DEF InPlace
<1> QED BY <1>4 DEF Shift

LEMMA SwapOne ==
  ASSUME NEW q \in Seq(Ops), q # <<>>, NEW a \in Ops
  PROVE  LedOne(<<a>> \o Tail(q), q, a)
<1>1. PICK w : w = <<a>>
  OBVIOUS
<1>2. w \in Seq(Ops) /\ Len(w) = 1 /\ DOMAIN w = {1} /\ w[1] = a
  BY <1>1
<1>3. InPlace(w \o Tail(q), q, w)
  BY <1>2, Swapped
<1>4. PICK p : p = w \o Tail(q)
  OBVIOUS
<1>5. LedOne(p, q, a)
  BY <1>2, <1>3, <1>4 DEF InPlace, LedOne
<1> QED BY <1>1, <1>4, <1>5

LEMMA SwapTwo ==
  ASSUME NEW q \in Seq(Ops), q # <<>>, NEW a \in Ops, NEW b \in Ops
  PROVE  LedTwo(<<a, b>> \o Tail(q), q, a, b)
<1>1. PICK w : w = <<a, b>>
  OBVIOUS
<1>2. w \in Seq(Ops) /\ Len(w) = 2 /\ DOMAIN w = {1, 2} /\ w[1] = a /\ w[2] = b
  BY <1>1
<1>3. InPlace(w \o Tail(q), q, w)
  BY <1>2, Swapped
<1>4. PICK p : p = w \o Tail(q)
  OBVIOUS
<1>5. LedTwo(p, q, a, b)
  BY <1>2, <1>3, <1>4 DEF InPlace, LedTwo
<1> QED BY <1>1, <1>4, <1>5

LEMMA SwapThree ==
  ASSUME NEW q \in Seq(Ops), q # <<>>, NEW a \in Ops, NEW b \in Ops, NEW d \in Ops
  PROVE  LedThree(<<a, b, d>> \o Tail(q), q, a, b, d)
<1>1. PICK w : w = <<a, b, d>>
  OBVIOUS
<1>2. w \in Seq(Ops) /\ Len(w) = 3 /\ DOMAIN w = {1, 2, 3} /\ w[1] = a /\ w[2] = b /\ w[3] = d
  BY <1>1
<1>3. InPlace(w \o Tail(q), q, w)
  BY <1>2, Swapped
<1>4. PICK p : p = w \o Tail(q)
  OBVIOUS
<1>5. LedThree(p, q, a, b, d)
  BY <1>2, <1>3, <1>4 DEF InPlace, LedThree
<1> QED BY <1>1, <1>4, <1>5

LEMMA SwapFour ==
  ASSUME NEW q \in Seq(Ops), q # <<>>, NEW a \in Ops, NEW b \in Ops, NEW d \in Ops, NEW e \in Ops
  PROVE  LedFour(<<a, b, d, e>> \o Tail(q), q, a, b, d, e)
<1>1. PICK w : w = <<a, b, d, e>>
  OBVIOUS
<1>2. w \in Seq(Ops) /\ Len(w) = 4 /\ DOMAIN w = {1, 2, 3, 4} /\ w[1] = a /\ w[2] = b /\ w[3] = d /\ w[4] = e
  BY <1>1
<1>3. InPlace(w \o Tail(q), q, w)
  BY <1>2, Swapped
<1>4. PICK p : p = w \o Tail(q)
  OBVIOUS
<1>5. LedFour(p, q, a, b, d, e)
  BY <1>2, <1>3, <1>4 DEF InPlace, LedFour
<1> QED BY <1>1, <1>4, <1>5

(* What the books say of a mission whose command is not at a write.        *)
LEMMA Calm ==
  ASSUME NEW q \in Seq(Ops), q # <<>>, NEW y, NEW g, NEW events, Books(q, y, g, events), ~Writes(q[1])
  PROVE  /\ y.graph = g /\ y.state # "recovering"
         /\ ~Deciding(q[1]) => y.state # "failed"
         /\ ~Mild(q[1]) /\ ~Reaches(q[1], "completed") => y.state # "verifying"
         /\ y.state = "verifying" => Ends(q, 0)
         /\ Reaches(q[1], "verifying") => Ends(q, 1)
         /\ \A k \in 1..Safe : Assumes(q[1], k) => g[k] = "completed"
         /\ y.state = "waiting_for_approval" => \A k \in 1..Safe : g[k] = "completed"
         /\ Guarded(q[1]) => Ready(q[1], y.state)
         /\ q[1][1] = "view" => /\ y.state \in {"running", "waiting_for_approval"}
                                /\ q[1][2] = ReportNode => 2 \in DOMAIN q /\ Reaches(q[2], "completed")
         /\ ~Fatal(q[1]) => (Broken(g) <=> y.state = "failed")
         /\ Unbroken(q[1])
<1>0. 1 \in DOMAIN q /\ \A j \in DOMAIN q : j \in Nat /\ ~(j < 1) /\ (j = 1 \/ 1 < j)
  OBVIOUS
<1>1. Heading(q, y) = y.state /\ y.graph = g
  BY <1>0 DEF Heading, Writes, Books, CopyBooks
<1>2. /\ FailBooks(q, y.state, g) /\ ActBooks(q, y.state) /\ ViewBooks(q, y.state)
      /\ EndBooks(q, y.state) /\ DoneBooks(q, y.state, g)
  BY <1>1 DEF Books
<1>3. ~Deciding(q[1]) => y.state # "failed"
  BY <1>0, <1>2 DEF FailBooks
<1>4. ASSUME ~Mild(q[1]), ~Reaches(q[1], "completed"), y.state = "verifying" PROVE FALSE
  <2>1. PICK k \in DOMAIN q : Reaches(q[k], "completed") /\ \A j \in DOMAIN q : 0 < j /\ j < k => Mild(q[j])
    BY <1>2, <1>4 DEF EndBooks, Ends
  <2>2. 1 < k /\ 0 < 1
    BY <1>0, <1>4, <2>1
  <2> QED BY <1>0, <1>4, <2>1, <2>2
<1>5. \A k \in 1..Safe : Assumes(q[1], k) => g[k] = "completed"
  BY <1>0, <1>2 DEF DoneBooks
<1>6. Guarded(q[1]) => Ready(q[1], y.state)
  BY <1>0, <1>2 DEF ActBooks
<1>7. q[1][1] = "view" => /\ y.state \in {"running", "waiting_for_approval"}
                          /\ q[1][2] = ReportNode => 2 \in DOMAIN q /\ Reaches(q[2], "completed")
  <2>1. 1 + 1 = 2
    OBVIOUS
  <2> QED BY <1>0, <1>2, <2>1 DEF ViewBooks
<1>8. ASSUME ~Fatal(q[1]) PROVE ~Failing(q)
  <2> SUFFICES ASSUME NEW i \in DOMAIN q, Fatal(q[i]) PROVE FALSE
    BY DEF Failing
  <2>1. 1 < i
    BY <1>0, <1>8
  <2> QED BY <1>0, <1>2, <2>1 DEF ActBooks, Guarded
<1>9. Unbroken(q[1])
  BY <1>0, <1>2 DEF FailBooks
<1>10. /\ y.state # "recovering" /\ (y.state = "verifying" => Ends(q, 0))
       /\ Reaches(q[1], "verifying") => Ends(q, 1)
       /\ y.state = "waiting_for_approval" => \A k \in 1..Safe : g[k] = "completed"
  BY <1>0, <1>2 DEF EndBooks, DoneBooks
<1>11. ~Fatal(q[1]) => (Broken(g) <=> y.state = "failed")
  BY <1>2, <1>8 DEF FailBooks
<1> QED BY <1>1, <1>3, <1>4, <1>5, <1>6, <1>7, <1>9, <1>10, <1>11

(* The command at a move, an approval's mirror, or the report.             *)
LEMMA MoveBooks ==
  ASSUME NEW c \in Commands, AtWork(c), DoMove(c)
  PROVE  Books(todo'[c], yaml', graph', nodeEvents')
<1>1. PICK q : q = todo[c]
  OBVIOUS
<1>2. PICK y, g, events : y = yaml /\ g = graph /\ events = nodeEvents
  OBVIOUS
<1>3. Does(c, "move") /\ ExecInv
  BY DEF DoMove, AtWork
<1>4. /\ q \in Seq(Ops) /\ q # <<>> /\ q[1] \in Ops /\ q[1][1] = "move"
      /\ y \in Yaml /\ todo \in [Commands -> Seq(Ops)]
  BY <1>1, <1>2, <1>3, HeadFacts DEF ExecInv, Typed
<1>5. Books(q, y, g, events)
  BY <1>1, <1>2 DEF AtWork
<1>6. yaml' = y /\ graph' = g /\ nodeEvents' = events
  BY <1>2 DEF DoMove
<1>7. PICK s : s = q[1][2]
  OBVIOUS
<1>8. s \in States /\ q[1] = Move(s)
  <2>1. s \in States
    BY <1>4, <1>7, OpArgs
  <2> QED BY <1>4, <1>7, <2>1 DEF Move, Ops, Mirror, Report, FailIfRunning
<1>9. CASE ~CanTransition(y.state, s)
  <2>1. todo'[c] = <<>>
    BY <1>1, <1>2, <1>4, <1>7, <1>9 DEF DoMove, Throw, Plan, Arg
  <2>2. Shift(Tail(q), q, 0)
    BY <1>4, SwapNone
  <2>3. ~Writes(q[1])
    BY <1>4 DEF Writes
  <2>4. ~Fatal(q[1])
    <3> SUFFICES ASSUME s = "failed" PROVE FALSE
      BY <1>4, <1>7 DEF Fatal
    <3>1. Ready(q[1], y.state)
      BY <1>4, <1>5, <1>7, <2>3, Calm DEF Guarded, Fatal
    <3> QED BY <1>4, <1>9, <3>1 DEF Ready, CanTransition, Transitions
  <2>5. y.state # "verifying"
    <3> SUFFICES ASSUME y.state = "verifying" PROVE FALSE
      OBVIOUS
    <3>1. s = "completed"
      BY <1>4, <1>5, <1>7, <2>3, Calm DEF Mild, Writes, Reaches
    <3> QED BY <1>9, <3>1 DEF CanTransition, Transitions
  <2> QED BY <1>4, <1>5, <1>6, <2>1, <2>2, <2>3, <2>4, <2>5, EndedBooks
<1>10. CASE CanTransition(y.state, s)
  <2>1. PICK Y : Y = [y EXCEPT !.state = s]
    OBVIOUS
  <2>2. PICK p : p = todo'[c]
    OBVIOUS
  <2>3. PutYaml(Y) \in Ops /\ Report \in Ops /\ Tail(q) \in Seq(Ops)
    <3>1. Y \in Yaml
      BY <1>4, <1>8, <2>1 DEF Yaml
    <3> QED BY <1>4, <3>1, OpsMade
  <2>4. CASE s = "completed" /\ ~y.report
    <3>1. p = <<PutYaml(Y)>> \o <<Report>> \o Tail(q)
      BY <1>1, <1>2, <1>4, <1>7, <1>10, <2>1, <2>2, <2>4 DEF DoMove, Plan, Arg, Rest
    <3>2. p = <<PutYaml(Y), Report>> \o Tail(q)
      BY <3>1, Paired
    <3>3. LedTwo(p, q, PutYaml(Y), Report)
      BY <1>4, <2>3, <3>2, SwapTwo
    <3>4. Shift(p, q, 2) /\ 1 \in DOMAIN p /\ p[1] = PutYaml(Y) /\ 2 \in DOMAIN p /\ p[2] = Report
      BY <3>3 DEF LedTwo
    <3>5. 2 \in {1, 2}
      OBVIOUS
    <3> QED BY <1>4, <1>5, <1>6, <1>8, <1>10, <2>1, <2>2, <2>4, <3>4, <3>5, Moved
  <2>5. CASE ~(s = "completed" /\ ~y.report)
    <3>1. p = <<PutYaml(Y)>> \o <<>> \o Tail(q)
      BY <1>1, <1>2, <1>4, <1>7, <1>10, <2>1, <2>2, <2>5 DEF DoMove, Plan, Arg, Rest
    <3>2. p = <<PutYaml(Y)>> \o Tail(q)
      <4>1. <<PutYaml(Y)>> \in Seq(Ops)
        BY <2>3
      <4> QED BY <3>1, <4>1, ConcatEmptySeq
    <3>3. LedOne(p, q, PutYaml(Y))
      BY <1>4, <2>3, <3>2, SwapOne
    <3>5. Shift(p, q, 1) /\ 1 \in DOMAIN p /\ p[1] = PutYaml(Y)
      BY <3>3 DEF LedOne
    <3>4. 1 \in {1, 2} /\ 1 # 2
      OBVIOUS
    <3> QED BY <1>4, <1>5, <1>6, <1>8, <1>10, <2>1, <2>2, <2>5, <3>4, <3>5, Moved
  <2> QED BY <2>4, <2>5
<1> QED BY <1>9, <1>10

(* The command at work, and the operation it is at.                        *)
LEMMA AtHead ==
  ASSUME NEW c \in Commands, AtWork(c), NEW kind, Does(c, kind)
  PROVE  /\ todo[c] \in Seq(Ops) /\ todo[c] # <<>> /\ todo[c][1] \in Ops /\ todo[c][1][1] = kind
         /\ yaml \in Yaml /\ graph \in [Nodes -> Statuses] /\ todo \in [Commands -> Seq(Ops)]
         /\ Books(todo[c], yaml, graph, nodeEvents)
         /\ OpOk(c, todo[c][1]) /\ 1 \in DOMAIN todo[c]
<1>1. ExecInv
  BY DEF AtWork
<1>2. todo[c] \in Seq(Ops) /\ todo[c] # <<>> /\ todo[c][1] \in Ops /\ todo[c][1][1] = kind /\ OpOk(c, todo[c][1])
  BY <1>1, HeadFacts
<1>3. yaml \in Yaml /\ graph \in [Nodes -> Statuses] /\ todo \in [Commands -> Seq(Ops)]
  BY <1>1 DEF ExecInv, Typed
<1>4. 1 \in DOMAIN todo[c]
  BY <1>2
<1> QED BY <1>2, <1>3, <1>4 DEF AtWork

(* A command of a mission that is not verifying may stop at an operation.  *)
LEMMA StopBooks ==
  ASSUME NEW q \in Seq(Ops), q # <<>>, NEW y, NEW g, NEW events, Books(q, y, g, events),
         ~Writes(q[1]), ~Fatal(q[1]), q[1][1] # "report", y.state # "verifying"
  PROVE  Books(<<>>, y, g, events)
  BY SwapNone, EndedBooks

(* ensureMissionState moves the mission, or ends its command.              *)
LEMMA EnsureBooks ==
  ASSUME NEW c \in Commands, AtWork(c), DoEnsure(c)
  PROVE  Books(todo'[c], yaml', graph', nodeEvents')
<1>1. PICK q : q = todo[c]
  OBVIOUS
<1>2. PICK y, g, events : y = yaml /\ g = graph /\ events = nodeEvents
  OBVIOUS
<1>3. Does(c, "ensure")
  BY DEF DoEnsure
<1>4. /\ q \in Seq(Ops) /\ q # <<>> /\ q[1] \in Ops /\ q[1][1] = "ensure" /\ 1 \in DOMAIN q
      /\ y \in Yaml /\ todo \in [Commands -> Seq(Ops)] /\ Books(q, y, g, events)
  BY <1>1, <1>2, <1>3, AtHead
<1>5. yaml' = y /\ graph' = g /\ nodeEvents' = events
  BY <1>2 DEF DoEnsure
<1>6. PICK s : s = q[1][2]
  OBVIOUS
<1>7. s \in States /\ Move(s) \in Ops
  BY <1>4, <1>6, OpArgs, OpsMade
<1>8. /\ ~Writes(q[1]) /\ ~Fatal(q[1]) /\ ~Mild(q[1]) /\ ~Deciding(q[1]) /\ ~Guarded(q[1])
      /\ \A k : ~Completes(q[1], k)
      /\ \A t : Reaches(q[1], t) <=> s = t
  BY <1>4, <1>6 DEF Writes, Fatal, Mild, Deciding, Guarded, Completes, Reaches
<1>9. /\ y.state # "failed" /\ y.state # "recovering" /\ s # "failed"
      /\ \A k \in 1..Safe : Assumes(q[1], k) => g[k] = "completed"
      /\ s = "verifying" => Ends(q, 1)
      /\ y.state = "verifying" => s = "completed"
  <2>1. PICK op : op = q[1]
    OBVIOUS
  <2>2. /\ ~Deciding(op) => y.state # "failed"
        /\ ~Mild(op) /\ ~Reaches(op, "completed") => y.state # "verifying"
        /\ Reaches(op, "verifying") => Ends(q, 1)
        /\ y.state # "recovering" /\ Unbroken(op)
    BY <1>4, <1>8, <2>1, Calm
  <2>3. \A k \in 1..Safe : Assumes(q[1], k) => g[k] = "completed"
    BY <1>4, <1>8, Calm
  <2> QED BY <1>4, <1>6, <1>8, <2>1, <2>2, <2>3 DEF Unbroken
<1>10. s # "recovering"
  BY <1>4, <1>8 DEF Books, EndBooks
<1>11. CASE y.state = s
  <2>1. todo'[c] = Tail(q)
    BY <1>1, <1>2, <1>4, <1>6, <1>11 DEF DoEnsure, Plan, Arg, Rest
  <2>2. PICK p : p = Tail(q)
    OBVIOUS
  <2>3. Shift(p, q, 0) /\ \A i \in DOMAIN p : ~(i <= 0)
    BY <1>4, <2>2, SwapNone
  <2>4. Quiet(p, q, 0, y, g)
    BY <1>4, <1>8, <1>9, <1>11, <2>3 DEF Quiet
  <2>5. 0 \in Nat
    OBVIOUS
  <2> QED BY <1>4, <1>5, <1>8, <2>1, <2>2, <2>3, <2>4, <2>5, QuietBooks
<1>12. CASE y.state # s /\ CanTransition(y.state, s)
  <2>1. todo'[c] = <<Move(s)>> \o Tail(q)
    BY <1>1, <1>2, <1>4, <1>6, <1>12 DEF DoEnsure, Plan, Arg, Rest
  <2>2. PICK p : p = <<Move(s)>> \o Tail(q)
    OBVIOUS
  <2>3. LedOne(p, q, Move(s))
    BY <1>4, <1>7, <2>2, SwapOne
  <2>4. Shift(p, q, 1) /\ 1 \in DOMAIN p /\ p[1][1] = "move" /\ p[1][2] = s /\ \A i \in DOMAIN p : i <= 1 => i = 1
    BY <2>3 DEF LedOne, Move
  <2>5. y.state = "verifying" => Ends(p, 0)
    <3> SUFFICES ASSUME s = "completed" PROVE Ends(p, 0)
      BY <1>9
    <3>1. 0 < 1 /\ \A j \in DOMAIN p : j \in Nat /\ ~(0 < j /\ j < 1)
      BY <2>4 DEF Shift
    <3> QED BY <2>4, <3>1 DEF Ends, Reaches
  <2>6. /\ p[1][1] \notin {"putGraph", "view"} /\ ~Fatal(p[1]) /\ ~Breaks(p[1]) /\ Unbroken(p[1])
        /\ p[1][1] # "putYaml" /\ ~Guarded(p[1]) /\ p[1][1] # "status"
        /\ \A t : Reaches(p[1], t) <=> s = t
        /\ \A k \in 1..Safe : Assumes(p[1], k) => Assumes(q[1], k)
    BY <1>4, <1>6, <1>9, <2>4 DEF Fatal, Breaks, Unbroken, Guarded, Reaches, Assumes
  <2>7. ~(1 < 1) /\ 1 > 0 /\ \A j \in DOMAIN p : ~(1 < j /\ j <= 1)
    BY <2>4 DEF Shift
  <2>8. Quiet(p, q, 1, y, g)
    BY <1>4, <1>8, <1>9, <1>10, <2>4, <2>5, <2>6, <2>7 DEF Quiet
  <2>9. 1 \in Nat
    OBVIOUS
  <2> QED BY <1>4, <1>5, <1>8, <2>1, <2>2, <2>4, <2>8, <2>9, QuietBooks
<1>13. CASE y.state # s /\ ~CanTransition(y.state, s)
  <2>1. todo'[c] = <<>>
    BY <1>1, <1>2, <1>4, <1>6, <1>13 DEF DoEnsure, Plan, Arg
  <2>2. y.state # "verifying"
    BY <1>9, <1>13 DEF CanTransition, Transitions
  <2> QED BY <1>4, <1>5, <1>8, <2>1, <2>2, StopBooks
<1> QED BY <1>11, <1>12, <1>13

(* The mirrors and the report: a write of mission.yaml as it was read.     *)
LEMMA MirrorBooks ==
  ASSUME NEW c \in Commands, AtWork(c), DoMirror(c) \/ DoReport(c)
  PROVE  Books(todo'[c], yaml', graph', nodeEvents')
<1>1. PICK q : q = todo[c]
  OBVIOUS
<1>2. PICK y, g, events : y = yaml /\ g = graph /\ events = nodeEvents
  OBVIOUS
<1>3. PICK kind \in {"mirror", "report"} : Does(c, kind)
  BY DEF DoMirror, DoReport
<1>4. /\ q \in Seq(Ops) /\ q # <<>> /\ q[1] \in Ops /\ q[1][1] \in {"mirror", "report"} /\ 1 \in DOMAIN q
      /\ y \in Yaml /\ todo \in [Commands -> Seq(Ops)] /\ Books(q, y, g, events)
  BY <1>1, <1>2, <1>3, AtHead
<1>5. yaml' = y /\ graph' = g /\ nodeEvents' = events
  BY <1>2 DEF DoMirror, DoReport
<1>6. PICK Y \in Yaml : /\ Y.graph = y.graph /\ Y.state = y.state /\ (y.report => Y.report)
                        /\ q[1][1] = "report" => Y.report
                        /\ todo'[c] = <<PutYaml(Y)>> \o Tail(q)
  <2>1. CASE DoMirror(c)
    <3>1. todo'[c] = <<PutYaml(y)>> \o Tail(q) /\ q[1][1] = "mirror"
      BY <1>1, <1>2, <1>4, <2>1 DEF DoMirror, Plan, Rest, Does
    <3> QED BY <1>4, <3>1
  <2>2. CASE DoReport(c)
    <3>1. PICK Y : Y = [y EXCEPT !.report = TRUE]
      OBVIOUS
    <3>2. todo'[c] = <<PutYaml(Y)>> \o Tail(q)
      BY <1>1, <1>2, <1>4, <2>2, <3>1 DEF DoReport, Plan, Rest
    <3>3. Y \in Yaml /\ Y.graph = y.graph /\ Y.state = y.state /\ Y.report
      BY <1>4, <3>1 DEF Yaml
    <3> QED BY <3>2, <3>3
  <2> QED BY <2>1, <2>2
<1>7. PICK p : p = <<PutYaml(Y)>> \o Tail(q)
  OBVIOUS
<1>8. PutYaml(Y) \in Ops
  BY <1>6, OpsMade
<1>9. LedOne(p, q, PutYaml(Y))
  BY <1>4, <1>7, <1>8, SwapOne
<1>10. Shift(p, q, 1) /\ 1 \in DOMAIN p /\ p[1][1] = "putYaml" /\ p[1][2] = Y /\ \A i \in DOMAIN p : i <= 1 => i = 1
  BY <1>9 DEF LedOne, PutYaml
<1>11. /\ ~Writes(q[1]) /\ ~Mild(q[1]) /\ \A k : ~Completes(q[1], k)
       /\ \A t : ~Reaches(q[1], t)
  BY <1>4 DEF Writes, Mild, Completes, Reaches
<1>12. y.graph = g /\ y.state # "verifying"
  BY <1>4, <1>11, Calm
<1>13. /\ ~Fatal(p[1]) /\ ~Breaks(p[1]) /\ Unbroken(p[1]) /\ ~Guarded(p[1]) /\ Deciding(p[1])
       /\ \A t : ~Reaches(p[1], t)
       /\ \A k : ~Assumes(p[1], k)
  BY <1>10 DEF Fatal, Breaks, Unbroken, Guarded, Deciding, Reaches, Assumes
<1>14. Quiet(p, q, 1, y, g)
  <2>1. 1 > 0
    OBVIOUS
  <2> QED BY <1>6, <1>10, <1>11, <1>12, <1>13, <2>1 DEF Quiet
<1>15. 1 \in Nat
  OBVIOUS
<1> QED BY <1>4, <1>5, <1>6, <1>7, <1>10, <1>11, <1>14, <1>15, QuietBooks

(* The writes.                                                             *)
LEMMA WriteBooks ==
  ASSUME NEW c \in Commands, AtWork(c), DoPutGraph(c) \/ DoPutYaml(c) \/ DoNote(c)
  PROVE  Books(todo'[c], yaml', graph', nodeEvents')
<1>1. PICK q : q = todo[c]
  OBVIOUS
<1>2. PICK y, g, events : y = yaml /\ g = graph /\ events = nodeEvents
  OBVIOUS
<1>3. PICK kind \in {"putGraph", "putYaml", "note"} : Does(c, kind)
  BY DEF DoPutGraph, DoPutYaml, DoNote
<1>4. /\ q \in Seq(Ops) /\ q # <<>> /\ q[1] \in Ops /\ 1 \in DOMAIN q
      /\ todo \in [Commands -> Seq(Ops)] /\ Books(q, y, g, events)
  BY <1>1, <1>2, <1>3, AtHead
<1>5. todo'[c] = Tail(q) /\ Shift(Tail(q), q, 0)
  BY <1>1, <1>4, SwapNone DEF DoPutGraph, DoPutYaml, DoNote, Plan, Rest
<1>6. CASE DoPutGraph(c)
  <2>1. q[1][1] = "putGraph" /\ yaml' = y /\ graph' = q[1][2] /\ nodeEvents' = events
    BY <1>1, <1>2, <1>6 DEF DoPutGraph, Does, Arg
  <2>2. \A m \in Nodes : g[m] = "completed" => q[1][2][m] = "completed"
    <3>1. QueueOk(c) /\ OneExecutor
      BY DEF AtWork, ExecInv, OneExecutor, serial
    <3>2. Fresh(c, q) /\ plans = 0
      BY <1>1, <1>4, <2>1, <3>1 DEF QueueOk, AtWork
    <3> QED BY <1>2, <3>1, <3>2 DEF Fresh
  <2> QED BY <1>4, <1>5, <2>1, <2>2, GraphPut
<1>7. CASE DoPutYaml(c)
  <2>1. q[1][1] = "putYaml" /\ yaml' = q[1][2] /\ graph' = g /\ nodeEvents' = events
    BY <1>1, <1>2, <1>7 DEF DoPutYaml, Does, Arg
  <2> QED BY <1>4, <1>5, <2>1, YamlPut
<1>8. CASE DoNote(c)
  <2>1. /\ q[1][1] = "note" /\ yaml' = y /\ graph' = g
        /\ nodeEvents' = events \union {<<q[1][2], q[1][3]>>}
    BY <1>1, <1>2, <1>8 DEF DoNote, Does, Arg, Arg2
  <2> QED BY <1>4, <1>5, <2>1, NoteDone
<1> QED BY <1>6, <1>7, <1>8

(* A status is about to be written to both files.                          *)
LEMMA StatusBooks ==
  ASSUME NEW c \in Commands, AtWork(c), DoStatus(c)
  PROVE  Books(todo'[c], yaml', graph', nodeEvents')
<1>1. PICK q : q = todo[c]
  OBVIOUS
<1>2. PICK y, g, events : y = yaml /\ g = graph /\ events = nodeEvents
  OBVIOUS
<1>3. Does(c, "status")
  BY DEF DoStatus
<1>4. /\ q \in Seq(Ops) /\ q # <<>> /\ q[1] \in Ops /\ q[1][1] = "status" /\ 1 \in DOMAIN q
      /\ y \in Yaml /\ g \in [Nodes -> Statuses] /\ OpOk(c, q[1])
      /\ todo \in [Commands -> Seq(Ops)] /\ Books(q, y, g, events)
  BY <1>1, <1>2, <1>3, AtHead
<1>5. yaml' = y /\ graph' = g /\ nodeEvents' = events
  BY <1>2 DEF DoStatus
<1>6. PICK n, s : n = q[1][2] /\ s = q[1][3]
  OBVIOUS
<1>7. n \in Nodes /\ s \in Statuses
  BY <1>4, <1>6, OpArgs
<1>8. q[1] = Status(n, s)
  BY <1>4, <1>6 DEF Status, Ops, Mirror, Report, FailIfRunning
<1>9. PICK G : G = [g EXCEPT ![n] = s]
  OBVIOUS
<1>10. PICK Y : Y = [y EXCEPT !.graph = G]
  OBVIOUS
<1>11. PutGraph(G) \in Ops /\ PutYaml(Y) \in Ops
  <2>1. G \in [Nodes -> Statuses]
    BY <1>4, <1>7, <1>9
  <2>2. Y \in Yaml
    BY <1>4, <1>10, <2>1 DEF Yaml
  <2> QED BY <2>1, <2>2, OpsMade
<1>12. PICK p : p = <<PutGraph(G), PutYaml(Y)>> \o Tail(q)
  OBVIOUS
<1>13. todo'[c] = p
  BY <1>1, <1>2, <1>4, <1>6, <1>9, <1>10, <1>12 DEF DoStatus, Plan, Rest, Arg, Arg2
<1>14. LedTwo(p, q, PutGraph(G), PutYaml(Y))
  BY <1>4, <1>11, <1>12, SwapTwo
<1>15. /\ Shift(p, q, 2) /\ 1 \in DOMAIN p /\ p[1] = PutGraph(G)
       /\ 2 \in DOMAIN p /\ p[2] = PutYaml(Y)
  BY <1>14 DEF LedTwo
<1>16. s # "completed" => g[n] # "completed"
  <2>1. OneExecutor
    BY DEF AtWork, OneExecutor, serial
  <2>2. s # "completed" => Touches(q[1])
    BY <1>4, <1>6 DEF Touches
  <2>3. NodeOf(q[1]) = n
    BY <1>4, <1>6 DEF NodeOf
  <2>4. Touches(q[1]) => graph[NodeOf(q[1])] # "completed"
    BY <1>4, <2>1 DEF OpOk
  <2>5. graph = g
    BY <1>2
  <2> QED BY <2>2, <2>3, <2>4, <2>5
<1>17. q[1] \in Ops /\ Books(q, y, g, events) /\ y \in Yaml /\ g \in [Nodes -> Statuses]
  BY <1>4
<1>18. Books(p, y, g, events)
  BY <1>7, <1>8, <1>9, <1>10, <1>15, <1>16, <1>17, StatusSet, ZenonT(40)
<1> QED BY <1>5, <1>13, <1>18

(* completeNode, which a completed node needs no more.                     *)
LEMMA CompleteBooks ==
  ASSUME NEW c \in Commands, AtWork(c), DoComplete(c)
  PROVE  Books(todo'[c], yaml', graph', nodeEvents')
<1>1. PICK q : q = todo[c]
  OBVIOUS
<1>2. PICK y, g, events : y = yaml /\ g = graph /\ events = nodeEvents
  OBVIOUS
<1>3. Does(c, "complete")
  BY DEF DoComplete
<1>4. /\ q \in Seq(Ops) /\ q # <<>> /\ q[1] \in Ops /\ q[1][1] = "complete" /\ 1 \in DOMAIN q
      /\ y \in Yaml /\ g \in [Nodes -> Statuses]
      /\ todo \in [Commands -> Seq(Ops)] /\ Books(q, y, g, events)
  BY <1>1, <1>2, <1>3, AtHead
<1>5. yaml' = y /\ graph' = g /\ nodeEvents' = events
  BY <1>2 DEF DoComplete
<1>6. PICK n : n = q[1][2]
  OBVIOUS
<1>7. n \in Nodes
  BY <1>4, <1>6, OpArgs
<1>8. /\ ~Writes(q[1]) /\ Mild(q[1]) /\ ~Deciding(q[1]) /\ \A t : ~Reaches(q[1], t)
      /\ \A k : Completes(q[1], k) <=> k = n
  BY <1>4, <1>6 DEF Writes, Mild, Deciding, Reaches, Completes
<1>9. y.graph = g /\ y.state # "failed"
  BY <1>4, <1>8, Calm
<1>10. CASE g[n] = "completed"
  <2>1. todo'[c] = <<>> \o <<>> \o Tail(q)
    BY <1>1, <1>2, <1>4, <1>6, <1>9, <1>10 DEF DoComplete, Plan, Rest, Arg, Sync
  <2>2. todo'[c] = Tail(q)
    <3>1. <<>> \in Seq(Ops) /\ Tail(q) \in Seq(Ops)
      BY <1>4
    <3> QED BY <2>1, <3>1, ConcatEmptySeq
  <2>3. PICK p : p = Tail(q)
    OBVIOUS
  <2>4. Shift(p, q, 0) /\ \A i \in DOMAIN p : ~(i <= 0)
    BY <1>4, <2>3, SwapNone
  <2>5. Quiet(p, q, 0, y, g)
    BY <1>4, <1>8, <1>10, <2>4 DEF Quiet
  <2>6. 0 \in Nat
    OBVIOUS
  <2> QED BY <1>4, <1>5, <1>8, <2>2, <2>3, <2>4, <2>5, <2>6, QuietBooks
<1>11. CASE g[n] # "completed"
  <2> DEFINE a == Status(n, "completed")
             b == Note("completed", n)
  <2>1. a \in Ops /\ b \in Ops
    BY <1>7, OpsMade DEF Statuses
  <2>2. todo'[c] = <<>> \o <<a, b>> \o Tail(q)
    BY <1>1, <1>2, <1>4, <1>6, <1>9, <1>11 DEF DoComplete, Plan, Rest, Arg, Sync
  <2>3. todo'[c] = <<a, b>> \o Tail(q)
    <3>1. <<a, b>> \in Seq(Ops)
      BY <2>1
    <3> QED BY <2>2, <3>1, ConcatEmptySeq
  <2>4. PICK p : p = <<a, b>> \o Tail(q)
    OBVIOUS
  <2>5. LedTwo(p, q, a, b)
    <3> HIDE DEF a, b
    <3> QED BY <1>4, <2>1, <2>4, SwapTwo
  <2>6. /\ Shift(p, q, 2) /\ 1 \in DOMAIN p /\ 2 \in DOMAIN p /\ \A i \in DOMAIN p : i <= 2 => i = 1 \/ i = 2
        /\ p[1][1] = "status" /\ p[1][2] = n /\ p[1][3] = "completed"
        /\ p[2][1] = "note" /\ p[2][2] = "completed" /\ p[2][3] = n
    BY <2>5 DEF LedTwo, Status, Note
  <2>7. \A i \in {1, 2} : /\ p[i][1] \notin {"putGraph", "view", "putYaml", "move", "ensure"}
                          /\ ~Fatal(p[i]) /\ ~Breaks(p[i]) /\ Unbroken(p[i]) /\ ~Guarded(p[i]) /\ Mild(p[i])
                          /\ \A t : ~Reaches(p[i], t)
                          /\ \A k : ~Assumes(p[i], k)
    BY <2>6 DEF Fatal, Breaks, Unbroken, Guarded, Mild, Writes, Reaches, Assumes
  <2>8. Completes(p[1], n) /\ Notes(p[2], n) /\ p[2][1] # "status"
    BY <2>6 DEF Completes, Notes
  <2>9. 1 + 1 = 2 /\ 1 <= 2 /\ 2 \in Nat
    OBVIOUS
  <2>10. /\ \A i \in DOMAIN p : i <= 2 => i \in {1, 2} /\ Mild(p[i])
         /\ \A k \in 1..Safe : Completes(q[1], k) => \E j \in DOMAIN p : j <= 2 /\ Completes(p[j], k)
    BY <1>8, <2>6, <2>7, <2>8, <2>9, Zenon
  <2> HIDE DEF a, b
  <2>11. Quiet(p, q, 2, y, g)
    BY <1>4, <1>8, <1>9, <2>6, <2>7, <2>8, <2>9, <2>10 DEF Quiet
  <2> QED BY <1>4, <1>5, <1>8, <2>3, <2>4, <2>6, <2>9, <2>11, QuietBooks
<1> QED BY <1>10, <1>11

(* Operations that leave the books alone; those that act, at their place.  *)
Plain(op) ==
  /\ op[1] \notin {"putGraph", "view", "putYaml"} /\ ~Fatal(op) /\ ~Breaks(op) /\ Unbroken(op) /\ ~Guarded(op)
  /\ op[1] = "status" => op[3] # "completed"
  /\ op[1] \in {"move", "ensure"} => op[2] = "running"
  /\ ~Reaches(op, "recovering") /\ ~Reaches(op, "verifying")
  /\ \A k \in 1..Safe : ~Assumes(op, k)
Acting(p, i, y, g) ==
  /\ p[i][1] \in {"tool", "gate", "request"} /\ Unbroken(p[i]) /\ Ready(p[i], y.state)
  /\ \A j \in DOMAIN p : j < i => Writes(p[j])
  /\ \A k \in 1..Safe : Assumes(p[i], k) => g[k] = "completed"

(* Which operations are plain.                                             *)
LEMMA PlainOps ==
  /\ \A n : Plain(Complete(n)) /\ Plain(Status(n, "ready")) /\ Plain(Note("started", n))
  /\ \A i : Plain(Consume(i)) /\ Plain(Mark(i)) /\ Deciding(Mark(i))
  /\ Plain(Report) /\ Plain(Mirror) /\ Plain(Ensure("running")) /\ Deciding(Report) /\ Deciding(Mirror)
<1> USE DEF Plain, Fatal, Breaks, Unbroken, Guarded, Reaches, Assumes, Deciding
<1>1. \A n : Plain(Complete(n)) /\ Plain(Status(n, "ready")) /\ Plain(Note("started", n))
  BY DEF Complete, Status, Note
<1>2. \A i : Plain(Consume(i)) /\ Plain(Mark(i)) /\ Deciding(Mark(i))
  BY DEF Consume, Mark
<1>3. Plain(Report) /\ Plain(Mirror) /\ Plain(Ensure("running")) /\ Deciding(Report) /\ Deciding(Mirror)
  BY DEF Report, Mirror, Ensure
<1> QED BY <1>1, <1>2, <1>3

(* Operations that are plain or act at their place are quiet.              *)
LEMMA QuietWork ==
  ASSUME NEW p, NEW q, NEW n \in Nat, NEW y, NEW g, y.state # "verifying", q[1][1] # "report",
         \A i \in DOMAIN p : i <= n =>
           (y.state = "failed" => Deciding(p[i])) /\ (Plain(p[i]) \/ Acting(p, i, y, g)),
         \A k \in 1..Safe : Completes(q[1], k) =>
           g[k] = "completed" \/ \E j \in DOMAIN p : j <= n /\ Completes(p[j], k)
  PROVE  Quiet(p, q, n, y, g)
<1>1. ASSUME NEW i \in DOMAIN p, i <= n, Plain(p[i])
      PROVE  /\ p[i][1] \notin {"putGraph", "view", "putYaml"} /\ ~Fatal(p[i]) /\ ~Breaks(p[i]) /\ Unbroken(p[i])
             /\ ~Guarded(p[i]) /\ (p[i][1] = "status" => p[i][3] # "completed")
             /\ \A k \in 1..Safe : ~Assumes(p[i], k)
             /\ p[i][1] \in {"move", "ensure"} => p[i][2] = "running"
             /\ ~Reaches(p[i], "recovering") /\ ~Reaches(p[i], "verifying")
  BY <1>1 DEF Plain
<1>2. ASSUME NEW i \in DOMAIN p, i <= n, Acting(p, i, y, g)
      PROVE  /\ p[i][1] \notin {"putGraph", "view", "putYaml", "status", "move", "ensure"}
             /\ ~Fatal(p[i]) /\ ~Breaks(p[i]) /\ Unbroken(p[i])
             /\ Ready(p[i], y.state) /\ \A j \in DOMAIN p : j < i => Writes(p[j])
             /\ \A k \in 1..Safe : Assumes(p[i], k) => g[k] = "completed"
             /\ ~Reaches(p[i], "recovering") /\ ~Reaches(p[i], "verifying")
  BY <1>2 DEF Acting, Fatal, Breaks, Reaches
<1> QED BY <1>1, <1>2 DEF Quiet

(* Tuples joined.                                                          *)
(* u is s and then t.                                                      *)
IsJoin(s, t, u, m, k) ==
  /\ Len(s) = m /\ Len(t) = k /\ Len(u) = m + k
  /\ \A i \in 1..m : u[i] = s[i]
  /\ \A i \in 1..k : u[m + i] = t[i]

LEMMA JoinIs ==
  ASSUME NEW S, NEW s \in Seq(S), NEW t \in Seq(S), NEW u \in Seq(S), NEW m, NEW k, IsJoin(s, t, u, m, k)
  PROVE  s \o t = u
<1>0. /\ Len(u) = Len(s) + Len(t)
      /\ \A i \in 1..Len(s) : u[i] = s[i]
      /\ \A i \in 1..Len(t) : u[Len(s) + i] = t[i]
  BY DEF IsJoin
<1>1. /\ s \o t \in Seq(S) /\ Len(s \o t) = Len(s) + Len(t) /\ Len(s) \in Nat /\ Len(t) \in Nat
      /\ \A i \in 1..Len(s) + Len(t) : (s \o t)[i] = IF i <= Len(s) THEN s[i] ELSE t[i - Len(s)]
  BY ConcatProperties
<1>2. ASSUME NEW i \in 1..Len(s) + Len(t) PROVE (s \o t)[i] = u[i]
  <2>1. CASE i <= Len(s)
    BY <1>0, <1>1, <2>1
  <2>2. CASE ~(i <= Len(s))
    <3>1. i - Len(s) \in 1..Len(t) /\ Len(s) + (i - Len(s)) = i
      BY <1>1, <2>2
    <3>2. u[Len(s) + (i - Len(s))] = t[i - Len(s)]
      BY <1>0, <3>1
    <3> QED BY <1>1, <2>2, <3>1, <3>2
  <2> QED BY <2>1, <2>2
<1> QED BY <1>0, <1>1, <1>2, SeqEqual

LEMMA FourTuple ==
  ASSUME NEW a, NEW b, NEW d, NEW e
  PROVE  <<a, b>> \o <<d, e>> = <<a, b, d, e>>
<1>1. PICK S, s, t, u : S = {a, b, d, e} /\ s = <<a, b>> /\ t = <<d, e>> /\ u = <<a, b, d, e>>
  OBVIOUS
<1>2. s \in Seq(S) /\ t \in Seq(S) /\ u \in Seq(S) /\ Len(s) = 2 /\ Len(t) = 2 /\ Len(u) = 2 + 2
  BY <1>1
<1>3. s[1] = a /\ s[2] = b /\ t[1] = d /\ t[2] = e /\ u[1] = a /\ u[2] = b /\ u[3] = d /\ u[4] = e
  BY <1>1
<1>4. \A i \in 1..2 : i = 1 \/ i = 2
  OBVIOUS
<1>5. 2 + 1 = 3 /\ 2 + 2 = 4
  OBVIOUS
<1>6. IsJoin(s, t, u, 2, 2)
  BY <1>2, <1>3, <1>4, <1>5 DEF IsJoin
<1>7. s \o t = u
  BY <1>2, <1>6, JoinIs
<1> QED BY <1>1, <1>7

LEMMA Tuples ==
  ASSUME NEW a, NEW b, NEW d
  PROVE  <<a, b>> \o <<d>> = <<a, b, d>> /\ <<a>> \o <<b, d>> = <<a, b, d>>
<1>1. <<a, b>> \o <<d>> = <<a, b, d>>
  <2>1. PICK S, s, t, u : S = {a, b, d} /\ s = <<a, b>> /\ t = <<d>> /\ u = <<a, b, d>>
    OBVIOUS
  <2>2. s \in Seq(S) /\ t \in Seq(S) /\ u \in Seq(S) /\ Len(s) = 2 /\ Len(t) = 1 /\ Len(u) = 2 + 1
    BY <2>1
  <2>3. s[1] = a /\ s[2] = b /\ t[1] = d /\ u[1] = a /\ u[2] = b /\ u[3] = d
    BY <2>1
  <2>4. (\A i \in 1..2 : i = 1 \/ i = 2) /\ (\A i \in 1..1 : i = 1)
    OBVIOUS
  <2>5. 2 + 1 = 3
    OBVIOUS
  <2>6. IsJoin(s, t, u, 2, 1)
    BY <2>2, <2>3, <2>4, <2>5 DEF IsJoin
  <2>7. s \o t = u
    BY <2>2, <2>6, JoinIs
  <2> QED BY <2>1, <2>7
<1>2. <<a>> \o <<b, d>> = <<a, b, d>>
  <2>1. PICK S, s, t, u : S = {a, b, d} /\ s = <<a>> /\ t = <<b, d>> /\ u = <<a, b, d>>
    OBVIOUS
  <2>2. s \in Seq(S) /\ t \in Seq(S) /\ u \in Seq(S) /\ Len(s) = 1 /\ Len(t) = 2 /\ Len(u) = 1 + 2
    BY <2>1
  <2>3. s[1] = a /\ t[1] = b /\ t[2] = d /\ u[1] = a /\ u[2] = b /\ u[3] = d
    BY <2>1
  <2>4. (\A i \in 1..1 : i = 1) /\ (\A i \in 1..2 : i = 1 \/ i = 2)
    OBVIOUS
  <2>5. 1 + 1 = 2 /\ 1 + 2 = 3
    OBVIOUS
  <2>6. IsJoin(s, t, u, 1, 2)
    BY <2>2, <2>3, <2>4, <2>5 DEF IsJoin
  <2>7. s \o t = u
    BY <2>2, <2>6, JoinIs
  <2> QED BY <2>1, <2>7
<1> QED BY <1>1, <1>2

(* Where a command has acted, its mission is at work: whatever the outcome.*)
LEMMA ToolBooks ==
  ASSUME NEW c \in Commands, AtWork(c), DoTool(c)
  PROVE  Books(todo'[c], yaml', graph', nodeEvents')
<1>1. PICK q : q = todo[c]
  OBVIOUS
<1>2. PICK y, g, events : y = yaml /\ g = graph /\ events = nodeEvents
  OBVIOUS
<1>3. Does(c, "tool")
  BY DEF DoTool
<1>4. /\ q \in Seq(Ops) /\ q # <<>> /\ q[1] \in Ops /\ q[1][1] = "tool" /\ 1 \in DOMAIN q
      /\ todo \in [Commands -> Seq(Ops)] /\ Books(q, y, g, events)
  BY <1>1, <1>2, <1>3, AtHead
<1>5. yaml' = y /\ graph' = g /\ nodeEvents' = events
  BY <1>2 DEF DoTool
<1>6. PICK n, viewed : n = q[1][2] /\ viewed = q[1][3]
  OBVIOUS
<1>7. /\ ~Writes(q[1]) /\ ~Fatal(q[1]) /\ ~Mild(q[1]) /\ Guarded(q[1]) /\ ~Reaches(q[1], "completed")
      /\ \A k : ~Completes(q[1], k)
  BY <1>4 DEF Writes, Fatal, Mild, Guarded, Reaches, Completes
<1>8. Ready(q[1], y.state) /\ Unbroken(q[1])
  BY <1>4, <1>7, Calm
<1>9. y.state = "running" /\ viewed # "failed"
  BY <1>4, <1>6, <1>8 DEF Ready, Unbroken
<1>10. CASE Plan(c, Rest(c))
  <2>1. todo'[c] = Tail(q)
    BY <1>1, <1>4, <1>10 DEF Plan, Rest
  <2>2. PICK p : p = Tail(q)
    OBVIOUS
  <2>3. Shift(p, q, 0) /\ (\A i \in DOMAIN p : ~(i <= 0)) /\ 0 \in Nat
    BY <1>4, <2>2, SwapNone
  <2>4. Quiet(p, q, 0, y, g)
    BY <1>4, <1>7, <1>9, <2>3, QuietWork
  <2> QED BY <1>4, <1>5, <1>7, <2>1, <2>2, <2>3, <2>4, QuietBooks
<1>11. CASE Plan(c, FailNode(Arg(c), Arg2(c)))
  <2>1. todo'[c] = FailNode(n, viewed)
    BY <1>1, <1>4, <1>6, <1>11 DEF Plan, Arg, Arg2
  <2>2. FailNode(n, viewed) = <<Status(n, "failed")>> \o <<Note("failed", n), FailIfRunning>>
    BY <1>9 DEF FailNode, SetStatus
  <2>3. FailNode(n, viewed) = <<Status(n, "failed"), Note("failed", n), FailIfRunning>>
    BY <2>2, Tuples
  <2>4. Books(<<>>, y, g, events)
    BY <1>4, <1>7, <1>9, StopBooks
  <2> QED BY <1>5, <1>9, <2>1, <2>3, <2>4, FailsNode
<1> QED BY <1>10, <1>11 DEF DoTool

(* The mission fails after its node.                                       *)
LEMMA FailureBooks ==
  ASSUME NEW c \in Commands, AtWork(c), DoFailIfRunning(c)
  PROVE  Books(todo'[c], yaml', graph', nodeEvents')
<1>1. PICK q : q = todo[c]
  OBVIOUS
<1>2. PICK y, g, events : y = yaml /\ g = graph /\ events = nodeEvents
  OBVIOUS
<1>3. Does(c, "failIfRunning")
  BY DEF DoFailIfRunning
<1>4. /\ q # <<>> /\ q[1][1] = "failIfRunning" /\ 1 \in DOMAIN q
      /\ todo \in [Commands -> Seq(Ops)] /\ Books(q, y, g, events)
  BY <1>1, <1>2, <1>3, AtHead
<1>5. yaml' = y /\ graph' = g /\ nodeEvents' = events
  BY <1>2 DEF DoFailIfRunning
<1>6. y.state = "running" /\ Books(<<Move("failed")>>, y, g, events)
  BY <1>4, FailsMission
<1>7. todo'[c] = <<Move("failed")>>
  BY <1>2, <1>4, <1>6 DEF DoFailIfRunning, Plan
<1> QED BY <1>5, <1>6, <1>7

(* The approved tool.                                                      *)
LEMMA ConsumeBooks ==
  ASSUME NEW c \in Commands, AtWork(c), ConsumeRuns(c) \/ ConsumeFails(c)
  PROVE  Books(todo'[c], yaml', graph', nodeEvents')
<1>1. PICK q : q = todo[c]
  OBVIOUS
<1>2. PICK y, g, events : y = yaml /\ g = graph /\ events = nodeEvents
  OBVIOUS
<1>3. Does(c, "consume")
  BY DEF ConsumeRuns, ConsumeFails
<1>4. /\ q \in Seq(Ops) /\ q # <<>> /\ q[1] \in Ops /\ q[1][1] = "consume" /\ 1 \in DOMAIN q
      /\ todo \in [Commands -> Seq(Ops)] /\ Books(q, y, g, events)
  BY <1>1, <1>2, <1>3, AtHead
<1>5. yaml' = y /\ graph' = g /\ nodeEvents' = events
  BY <1>2 DEF ConsumeRuns, ConsumeFails
<1>6. PICK k : k = q[1][2]
  OBVIOUS
<1>7. Mark(k) \in Ops /\ Report \in Ops
  BY <1>4, <1>6, OpArgs, OpsMade
<1>8. /\ ~Writes(q[1]) /\ ~Fatal(q[1]) /\ ~Mild(q[1]) /\ ~Reaches(q[1], "completed")
      /\ \A m : ~Completes(q[1], m)
  BY <1>4 DEF Writes, Fatal, Mild, Reaches, Completes
<1>9. y.state # "verifying"
  BY <1>4, <1>8, Calm
<1>10. CASE ConsumeRuns(c)
  <2>1. todo'[c] = <<Report, Mark(k)>> \o Tail(q)
    BY <1>1, <1>4, <1>6, <1>10 DEF ConsumeRuns, Plan, Rest, Arg
  <2>2. PICK p : p = <<Report, Mark(k)>> \o Tail(q)
    OBVIOUS
  <2>3. LedTwo(p, q, Report, Mark(k))
    BY <1>4, <1>7, <2>2, SwapTwo
  <2>4. Shift(p, q, 2) /\ \A i \in DOMAIN p : i <= 2 => p[i] = Report \/ p[i] = Mark(k)
    BY <2>3 DEF LedTwo
  <2>5. \A i \in DOMAIN p : i <= 2 => Plain(p[i]) /\ Deciding(p[i])
    BY <2>4, PlainOps
  <2>6. 2 \in Nat
    OBVIOUS
  <2>7. Quiet(p, q, 2, y, g)
    BY <1>4, <1>8, <1>9, <2>5, <2>6, QuietWork
  <2> QED BY <1>4, <1>5, <1>8, <2>1, <2>2, <2>4, <2>6, <2>7, QuietBooks
<1>11. CASE ConsumeFails(c)
  <2>1. todo'[c] = <<>>
    BY <1>4, <1>11 DEF ConsumeFails, Throw, Plan
  <2> QED BY <1>4, <1>5, <1>8, <1>9, <2>1, StopBooks
<1> QED BY <1>10, <1>11

(* The approval that was used is marked.                                   *)
LEMMA MarkBooks ==
  ASSUME NEW c \in Commands, AtWork(c), DoMark(c)
  PROVE  Books(todo'[c], yaml', graph', nodeEvents')
<1>1. PICK q : q = todo[c]
  OBVIOUS
<1>2. PICK y, g, events : y = yaml /\ g = graph /\ events = nodeEvents
  OBVIOUS
<1>3. Does(c, "mark")
  BY DEF DoMark
<1>4. /\ q \in Seq(Ops) /\ q # <<>> /\ q[1] \in Ops /\ q[1][1] = "mark" /\ 1 \in DOMAIN q
      /\ todo \in [Commands -> Seq(Ops)] /\ Books(q, y, g, events)
  BY <1>1, <1>2, <1>3, AtHead
<1>5. yaml' = y /\ graph' = g /\ nodeEvents' = events
  BY <1>2 DEF DoMark
<1>6. /\ ~Writes(q[1]) /\ ~Fatal(q[1]) /\ ~Mild(q[1]) /\ ~Reaches(q[1], "completed")
      /\ \A m : ~Completes(q[1], m)
  BY <1>4 DEF Writes, Fatal, Mild, Reaches, Completes
<1>7. y.state # "verifying"
  BY <1>4, <1>6, Calm
<1>8. \E p \in {<<Mirror>> \o Tail(q), Tail(q), <<>>} : todo'[c] = p
  <2>1. \E p \in {<<Mirror>> \o Rest(c), Rest(c), <<>>} : Plan(c, p)
    BY DEF DoMark
  <2> QED BY <1>1, <1>4, <2>1 DEF Plan, Rest
<1>9. CASE todo'[c] = <<Mirror>> \o Tail(q)
  <2>1. PICK p : p = <<Mirror>> \o Tail(q)
    OBVIOUS
  <2>2. LedOne(p, q, Mirror)
    BY <1>4, <2>1, OpsMade, SwapOne
  <2>3. Shift(p, q, 1) /\ (\A i \in DOMAIN p : i <= 1 => p[i] = Mirror) /\ 1 \in Nat
    BY <2>2 DEF LedOne
  <2>4. \A i \in DOMAIN p : i <= 1 => Plain(p[i]) /\ Deciding(p[i])
    BY <2>3, PlainOps
  <2>5. Quiet(p, q, 1, y, g)
    BY <1>4, <1>6, <1>7, <2>3, <2>4, QuietWork
  <2> QED BY <1>4, <1>5, <1>6, <1>9, <2>1, <2>3, <2>5, QuietBooks
<1>10. CASE todo'[c] = Tail(q)
  <2>1. PICK p : p = Tail(q)
    OBVIOUS
  <2>2. Shift(p, q, 0) /\ (\A i \in DOMAIN p : ~(i <= 0)) /\ 0 \in Nat
    BY <1>4, <2>1, SwapNone
  <2>3. Quiet(p, q, 0, y, g)
    BY <1>4, <1>6, <1>7, <2>2, QuietWork
  <2> QED BY <1>4, <1>5, <1>6, <1>10, <2>1, <2>2, <2>3, QuietBooks
<1>11. CASE todo'[c] = <<>>
  BY <1>4, <1>5, <1>6, <1>7, <1>11, StopBooks
<1> QED BY <1>8, <1>9, <1>10, <1>11

(* A mission that is going to wait for its approval.                       *)
LEMMA WaitBooks ==
  ASSUME NEW y, NEW g, NEW events, Books(<<>>, y, g, events), y.state # "failed",
         \A k \in 1..Safe : g[k] = "completed", NEW p, p # <<>> => 1 \in DOMAIN p,
         \A i \in DOMAIN p : \/ p[i] = Mirror \/ p[i] = Status(ApprovalNode, "blocked")
                             \/ p[i] = Ensure("waiting_for_approval")
  PROVE  Books(p, y, g, events)
<1>1. ASSUME NEW i \in DOMAIN p
      PROVE  /\ p[i][1] \notin {"putGraph", "putYaml", "view"} /\ ~Guarded(p[i]) /\ ~Breaks(p[i])
             /\ Unbroken(p[i]) /\ (p[i][1] = "status" => p[i][3] # "completed")
             /\ ~Reaches(p[i], "recovering") /\ ~Reaches(p[i], "verifying")
  BY DEF Mirror, Status, Ensure, Guarded, Fatal, Breaks, Unbroken, Reaches
<1>2. ViewBooks(p, y.state)
  BY <1>1 DEF ViewBooks
<1>3. Opens(p, y, g)
  BY <1>1, <1>2 DEF Opens
<1> QED BY <1>3, OpenedBooks

(* The approval node: each answer its newest approval may have.            *)
LEMMA GateBooks ==
  ASSUME NEW c \in Commands, AtWork(c), DoGate(c)
  PROVE  Books(todo'[c], yaml', graph', nodeEvents')
<1>1. PICK q : q = todo[c]
  OBVIOUS
<1>2. PICK y, g, events : y = yaml /\ g = graph /\ events = nodeEvents
  OBVIOUS
<1>3. Does(c, "gate")
  BY DEF DoGate
<1>4. /\ q \in Seq(Ops) /\ q # <<>> /\ q[1] \in Ops /\ q[1][1] = "gate" /\ 1 \in DOMAIN q
      /\ todo \in [Commands -> Seq(Ops)] /\ Books(q, y, g, events)
  BY <1>1, <1>2, <1>3, AtHead
<1>5. yaml' = y /\ graph' = g /\ nodeEvents' = events
  BY <1>2 DEF DoGate
<1>6. PICK viewed : viewed = q[1][2]
  OBVIOUS
<1>7. /\ ~Writes(q[1]) /\ ~Fatal(q[1]) /\ ~Mild(q[1]) /\ Guarded(q[1]) /\ ~Deciding(q[1])
      /\ \A k : ~Completes(q[1], k)
      /\ \A k : Assumes(q[1], k)
  BY <1>4 DEF Writes, Fatal, Mild, Guarded, Deciding, Completes, Assumes
<1>8. Ready(q[1], y.state) /\ Unbroken(q[1]) /\ \A k \in 1..Safe : Assumes(q[1], k) => g[k] = "completed"
  BY <1>4, <1>7, Calm
<1>9. /\ y.state \in {"running", "waiting_for_approval"} /\ viewed # "failed"
      /\ \A k \in 1..Safe : g[k] = "completed"
  BY <1>4, <1>6, <1>7, <1>8 DEF Ready, Unbroken
<1>10. Arg(c) = viewed /\ Rest(c) = Tail(q) /\ viewed \in Statuses
  BY <1>1, <1>4, <1>6, OpArgs DEF Arg, Rest
<1>11. approvals \in Seq({"pending", "approved", "denied", "executed"}) /\ WaitingIsAnswerable
  BY DEF AtWork, ExecInv, Typed
<1>12. PICK r, a : r = Tail(q) /\ a = Complete(ApprovalNode)
  OBVIOUS
<1>13. r \in Seq(Ops) /\ a \in Ops /\ Ensure("running") \in Ops /\ Consume(Len(approvals)) \in Ops
  BY <1>4, <1>11, <1>12, OpsMade, NodesKnown, StatesKnown
<1>14. CASE Newest = "pending"
  <2>1. todo'[c] = <<Ensure("waiting_for_approval")>> \o SetStatus(ApprovalNode, viewed, "blocked")
    BY <1>1, <1>4, <1>10, <1>14 DEF DoGate, Plan
  <2>2. Books(<<>>, y, g, events)
    BY <1>4, <1>7, <1>9, StopBooks
  <2>3. PICK w, s : w = Ensure("waiting_for_approval") /\ s = Status(ApprovalNode, "blocked")
    OBVIOUS
  <2>4. todo'[c] = <<w>> \/ todo'[c] = <<w, s>>
    <3>1. CASE viewed = "blocked"
      <4>1. SetStatus(ApprovalNode, viewed, "blocked") = <<>> /\ <<w>> \in Seq({w})
        BY <3>1 DEF SetStatus
      <4> QED BY <2>1, <2>3, <4>1, ConcatEmptySeq
    <3>2. CASE viewed # "blocked"
      BY <2>1, <2>3, <3>2, Paired DEF SetStatus
    <3> QED BY <3>1, <3>2
  <2>5. PICK p : p = todo'[c]
    OBVIOUS
  <2>6. (p # <<>> => 1 \in DOMAIN p) /\ \A i \in DOMAIN p : p[i] = w \/ p[i] = s
    BY <2>4, <2>5
  <2>7. \A i \in DOMAIN p : \/ p[i] = Mirror \/ p[i] = Status(ApprovalNode, "blocked")
                            \/ p[i] = Ensure("waiting_for_approval")
    BY <2>3, <2>6
  <2>8. y.state # "failed" /\ (p # <<>> => 1 \in DOMAIN p)
    BY <1>9, <2>6
  <2>9. Books(p, y, g, events)
    BY <1>9, <2>2, <2>7, <2>8, WaitBooks
  <2> QED BY <1>5, <2>5, <2>9
<1>15. CASE Newest = "approved"
  <2>1. PICK e, u : e = Ensure("running") /\ u = Consume(Len(approvals))
    OBVIOUS
  <2>2. todo'[c] = <<e, u>> \o (<<a>> \o r)
    BY <1>1, <1>4, <1>10, <1>12, <1>15, <2>1 DEF DoGate, Plan
  <2>3. <<e, u>> \o (<<a>> \o r) = <<e, u, a>> \o r
    <3>1. <<e, u>> \in Seq(Ops) /\ <<a>> \in Seq(Ops) /\ r \in Seq(Ops)
      BY <1>13, <2>1
    <3>2. (<<e, u>> \o <<a>>) \o r = <<e, u>> \o (<<a>> \o r)
      BY <3>1, ConcatAssociative
    <3>3. <<e, u>> \o <<a>> = <<e, u, a>>
      BY Tuples
    <3> QED BY <3>2, <3>3
  <2>4. PICK p : p = <<e, u, a>> \o Tail(q)
    OBVIOUS
  <2>5. LedThree(p, q, e, u, a)
    BY <1>4, <1>13, <2>1, <2>4, SwapThree
  <2>6. /\ Shift(p, q, 3) /\ 3 \in Nat
        /\ \A i \in DOMAIN p : i <= 3 => p[i] = e \/ p[i] = u \/ p[i] = a
    BY <2>5 DEF LedThree
  <2>7. Plain(e) /\ Plain(u) /\ Plain(a)
    BY <1>12, <2>1, PlainOps
  <2>8. \A i \in DOMAIN p : i <= 3 => Plain(p[i])
    BY <2>6, <2>7
  <2>9. Quiet(p, q, 3, y, g)
    BY <1>4, <1>7, <1>9, <2>6, <2>8, QuietWork
  <2>10. todo'[c] = p
    BY <1>12, <2>2, <2>3, <2>4
  <2> QED BY <1>4, <1>5, <1>7, <2>6, <2>9, <2>10, QuietBooks
<1>16. CASE Newest \in {"executed", "denied"}
  <2>1. PICK e : e = Ensure("running")
    OBVIOUS
  <2>2. todo'[c] = <<e>> \o (<<a>> \o r)
    BY <1>1, <1>4, <1>10, <1>12, <1>16, <2>1 DEF DoGate, Plan
  <2>3. <<e>> \o (<<a>> \o r) = <<e, a>> \o r
    <3>1. <<e>> \in Seq(Ops) /\ <<a>> \in Seq(Ops) /\ r \in Seq(Ops)
      BY <1>13, <2>1
    <3>2. (<<e>> \o <<a>>) \o r = <<e>> \o (<<a>> \o r)
      BY <3>1, ConcatAssociative
    <3> QED BY <3>2, Paired
  <2>4. PICK p : p = <<e, a>> \o Tail(q)
    OBVIOUS
  <2>5. LedTwo(p, q, e, a)
    BY <1>4, <1>13, <2>1, <2>4, SwapTwo
  <2>6. Shift(p, q, 2) /\ 2 \in Nat /\ \A i \in DOMAIN p : i <= 2 => p[i] = e \/ p[i] = a
    BY <2>5 DEF LedTwo
  <2>7. Plain(e) /\ Plain(a)
    BY <1>12, <2>1, PlainOps
  <2>8. \A i \in DOMAIN p : i <= 2 => Plain(p[i])
    BY <2>6, <2>7
  <2>9. Quiet(p, q, 2, y, g)
    BY <1>4, <1>7, <1>9, <2>6, <2>8, QuietWork
  <2>10. todo'[c] = p
    BY <1>12, <2>2, <2>3, <2>4
  <2> QED BY <1>4, <1>5, <1>7, <2>6, <2>9, <2>10, QuietBooks
<1>17. CASE Newest = "absent"
  <2>1. y.state = "running"
    <3>1. approvals = <<>>
      <4> SUFFICES ASSUME approvals # <<>> PROVE FALSE
        OBVIOUS
      <4>1. Len(approvals) \in 1..Len(approvals)
        BY <1>11
      <4> QED BY <1>11, <1>17, <4>1 DEF Newest
    <3> QED BY <1>2, <1>9, <1>11, <3>1 DEF WaitingIsAnswerable
  <2>2. PICK x : x = Request(viewed)
    OBVIOUS
  <2>3. x \in Ops /\ x[1] = "request" /\ x[2] = viewed
    BY <1>10, <2>2, OpsMade DEF Request
  <2>4. todo'[c] = StartNode(ApprovalNode, viewed) \o <<x>> \o r
    BY <1>1, <1>4, <1>10, <1>12, <1>17, <2>2 DEF DoGate, Plan
  <2>5. Unbroken(x) /\ Ready(x, y.state) /\ x[1] \in {"tool", "gate", "request"}
    BY <1>9, <2>1, <2>3 DEF Unbroken, Ready
  <2>6. CASE viewed = "ready"
    <3>1. todo'[c] = <<x>> \o r
      <4>1. StartNode(ApprovalNode, viewed) = <<>> /\ <<x>> \in Seq(Ops)
        BY <2>3, <2>6 DEF StartNode
      <4> QED BY <2>4, <4>1, ConcatEmptySeq
    <3>2. PICK p : p = <<x>> \o Tail(q)
      OBVIOUS
    <3>3. LedOne(p, q, x)
      BY <1>4, <2>3, <3>2, SwapOne
    <3>4. /\ Shift(p, q, 1) /\ 1 \in Nat /\ p[1] = x
          /\ \A i \in DOMAIN p : (i <= 1 => i = 1) /\ ~(i < 1)
      BY <3>3 DEF LedOne, Shift
    <3>5. \A i \in DOMAIN p : i <= 1 => Acting(p, i, y, g)
      BY <1>9, <2>5, <3>4 DEF Acting
    <3>6. Quiet(p, q, 1, y, g)
      BY <1>4, <1>7, <1>9, <3>4, <3>5, QuietWork
    <3>7. todo'[c] = p
      BY <1>12, <3>1, <3>2
    <3> QED BY <1>4, <1>5, <1>7, <3>4, <3>6, <3>7, QuietBooks
  <2>7. CASE viewed # "ready"
    <3>1. PICK s, t : s = Status(ApprovalNode, "ready") /\ t = Note("started", ApprovalNode)
      OBVIOUS
    <3>2. s \in Ops /\ t \in Ops /\ Plain(s) /\ Plain(t) /\ Writes(s) /\ Writes(t)
      BY <3>1, OpsMade, NodesKnown, PlainOps DEF Statuses, Writes, Status, Note
    <3>3. todo'[c] = <<s, t, x>> \o r
      BY <2>4, <2>7, <3>1, Tuples DEF StartNode
    <3>4. PICK p : p = <<s, t, x>> \o Tail(q)
      OBVIOUS
    <3>5. LedThree(p, q, s, t, x)
      BY <1>4, <2>3, <3>2, <3>4, SwapThree
    <3>6. /\ Shift(p, q, 3) /\ 3 \in Nat /\ p[3] = x /\ p[1] = s /\ p[2] = t
          /\ \A i \in DOMAIN p : i <= 3 => i = 1 \/ i = 2 \/ i = 3
          /\ \A i \in DOMAIN p : i < 3 => i = 1 \/ i = 2
      BY <3>5 DEF LedThree, Shift
    <3>7. Acting(p, 3, y, g)
      BY <1>9, <2>5, <3>2, <3>6 DEF Acting
    <3>8. \A i \in DOMAIN p : i <= 3 => Plain(p[i]) \/ Acting(p, i, y, g)
      BY <3>2, <3>6, <3>7
    <3>9. Quiet(p, q, 3, y, g)
      BY <1>4, <1>7, <1>9, <3>6, <3>8, QuietWork
    <3>10. todo'[c] = p
      BY <1>12, <3>3, <3>4
    <3> QED BY <1>4, <1>5, <1>7, <3>6, <3>9, <3>10, QuietBooks
  <2> QED BY <2>6, <2>7
<1>18. Newest \in {"pending", "approved", "executed", "denied", "absent"}
  <2>1. CASE approvals = <<>>
    BY <2>1 DEF Newest
  <2>2. CASE approvals # <<>>
    <3>1. Len(approvals) \in 1..Len(approvals)
      BY <1>11, <2>2
    <3> QED BY <1>11, <2>2, <3>1 DEF Newest
  <2> QED BY <2>1, <2>2
<1> QED BY <1>14, <1>15, <1>16, <1>17, <1>18

(* The request for the report: run, held or blocked.                       *)
LEMMA RequestBooks ==
  ASSUME NEW c \in Commands, AtWork(c), DoRequest(c)
  PROVE  Books(todo'[c], yaml', graph', nodeEvents')
<1>1. PICK q : q = todo[c]
  OBVIOUS
<1>2. PICK y, g, events : y = yaml /\ g = graph /\ events = nodeEvents
  OBVIOUS
<1>3. Does(c, "request")
  BY DEF DoRequest
<1>4. /\ q \in Seq(Ops) /\ q # <<>> /\ q[1] \in Ops /\ q[1][1] = "request" /\ 1 \in DOMAIN q
      /\ todo \in [Commands -> Seq(Ops)] /\ Books(q, y, g, events)
  BY <1>1, <1>2, <1>3, AtHead
<1>5. yaml' = y /\ graph' = g /\ nodeEvents' = events
  BY <1>2 DEF DoRequest
<1>6. PICK viewed : viewed = q[1][2]
  OBVIOUS
<1>7. /\ ~Writes(q[1]) /\ ~Fatal(q[1]) /\ ~Mild(q[1]) /\ Guarded(q[1]) /\ ~Deciding(q[1])
      /\ \A k : ~Completes(q[1], k)
      /\ \A k : Assumes(q[1], k)
  BY <1>4 DEF Writes, Fatal, Mild, Guarded, Deciding, Completes, Assumes
<1>8. Ready(q[1], y.state) /\ Unbroken(q[1]) /\ \A k \in 1..Safe : Assumes(q[1], k) => g[k] = "completed"
  BY <1>4, <1>7, Calm
<1>9. y.state = "running" /\ viewed # "failed" /\ \A k \in 1..Safe : g[k] = "completed"
  BY <1>4, <1>6, <1>7, <1>8 DEF Ready, Unbroken
<1>10. Arg(c) = viewed /\ Rest(c) = Tail(q)
  BY <1>1, <1>6 DEF Arg, Rest
<1>11. Books(<<>>, y, g, events)
  BY <1>4, <1>7, <1>9, StopBooks
<1>12. CASE Plan(c, <<Report, Complete(ApprovalNode)>> \o Rest(c))
  <2>1. PICK a : a = Complete(ApprovalNode)
    OBVIOUS
  <2>2. PICK p : p = <<Report, a>> \o Tail(q)
    OBVIOUS
  <2>3. todo'[c] = p
    BY <1>4, <1>10, <1>12, <2>1, <2>2 DEF Plan
  <2>4. a \in Ops /\ Report \in Ops
    BY <2>1, OpsMade, NodesKnown
  <2>5. LedTwo(p, q, Report, a)
    BY <1>4, <2>2, <2>4, SwapTwo
  <2>6. Shift(p, q, 2) /\ 2 \in Nat /\ \A i \in DOMAIN p : i <= 2 => p[i] = Report \/ p[i] = a
    BY <2>5 DEF LedTwo
  <2>7. \A i \in DOMAIN p : i <= 2 => Plain(p[i])
    BY <2>1, <2>6, PlainOps
  <2>8. Quiet(p, q, 2, y, g)
    BY <1>4, <1>7, <1>9, <2>6, <2>7, QuietWork
  <2> QED BY <1>4, <1>5, <1>7, <2>3, <2>6, <2>8, QuietBooks
<1>13. CASE Plan(c, FailNode(ApprovalNode, Arg(c)))
  <2>1. todo'[c] = FailNode(ApprovalNode, viewed)
    BY <1>4, <1>10, <1>13 DEF Plan
  <2>2. FailNode(ApprovalNode, viewed) =
          <<Status(ApprovalNode, "failed")>> \o <<Note("failed", ApprovalNode), FailIfRunning>>
    BY <1>9 DEF FailNode, SetStatus
  <2>3. FailNode(ApprovalNode, viewed) =
          <<Status(ApprovalNode, "failed"), Note("failed", ApprovalNode), FailIfRunning>>
    BY <2>2, Tuples
  <2> QED BY <1>5, <1>9, <1>11, <2>1, <2>3, FailsNode
<1>14. CASE Plan(c, <<Mirror>> \o SetStatus(ApprovalNode, Arg(c), "blocked")
                    \o <<Ensure("waiting_for_approval")>>)
  <2>1. PICK w, s : w = Ensure("waiting_for_approval") /\ s = Status(ApprovalNode, "blocked")
    OBVIOUS
  <2>2. todo'[c] = <<Mirror>> \o SetStatus(ApprovalNode, viewed, "blocked") \o <<w>>
    BY <1>4, <1>10, <1>14, <2>1 DEF Plan
  <2>3. todo'[c] = <<Mirror, w>> \/ todo'[c] = <<Mirror, s, w>>
    <3>1. CASE viewed = "blocked"
      <4>1. SetStatus(ApprovalNode, viewed, "blocked") = <<>> /\ <<Mirror>> \in Seq({Mirror})
        BY <3>1 DEF SetStatus
      <4>2. <<Mirror>> \o <<>> = <<Mirror>>
        BY <4>1, ConcatEmptySeq
      <4>3. todo'[c] = <<Mirror>> \o <<w>>
        BY <2>2, <4>1, <4>2
      <4> QED BY <4>3, Paired
    <3>2. CASE viewed # "blocked"
      <4>1. todo'[c] = <<Mirror>> \o <<s>> \o <<w>>
        BY <2>1, <2>2, <3>2 DEF SetStatus
      <4>2. <<Mirror>> \o <<s>> = <<Mirror, s>> /\ <<Mirror, s>> \o <<w>> = <<Mirror, s, w>>
        BY Paired, Tuples
      <4> QED BY <4>1, <4>2
    <3> QED BY <3>1, <3>2
  <2>4. PICK p : p = todo'[c]
    OBVIOUS
  <2>5. (p # <<>> => 1 \in DOMAIN p) /\ \A i \in DOMAIN p : p[i] = Mirror \/ p[i] = w \/ p[i] = s
    BY <2>3, <2>4
  <2>6. \A i \in DOMAIN p : \/ p[i] = Mirror \/ p[i] = Status(ApprovalNode, "blocked")
                            \/ p[i] = Ensure("waiting_for_approval")
    BY <2>1, <2>5
  <2>7. y.state # "failed" /\ (p # <<>> => 1 \in DOMAIN p)
    BY <1>9, <2>5
  <2>8. Books(p, y, g, events)
    BY <1>9, <1>11, <2>6, <2>7, WaitBooks
  <2> QED BY <1>5, <2>4, <2>8
<1> QED BY <1>12, <1>13, <1>14 DEF DoRequest
-----------------------------------------------------------------------------
(* The report node takes the mission to verifying.                         *)
LEMMA QuietReport ==
  ASSUME NEW p, NEW q, NEW n \in Nat, NEW y, NEW g, y.state \in {"running", "waiting_for_approval"},
         q[1][1] = "view", q[1][2] = ReportNode, 2 \in DOMAIN q, Reaches(q[2], "completed"),
         \A i \in DOMAIN p : i <= n =>
           \/ Plain(p[i])
           \/ p[i] = Ensure("verifying") /\ \A j \in DOMAIN p : i < j /\ j <= n => Mild(p[j])
  PROVE  Quiet(p, q, n, y, g)
<1>1. ASSUME NEW i \in DOMAIN p, i <= n, Plain(p[i])
      PROVE  /\ p[i][1] \notin {"putGraph", "view", "putYaml"} /\ ~Fatal(p[i]) /\ ~Breaks(p[i]) /\ Unbroken(p[i])
             /\ ~Guarded(p[i]) /\ (p[i][1] = "status" => p[i][3] # "completed")
             /\ \A k \in 1..Safe : ~Assumes(p[i], k)
             /\ ~Reaches(p[i], "recovering") /\ ~Reaches(p[i], "verifying")
  BY <1>1 DEF Plain
<1>2. ASSUME NEW i \in DOMAIN p, i <= n, p[i] = Ensure("verifying")
      PROVE  /\ p[i][1] \notin {"putGraph", "view", "putYaml", "status"}
             /\ ~Fatal(p[i]) /\ ~Breaks(p[i]) /\ Unbroken(p[i]) /\ ~Guarded(p[i])
             /\ \A k \in 1..Safe : ~Assumes(p[i], k)
             /\ ~Reaches(p[i], "recovering")
  BY <1>2 DEF Ensure, Fatal, Breaks, Unbroken, Guarded, Assumes, Reaches
<1>3. \A k \in 1..Safe : ~Completes(q[1], k)
  <2>1. \A k \in 1..Safe : k # ReportNode
    BY ExecutionAssumption DEF ReportNode
  <2> QED BY <2>1 DEF Completes
<1>4. y.state # "verifying" /\ y.state # "failed"
  OBVIOUS
<1>5. \A i \in DOMAIN p : i <= n /\ Reaches(p[i], "verifying") =>
        \A j \in DOMAIN p : i < j /\ j <= n => Mild(p[j])
  BY <1>1
<1> QED BY <1>1, <1>2, <1>3, <1>4, <1>5 DEF Quiet

(* readNode, and the work it calls for.                                    *)
LEMMA LookBooks ==
  ASSUME NEW c \in Commands, AtWork(c), DoView(c)
  PROVE  Books(todo'[c], yaml', graph', nodeEvents')
<1>1. PICK q : q = todo[c]
  OBVIOUS
<1>2. PICK y, g, events : y = yaml /\ g = graph /\ events = nodeEvents
  OBVIOUS
<1>3. Does(c, "view")
  BY DEF DoView
<1>4. /\ q \in Seq(Ops) /\ q # <<>> /\ q[1] \in Ops /\ q[1][1] = "view" /\ 1 \in DOMAIN q
      /\ todo \in [Commands -> Seq(Ops)] /\ g \in [Nodes -> Statuses] /\ Books(q, y, g, events)
  BY <1>1, <1>2, <1>3, AtHead
<1>5. yaml' = y /\ graph' = g /\ nodeEvents' = events
  BY <1>2 DEF DoView
<1>6. PICK n, viewed : n = q[1][2] /\ viewed = g[n]
  OBVIOUS
<1>7. /\ ~Writes(q[1]) /\ ~Fatal(q[1]) /\ ~Deciding(q[1])
      /\ \A k : Completes(q[1], k) => k = n
      /\ \A k : Assumes(q[1], k) <=> k < n
  BY <1>4, <1>6 DEF Writes, Fatal, Deciding, Completes, Assumes, Reaches
<1>8. n \in Nodes /\ viewed \in Statuses
  <2>1. n \in Nodes
    BY <1>4, <1>6, OpArgs
  <2> QED BY <1>4, <1>6, <2>1
<1>9. /\ y.graph = g /\ y.state \in {"running", "waiting_for_approval"}
      /\ \A k \in 1..Safe : k < n => g[k] = "completed"
      /\ y.state = "waiting_for_approval" => \A k \in 1..Safe : g[k] = "completed"
      /\ n = ReportNode => 2 \in DOMAIN q /\ Reaches(q[2], "completed")
      /\ Broken(g) <=> y.state = "failed"
  BY <1>4, <1>6, <1>7, Calm
<1>10. viewed # "failed"
  BY <1>6, <1>8, <1>9 DEF Broken
<1>11. /\ y.state # "verifying" /\ y.state # "failed"
       /\ q[1][1] # "report" /\ q[1][1] \notin {"move", "failIfRunning"}
  BY <1>4, <1>9
<1>12. todo'[c] = <<>> \o NodeWork(n, viewed) \o Tail(q)
  <2>1. Sync = <<>>
    BY <1>2, <1>9 DEF Sync
  <2> QED BY <1>1, <1>2, <1>4, <1>6, <2>1 DEF DoView, Plan, Arg, Rest
<1>13. ASSUME NEW w \in Seq(Ops), NodeWork(n, viewed) = w PROVE todo'[c] = w \o Tail(q)
  <2>1. <<>> \o w = w
    BY ConcatEmptySeq
  <2> QED BY <1>12, <1>13, <2>1
<1>14. CASE viewed = "completed"
  <2>1. todo'[c] = <<>> \o Tail(q)
    <3>1. <<>> \in Seq(Ops) /\ NodeWork(n, viewed) = <<>>
      BY <1>14 DEF NodeWork
    <3> QED BY <1>13, <3>1
  <2>2. todo'[c] = Tail(q)
    <3>1. Tail(q) \in Seq(Ops)
      BY <1>4
    <3> QED BY <2>1, <3>1, ConcatEmptySeq
  <2>3. PICK p : p = Tail(q)
    OBVIOUS
  <2>4. Shift(p, q, 0) /\ (\A i \in DOMAIN p : ~(i <= 0)) /\ 0 \in Nat
    BY <1>4, <2>3, SwapNone
  <2>5. \A k \in 1..Safe : Completes(q[1], k) => g[k] = "completed"
    BY <1>6, <1>7, <1>14
  <2>6. Quiet(p, q, 0, y, g)
    BY <1>4, <1>11, <2>4, <2>5, QuietWork
  <2> QED BY <1>4, <1>5, <1>7, <1>11, <2>2, <2>3, <2>4, <2>6, QuietBooks
<1>15. CASE viewed # "completed" /\ n = ApprovalNode
  <2>1. PICK x : x = Gate(viewed)
    OBVIOUS
  <2>2. x \in Ops /\ x[1] = "gate" /\ x[2] = viewed
    BY <1>8, <2>1, OpsMade DEF Gate
  <2>3. \A k \in 1..Safe : k < n /\ k # n
    BY <1>15, ExecutionAssumption DEF ApprovalNode
  <2>4. n # ReportNode /\ ~(n <= Safe)
    BY <1>15, NodesKnown DEF ApprovalNode
  <2>5. todo'[c] = <<x>> \o Tail(q)
    <3>1. NodeWork(n, viewed) = <<x>> /\ <<x>> \in Seq(Ops)
      BY <1>15, <2>1, <2>2, <2>4 DEF NodeWork
    <3> QED BY <1>13, <3>1
  <2>6. PICK p : p = <<x>> \o Tail(q)
    OBVIOUS
  <2>7. LedOne(p, q, x)
    BY <1>4, <2>2, <2>6, SwapOne
  <2>8. /\ Shift(p, q, 1) /\ 1 \in Nat /\ p[1] = x
        /\ \A i \in DOMAIN p : (i <= 1 => i = 1) /\ ~(i < 1)
    BY <2>7 DEF LedOne, Shift
  <2>9. Unbroken(x) /\ Ready(x, y.state)
    BY <1>9, <1>10, <2>2 DEF Unbroken, Ready
  <2>10. \A i \in DOMAIN p : i <= 1 => Acting(p, i, y, g)
    BY <1>9, <2>2, <2>3, <2>8, <2>9 DEF Acting
  <2>11. \A k \in 1..Safe : ~Completes(q[1], k)
    BY <1>7, <2>3
  <2>12. Quiet(p, q, 1, y, g)
    BY <1>4, <1>11, <2>8, <2>10, <2>11, QuietWork
  <2> QED BY <1>4, <1>5, <1>7, <1>11, <2>5, <2>6, <2>8, <2>12, QuietBooks
<1>16. PICK s, t, a : s = Status(n, "ready") /\ t = Note("started", n) /\ a = Complete(n)
  OBVIOUS
<1>17. /\ s \in Ops /\ t \in Ops /\ a \in Ops /\ Plain(s) /\ Plain(t) /\ Plain(a)
       /\ Writes(s) /\ Writes(t) /\ Mild(a)
  BY <1>8, <1>16, OpsMade, PlainOps DEF Statuses, Writes, Mild, Status, Note, Complete
<1>18. ASSUME NEW x \in Ops, NodeWork(n, viewed) = StartNode(n, viewed) \o <<x, a>>
       PROVE  \/ todo'[c] = <<x, a>> \o Tail(q)
              \/ todo'[c] = <<s, t, x, a>> \o Tail(q)
  <2>1. PICK w, v : w = <<x, a>> /\ v = <<s, t, x, a>>
    OBVIOUS
  <2>2. w \in Seq(Ops) /\ v \in Seq(Ops)
    BY <1>17, <2>1
  <2>3. CASE viewed = "ready"
    <3>1. <<>> \o w = w
      BY <2>2, ConcatEmptySeq
    <3>2. NodeWork(n, viewed) = w
      BY <1>18, <2>1, <2>3, <3>1 DEF StartNode
    <3> QED BY <1>13, <2>1, <2>2, <3>2
  <2>4. CASE viewed # "ready"
    <3>1. NodeWork(n, viewed) = v
      <4>1. StartNode(n, viewed) = <<s, t>>
        BY <1>16, <2>4 DEF StartNode
      <4>2. <<s, t>> \o <<x, a>> = <<s, t, x, a>>
        BY FourTuple
      <4> QED BY <1>18, <2>1, <4>1, <4>2
    <3> QED BY <1>13, <2>1, <2>2, <3>1
  <2> QED BY <2>3, <2>4
<1>19. CASE viewed # "completed" /\ n = ReportNode
  <2>1. PICK x : x = Ensure("verifying")
    OBVIOUS
  <2>2. x \in Ops
    BY <2>1, OpsMade, StatesKnown
  <2>3. n # ApprovalNode /\ ~(n <= Safe)
    BY <1>19, NodesKnown DEF ReportNode
  <2>4. NodeWork(n, viewed) = StartNode(n, viewed) \o <<x, a>>
    BY <1>16, <1>19, <2>1, <2>3 DEF NodeWork, ReportWork
  <2>7. /\ y.state \in {"running", "waiting_for_approval"} /\ q[1][1] = "view" /\ q[1][2] = ReportNode
        /\ 2 \in DOMAIN q /\ Reaches(q[2], "completed")
    BY <1>4, <1>6, <1>9, <1>19
  <2>5. CASE todo'[c] = <<x, a>> \o Tail(q)
    <3>1. PICK p : p = <<x, a>> \o Tail(q)
      OBVIOUS
    <3>2. LedTwo(p, q, x, a)
      BY <1>4, <1>17, <2>2, <3>1, SwapTwo
    <3>3. /\ Shift(p, q, 2) /\ 2 \in Nat /\ p[1] = x /\ p[2] = a
          /\ \A i \in DOMAIN p : i <= 2 => i = 1 \/ i = 2
      BY <3>2 DEF LedTwo
    <3>4. \A j \in DOMAIN p : 1 < j /\ j <= 2 => Mild(p[j])
      <4>1. \A j \in DOMAIN p : 1 < j /\ j <= 2 => j = 2
        BY <3>3
      <4> QED BY <1>17, <3>3, <4>1
    <3>5. \A i \in DOMAIN p : i <= 2 =>
            Plain(p[i]) \/ (p[i] = Ensure("verifying") /\ \A j \in DOMAIN p : i < j /\ j <= 2 => Mild(p[j]))
      BY <1>17, <2>1, <3>3, <3>4
    <3>6. Quiet(p, q, 2, y, g)
      BY <2>7, <3>3, <3>5, QuietReport
    <3> QED BY <1>4, <1>5, <1>7, <1>11, <2>5, <3>1, <3>3, <3>6, QuietBooks
  <2>6. CASE todo'[c] = <<s, t, x, a>> \o Tail(q)
    <3>1. PICK p : p = <<s, t, x, a>> \o Tail(q)
      OBVIOUS
    <3>2. LedFour(p, q, s, t, x, a)
      BY <1>4, <1>17, <2>2, <3>1, SwapFour
    <3>3. /\ Shift(p, q, 4) /\ 4 \in Nat /\ p[1] = s /\ p[2] = t /\ p[3] = x /\ p[4] = a
          /\ \A i \in DOMAIN p : i <= 4 => i = 1 \/ i = 2 \/ i = 3 \/ i = 4
      BY <3>2 DEF LedFour
    <3>4. \A j \in DOMAIN p : 3 < j /\ j <= 4 => Mild(p[j])
      <4>1. \A j \in DOMAIN p : 3 < j /\ j <= 4 => j = 4
        BY <3>3
      <4> QED BY <1>17, <3>3, <4>1
    <3>5. \A i \in DOMAIN p : i <= 4 =>
            Plain(p[i]) \/ (p[i] = Ensure("verifying") /\ \A j \in DOMAIN p : i < j /\ j <= 4 => Mild(p[j]))
      BY <1>17, <2>1, <3>3, <3>4
    <3>6. Quiet(p, q, 4, y, g)
      BY <2>7, <3>3, <3>5, QuietReport
    <3>7. ~Writes(q[1]) /\ q[1][1] \notin {"move", "failIfRunning"}
      BY <1>7, <1>11
    <3>8. Books(p, y, g, events)
      BY <1>4, <3>3, <3>6, <3>7, QuietBooks
    <3> QED BY <1>5, <2>6, <3>1, <3>8
  <2> QED BY <1>18, <2>2, <2>4, <2>5, <2>6
<1>20. CASE viewed # "completed" /\ n # ApprovalNode /\ n # ReportNode
  <2>1. PICK x : x = Tool(n, viewed)
    OBVIOUS
  <2>2. x \in Ops /\ x[1] = "tool" /\ x[3] = viewed
    BY <1>8, <2>1, OpsMade DEF Tool
  <2>3. n \in 1..Safe /\ n <= Safe
    BY <1>8, <1>20, ExecutionAssumption DEF Nodes, ApprovalNode, ReportNode
  <2>4. NodeWork(n, viewed) = StartNode(n, viewed) \o <<x, a>>
    BY <1>16, <1>20, <2>1, <2>3 DEF NodeWork, SafeWork
  <2>5. y.state = "running"
    BY <1>6, <1>9, <1>20, <2>3
  <2>6. Unbroken(x) /\ Ready(x, y.state) /\ \A k : ~Assumes(x, k)
    BY <1>10, <2>2, <2>5 DEF Unbroken, Ready, Assumes, Reaches
  <2>7. Completes(a, n)
    BY <1>16 DEF Completes, Complete
  <2>8. CASE todo'[c] = <<x, a>> \o Tail(q)
    <3>1. PICK p : p = <<x, a>> \o Tail(q)
      OBVIOUS
    <3>2. LedTwo(p, q, x, a)
      BY <1>4, <1>17, <2>2, <3>1, SwapTwo
    <3>3. /\ Shift(p, q, 2) /\ 2 \in Nat /\ p[1] = x /\ p[2] = a /\ 2 \in DOMAIN p
          /\ \A i \in DOMAIN p : i <= 2 => i = 1 \/ i = 2
          /\ \A i \in DOMAIN p : ~(i < 1)
      BY <3>2 DEF LedTwo, Shift
    <3>4. Acting(p, 1, y, g)
      BY <2>2, <2>6, <3>3 DEF Acting
    <3>5. \A i \in DOMAIN p : i <= 2 => Plain(p[i]) \/ Acting(p, i, y, g)
      BY <1>17, <3>3, <3>4
    <3>6. \A k \in 1..Safe : Completes(q[1], k) => \E j \in DOMAIN p : j <= 2 /\ Completes(p[j], k)
      <4>1. 2 <= 2
        OBVIOUS
      <4> QED BY <1>7, <2>7, <3>3, <4>1
    <3>7. Quiet(p, q, 2, y, g)
      BY <1>4, <1>11, <3>3, <3>5, <3>6, QuietWork
    <3> QED BY <1>4, <1>5, <1>7, <1>11, <2>8, <3>1, <3>3, <3>7, QuietBooks
  <2>9. CASE todo'[c] = <<s, t, x, a>> \o Tail(q)
    <3>1. PICK p : p = <<s, t, x, a>> \o Tail(q)
      OBVIOUS
    <3>2. LedFour(p, q, s, t, x, a)
      BY <1>4, <1>17, <2>2, <3>1, SwapFour
    <3>3. /\ Shift(p, q, 4) /\ 4 \in Nat /\ p[1] = s /\ p[2] = t /\ p[3] = x /\ p[4] = a /\ 4 \in DOMAIN p
          /\ \A i \in DOMAIN p : i <= 4 => i = 1 \/ i = 2 \/ i = 3 \/ i = 4
          /\ \A i \in DOMAIN p : i < 3 => i = 1 \/ i = 2
      BY <3>2 DEF LedFour, Shift
    <3>4. Acting(p, 3, y, g)
      BY <1>17, <2>2, <2>6, <3>3 DEF Acting
    <3>5. \A i \in DOMAIN p : i <= 4 => Plain(p[i]) \/ Acting(p, i, y, g)
      BY <1>17, <3>3, <3>4
    <3>6. \A k \in 1..Safe : Completes(q[1], k) => \E j \in DOMAIN p : j <= 4 /\ Completes(p[j], k)
      <4>1. 4 <= 4
        OBVIOUS
      <4> QED BY <1>7, <2>7, <3>3, <4>1
    <3>7. Quiet(p, q, 4, y, g)
      BY <1>4, <1>11, <3>3, <3>5, <3>6, QuietWork
    <3>8. ~Writes(q[1]) /\ q[1][1] \notin {"move", "failIfRunning"}
      BY <1>7, <1>11
    <3>9. Books(p, y, g, events)
      BY <1>4, <3>3, <3>7, <3>8, QuietBooks
    <3> QED BY <1>5, <2>9, <3>1, <3>9
  <2> QED BY <1>18, <2>2, <2>4, <2>8, <2>9
<1> QED BY <1>14, <1>15, <1>19, <1>20
-----------------------------------------------------------------------------
(* p is Body after m moves that take the mission to running.               *)
IsRun(p, m) ==
  /\ m \in Nat /\ DOMAIN p = 1..(m + ReportNode + 2)
  /\ \A i \in 1..m : p[i][1] = "move" /\ p[i][2] \in {"planning", "running"}
  /\ m > 0 => p[m][2] = "running"
  /\ \A n \in Nodes : p[m + n] = View(n)
  /\ p[m + ReportNode + 1] = Ensure("completed") /\ p[m + ReportNode + 2] = Report

(* A run may be set out on from a mission in order.                        *)
LEMMA RunOpens ==
  ASSUME NEW p, NEW m, IsRun(p, m), NEW y, NEW g, y.state # "failed",
         m > 0 \/ y.state \in {"running", "waiting_for_approval"}
  PROVE  Opens(p, y, g)
<1>1. /\ m \in Nat /\ DOMAIN p = 1..(m + ReportNode + 2) /\ ReportNode \in Nat
      /\ \A i \in 1..m : p[i][1] = "move" /\ p[i][2] \in {"planning", "running"}
      /\ \A n \in Nodes : p[m + n][1] = "view" /\ p[m + n][2] = n
      /\ p[m + ReportNode + 1] = Ensure("completed") /\ p[m + ReportNode + 2][1] = "report"
  BY NodesKnown DEF IsRun, View, Report
<1>2. ASSUME NEW i \in DOMAIN p
      PROVE  \/ i \in 1..m
             \/ \E n \in Nodes : i = m + n
             \/ i = m + ReportNode + 1
             \/ i = m + ReportNode + 2
  <2>1. CASE i > m /\ i <= m + ReportNode
    <3>1. i - m \in Nodes /\ i = m + (i - m)
      BY <1>1, <2>1 DEF Nodes
    <3> QED BY <3>1
  <2> QED BY <1>1, <2>1
<1>3. 1 \in DOMAIN p
  BY <1>1
<1>4. ASSUME NEW i \in DOMAIN p
      PROVE  /\ p[i][1] \in {"move", "view", "ensure", "report"}
             /\ p[i][1] = "move" => i \in 1..m /\ p[i][2] \in {"planning", "running"}
             /\ p[i][1] = "view" => i = m + p[i][2] /\ p[i][2] \in Nodes
             /\ p[i][1] = "ensure" => i = m + ReportNode + 1 /\ p[i][2] = "completed"
  <2>1. CASE i \in 1..m
    BY <1>1, <2>1
  <2>2. CASE \E n \in Nodes : i = m + n
    BY <1>1, <2>2
  <2>3. CASE i = m + ReportNode + 1
    BY <1>1, <2>3 DEF Ensure
  <2>4. CASE i = m + ReportNode + 2
    BY <1>1, <2>4
  <2> QED BY <1>2, <2>1, <2>2, <2>3, <2>4
<1>5. ASSUME NEW i \in DOMAIN p
      PROVE  /\ p[i][1] \notin {"putGraph", "putYaml", "status"}
             /\ ~Guarded(p[i]) /\ ~Breaks(p[i]) /\ Unbroken(p[i])
             /\ ~Reaches(p[i], "recovering") /\ ~Reaches(p[i], "verifying")
  BY <1>4 DEF Guarded, Fatal, Breaks, Unbroken, Reaches
<1>6. ASSUME NEW i \in DOMAIN p, NEW k \in 1..Safe, Assumes(p[i], k)
      PROVE  \E j \in DOMAIN p : j < i /\ Completes(p[j], k)
  <2>1. p[i][1] = "view" /\ k < p[i][2]
    BY <1>4, <1>6 DEF Assumes, Reaches
  <2>2. i = m + p[i][2] /\ p[i][2] \in Nodes /\ k \in Nodes
    BY <1>4, <2>1, NodesKnown
  <2>3. p[m + k][1] = "view" /\ p[m + k][2] = k
    BY <1>1, <2>2
  <2>4. m + k < i /\ m + k \in DOMAIN p
    <3>1. p[i][2] \in Nat /\ k \in Nat /\ k > 0 /\ m \in Nat
      <4>1. Safe \in Nat /\ Nodes \subseteq Nat
        BY NodesKnown
      <4>2. k \in Nat /\ k > 0
        BY <4>1
      <4> QED BY <1>1, <2>2, <4>1, <4>2
    <3>2. PICK n : n = p[i][2]
      OBVIOUS
    <3>3. m + k < i /\ m + k >= 1
      BY <2>1, <2>2, <3>1, <3>2
    <3>4. i <= m + ReportNode + 2 /\ i \in Nat
      BY <1>1
    <3> QED BY <1>1, <3>1, <3>3, <3>4
  <2> QED BY <2>3, <2>4 DEF Completes
<1>7. ViewBooks(p, y.state)
  <2> SUFFICES ASSUME NEW i \in DOMAIN p, p[i][1] = "view"
      PROVE  /\ \/ y.state \in {"running", "waiting_for_approval"}
                \/ \E j \in DOMAIN p : j < i /\ p[j][1] = "move" /\ p[j][2] = "running"
             /\ \A j \in DOMAIN p : j < i /\ p[j][1] \in {"move", "ensure"} => p[j][2] \in {"planning", "running"}
             /\ p[i][2] = ReportNode => i + 1 \in DOMAIN p /\ Reaches(p[i + 1], "completed")
    BY DEF ViewBooks
  <2>1. i = m + p[i][2] /\ p[i][2] \in 1..ReportNode
    BY <1>4 DEF Nodes
  <2>2. m > 0 => m \in DOMAIN p /\ m < i /\ m \in 1..m
    BY <1>1, <2>1
  <2>3. m > 0 => p[m][1] = "move" /\ p[m][2] = "running"
    BY <1>1, <2>2 DEF IsRun
  <2>4. ASSUME NEW j \in DOMAIN p, j < i, p[j][1] \in {"move", "ensure"}
        PROVE  p[j][2] \in {"planning", "running"}
    <3>1. j # m + ReportNode + 1
      BY <1>1, <2>1, <2>4
    <3> QED BY <1>4, <2>4, <3>1
  <2>5. ASSUME p[i][2] = ReportNode PROVE i + 1 \in DOMAIN p /\ Reaches(p[i + 1], "completed")
    <3>1. i + 1 = m + ReportNode + 1 /\ i + 1 \in DOMAIN p
      BY <1>1, <2>1, <2>5
    <3> QED BY <1>1, <3>1 DEF Reaches, Ensure
  <2> QED BY <2>2, <2>3, <2>4, <2>5
<1> QED BY <1>3, <1>5, <1>6, <1>7 DEF Opens

(* Body after other operations.                                            *)
LEMMA BodyIs ==
  ASSUME NEW w \in Seq(Ops),
         \A i \in DOMAIN w : w[i][1] = "move" /\ w[i][2] \in {"planning", "running"},
         Len(w) > 0 => w[Len(w)][2] = "running"
  PROVE  IsRun(w \o Body, Len(w)) /\ Body \in Seq(Ops)
<1>1. PICK views : views = [n \in Nodes |-> View(n)]
  OBVIOUS
<1>2. ReportNode \in Nat /\ Nodes = 1..ReportNode
  BY NodesKnown DEF Nodes
<1>3. views \in Seq(Ops) /\ Len(views) = ReportNode
  BY <1>1, <1>2, OpsMade
<1>4. PICK e : e = <<Ensure("completed"), Report>>
  OBVIOUS
<1>5. e \in Seq(Ops) /\ Len(e) = 2 /\ e[1] = Ensure("completed") /\ e[2] = Report
  <2>1. Ensure("completed") \in Ops /\ Report \in Ops
    BY OpsMade, StatesKnown
  <2> QED BY <1>4, <2>1
<1>6. PICK b : b = Body
  OBVIOUS
<1>7. b = views \o e
  BY <1>1, <1>4, <1>6 DEF Body
<1>8. /\ b \in Seq(Ops) /\ Len(b) = ReportNode + 2
      /\ \A i \in 1..(ReportNode + 2) : b[i] = IF i <= ReportNode THEN views[i] ELSE e[i - ReportNode]
  <2>1. /\ views \o e \in Seq(Ops) /\ Len(views \o e) = Len(views) + Len(e)
        /\ \A i \in 1..(Len(views) + Len(e)) :
             (views \o e)[i] = IF i <= Len(views) THEN views[i] ELSE e[i - Len(views)]
    BY <1>3, <1>5, ConcatProperties
  <2> QED BY <1>3, <1>5, <1>7, <2>1
<1>9. /\ \A n \in Nodes : b[n] = View(n)
      /\ b[ReportNode + 1] = Ensure("completed") /\ b[ReportNode + 2] = Report
  <2>1. ASSUME NEW n \in Nodes PROVE b[n] = View(n)
    <3>1. n <= ReportNode /\ n \in 1..(ReportNode + 2)
      BY <1>2
    <3> QED BY <1>1, <1>8, <3>1
  <2>2. /\ ReportNode + 1 \in 1..(ReportNode + 2) /\ ~(ReportNode + 1 <= ReportNode)
        /\ ReportNode + 2 \in 1..(ReportNode + 2) /\ ~(ReportNode + 2 <= ReportNode)
        /\ (ReportNode + 1) - ReportNode = 1 /\ (ReportNode + 2) - ReportNode = 2
    BY <1>2
  <2>3. b[ReportNode + 1] = e[1] /\ b[ReportNode + 2] = e[2]
    BY <1>8, <2>2
  <2> QED BY <1>5, <2>1, <2>3
<1>10. PICK m, p : m = Len(w) /\ p = w \o b
  OBVIOUS
<1>11. /\ m \in Nat /\ DOMAIN w = 1..m /\ p \in Seq(Ops) /\ Len(p) = m + ReportNode + 2
       /\ \A i \in 1..(m + (ReportNode + 2)) : p[i] = IF i <= m THEN w[i] ELSE b[i - m]
  <2>1. /\ w \o b \in Seq(Ops) /\ Len(w \o b) = Len(w) + Len(b)
        /\ \A i \in 1..(Len(w) + Len(b)) : (w \o b)[i] = IF i <= Len(w) THEN w[i] ELSE b[i - Len(w)]
    BY <1>8, ConcatProperties
  <2>2. m \in Nat /\ DOMAIN w = 1..m /\ p \in Seq(Ops)
    BY <1>10, <2>1
  <2>3. Len(p) = m + (ReportNode + 2)
    BY <1>8, <1>10, <2>1
  <2>4. Len(p) = m + ReportNode + 2
    BY <1>2, <2>2, <2>3
  <2>5. \A i \in 1..(m + (ReportNode + 2)) : p[i] = IF i <= m THEN w[i] ELSE b[i - m]
    BY <1>8, <1>10, <2>1
  <2> QED BY <2>2, <2>4, <2>5
<1>12. DOMAIN p = 1..(m + ReportNode + 2)
  BY <1>11
<1>13. \A i \in 1..m : p[i] = w[i]
  BY <1>2, <1>11
<1>14. ASSUME NEW i \in 1..(ReportNode + 2) PROVE p[m + i] = b[i]
  <2>1. m + i \in 1..(m + (ReportNode + 2)) /\ ~(m + i <= m) /\ (m + i) - m = i
    BY <1>2, <1>11
  <2> QED BY <1>11, <2>1
<1>15. \A n \in Nodes : p[m + n] = View(n)
  <2>1. \A n \in Nodes : n \in 1..(ReportNode + 2)
    BY <1>2
  <2> QED BY <1>9, <1>14, <2>1
<1>16. p[m + ReportNode + 1] = Ensure("completed") /\ p[m + ReportNode + 2] = Report
  <2>1. ReportNode + 1 \in 1..(ReportNode + 2) /\ ReportNode + 2 \in 1..(ReportNode + 2)
    BY <1>2
  <2>2. p[m + (ReportNode + 1)] = b[ReportNode + 1] /\ p[m + (ReportNode + 2)] = b[ReportNode + 2]
    BY <1>14, <2>1
  <2>3. m + (ReportNode + 1) = m + ReportNode + 1 /\ m + (ReportNode + 2) = m + ReportNode + 2
    BY <1>2, <1>11
  <2> QED BY <1>9, <2>2, <2>3
<1>17. m > 0 => p[m][2] = "running"
  <2>1. m > 0 => m \in 1..m
    BY <1>11
  <2> QED BY <1>10, <1>13, <2>1
<1>18. IsRun(p, m)
  BY <1>10, <1>11, <1>12, <1>13, <1>15, <1>16, <1>17 DEF IsRun
<1> QED BY <1>6, <1>8, <1>10, <1>18

(* What the commands set out to do.                                        *)
LEMMA PreparedBooks ==
  ASSUME NEW y \in Yaml, NEW g, NEW events, Books(<<>>, y, g, events), NEW fromResume
  PROVE  Books(Prepare(y.state, fromResume), y, g, events)
<1>1. PICK a, b : a = Move("planning") /\ b = Move("running")
  OBVIOUS
<1>2. /\ a \in Ops /\ b \in Ops /\ a[1] = "move" /\ b[1] = "move"
      /\ a[2] = "planning" /\ b[2] = "running"
  BY <1>1, OpsMade, StatesKnown DEF Move
<1>3. y.state \notin {"recovering", "verifying"} /\ y.state \in States
  <2>1. y.state \notin {"recovering", "verifying"}
    BY RestBooks
  <2> QED BY <2>1 DEF Yaml
<1>4. ASSUME NEW w \in Seq(Ops), NEW p, p = w \o Body, y.state # "failed",
             \A i \in DOMAIN w : w[i][1] = "move" /\ w[i][2] \in {"planning", "running"},
             Len(w) > 0 => w[Len(w)][2] = "running",
             Len(w) > 0 \/ y.state \in {"running", "waiting_for_approval"}
      PROVE  Books(p, y, g, events)
  <2>1. IsRun(p, Len(w))
    BY <1>4, BodyIs
  <2>2. Opens(p, y, g)
    BY <1>4, <2>1, RunOpens
  <2> QED BY <2>2, OpenedBooks
<1>5. CASE y.state = "created"
  <2>1. PICK w : w = <<a, b>>
    OBVIOUS
  <2>2. /\ w \in Seq(Ops) /\ Len(w) = 2 /\ DOMAIN w = {1, 2} /\ w[1] = a /\ w[2] = b /\ 2 > 0
    BY <1>2, <2>1
  <2>3. Prepare(y.state, fromResume) = w \o Body
    BY <1>1, <1>5, <2>1 DEF Prepare
  <2>4. Books(w \o Body, y, g, events)
    BY <1>2, <1>4, <1>5, <2>2
  <2> QED BY <2>3, <2>4
<1>6. CASE y.state = "planning" \/ (y.state = "paused" /\ fromResume)
  <2>1. PICK w : w = <<b>>
    OBVIOUS
  <2>2. /\ w \in Seq(Ops) /\ Len(w) = 1 /\ DOMAIN w = {1} /\ w[1] = b /\ 1 > 0
    BY <1>2, <2>1
  <2>3. Prepare(y.state, fromResume) = w \o Body
    BY <1>1, <1>6, <2>1 DEF Prepare
  <2>4. y.state # "failed"
    BY <1>6
  <2>5. Books(w \o Body, y, g, events)
    BY <1>2, <1>4, <2>2, <2>4
  <2> QED BY <2>3, <2>5
<1>7. CASE y.state \in {"running", "waiting_for_approval"}
  <2>1. PICK w : w = <<>>
    OBVIOUS
  <2>2. w \in Seq(Ops) /\ Len(w) = 0 /\ DOMAIN w = {} /\ ~(0 > 0)
    BY <2>1
  <2>3. w \o Body = Body
    <3>1. Body \in Seq(Ops)
      BY <2>2, BodyIs
    <3> QED BY <2>1, <3>1, ConcatEmptySeq
  <2>4. Prepare(y.state, fromResume) = w \o Body
    BY <1>7, <2>3 DEF Prepare
  <2>5. Books(w \o Body, y, g, events)
    BY <1>4, <1>7, <2>2
  <2> QED BY <2>4, <2>5
<1>8. CASE y.state \in {"completed", "failed", "cancelled"} \/ (y.state = "paused" /\ ~fromResume)
  <2>1. Prepare(y.state, fromResume) = <<>>
    BY <1>8 DEF Prepare
  <2> QED BY <2>1
<1> QED BY <1>3, <1>5, <1>6, <1>7, <1>8, StatesKnown

(* Operations that neither look at the mission nor work on it.             *)
LEMMA SideBooks ==
  ASSUME NEW y, NEW g, NEW events, Books(<<>>, y, g, events), NEW p, p # <<>> => 1 \in DOMAIN p,
         \A i \in DOMAIN p :
           \/ p[i] = Mirror
           \/ p[i][1] = "consume"
           \/ p[i] = Move("paused") /\ y.state # "failed"
  PROVE  Books(p, y, g, events)
<1>1. ASSUME NEW i \in DOMAIN p
      PROVE  /\ p[i][1] \notin {"putGraph", "putYaml", "view", "status"}
             /\ ~Guarded(p[i]) /\ ~Breaks(p[i]) /\ Unbroken(p[i])
             /\ ~Reaches(p[i], "recovering") /\ ~Reaches(p[i], "verifying")
             /\ y.state = "failed" => Deciding(p[i])
             /\ \A k \in 1..Safe : ~Assumes(p[i], k)
  BY DEF Mirror, Move, Guarded, Fatal, Breaks, Unbroken, Reaches, Deciding, Assumes
<1>2. ViewBooks(p, y.state)
  BY <1>1 DEF ViewBooks
<1>3. Opens(p, y, g)
  BY <1>1, <1>2 DEF Opens
<1> QED BY <1>3, OpenedBooks

(* Every command starts from a mission at rest.                            *)
LEMMA StartBooks ==
  ASSUME ExecInv, NEW c \in Commands, Books(<<>>, yaml, graph, nodeEvents), Start(c), ~StartPlan(c)
  PROVE  /\ Books(todo'[c], yaml', graph', nodeEvents')
         /\ UNCHANGED <<yaml, graph, nodeEvents, world>>
<1>1. todo \in [Commands -> Seq(Ops)] /\ yaml \in Yaml
  BY DEF ExecInv, Typed
<1>2. UNCHANGED <<yaml, graph, nodeEvents, world>>
  BY DEF Start, StartRun, StartPause, StartBoot, StartDecide
<1>3. CASE StartRun(c)
  <2>1. todo'[c] = Prepare(yaml.state, c \in Resumes \union Jobs)
    BY <1>1, <1>3 DEF StartRun, Plan
  <2>2. Books(todo'[c], yaml, graph, nodeEvents)
    BY <1>1, <2>1, PreparedBooks
  <2> QED BY <1>2, <2>2
<1>4. CASE StartPause(c) \/ StartBoot(c)
  <2>1. todo'[c] = <<Move("paused")>> /\ yaml.state # "failed"
    BY <1>1, <1>4 DEF StartPause, StartBoot, Plan
  <2>2. PICK p : p = todo'[c]
    OBVIOUS
  <2>3. DOMAIN p = {1} /\ p[1] = Move("paused")
    BY <2>1, <2>2
  <2>4. Books(p, yaml, graph, nodeEvents)
    BY <2>1, <2>3, SideBooks
  <2> QED BY <1>2, <2>2, <2>4
<1>5. CASE StartDecide(c)
  <2>1. PICK k \in DOMAIN approvals : Plan(c, <<Mirror, Consume(k)>>) \/ Plan(c, <<Mirror>>)
    BY <1>5 DEF StartDecide
  <2>2. PICK p, a : p = todo'[c] /\ a = Consume(k)
    OBVIOUS
  <2>3. p = <<Mirror, a>> \/ p = <<Mirror>>
    BY <1>1, <2>1, <2>2 DEF Plan
  <2>4. 1 \in DOMAIN p /\ \A i \in DOMAIN p : p[i] = Mirror \/ p[i] = a
    BY <2>3
  <2>5. a[1] = "consume"
    BY <2>2 DEF Consume
  <2>6. Books(p, yaml, graph, nodeEvents)
    BY <2>4, <2>5, SideBooks
  <2> QED BY <1>2, <2>2, <2>6
<1> QED BY <1>3, <1>4, <1>5 DEF Start
-----------------------------------------------------------------------------
(* Every step of the command that works.                                   *)
LEMMA StepBooks ==
  ASSUME NEW c \in Commands, AtWork(c), Step(c)
  PROVE  Books(todo'[c], yaml', graph', nodeEvents')
  BY MoveBooks, EnsureBooks, LookBooks, CompleteBooks, StatusBooks, WriteBooks, MirrorBooks, ToolBooks,
     FailureBooks, GateBooks, RequestBooks, ConsumeBooks, MarkBooks DEF Step

(* A command that takes a step is the one that works, if any does.         *)
LEMMA OneAtATime ==
  ASSUME ExecInv, serial, NEW c \in Commands, Start(c) \/ Step(c)
  PROVE  /\ \A d \in Commands : todo'[d] # <<>> => d = c
         /\ Start(c) => InFlight = {}
         /\ Step(c) => todo[c] # <<>>
<1>1. /\ todo \in [Commands -> Seq(Ops)] /\ \A d, e \in InFlight : d = e
  BY DEF ExecInv, Typed, Flights
<1>2. \E p : Plan(c, p)
  BY DEF Start, StartRun, StartPause, StartBoot, StartDecide, StartPlan, Step, DoMove, DoEnsure, DoView,
     DoComplete, DoStatus, DoPutGraph, DoPutYaml, DoNote, DoMirror, DoReport, DoTool, DoFailIfRunning,
     DoGate, DoRequest, ConsumeRuns, ConsumeFails, DoMark, Throw
<1>3. Start(c) => InFlight = {}
  BY DEF Start, StartRun, StartPause, StartBoot, StartDecide, StartPlan, MayStart
<1>4. Step(c) => todo[c] # <<>>
  BY DEF Step, DoMove, DoEnsure, DoView, DoComplete, DoStatus, DoPutGraph, DoPutYaml, DoNote, DoMirror,
     DoReport, DoTool, DoFailIfRunning, DoGate, DoRequest, ConsumeRuns, ConsumeFails, DoMark, Does
<1>5. ASSUME NEW d \in Commands, todo'[d] # <<>>, d # c PROVE FALSE
  <2>1. todo'[d] = todo[d]
    BY <1>1, <1>2, <1>5 DEF Plan
  <2>2. d \in InFlight
    BY <1>5, <2>1 DEF InFlight
  <2>3. c \in InFlight
    BY <1>3, <1>4, <2>2 DEF InFlight
  <2> QED BY <1>1, <1>5, <2>2, <2>3
<1> QED BY <1>2, <1>3, <1>4, <1>5

(* The books are in order at first, and every step keeps them so.          *)
LEMMA BooksInit ==
  ASSUME Init
  PROVE  BooksInv
<1>1. /\ yaml.graph = graph /\ yaml.state = "created" /\ \A n \in Nodes : graph[n] = "pending"
      /\ InFlight = {}
  BY DEF Init, FreshPlan, InFlight
<1>2. ~Broken(graph)
  BY <1>1 DEF Broken
<1>3. Books(<<>>, yaml, graph, nodeEvents)
  BY <1>1, <1>2, RestBooks
<1> QED BY <1>1, <1>3 DEF BooksInv

LEMMA BooksNext ==
  ASSUME ExecInv, BooksInv, [Next]_vars
  PROVE  BooksInv'
<1> SUFFICES ASSUME serial', deaths' = 0, plans' = 0
    PROVE  /\ InFlight' = {} => Books(<<>>, yaml', graph', nodeEvents')
           /\ \A d \in InFlight' : Books(todo'[d], yaml', graph', nodeEvents')
  BY DEF BooksInv
<1>1. InFlight' = {d \in Commands : todo'[d] # <<>>}
  BY DEF InFlight
<1>2. CASE UNCHANGED vars
  <2>1. /\ yaml' = yaml /\ graph' = graph /\ nodeEvents' = nodeEvents /\ todo' = todo
        /\ deaths' = deaths /\ plans' = plans /\ together' = together
    BY <1>2 DEF vars, world
  <2>2. InFlight' = InFlight /\ serial
    BY <2>1 DEF InFlight, serial
  <2> QED BY <2>1, <2>2 DEF BooksInv
<1>0. ASSUME NEW c \in Commands PROVE ~StartPlan(c)
  <2>1. plans \in Nat
    BY ExecutionAssumption DEF ExecInv, Typed
  <2>2. StartPlan(c) => plans' = plans + 1
    BY DEF StartPlan
  <2> QED BY <2>1, <2>2
<1>3. ASSUME NEW c \in Commands, Start(c) \/ Step(c)
      PROVE  /\ InFlight' = {} => Books(<<>>, yaml', graph', nodeEvents')
             /\ \A d \in InFlight' : Books(todo'[d], yaml', graph', nodeEvents')
  <2>1. UNCHANGED world
    BY <1>0, <1>3 DEF Start, StartRun, StartPause, StartBoot, StartDecide, Step, DoMove, DoEnsure, DoView, DoComplete,
       DoStatus, DoPutGraph, DoPutYaml, DoNote, DoMirror, DoReport, DoTool, DoFailIfRunning, DoGate,
       DoRequest, ConsumeRuns, ConsumeFails, DoMark
  <2>2. serial /\ deaths = 0 /\ plans = 0
    BY <2>1 DEF serial, world
  <2>3. /\ \A d \in Commands : todo'[d] # <<>> => d = c
        /\ Start(c) => InFlight = {}
        /\ Step(c) => todo[c] # <<>>
    BY <1>3, <2>2, OneAtATime
  <2>4. Books(todo'[c], yaml', graph', nodeEvents')
    <3>1. CASE Start(c)
      <4>1. Books(<<>>, yaml, graph, nodeEvents)
        BY <2>2, <2>3, <3>1 DEF BooksInv
      <4> QED BY <1>0, <3>1, <4>1, StartBooks
    <3>2. CASE Step(c)
      <4>1. todo[c] # <<>> /\ c \in InFlight
        BY <2>3, <3>2 DEF InFlight
      <4>2. AtWork(c)
        BY <2>2, <4>1 DEF BooksInv, AtWork
      <4> QED BY <3>2, <4>2, StepBooks
    <3> QED BY <1>3, <3>1, <3>2
  <2>5. ASSUME InFlight' = {} PROVE Books(<<>>, yaml', graph', nodeEvents')
    <3>1. todo'[c] = <<>>
      BY <1>1, <2>5
    <3> QED BY <2>4, <3>1
  <2>6. \A d \in InFlight' : d = c
    BY <1>1, <2>3
  <2> QED BY <2>4, <2>5, <2>6
<1>4. ASSUME NEW c \in Commands, Die(c) PROVE FALSE
  <2>1. deaths \in Nat /\ deaths' = deaths + 1
    BY <1>4, ExecutionAssumption DEF Die, ExecInv, Typed
  <2>2. deaths' # 0
    BY <2>1
  <2> QED BY <2>2
<1> QED BY <1>2, <1>3, <1>4 DEF Next

(* One command at a time, a mission no command is working on has books     *)
(* that agree, unless a command died or the plan was regenerated:          *)
(* mission.yaml shows the graph, a failed mission has the node that        *)
(* failed, a completed one its report, and the ledger every node that was  *)
(* completed.                                                              *)
THEOREM RecordsAlwaysAgree == Spec => []RecordsAgree
<1>1. Init => BooksInv
  BY BooksInit
<1>2. ExecInv /\ BooksInv /\ [Next]_vars => BooksInv'
  BY BooksNext
<1>3. BooksInv => RecordsAgree
  <2> SUFFICES ASSUME BooksInv, Settled
      PROVE  /\ yaml.graph = graph
             /\ yaml.state = "failed" => \E n \in Nodes : graph[n] = "failed"
             /\ yaml.state = "completed" => yaml.report
             /\ \A n \in Nodes : graph[n] = "completed" => <<"completed", n>> \in nodeEvents
    BY DEF RecordsAgree
  <2>1. Books(<<>>, yaml, graph, nodeEvents)
    BY DEF BooksInv, Settled, AtRest
  <2> QED BY <2>1, RestBooks DEF Broken
<1> QED BY <1>1, <1>2, <1>3, ExecInvariant, PTL DEF Spec
-----------------------------------------------------------------------------
(* What an item of a packet may be made of: what is read off a candidate.  *)
IsCandidate(c) ==
  /\ c.label \in Nat /\ c.hits \in Nat /\ c.weight \in Nat
  /\ c.text # "" /\ PackBytes(c.text) \in Nat
  /\ c.sens = "sensitive" => LooksSensitive(c.kind, c.label, c.text) \/ c.kind = "memory"

Candidates(X) == \A c \in X : IsCandidate(c)

(* Some candidate comes before all others.                                 *)
LEMMA SomeForemost ==
  ASSUME NEW T, IsFiniteSet(T), Candidates(T), NEW S \in SUBSET T, S # {}
  PROVE  Foremost(S) \in S
<1> DEFINE P == {s \in SUBSET T : s # {} => \E c \in s : \A d \in s : ~Before(d, c)}
<1>1. ASSUME NEW s \in SUBSET T, \A r \in SUBSET s : r # s => r \in P
      PROVE  s \in P
  <2> SUFFICES ASSUME s # {} PROVE \E c \in s : \A d \in s : ~Before(d, c)
    OBVIOUS
  <2>1. PICK x \in s : TRUE
    OBVIOUS
  <2>2. \A a \in s : a.label \in Nat /\ a.hits \in Nat /\ a.weight \in Nat
    BY DEF Candidates, IsCandidate
  <2>3. \A a \in s : ~Before(a, a)
    BY <2>2 DEF Before
  <2>4. CASE s \ {x} = {}
    BY <2>1, <2>3, <2>4
  <2>5. CASE s \ {x} # {}
    <3>1. s \ {x} \in P
      BY <1>1, <2>1
    <3>2. PICK c \in s \ {x} : \A d \in s \ {x} : ~Before(d, c)
      BY <2>5, <3>1
    <3>3. ASSUME Before(x, c), NEW d \in s PROVE ~Before(d, x)
      <4>1. Before(d, x) => Before(d, c)
        BY <2>1, <2>2, <3>2, <3>3 DEF Before
      <4>2. d # x => ~Before(d, c)
        BY <3>2
      <4>3. ~Before(x, x)
        BY <2>1, <2>3
      <4> QED BY <4>1, <4>2, <4>3
    <3>4. CASE Before(x, c)
      BY <2>1, <3>3, <3>4
    <3>5. CASE ~Before(x, c)
      BY <3>2, <3>5
    <3> QED BY <3>4, <3>5
  <2> QED BY <2>4, <2>5
<1>2. S \in P
  <2> HIDE DEF P
  <2>1. \A s \in SUBSET T : s \in P
    BY <1>1, SubsetInduction
  <2> QED BY <2>1
<1> QED BY <1>2 DEF Foremost

LEMMA AppendRange ==
  ASSUME NEW X, NEW s \in Seq(X), NEW e
  PROVE  Range(Append(s, e)) = Range(s) \union {e}
<1> DEFINE t == Append(s, e)
<1>1. DOMAIN s = 1..Len(s) /\ DOMAIN t = 1..(Len(s) + 1) /\ Len(s) \in Nat
  OBVIOUS
<1>2. t[Len(s) + 1] = e /\ \A i \in 1..Len(s) : t[i] = s[i]
  OBVIOUS
<1> HIDE DEF t
<1>3. ASSUME NEW x \in Range(t) PROVE x \in Range(s) \union {e}
  <2>1. PICK i \in DOMAIN t : x = t[i]
    BY <1>3 DEF Range
  <2>2. i = Len(s) + 1 \/ i \in 1..Len(s)
    BY <1>1, <2>1
  <2> QED BY <1>1, <1>2, <2>1, <2>2 DEF Range
<1>4. ASSUME NEW x \in Range(s) \union {e} PROVE x \in Range(t)
  <2>1. CASE x = e
    <3>1. Len(s) + 1 \in DOMAIN t
      BY <1>1
    <3> QED BY <1>2, <2>1, <3>1 DEF Range
  <2>2. CASE x \in Range(s)
    <3>1. PICK i \in DOMAIN s : x = s[i]
      BY <2>2 DEF Range
    <3>2. i \in DOMAIN t /\ t[i] = x
      BY <1>1, <1>2, <3>1
    <3> QED BY <3>2 DEF Range
  <2> QED BY <2>1, <2>2
<1>5. Range(t) = Range(s) \union {e}
  BY <1>3, <1>4
<1> QED BY <1>5 DEF t

LEMMA PrependRange ==
  ASSUME NEW X, NEW s \in Seq(X), NEW e
  PROVE  Range(<<e>> \o s) = {e} \union Range(s)
<1> DEFINE t == <<e>> \o s
<1>1. DOMAIN s = 1..Len(s) /\ DOMAIN t = 1..(Len(s) + 1) /\ Len(s) \in Nat
  OBVIOUS
<1>2. t[1] = e /\ \A i \in 1..Len(s) : t[i + 1] = s[i]
  OBVIOUS
<1> HIDE DEF t
<1>3. ASSUME NEW x \in Range(t) PROVE x \in {e} \union Range(s)
  <2>1. PICK i \in DOMAIN t : x = t[i]
    BY <1>3 DEF Range
  <2>2. CASE i = 1
    BY <1>2, <2>1, <2>2
  <2>3. CASE i # 1
    <3>1. i - 1 \in 1..Len(s) /\ (i - 1) + 1 = i
      BY <1>1, <2>1, <2>3
    <3>2. t[(i - 1) + 1] = s[i - 1]
      BY <1>2, <3>1
    <3> QED BY <1>1, <2>1, <3>1, <3>2 DEF Range
  <2> QED BY <2>2, <2>3
<1>4. ASSUME NEW x \in {e} \union Range(s) PROVE x \in Range(t)
  <2>1. CASE x = e
    <3>1. 1 \in DOMAIN t
      BY <1>1
    <3> QED BY <1>2, <2>1, <3>1 DEF Range
  <2>2. CASE x \in Range(s)
    <3>1. PICK i \in DOMAIN s : x = s[i]
      BY <2>2 DEF Range
    <3>2. i + 1 \in DOMAIN t /\ t[i + 1] = x
      BY <1>1, <1>2, <3>1
    <3> QED BY <3>2 DEF Range
  <2> QED BY <2>1, <2>2
<1>5. Range(t) = {e} \union Range(s)
  BY <1>3, <1>4
<1> QED BY <1>5 DEF t

(* The sorted candidates are the candidates.                               *)
LEMMA InOrderTypes ==
  ASSUME NEW T, IsFiniteSet(T), Candidates(T)
  PROVE  InOrder(T) \in Seq(T) /\ Range(InOrder(T)) = T
<1> DEFINE V == Seq(T)
           pick == [S \in SUBSET T |-> Foremost(S)]
           op == [p \in T \X V |-> <<p[1]>> \o p[2]]
           iter(S, f) == IF S = {} THEN <<>> ELSE <<Foremost(S)>> \o f[S \ {Foremost(S)}]
           Is(f) == f = [S \in SUBSET T |-> iter(S, f)]
           h == CHOOSE f : Is(f)
           P == {S \in SUBSET T : h[S] \in V /\ Range(h[S]) = S}
<1>1. InOrder(T) = h[T]
  BY DEF InOrder, MapThenFoldSet
<1>2. \A S \in SUBSET T : S # {} => Foremost(S) \in S
  BY SomeForemost
<1>3. \E f : Is(f)
  <2>1. Picks(pick, T)
    BY <1>2 DEF Picks
  <2>2. op \in [T \X V -> V] /\ <<>> \in V
    OBVIOUS
  <2>3. PICK f \in [SUBSET T -> V] : Folded(f, T, <<>>, op, pick)
    <3> HIDE DEF V, op, pick
    <3> QED BY <2>1, <2>2, FoldExists
  <2>4. ASSUME NEW S \in SUBSET T, S # {} PROVE op[<<pick[S], f[S \ {pick[S]}]>>] = iter(S, f)
    <3>1. pick[S] = Foremost(S) /\ Foremost(S) \in T /\ f[S \ {Foremost(S)}] \in V
      BY <1>2, <2>4
    <3> HIDE DEF pick, V
    <3> QED BY <2>4, <3>1
  <2>5. Is(f)
    <3>1. \A S \in SUBSET T : (IF S = {} THEN <<>> ELSE op[<<pick[S], f[S \ {pick[S]}]>>]) = iter(S, f)
      BY <2>4
    <3> HIDE DEF op, pick, iter
    <3> QED BY <2>3, <3>1 DEF Folded
  <2> QED BY <2>5
<1>4. h = [S \in SUBSET T |-> iter(S, h)]
  <2> HIDE DEF iter
  <2> QED BY <1>3
<1> HIDE DEF h
<1>5. ASSUME NEW S \in SUBSET T, \A r \in SUBSET S : r # S => r \in P PROVE S \in P
  <2>1. h[S] = iter(S, h)
    <3> HIDE DEF iter
    <3> QED BY <1>4
  <2>2. S # {} => Foremost(S) \in S /\ h[S \ {Foremost(S)}] \in V
    BY <1>2, <1>5
  <2>3. ASSUME S # {}
        PROVE  LET q == <<Foremost(S)>> \o h[S \ {Foremost(S)}] IN q \in Seq(T) /\ Range(q) = S
    <3> DEFINE r == h[S \ {Foremost(S)}]
    <3>1. Foremost(S) \in T /\ r \in Seq(T) /\ Range(r) = S \ {Foremost(S)}
      BY <1>2, <1>5, <2>2, <2>3
    <3> HIDE DEF r
    <3>2. <<Foremost(S)>> \o r \in Seq(T)
      BY <3>1
    <3>3. Range(<<Foremost(S)>> \o r) = {Foremost(S)} \union Range(r)
      BY <3>1, PrependRange
    <3> QED BY <2>2, <2>3, <3>1, <3>2, <3>3 DEF r
  <2>4. <<>> \in Seq(T) /\ Range(<<>>) = {}
    BY DEF Range
  <2>5. h[S] \in Seq(T) /\ Range(h[S]) = S
    BY <2>1, <2>3, <2>4
  <2> QED BY <2>5
<1>6. T \in P
  <2> HIDE DEF P
  <2>1. \A S \in SUBSET T : S \in P
    BY <1>5, SubsetInduction
  <2> QED BY <2>1
<1> QED BY <1>1, <1>6
-----------------------------------------------------------------------------
Kept(kept, c) == IF \E k \in DOMAIN kept : kept[k].key = c.key THEN kept ELSE Append(kept, c)

(* Unique is a fold over the candidates.                                   *)
LEMMA UniqueFold ==
  ASSUME NEW X, NEW F, F = [s \in Seq(X) |-> Unique(s)],
         NEW op, op = [p \in Seq(X) \X X |-> Kept(p[1], p[2])], op \in [Seq(X) \X X -> Seq(X)],
         <<>> \in Seq(X)
  PROVE  LeftFold(F, X, Seq(X), <<>>, op)
<1>1. ASSUME NEW s \in Seq(X) PROVE \E h : LeftSteps(h, s, Seq(X), <<>>, op) /\ F[s] = h[DOMAIN s]
  <2> DEFINE iter(S, f) == IF S = {} THEN <<>> ELSE Kept(f[S \ {Max(S)}], s[Max(S)])
             Is(f) == f = [S \in SUBSET DOMAIN s |-> iter(S, f)]
             h == CHOOSE f : Is(f)
  <2>1. F[s] = h[DOMAIN s]
    BY DEF Unique, Kept, FoldLeft, MapThenFoldSet
  <2>2. PICK g : AllSteps(g, s, X, Seq(X), <<>>, op)
    BY LeftStepsExist
  <2>3. ASSUME NEW S \in SUBSET DOMAIN s PROVE g[S] = iter(S, g)
    <3>1. S # {} => /\ g[S \ {Max(S)}] \in Seq(X) /\ s[Max(S)] \in X
                    /\ g[S] = op[<<g[S \ {Max(S)}], s[Max(S)]>>]
      BY <2>2 DEF AllSteps
    <3>2. S = {} => g[S] = <<>>
      BY <2>2 DEF AllSteps
    <3> QED BY <3>1, <3>2
  <2>4. Is(g)
    <3> HIDE DEF iter
    <3> QED BY <2>2, <2>3 DEF AllSteps
  <2>5. h = [S \in SUBSET DOMAIN s |-> iter(S, h)]
    <3> HIDE DEF iter
    <3> QED BY <2>4
  <2> HIDE DEF h
  <2>6. ASSUME NEW S \in SUBSET DOMAIN s, S # {}, h[S \ {Max(S)}] \in Seq(X)
        PROVE  h[S] = op[<<h[S \ {Max(S)}], s[Max(S)]>>]
    <3>1. h[S] = iter(S, h)
      <4> HIDE DEF iter
      <4> QED BY <2>5
    <3>2. s[Max(S)] \in X
      BY <2>2, <2>6 DEF AllSteps
    <3> QED BY <2>6, <3>1, <3>2
  <2>7. h[{}] = <<>>
    BY <2>5
  <2> QED BY <2>1, <2>6, <2>7 DEF LeftSteps
<1> QED BY <1>1 DEF LeftFold

LEMMA UniqueAppends ==
  ASSUME NEW X
  PROVE  /\ Unique(<<>>) = <<>>
         /\ \A s \in Seq(X) : Unique(s) \in Seq(X)
         /\ \A s \in Seq(X), c \in X : Unique(Append(s, c)) = Kept(Unique(s), c)
<1> DEFINE F == [s \in Seq(X) |-> Unique(s)]
           op == [p \in Seq(X) \X X |-> Kept(p[1], p[2])]
<1>1. op \in [Seq(X) \X X -> Seq(X)] /\ <<>> \in Seq(X)
  BY DEF Kept
<1>2. LeftFold(F, X, Seq(X), <<>>, op)
  BY <1>1, UniqueFold
<1>3. Appends(F, X, Seq(X), <<>>, op)
  <2> HIDE DEF F, op
  <2> QED BY <1>1, <1>2, LeftFoldAppends
<1>4. Unique(<<>>) = <<>> /\ \A s \in Seq(X) : Unique(s) \in Seq(X)
  <2>1. <<>> \in Seq(X) /\ \A s \in Seq(X) : F[s] = Unique(s)
    OBVIOUS
  <2>2. F[<<>>] = <<>> /\ \A s \in Seq(X) : F[s] \in Seq(X)
    <3> HIDE DEF F, op
    <3> QED BY <1>3 DEF Appends
  <2> HIDE DEF F
  <2> QED BY <2>1, <2>2
<1>5. ASSUME NEW s \in Seq(X), NEW c \in X PROVE Unique(Append(s, c)) = Kept(Unique(s), c)
  <2>1. Append(s, c) \in Seq(X) /\ F[Append(s, c)] = op[<<F[s], c>>] /\ F[s] \in Seq(X)
    <3>1. Append(s, c) \in Seq(X)
      OBVIOUS
    <3> HIDE DEF F, op
    <3> QED BY <1>3, <3>1 DEF Appends
  <2>2. F[Append(s, c)] = Unique(Append(s, c)) /\ F[s] = Unique(s)
    BY <2>1
  <2>3. op[<<F[s], c>>] = Kept(F[s], c)
    BY <2>1
  <2> QED BY <2>1, <2>2, <2>3
<1> QED BY <1>4, <1>5

(* Every candidate's key is among those that are kept.                     *)
LEMMA UniqueCovers ==
  ASSUME NEW X, NEW s \in Seq(X), NEW c \in Range(s)
  PROVE  \E k \in DOMAIN Unique(s) : Unique(s)[k].key = c.key
<1> DEFINE Has(q, x) == \E k \in DOMAIN Unique(q) : Unique(q)[k].key = x.key
           P == {q \in Seq(X) : \A x \in Range(q) : Has(q, x)}
<1>1. <<>> \in P
  BY DEF Range
<1>2. ASSUME NEW q \in Seq(X), NEW e \in X, q \in P PROVE Append(q, e) \in P
  <2> DEFINE u == Unique(q)
             v == Unique(Append(q, e))
  <2>1. u \in Seq(X) /\ v = Kept(u, e)
    BY UniqueAppends
  <2>2. \A x \in Range(q) : \E k \in DOMAIN u : u[k].key = x.key
    BY <1>2
  <2> HIDE DEF u, v
  <2>3. \A k \in DOMAIN u : k \in DOMAIN v /\ v[k] = u[k]
    BY <2>1 DEF Kept
  <2>4. \E k \in DOMAIN v : v[k].key = e.key
    <3>1. CASE \E k \in DOMAIN u : u[k].key = e.key
      BY <2>3, <3>1
    <3>2. CASE ~(\E k \in DOMAIN u : u[k].key = e.key)
      <4>1. v = Append(u, e)
        BY <2>1, <3>2 DEF Kept
      <4>2. Len(u) + 1 \in DOMAIN v /\ v[Len(u) + 1] = e
        BY <2>1, <4>1
      <4> QED BY <4>2
    <3> QED BY <3>1, <3>2
  <2>5. Range(Append(q, e)) = Range(q) \union {e}
    BY AppendRange
  <2>6. \A x \in Range(Append(q, e)) : \E k \in DOMAIN v : v[k].key = x.key
    BY <2>2, <2>3, <2>4, <2>5
  <2>7. Append(q, e) \in Seq(X)
    OBVIOUS
  <2> QED BY <2>6, <2>7 DEF v
<1>3. s \in P
  <2> HIDE DEF P
  <2> QED BY <1>1, <1>2, ByAppend
<1> QED BY <1>3
-----------------------------------------------------------------------------
(* What TakeItem makes of the candidates.                                  *)
Items(X) ==
  {Placed(c, c.text, TRUE, "none") : c \in X}
  \union {Placed(c, "", FALSE, "size") : c \in X}
  \union {Placed(c, "", FALSE, "stale") : c \in X}

LEMMA ItemTypes ==
  ASSUME NEW X, Candidates(X), NEW e \in Items(X)
  PROVE  /\ e.included \in BOOLEAN /\ e.bytes \in Nat /\ EstimatedTokens(e.bytes) \in Nat
         /\ e.included /\ e.sens = "sensitive" =>
              e.text # "" /\ (LooksSensitive(e.kind, e.label, e.text) \/ e.kind = "memory")
<1>1. \E c \in X : \E b \in BOOLEAN : \E t, why : e = Placed(c, t, b, why) /\ (b => t = c.text)
  <2>1. ASSUME NEW c \in X, e = Placed(c, c.text, TRUE, "none")
        PROVE  \E b \in BOOLEAN : \E t, why : e = Placed(c, t, b, why) /\ (b => t = c.text)
    BY <2>1, Zenon
  <2>2. ASSUME NEW c \in X, NEW why, e = Placed(c, "", FALSE, why)
        PROVE  \E b \in BOOLEAN : \E t, w : e = Placed(c, t, b, w) /\ (b => t = c.text)
    BY <2>2, Zenon
  <2>3. \/ \E c \in X : e = Placed(c, c.text, TRUE, "none")
        \/ \E c \in X : e = Placed(c, "", FALSE, "size")
        \/ \E c \in X : e = Placed(c, "", FALSE, "stale")
    BY Zenon DEF Items
  <2> QED BY <2>1, <2>2, <2>3, Zenon
<1>2. PICK c \in X : \E b \in BOOLEAN : \E t, why : e = Placed(c, t, b, why) /\ (b => t = c.text)
  BY <1>1
<1>3. PICK b \in BOOLEAN : \E t, why : e = Placed(c, t, b, why) /\ (b => t = c.text)
  BY <1>2
<1>4. PICK t, why : e = Placed(c, t, b, why) /\ (b => t = c.text)
  BY <1>3
<1>5. IsCandidate(c)
  BY DEF Candidates
<1>6. \A n \in Nat : EstimatedTokens(n) \in Nat
  BY DEF EstimatedTokens
<1>7. /\ e.included = b /\ e.bytes = PackBytes(c.text) /\ e.sens = c.sens /\ e.kind = c.kind
      /\ e.label = c.label /\ e.text = t
  BY <1>4 DEF Placed
<1> QED BY <1>4, <1>5, <1>6, <1>7 DEF IsCandidate

(* An item is made of one of the candidates, and has its text if it is     *)
(* included.                                                               *)
MadeOf(it, c) ==
  /\ it.key = c.key /\ it.kind = c.kind /\ it.label = c.label
  /\ it.included => it.text = c.text

LEMMA ItemMade ==
  ASSUME NEW X, NEW e \in Items(X)
  PROVE  \E c \in X : MadeOf(e, c)
<1>1. ASSUME NEW c, NEW text, NEW b \in BOOLEAN, NEW why, b => text = c.text
      PROVE  MadeOf(Placed(c, text, b, why), c)
  BY <1>1 DEF MadeOf, Placed
<1>2. CASE \E c \in X : e = Placed(c, c.text, TRUE, "none")
  BY <1>1, <1>2
<1>3. CASE \E c \in X : \E why : e = Placed(c, "", FALSE, why)
  BY <1>1, <1>3
<1>4. \/ \E c \in X : e = Placed(c, c.text, TRUE, "none")
      \/ \E c \in X : e = Placed(c, "", FALSE, "size")
      \/ \E c \in X : e = Placed(c, "", FALSE, "stale")
  BY Zenon DEF Items
<1> QED BY <1>2, <1>3, <1>4, Zenon

Sums == [bytes : Nat, tokens : Nat]
NoSum == [bytes |-> 0, tokens |-> 0]
Adds(sum, it) == IF it.included
                 THEN [bytes |-> sum.bytes + it.bytes,
                       tokens |-> sum.tokens + EstimatedTokens(it.bytes)]
                 ELSE sum

(* So is Total over the items.                                             *)
LEMMA TotalFold ==
  ASSUME NEW X, NEW F, F = [s \in Seq(X) |-> Total(s)],
         NEW op, op = [p \in Sums \X X |-> Adds(p[1], p[2])], op \in [Sums \X X -> Sums],
         NoSum \in Sums
  PROVE  LeftFold(F, X, Sums, NoSum, op)
<1>1. ASSUME NEW s \in Seq(X) PROVE \E h : LeftSteps(h, s, Sums, NoSum, op) /\ F[s] = h[DOMAIN s]
  <2> DEFINE iter(S, f) == IF S = {} THEN NoSum ELSE Adds(f[S \ {Max(S)}], s[Max(S)])
             Is(f) == f = [S \in SUBSET DOMAIN s |-> iter(S, f)]
             h == CHOOSE f : Is(f)
  <2>1. F[s] = h[DOMAIN s]
    BY DEF Total, Adds, NoSum, FoldLeft, MapThenFoldSet
  <2>2. PICK g : AllSteps(g, s, X, Sums, NoSum, op)
    BY LeftStepsExist
  <2>3. ASSUME NEW S \in SUBSET DOMAIN s PROVE g[S] = iter(S, g)
    <3>1. S # {} => /\ g[S \ {Max(S)}] \in Sums /\ s[Max(S)] \in X
                    /\ g[S] = op[<<g[S \ {Max(S)}], s[Max(S)]>>]
      BY <2>2 DEF AllSteps
    <3>2. S = {} => g[S] = NoSum
      BY <2>2 DEF AllSteps
    <3> QED BY <3>1, <3>2
  <2>4. Is(g)
    <3> HIDE DEF iter
    <3> QED BY <2>2, <2>3 DEF AllSteps
  <2>5. h = [S \in SUBSET DOMAIN s |-> iter(S, h)]
    <3> HIDE DEF iter
    <3> QED BY <2>4
  <2> HIDE DEF h
  <2>6. ASSUME NEW S \in SUBSET DOMAIN s, S # {}, h[S \ {Max(S)}] \in Sums
        PROVE  h[S] = op[<<h[S \ {Max(S)}], s[Max(S)]>>]
    <3>1. h[S] = iter(S, h)
      <4> HIDE DEF iter
      <4> QED BY <2>5
    <3>2. s[Max(S)] \in X
      BY <2>2, <2>6 DEF AllSteps
    <3> QED BY <2>6, <3>1, <3>2
  <2>7. h[{}] = NoSum
    BY <2>5
  <2> QED BY <2>1, <2>6, <2>7 DEF LeftSteps
<1> QED BY <1>1 DEF LeftFold


LEMMA TotalAdds ==
  ASSUME NEW X, Candidates(X)
  PROVE  /\ Total(<<>>) = NoSum
         /\ \A s \in Seq(Items(X)) : Total(s) \in Sums
         /\ \A s \in Seq(Items(X)), e \in Items(X) : Total(Append(s, e)) = Adds(Total(s), e)
<1> DEFINE E == Items(X)
           F == [s \in Seq(E) |-> Total(s)]
           op == [p \in Sums \X E |-> Adds(p[1], p[2])]
<1>1. op \in [Sums \X E -> Sums] /\ NoSum \in Sums
  <2>1. ASSUME NEW sum \in Sums, NEW e \in E PROVE Adds(sum, e) \in Sums
    <3>1. e.included \in BOOLEAN /\ e.bytes \in Nat /\ EstimatedTokens(e.bytes) \in Nat
      BY ItemTypes
    <3> QED BY <3>1 DEF Adds, Sums
  <2> QED BY <2>1 DEF Sums, NoSum
<1>2. LeftFold(F, E, Sums, NoSum, op)
  BY <1>1, TotalFold
<1>3. Appends(F, E, Sums, NoSum, op)
  <2> HIDE DEF E, F, op
  <2> QED BY <1>1, <1>2, LeftFoldAppends
<1> HIDE DEF E
<1>4. Total(<<>>) = NoSum /\ \A s \in Seq(E) : Total(s) \in Sums
  <2>1. <<>> \in Seq(E) /\ \A s \in Seq(E) : F[s] = Total(s)
    OBVIOUS
  <2>2. F[<<>>] = NoSum /\ \A s \in Seq(E) : F[s] \in Sums
    <3> HIDE DEF F, op
    <3> QED BY <1>3 DEF Appends
  <2> HIDE DEF F
  <2> QED BY <2>1, <2>2
<1>5. ASSUME NEW s \in Seq(E), NEW e \in E PROVE Total(Append(s, e)) = Adds(Total(s), e)
  <2>1. Append(s, e) \in Seq(E) /\ F[Append(s, e)] = op[<<F[s], e>>] /\ F[s] \in Sums
    <3>1. Append(s, e) \in Seq(E)
      OBVIOUS
    <3> HIDE DEF F, op
    <3> QED BY <1>3, <3>1 DEF Appends
  <2>2. F[Append(s, e)] = Total(Append(s, e)) /\ F[s] = Total(s)
    BY <2>1
  <2>3. op[<<F[s], e>>] = Adds(F[s], e)
    BY <2>1
  <2> QED BY <2>1, <2>2, <2>3
<1> QED BY <1>4, <1>5 DEF E
-----------------------------------------------------------------------------
(* What has been placed so far: both budgets are kept, the running sums    *)
(* are those of the items, and what was left out for its size still does   *)
(* not fit.                                                                *)
Packs(X) ==
  {d \in [items : Seq(Items(X)), bytes : Nat, tokens : Nat] :
     /\ Total(d.items) = [bytes |-> d.bytes, tokens |-> d.tokens]
     /\ d.bytes <= PackMaxBytes /\ d.tokens <= PackMaxTokens
     /\ \A i \in DOMAIN d.items : d.items[i].reason = "size" =>
          \/ d.bytes + d.items[i].bytes > PackMaxBytes
          \/ d.tokens + EstimatedTokens(d.items[i].bytes) > PackMaxTokens}

EmptyPack == [items |-> <<>>, bytes |-> 0, tokens |-> 0]

LEMMA EmptyPackFits == ASSUME NEW X, Candidates(X) PROVE EmptyPack \in Packs(X)
<1>1. Total(<<>>) = NoSum
  BY TotalAdds
<1>2. EmptyPack \in [items : Seq(Items(X)), bytes : Nat, tokens : Nat]
  BY DEF EmptyPack
<1>3. PackMaxBytes \in Nat /\ PackMaxTokens \in Nat
  BY PacketAssumption
<1> QED BY <1>1, <1>2, <1>3 DEF EmptyPack, Packs, NoSum

LEMMA MoreIsOver ==
  ASSUME NEW a \in Nat, NEW b \in Nat, NEW x \in Nat, NEW m \in Nat, a + x > m
  PROVE  a + b + x > m
OBVIOUS

(* One more item keeps all that.                                           *)
LEMMA TakeItemFits ==
  ASSUME NEW X, Candidates(X), NEW d \in Packs(X), NEW c \in X, NEW dt
  PROVE  TakeItem(d, c, dt) \in Packs(X)
<1> DEFINE b == PackBytes(c.text)
           t == EstimatedTokens(PackBytes(c.text))
           out(why) == Placed(c, "", FALSE, why)
           in == Placed(c, c.text, TRUE, "none")
<1>0. PackMaxBytes \in Nat /\ PackMaxTokens \in Nat
  BY PacketAssumption
<1>1. b \in Nat /\ t \in Nat
  <2>1. b \in Nat
    BY DEF Candidates, IsCandidate
  <2> QED BY <2>1 DEF EstimatedTokens
<1>2. /\ in \in Items(X) /\ out("size") \in Items(X) /\ out("stale") \in Items(X)
      /\ in.included /\ in.bytes = b /\ in.reason # "size"
      /\ ~out("size").included /\ out("size").bytes = b
      /\ ~out("stale").included /\ out("stale").reason # "size"
  <2>1. in \in Items(X) /\ out("size") \in Items(X) /\ out("stale") \in Items(X)
    BY DEF Items
  <2>2. in.included /\ in.bytes = b /\ in.reason # "size"
    BY DEF Placed
  <2>3. ~out("size").included /\ out("size").bytes = b
    BY DEF Placed
  <2>4. ~out("stale").included /\ out("stale").reason # "size"
    BY DEF Placed
  <2> QED BY <2>1, <2>2, <2>3, <2>4
<1>3. /\ d \in [items : Seq(Items(X)), bytes : Nat, tokens : Nat]
      /\ d.items \in Seq(Items(X)) /\ d.bytes \in Nat /\ d.tokens \in Nat
      /\ Total(d.items) = [bytes |-> d.bytes, tokens |-> d.tokens]
      /\ d.bytes <= PackMaxBytes /\ d.tokens <= PackMaxTokens
      /\ \A i \in DOMAIN d.items : d.items[i].reason = "size" =>
           \/ d.bytes + d.items[i].bytes > PackMaxBytes
           \/ d.tokens + EstimatedTokens(d.items[i].bytes) > PackMaxTokens
  BY DEF Packs
<1>4. \A i \in DOMAIN d.items : d.items[i].bytes \in Nat /\ EstimatedTokens(d.items[i].bytes) \in Nat
  <2>1. ASSUME NEW i \in DOMAIN d.items PROVE d.items[i] \in Items(X)
    BY <1>3
  <2> QED BY <2>1, ItemTypes
<1> HIDE DEF b, t, in, out
<1>5. ASSUME NEW e \in Items(X), ~e.included,
             e.reason = "size" =>
               \/ d.bytes + e.bytes > PackMaxBytes
               \/ d.tokens + EstimatedTokens(e.bytes) > PackMaxTokens
      PROVE  [d EXCEPT !.items = Append(@, e)] \in Packs(X)
  <2> DEFINE q == Append(d.items, e)
             n == [d EXCEPT !.items = Append(@, e)]
  <2>1. q \in Seq(Items(X)) /\ \A i \in DOMAIN q : (i \in DOMAIN d.items /\ q[i] = d.items[i]) \/ q[i] = e
    BY <1>3
  <2>2. Total(q) = Total(d.items)
    BY <1>3, <1>5, TotalAdds DEF Adds
  <2>3. n = [items |-> q, bytes |-> d.bytes, tokens |-> d.tokens]
    <3>1. d = [items |-> d.items, bytes |-> d.bytes, tokens |-> d.tokens]
      BY <1>3
    <3> HIDE DEF q
    <3>2. [d EXCEPT !.items = q] = [items |-> q, bytes |-> d.bytes, tokens |-> d.tokens]
      BY <3>1
    <3> QED BY <3>2 DEF q
  <2> HIDE DEF q, n
  <2>4. n.items = q /\ n.bytes = d.bytes /\ n.tokens = d.tokens
    BY <2>3
  <2>5. n \in [items : Seq(Items(X)), bytes : Nat, tokens : Nat]
    BY <1>3, <2>1, <2>3
  <2>6. \A i \in DOMAIN q : q[i].reason = "size" =>
           \/ d.bytes + q[i].bytes > PackMaxBytes
           \/ d.tokens + EstimatedTokens(q[i].bytes) > PackMaxTokens
    BY <1>3, <1>5, <2>1
  <2> QED BY <1>3, <2>2, <2>4, <2>5, <2>6 DEF Packs, n
<1>6. ASSUME d.bytes + b <= PackMaxBytes, d.tokens + t <= PackMaxTokens
      PROVE  [items |-> Append(d.items, in), bytes |-> d.bytes + b, tokens |-> d.tokens + t] \in Packs(X)
  <2> DEFINE q == Append(d.items, in)
             n == [items |-> q, bytes |-> d.bytes + b, tokens |-> d.tokens + t]
  <2>1. q \in Seq(Items(X)) /\ \A i \in DOMAIN q : (i \in DOMAIN d.items /\ q[i] = d.items[i]) \/ q[i] = in
    BY <1>2, <1>3
  <2>2. Total(q) = [bytes |-> d.bytes + b, tokens |-> d.tokens + t]
    <3>1. Total(q) = Adds(Total(d.items), in)
      BY <1>2, <1>3, TotalAdds
    <3>2. EstimatedTokens(in.bytes) = t
      BY <1>2 DEF b, t
    <3> QED BY <1>2, <1>3, <3>1, <3>2 DEF Adds
  <2> HIDE DEF q
  <2>3. n.items = q /\ n.bytes = d.bytes + b /\ n.tokens = d.tokens + t
    OBVIOUS
  <2>4. n \in [items : Seq(Items(X)), bytes : Nat, tokens : Nat]
    BY <1>1, <1>3, <2>1
  <2>5. ASSUME NEW i \in DOMAIN q, q[i].reason = "size"
        PROVE  \/ d.bytes + b + q[i].bytes > PackMaxBytes
               \/ d.tokens + t + EstimatedTokens(q[i].bytes) > PackMaxTokens
    <3>1. i \in DOMAIN d.items /\ q[i] = d.items[i]
      BY <1>2, <2>1, <2>5
    <3>2. \/ d.bytes + q[i].bytes > PackMaxBytes
          \/ d.tokens + EstimatedTokens(q[i].bytes) > PackMaxTokens
      BY <1>3, <2>5, <3>1
    <3>3. q[i].bytes \in Nat /\ EstimatedTokens(q[i].bytes) \in Nat
      BY <1>4, <3>1
    <3>4. PICK x, y : x = q[i].bytes /\ y = EstimatedTokens(q[i].bytes)
      OBVIOUS
    <3>5. CASE d.bytes + x > PackMaxBytes
      <4>1. d.bytes + b + x > PackMaxBytes
        BY <1>0, <1>1, <1>3, <3>3, <3>4, <3>5, MoreIsOver
      <4> QED BY <3>4, <4>1
    <3>6. CASE d.tokens + y > PackMaxTokens
      <4>1. d.tokens + t + y > PackMaxTokens
        BY <1>0, <1>1, <1>3, <3>3, <3>4, <3>6, MoreIsOver
      <4> QED BY <3>4, <4>1
    <3> QED BY <3>2, <3>4, <3>5, <3>6
  <2> HIDE DEF n
  <2>6. n \in Packs(X)
    <3>1. n.bytes <= PackMaxBytes /\ n.tokens <= PackMaxTokens
      BY <1>6, <2>3
    <3>2. Total(n.items) = [bytes |-> n.bytes, tokens |-> n.tokens]
      BY <2>2, <2>3
    <3>3. \A i \in DOMAIN n.items : n.items[i].reason = "size" =>
            \/ n.bytes + n.items[i].bytes > PackMaxBytes
            \/ n.tokens + EstimatedTokens(n.items[i].bytes) > PackMaxTokens
      BY <2>3, <2>5
    <3> QED BY <2>4, <3>1, <3>2, <3>3 DEF Packs
  <2> QED BY <2>6 DEF n, q
<1>7. CASE c.stale /\ dt.stale = "omit"
  <2>1. TakeItem(d, c, dt) = [d EXCEPT !.items = Append(@, out("stale"))]
    BY <1>7 DEF TakeItem, out
  <2> QED BY <1>2, <1>5, <2>1
<1>8. CASE ~(c.stale /\ dt.stale = "omit") /\ (d.bytes + b > PackMaxBytes \/ d.tokens + t > PackMaxTokens)
  <2>1. TakeItem(d, c, dt) = [d EXCEPT !.items = Append(@, out("size"))]
    BY <1>8 DEF TakeItem, out, b, t
  <2>2. EstimatedTokens(out("size").bytes) = t
    BY <1>2 DEF b, t
  <2> QED BY <1>2, <1>5, <1>8, <2>1, <2>2
<1>9. CASE ~(c.stale /\ dt.stale = "omit") /\ ~(d.bytes + b > PackMaxBytes \/ d.tokens + t > PackMaxTokens)
  <2>1. TakeItem(d, c, dt) = [items |-> Append(d.items, in), bytes |-> d.bytes + b, tokens |-> d.tokens + t]
    BY <1>9 DEF TakeItem, in, b, t
  <2>2. d.bytes + b <= PackMaxBytes /\ d.tokens + t <= PackMaxTokens
    BY <1>0, <1>1, <1>3, <1>9
  <2> QED BY <1>6, <2>1, <2>2
<1> QED BY <1>7, <1>8, <1>9

Filled(s, dt) == FoldLeft(LAMBDA done, c : TakeItem(done, c, dt), EmptyPack, s)

LEMMA PackFold ==
  ASSUME NEW X, NEW dt, NEW F, F = [s \in Seq(X) |-> Filled(s, dt)],
         NEW op, op = [p \in Packs(X) \X X |-> TakeItem(p[1], p[2], dt)], op \in [Packs(X) \X X -> Packs(X)],
         EmptyPack \in Packs(X)
  PROVE  LeftFold(F, X, Packs(X), EmptyPack, op)
<1>1. ASSUME NEW s \in Seq(X) PROVE \E h : LeftSteps(h, s, Packs(X), EmptyPack, op) /\ F[s] = h[DOMAIN s]
  <2> DEFINE iter(S, f) == IF S = {} THEN EmptyPack ELSE TakeItem(f[S \ {Max(S)}], s[Max(S)], dt)
             Is(f) == f = [S \in SUBSET DOMAIN s |-> iter(S, f)]
             h == CHOOSE f : Is(f)
  <2>1. F[s] = h[DOMAIN s]
    BY DEF Filled, EmptyPack, FoldLeft, MapThenFoldSet
  <2>2. PICK g : AllSteps(g, s, X, Packs(X), EmptyPack, op)
    BY LeftStepsExist
  <2>3. ASSUME NEW S \in SUBSET DOMAIN s PROVE g[S] = iter(S, g)
    <3>1. S # {} => /\ g[S \ {Max(S)}] \in Packs(X) /\ s[Max(S)] \in X
                    /\ g[S] = op[<<g[S \ {Max(S)}], s[Max(S)]>>]
      BY <2>2 DEF AllSteps
    <3>2. S = {} => g[S] = EmptyPack
      BY <2>2 DEF AllSteps
    <3> QED BY <3>1, <3>2
  <2>4. Is(g)
    <3> HIDE DEF iter
    <3> QED BY <2>2, <2>3 DEF AllSteps
  <2>5. h = [S \in SUBSET DOMAIN s |-> iter(S, h)]
    <3> HIDE DEF iter
    <3> QED BY <2>4
  <2> HIDE DEF h
  <2>6. ASSUME NEW S \in SUBSET DOMAIN s, S # {}, h[S \ {Max(S)}] \in Packs(X)
        PROVE  h[S] = op[<<h[S \ {Max(S)}], s[Max(S)]>>]
    <3>1. h[S] = iter(S, h)
      <4> HIDE DEF iter
      <4> QED BY <2>5
    <3>2. s[Max(S)] \in X
      BY <2>2, <2>6 DEF AllSteps
    <3> QED BY <2>6, <3>1, <3>2
  <2>7. h[{}] = EmptyPack
    BY <2>5
  <2> QED BY <2>1, <2>6, <2>7 DEF LeftSteps
<1> QED BY <1>1 DEF LeftFold

LEMMA FilledAppends ==
  ASSUME NEW X, Candidates(X), NEW dt
  PROVE  /\ Filled(<<>>, dt) = EmptyPack
         /\ \A s \in Seq(X) : Filled(s, dt) \in Packs(X)
         /\ \A s \in Seq(X), c \in X : Filled(Append(s, c), dt) = TakeItem(Filled(s, dt), c, dt)
<1> DEFINE F == [s \in Seq(X) |-> Filled(s, dt)]
           op == [p \in Packs(X) \X X |-> TakeItem(p[1], p[2], dt)]
<1>1. op \in [Packs(X) \X X -> Packs(X)] /\ EmptyPack \in Packs(X)
  BY TakeItemFits, EmptyPackFits
<1>2. LeftFold(F, X, Packs(X), EmptyPack, op)
  BY <1>1, PackFold
<1>3. Appends(F, X, Packs(X), EmptyPack, op)
  <2> HIDE DEF F, op
  <2> QED BY <1>1, <1>2, LeftFoldAppends
<1>4. Filled(<<>>, dt) = EmptyPack /\ \A s \in Seq(X) : Filled(s, dt) \in Packs(X)
  <2>1. <<>> \in Seq(X) /\ \A s \in Seq(X) : F[s] = Filled(s, dt)
    OBVIOUS
  <2>2. F[<<>>] = EmptyPack /\ \A s \in Seq(X) : F[s] \in Packs(X)
    <3> HIDE DEF F, op
    <3> QED BY <1>3 DEF Appends
  <2> HIDE DEF F
  <2> QED BY <2>1, <2>2
<1>5. ASSUME NEW s \in Seq(X), NEW c \in X
      PROVE  Filled(Append(s, c), dt) = TakeItem(Filled(s, dt), c, dt)
  <2>1. Append(s, c) \in Seq(X) /\ F[Append(s, c)] = op[<<F[s], c>>] /\ F[s] \in Packs(X)
    <3>1. Append(s, c) \in Seq(X)
      OBVIOUS
    <3> HIDE DEF F, op
    <3> QED BY <1>3, <3>1 DEF Appends
  <2>2. F[Append(s, c)] = Filled(Append(s, c), dt) /\ F[s] = Filled(s, dt)
    BY <2>1
  <2>3. op[<<F[s], c>>] = TakeItem(F[s], c, dt)
    BY <2>1
  <2> QED BY <2>1, <2>2, <2>3
<1> QED BY <1>4, <1>5

(* TakeItem puts one item, with the candidate's key, after the others.     *)
LEMMA TakeItemLists ==
  ASSUME NEW X, NEW d \in Packs(X), NEW c \in X, NEW dt
  PROVE  \E e : TakeItem(d, c, dt).items = Append(d.items, e) /\ e.key = c.key
<1>1. /\ Placed(c, "", FALSE, "stale").key = c.key
      /\ Placed(c, "", FALSE, "size").key = c.key
      /\ Placed(c, c.text, TRUE, "none").key = c.key
  BY DEF Placed
<1>2. d \in [items : Seq(Items(X)), bytes : Nat, tokens : Nat]
  BY DEF Packs
<1>3. \A e : [d EXCEPT !.items = Append(@, e)].items = Append(d.items, e)
  BY <1>2
<1>4. \/ TakeItem(d, c, dt).items = Append(d.items, Placed(c, "", FALSE, "stale"))
      \/ TakeItem(d, c, dt).items = Append(d.items, Placed(c, "", FALSE, "size"))
      \/ TakeItem(d, c, dt).items = Append(d.items, Placed(c, c.text, TRUE, "none"))
  BY <1>3 DEF TakeItem
<1> QED BY <1>1, <1>4

(* Every candidate is in the packet, or listed in it as omitted.           *)
LEMMA FilledCovers ==
  ASSUME NEW X, Candidates(X), NEW dt, NEW s \in Seq(X), NEW j \in DOMAIN s
  PROVE  \E k \in DOMAIN Filled(s, dt).items : Filled(s, dt).items[k].key = s[j].key
<1> DEFINE Has(q, x) == \E k \in DOMAIN Filled(q, dt).items : Filled(q, dt).items[k].key = x.key
           P == {q \in Seq(X) : \A x \in Range(q) : Has(q, x)}
<1>1. <<>> \in P
  BY DEF Range
<1>2. ASSUME NEW q \in Seq(X), NEW e \in X, q \in P PROVE Append(q, e) \in P
  <2> DEFINE u == Filled(q, dt).items
             v == Filled(Append(q, e), dt).items
  <2>1. Filled(q, dt) \in Packs(X) /\ Filled(Append(q, e), dt) = TakeItem(Filled(q, dt), e, dt)
    BY FilledAppends
  <2>2. u \in Seq(Items(X))
    BY <2>1 DEF Packs
  <2>3. PICK it : v = Append(u, it) /\ it.key = e.key
    BY <2>1, TakeItemLists
  <2>4. \A x \in Range(q) : \E k \in DOMAIN u : u[k].key = x.key
    BY <1>2
  <2> HIDE DEF u, v
  <2>5. /\ \A k \in DOMAIN u : k \in DOMAIN v /\ v[k] = u[k]
        /\ Len(u) + 1 \in DOMAIN v /\ v[Len(u) + 1] = it
    BY <2>2, <2>3
  <2>6. Range(Append(q, e)) = Range(q) \union {e}
    BY AppendRange
  <2>7. \A x \in Range(Append(q, e)) : \E k \in DOMAIN v : v[k].key = x.key
    BY <2>3, <2>4, <2>5, <2>6
  <2>8. Append(q, e) \in Seq(X)
    OBVIOUS
  <2> QED BY <2>7, <2>8 DEF v
<1>3. s \in P
  <2> HIDE DEF P
  <2> QED BY <1>1, <1>2, ByAppend
<1>4. s[j] \in Range(s)
  BY DEF Range
<1> QED BY <1>3, <1>4

(* A packet made of candidates fits, and names them all.                   *)
LEMMA BudgetApplies ==
  ASSUME NEW T, IsFiniteSet(T), Candidates(T), NEW dt
  PROVE  LET d == ApplyPackBudget(InOrder(T), dt)
         IN /\ d \in Packs(T)
            /\ \A c \in T : \E k \in DOMAIN d.items : d.items[k].key = c.key
<1> DEFINE o == InOrder(T)
           u == Unique(o)
           d == Filled(u, dt)
<1>1. o \in Seq(T) /\ Range(o) = T
  BY InOrderTypes
<1> HIDE DEF o
<1>2. u \in Seq(T)
  BY <1>1, UniqueAppends
<1>3. \A c \in T : \E k \in DOMAIN u : u[k].key = c.key
  BY <1>1, UniqueCovers
<1> HIDE DEF u
<1>4. d \in Packs(T)
  BY <1>2, FilledAppends
<1>5. \A j \in DOMAIN u : \E k \in DOMAIN d.items : d.items[k].key = u[j].key
  BY <1>2, FilledCovers
<1>6. \A c \in T : \E k \in DOMAIN d.items : d.items[k].key = c.key
  BY <1>3, <1>5
<1>7. ApplyPackBudget(InOrder(T), dt) = d
  BY DEF ApplyPackBudget, Filled, EmptyPack, o, u
<1> HIDE DEF d
<1> QED BY <1>4, <1>6, <1>7
-----------------------------------------------------------------------------
LEMMA ImageFinite ==
  ASSUME NEW S, IsFiniteSet(S), NEW f PROVE IsFiniteSet({f[x] : x \in S})
<1> DEFINE g == [x \in S |-> f[x]]
           T == {f[x] : x \in S}
<1>1. g \in Surjection(S, T)
  BY DEF Surjection
<1> HIDE DEF g, T
<1>2. IsFiniteSet(T)
  BY <1>1, FS_Surjection
<1> QED BY <1>2 DEF T

(* An entry of the index; a file's has a file.                             *)
Entries == {e \in Entry : e.kind = "file" => e.src \in Files}
Disks == [Files -> Contents \union {"absent"}]

LEMMA TextBytes ==
  ASSUME NEW t \in Contents \union {"delta"}
  PROVE  t # "" /\ PackBytes(t) \in Nat /\ Relevance(t) \in Nat
BY PacketAssumption DEF PackBytes, Relevance

(* A candidate built of proper parts is one.                               *)
LEMMA CandidateIs ==
  ASSUME NEW kind, NEW label \in Nat, NEW text \in Contents \union {"delta"}, NEW key,
         NEW raw \in Contents, NEW weight \in Nat, NEW stale, NEW sens,
         sens = "sensitive" => LooksSensitive(kind, label, text) \/ kind = "memory"
  PROVE  IsCandidate(Candidate(kind, label, text, key, raw, weight, stale, sens))
<1> DEFINE c == Candidate(kind, label, text, key, raw, weight, stale, sens)
<1>1. /\ c.kind = kind /\ c.label = label /\ c.text = text /\ c.hits = Relevance(raw)
      /\ c.weight = weight /\ c.sens = sens
  BY DEF Candidate
<1>2. text # "" /\ PackBytes(text) \in Nat /\ Relevance(raw) \in Nat
  BY TextBytes
<1> HIDE DEF c
<1>3. IsCandidate(c)
  BY <1>1, <1>2 DEF IsCandidate
<1> QED BY <1>3 DEF c

LEMMA SensIs ==
  ASSUME NEW kind, NEW label, NEW text
  PROVE  SensOf(kind, label, text) = "sensitive" => LooksSensitive(kind, label, text)
BY DEF SensOf

LEMMA NotesAreCandidates ==
  ASSUME NEW ix \in Seq(Entries), NEW ns \in Seq(Contents)
  PROVE  IsFiniteSet(NoteCandidates(ix, ns)) /\ Candidates(NoteCandidates(ix, ns))
<1> DEFINE D == {j \in DOMAIN ix : /\ ix[j].kind = "note" /\ ix[j].dup = 0
                                   /\ NoteCursor(ix, j) <= Len(ns)}
           f == [i \in D |-> Candidate("note", i, ns[NoteCursor(ix, i)], <<"hash", ix[i].text>>,
                  ns[NoteCursor(ix, i)], 0, FALSE, SensOf("note", i, ns[NoteCursor(ix, i)]))]
<1>1. DOMAIN ix = 1..Len(ix) /\ Len(ix) \in Nat
  OBVIOUS
<1>2. IsFiniteSet(D)
  <2>1. IsFiniteSet(1..Len(ix))
    BY <1>1, FS_Interval
  <2>2. D \in SUBSET (1..Len(ix))
    BY <1>1
  <2> HIDE DEF D
  <2> QED BY <2>1, <2>2, FS_Subset
<1>3. NoteCandidates(ix, ns) = {f[i] : i \in D}
  BY DEF NoteCandidates
<1>4. IsFiniteSet(NoteCandidates(ix, ns))
  <2> HIDE DEF D, f
  <2> QED BY <1>2, <1>3, ImageFinite
<1>5. ASSUME NEW i \in D PROVE IsCandidate(f[i])
  <2> DEFINE n == NoteCursor(ix, i)
             mine == {j \in 1..i : ix[j].kind = "note"}
  <2>1. i \in Nat /\ i \in mine /\ mine \in SUBSET (1..i)
    BY <1>1
  <2>2. IsFiniteSet(mine) /\ Cardinality(mine) \in Nat
    <3>1. IsFiniteSet(1..i)
      BY <2>1, FS_Interval
    <3> HIDE DEF mine
    <3> QED BY <2>1, <3>1, FS_Subset, FS_CardinalityType
  <2>3. Cardinality(mine) # 0
    BY <2>1, <2>2, FS_EmptySet
  <2>4. n \in Nat /\ n # 0
    BY <2>2, <2>3 DEF NoteCursor
  <2>5. n <= Len(ns)
    OBVIOUS
  <2> HIDE DEF n
  <2>6. ns[n] \in Contents
    BY <2>4, <2>5
  <2>7. SensOf("note", i, ns[n]) = "sensitive" => LooksSensitive("note", i, ns[n])
    BY SensIs
  <2>8. IsCandidate(Candidate("note", i, ns[n], <<"hash", ix[i].text>>, ns[n], 0, FALSE,
                              SensOf("note", i, ns[n])))
    BY <2>1, <2>6, <2>7, CandidateIs
  <2>9. f[i] = Candidate("note", i, ns[n], <<"hash", ix[i].text>>, ns[n], 0, FALSE,
                         SensOf("note", i, ns[n]))
    BY DEF n
  <2> HIDE DEF f
  <2> QED BY <2>8, <2>9
<1> HIDE DEF D, f
<1> QED BY <1>3, <1>4, <1>5 DEF Candidates

LEMMA FilesAreCandidates ==
  ASSUME NEW ix \in Seq(Entries), NEW dk \in Disks, NEW dn, NEW tr, NEW dt
  PROVE  /\ IsFiniteSet(FileCandidates(ix, dk, dn, tr, dt))
         /\ Candidates(FileCandidates(ix, dk, dn, tr, dt))
<1> DEFINE D == {j \in DOMAIN ix : /\ ix[j].kind = "file" /\ ix[j].dup = 0
                                   /\ ~Unreadable(ix[j].src, dk, dn)}
           body(i) == FileBody(ix[i].src, dk, tr, dt)
           f == [i \in D |-> Candidate("file", ix[i].src, body(i), <<"hash", ix[i].text>>, dk[ix[i].src],
                  100 + PackBytes(body(i)), ix[i].text # dk[ix[i].src],
                  SensOf("file", ix[i].src, body(i)))]
<1>1. DOMAIN ix = 1..Len(ix) /\ Len(ix) \in Nat
  OBVIOUS
<1>2. IsFiniteSet(D)
  <2>1. IsFiniteSet(1..Len(ix))
    BY <1>1, FS_Interval
  <2>2. D \in SUBSET (1..Len(ix))
    BY <1>1
  <2> HIDE DEF D
  <2> QED BY <2>1, <2>2, FS_Subset
<1>3. FileCandidates(ix, dk, dn, tr, dt) = {f[i] : i \in D}
  <2> DEFINE g(i) == Candidate("file", ix[i].src, body(i), <<"hash", ix[i].text>>, dk[ix[i].src],
                       100 + PackBytes(body(i)), ix[i].text # dk[ix[i].src],
                       SensOf("file", ix[i].src, body(i)))
  <2>1. FileCandidates(ix, dk, dn, tr, dt) = {g(i) : i \in D}
    BY Zenon DEF FileCandidates
  <2>2. \A i \in D : f[i] = g(i)
    OBVIOUS
  <2> HIDE DEF g, f, D
  <2> QED BY <2>1, <2>2
<1>4. IsFiniteSet(FileCandidates(ix, dk, dn, tr, dt))
  <2> HIDE DEF D, f
  <2> QED BY <1>2, <1>3, ImageFinite
<1>5. ASSUME NEW i \in D PROVE IsCandidate(f[i])
  <2>1. ix[i].src \in Files /\ ix[i].src \in Nat
    <3>1. ix[i] \in Entries /\ ix[i].kind = "file"
      OBVIOUS
    <3> HIDE DEF D
    <3> QED BY <3>1, PacketAssumption DEF Entries
  <2>2. dk[ix[i].src] \in Contents
    BY <2>1 DEF Unreadable, Disks
  <2>3. body(i) \in Contents \union {"delta"}
    BY <2>2 DEF FileBody
  <2>4. 100 + PackBytes(body(i)) \in Nat
    <3> HIDE DEF body, D
    <3>1. PackBytes(body(i)) \in Nat
      BY <2>3, TextBytes
    <3> QED BY <3>1
  <2>5. SensOf("file", ix[i].src, body(i)) = "sensitive" => LooksSensitive("file", ix[i].src, body(i))
    BY SensIs
  <2> HIDE DEF body
  <2>6. IsCandidate(Candidate("file", ix[i].src, body(i), <<"hash", ix[i].text>>, dk[ix[i].src],
                  100 + PackBytes(body(i)), ix[i].text # dk[ix[i].src],
                  SensOf("file", ix[i].src, body(i))))
    BY <2>1, <2>2, <2>3, <2>4, <2>5, CandidateIs
  <2> QED BY <2>6
<1> HIDE DEF D, f
<1> QED BY <1>3, <1>4, <1>5 DEF Candidates

LEMMA OthersAreCandidates ==
  ASSUME NEW dt
  PROVE  /\ IsFiniteSet(NotesFile(dt)) /\ Candidates(NotesFile(dt))
         /\ IsFiniteSet(MemoryRows(dt)) /\ Candidates(MemoryRows(dt))
<1> DEFINE ws == Candidate("workspace_note", 0, WorkspaceNotes, <<"ws">>, WorkspaceNotes, 50, FALSE,
                           SensOf("workspace_note", 0, WorkspaceNotes))
           D == {r \in Remembered : dt.memory}
           f == [m \in D |-> Candidate("memory", m.id, m.text, <<"mem", m.id>>, m.text, 62, FALSE, m.sens)]
<1>1. NotesFile(dt) \subseteq {ws}
  BY DEF NotesFile
<1>2. IsCandidate(ws)
  <2>1. SensOf("workspace_note", 0, WorkspaceNotes) = "sensitive"
        => LooksSensitive("workspace_note", 0, WorkspaceNotes)
    BY SensIs
  <2> QED BY <2>1, PacketAssumption, CandidateIs
<1>3. IsFiniteSet(NotesFile(dt)) /\ Candidates(NotesFile(dt))
  <2> HIDE DEF ws
  <2>1. IsFiniteSet({ws})
    BY FS_Singleton
  <2> QED BY <1>1, <1>2, <2>1, FS_Subset DEF Candidates
<1>4. IsFiniteSet(D)
  BY PacketAssumption, FS_Subset
<1>5. MemoryRows(dt) = {f[m] : m \in D}
  BY DEF MemoryRows
<1>6. IsFiniteSet(MemoryRows(dt))
  <2> HIDE DEF D, f
  <2> QED BY <1>4, <1>5, ImageFinite
<1>7. ASSUME NEW m \in D PROVE IsCandidate(f[m])
  <2>1. m.id \in Nat /\ m.text \in Contents
    BY PacketAssumption
  <2>2. IsCandidate(Candidate("memory", m.id, m.text, <<"mem", m.id>>, m.text, 62, FALSE, m.sens))
    BY <2>1, CandidateIs
  <2> QED BY <2>2
<1>8. Candidates(MemoryRows(dt))
  <2> HIDE DEF D, f
  <2> QED BY <1>5, <1>7 DEF Candidates
<1> QED BY <1>3, <1>6, <1>8

(* Whatever the index, the notes and the disk hold, the packet compiled    *)
(* from them keeps its budgets, its flag is true, and it lists every note  *)
(* and file it was compiled from, and nothing but its candidates.          *)
Sourced(p, ix, ns, dk, dn, tr, dt) ==
  \A k \in DOMAIN p.items :
    \E c \in NoteCandidates(ix, ns) \union FileCandidates(ix, dk, dn, tr, dt)
              \union (NotesFile(dt) \union MemoryRows(dt)) : MadeOf(p.items[k], c)

LEMMA CompiledIsTrue ==
  ASSUME NEW ix \in Seq(Entries), NEW ns \in Seq(Contents), NEW dk \in Disks,
         NEW dn, NEW tr, NEW dt
  PROVE  LET p == Compile(ix, ns, dk, dn, tr, dt)
         IN /\ FitsBudgets(p) /\ FlagIsTrue(p)
            /\ \A c \in NoteCandidates(ix, ns) \union FileCandidates(ix, dk, dn, tr, dt) :
                 \E k \in DOMAIN p.items : p.items[k].key = c.key
            /\ Sourced(p, ix, ns, dk, dn, tr, dt)
<1> DEFINE T == UNION {NoteCandidates(ix, ns), FileCandidates(ix, dk, dn, tr, dt),
                       NotesFile(dt), MemoryRows(dt)}
           A == NoteCandidates(ix, ns) \union FileCandidates(ix, dk, dn, tr, dt)
           B == NotesFile(dt) \union MemoryRows(dt)
           d == ApplyPackBudget(InOrder(T), dt)
           p == Compile(ix, ns, dk, dn, tr, dt)
<1>1. T = A \union B
  OBVIOUS
<1>2. IsFiniteSet(A) /\ Candidates(A)
  BY NotesAreCandidates, FilesAreCandidates, FS_Union DEF Candidates
<1>3. IsFiniteSet(B) /\ Candidates(B)
  BY OthersAreCandidates, FS_Union DEF Candidates
<1> HIDE DEF A, B
<1>4. IsFiniteSet(T) /\ Candidates(T)
  BY <1>1, <1>2, <1>3, FS_Union DEF Candidates
<1>5. p.items = d.items /\ p.sensitive = SensitiveIncluded(d.items)
  BY DEF Compile
<1> HIDE DEF T, p
<1>6. d \in Packs(T) /\ \A c \in T : \E k \in DOMAIN d.items : d.items[k].key = c.key
  BY <1>4, BudgetApplies
<1> HIDE DEF d
<1>7. FitsBudgets(p)
  <2>1. Total(p.items) = [bytes |-> d.bytes, tokens |-> d.tokens]
    BY <1>5, <1>6 DEF Packs
  <2> QED BY <1>5, <1>6, <2>1 DEF FitsBudgets, Packs
<1>8. ASSUME NEW i \in Included(p), p.items[i].sens = "sensitive" PROVE p.sensitive
  <2>1. d.items \in Seq(Items(T)) /\ i \in DOMAIN d.items /\ d.items[i].included
    BY <1>5, <1>6, <1>8 DEF Included, Packs
  <2>2. d.items[i] \in Items(T)
    BY <2>1
  <2>3. d.items[i].text # "" /\ (\/ LooksSensitive(d.items[i].kind, d.items[i].label, d.items[i].text)
                                 \/ d.items[i].kind = "memory")
    BY <1>4, <1>5, <1>8, <2>1, <2>2, ItemTypes
  <2> QED BY <1>5, <1>8, <2>1, <2>3 DEF SensitiveIncluded
<1>9. FlagIsTrue(p)
  BY <1>8 DEF FlagIsTrue
<1>10. ASSUME NEW k \in DOMAIN p.items PROVE \E c \in A \union B : MadeOf(p.items[k], c)
  <2>1. p.items[k] \in Items(T)
    BY <1>5, <1>6 DEF Packs
  <2> QED BY <1>1, <2>1, ItemMade
<1>11. Sourced(p, ix, ns, dk, dn, tr, dt)
  BY <1>10 DEF Sourced, A, B
<1> QED BY <1>1, <1>5, <1>6, <1>7, <1>9, <1>11 DEF p, A
-----------------------------------------------------------------------------
(* The entries that Without leaves.                                        *)
Left(kept, e, gone) == IF e \in gone THEN kept ELSE Append(kept, e)

LEMMA WithoutFold ==
  ASSUME NEW X, NEW gone, NEW F, F = [s \in Seq(X) |-> Without(s, gone)],
         NEW op, op = [p \in Seq(X) \X X |-> Left(p[1], p[2], gone)], op \in [Seq(X) \X X -> Seq(X)],
         <<>> \in Seq(X)
  PROVE  LeftFold(F, X, Seq(X), <<>>, op)
<1>1. ASSUME NEW s \in Seq(X) PROVE \E h : LeftSteps(h, s, Seq(X), <<>>, op) /\ F[s] = h[DOMAIN s]
  <2> DEFINE iter(S, f) == IF S = {} THEN <<>> ELSE Left(f[S \ {Max(S)}], s[Max(S)], gone)
             Is(f) == f = [S \in SUBSET DOMAIN s |-> iter(S, f)]
             h == CHOOSE f : Is(f)
  <2>1. F[s] = h[DOMAIN s]
    BY DEF Without, Left, FoldLeft, MapThenFoldSet
  <2>2. PICK g : AllSteps(g, s, X, Seq(X), <<>>, op)
    BY LeftStepsExist
  <2>3. ASSUME NEW S \in SUBSET DOMAIN s PROVE g[S] = iter(S, g)
    <3>1. S # {} => /\ g[S \ {Max(S)}] \in Seq(X) /\ s[Max(S)] \in X
                    /\ g[S] = op[<<g[S \ {Max(S)}], s[Max(S)]>>]
      BY <2>2 DEF AllSteps
    <3>2. S = {} => g[S] = <<>>
      BY <2>2 DEF AllSteps
    <3> QED BY <3>1, <3>2
  <2>4. Is(g)
    <3> HIDE DEF iter
    <3> QED BY <2>2, <2>3 DEF AllSteps
  <2>5. h = [S \in SUBSET DOMAIN s |-> iter(S, h)]
    <3> HIDE DEF iter
    <3> QED BY <2>4
  <2> HIDE DEF h
  <2>6. ASSUME NEW S \in SUBSET DOMAIN s, S # {}, h[S \ {Max(S)}] \in Seq(X)
        PROVE  h[S] = op[<<h[S \ {Max(S)}], s[Max(S)]>>]
    <3>1. h[S] = iter(S, h)
      <4> HIDE DEF iter
      <4> QED BY <2>5
    <3>2. s[Max(S)] \in X
      BY <2>2, <2>6 DEF AllSteps
    <3> QED BY <2>6, <3>1, <3>2
  <2>7. h[{}] = <<>>
    BY <2>5
  <2> QED BY <2>1, <2>6, <2>7 DEF LeftSteps
<1> QED BY <1>1 DEF LeftFold

LEMMA WithoutAppends ==
  ASSUME NEW X, NEW gone
  PROVE  /\ Without(<<>>, gone) = <<>>
         /\ \A s \in Seq(X) : Without(s, gone) \in Seq(X)
         /\ \A s \in Seq(X), e \in X : Without(Append(s, e), gone) = Left(Without(s, gone), e, gone)
<1> DEFINE F == [s \in Seq(X) |-> Without(s, gone)]
           op == [p \in Seq(X) \X X |-> Left(p[1], p[2], gone)]
<1>1. op \in [Seq(X) \X X -> Seq(X)] /\ <<>> \in Seq(X)
  BY DEF Left
<1>2. LeftFold(F, X, Seq(X), <<>>, op)
  BY <1>1, WithoutFold
<1>3. Appends(F, X, Seq(X), <<>>, op)
  <2> HIDE DEF F, op
  <2> QED BY <1>1, <1>2, LeftFoldAppends
<1>4. Without(<<>>, gone) = <<>> /\ \A s \in Seq(X) : Without(s, gone) \in Seq(X)
  <2>1. <<>> \in Seq(X) /\ \A s \in Seq(X) : F[s] = Without(s, gone)
    OBVIOUS
  <2>2. F[<<>>] = <<>> /\ \A s \in Seq(X) : F[s] \in Seq(X)
    <3> HIDE DEF F, op
    <3> QED BY <1>3 DEF Appends
  <2> HIDE DEF F
  <2> QED BY <2>1, <2>2
<1>5. ASSUME NEW s \in Seq(X), NEW e \in X
      PROVE  Without(Append(s, e), gone) = Left(Without(s, gone), e, gone)
  <2>1. Append(s, e) \in Seq(X) /\ F[Append(s, e)] = op[<<F[s], e>>] /\ F[s] \in Seq(X)
    <3>1. Append(s, e) \in Seq(X)
      OBVIOUS
    <3> HIDE DEF F, op
    <3> QED BY <1>3, <3>1 DEF Appends
  <2>2. F[Append(s, e)] = Without(Append(s, e), gone) /\ F[s] = Without(s, gone)
    BY <2>1
  <2>3. op[<<F[s], e>>] = Left(F[s], e, gone)
    BY <2>1
  <2> QED BY <2>1, <2>2, <2>3
<1> QED BY <1>4, <1>5

(* The notes of an index, one entry at a time.                             *)
NoteAdds(texts, e) == IF e.kind = "note" THEN Append(texts, e.text) ELSE texts

LEMMA NoteFold ==
  ASSUME NEW F, F = [s \in Seq(Entries) |-> NoteTexts(s)],
         NEW op, op = [p \in Seq(Contents) \X Entries |-> NoteAdds(p[1], p[2])], op \in [Seq(Contents) \X Entries -> Seq(Contents)],
         <<>> \in Seq(Contents)
  PROVE  LeftFold(F, Entries, Seq(Contents), <<>>, op)
<1>1. ASSUME NEW s \in Seq(Entries) PROVE \E h : LeftSteps(h, s, Seq(Contents), <<>>, op) /\ F[s] = h[DOMAIN s]
  <2> DEFINE iter(S, f) == IF S = {} THEN <<>> ELSE NoteAdds(f[S \ {Max(S)}], s[Max(S)])
             Is(f) == f = [S \in SUBSET DOMAIN s |-> iter(S, f)]
             h == CHOOSE f : Is(f)
  <2>1. F[s] = h[DOMAIN s]
    BY DEF NoteTexts, NoteAdds, FoldLeft, MapThenFoldSet
  <2>2. PICK g : AllSteps(g, s, Entries, Seq(Contents), <<>>, op)
    BY LeftStepsExist
  <2>3. ASSUME NEW S \in SUBSET DOMAIN s PROVE g[S] = iter(S, g)
    <3>1. S # {} => /\ g[S \ {Max(S)}] \in Seq(Contents) /\ s[Max(S)] \in Entries
                    /\ g[S] = op[<<g[S \ {Max(S)}], s[Max(S)]>>]
      BY <2>2 DEF AllSteps
    <3>2. S = {} => g[S] = <<>>
      BY <2>2 DEF AllSteps
    <3> QED BY <3>1, <3>2
  <2>4. Is(g)
    <3> HIDE DEF iter
    <3> QED BY <2>2, <2>3 DEF AllSteps
  <2>5. h = [S \in SUBSET DOMAIN s |-> iter(S, h)]
    <3> HIDE DEF iter
    <3> QED BY <2>4
  <2> HIDE DEF h
  <2>6. ASSUME NEW S \in SUBSET DOMAIN s, S # {}, h[S \ {Max(S)}] \in Seq(Contents)
        PROVE  h[S] = op[<<h[S \ {Max(S)}], s[Max(S)]>>]
    <3>1. h[S] = iter(S, h)
      <4> HIDE DEF iter
      <4> QED BY <2>5
    <3>2. s[Max(S)] \in Entries
      BY <2>2, <2>6 DEF AllSteps
    <3> QED BY <2>6, <3>1, <3>2
  <2>7. h[{}] = <<>>
    BY <2>5
  <2> QED BY <2>1, <2>6, <2>7 DEF LeftSteps
<1> QED BY <1>1 DEF LeftFold

LEMMA NotesAppend ==
  /\ NoteTexts(<<>>) = <<>>
  /\ \A s \in Seq(Entries) : NoteTexts(s) \in Seq(Contents)
  /\ \A s \in Seq(Entries), e \in Entries : NoteTexts(Append(s, e)) = NoteAdds(NoteTexts(s), e)
<1> DEFINE V == Seq(Contents)
           F == [s \in Seq(Entries) |-> NoteTexts(s)]
           op == [p \in V \X Entries |-> NoteAdds(p[1], p[2])]
<1>1. op \in [V \X Entries -> V] /\ <<>> \in V
  BY DEF NoteAdds, Entries, Entry
<1>2. LeftFold(F, Entries, V, <<>>, op)
  BY <1>1, NoteFold
<1>3. Appends(F, Entries, V, <<>>, op)
  <2> HIDE DEF V, F, op
  <2> QED BY <1>1, <1>2, LeftFoldAppends
<1>4. NoteTexts(<<>>) = <<>> /\ \A s \in Seq(Entries) : NoteTexts(s) \in V
  <2>1. <<>> \in Seq(Entries) /\ \A s \in Seq(Entries) : F[s] = NoteTexts(s)
    OBVIOUS
  <2>2. F[<<>>] = <<>> /\ \A s \in Seq(Entries) : F[s] \in V
    <3> HIDE DEF V, F, op
    <3> QED BY <1>3 DEF Appends
  <2> HIDE DEF F
  <2> QED BY <2>1, <2>2
<1>5. ASSUME NEW s \in Seq(Entries), NEW e \in Entries
      PROVE  NoteTexts(Append(s, e)) = NoteAdds(NoteTexts(s), e)
  <2>1. Append(s, e) \in Seq(Entries) /\ F[Append(s, e)] = op[<<F[s], e>>] /\ F[s] \in V
    <3>1. Append(s, e) \in Seq(Entries)
      OBVIOUS
    <3> HIDE DEF V, F, op
    <3> QED BY <1>3, <3>1 DEF Appends
  <2>2. F[Append(s, e)] = NoteTexts(Append(s, e)) /\ F[s] = NoteTexts(s)
    BY <2>1
  <2>3. op[<<F[s], e>>] = NoteAdds(F[s], e)
    BY <2>1
  <2> QED BY <2>1, <2>2, <2>3
<1> QED BY <1>4, <1>5

(* Leaving out entries leaves the others, and only those.                  *)
LEMMA WithoutLeaves ==
  ASSUME NEW X, NEW s \in Seq(X), NEW gone
  PROVE  Range(Without(s, gone)) = Range(s) \ gone
<1> DEFINE P == {q \in Seq(X) : Range(Without(q, gone)) = Range(q) \ gone}
<1>1. <<>> \in P
  BY WithoutAppends DEF Range
<1>2. ASSUME NEW q \in Seq(X), NEW e \in X, q \in P PROVE Append(q, e) \in P
  <2>1. \A w \in Seq(X) : Range(Append(w, e)) = Range(w) \union {e}
    BY AppendRange
  <2>2. Without(q, gone) \in Seq(X)
    BY WithoutAppends
  <2>3. Without(Append(q, e), gone) = Left(Without(q, gone), e, gone)
    BY WithoutAppends
  <2>4. Range(Without(Append(q, e), gone)) = IF e \in gone THEN Range(q) \ gone
                                             ELSE (Range(q) \ gone) \union {e}
    BY <1>2, <2>1, <2>2, <2>3 DEF Left
  <2>5. Range(Append(q, e)) = Range(q) \union {e}
    BY <2>1
  <2>6. Range(Without(Append(q, e), gone)) = Range(Append(q, e)) \ gone
    BY <2>4, <2>5
  <2>7. Append(q, e) \in Seq(X)
    OBVIOUS
  <2> QED BY <2>6, <2>7
<1>3. s \in P
  <2> HIDE DEF P
  <2> QED BY <1>1, <1>2, ByAppend
<1> QED BY <1>3

(* Leaving out files leaves the notes as they are.                         *)
LEMMA WithoutFilesNotes ==
  ASSUME NEW s \in Seq(Entries), NEW gone, \A e \in gone : e.kind = "file"
  PROVE  NoteTexts(Without(s, gone)) = NoteTexts(s)
<1> DEFINE P == {q \in Seq(Entries) : NoteTexts(Without(q, gone)) = NoteTexts(q)}
<1>1. <<>> \in P
  BY WithoutAppends
<1>2. ASSUME NEW q \in Seq(Entries), NEW e \in Entries, q \in P PROVE Append(q, e) \in P
  <2>1. Without(q, gone) \in Seq(Entries)
    BY WithoutAppends
  <2>2. Without(Append(q, e), gone) = Left(Without(q, gone), e, gone)
    BY WithoutAppends
  <2>3. NoteTexts(Append(q, e)) = NoteAdds(NoteTexts(q), e)
    BY NotesAppend
  <2>4. NoteTexts(Append(Without(q, gone), e)) = NoteAdds(NoteTexts(Without(q, gone)), e)
    BY <2>1, NotesAppend
  <2>5. NoteTexts(Without(Append(q, e), gone)) = NoteTexts(Append(q, e))
    <3>1. NoteTexts(Without(q, gone)) = NoteTexts(q)
      BY <1>2
    <3>2. CASE e \in gone
      <4>1. e.kind = "file"
        BY <3>2
      <4> QED BY <2>2, <2>3, <3>1, <3>2, <4>1 DEF Left, NoteAdds
    <3>3. CASE e \notin gone
      BY <2>2, <2>3, <2>4, <3>1, <3>3 DEF Left
    <3> QED BY <3>2, <3>3
  <2>6. Append(q, e) \in Seq(Entries)
    OBVIOUS
  <2> QED BY <2>5, <2>6
<1>3. s \in P
  <2> HIDE DEF P
  <2> QED BY <1>1, <1>2, ByAppend
<1> QED BY <1>3

(* Two indexes that differ in files only have the same notes.              *)
LEMMA SameNotes ==
  ASSUME NEW s \in Seq(Entries), NEW t \in Seq(Entries), Len(s) = Len(t),
         \A i \in DOMAIN s : s[i] = t[i] \/ (s[i].kind = "file" /\ t[i].kind = "file")
  PROVE  NoteTexts(s) = NoteTexts(t)
<1> DEFINE n == Len(s)
           P == {i \in 0..n : NoteTexts(SubSeq(s, 1, i)) = NoteTexts(SubSeq(t, 1, i))}
<1>1. n \in Nat /\ DOMAIN s = 1..n /\ DOMAIN t = 1..n
  OBVIOUS
<1>2. 0 \in P
  <2>1. SubSeq(s, 1, 0) = <<>> /\ SubSeq(t, 1, 0) = <<>>
    OBVIOUS
  <2>2. NoteTexts(SubSeq(s, 1, 0)) = NoteTexts(SubSeq(t, 1, 0))
    BY <2>1
  <2>3. 0 \in 0..n
    BY <1>1
  <2> QED BY <2>2, <2>3
<1>3. ASSUME NEW i \in 1..n, i - 1 \in P PROVE i \in P
  <2>1. /\ SubSeq(s, 1, i) = Append(SubSeq(s, 1, i - 1), s[i])
        /\ SubSeq(t, 1, i) = Append(SubSeq(t, 1, i - 1), t[i])
    BY <1>1
  <2>2. /\ SubSeq(s, 1, i - 1) \in Seq(Entries) /\ s[i] \in Entries
        /\ SubSeq(t, 1, i - 1) \in Seq(Entries) /\ t[i] \in Entries
    BY <1>1
  <2>3. /\ NoteTexts(SubSeq(s, 1, i)) = NoteAdds(NoteTexts(SubSeq(s, 1, i - 1)), s[i])
        /\ NoteTexts(SubSeq(t, 1, i)) = NoteAdds(NoteTexts(SubSeq(t, 1, i - 1)), t[i])
    BY <2>1, <2>2, NotesAppend
  <2>4. s[i] = t[i] \/ (s[i].kind = "file" /\ t[i].kind = "file")
    BY <1>1
  <2>5. NoteTexts(SubSeq(s, 1, i - 1)) = NoteTexts(SubSeq(t, 1, i - 1))
    BY <1>3
  <2>6. NoteTexts(SubSeq(s, 1, i)) = NoteTexts(SubSeq(t, 1, i))
    BY <2>3, <2>4, <2>5 DEF NoteAdds
  <2>7. i \in 0..n
    BY <1>1
  <2> QED BY <2>6, <2>7
<1>4. n \in P
  <2> HIDE DEF P
  <2>1. \A i \in 0..n : i \in P
    BY <1>1, <1>2, <1>3, UpTo
  <2> QED BY <1>1, <2>1
<1>5. SubSeq(s, 1, n) = s /\ SubSeq(t, 1, n) = t
  <2>1. SubSeq(s, 1, Len(s)) = s /\ SubSeq(t, 1, Len(t)) = t
    OBVIOUS
  <2> QED BY <2>1
<1> QED BY <1>4, <1>5
-----------------------------------------------------------------------------
(* What a call holds, and what it must hold to take its next step.         *)
MaybeText == Contents \union {""}
MaybeFile == Files \union {0}

LEMMA NoneIn == DOMAIN <<>> = {}
OBVIOUS

LEMMA Maybe ==
  /\ Contents \subseteq MaybeText /\ "" \in MaybeText
  /\ Files \subseteq MaybeFile /\ 0 \in MaybeFile
BY Zenon DEF MaybeText, MaybeFile

Parts == {"index", "notes", "files", "text", "src", "pack"}

Holds(r) ==
  /\ DOMAIN r = Parts
  /\ r.index \in Seq(Entries) /\ r.notes \in Seq(Contents) /\ r.files \subseteq Files
  /\ r.text \in MaybeText /\ r.src \in MaybeFile
  /\ \A k \in DOMAIN r.pack : FitsBudgets(r.pack[k]) /\ FlagIsTrue(r.pack[k])

CallFits(c, step, r, packets) ==
  /\ Holds(r)
  /\ step \in {"noteLooks", "fileLooks", "reread"} => r.text \in Contents
  /\ step = "noteLooks" => r.src = 0
  /\ step = "fileLooks" => r.src \in Files
  /\ step = "log" => c \in packets

CallSteps == {"idle", "noteLooks", "fileLooks", "reread", "put", "mirror",
              "record", "scan", "compile", "artifact", "log", "over"}

ContextTyped ==
  /\ disk \in Disks /\ denied \subseteq Files /\ diet \in Diet
  /\ index \in Seq(Entries) /\ notes \in Seq(Contents) /\ files \subseteq Files
  /\ artifacts \subseteq Calls /\ ledger \subseteq {"user.note", "packet"} \X Calls
  /\ pc \in [Calls -> CallSteps]
  /\ DOMAIN seen = Calls
  /\ \A c \in Calls : CallFits(c, pc[c], seen[c], artifacts)
  /\ \A c \in Calls : <<"packet", c>> \in ledger => c \in artifacts
  /\ inTurn \in BOOLEAN /\ edits \in Nat /\ callDeaths \in Nat
  /\ edits = 0 => denied = {}

LEMMA NothingHeld ==
  ASSUME NEW c, NEW step \in {"idle", "over", "scan", "compile"}, NEW packets
  PROVE  CallFits(c, step, Nothing, packets)
<1> DEFINE r == Nothing
<1>1. r.index = <<>> /\ r.notes = <<>> /\ r.files = {} /\ r.text = "" /\ r.src = 0 /\ r.pack = <<>> /\ DOMAIN r = Parts
  BY DEF Nothing, Held, Parts
<1> HIDE DEF r
<1>0. DOMAIN r.pack = {}
  BY <1>1, NoneIn, Zenon
<1>2. CallFits(c, step, r, packets)
  <2>0. <<>> \in Seq(Entries) /\ <<>> \in Seq(Contents) /\ {} \subseteq Files
    OBVIOUS
  <2>1. Holds(r)
    BY <1>0, <1>1, <2>0, Maybe, Zenon DEF Holds
  <2> QED BY <2>1 DEF CallFits
<1> QED BY <1>2 DEF r

LEMMA ContextTypedInit == InitContext => ContextTyped
<1> SUFFICES ASSUME InitContext PROVE ContextTyped
  OBVIOUS
<1>1. disk \in Disks /\ diet \in Diet
  BY ContextAssumption DEF InitContext, Disks
<1>2. /\ denied \subseteq Files /\ index \in Seq(Entries) /\ notes \in Seq(Contents) /\ files \subseteq Files
      /\ artifacts \subseteq Calls /\ ledger \subseteq {"user.note", "packet"} \X Calls
      /\ inTurn \in BOOLEAN /\ edits \in Nat /\ callDeaths \in Nat /\ denied = {}
  BY DEF InitContext
<1>3. pc \in [Calls -> CallSteps] /\ DOMAIN seen = Calls
  BY DEF InitContext, CallSteps
<1>4. \A c \in Calls : CallFits(c, pc[c], seen[c], artifacts)
  BY NothingHeld DEF InitContext
<1>5. \A c \in Calls : <<"packet", c>> \notin ledger
  BY DEF InitContext
<1> QED BY <1>1, <1>2, <1>3, <1>4, <1>5 DEF ContextTyped

LEMMA LeastIs == ASSUME NEW S, S \subseteq Nat, S # {} PROVE Least(S) \in S
BY Lowest DEF Least

LEMMA NewEntries ==
  ASSUME NEW text \in Contents, NEW dup \in Nat, NEW f \in Files
  PROVE  NoteEntry(text, dup) \in Entries /\ FileEntry(f, text, dup) \in Entries
BY DEF NoteEntry, FileEntry, Entries, Entry

LEMMA EntryParts ==
  ASSUME ContextTyped, NEW i \in DOMAIN index
  PROVE  index[i] \in Entries /\ index[i].src \in Nat /\ index[i].dup \in Nat /\ i \in Nat
         /\ index[i].text \in Contents /\ index[i].kind \in {"note", "file"}
         /\ (index[i].kind = "file" => index[i].src \in Files)
<1>1. index \in Seq(Entries)
  BY DEF ContextTyped
<1>2. index[i] \in Entries /\ i \in Nat
  BY <1>1
<1>3. /\ index[i].src \in Files \union {0} /\ index[i].dup \in Nat /\ index[i].text \in Contents
      /\ index[i].kind \in {"note", "file"} /\ (index[i].kind = "file" => index[i].src \in Files)
  BY <1>2 DEF Entries, Entry
<1>4. Files \subseteq Nat /\ 0 \in Nat
  BY PacketAssumption
<1> QED BY <1>2, <1>3, <1>4

(* The step a call took, and what it holds now.                            *)
Took(c, step, r) ==
  /\ pc' = [pc EXCEPT ![c] = step] /\ step \in CallSteps
  /\ DOMAIN seen' = Calls /\ seen'[c] = r /\ \A d \in Calls \ {c} : seen'[d] = seen[d]
  /\ CallFits(c, step, r, artifacts')

LEMMA HeldFits ==
  ASSUME NEW ix \in Seq(Entries), NEW ns \in Seq(Contents), NEW fs, fs \subseteq Files,
         NEW text \in MaybeText, NEW src \in MaybeFile
  PROVE  Holds(Held(ix, ns, fs, text, src)) /\ Held(ix, ns, fs, text, src).text = text /\ Held(ix, ns, fs, text, src).src = src
<1> DEFINE r == Held(ix, ns, fs, text, src)
<1>1. r.index = ix /\ r.notes = ns /\ r.files = fs /\ r.text = text /\ r.src = src /\ r.pack = <<>> /\ DOMAIN r = Parts
  BY DEF Held, Parts
<1> HIDE DEF r
<1>0. DOMAIN r.pack = {}
  BY <1>1, NoneIn, Zenon
<1>2. Holds(r) /\ r.text = text /\ r.src = src
  BY <1>0, <1>1 DEF Holds
<1> QED BY <1>2 DEF r

(* A call takes a step and holds r.                                        *)
LEMMA TookHeld ==
  ASSUME ContextTyped, NEW c \in Calls, NEW r, NEW step \in CallSteps,
         seen' = [seen EXCEPT ![c] = r], Goto(c, step), CallFits(c, step, r, artifacts')
  PROVE  Took(c, step, r)
BY DEF ContextTyped, Goto, Took

(* A call takes a step and holds what it held.                             *)
LEMMA TookSame ==
  ASSUME ContextTyped, NEW c \in Calls, NEW step \in CallSteps,
         seen' = seen, Goto(c, step), CallFits(c, step, seen[c], artifacts')
  PROVE  Took(c, step, seen[c])
BY DEF ContextTyped, Goto, Took

(* A call takes a step and holds another index.                            *)
LEMMA TookIndex ==
  ASSUME ContextTyped, NEW c \in Calls, NEW ix \in Seq(Entries),
         seen' = [seen EXCEPT ![c].index = ix], Goto(c, "put")
  PROVE  /\ Took(c, "put", seen'[c])
         /\ seen'[c].index = ix /\ seen'[c].notes = seen[c].notes /\ seen'[c].files = seen[c].files
         /\ seen'[c].text = seen[c].text /\ seen'[c].src = seen[c].src
<1>1. DOMAIN seen = Calls /\ DOMAIN seen[c] = Parts /\ Holds(seen[c])
  BY DEF ContextTyped, CallFits, Holds
<1> DEFINE r == [seen[c] EXCEPT !.index = ix]
<1>2. DOMAIN seen' = Calls /\ seen'[c] = r /\ \A d \in Calls : d # c => seen'[d] = seen[d]
  BY <1>1
<1>3. /\ DOMAIN r = Parts /\ r.index = ix /\ r.notes = seen[c].notes /\ r.files = seen[c].files
      /\ r.text = seen[c].text /\ r.src = seen[c].src /\ r.pack = seen[c].pack
  BY <1>1 DEF Parts
<1> HIDE DEF r
<1>4. Holds(r)
  BY <1>1, <1>3 DEF Holds
<1>5. CallFits(c, "put", r, artifacts')
  BY <1>4 DEF CallFits
<1>6. Took(c, "put", r)
  BY <1>2, <1>5 DEF Took, Goto, CallSteps
<1> QED BY <1>2, <1>3, <1>6

(* A command begins.                                                       *)
LEMMA BeginsTakes ==
  ASSUME ContextTyped, NEW c \in Calls, Command(c)
  PROVE  /\ artifacts' = artifacts
         /\ \E r : \E step \in {"noteLooks", "fileLooks", "over", "scan", "compile"} : Took(c, step, r)
<1> USE DEF CallSteps
<1>0. artifacts' = artifacts
  BY DEF Command, NoteReads, FileReads, PruneReads, PackReads
<1>1. notes \in Seq(Contents) /\ files \subseteq Files /\ index \in Seq(Entries)
  BY DEF ContextTyped
<1>2. ASSUME NEW text \in Contents, NoteReads(c, text)
      PROVE  \E r : Took(c, "noteLooks", r)
  <2> DEFINE r == Held(<<>>, Append(notes, text), files, text, 0)
  <2>1. Holds(r) /\ r.text = text /\ r.src = 0
    <3>1. <<>> \in Seq(Entries) /\ Append(notes, text) \in Seq(Contents)
      BY <1>1
    <3>2. 0 \in MaybeFile /\ text \in MaybeText
      BY Maybe
    <3>3. Holds(r)
      BY <1>1, <3>1, <3>2, HeldFits, Zenon
    <3> QED BY <3>3 DEF Held
  <2>2. seen' = [seen EXCEPT ![c] = r] /\ Goto(c, "noteLooks")
    BY <1>2 DEF NoteReads
  <2> HIDE DEF r
  <2>3. CallFits(c, "noteLooks", r, artifacts')
    BY <2>1 DEF CallFits
  <2> QED BY <2>2, <2>3, TookHeld
<1>3. ASSUME NEW f \in Files, FileReads(c, f), Unreadable(f, disk, denied)
      PROVE  \E r : Took(c, "over", r)
  <2>1. Goto(c, "over") /\ seen' = seen
    BY <1>3 DEF FileReads
  <2>2. CallFits(c, "over", seen[c], artifacts')
    BY DEF ContextTyped, CallFits
  <2> QED BY <2>1, <2>2, TookSame
<1>4. ASSUME NEW f \in Files, FileReads(c, f), ~Unreadable(f, disk, denied)
      PROVE  \E r : Took(c, "fileLooks", r)
  <2> DEFINE r == Held(<<>>, notes, files \union {f}, disk[f], f)
  <2>1. disk[f] \in Contents
    BY <1>4 DEF ContextTyped, Disks, Unreadable
  <2>2. Holds(r) /\ r.text = disk[f] /\ r.src = f
    <3>1. <<>> \in Seq(Entries) /\ files \union {f} \subseteq Files
      BY <1>1
    <3>2. f \in MaybeFile /\ disk[f] \in MaybeText
      BY <2>1, Maybe
    <3>3. Holds(r)
      BY <1>1, <3>1, <3>2, HeldFits, Zenon
    <3> QED BY <3>3 DEF Held
  <2>3. seen' = [seen EXCEPT ![c] = r] /\ Goto(c, "fileLooks")
    BY <1>4 DEF FileReads
  <2> HIDE DEF r
  <2>4. CallFits(c, "fileLooks", r, artifacts')
    BY <2>1, <2>2 DEF CallFits
  <2> QED BY <2>3, <2>4, TookHeld
<1>5. ASSUME NEW step \in {"scan", "compile"},
             seen' = [seen EXCEPT ![c] = Held(index, <<>>, {}, "", 0)],
             Goto(c, step)
      PROVE  \E r : Took(c, step, r)
  <2> DEFINE r == Held(index, <<>>, {}, "", 0)
  <2>0. <<>> \in Seq(Contents) /\ {} \subseteq Files
    OBVIOUS
  <2>1. Holds(r)
    BY <1>1, <2>0, Maybe, HeldFits, Zenon
  <2>2. seen' = [seen EXCEPT ![c] = r]
    BY <1>5
  <2> HIDE DEF r
  <2>3. CallFits(c, step, r, artifacts')
    BY <2>1 DEF CallFits
  <2>4. step \in CallSteps
    OBVIOUS
  <2>5. Took(c, step, r)
    BY <1>5, <2>2, <2>3, <2>4, TookHeld, Zenon
  <2> QED BY <2>5
<1>6. CASE PruneReads(c)
  <2>1. \E r : Took(c, "scan", r)
    BY <1>5, <1>6 DEF PruneReads
  <2> QED BY <1>0, <2>1
<1>7. CASE PackReads(c)
  <2>1. \E r : Took(c, "compile", r)
    BY <1>5, <1>7 DEF PackReads
  <2> QED BY <1>0, <2>1
<1>8. CASE \E text \in Contents : NoteReads(c, text)
  BY <1>0, <1>2, <1>8
<1>9. CASE \E f \in Files : FileReads(c, f)
  BY <1>0, <1>3, <1>4, <1>9
<1> QED BY <1>6, <1>7, <1>8, <1>9 DEF Command

(* A command that adds to the index has a whole index to write.            *)
LEMMA LooksTakes ==
  ASSUME ContextTyped, NEW c \in Calls, NoteLooks(c) \/ FileLooks(c) \/ Reread(c)
  PROVE  \E r : \E step \in {"reread", "put"} : Took(c, step, r)
<1> USE DEF CallSteps
<1>1. index \in Seq(Entries) /\ Holds(seen[c]) /\ artifacts' = artifacts
  BY DEF ContextTyped, CallFits, NoteLooks, FileLooks, Reread
<1>2. seen[c].text \in Contents
  BY DEF ContextTyped, CallFits, NoteLooks, FileLooks, Reread
<1>3. ASSUME NEW ix \in Seq(Entries), seen' = [seen EXCEPT ![c].index = ix], Goto(c, "put")
      PROVE  Took(c, "put", seen'[c])
  BY <1>3, TookIndex
<1>4. ASSUME seen' = seen, Goto(c, "reread")
      PROVE  Took(c, "reread", seen[c])
  <2>1. CallFits(c, "reread", seen[c], artifacts')
    BY <1>1, <1>2 DEF CallFits
  <2> QED BY <1>4, <2>1, TookSame
<1>5. \A S \in SUBSET DOMAIN index : S # {} => Least(S) \in S /\ Least(S) \in Nat /\ index[Least(S)].src \in Nat
  <2>1. ASSUME NEW S \in SUBSET DOMAIN index, S # {} PROVE Least(S) \in S
    BY <1>1, <2>1, LeastIs
  <2>2. ASSUME NEW i \in DOMAIN index PROVE i \in Nat /\ index[i].src \in Nat
    BY EntryParts
  <2> QED BY <2>1, <2>2
<1>6. ASSUME NoteLooks(c) PROVE \E r : \E step \in {"reread", "put"} : Took(c, step, r)
  <2> DEFINE same == Canonical("note", seen[c].text)
             ix == Append(index, NoteEntry(seen[c].text, Least(same)))
  <2>1. CASE same # {}
    <3>1. Least(same) \in Nat
      BY <1>5, <2>1 DEF Canonical
    <3>2. NoteEntry(seen[c].text, Least(same)) \in Entries
      BY <1>2, <3>1 DEF NoteEntry, Entries, Entry
    <3>3. ix \in Seq(Entries)
      BY <1>1, <3>2
    <3>4. seen' = [seen EXCEPT ![c].index = ix] /\ Goto(c, "put")
      BY <1>6, <2>1 DEF NoteLooks
    <3> QED BY <1>3, <3>3, <3>4
  <2>2. CASE same = {}
    BY <1>4, <1>6, <2>2 DEF NoteLooks
  <2> QED BY <2>1, <2>2
<1>7. ASSUME FileLooks(c) PROVE \E r : \E step \in {"reread", "put"} : Took(c, step, r)
  <2> DEFINE f == seen[c].src
             text == seen[c].text
             path == SamePath(index, f)
             same == Canonical("file", text)
  <2>0. f \in Files
    BY <1>7 DEF FileLooks, ContextTyped, CallFits
  <2>1. CASE path # {}
    <3> DEFINE ix == [index EXCEPT ![Least(path)] = FileEntry(f, text, 0)]
    <3>1. Least(path) \in DOMAIN index
      BY <1>5, <2>1 DEF SamePath
    <3>2. FileEntry(f, text, 0) \in Entries
      BY <1>2, <2>0, NewEntries
    <3>3. ix \in Seq(Entries)
      BY <1>1, <3>1, <3>2
    <3>4. seen' = [seen EXCEPT ![c].index = ix] /\ Goto(c, "put")
      BY <1>7, <2>1 DEF FileLooks
    <3> QED BY <1>3, <3>3, <3>4
  <2>2. CASE path = {} /\ same # {}
    <3> DEFINE ix == Append(index, FileEntry(f, text, index[Least(same)].src))
    <3>1. index[Least(same)].src \in Nat
      BY <1>5, <2>2 DEF Canonical
    <3>2. FileEntry(f, text, index[Least(same)].src) \in Entries
      BY <1>2, <2>0, <3>1, NewEntries
    <3>3. ix \in Seq(Entries)
      BY <1>1, <3>2
    <3>4. seen' = [seen EXCEPT ![c].index = ix] /\ Goto(c, "put")
      BY <1>7, <2>2 DEF FileLooks
    <3> QED BY <1>3, <3>3, <3>4
  <2>3. CASE path = {} /\ same = {}
    BY <1>4, <1>7, <2>3 DEF FileLooks
  <2> QED BY <2>1, <2>2, <2>3
<1>8. ASSUME Reread(c) PROVE \E r : \E step \in {"reread", "put"} : Took(c, step, r)
  <2> DEFINE r == seen[c]
             others == Without(index, {e \in Range(index) : e.kind = "file" /\ e.src = r.src})
             ix == IF r.src = 0 THEN Append(index, NoteEntry(r.text, 0))
                                ELSE Append(others, FileEntry(r.src, r.text, 0))
  <2>1. others \in Seq(Entries)
    BY <1>1, WithoutAppends
  <2>2. r.src # 0 => FileEntry(r.src, r.text, 0) \in Entries
    <3>1. r.src # 0 => r.src \in Files
      BY <1>1 DEF Holds, MaybeFile
    <3> QED BY <1>2, <3>1, NewEntries
  <2>3. NoteEntry(r.text, 0) \in Entries
    BY <1>2 DEF NoteEntry, Entries, Entry
  <2> HIDE DEF others
  <2>4. ix \in Seq(Entries)
    BY <1>1, <2>1, <2>2, <2>3
  <2>5. seen' = [seen EXCEPT ![c].index = ix] /\ Goto(c, "put")
    BY <1>8 DEF Reread, others
  <2> QED BY <1>3, <2>4, <2>5
<1> QED BY <1>6, <1>7, <1>8

(* Nobody else is disturbed.                                               *)
LEMMA TookKeeps ==
  ASSUME ContextTyped, NEW c \in Calls, NEW step, NEW r, Took(c, step, r), artifacts \subseteq artifacts'
  PROVE  /\ pc' \in [Calls -> CallSteps] /\ DOMAIN seen' = Calls
         /\ \A d \in Calls : CallFits(d, pc'[d], seen'[d], artifacts')
<1>1. pc' \in [Calls -> CallSteps] /\ pc'[c] = step /\ \A d \in Calls \ {c} : pc'[d] = pc[d]
  BY DEF ContextTyped, Took
<1>2. ASSUME NEW d \in Calls \ {c} PROVE CallFits(d, pc'[d], seen'[d], artifacts')
  <2>1. CallFits(d, pc[d], seen[d], artifacts)
    BY DEF ContextTyped
  <2>2. pc'[d] = pc[d] /\ seen'[d] = seen[d]
    BY <1>1 DEF Took
  <2>3. CallFits(d, pc[d], seen[d], artifacts')
    BY <2>1 DEF CallFits
  <2> QED BY <2>2, <2>3
<1>3. CallFits(c, pc'[c], seen'[c], artifacts')
  BY <1>1 DEF Took
<1> QED BY <1>1, <1>2, <1>3 DEF Took

(* What the calls share stays typed when it is changed in these ways only. *)
SharedKept ==
  /\ index' \in Seq(Entries) /\ notes' \in Seq(Contents) /\ files' \subseteq Files
  /\ artifacts' \in {artifacts} \union {artifacts \union {c} : c \in Calls}
  /\ \/ ledger' = ledger
     \/ \E c \in Calls : ledger' = ledger \union {<<"user.note", c>>}
     \/ \E c \in artifacts : ledger' = ledger \union {<<"packet", c>>}
  /\ UNCHANGED <<disk, denied, diet, inTurn, edits>> /\ callDeaths' \in Nat

LEMMA CallKeepsTyped ==
  ASSUME ContextTyped, NEW c \in Calls, NEW step, NEW r, Took(c, step, r), SharedKept
  PROVE  ContextTyped'
<1>1. artifacts \subseteq artifacts' /\ artifacts' \subseteq Calls
  BY DEF ContextTyped, SharedKept
<1>2. /\ pc' \in [Calls -> CallSteps] /\ DOMAIN seen' = Calls
      /\ \A d \in Calls : CallFits(d, pc'[d], seen'[d], artifacts')
  BY <1>1, TookKeeps
<1>3. ledger \subseteq {"user.note", "packet"} \X Calls /\ artifacts \subseteq Calls
  BY DEF ContextTyped
<1>4. ledger' \subseteq {"user.note", "packet"} \X Calls
  BY <1>3 DEF SharedKept
<1>5. \A d \in Calls : <<"packet", d>> \in ledger' => d \in artifacts'
  <2>1. \A d \in Calls : <<"packet", d>> \in ledger => d \in artifacts'
    BY <1>1 DEF ContextTyped
  <2>2. \A d, e : <<"packet", d>> # <<"user.note", e>> /\ (<<"packet", d>> = <<"packet", e>> => d = e)
    OBVIOUS
  <2> QED BY <1>1, <2>1, <2>2 DEF SharedKept
<1>6. /\ disk' \in Disks /\ denied' \subseteq Files /\ diet' \in Diet
      /\ inTurn' \in BOOLEAN /\ edits' \in Nat /\ callDeaths' \in Nat /\ (edits' = 0 => denied' = {})
      /\ index' \in Seq(Entries) /\ notes' \in Seq(Contents) /\ files' \subseteq Files
  BY DEF ContextTyped, SharedKept
<1> QED BY <1>1, <1>2, <1>4, <1>5, <1>6 DEF ContextTyped

(* A call is over and holds nothing any more.                              *)
LEMMA Leaves ==
  ASSUME ContextTyped, NEW c \in Calls, seen' = [seen EXCEPT ![c] = Nothing], Goto(c, "over")
  PROVE  Took(c, "over", Nothing)
<1>1. CallFits(c, "over", Nothing, artifacts') /\ "over" \in CallSteps
  BY NothingHeld DEF CallSteps
<1> QED BY <1>1, TookHeld

LEMMA PutTakes ==
  ASSUME ContextTyped, NEW c \in Calls, Put(c)
  PROVE  SharedKept /\ \E step, r : Took(c, step, r)
<1>1. Holds(seen[c])
  BY DEF ContextTyped, CallFits
<1>2. SharedKept
  <2>1. index' \in Seq(Entries)
    BY <1>1 DEF Put, Holds
  <2> QED BY <2>1 DEF ContextTyped, SharedKept, Put, mission, contextWorld
<1>3. Took(c, "mirror", seen[c])
  <2>1. CallFits(c, "mirror", seen[c], artifacts') /\ "mirror" \in CallSteps
    BY <1>1 DEF CallFits, CallSteps
  <2> QED BY <2>1, TookSame DEF Put
<1> QED BY <1>2, <1>3

LEMMA MirrorTakes ==
  ASSUME ContextTyped, NEW c \in Calls, MirrorMission(c)
  PROVE  SharedKept /\ \E step, r : Took(c, step, r)
<1>1. Holds(seen[c])
  BY DEF ContextTyped, CallFits
<1>2. SharedKept
  <2>1. notes' \in Seq(Contents) /\ files' \subseteq Files
    BY <1>1 DEF MirrorMission, Holds
  <2> QED BY <2>1 DEF ContextTyped, SharedKept, MirrorMission, contextWorld
<1>3. CASE seen[c].text = ""
  <2>1. Took(c, "over", Nothing)
    BY <1>3, Leaves DEF MirrorMission
  <2> QED BY <1>2, <2>1
<1>4. CASE seen[c].text # ""
  <2>1. CallFits(c, "record", seen[c], artifacts') /\ "record" \in CallSteps
    BY <1>1 DEF CallFits, CallSteps
  <2>2. Took(c, "record", seen[c])
    BY <1>4, <2>1, TookSame DEF MirrorMission
  <2> QED BY <1>2, <2>2
<1> QED BY <1>3, <1>4

LEMMA ScanTakes ==
  ASSUME ContextTyped, NEW c \in Calls, PruneScan(c)
  PROVE  SharedKept /\ \E step, r : Took(c, step, r)
<1> DEFINE stale == StaleSources(index)
           gone == {e \in Range(seen[c].index) : e.kind = "file" /\ (e.src \in stale \/ e.dup \in stale)}
           next == Without(seen[c].index, gone)
           r == Held(next, notes, files \ stale, "", 0)
<1>1. seen[c].index \in Seq(Entries) /\ notes \in Seq(Contents) /\ files \subseteq Files
  BY DEF ContextTyped, CallFits, Holds
<1>2. SharedKept
  BY DEF ContextTyped, SharedKept, PruneScan, mission, contextWorld
<1>3. CASE Throws(index) \/ Len(next) = Len(seen[c].index)
  <2>1. Took(c, "over", Nothing)
    BY <1>3, Leaves DEF PruneScan
  <2> QED BY <1>2, <2>1
<1>4. CASE ~(Throws(index) \/ Len(next) = Len(seen[c].index))
  <2>1. seen' = [seen EXCEPT ![c] = r] /\ Goto(c, "put")
    BY <1>4 DEF PruneScan
  <2>2. next \in Seq(Entries)
    <3> HIDE DEF gone
    <3> QED BY <1>1, WithoutAppends
  <2>3. files \ stale \subseteq Files
    BY <1>1
  <2> HIDE DEF stale, next
  <2>4. Holds(r)
    BY <1>1, <2>2, <2>3, Maybe, HeldFits, Zenon
  <2> HIDE DEF r
  <2>5. CallFits(c, "put", r, artifacts') /\ "put" \in CallSteps
    BY <2>4 DEF CallFits, CallSteps
  <2>6. Took(c, "put", r)
    BY <2>1, <2>5, TookHeld
  <2> QED BY <1>2, <2>6
<1> QED BY <1>3, <1>4

LEMMA CompileTakes ==
  ASSUME ContextTyped, NEW c \in Calls, PackCompiles(c)
  PROVE  SharedKept /\ \E step, r : Took(c, step, r)
<1> DEFINE p == Compile(seen[c].index, notes, disk, denied, Committed, diet)
           r == [seen[c] EXCEPT !.pack = <<p>>]
<1>1. Holds(seen[c]) /\ DOMAIN seen = Calls /\ DOMAIN seen[c] = Parts
  BY DEF ContextTyped, CallFits, Holds
<1>2. SharedKept
  BY DEF ContextTyped, SharedKept, PackCompiles, mission, contextWorld
<1>3. FitsBudgets(p) /\ FlagIsTrue(p)
  <2>1. seen[c].index \in Seq(Entries) /\ notes \in Seq(Contents) /\ disk \in Disks
    BY <1>1 DEF ContextTyped, Holds
  <2> QED BY <2>1, CompiledIsTrue
<1>4. seen' = [seen EXCEPT ![c].pack = <<p>>] /\ Goto(c, "artifact")
  BY DEF PackCompiles
<1> HIDE DEF p
<1>5. DOMAIN seen' = Calls /\ seen'[c] = r /\ \A d \in Calls : d # c => seen'[d] = seen[d]
  BY <1>1, <1>4
<1>6. /\ DOMAIN r = Parts /\ r.index = seen[c].index /\ r.notes = seen[c].notes /\ r.files = seen[c].files
      /\ r.text = seen[c].text /\ r.src = seen[c].src /\ r.pack = <<p>>
  BY <1>1 DEF Parts
<1> HIDE DEF r
<1>7. \A k \in DOMAIN r.pack : r.pack[k] = p
  BY <1>6
<1>8. Holds(r)
  BY <1>1, <1>3, <1>6, <1>7 DEF Holds
<1>9. Took(c, "artifact", r)
  <2>1. CallFits(c, "artifact", r, artifacts')
    BY <1>8 DEF CallFits
  <2> QED BY <1>4, <1>5, <2>1 DEF Took, Goto, CallSteps
<1> QED BY <1>2, <1>9

LEMMA EndTakes ==
  ASSUME ContextTyped, NEW c \in Calls,
         Record(c) \/ WriteArtifact(c) \/ LogPacket(c) \/ CallDies(c)
  PROVE  SharedKept /\ \E step, r : Took(c, step, r)
<1>1. Holds(seen[c]) /\ (pc[c] = "log" => c \in artifacts)
  BY DEF ContextTyped, CallFits
<1>2. CASE Record(c)
  <2>1. SharedKept
    BY <1>2 DEF ContextTyped, SharedKept, Record, mission, contextWorld
  <2>2. Took(c, "over", Nothing)
    BY <1>2, Leaves DEF Record
  <2> QED BY <2>1, <2>2
<1>3. CASE LogPacket(c)
  <2>1. SharedKept
    BY <1>1, <1>3 DEF ContextTyped, SharedKept, LogPacket, mission, contextWorld
  <2>2. Took(c, "over", Nothing)
    BY <1>3, Leaves DEF LogPacket
  <2> QED BY <2>1, <2>2
<1>4. CASE CallDies(c)
  <2>1. SharedKept
    BY <1>4 DEF ContextTyped, SharedKept, CallDies, mission, contextWorld
  <2>2. Took(c, "over", Nothing)
    BY <1>4, Leaves DEF CallDies
  <2> QED BY <2>1, <2>2
<1>5. CASE WriteArtifact(c)
  <2>1. SharedKept
    BY <1>5 DEF ContextTyped, SharedKept, WriteArtifact, mission, contextWorld
  <2>2. c \in artifacts' /\ seen' = seen /\ Goto(c, "log")
    BY <1>5 DEF WriteArtifact
  <2>3. CallFits(c, "log", seen[c], artifacts') /\ "log" \in CallSteps
    BY <1>1, <2>2 DEF CallFits, CallSteps
  <2>4. Took(c, "log", seen[c])
    BY <2>2, <2>3, TookSame
  <2> QED BY <2>1, <2>4
<1> QED BY <1>2, <1>3, <1>4, <1>5

LEMMA BeginShares ==
  ASSUME ContextTyped, NEW c \in Calls, Command(c) \/ NoteLooks(c) \/ FileLooks(c) \/ Reread(c)
  PROVE  SharedKept /\ \E step, r : Took(c, step, r)
<1>1. UNCHANGED <<index, mission, artifacts, ledger, contextWorld>>
  BY DEF Command, NoteReads, FileReads, PruneReads, PackReads, NoteLooks, FileLooks, Reread
<1>2. SharedKept
  BY <1>1 DEF ContextTyped, SharedKept, mission, contextWorld
<1>3. CASE Command(c)
  BY <1>2, <1>3, BeginsTakes
<1>4. CASE NoteLooks(c) \/ FileLooks(c) \/ Reread(c)
  BY <1>2, <1>4, LooksTakes
<1> QED BY <1>3, <1>4

LEMMA WorkspaceKeepsTyped ==
  ASSUME ContextTyped, NEW f \in Files,
         Deny(f) \/ \E text \in Contents \union {"absent"} : Edit(f, text)
  PROVE  ContextTyped'
<1>1. UNCHANGED <<diet, index, notes, files, artifacts, ledger, pc, seen, inTurn, callDeaths>>
  BY DEF Deny, Edit, mission
<1>2. disk' \in Disks /\ denied' \subseteq Files
  <2>1. CASE Deny(f)
    BY <2>1 DEF Deny, ContextTyped
  <2>2. ASSUME NEW text \in Contents \union {"absent"}, Edit(f, text)
        PROVE  disk' \in Disks /\ denied' \subseteq Files
    BY <2>2 DEF Edit, ContextTyped, Disks
  <2> QED BY <2>1, <2>2
<1>3. edits' \in Nat /\ edits' # 0
  <2>1. edits \in Nat /\ edits' = edits + 1
    BY DEF ContextTyped, Deny, Edit
  <2> QED BY <2>1
<1>4. \A c \in Calls : CallFits(c, pc'[c], seen'[c], artifacts')
  BY <1>1 DEF ContextTyped
<1> QED BY <1>1, <1>2, <1>3, <1>4 DEF ContextTyped

LEMMA ContextTypedNext == ContextTyped /\ [NextContext]_contextVars => ContextTyped'
<1> SUFFICES ASSUME ContextTyped, [NextContext]_contextVars PROVE ContextTyped'
  OBVIOUS
<1>1. ASSUME NEW c \in Calls,
             \/ Command(c)
             \/ NoteLooks(c) \/ FileLooks(c) \/ Reread(c) \/ Put(c) \/ MirrorMission(c) \/ Record(c)
             \/ PruneScan(c) \/ PackCompiles(c) \/ WriteArtifact(c) \/ LogPacket(c)
             \/ CallDies(c)
      PROVE  ContextTyped'
  <2>1. SharedKept /\ \E step, r : Took(c, step, r)
    BY <1>1, BeginShares, PutTakes, MirrorTakes, ScanTakes, CompileTakes, EndTakes
  <2> QED BY <2>1, CallKeepsTyped
<1>2. ASSUME NEW f \in Files, Deny(f) \/ \E text \in Contents \union {"absent"} : Edit(f, text)
      PROVE  ContextTyped'
  BY <1>2, WorkspaceKeepsTyped
<1>3. ASSUME UNCHANGED contextVars PROVE ContextTyped'
  <2>1. UNCHANGED <<disk, denied, diet, index, notes, files, artifacts, ledger, pc, seen, inTurn,
                    edits, callDeaths>>
    BY <1>3 DEF contextVars
  <2>2. \A c \in Calls : CallFits(c, pc'[c], seen'[c], artifacts')
    BY <2>1 DEF ContextTyped
  <2> QED BY <2>1, <2>2 DEF ContextTyped
<1> QED BY <1>1, <1>2, <1>3 DEF NextContext

LEMMA ContextAlwaysTyped == ContextSpec => []ContextTyped
BY ContextTypedInit, ContextTypedNext, PTL DEF ContextSpec

(* Every variable of the mission's context keeps its type.                 *)
THEOREM ContextTypeCorrect == ContextSpec => []ContextTypeOK
<1>1. ContextTyped => ContextTypeOK
  BY DEF ContextTyped, ContextTypeOK, Disks, Entries, CallSteps
<1> QED BY <1>1, ContextAlwaysTyped, PTL

(* Whatever overlaps, every packet keeps both budgets and wastes no room.  *)
THEOREM EveryPackFits == ContextSpec => []PackFits
<1>1. ContextTyped => PackFits
  BY DEF ContextTyped, CallFits, Holds, PackFits
<1> QED BY <1>1, ContextAlwaysTyped, PTL

(* Whatever overlaps, a packet with anything sensitive in it says so.      *)
THEOREM EveryFlagCovers == ContextSpec => []FlagCoversPack
<1>1. ContextTyped => FlagCoversPack
  BY DEF ContextTyped, CallFits, Holds, FlagCoversPack
<1> QED BY <1>1, ContextAlwaysTyped, PTL

(* A packet the ledger names has its artifact.                             *)
THEOREM LoggedPacketExists == ContextSpec => []LoggedHasArtifact
<1>1. ContextTyped => LoggedHasArtifact
  BY DEF ContextTyped, LoggedHasArtifact
<1> QED BY <1>1, ContextAlwaysTyped, PTL
-----------------------------------------------------------------------------
(* An index as the mission's lists describe it: the notes in their order,  *)
(* files that are on the list, and repetitions with an original; while     *)
(* nothing was edited, also the text each file still has.                  *)
Whole(ix, ns, fs, dk, ed) ==
  /\ NoteTexts(ix) = ns
  /\ \A e \in Range(ix) : e.kind = "file" => e.src \in fs
  /\ \A e \in Range(ix) : e.kind = "file" /\ e.dup # 0 =>
       \E o \in Range(ix) : o.kind = "file" /\ o.src = e.dup /\ o.dup = 0
  /\ ed = 0 => \A e \in Range(ix) :
       /\ e.kind = "file" => e.text = dk[e.src]
       /\ \E o \in Range(ix) : o.kind = e.kind /\ o.text = e.text /\ o.dup = 0

(* The entry o that e repeats.                                             *)
Stands(o, e) ==
  /\ o.kind = e.kind /\ o.text = e.text /\ o.dup = 0
  /\ e.kind = "file" => o.src = e.dup

LEMMA RangeTypes ==
  ASSUME NEW ix \in Seq(Entries)
  PROVE  /\ Range(ix) \subseteq Entries
         /\ \A i \in DOMAIN ix : ix[i] \in Range(ix) /\ ix[i] \in Entries
BY DEF Range

LEMMA NewEntryIs ==
  ASSUME NEW text, NEW dup, NEW f
  PROVE  /\ NoteEntry(text, dup).kind = "note" /\ NoteEntry(text, dup).text = text /\ NoteEntry(text, dup).dup = dup
         /\ FileEntry(f, text, dup).kind = "file" /\ FileEntry(f, text, dup).src = f
         /\ FileEntry(f, text, dup).text = text /\ FileEntry(f, text, dup).dup = dup
BY DEF NoteEntry, FileEntry

(* Append(ix, e) is whole when e is.                                       *)
LEMMA WholeAppends ==
  ASSUME NEW ix \in Seq(Entries), NEW ns \in Seq(Contents), NEW fs, NEW dk, NEW ed, Whole(ix, ns, fs, dk, ed),
         NEW e \in Entries, NEW gs,
         e.kind = "note" => gs = fs,
         e.kind = "file" => gs = fs \union {e.src},
         e.kind = "file" /\ ed = 0 => e.text = dk[e.src],
         e.dup # 0 => \E o \in Range(ix) : Stands(o, e)
  PROVE  Whole(Append(ix, e), NoteAdds(ns, e), gs, dk, ed)
<1> DEFINE new == Append(ix, e)
<1>1. Range(new) = Range(ix) \union {e}
  BY AppendRange
<1>2. NoteTexts(new) = NoteAdds(NoteTexts(ix), e)
  BY NotesAppend
<1>3. e.kind \in {"note", "file"}
  BY DEF Entries, Entry
<1> HIDE DEF new
<1>4. fs \subseteq gs /\ (e.kind = "file" => e.src \in gs)
  BY <1>3
<1>5. NoteTexts(new) = NoteAdds(ns, e)
  BY <1>2 DEF Whole
<1>6. \A x \in Range(new) : x.kind = "file" => x.src \in gs
  BY <1>1, <1>4 DEF Whole
<1>7. ASSUME NEW x \in Range(new), x.kind = "file", x.dup # 0
      PROVE  \E o \in Range(new) : o.kind = "file" /\ o.src = x.dup /\ o.dup = 0
  <2>1. \A o \in Range(ix) : o \in Range(new)
    BY <1>1
  <2>2. CASE x = e
    <3>1. PICK o \in Range(ix) : o.kind = "file" /\ o.src = e.dup /\ o.dup = 0
      BY <1>7, <2>2 DEF Stands
    <3> QED BY <2>1, <2>2, <3>1
  <2>3. CASE x \in Range(ix)
    <3>1. PICK o \in Range(ix) : o.kind = "file" /\ o.src = x.dup /\ o.dup = 0
      BY <1>7, <2>3 DEF Whole
    <3> QED BY <2>1, <3>1
  <2> QED BY <1>1, <2>2, <2>3
<1>8. ASSUME ed = 0, NEW x \in Range(new)
      PROVE  /\ x.kind = "file" => x.text = dk[x.src]
             /\ \E o \in Range(new) : o.kind = x.kind /\ o.text = x.text /\ o.dup = 0
  <2>1. \A o \in Range(ix) : o \in Range(new)
    BY <1>1
  <2>2. CASE x = e
    <3>1. e.dup = 0 => \E o \in Range(new) : o.kind = x.kind /\ o.text = x.text /\ o.dup = 0
      BY <1>1, <2>2
    <3>2. e.dup # 0 => \E o \in Range(new) : o.kind = x.kind /\ o.text = x.text /\ o.dup = 0
      BY <2>1, <2>2 DEF Stands
    <3> QED BY <1>8, <2>2, <3>1, <3>2
  <2>3. CASE x \in Range(ix)
    <3>1. /\ x.kind = "file" => x.text = dk[x.src]
          /\ \E o \in Range(ix) : o.kind = x.kind /\ o.text = x.text /\ o.dup = 0
      BY <1>8, <2>3 DEF Whole
    <3> QED BY <2>1, <3>1
  <2> QED BY <1>1, <2>2, <2>3
<1>9. Whole(new, NoteAdds(ns, e), gs, dk, ed)
  BY <1>5, <1>6, <1>7, <1>8 DEF Whole
<1> QED BY <1>9 DEF new

(* A file's entry is put in the place of an older one.                     *)
LEMMA WholeReplaces ==
  ASSUME NEW ix \in Seq(Entries), NEW ns \in Seq(Contents), NEW fs, NEW dk, NEW ed, Whole(ix, ns, fs, dk, ed),
         NEW i \in DOMAIN ix, ix[i].kind = "file",
         NEW e \in Entries, e.kind = "file", e.src = ix[i].src, e.dup = 0,
         ed = 0 => e.text = dk[e.src]
  PROVE  Whole([ix EXCEPT ![i] = e], ns, fs \union {e.src}, dk, ed)
<1> DEFINE new == [ix EXCEPT ![i] = e]
           gs == fs \union {e.src}
<1>1. new \in Seq(Entries) /\ Len(new) = Len(ix) /\ DOMAIN new = DOMAIN ix /\ new[i] = e
      /\ \A j \in DOMAIN ix : j # i => new[j] = ix[j]
  OBVIOUS
<1> HIDE DEF new
<1>2. e \in Range(new) /\ \A x \in Range(new) : x = e \/ x \in Range(ix)
  BY <1>1 DEF Range
<1>3. ASSUME NEW x \in Range(ix) PROVE x \in Range(new) \/ x = ix[i]
  <2>1. PICK j \in DOMAIN ix : x = ix[j]
    BY DEF Range
  <2> QED BY <1>1, <2>1 DEF Range
<1>4. ix[i] \in Range(ix)
  BY RangeTypes
<1>5. NoteTexts(new) = ns
  <2>1. \A j \in DOMAIN ix : ix[j] = new[j] \/ (ix[j].kind = "file" /\ new[j].kind = "file")
    BY <1>1
  <2>2. NoteTexts(ix) = NoteTexts(new)
    BY <1>1, <2>1, SameNotes
  <2> QED BY <2>2 DEF Whole
<1>6. \A x \in Range(new) : x.kind = "file" => x.src \in gs
  BY <1>2 DEF Whole
<1>7. ASSUME NEW x \in Range(new), x.kind = "file", x.dup # 0
      PROVE  \E o \in Range(new) : o.kind = "file" /\ o.src = x.dup /\ o.dup = 0
  <2>1. PICK o \in Range(ix) : o.kind = "file" /\ o.src = x.dup /\ o.dup = 0
    BY <1>2, <1>7 DEF Whole
  <2>2. CASE o = ix[i]
    BY <1>2, <2>1, <2>2
  <2>3. CASE o # ix[i]
    BY <1>3, <2>1, <2>3
  <2> QED BY <2>2, <2>3
<1>8. ASSUME ed = 0, NEW x \in Range(new)
      PROVE  /\ x.kind = "file" => x.text = dk[x.src]
             /\ \E o \in Range(new) : o.kind = x.kind /\ o.text = x.text /\ o.dup = 0
  <2>1. CASE x = e
    BY <1>2, <1>8, <2>1
  <2>2. CASE x # e
    <3>1. x \in Range(ix)
      BY <1>2, <2>2
    <3>2. x.kind = "file" => x.text = dk[x.src]
      BY <1>8, <3>1 DEF Whole
    <3>3. PICK o \in Range(ix) : o.kind = x.kind /\ o.text = x.text /\ o.dup = 0
      BY <1>8, <3>1 DEF Whole
    <3>4. CASE o = ix[i]
      <4>1. o.text = dk[o.src]
        BY <1>4, <1>8, <3>4 DEF Whole
      <4> QED BY <1>2, <1>8, <3>2, <3>3, <3>4, <4>1
    <3>5. CASE o # ix[i]
      BY <1>3, <3>2, <3>3, <3>5
    <3> QED BY <3>4, <3>5
  <2> QED BY <2>1, <2>2
<1>9. Whole(new, ns, gs, dk, ed)
  BY <1>5, <1>6, <1>7, <1>8 DEF Whole
<1> QED BY <1>9 DEF new

(* The entries of a file are taken out and a new one is added.             *)
LEMMA WholeRenews ==
  ASSUME NEW ix \in Seq(Entries), NEW ns \in Seq(Contents), NEW fs, NEW dk, NEW ed, Whole(ix, ns, fs, dk, ed),
         NEW e \in Entries, e.kind = "file", e.dup = 0,
         ed = 0 => e.text = dk[e.src],
         NEW gone, gone = {x \in Range(ix) : x.kind = "file" /\ x.src = e.src}
  PROVE  Whole(Append(Without(ix, gone), e), ns, fs \union {e.src}, dk, ed)
<1> DEFINE rest == Without(ix, gone)
           new == Append(rest, e)
           gs == fs \union {e.src}
<1>1. rest \in Seq(Entries) /\ Range(rest) = Range(ix) \ gone
  BY WithoutAppends, WithoutLeaves
<1>2. NoteTexts(rest) = ns
  BY WithoutFilesNotes DEF Whole
<1> HIDE DEF rest
<1>3. Range(new) = Range(rest) \union {e}
  BY <1>1, AppendRange
<1>4. NoteTexts(new) = ns
  BY <1>1, <1>2, NotesAppend DEF NoteAdds
<1> HIDE DEF new
<1>5. \A x \in Range(new) : x = e \/ x \in Range(ix)
  BY <1>1, <1>3
<1>6. \A x \in Range(ix) : x \in Range(new) \/ (x.kind = "file" /\ x.src = e.src)
  BY <1>1, <1>3
<1>7. \A x \in Range(new) : x.kind = "file" => x.src \in gs
  BY <1>5 DEF Whole
<1>8. ASSUME NEW x \in Range(new), x.kind = "file", x.dup # 0
      PROVE  \E o \in Range(new) : o.kind = "file" /\ o.src = x.dup /\ o.dup = 0
  <2>1. PICK o \in Range(ix) : o.kind = "file" /\ o.src = x.dup /\ o.dup = 0
    BY <1>5, <1>8 DEF Whole
  <2> QED BY <1>3, <1>6, <2>1
<1>9. ASSUME ed = 0, NEW x \in Range(new)
      PROVE  /\ x.kind = "file" => x.text = dk[x.src]
             /\ \E o \in Range(new) : o.kind = x.kind /\ o.text = x.text /\ o.dup = 0
  <2>1. CASE x = e
    BY <1>3, <1>9, <2>1
  <2>2. CASE x # e
    <3>1. x \in Range(ix)
      BY <1>5, <2>2
    <3>2. x.kind = "file" => x.text = dk[x.src]
      BY <1>9, <3>1 DEF Whole
    <3>3. PICK o \in Range(ix) : o.kind = x.kind /\ o.text = x.text /\ o.dup = 0
      BY <1>9, <3>1 DEF Whole
    <3>4. CASE o \in Range(new)
      BY <3>2, <3>3, <3>4
    <3>5. CASE o \notin Range(new)
      <4>1. o.kind = "file" /\ o.src = e.src
        BY <1>6, <3>5
      <4>2. o.text = dk[o.src]
        BY <1>9, <4>1 DEF Whole
      <4> QED BY <1>3, <1>9, <3>2, <3>3, <4>1, <4>2
    <3> QED BY <3>4, <3>5
  <2> QED BY <2>1, <2>2
<1>10. Whole(new, ns, gs, dk, ed)
  BY <1>4, <1>7, <1>8, <1>9 DEF Whole
<1> QED BY <1>10 DEF new, rest

(* Stale files go, and with them what repeats them.                        *)
LEMMA WholePrunes ==
  ASSUME NEW ix \in Seq(Entries), NEW ns \in Seq(Contents), NEW fs, NEW dk, NEW ed, Whole(ix, ns, fs, dk, ed),
         NEW stale, 0 \notin stale, ed = 0 => stale = {},
         NEW gone, gone = {x \in Range(ix) : x.kind = "file" /\ (x.src \in stale \/ x.dup \in stale)}
  PROVE  Whole(Without(ix, gone), ns, fs \ stale, dk, ed)
<1> DEFINE new == Without(ix, gone)
<1>1. Range(new) = Range(ix) \ gone
  BY WithoutLeaves
<1>2. NoteTexts(new) = ns
  BY WithoutFilesNotes DEF Whole
<1> HIDE DEF new
<1>3. \A x \in Range(new) : x.kind = "file" => x.src \in fs \ stale
  BY <1>1 DEF Whole
<1>4. ASSUME NEW x \in Range(new), x.kind = "file", x.dup # 0
      PROVE  \E o \in Range(new) : o.kind = "file" /\ o.src = x.dup /\ o.dup = 0
  <2>1. PICK o \in Range(ix) : o.kind = "file" /\ o.src = x.dup /\ o.dup = 0
    BY <1>1, <1>4 DEF Whole
  <2>2. o \notin gone
    BY <1>1, <1>4, <2>1
  <2> QED BY <1>1, <2>1, <2>2
<1>5. ASSUME ed = 0, NEW x \in Range(new)
      PROVE  /\ x.kind = "file" => x.text = dk[x.src]
             /\ \E o \in Range(new) : o.kind = x.kind /\ o.text = x.text /\ o.dup = 0
  <2>1. Range(new) = Range(ix)
    BY <1>1, <1>5
  <2> QED BY <1>5, <2>1 DEF Whole
<1> QED BY <1>2, <1>3, <1>4, <1>5 DEF Whole, new

(* Nothing is stale before anything was edited.                            *)
LEMMA StaleIs ==
  ASSUME NEW ns, NEW fs, index \in Seq(Entries), Whole(index, ns, fs, disk, edits)
  PROVE  0 \notin StaleSources(index) /\ (edits = 0 => StaleSources(index) = {})
<1>1. \A i \in DOMAIN index : index[i] \in Range(index) /\ index[i] \in Entries
  BY RangeTypes
<1>2. \A i \in DOMAIN index : index[i].kind = "file" => index[i].src # 0
  BY <1>1, PacketAssumption DEF Entries
<1>3. edits = 0 => \A i \in DOMAIN index : index[i].kind = "file" => index[i].text = disk[index[i].src]
  BY <1>1 DEF Whole
<1> QED BY <1>2, <1>3 DEF StaleSources

LEMMA NotesCounted ==
  ASSUME NEW ix \in Seq(Entries)
  PROVE  /\ IsFiniteSet({k \in DOMAIN ix : ix[k].kind = "note"})
         /\ Cardinality({k \in DOMAIN ix : ix[k].kind = "note"}) = Len(NoteTexts(ix))
<1> DEFINE N(q) == {k \in DOMAIN q : q[k].kind = "note"}
           P == {q \in Seq(Entries) : IsFiniteSet(N(q)) /\ Cardinality(N(q)) = Len(NoteTexts(q))}
<1>1. <<>> \in P
  <2>1. N(<<>>) = {}
    OBVIOUS
  <2>2. IsFiniteSet({}) /\ Cardinality({}) = 0
    BY FS_EmptySet
  <2>3. Len(NoteTexts(<<>>)) = 0
    BY NotesAppend
  <2>4. <<>> \in Seq(Entries)
    OBVIOUS
  <2> HIDE DEF N
  <2> QED BY <2>1, <2>2, <2>3, <2>4
<1>2. ASSUME NEW q \in Seq(Entries), NEW e \in Entries, q \in P PROVE Append(q, e) \in P
  <2> DEFINE n == Len(q) + 1
             t == Append(q, e)
  <2>1. /\ t \in Seq(Entries) /\ DOMAIN t = DOMAIN q \union {n} /\ n \notin DOMAIN q /\ t[n] = e
        /\ \A k \in DOMAIN q : t[k] = q[k]
    OBVIOUS
  <2>2. NoteTexts(t) = NoteAdds(NoteTexts(q), e) /\ NoteTexts(q) \in Seq(Contents) /\ e.text \in Contents
    BY NotesAppend DEF Entries, Entry
  <2>3. IsFiniteSet(N(q)) /\ Cardinality(N(q)) = Len(NoteTexts(q)) /\ n \notin N(q)
    BY <1>2, <2>1
  <2> HIDE DEF t, n
  <2>4. N(t) = IF e.kind = "note" THEN N(q) \union {n} ELSE N(q)
    BY <2>1
  <2> HIDE DEF N
  <2>5. CASE e.kind = "note"
    <3>1. IsFiniteSet(N(t)) /\ Cardinality(N(t)) = Cardinality(N(q)) + 1
      BY <2>3, <2>4, <2>5, FS_AddElement
    <3>2. Len(NoteTexts(t)) = Len(NoteTexts(q)) + 1
      BY <2>2, <2>5 DEF NoteAdds
    <3> QED BY <2>1, <2>3, <3>1, <3>2 DEF t
  <2>6. CASE e.kind # "note"
    <3>1. NoteTexts(t) = NoteTexts(q) /\ N(t) = N(q)
      BY <2>2, <2>4, <2>6 DEF NoteAdds
    <3> QED BY <2>1, <2>3, <3>1 DEF t
  <2> QED BY <2>5, <2>6
<1>3. ix \in P
  <2> HIDE DEF P
  <2> QED BY <1>1, <1>2, ByAppend
<1> QED BY <1>3

(* The cursor of a note counts it.                                         *)
LEMMA CursorCounts ==
  ASSUME NEW ix \in Seq(Entries), NEW i \in DOMAIN ix, ix[i].kind = "note"
  PROVE  NoteCursor(ix, i) \in Nat /\ NoteCursor(ix, i) # 0
<1> DEFINE mine == {j \in 1..i : ix[j].kind = "note"}
<1>1. i \in Nat /\ i \in mine /\ mine \in SUBSET (1..i)
  OBVIOUS
<1>2. IsFiniteSet(1..i)
  BY <1>1, FS_Interval
<1> HIDE DEF mine
<1>3. IsFiniteSet(mine) /\ Cardinality(mine) \in Nat /\ Cardinality(mine) # 0
  BY <1>1, <1>2, FS_Subset, FS_CardinalityType, FS_EmptySet
<1> QED BY <1>3 DEF NoteCursor, mine

(* The cursor of a note does not run past the mission's notes.             *)
LEMMA CursorBound ==
  ASSUME NEW ix \in Seq(Entries), NEW i \in DOMAIN ix
  PROVE  NoteCursor(ix, i) <= Len(NoteTexts(ix))
<1> DEFINE all == {k \in DOMAIN ix : ix[k].kind = "note"}
           mine == {k \in 1..i : ix[k].kind = "note"}
<1>1. mine \subseteq all
  OBVIOUS
<1>2. IsFiniteSet(all) /\ Cardinality(all) = Len(NoteTexts(ix))
  BY NotesCounted
<1> HIDE DEF mine, all
<1>3. Cardinality(mine) <= Cardinality(all)
  BY <1>1, <1>2, FS_Subset
<1> QED BY <1>2, <1>3 DEF NoteCursor, mine
-----------------------------------------------------------------------------
(* Where a command is that nothing overlaps: what it holds, and what it    *)
(* has written of it.                                                      *)
InStep(step, r, ix, ns, fs, dk, ed) ==
  /\ step # "mirror" => Whole(ix, ns, fs, dk, ed)
  /\ step = "put" => Whole(r.index, r.notes, r.files, dk, ed)
  /\ step = "mirror" => Whole(ix, r.notes, r.files, dk, ed)
  /\ step \in {"noteLooks", "reread"} /\ r.src = 0 => r.notes = Append(ns, r.text) /\ r.files = fs
  /\ step \in {"fileLooks", "reread"} /\ r.src # 0 =>
       r.notes = ns /\ r.files = fs \union {r.src} /\ (ed = 0 => r.text = dk[r.src])
  /\ step = "scan" => r.index = ix

ContextInv ==
  inTurn /\ callDeaths = 0 =>
    /\ \A c \in Working : \A d \in Working : c = d
    /\ edits = 0 => disk \in [Files -> Contents]
    /\ Working = {} => Whole(index, notes, files, disk, edits)
    /\ \A c \in Working : InStep(pc[c], seen[c], index, notes, files, disk, edits)

LEMMA ContextInvInit == InitContext => ContextInv
<1> SUFFICES ASSUME InitContext PROVE ContextInv
  OBVIOUS
<1>1. Working = {}
  BY DEF InitContext, Working
<1>2. Whole(index, notes, files, disk, edits)
  <2>1. index = <<>> /\ notes = <<>>
    BY DEF InitContext
  <2>2. Range(<<>>) = {}
    BY NoneIn DEF Range
  <2>3. NoteTexts(<<>>) = <<>>
    BY NotesAppend
  <2> QED BY <2>1, <2>2, <2>3 DEF Whole
<1>3. disk \in [Files -> Contents]
  BY ContextAssumption DEF InitContext
<1> QED BY <1>1, <1>2, <1>3 DEF ContextInv

(* A command alone takes a step.                                           *)
LEMMA StepKeeps ==
  ASSUME ContextTyped, NEW c \in Calls, NEW step, Goto(c, step), \A d \in Working : d = c,
         UNCHANGED <<disk, edits>>, edits = 0 => disk \in [Files -> Contents],
         InStep(step, seen'[c], index', notes', files', disk, edits)
  PROVE  ContextInv'
<1>1. pc \in [Calls -> CallSteps]
  BY DEF ContextTyped
<1>2. pc'[c] = step /\ \A d \in Calls : d # c => pc'[d] = pc[d]
  BY <1>1 DEF Goto
<1>3. \A d \in Working' : d = c
  BY <1>2 DEF Working
<1>4. Working' = {} => Whole(index', notes', files', disk, edits)
  <2>1. Working' = {} => step \in {"idle", "over"}
    BY <1>2 DEF Working
  <2> QED BY <2>1 DEF InStep
<1>5. \A d \in Working' : InStep(pc'[d], seen'[d], index', notes', files', disk, edits)
  BY <1>2, <1>3
<1> QED BY <1>3, <1>4, <1>5 DEF ContextInv

(* What is known when a command alone is about to take a step.             *)
Alone(c) ==
  /\ c \in Calls /\ ContextTyped /\ \A d \in Working : d = c
  /\ edits = 0 => disk \in [Files -> Contents]
  /\ UNCHANGED <<disk, edits>>

LEMMA Typings ==
  ASSUME NEW c, Alone(c)
  PROVE  /\ index \in Seq(Entries) /\ notes \in Seq(Contents) /\ files \subseteq Files
         /\ DOMAIN seen = Calls /\ Holds(seen[c]) /\ DOMAIN seen[c] = Parts /\ CallFits(c, pc[c], seen[c], artifacts)
BY DEF Alone, ContextTyped, CallFits, Holds

LEMMA BeginAlone ==
  ASSUME NEW c, Alone(c), Command(c), Whole(index, notes, files, disk, edits)
  PROVE  ContextInv'
<1>1. index \in Seq(Entries) /\ notes \in Seq(Contents) /\ files \subseteq Files /\ DOMAIN seen = Calls /\ c \in Calls
  BY Typings DEF Alone
<1>2. UNCHANGED <<index, notes, files>>
  BY DEF Command, NoteReads, FileReads, PruneReads, PackReads, mission
<1>3. ASSUME NEW step, Goto(c, step), InStep(step, seen'[c], index, notes, files, disk, edits)
      PROVE  ContextInv'
  BY <1>2, <1>3, StepKeeps DEF Alone
<1>4. ASSUME NEW text \in Contents, NoteReads(c, text)
      PROVE  ContextInv'
  <2> DEFINE r == Held(<<>>, Append(notes, text), files, text, 0)
  <2>1. r.notes = Append(notes, text) /\ r.files = files /\ r.text = text /\ r.src = 0
    BY DEF Held
  <2>2. seen'[c] = r /\ Goto(c, "noteLooks")
    BY <1>1, <1>4 DEF NoteReads
  <2> HIDE DEF r
  <2>3. InStep("noteLooks", seen'[c], index, notes, files, disk, edits)
    BY <2>1, <2>2 DEF InStep
  <2> QED BY <1>3, <2>2, <2>3
<1>5. ASSUME NEW f \in Files, FileReads(c, f)
      PROVE  ContextInv'
  <2> DEFINE r == Held(<<>>, notes, files \union {f}, disk[f], f)
  <2>1. r.notes = notes /\ r.files = files \union {f} /\ r.text = disk[f] /\ r.src = f
    BY DEF Held
  <2>2. CASE Unreadable(f, disk, denied)
    <3>1. InStep("over", seen'[c], index, notes, files, disk, edits) /\ Goto(c, "over")
      BY <1>5, <2>2 DEF FileReads, InStep
    <3> QED BY <1>3, <3>1
  <2>3. CASE ~Unreadable(f, disk, denied)
    <3>1. seen'[c] = r /\ Goto(c, "fileLooks")
      BY <1>1, <1>5, <2>3 DEF FileReads
    <3> HIDE DEF r
    <3>2. InStep("fileLooks", seen'[c], index, notes, files, disk, edits)
      BY <2>1, <3>1 DEF InStep
    <3> QED BY <1>3, <3>1, <3>2
  <2> QED BY <2>2, <2>3
<1>6. ASSUME PruneReads(c) PROVE ContextInv'
  <2>1. seen'[c] = Held(index, <<>>, {}, "", 0) /\ Goto(c, "scan")
    BY <1>1, <1>6 DEF PruneReads
  <2>2. seen'[c].index = index
    <3>1. Held(index, <<>>, {}, "", 0).index = index
      BY DEF Held
    <3> QED BY <2>1, <3>1, Zenon
  <2>3. InStep("scan", seen'[c], index, notes, files, disk, edits)
    BY <2>2 DEF InStep
  <2> QED BY <1>3, <2>1, <2>3
<1>7. ASSUME PackReads(c) PROVE ContextInv'
  <2>1. Goto(c, "compile") /\ InStep("compile", seen'[c], index, notes, files, disk, edits)
    BY <1>7 DEF PackReads, InStep
  <2> QED BY <1>3, <2>1
<1> QED BY <1>4, <1>5, <1>6, <1>7 DEF Command

LEMMA LooksAlone ==
  ASSUME NEW c, Alone(c), InStep(pc[c], seen[c], index, notes, files, disk, edits),
         NoteLooks(c) \/ FileLooks(c) \/ Reread(c)
  PROVE  ContextInv'
<1> DEFINE r == seen[c]
<1>1. /\ index \in Seq(Entries) /\ notes \in Seq(Contents) /\ c \in Calls /\ ContextTyped
      /\ r.text \in Contents /\ (r.src # 0 => r.src \in Files)
      /\ (pc[c] = "noteLooks" => r.src = 0) /\ (pc[c] = "fileLooks" => r.src # 0 /\ r.src \in Files)
  <2>1. CallFits(c, pc[c], seen[c], artifacts) /\ Holds(seen[c])
    BY Typings
  <2>2. r.src # 0 => r.src \in Files
    BY <2>1 DEF Holds, MaybeFile
  <2>3. \A f \in Files : f # 0
    BY PacketAssumption
  <2> QED BY <2>1, <2>2, <2>3, Typings DEF Alone, CallFits, NoteLooks, FileLooks, Reread
<1>2. UNCHANGED <<index, notes, files>> /\ Whole(index, notes, files, disk, edits)
  BY DEF NoteLooks, FileLooks, Reread, mission, InStep
<1>3. ASSUME NEW step, Goto(c, step), InStep(step, seen'[c], index, notes, files, disk, edits)
      PROVE  ContextInv'
  BY <1>2, <1>3, StepKeeps DEF Alone
<1>4. ASSUME NEW ix \in Seq(Entries), seen' = [seen EXCEPT ![c].index = ix], Goto(c, "put"),
             Whole(ix, r.notes, r.files, disk, edits)
      PROVE  ContextInv'
  <2>1. seen'[c].index = ix /\ seen'[c].notes = r.notes /\ seen'[c].files = r.files
    BY <1>1, <1>4, TookIndex
  <2>2. InStep("put", seen'[c], index, notes, files, disk, edits)
    BY <1>2, <1>4, <2>1 DEF InStep
  <2> QED BY <1>3, <1>4, <2>2
<1>5. \A S \in SUBSET DOMAIN index : S # {} => /\ Least(S) \in S /\ index[Least(S)] \in Range(index)
                                               /\ index[Least(S)] \in Entries /\ Least(S) \in Nat
  <2>1. ASSUME NEW S \in SUBSET DOMAIN index, S # {} PROVE Least(S) \in S
    BY <1>1, <2>1, LeastIs
  <2>2. \A i \in DOMAIN index : index[i] \in Range(index) /\ index[i] \in Entries /\ i \in Nat
    BY <1>1, RangeTypes
  <2> QED BY <2>1, <2>2
<1>6. ASSUME r.src = 0, pc[c] \in {"noteLooks", "reread"} PROVE r.notes = Append(notes, r.text) /\ r.files = files
  BY <1>6 DEF InStep
<1>7. ASSUME r.src # 0, pc[c] \in {"fileLooks", "reread"}
      PROVE  r.notes = notes /\ r.files = files \union {r.src} /\ (edits = 0 => r.text = disk[r.src])
  BY <1>7 DEF InStep
<1>8. ASSUME r.src = 0, r.notes = Append(notes, r.text), r.files = files, NEW dup \in Nat,
             dup # 0 => \E o \in Range(index) : o.kind = "note" /\ o.text = r.text /\ o.dup = 0
      PROVE  /\ Append(index, NoteEntry(r.text, dup)) \in Seq(Entries)
             /\ Whole(Append(index, NoteEntry(r.text, dup)), r.notes, r.files, disk, edits)
  <2> DEFINE e == NoteEntry(r.text, dup)
  <2>1. e \in Entries
    BY <1>1, <1>8 DEF NoteEntry, Entries, Entry
  <2>2. e.kind = "note" /\ e.text = r.text /\ e.dup = dup
    BY NewEntryIs
  <2> HIDE DEF e
  <2>3. NoteAdds(notes, e) = Append(notes, r.text)
    BY <2>2 DEF NoteAdds
  <2>4. e.dup # 0 => \E o \in Range(index) : Stands(o, e)
    BY <1>8, <2>2 DEF Stands
  <2>5. Whole(Append(index, e), NoteAdds(notes, e), files, disk, edits)
    BY <1>1, <1>2, <2>1, <2>2, <2>4, WholeAppends
  <2>6. Append(index, e) \in Seq(Entries)
    BY <1>1, <2>1
  <2> QED BY <1>8, <2>3, <2>5, <2>6 DEF e
<1>9. ASSUME NoteLooks(c) PROVE ContextInv'
  <2> DEFINE same == Canonical("note", r.text)
  <2>0. r.src = 0 /\ r.notes = Append(notes, r.text) /\ r.files = files
    BY <1>1, <1>6, <1>9 DEF NoteLooks
  <2>1. CASE same # {}
    <3> DEFINE dup == Least(same)
    <3>1. dup \in Nat /\ dup \in same /\ index[dup] \in Range(index)
      BY <1>5, <2>1 DEF Canonical
    <3>2. \E o \in Range(index) : o.kind = "note" /\ o.text = r.text /\ o.dup = 0
      BY <3>1 DEF Canonical
    <3>3. seen' = [seen EXCEPT ![c].index = Append(index, NoteEntry(r.text, dup))] /\ Goto(c, "put")
      BY <1>9, <2>1 DEF NoteLooks
    <3> HIDE DEF dup, r
    <3> QED BY <1>4, <1>8, <2>0, <3>1, <3>2, <3>3
  <2>2. CASE same = {}
    <3>1. seen' = seen /\ Goto(c, "reread")
      BY <1>9, <2>2 DEF NoteLooks
    <3>2. InStep("reread", seen'[c], index, notes, files, disk, edits)
      BY <1>2, <2>0, <3>1 DEF InStep
    <3> QED BY <1>3, <3>1, <3>2
  <2> QED BY <2>1, <2>2
<1>10. ASSUME FileLooks(c) PROVE ContextInv'
  <2> DEFINE f == r.src
             path == SamePath(index, f)
             same == Canonical("file", r.text)
  <2>0. /\ f \in Files /\ f # 0 /\ r.notes = notes /\ r.files = files \union {f}
        /\ (edits = 0 => r.text = disk[f])
    BY <1>1, <1>7, <1>10 DEF FileLooks
  <2>1. CASE path # {}
    <3> DEFINE i == Least(path)
               e == FileEntry(f, r.text, 0)
               ix == [index EXCEPT ![i] = e]
    <3>1. i \in DOMAIN index /\ index[i].kind = "file" /\ index[i].src = f
      BY <1>5, <2>1 DEF SamePath
    <3>2. e \in Entries /\ e.kind = "file" /\ e.src = f /\ e.dup = 0 /\ e.text = r.text
      BY <1>1, <2>0, NewEntries, NewEntryIs
    <3>3. seen' = [seen EXCEPT ![c].index = ix] /\ Goto(c, "put")
      BY <1>10, <2>1 DEF FileLooks
    <3> HIDE DEF e, i, r, f
    <3>4. ix \in Seq(Entries)
      BY <1>1, <3>1, <3>2
    <3>5. Whole(ix, notes, files \union {e.src}, disk, edits)
      BY <1>1, <1>2, <2>0, <3>1, <3>2, WholeReplaces
    <3>6. Whole(ix, r.notes, r.files, disk, edits)
      BY <2>0, <3>2, <3>5
    <3> QED BY <1>4, <3>3, <3>4, <3>6
  <2>2. CASE path = {} /\ same # {}
    <3> DEFINE i == Least(same)
               o == index[i]
               e == FileEntry(f, r.text, o.src)
    <3>1. i \in DOMAIN index /\ o.kind = "file" /\ o.text = r.text /\ o.dup = 0 /\ o \in Range(index) /\ o \in Entries
      BY <1>5, <2>2 DEF Canonical
    <3>2. o.src \in Nat
      BY <3>1, PacketAssumption DEF Entries
    <3>3. e \in Entries /\ e.kind = "file" /\ e.src = f /\ e.dup = o.src /\ e.text = r.text
      BY <1>1, <2>0, <3>2, NewEntries, NewEntryIs
    <3>4. seen' = [seen EXCEPT ![c].index = Append(index, e)] /\ Goto(c, "put")
      BY <1>10, <2>2 DEF FileLooks
    <3> HIDE DEF e, o, i, r, f
    <3>5. Append(index, e) \in Seq(Entries)
      BY <1>1, <3>3
    <3>6. Stands(o, e)
      BY <3>1, <3>3 DEF Stands
    <3>7. Whole(Append(index, e), NoteAdds(notes, e), files \union {e.src}, disk, edits)
      BY <1>1, <1>2, <2>0, <3>1, <3>3, <3>6, WholeAppends
    <3>8. Whole(Append(index, e), r.notes, r.files, disk, edits)
      BY <2>0, <3>3, <3>7 DEF NoteAdds
    <3> QED BY <1>4, <3>4, <3>5, <3>8
  <2>3. CASE path = {} /\ same = {}
    <3>1. seen' = seen /\ Goto(c, "reread")
      BY <1>10, <2>3 DEF FileLooks
    <3>2. InStep("reread", seen'[c], index, notes, files, disk, edits)
      BY <1>2, <2>0, <3>1 DEF InStep
    <3> QED BY <1>3, <3>1, <3>2
  <2> QED BY <2>1, <2>2, <2>3
<1>11. ASSUME Reread(c) PROVE ContextInv'
  <2>0. pc[c] = "reread"
    BY <1>11 DEF Reread
  <2>1. CASE r.src = 0
    <3>1. r.notes = Append(notes, r.text) /\ r.files = files
      BY <1>6, <2>0, <2>1
    <3> DEFINE dup == 0
    <3>2. seen' = [seen EXCEPT ![c].index = Append(index, NoteEntry(r.text, dup))] /\ Goto(c, "put")
      BY <1>11, <2>1 DEF Reread
    <3>3. dup \in Nat /\ ~(dup # 0)
      OBVIOUS
    <3> HIDE DEF r, dup
    <3>4. /\ Append(index, NoteEntry(r.text, dup)) \in Seq(Entries)
          /\ Whole(Append(index, NoteEntry(r.text, dup)), r.notes, r.files, disk, edits)
      BY <1>8, <2>1, <3>1, <3>3, Zenon
    <3> QED BY <1>4, <3>2, <3>4
  <2>2. CASE r.src # 0
    <3> DEFINE f == r.src
               gone == {x \in Range(index) : x.kind = "file" /\ x.src = f}
               e == FileEntry(f, r.text, 0)
               ix == Append(Without(index, gone), e)
    <3>1. f \in Files /\ r.notes = notes /\ r.files = files \union {f} /\ (edits = 0 => r.text = disk[f])
      BY <1>1, <1>7, <2>0, <2>2
    <3>2. e \in Entries /\ e.kind = "file" /\ e.src = f /\ e.dup = 0 /\ e.text = r.text
      BY <1>1, <3>1, NewEntries, NewEntryIs
    <3>3. seen' = [seen EXCEPT ![c].index = ix] /\ Goto(c, "put")
      BY <1>11, <2>2 DEF Reread
    <3>4. gone = {x \in Range(index) : x.kind = "file" /\ x.src = e.src}
      BY <3>2
    <3> HIDE DEF e, r, f, gone
    <3>5. ix \in Seq(Entries)
      <4>1. Without(index, gone) \in Seq(Entries)
        BY <1>1, WithoutAppends
      <4> QED BY <3>2, <4>1
    <3>6. Whole(ix, notes, files \union {e.src}, disk, edits)
      BY <1>1, <1>2, <3>1, <3>2, <3>4, WholeRenews
    <3>7. Whole(ix, r.notes, r.files, disk, edits)
      BY <3>1, <3>2, <3>6
    <3> QED BY <1>4, <3>3, <3>5, <3>7
  <2> QED BY <2>1, <2>2
<1> QED BY <1>9, <1>10, <1>11

LEMMA WritesAlone ==
  ASSUME NEW c, Alone(c), InStep(pc[c], seen[c], index, notes, files, disk, edits),
         \/ Put(c) \/ MirrorMission(c) \/ Record(c)
         \/ PackCompiles(c) \/ WriteArtifact(c) \/ LogPacket(c)
  PROVE  ContextInv'
<1>1. c \in Calls /\ ContextTyped /\ DOMAIN seen = Calls
  BY Typings DEF Alone
<1>2. ASSUME NEW step, Goto(c, step), InStep(step, seen'[c], index', notes', files', disk, edits)
      PROVE  ContextInv'
  BY <1>2, StepKeeps DEF Alone
<1>3. ASSUME NEW step \in {"record", "over", "artifact", "log"}, Goto(c, step),
             Whole(index', notes', files', disk, edits)
      PROVE  ContextInv'
  <2>1. InStep(step, seen'[c], index', notes', files', disk, edits)
    BY <1>3 DEF InStep
  <2> QED BY <1>2, <1>3, <2>1
<1>4. CASE Put(c)
  <2>1. Goto(c, "mirror") /\ seen' = seen /\ index' = seen[c].index
    BY <1>4 DEF Put
  <2>2. InStep("mirror", seen'[c], index', notes', files', disk, edits)
    BY <1>4, <2>1 DEF Put, InStep
  <2> QED BY <1>2, <2>1, <2>2
<1>5. CASE MirrorMission(c)
  <2>1. Whole(index', notes', files', disk, edits)
    BY <1>5 DEF MirrorMission, InStep
  <2>2. Goto(c, "over") \/ Goto(c, "record")
    BY <1>5 DEF MirrorMission
  <2> QED BY <1>3, <2>1, <2>2
<1>6. CASE Record(c) \/ PackCompiles(c) \/ WriteArtifact(c) \/ LogPacket(c)
  <2>1. Whole(index, notes, files, disk, edits)
    BY <1>6 DEF Record, PackCompiles, WriteArtifact, LogPacket, InStep
  <2>2. UNCHANGED <<index, notes, files>>
    BY <1>6 DEF Record, PackCompiles, WriteArtifact, LogPacket, mission
  <2>3. Goto(c, "over") \/ Goto(c, "artifact") \/ Goto(c, "log")
    BY <1>6 DEF Record, PackCompiles, WriteArtifact, LogPacket
  <2> QED BY <1>3, <2>1, <2>2, <2>3
<1> QED BY <1>4, <1>5, <1>6

LEMMA ScanAlone ==
  ASSUME NEW c, Alone(c), InStep(pc[c], seen[c], index, notes, files, disk, edits), PruneScan(c)
  PROVE  ContextInv'
<1> DEFINE stale == StaleSources(index)
           gone == {e \in Range(seen[c].index) : e.kind = "file" /\ (e.src \in stale \/ e.dup \in stale)}
           next == Without(seen[c].index, gone)
           r == Held(next, notes, files \ stale, "", 0)
<1>1. c \in Calls /\ ContextTyped /\ DOMAIN seen = Calls /\ index \in Seq(Entries) /\ notes \in Seq(Contents)
  BY Typings DEF Alone
<1>2. seen[c].index = index /\ Whole(index, notes, files, disk, edits) /\ UNCHANGED <<index, notes, files>>
  BY DEF PruneScan, InStep, mission
<1>3. ASSUME NEW step, Goto(c, step), InStep(step, seen'[c], index, notes, files, disk, edits)
      PROVE  ContextInv'
  BY <1>2, <1>3, StepKeeps DEF Alone
<1>4. CASE Throws(index) \/ Len(next) = Len(seen[c].index)
  <2>1. Goto(c, "over")
    BY <1>4 DEF PruneScan
  <2>2. InStep("over", seen'[c], index, notes, files, disk, edits)
    BY <1>2 DEF InStep
  <2> QED BY <1>3, <2>1, <2>2
<1>5. CASE ~(Throws(index) \/ Len(next) = Len(seen[c].index))
  <2>1. seen' = [seen EXCEPT ![c] = r] /\ Goto(c, "put")
    BY <1>5 DEF PruneScan
  <2>2. 0 \notin stale /\ (edits = 0 => stale = {})
    BY <1>1, <1>2, StaleIs
  <2>3. gone = {x \in Range(index) : x.kind = "file" /\ (x.src \in stale \/ x.dup \in stale)}
    BY <1>2
  <2> HIDE DEF stale, gone
  <2>4. Whole(Without(index, gone), notes, files \ stale, disk, edits)
    BY <1>1, <1>2, <2>2, <2>3, WholePrunes
  <2>5. r.index = next /\ r.notes = notes /\ r.files = files \ stale
    BY DEF Held
  <2>6. next = Without(index, gone)
    BY <1>2
  <2> HIDE DEF next, r
  <2>7. seen'[c] = r
    BY <1>1, <2>1
  <2>8. InStep("put", r, index, notes, files, disk, edits)
    BY <1>2, <2>4, <2>5, <2>6 DEF InStep
  <2> QED BY <1>3, <2>1, <2>7, <2>8
<1> QED BY <1>4, <1>5

LEMMA ContextInvWorkspace ==
  ASSUME ContextTyped, ContextInv, NEW f \in Files,
         Deny(f) \/ \E text \in Contents \union {"absent"} : Edit(f, text)
  PROVE  ContextInv'
<1> SUFFICES ASSUME inTurn, callDeaths = 0 PROVE ContextInv'
  BY DEF ContextInv, Deny, Edit
<1>1. UNCHANGED <<index, notes, files, pc, seen>>
  BY DEF Deny, Edit, mission
<1>2. edits' # 0
  <2>1. edits \in Nat /\ edits' = edits + 1
    BY DEF ContextTyped, Deny, Edit
  <2> QED BY <2>1
<1>3. ASSUME NEW ix, NEW ns, NEW fs, Whole(ix, ns, fs, disk, edits) PROVE Whole(ix, ns, fs, disk', edits')
  BY <1>2, <1>3 DEF Whole
<1>4. Working' = Working
  BY <1>1 DEF Working
<1>5. \A c \in Working : InStep(pc[c], seen[c], index, notes, files, disk', edits')
  <2>1. ASSUME NEW c \in Working PROVE InStep(pc[c], seen[c], index, notes, files, disk', edits')
    <3>1. InStep(pc[c], seen[c], index, notes, files, disk, edits)
      BY DEF ContextInv
    <3> QED BY <1>2, <1>3, <3>1 DEF InStep
  <2> QED BY <2>1
<1>6. Working = {} => Whole(index, notes, files, disk', edits')
  BY <1>3 DEF ContextInv
<1>7. \A c \in Working : \A d \in Working : c = d
  BY DEF ContextInv
<1> QED BY <1>1, <1>2, <1>4, <1>5, <1>6, <1>7 DEF ContextInv

LEMMA ContextInvNext == ContextTyped /\ ContextInv /\ [NextContext]_contextVars => ContextInv'
<1> SUFFICES ASSUME ContextTyped, ContextInv, [NextContext]_contextVars PROVE ContextInv'
  OBVIOUS
<1>1. ASSUME NEW c \in Calls, Command(c) PROVE ContextInv'
  <2>1. UNCHANGED contextWorld /\ MayBegin(c)
    BY <1>1 DEF Command, NoteReads, FileReads, PruneReads, PackReads
  <2>2. CASE ~(inTurn /\ callDeaths = 0)
    BY <2>1, <2>2 DEF ContextInv, contextWorld
  <2>3. CASE inTurn /\ callDeaths = 0
    <3>1. Working = {}
      BY <2>1, <2>3 DEF MayBegin
    <3>2. Alone(c) /\ Whole(index, notes, files, disk, edits)
      BY <2>1, <2>3, <3>1 DEF Alone, ContextInv, contextWorld
    <3> QED BY <1>1, <3>2, BeginAlone
  <2> QED BY <2>2, <2>3
<1>2. ASSUME NEW c \in Calls,
             \/ NoteLooks(c) \/ FileLooks(c) \/ Reread(c) \/ Put(c) \/ MirrorMission(c) \/ Record(c)
             \/ PruneScan(c) \/ PackCompiles(c) \/ WriteArtifact(c) \/ LogPacket(c)
      PROVE  ContextInv'
  <2>1. UNCHANGED contextWorld /\ c \in Working
    BY <1>2 DEF NoteLooks, FileLooks, Reread, Put, MirrorMission, Record,
                PruneScan, PackCompiles, WriteArtifact, LogPacket, Working
  <2>2. CASE ~(inTurn /\ callDeaths = 0)
    BY <2>1, <2>2 DEF ContextInv, contextWorld
  <2>3. CASE inTurn /\ callDeaths = 0
    <3>1. Alone(c)
      BY <2>1, <2>3 DEF Alone, ContextInv, contextWorld
    <3>2. InStep(pc[c], seen[c], index, notes, files, disk, edits)
      BY <2>1, <2>3 DEF ContextInv
    <3> QED BY <1>2, <3>1, <3>2, LooksAlone, WritesAlone, ScanAlone
  <2> QED BY <2>2, <2>3
<1>3. ASSUME NEW c \in Calls, CallDies(c) PROVE ContextInv'
  <2>1. callDeaths \in Nat /\ callDeaths' = callDeaths + 1
    BY <1>3 DEF CallDies, ContextTyped
  <2>2. callDeaths' # 0
    BY <2>1
  <2> QED BY <2>2 DEF ContextInv
<1>4. ASSUME NEW f \in Files, Deny(f) \/ \E text \in Contents \union {"absent"} : Edit(f, text)
      PROVE  ContextInv'
  BY <1>4, ContextInvWorkspace
<1>5. ASSUME UNCHANGED contextVars PROVE ContextInv'
  <2>1. UNCHANGED <<disk, index, notes, files, pc, seen, inTurn, edits, callDeaths>>
    BY <1>5 DEF contextVars
  <2>2. Working' = Working
    BY <2>1 DEF Working
  <2> QED BY <2>1, <2>2 DEF ContextInv
<1> QED BY <1>1, <1>2, <1>3, <1>4, <1>5 DEF NextContext

LEMMA ContextInvariant == ContextSpec => [](ContextTyped /\ ContextInv)
<1>1. InitContext => ContextTyped /\ ContextInv
  BY ContextTypedInit, ContextInvInit
<1>2. ContextTyped /\ ContextInv /\ [NextContext]_contextVars => (ContextTyped /\ ContextInv)'
  BY ContextTypedNext, ContextInvNext
<1> QED BY <1>1, <1>2, PTL DEF ContextSpec

(* While commands on the context come one at a time and nobody dies inside *)
(* one, the notes of context.json are those of mission.yaml, in their      *)
(* order, and the files it names are on the mission's list, whenever no    *)
(* command is at work.                                                     *)
THEOREM IndexAlwaysMatches == ContextSpec => []IndexMatchesMission
<1>1. ContextTyped /\ ContextInv => IndexMatchesMission
  <2> SUFFICES ASSUME ContextTyped, ContextInv, inTurn, callDeaths = 0, AllIdle
               PROVE  NoteTexts(index) = notes /\ Sources(index) \subseteq files
    BY DEF IndexMatchesMission
  <2>1. Whole(index, notes, files, disk, edits)
    BY DEF ContextInv, AllIdle
  <2>2. \A i \in DOMAIN index : index[i] \in Range(index)
    BY RangeTypes DEF ContextTyped
  <2> QED BY <2>1, <2>2 DEF Whole, Sources
<1> QED BY <1>1, ContextInvariant, PTL

(* The note of an entry is the one its cursor points to.                   *)
LEMMA CursorFinds ==
  ASSUME NEW ix \in Seq(Entries), NEW i \in DOMAIN ix, ix[i].kind = "note"
  PROVE  NoteTexts(ix)[NoteCursor(ix, i)] = ix[i].text
<1> DEFINE P == {q \in Seq(Entries) : \A k \in DOMAIN q :
                   q[k].kind = "note" => NoteTexts(q)[NoteCursor(q, k)] = q[k].text}
<1>1. <<>> \in P
  OBVIOUS
<1>2. ASSUME NEW q \in Seq(Entries), NEW e \in Entries, q \in P PROVE Append(q, e) \in P
  <2> DEFINE n == Len(q) + 1
             t == Append(q, e)
  <2>1. /\ t \in Seq(Entries) /\ DOMAIN t = DOMAIN q \union {n} /\ DOMAIN t = 1..n /\ n \notin DOMAIN q
        /\ t[n] = e /\ \A k \in DOMAIN q : t[k] = q[k] /\ 1..k \subseteq DOMAIN q
    OBVIOUS
  <2>2. NoteTexts(t) = NoteAdds(NoteTexts(q), e) /\ NoteTexts(q) \in Seq(Contents) /\ e.text \in Contents
    BY NotesAppend DEF Entries, Entry
  <2> HIDE DEF t, n
  <2>3. ASSUME NEW k \in DOMAIN q, q[k].kind = "note"
        PROVE  NoteTexts(t)[NoteCursor(t, k)] = t[k].text
    <3>1. {j \in 1..k : t[j].kind = "note"} = {j \in 1..k : q[j].kind = "note"}
      BY <2>1
    <3>2. NoteCursor(t, k) = NoteCursor(q, k)
      BY <3>1 DEF NoteCursor
    <3>3. NoteCursor(q, k) \in Nat /\ NoteCursor(q, k) # 0
      BY <2>3, CursorCounts
    <3>4. NoteCursor(q, k) <= Len(NoteTexts(q))
      BY CursorBound
    <3>5. PICK m : m = NoteCursor(q, k)
      OBVIOUS
    <3>6. m \in DOMAIN NoteTexts(q)
      BY <2>2, <3>3, <3>4, <3>5
    <3>7. NoteTexts(t)[m] = NoteTexts(q)[m]
      BY <2>2, <3>6 DEF NoteAdds
    <3>8. NoteTexts(q)[m] = q[k].text
      BY <1>2, <2>3, <3>5
    <3> QED BY <2>1, <3>2, <3>5, <3>7, <3>8
  <2>4. ASSUME e.kind = "note" PROVE NoteTexts(t)[NoteCursor(t, n)] = t[n].text
    <3>1. NoteCursor(t, n) = Len(NoteTexts(t))
      BY <2>1, NotesCounted DEF NoteCursor
    <3>2. NoteTexts(t) = Append(NoteTexts(q), e.text)
      BY <2>2, <2>4 DEF NoteAdds
    <3>3. NoteTexts(t)[Len(NoteTexts(t))] = e.text
      BY <2>2, <3>2
    <3> QED BY <2>1, <3>1, <3>3
  <2>5. \A k \in DOMAIN t : t[k].kind = "note" => NoteTexts(t)[NoteCursor(t, k)] = t[k].text
    BY <2>1, <2>3, <2>4
  <2> QED BY <2>1, <2>5 DEF t
<1>3. ix \in P
  <2> HIDE DEF P
  <2> QED BY <1>1, <1>2, ByAppend
<1> QED BY <1>3

(* What is listed under an attached text is made of a candidate for it:    *)
(* the note, or a file as it stands or as its empty diff.                  *)
LEMMA CandidateCarries ==
  ASSUME NEW ix \in Seq(Entries), NEW ns \in Seq(Contents), NEW fs, NEW dk \in [Files -> Contents],
         Whole(ix, ns, fs, dk, 0), NEW dt, NEW text, NEW it,
         NEW c \in NoteCandidates(ix, ns) \union FileCandidates(ix, dk, {}, Committed, dt)
                   \union (NotesFile(dt) \union MemoryRows(dt)),
         MadeOf(it, c), it.key = <<"hash", text>>
  PROVE  Carries(it, text, dt)
<1>1. c.key = <<"hash", text>> /\ it.kind = c.kind /\ it.label = c.label /\ (it.included => it.text = c.text)
  BY DEF MadeOf
<1>2. CASE c \in NoteCandidates(ix, ns)
  <2>1. PICK i \in DOMAIN ix :
          /\ ix[i].kind = "note"
          /\ c = Candidate("note", i, ns[NoteCursor(ix, i)], <<"hash", ix[i].text>>,
                           ns[NoteCursor(ix, i)], 0, FALSE, SensOf("note", i, ns[NoteCursor(ix, i)]))
    BY <1>2 DEF NoteCandidates
  <2>2. c.text = ns[NoteCursor(ix, i)] /\ c.key = <<"hash", ix[i].text>>
    BY <2>1 DEF Candidate
  <2>3. ns[NoteCursor(ix, i)] = ix[i].text
    BY <2>1, CursorFinds DEF Whole
  <2> QED BY <1>1, <2>2, <2>3 DEF Carries
<1>3. CASE c \in FileCandidates(ix, dk, {}, Committed, dt)
  <2>1. PICK i \in DOMAIN ix :
          /\ ix[i].kind = "file"
          /\ c = LET e == ix[i]
                     body == FileBody(e.src, dk, Committed, dt)
                 IN Candidate("file", e.src, body, <<"hash", e.text>>, dk[e.src],
                              100 + PackBytes(body), e.text # dk[e.src], SensOf("file", e.src, body))
    BY <1>3 DEF FileCandidates
  <2>2. /\ c.text = FileBody(ix[i].src, dk, Committed, dt) /\ c.key = <<"hash", ix[i].text>>
        /\ c.kind = "file" /\ c.label = ix[i].src
    BY <2>1 DEF Candidate
  <2>3. ix[i].text = dk[ix[i].src] /\ ix[i].text = text
    <3>1. ix[i] \in Range(ix)
      BY RangeTypes
    <3>2. ix[i].text = dk[ix[i].src]
      BY <2>1, <3>1 DEF Whole
    <3>3. <<"hash", ix[i].text>> = <<"hash", text>>
      BY <1>1, <2>2
    <3> QED BY <3>2, <3>3
  <2> QED BY <1>1, <2>2, <2>3 DEF Carries, FileBody
<1>4. CASE c \in NotesFile(dt) \union MemoryRows(dt)
  <2>1. c.key = <<"ws">> \/ \E m \in Remembered : c.key = <<"mem", m.id>>
    BY <1>4 DEF NotesFile, MemoryRows, Candidate
  <2>2. <<"ws">> # <<"hash", text>> /\ \A x : <<"mem", x>> # <<"hash", text>>
    OBVIOUS
  <2> QED BY <1>1, <2>1, <2>2
<1> QED BY <1>2, <1>3, <1>4

Listed(text, p, dt) ==
  \E k \in DOMAIN p.items : p.items[k].key = <<"hash", text>> /\ Carries(p.items[k], text, dt)

(* What was attached is listed: an entry or the one it repeats is a        *)
(* candidate, and every candidate is listed with what it carries.          *)
LEMMA WholeIsListed ==
  ASSUME NEW ix \in Seq(Entries), NEW ns \in Seq(Contents), NEW fs, NEW dk \in [Files -> Contents],
         Whole(ix, ns, fs, dk, 0), NEW dt, NEW i \in DOMAIN ix
  PROVE  Listed(ix[i].text, Compile(ix, ns, dk, {}, Committed, dt), dt)
<1> DEFINE p == Compile(ix, ns, dk, {}, Committed, dt)
           key == <<"hash", ix[i].text>>
<1>1. ix[i] \in Range(ix) /\ \A j \in DOMAIN ix : ix[j] \in Entries
  BY RangeTypes
<1>2. PICK o \in Range(ix) : o.kind = ix[i].kind /\ o.text = ix[i].text /\ o.dup = 0
  BY <1>1 DEF Whole
<1>3. PICK j \in DOMAIN ix : ix[j] = o
  BY DEF Range
<1>4. dk \in Disks
  BY DEF Disks
<1>5. \A c \in NoteCandidates(ix, ns) \union FileCandidates(ix, dk, {}, Committed, dt) :
         \E k \in DOMAIN p.items : p.items[k].key = c.key
  BY <1>4, CompiledIsTrue
<1>6. Sourced(p, ix, ns, dk, {}, Committed, dt)
  BY <1>4, CompiledIsTrue
<1>7. ix[j].kind \in {"note", "file"} /\ (ix[j].kind = "file" => ix[j].src \in Files)
  BY <1>1 DEF Entries, Entry
<1> HIDE DEF p
<1>8. ASSUME NEW k \in DOMAIN p.items, p.items[k].key = key PROVE Listed(ix[i].text, p, dt)
  <2>1. PICK c \in NoteCandidates(ix, ns) \union FileCandidates(ix, dk, {}, Committed, dt)
                   \union (NotesFile(dt) \union MemoryRows(dt)) : MadeOf(p.items[k], c)
    BY <1>6 DEF Sourced
  <2>2. Carries(p.items[k], ix[i].text, dt)
    BY <1>8, <2>1, CandidateCarries
  <2> QED BY <1>8, <2>2 DEF Listed
<1>9. CASE ix[j].kind = "note"
  <2> DEFINE c == Candidate("note", j, ns[NoteCursor(ix, j)], <<"hash", ix[j].text>>,
             ns[NoteCursor(ix, j)], 0, FALSE, SensOf("note", j, ns[NoteCursor(ix, j)]))
  <2>1. NoteCursor(ix, j) <= Len(ns)
    BY CursorBound DEF Whole
  <2>2. c \in NoteCandidates(ix, ns)
    BY <1>2, <1>3, <1>9, <2>1 DEF NoteCandidates
  <2>3. c.key = key
    BY <1>2, <1>3 DEF Candidate
  <2> HIDE DEF c
  <2> QED BY <1>5, <1>8, <2>2, <2>3 DEF p
<1>10. CASE ix[j].kind = "file"
  <2> DEFINE c == LET e == ix[j]
                      body == FileBody(e.src, dk, Committed, dt)
                  IN Candidate("file", e.src, body, <<"hash", e.text>>, dk[e.src],
                       100 + PackBytes(body), e.text # dk[e.src], SensOf("file", e.src, body))
  <2>1. dk[ix[j].src] \in Contents /\ "absent" \notin Contents
    BY <1>7, <1>10, PacketAssumption
  <2>2. ~Unreadable(ix[j].src, dk, {})
    BY <2>1 DEF Unreadable
  <2>3. c \in FileCandidates(ix, dk, {}, Committed, dt)
    BY <1>2, <1>3, <1>10, <2>2 DEF FileCandidates
  <2>4. c.key = key
    BY <1>2, <1>3 DEF Candidate
  <2> HIDE DEF c
  <2> QED BY <1>5, <1>8, <2>3, <2>4 DEF p
<1> QED BY <1>7, <1>9, <1>10

(* One command at a time and with no death, the text of every entry is in  *)
(* the packet as long as nothing is edited, or is listed as omitted, or in *)
(* diff mode stands as the empty diff of a file git holds with that text;  *)
(* and a repeated file names an entry that is there.                       *)
THEOREM AttachedAlwaysListed == ContextSpec => []AttachedIsListed
<1>1. ContextTyped /\ ContextInv => AttachedIsListed
  <2> SUFFICES ASSUME ContextTyped, ContextInv, inTurn, callDeaths = 0, AllIdle
               PROVE  /\ edits = 0 =>
                           LET items == Compile(index, notes, disk, denied, Committed, diet).items
                           IN \A i \in DOMAIN index : \E k \in DOMAIN items :
                                items[k].key = <<"hash", index[i].text>>
                                /\ Carries(items[k], index[i].text, diet)
                      /\ \A i \in DOMAIN index :
                           index[i].kind = "file" /\ index[i].dup # 0 =>
                             \E j \in DOMAIN index : index[j].kind = "file" /\ index[j].src = index[i].dup
    BY DEF AttachedIsListed
  <2>1. Whole(index, notes, files, disk, edits)
    BY DEF ContextInv, AllIdle
  <2>2. index \in Seq(Entries) /\ notes \in Seq(Contents) /\ (edits = 0 => denied = {})
    BY DEF ContextTyped
  <2>3. edits = 0 => disk \in [Files -> Contents]
    BY DEF ContextInv
  <2>4. ASSUME edits = 0, NEW i \in DOMAIN index
        PROVE  LET items == Compile(index, notes, disk, denied, Committed, diet).items
               IN \E k \in DOMAIN items : items[k].key = <<"hash", index[i].text>>
                                       /\ Carries(items[k], index[i].text, diet)
    <3>1. Whole(index, notes, files, disk, 0) /\ disk \in [Files -> Contents] /\ denied = {}
      BY <2>1, <2>2, <2>3, <2>4
    <3>2. Listed(index[i].text, Compile(index, notes, disk, {}, Committed, diet), diet)
      BY <2>2, <3>1, WholeIsListed
    <3> QED BY <3>1, <3>2 DEF Listed
  <2>5. ASSUME NEW i \in DOMAIN index, index[i].kind = "file", index[i].dup # 0
        PROVE  \E j \in DOMAIN index : index[j].kind = "file" /\ index[j].src = index[i].dup
    <3>1. index[i] \in Range(index)
      BY <2>2, RangeTypes
    <3>2. PICK o \in Range(index) : o.kind = "file" /\ o.src = index[i].dup /\ o.dup = 0
      BY <2>1, <2>5, <3>1 DEF Whole
    <3> QED BY <3>2 DEF Range
  <2> QED BY <2>4, <2>5
<1> QED BY <1>1, ContextInvariant, PTL
=============================================================================
