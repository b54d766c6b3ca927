-------------------------- MODULE ToolRunnerProofs --------------------------
(***************************************************************************)
(* Theorems about running tools, for every set of calls, requests, targets *)
(* and policies, and for every interleaving, edit and death.               *)
(***************************************************************************)
EXTENDS ToolRunner, FiniteFolds

Checkpoint ==
  [target : Targets, by : Calls, snapshot : Contents, restored : BOOLEAN, torn : BOOLEAN]

(* TypeOK with the types of the variables it relies on.                    *)
Typed ==
  /\ TypeOK
  /\ request \in [Calls -> Requests]
  /\ checkpoints \in Seq(Checkpoint)
  /\ since \in [Calls -> SUBSET Policies]
  /\ rewind.step = "mark" => rewind.of \in DOMAIN checkpoints

(* Typed holds at the start.                                               *)
LEMMA TypedInit == Init => Typed
  BY DEF Init, Typed, TypeOK, Contents, Statuses, Resting, Checkpoint

(* A snapshot of a target is a checkpoint.                                 *)
LEMMA NewCheckpointTyped ==
  ASSUME Typed, NEW c \in Calls, NEW torn \in BOOLEAN
  PROVE  /\ NewCheckpoint(c, torn) \in Seq(Checkpoint)
         /\ DOMAIN checkpoints \subseteq DOMAIN NewCheckpoint(c, torn)
<1>1. Target(c) \in Targets
  BY ToolRunnerAssumption DEF Typed, Target
<1> DEFINE row == [target |-> Target(c), by |-> c, snapshot |-> Decoded(files[Target(c)]),
                   restored |-> FALSE, torn |-> torn]
<1>2. row \in Checkpoint
  BY <1>1 DEF Typed, TypeOK, Checkpoint, Decoded, Contents
<1>3. NewCheckpoint(c, torn) = Append(checkpoints, row)
  BY DEF NewCheckpoint
<1> HIDE DEF row
<1> QED BY <1>2, <1>3 DEF Typed

(* What a call that is neither idle nor over does next.                    *)
Busy == {"snapshot", "start", "run", "output", "artifacts", "register", "complete", "mark"}

(* A checkpoint of the list is one.                                        *)
LEMMA CheckpointRow ==
  ASSUME Typed, NEW k \in DOMAIN checkpoints
  PROVE  checkpoints[k] \in Checkpoint
<1>1. checkpoints \in Seq(Checkpoint)
  BY DEF Typed
<1> QED BY <1>1

(* A failure is counted and ends the run.                                  *)
LEMMA FailTyped ==
  ASSUME NEW c \in Calls, Fail(c), failed \in [Calls -> Nat],
         pc \in [Calls -> Resting \union Busy]
  PROVE  failed' \in [Calls -> Nat] /\ pc' \in [Calls -> Resting \union Busy]
  BY DEF Fail, Goto, Resting, Busy

(* Every step keeps Typed.                                                 *)
LEMMA TypedNext == Typed /\ [Next]_vars => Typed'
<1> SUFFICES ASSUME Typed, [Next]_vars PROVE Typed'
  OBVIOUS
<1> USE ToolRunnerAssumption
    DEF Typed, TypeOK, Goto, Fail, Resting, Statuses, disk, ghosts, Spend
<1>1. ASSUME NEW c \in Calls, Request(c) PROVE Typed'
  BY <1>1 DEF Request
<1>2. ASSUME NEW c \in Calls, Rule(c) PROVE Typed'
  BY <1>2 DEF Rule
<1>0. failed \in [Calls -> Nat] /\ pc \in [Calls -> Resting \union Busy]
  BY DEF Busy
<1>3. ASSUME NEW c \in Calls, Continue(c) PROVE Typed'
  <2>1. /\ request' = request /\ policy' = policy /\ files' = files /\ checkpoints' = checkpoints
        /\ cache' = cache /\ approval' = approval /\ rewind' = rewind /\ effects' = effects
        /\ since' = [since EXCEPT ![c] = {policy}]
    BY <1>3, Zenon DEF Continue
  <2>2. \/ Fail(c)
        \/ failed' = failed /\ \E step \in {"snapshot", "start"} : Goto(c, step)
    BY <1>3, Zenon DEF Continue
  <2>3. failed' \in [Calls -> Nat] /\ pc' \in [Calls -> Resting \union Busy]
    <3>1. CASE Fail(c)
      BY <1>0, <3>1, FailTyped
    <3>2. CASE failed' = failed /\ \E step \in {"snapshot", "start"} : Goto(c, step)
      BY <1>0, <3>2 DEF Busy
    <3> QED BY <2>2, <3>1, <3>2
  <2>4. since' \in [Calls -> SUBSET Policies]
    BY <2>1
  <2> QED BY <2>1, <2>3, <2>4 DEF Busy
<1>4. ASSUME NEW c \in Calls, Snapshot(c) PROVE Typed'
  <2>1. checkpoints' \in Seq(Checkpoint) /\ DOMAIN checkpoints \subseteq DOMAIN checkpoints'
    BY <1>4, NewCheckpointTyped DEF Snapshot
  <2>2. Fail(c) \/ (Goto(c, "start") /\ failed' = failed)
    BY <1>4, Zenon DEF Snapshot
  <2>3. failed' \in [Calls -> Nat] /\ pc' \in [Calls -> Resting \union Busy]
    <3>1. CASE Fail(c)
      BY <1>0, <3>1, FailTyped
    <3>2. CASE Goto(c, "start") /\ failed' = failed
      BY <1>0, <3>2 DEF Busy
    <3> QED BY <2>2, <3>1, <3>2
  <2>4. /\ request' = request /\ policy' = policy /\ files' = files /\ cache' = cache
        /\ approval' = approval /\ rewind' = rewind /\ effects' = effects /\ since' = since
    BY <1>4 DEF Snapshot
  <2> QED BY <2>1, <2>3, <2>4 DEF Busy
<1>5. ASSUME NEW c \in Calls, Start(c) PROVE Typed'
  BY <1>5 DEF Start
<1>6. ASSUME NEW c \in Calls, Throws(c) PROVE Typed'
  BY <1>6 DEF Throws
<1>7. ASSUME NEW c \in Calls, RunFilesystem(c) PROVE Typed'
  BY <1>7 DEF RunFilesystem, Works, TookEffect, Contents, Target
<1>8. ASSUME NEW c \in Calls, RunGit(c) PROVE Typed'
  BY <1>8 DEF RunGit, Works, TookEffect
<1>9. ASSUME NEW c \in Calls, RunShell(c) PROVE Typed'
  BY <1>9 DEF RunShell, Works, TookEffect
<1>10. ASSUME NEW c \in Calls, RunReport(c) PROVE Typed'
  BY <1>10 DEF RunReport, Works, TookEffect
<1>11. ASSUME NEW c \in Calls, RunReading(c) PROVE Typed'
  BY <1>11 DEF RunReading, Works, TookEffect
<1>12. ASSUME NEW c \in Calls, RunBrowser(c) PROVE Typed'
  BY <1>12 DEF RunBrowser, Works, TookEffect
<1>13. ASSUME NEW c \in Calls, RunGithub(c) PROVE Typed'
  BY <1>13 DEF RunGithub, Works, TookEffect
<1>14. ASSUME NEW c \in Calls, RunMcpCall(c) PROVE Typed'
  BY <1>14 DEF RunMcpCall, Works, TookEffect
<1>15. ASSUME NEW c \in Calls, RunMcpList(c) PROVE Typed'
  BY <1>15 DEF RunMcpList, Works, TookEffect, Target
<1>16. ASSUME NEW c \in Calls, WorksButFails(c) PROVE Typed'
  BY <1>16 DEF WorksButFails, TookEffect
<1>17. ASSUME NEW c \in Calls, AnswerFromCache(c) PROVE Typed'
  BY <1>17 DEF AnswerFromCache
<1>18. ASSUME NEW c \in Calls, WriteOutput(c) PROVE Typed'
  <2>1. /\ request' = request /\ policy' = policy /\ files' = files /\ checkpoints' = checkpoints
        /\ cache' = cache /\ approval' = approval /\ rewind' = rewind /\ effects' = effects
        /\ since' = since
    BY <1>18 DEF WriteOutput
  <2>2. Fail(c) \/ (failed' = failed /\ Goto(c, "artifacts"))
    BY <1>18, Zenon DEF WriteOutput
  <2>3. failed' \in [Calls -> Nat] /\ pc' \in [Calls -> Resting \union Busy]
    <3>1. CASE Fail(c)
      BY <1>0, <3>1, FailTyped
    <3>2. CASE failed' = failed /\ Goto(c, "artifacts")
      BY <1>0, <3>2 DEF Busy
    <3> QED BY <2>2, <3>1, <3>2
  <2> QED BY <2>1, <2>3 DEF Busy
<1>19. ASSUME NEW c \in Calls, ReadArtifacts(c) PROVE Typed'
  BY <1>19 DEF ReadArtifacts
<1>20. ASSUME NEW c \in Calls, Register(c) PROVE Typed'
  BY <1>20 DEF Register
<1>21. ASSUME NEW c \in Calls, Complete(c) PROVE Typed'
  BY <1>21 DEF Complete
<1>22. ASSUME NEW c \in Calls, MarkExecuted(c) PROVE Typed'
  BY <1>22 DEF MarkExecuted
<1>23. ASSUME NEW c \in Calls, Die(c) PROVE Typed'
  <2>1. checkpoints' \in Seq(Checkpoint) /\ DOMAIN checkpoints \subseteq DOMAIN checkpoints'
    BY <1>23, NewCheckpointTyped DEF Die
  <2>2. files' \in [Targets -> Contents]
    BY <1>23 DEF Die, Contents, Target
  <2>3. /\ request' = request /\ policy' = policy /\ cache' = cache /\ approval' = approval
        /\ rewind' = rewind /\ effects' = effects /\ since' = since /\ Fail(c)
    BY <1>23 DEF Die
  <2> HIDE DEF Contents
  <2> QED BY <2>1, <2>2, <2>3
<1>24. ASSUME NEW k \in DOMAIN checkpoints, Rewind(k) PROVE Typed'
  <2>1. checkpoints[k].snapshot \in Contents
    BY CheckpointRow DEF Checkpoint
  <2> QED BY <1>24, <2>1 DEF Rewind
<1>25. ASSUME NEW x \in Targets, EditFile(x) PROVE Typed'
  BY <1>25 DEF EditFile, Contents
<1>26. CASE MarkRestored
  <2> DEFINE row == [checkpoints[rewind.of] EXCEPT !.restored = TRUE]
  <2>1. rewind.of \in DOMAIN checkpoints
    BY <1>26 DEF MarkRestored
  <2>2. row \in Checkpoint
    BY <2>1, CheckpointRow DEF Checkpoint
  <2>3. checkpoints' = [checkpoints EXCEPT ![rewind.of] = row] /\ rewind'.step = "none"
    BY <1>26 DEF MarkRestored
  <2> HIDE DEF row
  <2>4. checkpoints' \in Seq(Checkpoint)
    BY <2>1, <2>2, <2>3
  <2> QED BY <1>26, <2>3, <2>4 DEF MarkRestored
<1>27. CASE DieRewinding
  <2> DEFINE row == [checkpoints[rewind.of] EXCEPT !.torn = TRUE]
  <2>1. rewind.of \in DOMAIN checkpoints
    BY <1>27 DEF DieRewinding
  <2>2. row \in Checkpoint
    BY <2>1, CheckpointRow DEF Checkpoint
  <2>3. /\ checkpoints' = checkpoints \/ checkpoints' = [checkpoints EXCEPT ![rewind.of] = row]
        /\ rewind'.step = "none"
        /\ \/ files' = files
           \/ files' = [files EXCEPT ![checkpoints[rewind.of].target] = "torn"]
    BY <1>27 DEF DieRewinding
  <2> HIDE DEF row
  <2>4. [checkpoints EXCEPT ![rewind.of] = row] \in Seq(Checkpoint)
    BY <2>1, <2>2
  <2>5. checkpoints' \in Seq(Checkpoint)
    BY <2>3, <2>4
  <2>6. files' \in [Targets -> Contents]
    BY <2>3 DEF Contents
  <2> HIDE DEF Contents
  <2> QED BY <1>27, <2>3, <2>5, <2>6 DEF DieRewinding
<1>28. CASE EditPolicy
  BY <1>28 DEF EditPolicy, InFlight
<1>29. CASE Expire
  BY <1>29 DEF Expire
<1>30. CASE UNCHANGED vars
  BY <1>30 DEF vars
<1> QED
  BY <1>1, <1>2, <1>3, <1>4, <1>5, <1>6, <1>7, <1>8, <1>9, <1>10, <1>11,
     <1>12, <1>13, <1>14, <1>15, <1>16, <1>17, <1>18, <1>19, <1>20, <1>21,
     <1>22, <1>23, <1>24, <1>25, <1>26, <1>27, <1>28, <1>29, <1>30 DEF Next

(* The types hold throughout.                                              *)
THEOREM ToolsTypeCorrect == Spec => []TypeOK
<1>1. Typed => TypeOK
  BY DEF Typed
<1> QED BY <1>1, TypedInit, TypedNext, PTL DEF Spec
-----------------------------------------------------------------------------
(* What a call has read or is about to list is there, and outputs stay.    *)
Written(c) == pc[c] \in {"artifacts", "register"} => Output(c) \in outputs

ListInv ==
  /\ Typed
  /\ list \in [Calls -> SUBSET outputs]
  /\ ListedHasFile
  /\ \A c \in Calls : Written(c)

(* ListInv holds at the start.                                             *)
LEMMA ListInit == Init => ListInv
  BY TypedInit DEF Init, ListInv, ListedHasFile, Written

(* Every step keeps ListInv: a file is written before any list names it,   *)
(* and a stale list only forgets.                                          *)
LEMMA ListNext == ListInv /\ [Next]_vars => ListInv'
<1> SUFFICES ASSUME ListInv, [Next]_vars
             PROVE  /\ list' \in [Calls -> SUBSET outputs'] /\ ListedHasFile'
                    /\ \A d \in Calls : Written(d)'
  BY TypedNext DEF ListInv
<1> DEFINE Goal == /\ list' \in [Calls -> SUBSET outputs'] /\ ListedHasFile'
                   /\ \A d \in Calls : Written(d)'
<1> USE DEF ListInv, Typed, TypeOK, ListedHasFile, Written, Output, Tool, Goto, Fail, disk, ghosts
<1>1. ASSUME NEW c \in Calls, Request(c) PROVE Goal
  BY <1>1 DEF Request
<1>2. ASSUME NEW c \in Calls, Rule(c) PROVE Goal
  BY <1>2 DEF Rule
<1>3. ASSUME NEW c \in Calls, Continue(c) PROVE Goal
  BY <1>3 DEF Continue
<1>4. ASSUME NEW c \in Calls, Snapshot(c) PROVE Goal
  BY <1>4 DEF Snapshot
<1>5. ASSUME NEW c \in Calls, Start(c) PROVE Goal
  BY <1>5 DEF Start
<1>6. ASSUME NEW c \in Calls, Throws(c) PROVE Goal
  BY <1>6 DEF Throws
<1>7. ASSUME NEW c \in Calls, RunFilesystem(c) PROVE Goal
  BY <1>7 DEF RunFilesystem, Works, TookEffect
<1>8. ASSUME NEW c \in Calls, RunGit(c) PROVE Goal
  BY <1>8 DEF RunGit, Works, TookEffect
<1>9. ASSUME NEW c \in Calls, RunShell(c) PROVE Goal
  BY <1>9 DEF RunShell, Works, TookEffect
<1>10. ASSUME NEW c \in Calls, RunReport(c) PROVE Goal
  BY <1>10 DEF RunReport, Works, TookEffect
<1>11. ASSUME NEW c \in Calls, RunReading(c) PROVE Goal
  BY <1>11 DEF RunReading, Works, TookEffect
<1>12. ASSUME NEW c \in Calls, RunBrowser(c) PROVE Goal
  BY <1>12 DEF RunBrowser, Works, TookEffect
<1>13. ASSUME NEW c \in Calls, RunGithub(c) PROVE Goal
  BY <1>13 DEF RunGithub, Works, TookEffect
<1>14. ASSUME NEW c \in Calls, RunMcpCall(c) PROVE Goal
  BY <1>14 DEF RunMcpCall, Works, TookEffect
<1>15. ASSUME NEW c \in Calls, RunMcpList(c) PROVE Goal
  BY <1>15 DEF RunMcpList, Works, TookEffect
<1>16. ASSUME NEW c \in Calls, WorksButFails(c) PROVE Goal
  BY <1>16 DEF WorksButFails, TookEffect
<1>17. ASSUME NEW c \in Calls, AnswerFromCache(c) PROVE Goal
  BY <1>17 DEF AnswerFromCache
<1>18. ASSUME NEW c \in Calls, WriteOutput(c) PROVE Goal
  BY <1>18 DEF WriteOutput
<1>19. ASSUME NEW c \in Calls, ReadArtifacts(c) PROVE Goal
  BY <1>19 DEF ReadArtifacts
<1>20. ASSUME NEW c \in Calls, Register(c) PROVE Goal
  BY <1>20 DEF Register
<1>21. ASSUME NEW c \in Calls, Complete(c) PROVE Goal
  BY <1>21 DEF Complete
<1>22. ASSUME NEW c \in Calls, MarkExecuted(c) PROVE Goal
  BY <1>22 DEF MarkExecuted
<1>23. ASSUME NEW c \in Calls, Die(c) PROVE Goal
  BY <1>23 DEF Die
<1>24. ASSUME NEW k \in DOMAIN checkpoints, Rewind(k) PROVE Goal
  BY <1>24 DEF Rewind
<1>25. ASSUME NEW x \in Targets, EditFile(x) PROVE Goal
  BY <1>25 DEF EditFile
<1>26. CASE MarkRestored
  BY <1>26 DEF MarkRestored
<1>27. CASE DieRewinding
  BY <1>27 DEF DieRewinding
<1>28. CASE EditPolicy
  BY <1>28 DEF EditPolicy
<1>29. CASE Expire
  BY <1>29 DEF Expire
<1>30. CASE UNCHANGED vars
  BY <1>30 DEF vars
<1> QED
  BY <1>1, <1>2, <1>3, <1>4, <1>5, <1>6, <1>7, <1>8, <1>9, <1>10, <1>11,
     <1>12, <1>13, <1>14, <1>15, <1>16, <1>17, <1>18, <1>19, <1>20, <1>21,
     <1>22, <1>23, <1>24, <1>25, <1>26, <1>27, <1>28, <1>29, <1>30 DEF Next

(* mission.yaml never lists an artifact whose file was not written.        *)
THEOREM ListedAlwaysHasFile == Spec => []ListedHasFile
<1>1. ListInv => ListedHasFile
  BY DEF ListInv
<1> QED BY <1>1, ListInit, ListNext, PTL DEF Spec
-----------------------------------------------------------------------------
(* A policy that lets a connector's call through, among those in force     *)
(* since the call was started; a call in flight has the current one among  *)
(* them, and an MCP or GitHub call gets past its checks only with one.     *)
Lets(p, c) ==
  /\ p.valid /\ Family(Tool(c)) \notin p.blocks
  /\ AimsAtTarget(Tool(c)) => Target(c) \in p.targets
Checked(c) ==
  pc[c] \in {"snapshot", "start", "run"} /\ Family(Tool(c)) \in {"mcp", "github"}
    => \E p \in since[c] : Lets(p, c)

PolicyInv ==
  /\ Typed
  /\ \A c \in InFlight : policy \in since[c]
  /\ \A c \in Calls : Checked(c)

(* PolicyInv holds at the start.                                           *)
LEMMA PolicyInit == Init => PolicyInv
  BY TypedInit DEF Init, PolicyInv, InFlight, Checked, Resting

(* The checks of a request or a continuation are of the policy it reads.   *)
LEMMA SafeMeansLets ==
  ASSUME NEW c \in Calls, policy.valid, InputSafe(policy, Tool(c), Target(c)),
         Family(Tool(c)) \in {"mcp", "github"},
         Continues(Tool(c)) \/ Decision(policy, Tool(c), Target(c)) # "block"
  PROVE  Lets(policy, c)
<1>1. CASE AimsAtTarget(Tool(c))
  BY <1>1 DEF InputSafe, Lets, ServerAllowed, RepoAllowed
<1>2. CASE ~AimsAtTarget(Tool(c))
  <2>1. Tool(c) = "mcp.servers.list" /\ Family("mcp.servers.list") = "mcp"
    BY <1>2 DEF AimsAtTarget, Family, Meta, Row, Tools
  <2>2. Decision(policy, "mcp.servers.list", Target(c)) # "block"
    BY <2>1 DEF Continues
  <2>3. "mcp" \notin policy.blocks
    BY <2>1, <2>2 DEF Decision, Blocked
  <2> QED BY <1>2, <2>1, <2>3 DEF Lets
<1> QED BY <1>1, <1>2

(* Every step keeps PolicyInv.                                             *)
LEMMA PolicyNext == PolicyInv /\ [Next]_vars => PolicyInv'
<1> SUFFICES ASSUME PolicyInv, [Next]_vars
             PROVE  /\ \A d \in InFlight' : policy' \in since'[d]
                    /\ \A d \in Calls : Checked(d)'
  BY TypedNext DEF PolicyInv
<1> DEFINE Goal == /\ \A d \in InFlight' : policy' \in since'[d]
                   /\ \A d \in Calls : Checked(d)'
<1> USE DEF PolicyInv, Typed, TypeOK, InFlight, Resting, Checked, Goto, Fail, disk, ghosts,
            Tool, Target, Lets
<1>1. ASSUME NEW c \in Calls, Request(c) PROVE Goal
  <2> DEFINE decision == Decision(policy, Tool(c), Target(c))
  <2>1. /\ policy' = policy /\ request' = request /\ since' = [since EXCEPT ![c] = {policy}]
        /\ \/ Goto(c, "over")
           \/ /\ Goto(c, "start") /\ decision # "block"
              /\ policy.valid /\ InputSafe(policy, Tool(c), Target(c))
    BY <1>1, Zenon DEF Request
  <2>2. ASSUME Family(Tool(c)) \in {"mcp", "github"}, policy.valid, decision # "block",
               InputSafe(policy, Tool(c), Target(c))
        PROVE  Lets(policy, c)
    BY <2>2, SafeMeansLets
  <2> HIDE DEF decision
  <2>3. CASE Goto(c, "over")
    BY <2>1, <2>3
  <2>4. CASE ~Goto(c, "over")
    BY <2>1, <2>2, <2>4
  <2> QED BY <2>3, <2>4
<1>2. ASSUME NEW c \in Calls, Rule(c) PROVE Goal
  BY <1>2 DEF Rule
<1>3. ASSUME NEW c \in Calls, Continue(c) PROVE Goal
  <2>1. /\ request' = request /\ policy' = policy /\ files' = files /\ checkpoints' = checkpoints
        /\ cache' = cache /\ approval' = approval /\ rewind' = rewind /\ effects' = effects
        /\ since' = [since EXCEPT ![c] = {policy}]
        /\ \/ Fail(c)
           \/ /\ policy.valid /\ InputSafe(policy, Tool(c), Target(c))
              /\ \E step \in {"snapshot", "start"} : Goto(c, step)
              /\ failed' = failed
        /\ Continues(Tool(c))
    BY <1>3, Zenon DEF Continue
  <2>2. Family(Tool(c)) \in {"mcp", "github"} /\ policy.valid /\ InputSafe(policy, Tool(c), Target(c))
          => Lets(policy, c)
    BY <2>1, SafeMeansLets
  <2>3. CASE Fail(c)
    BY <2>1, <2>3
  <2>4. CASE ~Fail(c)
    BY <2>1, <2>2, <2>4
  <2> QED BY <2>3, <2>4
<1>4. ASSUME NEW c \in Calls, Snapshot(c) PROVE Goal
  <2>1. /\ policy' = policy /\ since' = since /\ request' = request
        /\ pc[c] = "snapshot"
        /\ Fail(c) \/ (Goto(c, "start") /\ failed' = failed)
    BY <1>4, Zenon DEF Snapshot
  <2> QED BY <2>1
<1>5. ASSUME NEW c \in Calls, Start(c) PROVE Goal
  BY <1>5 DEF Start
<1>6. ASSUME NEW c \in Calls, Throws(c) PROVE Goal
  BY <1>6 DEF Throws
<1>7. ASSUME NEW c \in Calls, RunFilesystem(c) PROVE Goal
  BY <1>7 DEF RunFilesystem, Works, TookEffect
<1>8. ASSUME NEW c \in Calls, RunGit(c) PROVE Goal
  BY <1>8 DEF RunGit, Works, TookEffect
<1>9. ASSUME NEW c \in Calls, RunShell(c) PROVE Goal
  BY <1>9 DEF RunShell, Works, TookEffect
<1>10. ASSUME NEW c \in Calls, RunReport(c) PROVE Goal
  BY <1>10 DEF RunReport, Works, TookEffect
<1>11. ASSUME NEW c \in Calls, RunReading(c) PROVE Goal
  BY <1>11 DEF RunReading, Works, TookEffect
<1>12. ASSUME NEW c \in Calls, RunBrowser(c) PROVE Goal
  BY <1>12 DEF RunBrowser, Works, TookEffect
<1>13. ASSUME NEW c \in Calls, RunGithub(c) PROVE Goal
  BY <1>13 DEF RunGithub, Works, TookEffect
<1>14. ASSUME NEW c \in Calls, RunMcpCall(c) PROVE Goal
  BY <1>14 DEF RunMcpCall, Works, TookEffect
<1>15. ASSUME NEW c \in Calls, RunMcpList(c) PROVE Goal
  BY <1>15 DEF RunMcpList, Works, TookEffect
<1>16. ASSUME NEW c \in Calls, WorksButFails(c) PROVE Goal
  BY <1>16 DEF WorksButFails, TookEffect
<1>17. ASSUME NEW c \in Calls, AnswerFromCache(c) PROVE Goal
  BY <1>17 DEF AnswerFromCache
<1>18. ASSUME NEW c \in Calls, WriteOutput(c) PROVE Goal
  <2>1. /\ policy' = policy /\ since' = since /\ request' = request
        /\ pc[c] = "output"
        /\ Fail(c) \/ Goto(c, "artifacts")
    BY <1>18, Zenon DEF WriteOutput
  <2> QED BY <2>1
<1>19. ASSUME NEW c \in Calls, ReadArtifacts(c) PROVE Goal
  BY <1>19 DEF ReadArtifacts
<1>20. ASSUME NEW c \in Calls, Register(c) PROVE Goal
  BY <1>20 DEF Register
<1>21. ASSUME NEW c \in Calls, Complete(c) PROVE Goal
  BY <1>21 DEF Complete
<1>22. ASSUME NEW c \in Calls, MarkExecuted(c) PROVE Goal
  BY <1>22 DEF MarkExecuted
<1>23. ASSUME NEW c \in Calls, Die(c) PROVE Goal
  BY <1>23 DEF Die
<1>24. ASSUME NEW k \in DOMAIN checkpoints, Rewind(k) PROVE Goal
  BY <1>24 DEF Rewind
<1>25. ASSUME NEW x \in Targets, EditFile(x) PROVE Goal
  BY <1>25 DEF EditFile
<1>26. CASE MarkRestored
  BY <1>26 DEF MarkRestored
<1>27. CASE DieRewinding
  BY <1>27 DEF DieRewinding
<1>28. CASE EditPolicy
  BY <1>28 DEF EditPolicy
<1>29. CASE Expire
  BY <1>29 DEF Expire
<1>30. CASE UNCHANGED vars
  BY <1>30 DEF vars
<1> QED
  BY <1>1, <1>2, <1>3, <1>4, <1>5, <1>6, <1>7, <1>8, <1>9, <1>10, <1>11,
     <1>12, <1>13, <1>14, <1>15, <1>16, <1>17, <1>18, <1>19, <1>20, <1>21,
     <1>22, <1>23, <1>24, <1>25, <1>26, <1>27, <1>28, <1>29, <1>30 DEF Next

(* The file tools are of the local family, the list of servers is not a    *)
(* browser's.                                                              *)
LEMMA LocalFiles ==
  /\ Family("filesystem.read") = "local" /\ Family("filesystem.write") = "local"
  /\ Family("mcp.servers.list") = "mcp"
  BY DEF Family, Meta, Row, Tools

(* A tool that takes effect passes the checks of its run.                  *)
LEMMA EffectMeansAccepted ==
  ASSUME Typed, Next, NEW c \in Calls, effects'[c] > effects[c]
  PROVE  /\ pc[c] = "run" /\ RunAccepts(policy, Tool(c), Target(c))
         /\ since' = since /\ request' = request
<1> DEFINE Goal == /\ pc[c] = "run" /\ RunAccepts(policy, Tool(c), Target(c))
                   /\ since' = since /\ request' = request
<1>0. effects[c] \in Nat
  BY DEF Typed, TypeOK
<1> USE <1>0 DEF ghosts
<1>1. ASSUME NEW d \in Calls, Request(d) PROVE Goal
  BY <1>1 DEF Request
<1>2. ASSUME NEW d \in Calls, Rule(d) PROVE Goal
  BY <1>2 DEF Rule
<1>3. ASSUME NEW d \in Calls, Continue(d) PROVE Goal
  BY <1>3 DEF Continue
<1>4. ASSUME NEW d \in Calls, Snapshot(d) PROVE Goal
  BY <1>4 DEF Snapshot
<1>5. ASSUME NEW d \in Calls, Start(d) PROVE Goal
  BY <1>5 DEF Start
<1>6. ASSUME NEW d \in Calls, Throws(d) PROVE Goal
  BY <1>6 DEF Throws
<1>7. ASSUME NEW d \in Calls, RunFilesystem(d) PROVE Goal
  BY <1>7 DEF RunFilesystem, Works, TookEffect, Typed, TypeOK
<1>8. ASSUME NEW d \in Calls, RunGit(d) PROVE Goal
  BY <1>8 DEF RunGit, Works, TookEffect, Typed, TypeOK
<1>9. ASSUME NEW d \in Calls, RunShell(d) PROVE Goal
  BY <1>9 DEF RunShell, Works, TookEffect, Typed, TypeOK
<1>10. ASSUME NEW d \in Calls, RunReport(d) PROVE Goal
  BY <1>10 DEF RunReport, Works, TookEffect, Typed, TypeOK
<1>11. ASSUME NEW d \in Calls, RunReading(d) PROVE Goal
  BY <1>11 DEF RunReading, Works, TookEffect, Typed, TypeOK
<1>12. ASSUME NEW d \in Calls, RunBrowser(d) PROVE Goal
  BY <1>12 DEF RunBrowser, Works, TookEffect, Typed, TypeOK
<1>13. ASSUME NEW d \in Calls, RunGithub(d) PROVE Goal
  BY <1>13 DEF RunGithub, Works, TookEffect, Typed, TypeOK
<1>14. ASSUME NEW d \in Calls, RunMcpCall(d) PROVE Goal
  BY <1>14 DEF RunMcpCall, Works, TookEffect, Typed, TypeOK
<1>15. ASSUME NEW d \in Calls, RunMcpList(d) PROVE Goal
  BY <1>15 DEF RunMcpList, Works, TookEffect, Typed, TypeOK
<1>16. ASSUME NEW d \in Calls, WorksButFails(d) PROVE Goal
  BY <1>16 DEF WorksButFails, TookEffect, Typed, TypeOK
<1>17. ASSUME NEW d \in Calls, AnswerFromCache(d) PROVE Goal
  BY <1>17 DEF AnswerFromCache
<1>18. ASSUME NEW d \in Calls, WriteOutput(d) PROVE Goal
  BY <1>18 DEF WriteOutput
<1>19. ASSUME NEW d \in Calls, ReadArtifacts(d) PROVE Goal
  BY <1>19 DEF ReadArtifacts
<1>20. ASSUME NEW d \in Calls, Register(d) PROVE Goal
  BY <1>20 DEF Register
<1>21. ASSUME NEW d \in Calls, Complete(d) PROVE Goal
  BY <1>21 DEF Complete
<1>22. ASSUME NEW d \in Calls, MarkExecuted(d) PROVE Goal
  BY <1>22 DEF MarkExecuted
<1>23. ASSUME NEW d \in Calls, Die(d) PROVE Goal
  BY <1>23 DEF Die
<1>24. ASSUME NEW k \in DOMAIN checkpoints, Rewind(k) PROVE Goal
  BY <1>24 DEF Rewind
<1>25. ASSUME NEW x \in Targets, EditFile(x) PROVE Goal
  BY <1>25 DEF EditFile
<1>26. CASE MarkRestored
  BY <1>26 DEF MarkRestored
<1>27. CASE DieRewinding
  BY <1>27 DEF DieRewinding
<1>28. CASE EditPolicy
  BY <1>28 DEF EditPolicy
<1>29. CASE Expire
  BY <1>29 DEF Expire
<1> QED
  BY <1>1, <1>2, <1>3, <1>4, <1>5, <1>6, <1>7, <1>8, <1>9, <1>10, <1>11,
     <1>12, <1>13, <1>14, <1>15, <1>16, <1>17, <1>18, <1>19, <1>20, <1>21,
     <1>22, <1>23, <1>24, <1>25, <1>26, <1>27, <1>28, <1>29 DEF Next

(* A browser, MCP or GitHub tool acts only under a policy that lets its    *)
(* family and target through, in force since its call or continuation was  *)
(* started, whatever was approved earlier.                                 *)
THEOREM NeverStalePolicy == Spec => NoStalePolicy
<1>1. PolicyInv /\ [Next]_vars =>
        [\A c \in Calls :
           effects'[c] > effects[c] /\ Family(Tool(c)) \in {"browser", "mcp", "github"} =>
             \E p \in since[c] :
               /\ p.valid /\ Family(Tool(c)) \notin p.blocks
               /\ AimsAtTarget(Tool(c)) => Target(c) \in p.targets]_vars
  <2> SUFFICES ASSUME PolicyInv, Next, NEW c \in Calls, effects'[c] > effects[c],
                      Family(Tool(c)) \in {"browser", "mcp", "github"}
               PROVE  \E p \in since[c] : Lets(p, c)
    BY DEF Lets
  <2>1. pc[c] = "run" /\ RunAccepts(policy, Tool(c), Target(c))
    BY EffectMeansAccepted DEF PolicyInv
  <2>2. CASE Family(Tool(c)) \in {"mcp", "github"}
    BY <2>1, <2>2 DEF PolicyInv, Checked
  <2>3. CASE Family(Tool(c)) = "browser"
    <3>1. policy \in since[c]
      BY <2>1 DEF PolicyInv, InFlight, Resting
    <3>2. Tool(c) \notin {"filesystem.read", "filesystem.write", "mcp.servers.list"}
      BY <2>3, LocalFiles
    <3>3. RunAccepts(policy, Tool(c), Target(c)) =>
            policy.valid /\ "browser" \notin policy.blocks /\ Target(c) \in policy.targets
      BY <2>3, <3>2 DEF RunAccepts, UrlAllowed
    <3>4. Lets(policy, c)
      BY <2>1, <2>3, <3>3 DEF Lets
    <3> QED BY <3>1, <3>4
  <2> QED BY <2>2, <2>3
<1>2. Spec => []PolicyInv
  BY PolicyInit, PolicyNext, PTL DEF Spec
<1> QED BY <1>1, <1>2, PTL DEF Spec, NoStalePolicy
-----------------------------------------------------------------------------
(* Every effect of a call is paid for by a failure of it, except the last: *)
(* a call that may still act, or be continued, has no effect beyond its    *)
(* failures.                                                               *)
MayStillAct(c) ==
  \/ pc[c] \in {"idle", "snapshot", "start", "run"}
  \/ pc[c] = "over" /\ approval[c] \in {"pending", "approved"}

EffectsPaid(c) ==
  /\ pc[c] = "idle" => approval[c] = "none"
  /\ pc[c] \in Busy => approval[c] \in {"none", "approved"}
  /\ effects[c] <= 1 + failed[c]
  /\ MayStillAct(c) => effects[c] <= failed[c]

EffectInv ==
  /\ Typed
  /\ \A c \in Calls : EffectsPaid(c)

(* EffectInv holds at the start.                                           *)
LEMMA EffectInit == Init => EffectInv
  BY TypedInit DEF Init, EffectInv, EffectsPaid, MayStillAct, Busy

(* Every step keeps EffectInv.                                             *)
LEMMA EffectNext == EffectInv /\ [Next]_vars => EffectInv'
<1> SUFFICES ASSUME EffectInv, [Next]_vars PROVE \A d \in Calls : EffectsPaid(d)'
  BY TypedNext DEF EffectInv
<1> DEFINE Goal == \A d \in Calls : EffectsPaid(d)'
<1> USE DEF EffectInv, Typed, TypeOK, EffectsPaid, MayStillAct, Busy, Resting, Goto, Fail,
            disk, ghosts
<1>1. ASSUME NEW c \in Calls, Request(c) PROVE Goal
  BY <1>1 DEF Request
<1>2. ASSUME NEW c \in Calls, Rule(c) PROVE Goal
  BY <1>2 DEF Rule
<1>3. ASSUME NEW c \in Calls, Continue(c) PROVE Goal
  BY <1>3 DEF Continue
<1>4. ASSUME NEW c \in Calls, Snapshot(c) PROVE Goal
  <2>1. /\ pc[c] = "snapshot" /\ approval' = approval /\ effects' = effects
        /\ Fail(c) \/ (Goto(c, "start") /\ failed' = failed)
    BY <1>4, Zenon DEF Snapshot
  <2> QED BY <2>1
<1>5. ASSUME NEW c \in Calls, Start(c) PROVE Goal
  BY <1>5 DEF Start
<1>6. ASSUME NEW c \in Calls, Throws(c) PROVE Goal
  BY <1>6 DEF Throws
<1>7. ASSUME NEW c \in Calls, RunFilesystem(c) PROVE Goal
  BY <1>7 DEF RunFilesystem, Works, TookEffect
<1>8. ASSUME NEW c \in Calls, RunGit(c) PROVE Goal
  BY <1>8 DEF RunGit, Works, TookEffect
<1>9. ASSUME NEW c \in Calls, RunShell(c) PROVE Goal
  BY <1>9 DEF RunShell, Works, TookEffect
<1>10. ASSUME NEW c \in Calls, RunReport(c) PROVE Goal
  BY <1>10 DEF RunReport, Works, TookEffect
<1>11. ASSUME NEW c \in Calls, RunReading(c) PROVE Goal
  BY <1>11 DEF RunReading, Works, TookEffect
<1>12. ASSUME NEW c \in Calls, RunBrowser(c) PROVE Goal
  BY <1>12 DEF RunBrowser, Works, TookEffect
<1>13. ASSUME NEW c \in Calls, RunGithub(c) PROVE Goal
  BY <1>13 DEF RunGithub, Works, TookEffect
<1>14. ASSUME NEW c \in Calls, RunMcpCall(c) PROVE Goal
  BY <1>14 DEF RunMcpCall, Works, TookEffect
<1>15. ASSUME NEW c \in Calls, RunMcpList(c) PROVE Goal
  BY <1>15 DEF RunMcpList, Works, TookEffect
<1>16. ASSUME NEW c \in Calls, WorksButFails(c) PROVE Goal
  BY <1>16 DEF WorksButFails, TookEffect
<1>17. ASSUME NEW c \in Calls, AnswerFromCache(c) PROVE Goal
  BY <1>17 DEF AnswerFromCache
<1>18. ASSUME NEW c \in Calls, WriteOutput(c) PROVE Goal
  BY <1>18 DEF WriteOutput
<1>19. ASSUME NEW c \in Calls, ReadArtifacts(c) PROVE Goal
  BY <1>19 DEF ReadArtifacts
<1>20. ASSUME NEW c \in Calls, Register(c) PROVE Goal
  BY <1>20 DEF Register
<1>21. ASSUME NEW c \in Calls, Complete(c) PROVE Goal
  BY <1>21 DEF Complete
<1>22. ASSUME NEW c \in Calls, MarkExecuted(c) PROVE Goal
  BY <1>22 DEF MarkExecuted
<1>23. ASSUME NEW c \in Calls, Die(c) PROVE Goal
  BY <1>23 DEF Die
<1>24. ASSUME NEW k \in DOMAIN checkpoints, Rewind(k) PROVE Goal
  BY <1>24 DEF Rewind
<1>25. ASSUME NEW x \in Targets, EditFile(x) PROVE Goal
  BY <1>25 DEF EditFile
<1>26. CASE MarkRestored
  BY <1>26 DEF MarkRestored
<1>27. CASE DieRewinding
  BY <1>27 DEF DieRewinding
<1>28. CASE EditPolicy
  BY <1>28 DEF EditPolicy
<1>29. CASE Expire
  BY <1>29 DEF Expire
<1>30. CASE UNCHANGED vars
  BY <1>30 DEF vars
<1> QED
  BY <1>1, <1>2, <1>3, <1>4, <1>5, <1>6, <1>7, <1>8, <1>9, <1>10, <1>11,
     <1>12, <1>13, <1>14, <1>15, <1>16, <1>17, <1>18, <1>19, <1>20, <1>21,
     <1>22, <1>23, <1>24, <1>25, <1>26, <1>27, <1>28, <1>29, <1>30 DEF Next

(* One process at a time: an approved action takes effect once, plus at    *)
(* most once for every attempt that reported a failure or died.            *)
THEOREM EffectsArePaidFor == Spec => []OnceUnlessFailed
<1>1. EffectInv => OnceUnlessFailed
  BY DEF EffectInv, EffectsPaid, OnceUnlessFailed
<1> QED BY <1>1, EffectInit, EffectNext, PTL DEF Spec
-----------------------------------------------------------------------------
(* A checkpoint stands while it can still be undone; undoing the standing  *)
(* ones, newest first, leaves in a file what the oldest of them holds.     *)
Stands(k) == ~checkpoints[k].restored /\ ~checkpoints[k].torn
Standing(s, x) == {k \in s : Stands(k) /\ checkpoints[k].target = x}
Oldest(s, k) == k \in s /\ \A j \in s : k <= j

Holds(s, fs) ==
  /\ fs \in [Targets -> Contents]
  /\ \A x \in Targets :
       /\ Standing(s, x) = {} => fs[x] = files[x]
       /\ \A k \in Standing(s, x) : Oldest(Standing(s, x), k) => fs[x] = checkpoints[k].snapshot

(* Undoing one more checkpoint, older than the others.                     *)
LEMMA UndoOlder ==
  ASSUME Typed, NEW s \in SUBSET DOMAIN checkpoints, NEW m \in s, \A j \in s : m <= j,
         NEW fs, Holds(s \ {m}, fs)
  PROVE  Holds(s, Undo(checkpoints[m], fs))
<1> DEFINE r == s \ {m}
           row == checkpoints[m]
<1>1. row \in Checkpoint /\ s \subseteq Nat
  BY CheckpointRow DEF Typed
<1>2. fs \in [Targets -> Contents] /\ row.target \in Targets /\ row.snapshot \in Contents
  BY <1>1 DEF Holds, Checkpoint
<1>3. CASE ~Stands(m)
  <2>1. Undo(row, fs) = fs
    BY <1>3 DEF Undo, Stands
  <2>2. \A x \in Targets : Standing(s, x) = Standing(r, x)
    BY <1>3 DEF Standing
  <2> HIDE DEF r
  <2> QED BY <2>1, <2>2 DEF Holds, r
<1>4. CASE Stands(m)
  <2>1. Undo(row, fs) = [fs EXCEPT ![row.target] = row.snapshot]
    BY <1>4 DEF Undo, Stands
  <2>2. Undo(row, fs) \in [Targets -> Contents]
    BY <1>2, <2>1
  <2>3. ASSUME NEW x \in Targets, x # row.target
        PROVE  Standing(s, x) = Standing(r, x) /\ Undo(row, fs)[x] = fs[x]
    BY <1>2, <2>1, <2>3 DEF Standing
  <2>4. Undo(row, fs)[row.target] = row.snapshot
    BY <1>2, <2>1
  <2>5. Oldest(Standing(s, row.target), m)
    BY <1>4 DEF Standing, Oldest
  <2>6. ASSUME NEW k \in Standing(s, row.target), Oldest(Standing(s, row.target), k)
        PROVE  k = m
    <3>1. k \in Nat /\ m \in Nat /\ k <= m /\ m <= k
      BY <1>1, <2>5, <2>6 DEF Oldest, Standing
    <3> QED BY <3>1
  <2>7. ASSUME NEW x \in Targets
        PROVE  /\ Standing(s, x) = {} => Undo(row, fs)[x] = files[x]
               /\ \A k \in Standing(s, x) : Oldest(Standing(s, x), k)
                     => Undo(row, fs)[x] = checkpoints[k].snapshot
    <3>1. CASE x = row.target
      BY <2>4, <2>5, <2>6, <3>1 DEF Oldest
    <3>2. CASE x # row.target
      BY <2>3, <3>2 DEF Holds
    <3> QED BY <3>1, <3>2
  <2> QED BY <2>2, <2>7 DEF Holds
<1> QED BY <1>3, <1>4

(* The fold that undoes them does that.                                    *)
LEMMA UndoneHolds == Typed => Holds(DOMAIN checkpoints, Undone)
<1> SUFFICES ASSUME Typed PROVE Holds(DOMAIN checkpoints, Undone)
  OBVIOUS
<1> DEFINE D == DOMAIN checkpoints
           V == [Targets -> Contents]
           op == [p \in D \X V |-> Undo(checkpoints[p[1]], p[2])]
           pick == [s \in SUBSET D |-> Min(s)]
           iter(s, f) == IF s = {} THEN files ELSE Undo(checkpoints[Min(s)], f[s \ {Min(s)}])
           Is(f) == f = [s \in SUBSET D |-> iter(s, f)]
           h == CHOOSE f : Is(f)
           P == {s \in SUBSET D : Holds(s, h[s])}
<1>1. D \subseteq Nat /\ IsFiniteSet(D)
  <2>1. D = 1..Len(checkpoints) /\ Len(checkpoints) \in Nat
    BY DEF Typed
  <2> QED BY <2>1, FS_Interval
<1>2. ASSUME NEW s \in SUBSET D, s # {} PROVE Min(s) \in s /\ \A j \in s : Min(s) <= j
  BY <1>1, <1>2, Lowest DEF Min
<1>3. Undone = h[D]
  BY DEF Undone, FoldRight, MapThenFoldSet
<1>4. \E f : Is(f)
  <2>1. Picks(pick, D)
    BY <1>2 DEF Picks
  <2>2. op \in [D \X V -> V]
    <3>1. ASSUME NEW k \in D, NEW fs \in V PROVE Undo(checkpoints[k], fs) \in V
      <4>1. checkpoints[k].target \in Targets /\ checkpoints[k].snapshot \in Contents
        BY CheckpointRow DEF Checkpoint
      <4> QED BY <4>1 DEF Undo
    <3> QED BY <3>1
  <2>3. files \in V
    BY DEF Typed, TypeOK
  <2>4. PICK f \in [SUBSET D -> V] : Folded(f, D, files, op, pick)
    <3> HIDE DEF D, V, op, pick
    <3> QED BY <1>1, <2>1, <2>2, <2>3, FoldExists
  <2>5. ASSUME NEW s \in SUBSET D, s # {} PROVE op[<<pick[s], f[s \ {pick[s]}]>>] = iter(s, f)
    <3>1. pick[s] = Min(s) /\ Min(s) \in D /\ f[s \ {Min(s)}] \in V
      BY <1>2, <2>5
    <3> HIDE DEF pick, D, V
    <3> QED BY <2>5, <3>1
  <2>6. Is(f)
    <3>1. \A s \in SUBSET D : (IF s = {} THEN files ELSE op[<<pick[s], f[s \ {pick[s]}]>>]) = iter(s, f)
      BY <2>5
    <3> HIDE DEF op, pick, iter
    <3> QED BY <2>4, <3>1 DEF Folded
  <2> QED BY <2>6
<1>5. h = [s \in SUBSET D |-> iter(s, h)]
  <2> HIDE DEF iter, D
  <2> QED BY <1>4
<1> HIDE DEF h
<1>6. ASSUME NEW s \in SUBSET D, \A r \in SUBSET s : r # s => r \in P PROVE s \in P
  <2>1. h[s] = iter(s, h)
    <3> HIDE DEF iter
    <3> QED BY <1>5
  <2>2. CASE s = {}
    <3>1. h[s] = files
      BY <2>1, <2>2
    <3> QED BY <2>2, <3>1 DEF Holds, Standing, Typed, TypeOK
  <2>3. CASE s # {}
    <3> DEFINE m == Min(s)
    <3>1. m \in s /\ \A j \in s : m <= j
      BY <1>2, <2>3
    <3>2. Holds(s \ {m}, h[s \ {m}])
      BY <1>6, <3>1
    <3>3. h[s] = Undo(checkpoints[m], h[s \ {m}])
      BY <2>1, <2>3
    <3> HIDE DEF m
    <3> QED BY <3>1, <3>2, <3>3, UndoOlder
  <2> QED BY <2>2, <2>3
<1>7. D \in P
  <2> HIDE DEF P, D
  <2>1. \A s \in SUBSET D : s \in P
    BY <1>1, <1>6, SubsetInduction
  <2> QED BY <2>1
<1> QED BY <1>3, <1>7

(* While all is orderly and serial, the oldest standing checkpoint of a    *)
(* file holds what it was at first, read as text, a file without one is as *)
(* it was, and a write is under way only over a standing checkpoint.       *)
Stack(x) == Standing(DOMAIN checkpoints, x)

BaseKept(x) ==
  /\ Stack(x) = {} => Decoded(files[x]) = Decoded(base[x])
  /\ \A k \in Stack(x) : Oldest(Stack(x), k)
                           => Decoded(checkpoints[k].snapshot) = Decoded(base[x])

Covered(c) ==
  Tool(c) = "filesystem.write" /\ pc[c] \in {"start", "run"} => Stack(Target(c)) # {}

Undoing ==
  rewind.step = "mark" =>
    /\ InFlight = {}
    /\ Stands(rewind.of) /\ Newest(rewind.of)
    /\ files[checkpoints[rewind.of].target] = checkpoints[rewind.of].snapshot

RewindInv ==
  /\ Typed
  /\ base \in [Targets -> Contents]
  /\ orderly /\ serial =>
       /\ \A x \in Targets : BaseKept(x)
       /\ \A c \in Calls : Covered(c)
       /\ Undoing

(* RewindInv is what RewindRestores needs.                                 *)
LEMMA RewindEnough == RewindInv => RewindRestores
<1> SUFFICES ASSUME RewindInv, orderly, serial, Quiet PROVE Text(Undone) = Text(base)
  BY DEF RewindRestores
<1>1. Holds(DOMAIN checkpoints, Undone)
  BY UndoneHolds DEF RewindInv
<1>2. ASSUME NEW x \in Targets PROVE Decoded(Undone[x]) = Decoded(base[x])
  <2>1. BaseKept(x)
    BY DEF RewindInv
  <2>2. CASE Stack(x) = {}
    BY <1>1, <2>1, <2>2 DEF BaseKept, Holds, Stack
  <2>3. CASE Stack(x) # {}
    <3>1. Stack(x) \subseteq Nat
      BY DEF Stack, Standing, RewindInv, Typed
    <3>2. PICK k \in Stack(x) : Oldest(Stack(x), k)
      BY <2>3, <3>1, Lowest DEF Oldest
    <3> QED BY <1>1, <2>1, <3>2 DEF BaseKept, Holds, Stack
  <2> QED BY <2>2, <2>3
<1> QED BY <1>2 DEF Text

(* RewindInv holds at the start.                                           *)
LEMMA RewindInit == Init => RewindInv
<1> SUFFICES ASSUME Init PROVE RewindInv
  OBVIOUS
<1>1. Typed /\ base = files /\ files \in [Targets -> Contents] /\ DOMAIN checkpoints = {}
  BY TypedInit DEF Init, Contents
<1>2. \A x \in Targets : BaseKept(x)
  BY <1>1 DEF BaseKept, Stack, Standing
<1> QED BY <1>1, <1>2 DEF Init, RewindInv, Covered, Undoing

(* A step that touches neither the files nor the checkpoints: it brings no *)
(* write to its run, and starts nothing while a rewind is under way.       *)
Calm ==
  /\ UNCHANGED <<files, checkpoints, rewind, base, request>>
  /\ (orderly' => orderly) /\ serial' = serial
  /\ \A c \in Calls : Tool(c) = "filesystem.write" /\ pc'[c] \in {"start", "run"}
                        => pc[c] \in {"start", "run"}
  /\ serial /\ rewind.step = "mark" => InFlight' \subseteq InFlight

(* Such a step keeps RewindInv.                                            *)
LEMMA CalmKeeps ==
  ASSUME RewindInv, Typed', Calm
  PROVE  RewindInv'
<1>1. /\ \A x : Stack(x)' = Stack(x)
      /\ \A k : Stands(k)' = Stands(k) /\ Newest(k)' = Newest(k)
  BY DEF Calm, Stack, Standing, Stands, Newest
<1>2. SUFFICES ASSUME orderly, serial
               PROVE  (\A x \in Targets : BaseKept(x)') /\ (\A c \in Calls : Covered(c)') /\ Undoing'
  BY DEF RewindInv, Calm
<1>3. \A x \in Targets : BaseKept(x)'
  BY <1>1, <1>2 DEF RewindInv, BaseKept, Calm
<1>4. \A c \in Calls : Covered(c)'
  BY <1>1, <1>2 DEF RewindInv, Covered, Calm, Tool, Target
<1>5. Undoing'
  BY <1>1, <1>2 DEF RewindInv, Undoing, Calm
<1> QED BY <1>3, <1>4, <1>5

(* A snapshot goes on top of the stack of its file.                        *)
LEMMA SnapshotStacks ==
  ASSUME Typed, NEW c \in Calls, NEW torn \in BOOLEAN, checkpoints' = NewCheckpoint(c, torn)
  PROVE  /\ \A x \in Targets : Stack(x)' = IF x = Target(c) /\ ~torn
                                          THEN Stack(x) \union {Len(checkpoints) + 1} ELSE Stack(x)
         /\ checkpoints'[Len(checkpoints) + 1].snapshot = Decoded(files[Target(c)])
         /\ \A k \in DOMAIN checkpoints : checkpoints'[k] = checkpoints[k] /\ k < Len(checkpoints) + 1
<1> DEFINE row == [target |-> Target(c), by |-> c, snapshot |-> Decoded(files[Target(c)]),
                   restored |-> FALSE, torn |-> torn]
           n == Len(checkpoints) + 1
<1>1. checkpoints' = Append(checkpoints, row) /\ checkpoints \in Seq(Checkpoint)
  BY DEF NewCheckpoint, Typed
<1>2. row.target = Target(c) /\ row.snapshot = Decoded(files[Target(c)]) /\ ~row.restored /\ row.torn = torn
  OBVIOUS
<1> HIDE DEF row
<1>3. /\ DOMAIN checkpoints' = DOMAIN checkpoints \union {n} /\ checkpoints'[n] = row
      /\ \A k \in DOMAIN checkpoints : checkpoints'[k] = checkpoints[k] /\ k < n /\ k # n
  BY <1>1
<1> HIDE DEF n
<1>4. ASSUME NEW x \in Targets
      PROVE  Stack(x)' = IF x = Target(c) /\ ~torn THEN Stack(x) \union {n} ELSE Stack(x)
  BY <1>2, <1>3 DEF Stack, Standing, Stands
<1> QED BY <1>2, <1>3, <1>4 DEF n

(* A snapshot, or a death in the middle of one, keeps RewindInv.           *)
LEMMA SnapshotKeeps ==
  ASSUME RewindInv, Typed', NEW c \in Calls, NEW torn \in BOOLEAN, pc[c] = "snapshot",
         checkpoints' = NewCheckpoint(c, torn),
         UNCHANGED <<files, rewind, base, request, orderly, serial>>,
         \E s \in {"start", "over"} : pc' = [pc EXCEPT ![c] = s],
         torn => pc'[c] = "over"
  PROVE  RewindInv'
<1> DEFINE n == Len(checkpoints) + 1
<1>1. Typed
  BY DEF RewindInv
<1>2. /\ \A x \in Targets : Stack(x)' = IF x = Target(c) /\ ~torn THEN Stack(x) \union {n} ELSE Stack(x)
      /\ checkpoints'[n].snapshot = Decoded(files[Target(c)])
      /\ \A k \in DOMAIN checkpoints : checkpoints'[k] = checkpoints[k] /\ k < n
  BY <1>1, SnapshotStacks
<1>3. Target(c) \in Targets /\ DOMAIN checkpoints \subseteq Nat /\ n \in Nat
      /\ \A x : Stack(x) \subseteq DOMAIN checkpoints
  BY <1>1, ToolRunnerAssumption DEF Typed, Target, Stack, Standing
<1>4. SUFFICES ASSUME orderly, serial
               PROVE  (\A x \in Targets : BaseKept(x)') /\ (\A d \in Calls : Covered(d)') /\ Undoing'
  BY DEF RewindInv
<1>5. rewind.step # "mark"
  BY <1>4, Zenon DEF RewindInv, Undoing, InFlight, Resting
<1> HIDE DEF n
<1>6. ASSUME NEW x \in Targets PROVE BaseKept(x)'
  <2>1. BaseKept(x)
    BY <1>4 DEF RewindInv
  <2>2. CASE Stack(x)' = Stack(x)
    BY <1>2, <1>3, <2>1, <2>2 DEF BaseKept
  <2>3. CASE x = Target(c) /\ Stack(x)' = Stack(x) \union {n}
    <3>1. ASSUME NEW k \in Stack(x)', Oldest(Stack(x)', k) PROVE Decoded(checkpoints'[k].snapshot) = Decoded(base[x])
      <4>1. CASE Stack(x) = {}
        <5>1. checkpoints'[k].snapshot = Decoded(files[x])
          BY <1>2, <2>3, <3>1, <4>1
        <5> QED BY <2>1, <4>1, <5>1 DEF BaseKept, Decoded
      <4>2. CASE Stack(x) # {}
        <5>1. PICK j \in Stack(x) : TRUE
          BY <4>2
        <5>2. k <= j /\ j < n /\ j \in Nat /\ k \in Nat
          BY <1>2, <1>3, <2>3, <3>1, <5>1 DEF Oldest
        <5>3. k \in Stack(x) /\ Oldest(Stack(x), k)
          BY <1>3, <2>3, <3>1, <5>2 DEF Oldest
        <5> QED BY <1>2, <1>3, <2>1, <5>3 DEF BaseKept
      <4> QED BY <4>1, <4>2
    <3> QED BY <2>3, <3>1 DEF BaseKept
  <2> QED BY <1>2, <2>2, <2>3
<1>7. ASSUME NEW d \in Calls PROVE Covered(d)'
  <2>1. Target(d) \in Targets
    BY <1>1, ToolRunnerAssumption DEF Typed, Target
  <2>2. Tool(d)' = Tool(d) /\ Target(d)' = Target(d) /\ Covered(d) /\ pc \in [Calls -> Resting \union Busy]
    BY <1>1, <1>4 DEF RewindInv, Tool, Target, Typed, TypeOK, Busy
  <2>3. ASSUME NEW x \in Targets PROVE Stack(x) \subseteq Stack(x)'
    <3>1. Stack(x)' = Stack(x) \/ Stack(x)' = Stack(x) \union {n}
      BY <1>2
    <3> QED BY <3>1
  <2>4. pc'[c] = "start" => Stack(Target(c))' # {}
    <3>1. ASSUME NEW x \in Targets, x = Target(c), ~torn PROVE Stack(x)' = Stack(x) \union {n}
      BY <1>2, <3>1
    <3>2. ~torn => Stack(Target(c))' # {}
      BY <1>3, <3>1 DEF Target
    <3> QED BY <3>2
  <2>5. CASE d = c
    BY <2>2, <2>4, <2>5 DEF Covered
  <2>6. CASE d # c
    BY <2>1, <2>2, <2>3, <2>6 DEF Covered
  <2> QED BY <2>5, <2>6
<1>8. Undoing'
  BY <1>5 DEF Undoing
<1> QED BY <1>6, <1>7, <1>8

(* A write, or a death in the middle of one, keeps RewindInv.              *)
LEMMA WriteKeeps ==
  ASSUME RewindInv, Typed', NEW c \in Calls, NEW v, pc[c] = "run", Tool(c) = "filesystem.write",
         files' = [files EXCEPT ![Target(c)] = v], pc'[c] \notin {"start", "run"},
         \A d \in Calls : d # c => pc'[d] = pc[d],
         UNCHANGED <<checkpoints, rewind, base, request, orderly, serial>>
  PROVE  RewindInv'
<1>1. /\ \A x : Stack(x)' = Stack(x)
      /\ \A d : Tool(d)' = Tool(d) /\ Target(d)' = Target(d)
  BY DEF Stack, Standing, Stands, Tool, Target
<1>2. SUFFICES ASSUME orderly, serial
               PROVE  (\A x \in Targets : BaseKept(x)') /\ (\A d \in Calls : Covered(d)') /\ Undoing'
  BY DEF RewindInv
<1>3. Covered(c) /\ Stack(Target(c)) # {}
  BY <1>2 DEF RewindInv, Covered
<1>4. ASSUME NEW x \in Targets PROVE BaseKept(x)'
  <2>1. Stack(x) = {} => files'[x] = files[x]
    BY <1>3
  <2> QED BY <1>1, <1>2, <2>1 DEF RewindInv, BaseKept
<1>5. \A d \in Calls : Covered(d)'
  BY <1>1, <1>2 DEF RewindInv, Covered
<1>6. Undoing'
  BY <1>2, Zenon DEF RewindInv, Undoing, InFlight, Resting
<1> QED BY <1>4, <1>5, <1>6

(* Giving a file its snapshot back, and marking the checkpoint restored.   *)
LEMMA RewindKeeps ==
  ASSUME RewindInv, Typed', NEW k \in DOMAIN checkpoints, Rewind(k)
  PROVE  RewindInv'
<1> DEFINE x == checkpoints[k].target
<1>1. /\ files' = [files EXCEPT ![x] = checkpoints[k].snapshot]
      /\ rewind' = [step |-> "mark", of |-> k] /\ ~checkpoints[k].torn
      /\ orderly' => orderly /\ serial /\ ~checkpoints[k].restored /\ Newest(k)
      /\ UNCHANGED <<checkpoints, base, request, serial, pc>>
      /\ MayStart
  BY DEF Rewind
<1>2. /\ \A y : Stack(y)' = Stack(y)
      /\ \A d : Tool(d)' = Tool(d) /\ Target(d)' = Target(d)
  BY <1>1 DEF Stack, Standing, Stands, Tool, Target
<1>3. SUFFICES ASSUME orderly', serial
               PROVE  (\A y \in Targets : BaseKept(y)') /\ (\A d \in Calls : Covered(d)') /\ Undoing'
  BY <1>1 DEF RewindInv
<1>4. Stands(k) /\ Newest(k) /\ orderly /\ InFlight = {}
  BY <1>1, <1>3 DEF Stands, MayStart, Quiet
<1>5. k \in Stack(x) /\ checkpoints[k] \in Checkpoint /\ files \in [Targets -> Contents]
  BY <1>4, CheckpointRow DEF Stack, Standing, RewindInv, Typed, TypeOK
<1> HIDE DEF x
<1>6. ASSUME NEW y \in Targets PROVE BaseKept(y)'
  <2>1. Stack(y) = {} => files'[y] = files[y]
    BY <1>1, <1>5
  <2> QED BY <1>1, <1>2, <1>3, <1>4, <2>1 DEF RewindInv, BaseKept
<1>7. \A d \in Calls : Covered(d)'
  BY <1>1, <1>2, <1>3, <1>4 DEF RewindInv, Covered
<1>8. Undoing'
  <2>1. rewind'.of = k /\ x \in Targets
    BY <1>1, <1>5 DEF x, Checkpoint
  <2>2. InFlight' = {} /\ Stands(k)' /\ Newest(k)'
    BY <1>1, <1>4 DEF InFlight, Stands, Newest
  <2>3. files'[x] = checkpoints'[k].snapshot /\ checkpoints'[k].target = x
    BY <1>1, <1>5, <2>1 DEF x
  <2> QED BY <2>1, <2>2, <2>3 DEF Undoing
<1> QED BY <1>6, <1>7, <1>8

(* What remains of a stack is as old as it was, and a file whose stack is  *)
(* gone has just been given back what its oldest checkpoint holds, whether *)
(* the checkpoint rewound is marked or torn by a death.                    *)
LEMMA SettleKeeps ==
  ASSUME RewindInv, Typed', rewind.step = "mark", NEW row, row.restored \/ row.torn,
         row.target = checkpoints[rewind.of].target,
         row.snapshot = checkpoints[rewind.of].snapshot,
         checkpoints' = [checkpoints EXCEPT ![rewind.of] = row], rewind'.step = "none",
         UNCHANGED <<files, base, request, orderly, serial, pc>>
  PROVE  RewindInv'
<1> DEFINE k == rewind.of
<1>1. /\ rewind.step = "mark" /\ checkpoints' = [checkpoints EXCEPT ![k] = row]
      /\ rewind'.step = "none"
      /\ UNCHANGED <<files, base, request, orderly, serial, pc>>
  OBVIOUS
<1>2. k \in DOMAIN checkpoints /\ checkpoints[k] \in Checkpoint
  BY <1>1, CheckpointRow DEF RewindInv, Typed
<1>3. row.target = checkpoints[k].target /\ row.snapshot = checkpoints[k].snapshot
  OBVIOUS
<1>4. SUFFICES ASSUME orderly, serial
               PROVE  (\A y \in Targets : BaseKept(y)') /\ (\A d \in Calls : Covered(d)') /\ Undoing'
  BY <1>1 DEF RewindInv
<1>5. /\ InFlight = {} /\ Stands(k) /\ Newest(k)
      /\ files[checkpoints[k].target] = checkpoints[k].snapshot
  BY <1>1, <1>4 DEF RewindInv, Undoing
<1>6. /\ \A y \in Targets : Stack(y)' = Stack(y) \ {k}
      /\ \A j \in DOMAIN checkpoints : checkpoints'[j].snapshot = checkpoints[j].snapshot
      /\ DOMAIN checkpoints' = DOMAIN checkpoints
  BY <1>1, <1>2, <1>3 DEF Stack, Standing, Stands
<1>7. k \in Nat /\ \A y : Stack(y) \subseteq DOMAIN checkpoints /\ Stack(y) \subseteq Nat
  BY <1>2 DEF Stack, Standing, RewindInv, Typed
<1>8. \A y : \A j \in Stack(y) : j <= k
  <2> SUFFICES ASSUME NEW y, NEW j \in Stack(y) PROVE ~(j > k)
    BY <1>7
  <2> QED BY <1>5, <1>7 DEF Newest, Stack, Standing, Stands
<1>9. ASSUME NEW y \in Targets PROVE BaseKept(y)'
  <2>1. BaseKept(y)
    BY <1>4 DEF RewindInv
  <2>2. CASE k \notin Stack(y)
    <3>1. Stack(y)' = Stack(y)
      BY <1>6, <2>2
    <3> QED BY <1>1, <1>6, <1>7, <2>1, <3>1 DEF BaseKept
  <2>3. CASE k \in Stack(y)
    <3>1. checkpoints[k].target = y
      BY <2>3 DEF Stack, Standing
    <3>2. ASSUME Stack(y)' = {} PROVE Decoded(files'[y]) = Decoded(base'[y])
      <4>1. Stack(y) = {k}
        BY <1>6, <2>3, <3>2
      <4>2. Oldest(Stack(y), k)
        BY <1>7, <4>1 DEF Oldest
      <4> QED BY <1>1, <1>5, <2>1, <2>3, <3>1, <4>2 DEF BaseKept
    <3>3. ASSUME NEW j \in Stack(y)', Oldest(Stack(y)', j)
          PROVE  Decoded(checkpoints'[j].snapshot) = Decoded(base'[y])
      <4>1. j \in Stack(y) /\ j <= k
        BY <1>6, <1>8, <3>3
      <4>2. Oldest(Stack(y), j)
        BY <1>6, <3>3, <4>1 DEF Oldest
      <4> QED BY <1>1, <1>6, <1>7, <2>1, <4>1, <4>2 DEF BaseKept
    <3> QED BY <3>2, <3>3 DEF BaseKept
  <2> QED BY <2>2, <2>3
<1>10. \A d \in Calls : Covered(d)'
  BY <1>1, <1>5 DEF Covered, InFlight, Resting
<1>11. Undoing'
  BY <1>1 DEF Undoing
<1> QED BY <1>9, <1>10, <1>11

(* So does a rewind that reaches its end.                                  *)
LEMMA MarkKeeps ==
  ASSUME RewindInv, Typed', MarkRestored
  PROVE  RewindInv'
<1> DEFINE row == [checkpoints[rewind.of] EXCEPT !.restored = TRUE]
<1>1. /\ rewind.step = "mark" /\ checkpoints' = [checkpoints EXCEPT ![rewind.of] = row]
      /\ rewind'.step = "none"
      /\ UNCHANGED <<files, base, request, orderly, serial, pc>>
  BY DEF MarkRestored, ghosts
<1>2. checkpoints[rewind.of] \in Checkpoint
  BY <1>1, CheckpointRow DEF RewindInv, Typed
<1>3. /\ row.restored /\ row.target = checkpoints[rewind.of].target
      /\ row.snapshot = checkpoints[rewind.of].snapshot
  BY <1>2 DEF Checkpoint
<1> HIDE DEF row
<1> QED BY <1>1, <1>3, SettleKeeps

(* So does one that dies: its checkpoint stands over the file it leaves,   *)
(* or is torn when the file has its content back.                          *)
LEMMA DieRewindingKeeps ==
  ASSUME RewindInv, Typed', DieRewinding
  PROVE  RewindInv'
<1> DEFINE k == rewind.of
           x == checkpoints[k].target
           row == [checkpoints[k] EXCEPT !.torn = TRUE]
<1>1. /\ rewind.step = "mark" /\ rewind'.step = "none"
      /\ UNCHANGED <<base, request, orderly, serial, pc>>
      /\ \/ UNCHANGED <<files, checkpoints>>
         \/ files' = [files EXCEPT ![x] = "torn"] /\ checkpoints' = checkpoints
         \/ files' = files /\ checkpoints' = [checkpoints EXCEPT ![k] = row]
  BY DEF DieRewinding, ghosts
<1>2. k \in DOMAIN checkpoints /\ checkpoints[k] \in Checkpoint
  BY <1>1, CheckpointRow DEF RewindInv, Typed
<1>3. row.torn /\ row.target = x /\ row.snapshot = checkpoints[k].snapshot
  BY <1>2 DEF Checkpoint
<1> HIDE DEF row
<1>4. CASE checkpoints' = [checkpoints EXCEPT ![k] = row] /\ files' = files
  BY <1>1, <1>3, <1>4, SettleKeeps
<1>5. CASE /\ checkpoints' = checkpoints
           /\ files' = files \/ files' = [files EXCEPT ![x] = "torn"]
  <2>1. /\ \A y : Stack(y)' = Stack(y)
        /\ \A d : Tool(d)' = Tool(d) /\ Target(d)' = Target(d)
    BY <1>1, <1>5 DEF Stack, Standing, Stands, Tool, Target
  <2>2. SUFFICES ASSUME orderly, serial
                 PROVE  (\A y \in Targets : BaseKept(y)') /\ (\A d \in Calls : Covered(d)') /\ Undoing'
    BY <1>1 DEF RewindInv
  <2>3. Stands(k)
    BY <1>1, <2>2 DEF RewindInv, Undoing
  <2>4. k \in Stack(x)
    BY <1>2, <2>3 DEF Stack, Standing
  <2>0. files \in [Targets -> Contents]
    BY DEF RewindInv, Typed, TypeOK
  <2> HIDE DEF x, k
  <2>5. ASSUME NEW y \in Targets PROVE BaseKept(y)'
    <3>1. Stack(y) = {} => files'[y] = files[y]
      <4>1. y # x \/ Stack(y) # {}
        BY <2>4
      <4> QED BY <1>5, <2>0, <4>1
    <3> QED BY <1>1, <1>5, <2>1, <2>2, <3>1 DEF RewindInv, BaseKept
  <2>6. \A d \in Calls : Covered(d)'
    BY <1>1, <2>1, <2>2 DEF RewindInv, Covered
  <2>7. Undoing'
    BY <1>1 DEF Undoing
  <2> QED BY <2>5, <2>6, <2>7
<1> QED BY <1>1, <1>4, <1>5

(* A step that moves only one call, which does not come to a write, is     *)
(* calm if that call was under way or nothing was.                         *)
LEMMA CallMoves ==
  ASSUME Typed, NEW c \in Calls,
         UNCHANGED <<files, checkpoints, rewind, base, request, orderly, serial>>,
         \E s \in Resting \union Busy :
           /\ pc' = [pc EXCEPT ![c] = s]
           /\ Tool(c) = "filesystem.write" /\ s \in {"start", "run"} => pc[c] \in {"start", "run"},
         pc[c] \in Busy \/ MayStart
  PROVE  Calm
<1>1. pc \in [Calls -> Resting \union Busy]
  BY DEF Typed, TypeOK, Busy
<1>2. \A d \in Calls : Tool(d) = "filesystem.write" /\ pc'[d] \in {"start", "run"}
                        => pc[d] \in {"start", "run"}
  BY <1>1
<1>3. ASSUME serial, rewind.step = "mark" PROVE InFlight' \subseteq InFlight
  <2>1. pc[c] \in Busy
    BY <1>3 DEF MayStart, Quiet
  <2> QED BY <1>1, <2>1 DEF InFlight, Resting, Busy
<1> QED BY <1>2, <1>3 DEF Calm

(* A write is asked for, never let through at once.                        *)
LEMMA WritesAreAsked ==
  ASSUME NEW p, NEW x
  PROVE  Decision(p, "filesystem.write", x) # "allow"
<1>1. Meta["filesystem.write"].asks
  BY DEF Meta, Row, Tools
<1> QED BY <1>1 DEF Decision, Asks

(* Every step keeps RewindInv.                                             *)
LEMMA RewindNext == RewindInv /\ [Next]_vars => RewindInv'
<1> SUFFICES ASSUME RewindInv, [Next]_vars PROVE RewindInv'
  OBVIOUS
<1>0. Typed /\ Typed'
  BY TypedNext DEF RewindInv
<1> USE <1>0 DEF disk, ghosts
<1>1. ASSUME NEW c \in Calls, Request(c) PROVE RewindInv'
  <2>1. /\ UNCHANGED <<files, checkpoints, rewind, base, request, orderly, serial>> /\ MayStart
        /\ \E s \in {"start", "over"} : pc' = [pc EXCEPT ![c] = s]
             /\ (s = "start" => Decision(policy, Tool(c), Target(c)) = "allow")
    BY <1>1, Zenon DEF Request, Goto
  <2>2. Calm
    BY <2>1, WritesAreAsked, CallMoves DEF Resting, Busy
  <2> QED BY <2>2, CalmKeeps
<1>2. ASSUME NEW c \in Calls, Rule(c) PROVE RewindInv'
  <2>1. UNCHANGED <<files, checkpoints, rewind, base, request, orderly, serial, pc>>
    BY <1>2 DEF Rule
  <2>2. Calm
    BY <2>1 DEF Calm, InFlight
  <2> QED BY <2>2, CalmKeeps
<1>3. ASSUME NEW c \in Calls, Continue(c) PROVE RewindInv'
  <2>1. /\ UNCHANGED <<files, checkpoints, rewind, base, request, orderly, serial>> /\ MayStart
        /\ \E s \in {"snapshot", "start", "over"} : pc' = [pc EXCEPT ![c] = s]
             /\ (s = "start" => Tool(c) # "filesystem.write")
    BY <1>3, Zenon DEF Continue, Goto, Fail
  <2>2. Calm
    BY <2>1, CallMoves DEF Resting, Busy
  <2> QED BY <2>2, CalmKeeps
<1>4. ASSUME NEW c \in Calls, Snapshot(c) PROVE RewindInv'
  <2>1. /\ UNCHANGED <<files, rewind, base, request, orderly, serial>> /\ pc[c] = "snapshot"
        /\ \E s \in {"start", "over"} : pc' = [pc EXCEPT ![c] = s]
        /\ \/ checkpoints' = checkpoints /\ pc' = [pc EXCEPT ![c] = "over"]
           \/ checkpoints' = NewCheckpoint(c, FALSE)
    BY <1>4, Zenon DEF Snapshot, Goto, Fail
  <2>2. CASE checkpoints' = checkpoints /\ pc' = [pc EXCEPT ![c] = "over"]
    <3>1. Calm
      BY <2>1, <2>2, CallMoves DEF Resting, Busy
    <3> QED BY <3>1, CalmKeeps
  <2>3. CASE checkpoints' = NewCheckpoint(c, FALSE)
    BY <2>1, <2>3, SnapshotKeeps
  <2> QED BY <2>1, <2>2, <2>3
<1>5. ASSUME NEW c \in Calls, Start(c) PROVE RewindInv'
  <2>1. /\ UNCHANGED <<files, checkpoints, rewind, base, request, orderly, serial>> /\ pc[c] = "start"
        /\ \E s \in {"run"} : pc' = [pc EXCEPT ![c] = s]
    BY <1>5, Zenon DEF Start, Goto, Fail
  <2>2. Calm
    BY <2>1, CallMoves DEF Resting, Busy
  <2> QED BY <2>2, CalmKeeps
<1>6. ASSUME NEW c \in Calls, Throws(c) PROVE RewindInv'
  <2>1. /\ UNCHANGED <<files, checkpoints, rewind, base, request, orderly, serial>> /\ pc[c] = "run"
        /\ \E s \in {"over"} : pc' = [pc EXCEPT ![c] = s]
    BY <1>6, Zenon DEF Throws, Goto, Fail
  <2>2. Calm
    BY <2>1, CallMoves DEF Resting, Busy
  <2> QED BY <2>2, CalmKeeps
<1>7. ASSUME NEW c \in Calls, RunFilesystem(c) PROVE RewindInv'
  <2>1. /\ UNCHANGED <<checkpoints, rewind, base, request, orderly, serial>> /\ pc[c] = "run"
        /\ pc' = [pc EXCEPT ![c] = "complete"]
        /\ files' = IF Tool(c) = "filesystem.write" THEN [files EXCEPT ![Target(c)] = c] ELSE files
    BY <1>7 DEF RunFilesystem, Works, Goto
  <2>2. pc'[c] = "complete" /\ \A d \in Calls : d # c => pc'[d] = pc[d]
    BY <2>1 DEF Typed, TypeOK
  <2>3. CASE Tool(c) = "filesystem.write"
    BY <2>1, <2>2, <2>3, WriteKeeps
  <2>4. CASE Tool(c) # "filesystem.write"
    <3>1. Calm
      BY <2>1, <2>4, CallMoves DEF Resting, Busy
    <3> QED BY <3>1, CalmKeeps
  <2> QED BY <2>3, <2>4
<1>8. ASSUME NEW c \in Calls, RunGit(c) PROVE RewindInv'
  <2>1. /\ UNCHANGED <<files, checkpoints, rewind, base, request, orderly, serial>> /\ pc[c] = "run"
        /\ \E s \in {"output", "complete"} : pc' = [pc EXCEPT ![c] = s]
    BY <1>8, Zenon DEF RunGit, Works, Goto, Fail
  <2>2. Calm
    BY <2>1, CallMoves DEF Resting, Busy
  <2> QED BY <2>2, CalmKeeps
<1>9. ASSUME NEW c \in Calls, RunShell(c) PROVE RewindInv'
  <2>1. /\ UNCHANGED <<files, checkpoints, rewind, base, request, orderly, serial>> /\ pc[c] = "run"
        /\ \E s \in {"output", "complete"} : pc' = [pc EXCEPT ![c] = s]
    BY <1>9, Zenon DEF RunShell, Works, Goto, Fail
  <2>2. Calm
    BY <2>1, CallMoves DEF Resting, Busy
  <2> QED BY <2>2, CalmKeeps
<1>10. ASSUME NEW c \in Calls, RunReport(c) PROVE RewindInv'
  <2>1. /\ UNCHANGED <<files, checkpoints, rewind, base, request, orderly, serial>> /\ pc[c] = "run"
        /\ \E s \in {"output", "complete"} : pc' = [pc EXCEPT ![c] = s]
    BY <1>10, Zenon DEF RunReport, Works, Goto, Fail
  <2>2. Calm
    BY <2>1, CallMoves DEF Resting, Busy
  <2> QED BY <2>2, CalmKeeps
<1>11. ASSUME NEW c \in Calls, RunReading(c) PROVE RewindInv'
  <2>1. /\ UNCHANGED <<files, checkpoints, rewind, base, request, orderly, serial>> /\ pc[c] = "run"
        /\ \E s \in {"output", "complete"} : pc' = [pc EXCEPT ![c] = s]
    BY <1>11, Zenon DEF RunReading, Works, Goto, Fail
  <2>2. Calm
    BY <2>1, CallMoves DEF Resting, Busy
  <2> QED BY <2>2, CalmKeeps
<1>12. ASSUME NEW c \in Calls, RunBrowser(c) PROVE RewindInv'
  <2>1. /\ UNCHANGED <<files, checkpoints, rewind, base, request, orderly, serial>> /\ pc[c] = "run"
        /\ \E s \in {"output", "complete"} : pc' = [pc EXCEPT ![c] = s]
    BY <1>12, Zenon DEF RunBrowser, Works, Goto, Fail
  <2>2. Calm
    BY <2>1, CallMoves DEF Resting, Busy
  <2> QED BY <2>2, CalmKeeps
<1>13. ASSUME NEW c \in Calls, RunGithub(c) PROVE RewindInv'
  <2>1. /\ UNCHANGED <<files, checkpoints, rewind, base, request, orderly, serial>> /\ pc[c] = "run"
        /\ \E s \in {"output", "complete"} : pc' = [pc EXCEPT ![c] = s]
    BY <1>13, Zenon DEF RunGithub, Works, Goto, Fail
  <2>2. Calm
    BY <2>1, CallMoves DEF Resting, Busy
  <2> QED BY <2>2, CalmKeeps
<1>14. ASSUME NEW c \in Calls, RunMcpCall(c) PROVE RewindInv'
  <2>1. /\ UNCHANGED <<files, checkpoints, rewind, base, request, orderly, serial>> /\ pc[c] = "run"
        /\ \E s \in {"output", "complete"} : pc' = [pc EXCEPT ![c] = s]
    BY <1>14, Zenon DEF RunMcpCall, Works, Goto, Fail
  <2>2. Calm
    BY <2>1, CallMoves DEF Resting, Busy
  <2> QED BY <2>2, CalmKeeps
<1>15. ASSUME NEW c \in Calls, RunMcpList(c) PROVE RewindInv'
  <2>1. /\ UNCHANGED <<files, checkpoints, rewind, base, request, orderly, serial>> /\ pc[c] = "run"
        /\ \E s \in {"output", "complete"} : pc' = [pc EXCEPT ![c] = s]
    BY <1>15, Zenon DEF RunMcpList, Works, Goto, Fail
  <2>2. Calm
    BY <2>1, CallMoves DEF Resting, Busy
  <2> QED BY <2>2, CalmKeeps
<1>16. ASSUME NEW c \in Calls, WorksButFails(c) PROVE RewindInv'
  <2>1. /\ UNCHANGED <<files, checkpoints, rewind, base, request, orderly, serial>> /\ pc[c] = "run"
        /\ \E s \in {"over"} : pc' = [pc EXCEPT ![c] = s]
    BY <1>16, Zenon DEF WorksButFails, Goto, Fail
  <2>2. Calm
    BY <2>1, CallMoves DEF Resting, Busy
  <2> QED BY <2>2, CalmKeeps
<1>17. ASSUME NEW c \in Calls, AnswerFromCache(c) PROVE RewindInv'
  <2>1. /\ UNCHANGED <<files, checkpoints, rewind, base, request, orderly, serial>> /\ pc[c] = "run"
        /\ \E s \in {"complete"} : pc' = [pc EXCEPT ![c] = s]
    BY <1>17, Zenon DEF AnswerFromCache, Goto, Fail
  <2>2. Calm
    BY <2>1, CallMoves DEF Resting, Busy
  <2> QED BY <2>2, CalmKeeps
<1>18. ASSUME NEW c \in Calls, WriteOutput(c) PROVE RewindInv'
  <2>1. /\ UNCHANGED <<files, checkpoints, rewind, base, request, orderly, serial>> /\ pc[c] = "output"
        /\ \E s \in {"artifacts", "over"} : pc' = [pc EXCEPT ![c] = s]
    BY <1>18, Zenon DEF WriteOutput, Goto, Fail
  <2>2. Calm
    BY <2>1, CallMoves DEF Resting, Busy
  <2> QED BY <2>2, CalmKeeps
<1>19. ASSUME NEW c \in Calls, ReadArtifacts(c) PROVE RewindInv'
  <2>1. /\ UNCHANGED <<files, checkpoints, rewind, base, request, orderly, serial>> /\ pc[c] = "artifacts"
        /\ \E s \in {"register"} : pc' = [pc EXCEPT ![c] = s]
    BY <1>19, Zenon DEF ReadArtifacts, Goto, Fail
  <2>2. Calm
    BY <2>1, CallMoves DEF Resting, Busy
  <2> QED BY <2>2, CalmKeeps
<1>20. ASSUME NEW c \in Calls, Register(c) PROVE RewindInv'
  <2>1. /\ UNCHANGED <<files, checkpoints, rewind, base, request, orderly, serial>> /\ pc[c] = "register"
        /\ \E s \in {"complete"} : pc' = [pc EXCEPT ![c] = s]
    BY <1>20, Zenon DEF Register, Goto, Fail
  <2>2. Calm
    BY <2>1, CallMoves DEF Resting, Busy
  <2> QED BY <2>2, CalmKeeps
<1>21. ASSUME NEW c \in Calls, Complete(c) PROVE RewindInv'
  <2>1. /\ UNCHANGED <<files, checkpoints, rewind, base, request, orderly, serial>> /\ pc[c] = "complete"
        /\ \E s \in {"mark", "over"} : pc' = [pc EXCEPT ![c] = s]
    BY <1>21, Zenon DEF Complete, Goto, Fail
  <2>2. Calm
    BY <2>1, CallMoves DEF Resting, Busy
  <2> QED BY <2>2, CalmKeeps
<1>22. ASSUME NEW c \in Calls, MarkExecuted(c) PROVE RewindInv'
  <2>1. /\ UNCHANGED <<files, checkpoints, rewind, base, request, orderly, serial>> /\ pc[c] = "mark"
        /\ \E s \in {"over"} : pc' = [pc EXCEPT ![c] = s]
    BY <1>22, Zenon DEF MarkExecuted, Goto, Fail
  <2>2. Calm
    BY <2>1, CallMoves DEF Resting, Busy
  <2> QED BY <2>2, CalmKeeps
<1>23. ASSUME NEW c \in Calls, Die(c) PROVE RewindInv'
  <2>1. /\ UNCHANGED <<rewind, base, request, orderly, serial>> /\ pc[c] \in Busy
        /\ \E s \in {"over"} : pc' = [pc EXCEPT ![c] = s]
    BY <1>23 DEF Die, Fail, Goto, InFlight, Typed, TypeOK, Busy
  <2>2. CASE UNCHANGED <<files, checkpoints>>
    <3>1. Calm
      BY <2>1, <2>2, CallMoves DEF Resting
    <3> QED BY <3>1, CalmKeeps
  <2>3. CASE pc[c] = "snapshot" /\ checkpoints' = NewCheckpoint(c, TRUE) /\ files' = files
    <3>1. pc'[c] = "over"
      BY <2>1 DEF Typed, TypeOK
    <3> QED BY <2>1, <2>3, <3>1, SnapshotKeeps
  <2>4. CASE /\ pc[c] = "run" /\ Tool(c) = "filesystem.write"
             /\ files' = [files EXCEPT ![Target(c)] = "torn"] /\ checkpoints' = checkpoints
    <3>1. pc'[c] = "over" /\ \A d \in Calls : d # c => pc'[d] = pc[d]
      BY <2>1 DEF Typed, TypeOK
    <3> QED BY <2>1, <2>4, <3>1, WriteKeeps
  <2> QED BY <1>23, <2>2, <2>3, <2>4 DEF Die
<1>24. ASSUME NEW k \in DOMAIN checkpoints, Rewind(k) PROVE RewindInv'
  BY <1>24, RewindKeeps
<1>25. ASSUME NEW x \in Targets, EditFile(x) PROVE RewindInv'
  BY <1>25 DEF EditFile, RewindInv
<1>26. CASE MarkRestored
  BY <1>26, MarkKeeps
<1>27. CASE DieRewinding
  BY <1>27, DieRewindingKeeps
<1>28. CASE EditPolicy
  <2>1. UNCHANGED <<files, checkpoints, rewind, base, request, orderly, serial, pc>>
    BY <1>28 DEF EditPolicy
  <2>2. Calm
    BY <2>1 DEF Calm, InFlight
  <2> QED BY <2>2, CalmKeeps
<1>29. CASE Expire
  <2>1. UNCHANGED <<files, checkpoints, rewind, base, request, orderly, serial, pc>>
    BY <1>29 DEF Expire
  <2>2. Calm
    BY <2>1 DEF Calm, InFlight
  <2> QED BY <2>2, CalmKeeps
<1>30. CASE UNCHANGED vars
  <2>1. Calm
    BY <1>30 DEF vars, Calm, InFlight
  <2> QED BY <2>1, CalmKeeps
<1> QED
  BY <1>1, <1>2, <1>3, <1>4, <1>5, <1>6, <1>7, <1>8, <1>9, <1>10, <1>11,
     <1>12, <1>13, <1>14, <1>15, <1>16, <1>17, <1>18, <1>19, <1>20, <1>21,
     <1>22, <1>23, <1>24, <1>25, <1>26, <1>27, <1>28, <1>29, <1>30 DEF Next

(* While processes run one at a time, no file is edited by hand and        *)
(* rewinds go newest first, undoing the standing checkpoints gives every   *)
(* file back as the text it was, whatever failed, died (a rewind too) or   *)
(* was rewound in between.                                                 *)
THEOREM RewindAlwaysRestores == Spec => []RewindRestores
<1> QED BY RewindInit, RewindNext, RewindEnough, PTL DEF Spec
=============================================================================
