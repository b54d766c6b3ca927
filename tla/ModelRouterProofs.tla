-------------------------- MODULE ModelRouterProofs --------------------------
(***************************************************************************)
(* Theorems about model calls, for every set of calls, endpoints, routings *)
(* and policies, whether the calls overlap or not.                         *)
(***************************************************************************)
EXTENDS ModelRouter, FiniteFolds

(* A bounded set of naturals with a member has a greatest one.             *)
LEMMA Highest ==
  ASSUME NEW T, T \subseteq Nat, NEW b \in Nat, \A t \in T : t <= b, T # {}
  PROVE  \E m \in T : \A t \in T : t <= m
<1> DEFINE U == {b - t : t \in T}
<1>1. U \subseteq Nat /\ U # {}
  <2>1. \A t \in T : b - t \in Nat
    OBVIOUS
  <2>2. PICK t \in T : TRUE
    OBVIOUS
  <2> QED BY <2>1, <2>2
<1>2. PICK x \in U : \A y \in U : x <= y
  <2> HIDE DEF U
  <2> QED BY <1>1, Lowest
<1>3. PICK m \in T : x = b - m
  BY <1>2
<1>4. \A t \in T : b - m <= b - t
  BY <1>2, <1>3
<1>5. \A t \in T : t <= m
  BY <1>4
<1> QED BY <1>3, <1>5
-----------------------------------------------------------------------------
Held == [task : Tasks, sens : BOOLEAN, policy : Policy, legs : Seq(Endpoints), leg : Nat,
         consent : Nat, tokens : 0..PerCall]

Steps == {"idle", "load", "budget", "leg", "send", "sent", "mark", "called", "cost", "answer",
          "failed", "over", "dead"}

(* TypeOK, and no consent is ruled on after the last ruling.               *)
Typed ==
  /\ TypeOK
  /\ \A i \in DOMAIN approvals : approvals[i].ruled <= rulings

(* The consent ruled on last exists.                                       *)
LEMMA LatestIsOne ==
  ASSUME Typed, NEW S, S \subseteq DOMAIN approvals, S # {}
  PROVE  Latest(S) \in S
<1> DEFINE T == {approvals[i].ruled : i \in S}
<1>1. \A i \in S : approvals[i] \in Approval
  BY DEF Typed, TypeOK
<1>2. T \subseteq Nat /\ \A t \in T : t <= rulings
  BY <1>1 DEF Typed, Approval
<1>3. T # {} /\ rulings \in Nat
  BY DEF Typed, TypeOK
<1>4. PICK m \in T : \A t \in T : t <= m
  <2> HIDE DEF T
  <2> QED BY <1>2, <1>3, Highest
<1>5. \E i \in S : \A j \in S : approvals[j].ruled <= approvals[i].ruled
  BY <1>4
<1> QED BY <1>5 DEF Latest

(* What a call holds before it starts, and after it ended, is well typed.  *)
LEMMA NobodyHeld == Nobody \in Held
  BY RouterAssumption DEF Nobody, Held, Tasks, Policy, Modes

(* Typed holds at the start.                                               *)
LEMMA TypedInit == Init => Typed
  BY RouterAssumption, NobodyHeld DEF Init, Typed, TypeOK, Held

(* Every step keeps the type of the consents, and their order.             *)
LEMMA ApprovalsTyped ==
  Typed /\ [Next]_vars =>
    /\ approvals' \in Seq(Approval) /\ rulings' \in Nat
    /\ \A i \in DOMAIN approvals' : approvals'[i].ruled <= rulings'
<1> SUFFICES ASSUME Typed, [Next]_vars
             PROVE  /\ approvals' \in Seq(Approval) /\ rulings' \in Nat
                    /\ \A i \in DOMAIN approvals' : approvals'[i].ruled <= rulings'
  OBVIOUS
<1> DEFINE Goal == /\ approvals' \in Seq(Approval) /\ rulings' \in Nat
                   /\ \A i \in DOMAIN approvals' : approvals'[i].ruled <= rulings'
<1> USE DEF Typed, TypeOK, world
<1>1. ASSUME NEW c \in Calls, NEW sens \in BOOLEAN, PlanStarts(c, sens) PROVE Goal
  BY <1>1 DEF PlanStarts
<1>2. ASSUME NEW c \in Calls, ChatStarts(c) PROVE Goal
  BY <1>2 DEF ChatStarts
<1>3. ASSUME NEW c \in Calls, Load(c) PROVE Goal
  BY <1>3 DEF Load
<1>4. ASSUME NEW c \in Calls, CheckBudget(c) PROVE Goal
  BY <1>4 DEF CheckBudget
<1>5. ASSUME NEW c \in Calls, TryLeg(c) PROVE Goal
  <2> DEFINE row == [task |-> at[c].task, status |-> "pending", executed |-> FALSE, ruled |-> 0]
  <2>1. row \in Approval
    <3>1. at[c].task \in Tasks
      OBVIOUS
    <3> QED BY <3>1 DEF Approval
  <2>2. (approvals' = approvals \/ approvals' = Append(approvals, row)) /\ rulings' = rulings
    BY <1>5 DEF TryLeg
  <2>3. row.ruled = 0
    OBVIOUS
  <2> HIDE DEF row
  <2>4. CASE approvals' = approvals
    BY <2>2, <2>4
  <2>5. CASE approvals' = Append(approvals, row)
    <3>1. approvals' \in Seq(Approval) /\ DOMAIN approvals' = 1..Len(approvals) + 1
      BY <2>1, <2>5
    <3>2. \A i \in DOMAIN approvals' : approvals'[i] = row \/
                                       (i \in DOMAIN approvals /\ approvals'[i] = approvals[i])
      BY <2>1, <2>5
    <3>3. 0 <= rulings
      OBVIOUS
    <3>4. \A i \in DOMAIN approvals' : approvals'[i].ruled <= rulings'
      BY <2>2, <2>3, <3>2, <3>3
    <3> QED BY <2>2, <3>1, <3>4
  <2> QED BY <2>2, <2>4, <2>5
<1>6. ASSUME NEW c \in Calls, Send(c) PROVE Goal
  BY <1>6 DEF Send
<1>7. ASSUME NEW c \in Calls, NEW tokens \in 0..PerCall, Answered(c, tokens) PROVE Goal
  BY <1>7 DEF Answered
<1>8. ASSUME NEW c \in Calls, NEW eligible \in BOOLEAN, ProviderFails(c, eligible) PROVE Goal
  BY <1>8 DEF ProviderFails
<1>9. ASSUME NEW c \in Calls, MarkExecuted(c) PROVE Goal
  <2> DEFINE k == at[c].consent
             row == [approvals[k] EXCEPT !.executed = TRUE]
  <2>1. approvals' = approvals \/ approvals' = [approvals EXCEPT ![k] = row]
    BY <1>9 DEF MarkExecuted
  <2>2. \A i \in DOMAIN approvals : approvals[i] \in Approval
    OBVIOUS
  <2>3. k \in DOMAIN approvals => row \in Approval /\ row.ruled = approvals[k].ruled
    BY <2>2 DEF Approval
  <2>4. rulings' = rulings
    BY <1>9 DEF MarkExecuted
  <2> HIDE DEF k, row
  <2>5. CASE approvals' = approvals
    BY <2>4, <2>5
  <2>6. CASE k \in DOMAIN approvals /\ approvals' = [approvals EXCEPT ![k] = row]
    BY <2>3, <2>4, <2>6
  <2>7. CASE k \notin DOMAIN approvals /\ approvals' = [approvals EXCEPT ![k] = row]
    <3>1. approvals' = approvals
      <4>1. approvals = [x \in DOMAIN approvals |-> approvals[x]]
        OBVIOUS
      <4>2. approvals' = [x \in DOMAIN approvals |-> approvals[x]]
        BY <2>7
      <4> QED BY <4>1, <4>2
    <3> QED BY <2>4, <3>1
  <2> QED BY <2>1, <2>5, <2>6, <2>7
<1>10. ASSUME NEW c \in Calls, LogCalled(c) PROVE Goal
  BY <1>10 DEF LogCalled
<1>11. ASSUME NEW c \in Calls, LogCost(c) PROVE Goal
  BY <1>11 DEF LogCost
<1>12. ASSUME NEW c \in Calls, NEW parses \in BOOLEAN, Plan(c, parses) PROVE Goal
  BY <1>12 DEF Plan
<1>13. ASSUME NEW c \in Calls, Fail(c) PROVE Goal
  BY <1>13 DEF Fail
<1>14. ASSUME NEW c \in Calls, Die(c) PROVE Goal
  BY <1>14 DEF Die
<1>15. ASSUME NEW i \in DOMAIN approvals, NEW status \in {"approved", "denied"}, Rule(i, status) PROVE Goal
  <2> DEFINE row == [approvals[i] EXCEPT !.status = status, !.ruled = rulings + 1]
  <2>1. approvals' = [approvals EXCEPT ![i] = row] /\ rulings' = rulings + 1
    BY <1>15 DEF Rule
  <2>2. approvals[i] \in Approval
    OBVIOUS
  <2>3. row \in Approval /\ row.ruled = rulings + 1
    <3>1. rulings + 1 \in Nat
      OBVIOUS
    <3> QED BY <2>2, <3>1 DEF Approval
  <2>4. \A j \in DOMAIN approvals : approvals[j].ruled \in Nat
    <3>1. \A j \in DOMAIN approvals : approvals[j] \in Approval
      OBVIOUS
    <3> QED BY <3>1 DEF Approval
  <2> HIDE DEF row
  <2> QED BY <2>1, <2>3, <2>4
<1>16. ASSUME NEW p \in Policies, EditPolicy(p) PROVE Goal
  BY <1>16 DEF EditPolicy
<1>17. CASE UNCHANGED vars
  BY <1>17 DEF vars
<1>18. ASSUME NEW c \in Calls, PlanThrows(c) PROVE Goal
  BY <1>18 DEF PlanThrows, MayStart
<1> QED
  BY <1>1, <1>2, <1>3, <1>4, <1>5, <1>6, <1>7, <1>8, <1>9, <1>10, <1>11,
     <1>12, <1>13, <1>14, <1>15, <1>16, <1>17, <1>18 DEF Next

(* Every step keeps what each call holds well typed.                       *)
LEMMA HeldTyped == Typed /\ [Next]_vars => at' \in [Calls -> Held]
<1> SUFFICES ASSUME Typed, [Next]_vars PROVE at' \in [Calls -> Held]
  OBVIOUS
<1>0. at \in [Calls -> Held]
  BY DEF Typed, TypeOK, Held
<1> USE <1>0
<1>1. ASSUME NEW c \in Calls, NEW sens \in BOOLEAN, PlanStarts(c, sens) PROVE at' \in [Calls -> Held]
  <2> DEFINE row == [Nobody EXCEPT !.sens = sens]
  <2>1. row \in Held
    BY NobodyHeld DEF Held
  <2>2. at' = [at EXCEPT ![c] = row]
    BY <1>1 DEF PlanStarts
  <2> HIDE DEF row
  <2> QED BY <2>1, <2>2
<1>2. ASSUME NEW c \in Calls, ChatStarts(c) PROVE at' \in [Calls -> Held]
  <2> DEFINE row == [Nobody EXCEPT !.task = "companion_chat"]
  <2>1. row \in Held
    BY NobodyHeld DEF Held, Tasks
  <2>2. at' = [at EXCEPT ![c] = row]
    BY <1>2 DEF ChatStarts
  <2> HIDE DEF row
  <2> QED BY <2>1, <2>2
<1>3. ASSUME NEW c \in Calls, Load(c) PROVE at' \in [Calls -> Held]
  <2> DEFINE row == [at[c] EXCEPT !.policy = policy, !.legs = LegsFor(at[c].task)]
  <2>1. row \in Held
    <3>1. at[c].task \in Tasks /\ at[c] \in Held
      BY DEF Held
    <3>2. LegsFor(at[c].task) \in Seq(Endpoints)
      BY <3>1, RouterAssumption DEF LegsFor, Typed, TypeOK, Routing
    <3>3. policy \in Policy
      BY RouterAssumption DEF Typed, TypeOK
    <3> QED BY <3>1, <3>2, <3>3 DEF Held
  <2>2. at' = [at EXCEPT ![c] = row]
    BY <1>3 DEF Load
  <2> HIDE DEF row
  <2> QED BY <2>1, <2>2
<1>4. ASSUME NEW c \in Calls, CheckBudget(c) PROVE at' \in [Calls -> Held]
  <2> DEFINE row == [at[c] EXCEPT !.legs = <<CHOOSE e \in Stubs : TRUE>>]
  <2>1. row \in Held
    <3>1. (CHOOSE e \in Stubs : TRUE) \in Endpoints
      BY RouterAssumption
    <3>2. <<CHOOSE e \in Stubs : TRUE>> \in Seq(Endpoints)
      <4> HIDE <3>1
      <4> DEFINE e == CHOOSE e \in Stubs : TRUE
      <4>1. e \in Endpoints
        BY <3>1
      <4> HIDE DEF e
      <4>2. <<e>> \in Seq(Endpoints)
        BY <4>1
      <4> QED BY <4>2 DEF e
    <3> QED BY <3>2 DEF Held
  <2>2. at' = at \/ at' = [at EXCEPT ![c] = row]
    BY <1>4 DEF CheckBudget
  <2> HIDE DEF row
  <2> QED BY <2>1, <2>2
<1>5. ASSUME NEW c \in Calls, TryLeg(c) PROVE at' \in [Calls -> Held]
  <2> DEFINE k == Latest(Reusable(at[c].task))
             row == [at[c] EXCEPT !.consent = k]
  <2>1. at' = at \/ (Reusable(at[c].task) # {} /\ at' = [at EXCEPT ![c] = row])
    BY <1>5 DEF TryLeg
  <2>2. Reusable(at[c].task) # {} => k \in Nat
    <3>1. Reusable(at[c].task) \subseteq DOMAIN approvals
      BY DEF Reusable
    <3>2. DOMAIN approvals \subseteq Nat
      BY DEF Typed, TypeOK
    <3>3. Reusable(at[c].task) # {} => k \in Reusable(at[c].task)
      BY <3>1, LatestIsOne
    <3> QED BY <3>1, <3>2, <3>3
  <2>3. Reusable(at[c].task) # {} => row \in Held
    BY <2>2 DEF Held
  <2> HIDE DEF row
  <2> QED BY <2>1, <2>3
<1>6. ASSUME NEW c \in Calls, Send(c) PROVE at' \in [Calls -> Held]
  BY <1>6 DEF Send, world
<1>7. ASSUME NEW c \in Calls, NEW tokens \in 0..PerCall, Answered(c, tokens) PROVE at' \in [Calls -> Held]
  <2> DEFINE row == [at[c] EXCEPT !.tokens = tokens]
  <2>1. row \in Held
    BY DEF Held
  <2>2. at' = [at EXCEPT ![c] = row]
    BY <1>7 DEF Answered
  <2> HIDE DEF row
  <2> QED BY <2>1, <2>2
<1>8. ASSUME NEW c \in Calls, NEW eligible \in BOOLEAN, ProviderFails(c, eligible) PROVE at' \in [Calls -> Held]
  <2> DEFINE row == [at[c] EXCEPT !.leg = @ + 1]
  <2>0. at[c] \in Held /\ at[c].leg + 1 \in Nat
    BY DEF Held
  <2>1. row \in Held
    BY <2>0 DEF Held
  <2>2. at' = at \/ at' = [at EXCEPT ![c] = row]
    BY <1>8 DEF ProviderFails
  <2> HIDE DEF row
  <2> QED BY <2>1, <2>2
<1>9. ASSUME NEW c \in Calls, MarkExecuted(c) PROVE at' \in [Calls -> Held]
  BY <1>9 DEF MarkExecuted, world
<1>10. ASSUME NEW c \in Calls, LogCalled(c) PROVE at' \in [Calls -> Held]
  BY <1>10 DEF LogCalled, world
<1>11. ASSUME NEW c \in Calls, LogCost(c) PROVE at' \in [Calls -> Held]
  BY <1>11, NobodyHeld DEF LogCost
<1>12. ASSUME NEW c \in Calls, NEW parses \in BOOLEAN, Plan(c, parses) PROVE at' \in [Calls -> Held]
  BY <1>12, NobodyHeld DEF Plan
<1>13. ASSUME NEW c \in Calls, Fail(c) PROVE at' \in [Calls -> Held]
  BY <1>13, NobodyHeld DEF Fail
<1>14. ASSUME NEW c \in Calls, Die(c) PROVE at' \in [Calls -> Held]
  BY <1>14, NobodyHeld DEF Die
<1>15. ASSUME NEW i \in DOMAIN approvals, NEW status \in {"approved", "denied"}, Rule(i, status) PROVE at' \in [Calls -> Held]
  BY <1>15 DEF Rule
<1>16. ASSUME NEW p \in Policies, EditPolicy(p) PROVE at' \in [Calls -> Held]
  BY <1>16 DEF EditPolicy, world
<1>17. CASE UNCHANGED vars
  BY <1>17 DEF vars
<1>18. ASSUME NEW c \in Calls, PlanThrows(c) PROVE at' \in [Calls -> Held]
  BY <1>18 DEF PlanThrows
<1> QED
  BY <1>1, <1>2, <1>3, <1>4, <1>5, <1>6, <1>7, <1>8, <1>9, <1>10, <1>11,
     <1>12, <1>13, <1>14, <1>15, <1>16, <1>17, <1>18 DEF Next

(* The types of the other variables.                                       *)
Rest ==
  /\ policy \in Policies /\ routing \in Routings
  /\ called \subseteq [call : Calls, consent : Nat, tokens : 0..PerCall]
  /\ costs \subseteq Calls /\ errors \subseteq Calls /\ plans \subseteq Calls
  /\ tried \subseteq Calls
  /\ pc \in [Calls -> Steps]
  /\ edits \in 0..MaxEdits /\ deaths \in 0..MaxDeaths

(* Every step keeps them.                                                  *)
LEMMA RestTyped == Typed /\ [Next]_vars => Rest'
<1> SUFFICES ASSUME Typed, [Next]_vars PROVE Rest'
  OBVIOUS
<1>a. \A c \in Calls : at[c].consent \in Nat /\ at[c].tokens \in 0..PerCall
  BY DEF Typed, TypeOK
<1>b. Rest
  BY DEF Typed, TypeOK, Rest, Steps
<1> USE <1>b, RouterAssumption DEF Goto, world, ledger, Rest
<1>1. ASSUME NEW c \in Calls, NEW sens \in BOOLEAN, PlanStarts(c, sens) PROVE Rest'
  BY <1>1 DEF PlanStarts, Steps
<1>2. ASSUME NEW c \in Calls, ChatStarts(c) PROVE Rest'
  BY <1>2 DEF ChatStarts, Steps
<1>3. ASSUME NEW c \in Calls, Load(c) PROVE Rest'
  <2>1. \E s \in {"budget", "failed"} : Goto(c, s)
    BY <1>3, Zenon DEF Load
  <2>2. UNCHANGED <<ledger, plans, world>>
    BY <1>3 DEF Load
  <2> QED BY <2>1, <2>2 DEF Steps
<1>4. ASSUME NEW c \in Calls, CheckBudget(c) PROVE Rest'
  BY <1>4 DEF CheckBudget, Steps
<1>5. ASSUME NEW c \in Calls, TryLeg(c) PROVE Rest'
  <2>1. \E s \in {"failed", "send"} : Goto(c, s)
    BY <1>5, Zenon DEF TryLeg
  <2>2. UNCHANGED <<ledger, plans, world>>
    BY <1>5 DEF TryLeg
  <2> QED BY <2>1, <2>2 DEF Steps
<1>6. ASSUME NEW c \in Calls, Send(c) PROVE Rest'
  BY <1>6 DEF Send, Steps
<1>7. ASSUME NEW c \in Calls, NEW tokens \in 0..PerCall, Answered(c, tokens) PROVE Rest'
  BY <1>7 DEF Answered, Steps
<1>8. ASSUME NEW c \in Calls, NEW eligible \in BOOLEAN, ProviderFails(c, eligible) PROVE Rest'
  <2>1. \E s \in {"failed", "leg"} : Goto(c, s)
    BY <1>8, Zenon DEF ProviderFails
  <2>2. UNCHANGED <<ledger, plans, world>>
    BY <1>8 DEF ProviderFails
  <2> QED BY <2>1, <2>2 DEF Steps
<1>9. ASSUME NEW c \in Calls, MarkExecuted(c) PROVE Rest'
  BY <1>9 DEF MarkExecuted, Steps
<1>10. ASSUME NEW c \in Calls, LogCalled(c) PROVE Rest'
  BY <1>10, <1>a DEF LogCalled, Steps
<1>11. ASSUME NEW c \in Calls, LogCost(c) PROVE Rest'
  BY <1>11 DEF LogCost, Steps
<1>12. ASSUME NEW c \in Calls, NEW parses \in BOOLEAN, Plan(c, parses) PROVE Rest'
  BY <1>12 DEF Plan, Steps
<1>13. ASSUME NEW c \in Calls, Fail(c) PROVE Rest'
  BY <1>13 DEF Fail, Steps
<1>14. ASSUME NEW c \in Calls, Die(c) PROVE Rest'
  BY <1>14 DEF Die, Steps
<1>15. ASSUME NEW i \in DOMAIN approvals, NEW status \in {"approved", "denied"}, Rule(i, status) PROVE Rest'
  BY <1>15 DEF Rule
<1>16. ASSUME NEW p \in Policies, EditPolicy(p) PROVE Rest'
  BY <1>16 DEF EditPolicy
<1>17. CASE UNCHANGED vars
  BY <1>17 DEF vars
<1>18. ASSUME NEW c \in Calls, PlanThrows(c) PROVE Rest'
  BY <1>18 DEF PlanThrows, Steps
<1> QED
  BY <1>1, <1>2, <1>3, <1>4, <1>5, <1>6, <1>7, <1>8, <1>9, <1>10, <1>11,
     <1>12, <1>13, <1>14, <1>15, <1>16, <1>17, <1>18 DEF Next

(* Every step keeps Typed.                                                 *)
LEMMA TypedNext == Typed /\ [Next]_vars => Typed'
  BY ApprovalsTyped, HeldTyped, RestTyped DEF Typed, TypeOK, Held, Rest, Steps

(* The types hold throughout.                                              *)
THEOREM RouterTypeCorrect == Spec => []TypeOK
<1>1. Typed => TypeOK
  BY DEF Typed
<1> QED BY <1>1, TypedInit, TypedNext, PTL DEF Spec
-----------------------------------------------------------------------------
(* A consent stays on record: its task, its approval and its execution.    *)
Kept ==
  \A i \in DOMAIN approvals :
    /\ i \in DOMAIN approvals' /\ approvals'[i].task = approvals[i].task
    /\ approvals[i].status = "approved" => approvals'[i].status = "approved"
    /\ approvals[i].executed => approvals'[i].executed

(* What a call holds of a consent after a step: none, the one it held, or  *)
(* one that its task may use.                                              *)
Carried(c) ==
  \/ at'[c].consent = 0
  \/ at'[c].consent = at[c].consent /\ at'[c].task = at[c].task
  \/ at'[c].consent \in Reusable(at[c].task) /\ at'[c].task = at[c].task

(* Only its own attempt at a leg brings a call to its request, and only    *)
(* the request adds to what was sent; the ledger only grows.               *)
Moved ==
  /\ \A d \in Calls : Carried(d)
  /\ \A d \in Calls : pc'[d] = "send" => (pc[d] = "send" /\ at'[d] = at[d]) \/ TryLeg(d)
  /\ sent' = sent \/ \E c \in Calls : Send(c)
  /\ called \subseteq called' /\ costs \subseteq costs'

(* Every step keeps the consents.                                          *)
LEMMA ApprovalsKept == Typed /\ [Next]_vars => Kept
<1> SUFFICES ASSUME Typed, [Next]_vars PROVE Kept
  OBVIOUS
<1>0. approvals \in Seq(Approval) /\ \A i \in DOMAIN approvals : approvals[i] \in Approval
  BY DEF Typed, TypeOK
<1> USE <1>0 DEF Kept
<1>1. ASSUME NEW c \in Calls, NEW sens \in BOOLEAN, PlanStarts(c, sens) PROVE Kept
  BY <1>1 DEF PlanStarts
<1>2. ASSUME NEW c \in Calls, ChatStarts(c) PROVE Kept
  BY <1>2 DEF ChatStarts
<1>3. ASSUME NEW c \in Calls, Load(c) PROVE Kept
  BY <1>3 DEF Load
<1>4. ASSUME NEW c \in Calls, CheckBudget(c) PROVE Kept
  BY <1>4 DEF CheckBudget
<1>5. ASSUME NEW c \in Calls, TryLeg(c) PROVE Kept
  <2>1. \E row : approvals' = approvals \/ approvals' = Append(approvals, row)
    BY <1>5 DEF TryLeg
  <2> QED BY <2>1
<1>6. ASSUME NEW c \in Calls, Send(c) PROVE Kept
  BY <1>6 DEF Send
<1>7. ASSUME NEW c \in Calls, NEW tokens \in 0..PerCall, Answered(c, tokens) PROVE Kept
  BY <1>7 DEF Answered
<1>8. ASSUME NEW c \in Calls, NEW eligible \in BOOLEAN, ProviderFails(c, eligible) PROVE Kept
  BY <1>8 DEF ProviderFails
<1>9. ASSUME NEW c \in Calls, MarkExecuted(c) PROVE Kept
  <2> DEFINE k == at[c].consent
             row == [approvals[k] EXCEPT !.executed = TRUE]
  <2>1. approvals' = approvals \/ approvals' = [approvals EXCEPT ![k] = row]
    BY <1>9 DEF MarkExecuted
  <2>2. k \in DOMAIN approvals => /\ row.task = approvals[k].task /\ row.executed
                                  /\ row.status = approvals[k].status
    BY DEF Approval
  <2> HIDE DEF k, row
  <2> QED BY <2>1, <2>2
<1>10. ASSUME NEW c \in Calls, LogCalled(c) PROVE Kept
  BY <1>10 DEF LogCalled
<1>11. ASSUME NEW c \in Calls, LogCost(c) PROVE Kept
  BY <1>11 DEF LogCost
<1>12. ASSUME NEW c \in Calls, NEW parses \in BOOLEAN, Plan(c, parses) PROVE Kept
  BY <1>12 DEF Plan
<1>13. ASSUME NEW c \in Calls, Fail(c) PROVE Kept
  BY <1>13 DEF Fail
<1>14. ASSUME NEW c \in Calls, Die(c) PROVE Kept
  BY <1>14 DEF Die
<1>15. ASSUME NEW i \in DOMAIN approvals, NEW status \in {"approved", "denied"}, Rule(i, status) PROVE Kept
  <2> DEFINE row == [approvals[i] EXCEPT !.status = status, !.ruled = rulings + 1]
  <2>1. approvals' = [approvals EXCEPT ![i] = row] /\ approvals[i].status = "pending"
    BY <1>15 DEF Rule
  <2>2. row.task = approvals[i].task /\ row.executed = approvals[i].executed
    BY DEF Approval
  <2> HIDE DEF row
  <2> QED BY <2>1, <2>2
<1>16. ASSUME NEW p \in Policies, EditPolicy(p) PROVE Kept
  BY <1>16 DEF EditPolicy
<1>17. CASE UNCHANGED vars
  BY <1>17 DEF vars
<1>18. ASSUME NEW c \in Calls, PlanThrows(c) PROVE Kept
  BY <1>18 DEF PlanThrows
<1> QED
  BY <1>1, <1>2, <1>3, <1>4, <1>5, <1>6, <1>7, <1>8, <1>9, <1>10, <1>11,
     <1>12, <1>13, <1>14, <1>15, <1>16, <1>17, <1>18 DEF Next

(* Every step moves calls as Moved says.                                   *)
LEMMA CallsMoved == Typed /\ [Next]_vars => Moved
<1> SUFFICES ASSUME Typed, [Next]_vars PROVE Moved
  OBVIOUS
<1>0. at \in [Calls -> Held] /\ pc \in [Calls -> Steps]
  BY DEF Typed, TypeOK, Held, Steps
<1>a. Nobody.consent = 0
  BY DEF Nobody
<1> USE <1>0, <1>a DEF Moved, Carried, Goto, ledger
<1>1. ASSUME NEW c \in Calls, NEW sens \in BOOLEAN, PlanStarts(c, sens) PROVE Moved
  BY <1>1 DEF PlanStarts
<1>2. ASSUME NEW c \in Calls, ChatStarts(c) PROVE Moved
  BY <1>2 DEF ChatStarts
<1>3. ASSUME NEW c \in Calls, Load(c) PROVE Moved
  BY <1>3 DEF Load
<1>4. ASSUME NEW c \in Calls, CheckBudget(c) PROVE Moved
  <2> DEFINE row == [at[c] EXCEPT !.legs = <<CHOOSE e \in Stubs : TRUE>>]
  <2>1. /\ sent' = sent /\ called' = called /\ costs' = costs
        /\ \E s \in {"failed", "leg"} : Goto(c, s)
    BY <1>4, Zenon DEF CheckBudget
  <2>2. at' = at \/ at' = [at EXCEPT ![c] = row]
    BY <1>4 DEF CheckBudget
  <2>3. row.consent = at[c].consent /\ row.task = at[c].task
    BY DEF Held
  <2> HIDE DEF row
  <2> QED BY <2>1, <2>2, <2>3
<1>5. ASSUME NEW c \in Calls, TryLeg(c) PROVE Moved
  <2>1. /\ sent' = sent /\ called' = called /\ costs' = costs
        /\ \E s \in {"failed", "send"} : Goto(c, s)
    BY <1>5, Zenon DEF TryLeg
  <2> DEFINE k == Latest(Reusable(at[c].task))
             row == [at[c] EXCEPT !.consent = k]
  <2>2. at' = at \/ (Reusable(at[c].task) # {} /\ at' = [at EXCEPT ![c] = row])
    BY <1>5 DEF TryLeg
  <2>3. Reusable(at[c].task) # {} => k \in Reusable(at[c].task)
    BY LatestIsOne DEF Reusable
  <2>4. row.consent = k /\ row.task = at[c].task
    BY DEF Held
  <2> HIDE DEF k, row
  <2> QED BY <1>5, <2>1, <2>2, <2>3, <2>4
<1>6. ASSUME NEW c \in Calls, Send(c) PROVE Moved
  BY <1>6 DEF Send
<1>7. ASSUME NEW c \in Calls, NEW tokens \in 0..PerCall, Answered(c, tokens) PROVE Moved
  BY <1>7 DEF Answered
<1>8. ASSUME NEW c \in Calls, NEW eligible \in BOOLEAN, ProviderFails(c, eligible) PROVE Moved
  <2> DEFINE row == [at[c] EXCEPT !.leg = @ + 1]
  <2>1. /\ sent' = sent /\ called' = called /\ costs' = costs
        /\ \E s \in {"failed", "leg"} : Goto(c, s)
    BY <1>8, Zenon DEF ProviderFails
  <2>2. at' = at \/ at' = [at EXCEPT ![c] = row]
    BY <1>8 DEF ProviderFails
  <2>3. row.consent = at[c].consent /\ row.task = at[c].task
    BY DEF Held
  <2> HIDE DEF row
  <2> QED BY <2>1, <2>2, <2>3
<1>9. ASSUME NEW c \in Calls, MarkExecuted(c) PROVE Moved
  BY <1>9 DEF MarkExecuted
<1>10. ASSUME NEW c \in Calls, LogCalled(c) PROVE Moved
  BY <1>10 DEF LogCalled
<1>11. ASSUME NEW c \in Calls, LogCost(c) PROVE Moved
  BY <1>11 DEF LogCost
<1>12. ASSUME NEW c \in Calls, NEW parses \in BOOLEAN, Plan(c, parses) PROVE Moved
  BY <1>12 DEF Plan
<1>13. ASSUME NEW c \in Calls, Fail(c) PROVE Moved
  BY <1>13 DEF Fail
<1>14. ASSUME NEW c \in Calls, Die(c) PROVE Moved
  BY <1>14 DEF Die
<1>15. ASSUME NEW i \in DOMAIN approvals, NEW status \in {"approved", "denied"}, Rule(i, status) PROVE Moved
  BY <1>15 DEF Rule
<1>16. ASSUME NEW p \in Policies, EditPolicy(p) PROVE Moved
  BY <1>16 DEF EditPolicy
<1>17. CASE UNCHANGED vars
  BY <1>17 DEF vars
<1>18. ASSUME NEW c \in Calls, PlanThrows(c) PROVE Moved
  BY <1>18 DEF PlanThrows
<1> QED
  BY <1>1, <1>2, <1>3, <1>4, <1>5, <1>6, <1>7, <1>8, <1>9, <1>10, <1>11,
     <1>12, <1>13, <1>14, <1>15, <1>16, <1>17, <1>18 DEF Next

(* A consent a call holds was approved for its task.                       *)
Backed(c) ==
  at[c].consent # 0 =>
    /\ at[c].consent \in DOMAIN approvals
    /\ approvals[at[c].consent].status = "approved"
    /\ approvals[at[c].consent].task = at[c].task

(* A call about to send sensitive context to a networked endpoint may.     *)
Cleared(c) ==
  pc[c] = "send" /\ at[c].sens /\ IsNetworked(at[c].legs[at[c].leg]) =>
    /\ at[c].policy.network
    /\ ModeFor(c) = "allow" \/ (ModeFor(c) = "ask" /\ at[c].consent # 0)

CloudInv ==
  /\ Typed
  /\ \A c \in Calls : Backed(c) /\ Cleared(c)
  /\ CloudNeedsConsent

(* CloudInv holds at the start.                                            *)
LEMMA CloudInit == Init => CloudInv
  BY TypedInit DEF Init, CloudInv, Backed, Cleared, CloudNeedsConsent, Nobody

(* An attempt at a leg clears the call or does not bring it to its request.*)
LEMMA LegClears ==
  ASSUME Typed, NEW c \in Calls, TryLeg(c), pc'[c] = "send"
  PROVE  Cleared(c)'
<1> DEFINE e == at[c].legs[at[c].leg]
           asked == Guarded(c, e) /\ ModeFor(c) = "ask"
           k == Latest(Reusable(at[c].task))
<1>0. at \in [Calls -> Held] /\ at[c] \in Held /\ pc \in [Calls -> Steps]
  BY DEF Typed, TypeOK, Held, Steps
<1>1. ~Blocked(c, e) /\ (asked => Reusable(at[c].task) # {})
      /\ at' = IF asked THEN [at EXCEPT ![c].consent = k] ELSE at
  BY <1>0 DEF TryLeg, Goto
<1>2. /\ at'[c].sens = at[c].sens /\ at'[c].legs = at[c].legs /\ at'[c].leg = at[c].leg
      /\ at'[c].policy = at[c].policy /\ at'[c].task = at[c].task
      /\ asked => at'[c].consent = k
  <2> HIDE DEF asked, k
  <2> QED BY <1>0, <1>1 DEF Held
<1>3. asked => k # 0
  <2>1. Reusable(at[c].task) \subseteq DOMAIN approvals /\ 0 \notin DOMAIN approvals
    BY DEF Reusable, Typed, TypeOK
  <2> QED BY <1>1, <2>1, LatestIsOne
<1>4. ModeFor(c) \in Modes /\ ModeFor(c)' = ModeFor(c)
  BY <1>0, <1>2 DEF ModeFor, Held, Policy
<1> QED BY <1>1, <1>2, <1>3, <1>4 DEF Cleared, Blocked, Guarded, Modes

(* Every step keeps CloudInv.                                              *)
LEMMA CloudNext == CloudInv /\ [Next]_vars => CloudInv'
<1> SUFFICES ASSUME CloudInv, [Next]_vars PROVE CloudInv'
  OBVIOUS
<1>1. Typed' /\ Kept /\ Moved
  BY TypedNext, ApprovalsKept, CallsMoved DEF CloudInv
<1>2. ASSUME NEW c \in Calls PROVE Backed(c)'
  BY <1>1 DEF CloudInv, Backed, Moved, Carried, Kept, Reusable
<1>3. ASSUME NEW c \in Calls PROVE Cleared(c)'
  <2>1. CASE pc'[c] = "send" /\ pc[c] = "send" /\ at'[c] = at[c]
    BY <2>1 DEF CloudInv, Cleared, ModeFor
  <2>2. CASE pc'[c] = "send" /\ TryLeg(c)
    BY <2>2, LegClears DEF CloudInv
  <2> QED BY <1>1, <2>1, <2>2 DEF Moved, Cleared
<1>4. CloudNeedsConsent'
  <2> SUFFICES ASSUME NEW s \in sent', s.sens, IsNetworked(s.endpoint)
               PROVE  /\ s.network
                      /\ \/ s.mode = "allow"
                         \/ /\ s.mode = "ask" /\ s.consent \in DOMAIN approvals'
                            /\ approvals'[s.consent].status = "approved"
                            /\ approvals'[s.consent].task = s.task
    BY DEF CloudNeedsConsent
  <2>1. CASE s \in sent
    BY <2>1, <1>1 DEF CloudInv, CloudNeedsConsent, Kept
  <2>2. ASSUME NEW c \in Calls, Send(c), s \notin sent
        PROVE  /\ s.network
               /\ \/ s.mode = "allow"
                  \/ /\ s.mode = "ask" /\ s.consent \in DOMAIN approvals
                     /\ approvals[s.consent].status = "approved"
                     /\ approvals[s.consent].task = s.task
    <3>1. /\ s.sens = at[c].sens /\ s.endpoint = at[c].legs[at[c].leg] /\ s.task = at[c].task
          /\ s.consent = at[c].consent /\ s.network = at[c].policy.network
          /\ s.mode = ModeFor(c) /\ pc[c] = "send"
      <4> DEFINE row == [call |-> c, task |-> at[c].task, sens |-> at[c].sens,
                         endpoint |-> at[c].legs[at[c].leg], consent |-> at[c].consent,
                         network |-> at[c].policy.network, mode |-> ModeFor(c)]
      <4>1. sent' = sent \union {row} /\ pc[c] = "send"
        BY <2>2 DEF Send
      <4>2. s = row
        <5> HIDE DEF row
        <5> QED BY <2>2, <4>1
      <4> QED BY <4>1, <4>2
    <3> QED BY <3>1 DEF CloudInv, Backed, Cleared
  <2>3. ASSUME NEW c \in Calls, Send(c) PROVE approvals' = approvals
    BY <2>3 DEF Send
  <2> QED BY <1>1, <2>1, <2>2, <2>3 DEF Moved
<1> QED BY <1>1, <1>2, <1>3, <1>4 DEF CloudInv

(* Sensitive context leaves the machine only with a consent of its task.   *)
THEOREM CloudAlwaysConsented == Spec => []CloudNeedsConsent
<1>1. CloudInv => CloudNeedsConsent
  BY DEF CloudInv
<1> QED BY <1>1, CloudInit, CloudNext, PTL DEF Spec
-----------------------------------------------------------------------------
(* A consent that was used, and a call with a line that names its consent. *)
Spent(k) == k # 0 => k \in DOMAIN approvals /\ approvals[k].executed
Ledgered(c) == \E m \in called : m.call = c /\ Spent(m.consent)

(* How far a call has got in the ledger and in the mission.                *)
Progress(c) ==
  /\ pc[c] = "called" => Spent(at[c].consent)
  /\ pc[c] \in {"cost", "answer"} \/ c \in plans => Ledgered(c)
  /\ pc[c] = "answer" \/ c \in plans => c \in costs
  /\ c \in plans => c \notin errors
  /\ c \in plans \union errors => pc[c] = "over"

(* A call that came to its try is a planning call that started, and when   *)
(* it is over, it left a plan or an error.                                 *)
Traced(d) ==
  d \in tried =>
    /\ pc[d] # "idle"
    /\ pc[d] \notin {"over", "dead"} => at[d].task = "planning"
    /\ pc[d] = "over" => d \in plans \union errors

PlanInv ==
  /\ Typed
  /\ \A c \in Calls : Backed(c) /\ Progress(c)
  /\ \A c \in Calls : Traced(c)

(* PlanInv holds at the start.                                             *)
LEMMA PlanInit == Init => PlanInv
  BY TypedInit DEF Init, PlanInv, Backed, Progress, Traced, Nobody

(* Ledger lines and spent consents stay.                                   *)
LEMMA LedgeredStays ==
  ASSUME Typed, [Next]_vars
  PROVE  /\ \A k \in Nat : Spent(k) => Spent(k)'
         /\ \A c \in Calls : Ledgered(c) => Ledgered(c)'
<1>1. Kept /\ Moved
  BY ApprovalsKept, CallsMoved
<1>2. \A k \in Nat : Spent(k) => Spent(k)'
  BY <1>1 DEF Kept, Spent
<1>3. \A m \in called : m.consent \in Nat
  BY DEF Typed, TypeOK
<1> QED BY <1>1, <1>2, <1>3 DEF Moved, Ledgered

(* Every step keeps Progress.                                              *)
LEMMA ProgressNext ==
  PlanInv /\ [Next]_vars => \A d \in Calls : Progress(d)'
<1> SUFFICES ASSUME PlanInv, [Next]_vars PROVE \A d \in Calls : Progress(d)'
  OBVIOUS
<1>0. /\ at \in [Calls -> Held] /\ pc \in [Calls -> Steps] /\ plans \subseteq Calls
      /\ errors \subseteq Calls /\ \A d \in Calls : at[d].consent \in Nat
  BY DEF PlanInv, Typed, TypeOK, Held, Steps
<1>a. /\ \A d \in Calls : Progress(d)
      /\ \A k \in Nat : Spent(k) => Spent(k)'
      /\ \A d \in Calls : Ledgered(d) => Ledgered(d)'
  BY LedgeredStays DEF PlanInv
<1> DEFINE Goal == \A d \in Calls : Progress(d)'
<1> USE <1>0, <1>a DEF Progress, Goto, ledger
<1>1. ASSUME NEW c \in Calls, NEW sens \in BOOLEAN, PlanStarts(c, sens) PROVE Goal
  BY <1>1 DEF PlanStarts, MayStart
<1>2. ASSUME NEW c \in Calls, ChatStarts(c) PROVE Goal
  BY <1>2 DEF ChatStarts, MayStart
<1>3. ASSUME NEW c \in Calls, Load(c) PROVE Goal
  BY <1>3 DEF Load
<1>4. ASSUME NEW c \in Calls, CheckBudget(c) PROVE Goal
  <2>1. UNCHANGED <<ledger, plans>> /\ pc[c] = "budget" /\ \E s \in {"failed", "leg"} : Goto(c, s)
    BY <1>4, Zenon DEF CheckBudget
  <2>2. \E row : at' = at \/ at' = [at EXCEPT ![c] = row]
    BY <1>4 DEF CheckBudget
  <2> QED BY <2>1, <2>2
<1>5. ASSUME NEW c \in Calls, TryLeg(c) PROVE Goal
  <2>1. UNCHANGED <<ledger, plans>> /\ pc[c] = "leg" /\ \E s \in {"failed", "send"} : Goto(c, s)
    BY <1>5, Zenon DEF TryLeg
  <2>2. \E row : at' = at \/ at' = [at EXCEPT ![c] = row]
    BY <1>5, Zenon DEF TryLeg
  <2> QED BY <2>1, <2>2
<1>6. ASSUME NEW c \in Calls, Send(c) PROVE Goal
  BY <1>6 DEF Send
<1>7. ASSUME NEW c \in Calls, NEW tokens \in 0..PerCall, Answered(c, tokens) PROVE Goal
  BY <1>7 DEF Answered
<1>8. ASSUME NEW c \in Calls, NEW eligible \in BOOLEAN, ProviderFails(c, eligible) PROVE Goal
  <2>1. UNCHANGED <<ledger, plans>> /\ pc[c] = "sent" /\ \E s \in {"failed", "leg"} : Goto(c, s)
    BY <1>8, Zenon DEF ProviderFails
  <2>2. \E row : at' = at \/ at' = [at EXCEPT ![c] = row]
    BY <1>8 DEF ProviderFails
  <2> QED BY <2>1, <2>2
<1>9. ASSUME NEW c \in Calls, MarkExecuted(c) PROVE Goal
  <2>1. Spent(at[c].consent)'
    <3>1. at' = at
      BY <1>9 DEF MarkExecuted
    <3>2. at[c].consent # 0 => at[c].consent \in DOMAIN approvals
      BY DEF PlanInv, Backed
    <3> DEFINE k == at[c].consent
    <3>3. CASE k = 0 \/ approvals[k].executed
      BY <1>9, <3>1, <3>2, <3>3 DEF MarkExecuted, Spent
    <3>4. CASE k # 0 /\ ~approvals[k].executed
      <4>1. approvals' = [approvals EXCEPT ![k] = [approvals[k] EXCEPT !.executed = TRUE]]
        BY <1>9, <3>4 DEF MarkExecuted
      <4>2. approvals[k] \in Approval
        BY <3>2, <3>4 DEF PlanInv, Typed, TypeOK
      <4>3. [approvals[k] EXCEPT !.executed = TRUE].executed
        BY <4>2 DEF Approval
      <4> QED BY <3>1, <3>2, <3>4, <4>1, <4>3 DEF Spent
    <3> QED BY <3>3, <3>4
  <2> QED BY <1>9, <2>1 DEF MarkExecuted
<1>10. ASSUME NEW c \in Calls, LogCalled(c) PROVE Goal
  <2>1. Ledgered(c)'
    <3> DEFINE row == [call |-> c, consent |-> at[c].consent, tokens |-> at[c].tokens]
    <3>1. row \in called' /\ row.call = c /\ row.consent = at[c].consent
      BY <1>10 DEF LogCalled
    <3>2. Spent(at[c].consent)'
      BY <1>10 DEF LogCalled, Spent
    <3> HIDE DEF row
    <3>3. at' = at
      BY <1>10 DEF LogCalled
    <3> QED BY <3>1, <3>2, <3>3 DEF Ledgered, Spent
  <2> QED BY <1>10, <2>1 DEF LogCalled
<1>11. ASSUME NEW c \in Calls, LogCost(c) PROVE Goal
  BY <1>11 DEF LogCost
<1>12. ASSUME NEW c \in Calls, NEW parses \in BOOLEAN, Plan(c, parses) PROVE Goal
  BY <1>12 DEF Plan
<1>13. ASSUME NEW c \in Calls, Fail(c) PROVE Goal
  BY <1>13 DEF Fail
<1>14. ASSUME NEW c \in Calls, Die(c) PROVE Goal
  BY <1>14 DEF Die, Working
<1>15. ASSUME NEW i \in DOMAIN approvals, NEW status \in {"approved", "denied"}, Rule(i, status) PROVE Goal
  BY <1>15 DEF Rule
<1>16. ASSUME NEW p \in Policies, EditPolicy(p) PROVE Goal
  BY <1>16 DEF EditPolicy
<1>17. CASE UNCHANGED vars
  BY <1>17 DEF vars
<1>18. ASSUME NEW c \in Calls, PlanThrows(c) PROVE Goal
  BY <1>18 DEF PlanThrows, MayStart
<1> QED
  BY <1>1, <1>2, <1>3, <1>4, <1>5, <1>6, <1>7, <1>8, <1>9, <1>10, <1>11,
     <1>12, <1>13, <1>14, <1>15, <1>16, <1>17, <1>18 DEF Next

(* Every step keeps the trace of the calls that came to their try.         *)
LEMMA TracedNext ==
  PlanInv /\ [Next]_vars => \A d \in Calls : Traced(d)'
<1> SUFFICES ASSUME PlanInv, [Next]_vars PROVE \A d \in Calls : Traced(d)'
  OBVIOUS
<1>0. /\ at \in [Calls -> Held] /\ pc \in [Calls -> Steps] /\ plans \subseteq Calls
      /\ errors \subseteq Calls
      /\ \A d \in Calls : d \in plans \union errors => pc[d] = "over"
  BY DEF PlanInv, Typed, TypeOK, Held, Steps, Progress
<1>a. \A d \in Calls : Traced(d)
  BY DEF PlanInv
<1> DEFINE Goal == \A d \in Calls : Traced(d)'
<1> USE <1>0, <1>a DEF Traced, Goto, ledger, world
<1>1. ASSUME NEW c \in Calls, NEW sens \in BOOLEAN, PlanStarts(c, sens) PROVE Goal
  BY <1>1 DEF PlanStarts, MayStart, Held, Nobody
<1>2. ASSUME NEW c \in Calls, ChatStarts(c) PROVE Goal
  BY <1>2 DEF ChatStarts, MayStart
<1>3. ASSUME NEW c \in Calls, Load(c) PROVE Goal
  BY <1>3 DEF Load
<1>4. ASSUME NEW c \in Calls, CheckBudget(c) PROVE Goal
  <2>1. /\ UNCHANGED <<ledger, plans, tried>> /\ pc[c] = "budget"
        /\ \E s \in {"failed", "leg"} : Goto(c, s)
    BY <1>4, Zenon DEF CheckBudget, world
  <2> DEFINE row == [at[c] EXCEPT !.legs = <<CHOOSE e \in Stubs : TRUE>>]
  <2>2. at' = at \/ at' = [at EXCEPT ![c] = row]
    BY <1>4 DEF CheckBudget
  <2>3. row.task = at[c].task
    BY DEF Held
  <2> HIDE DEF row
  <2> QED BY <2>1, <2>2, <2>3
<1>5. ASSUME NEW c \in Calls, TryLeg(c) PROVE Goal
  <2>1. /\ UNCHANGED <<ledger, plans, tried>> /\ pc[c] = "leg"
        /\ \E s \in {"failed", "send"} : Goto(c, s)
    BY <1>5, Zenon DEF TryLeg, world
  <2> DEFINE row == [at[c] EXCEPT !.consent = Latest(Reusable(at[c].task))]
  <2>2. at' = at \/ at' = [at EXCEPT ![c] = row]
    BY <1>5 DEF TryLeg
  <2>3. row.task = at[c].task
    BY DEF Held
  <2> HIDE DEF row
  <2> QED BY <2>1, <2>2, <2>3
<1>6. ASSUME NEW c \in Calls, Send(c) PROVE Goal
  BY <1>6 DEF Send
<1>7. ASSUME NEW c \in Calls, NEW tokens \in 0..PerCall, Answered(c, tokens) PROVE Goal
  BY <1>7 DEF Answered
<1>8. ASSUME NEW c \in Calls, NEW eligible \in BOOLEAN, ProviderFails(c, eligible) PROVE Goal
  <2>1. /\ UNCHANGED <<ledger, plans, tried>> /\ pc[c] = "sent"
        /\ \E s \in {"failed", "leg"} : Goto(c, s)
    BY <1>8, Zenon DEF ProviderFails
  <2> DEFINE row == [at[c] EXCEPT !.leg = @ + 1]
  <2>2. at' = at \/ at' = [at EXCEPT ![c] = row]
    BY <1>8 DEF ProviderFails
  <2>3. row.task = at[c].task
    BY DEF Held
  <2> HIDE DEF row
  <2> QED BY <2>1, <2>2, <2>3
<1>9. ASSUME NEW c \in Calls, MarkExecuted(c) PROVE Goal
  BY <1>9 DEF MarkExecuted
<1>10. ASSUME NEW c \in Calls, LogCalled(c) PROVE Goal
  BY <1>10 DEF LogCalled
<1>11. ASSUME NEW c \in Calls, LogCost(c) PROVE Goal
  BY <1>11 DEF LogCost
<1>12. ASSUME NEW c \in Calls, NEW parses \in BOOLEAN, Plan(c, parses) PROVE Goal
  BY <1>12 DEF Plan
<1>13. ASSUME NEW c \in Calls, Fail(c) PROVE Goal
  BY <1>13 DEF Fail
<1>14. ASSUME NEW c \in Calls, Die(c) PROVE Goal
  BY <1>14 DEF Die, Working
<1>15. ASSUME NEW i \in DOMAIN approvals, NEW status \in {"approved", "denied"}, Rule(i, status) PROVE Goal
  BY <1>15 DEF Rule
<1>16. ASSUME NEW p \in Policies, EditPolicy(p) PROVE Goal
  BY <1>16 DEF EditPolicy
<1>17. CASE UNCHANGED vars
  BY <1>17 DEF vars
<1>18. ASSUME NEW c \in Calls, PlanThrows(c) PROVE Goal
  BY <1>18 DEF PlanThrows, MayStart
<1> QED
  BY <1>1, <1>2, <1>3, <1>4, <1>5, <1>6, <1>7, <1>8, <1>9, <1>10, <1>11,
     <1>12, <1>13, <1>14, <1>15, <1>16, <1>17, <1>18 DEF Next

(* Every step keeps PlanInv.                                               *)
LEMMA PlanNext == PlanInv /\ [Next]_vars => PlanInv'
<1> SUFFICES ASSUME PlanInv, [Next]_vars PROVE PlanInv'
  OBVIOUS
<1>1. Typed' /\ Kept /\ Moved
  BY TypedNext, ApprovalsKept, CallsMoved DEF PlanInv
<1>2. ASSUME NEW c \in Calls PROVE Backed(c)'
  BY <1>1 DEF PlanInv, Backed, Moved, Carried, Kept, Reusable
<1> QED BY <1>1, <1>2, ProgressNext, TracedNext DEF PlanInv

(* A planning call that came to its try and is over left a plan or an      *)
(* error, and a stored plan is of a ledgered call whose consent is spent.  *)
THEOREM PlansAlwaysAccounted == Spec => []PlanIsAccounted
<1>1. PlanInv => PlanIsAccounted
  <2> SUFFICES ASSUME PlanInv, NEW c \in Calls
               PROVE  /\ c \in plans => /\ c \in costs /\ c \notin errors
                                        /\ Ledgered(c)
                      /\ pc[c] = "over" /\ c \in tried => c \in plans \union errors
    BY DEF PlanIsAccounted, Ledgered, Spent
  <2>1. Progress(c) /\ Traced(c)
    BY DEF PlanInv
  <2> QED BY <2>1 DEF Progress, Traced
<1> QED BY <1>1, PlanInit, PlanNext, PTL DEF Spec
-----------------------------------------------------------------------------
(* How a step goes about consents: who holds one may still use it, only    *)
(* the marking of one changes what is executed, and calls that do not      *)
(* overlap start one by one.                                               *)
Open == {"leg", "send", "sent", "mark"}
Uses(d) ==
  /\ pc'[d] \in {"load", "budget"} =>
       at'[d].consent = 0 \/ (pc[d] \in {"load", "budget"} /\ at'[d].consent = at[d].consent)
  /\ pc'[d] \in Open =>
       /\ pc[d] \in Open \union {"budget"}
       /\ at'[d].consent = at[d].consent \/ at'[d].consent \in Reusable(at[d].task)
  /\ pc'[d] = "called" => (pc[d] = "called" /\ at'[d] = at[d]) \/ MarkExecuted(d)
Queued ==
  \/ Working' \subseteq Working
  \/ (serial => Working = {}) /\ \E c \in Calls : Working' \subseteq {c} \union Working
Taken ==
  /\ \A d \in Calls : Uses(d)
  /\ \/ \A i \in DOMAIN approvals : approvals'[i].executed = approvals[i].executed
     \/ \E c \in Calls : MarkExecuted(c)
  /\ called' = called \/ \E c \in Calls : LogCalled(c)
  /\ Queued /\ serial' = serial

(* Every step does so.                                                     *)
LEMMA ConsentsTaken == Typed /\ [Next]_vars => Taken
<1> SUFFICES ASSUME Typed, [Next]_vars PROVE Taken
  OBVIOUS
<1>0. at \in [Calls -> Held] /\ pc \in [Calls -> Steps]
      /\ approvals \in Seq(Approval) /\ \A i \in DOMAIN approvals : approvals[i] \in Approval
  BY DEF Typed, TypeOK, Held, Steps
<1>a. Nobody.consent = 0
  BY DEF Nobody
<1> DEFINE Marks == \A i \in DOMAIN approvals : approvals'[i].executed = approvals[i].executed
<1> USE <1>0, <1>a DEF world, ledger
<1>1. ASSUME NEW c \in Calls, NEW sens \in BOOLEAN, PlanStarts(c, sens) PROVE Taken
  <2>1. pc[c] = "idle" /\ pc' = [pc EXCEPT ![c] = "load"] /\ at'[c].consent = 0 /\ (serial => Working = {})
        /\ \A d \in Calls : d # c => at'[d] = at[d]
    BY <1>1 DEF PlanStarts, MayStart, Goto, Held, Nobody
  <2>2. approvals' = approvals /\ called' = called /\ serial' = serial
    BY <1>1 DEF PlanStarts
  <2>3. \A d \in Calls : Uses(d)
    BY <2>1 DEF Uses, Open
  <2>4. Queued
    BY <2>1 DEF Queued, Working
  <2> QED BY <2>2, <2>3, <2>4 DEF Taken
<1>2. ASSUME NEW c \in Calls, ChatStarts(c) PROVE Taken
  <2>1. pc[c] = "idle" /\ pc' = [pc EXCEPT ![c] = "load"] /\ at'[c].consent = 0 /\ (serial => Working = {})
        /\ \A d \in Calls : d # c => at'[d] = at[d]
    BY <1>2 DEF ChatStarts, MayStart, Goto, Held, Nobody
  <2>2. approvals' = approvals /\ called' = called /\ serial' = serial
    BY <1>2 DEF ChatStarts
  <2>3. \A d \in Calls : Uses(d)
    BY <2>1 DEF Uses, Open
  <2>4. Queued
    BY <2>1 DEF Queued, Working
  <2> QED BY <2>2, <2>3, <2>4 DEF Taken
<1>3. ASSUME NEW c \in Calls, Load(c) PROVE Taken
  <2>1. pc[c] = "load" /\ \E s \in {"budget", "failed"} : pc' = [pc EXCEPT ![c] = s]
    BY <1>3, Zenon DEF Load, Goto
  <2>2. \A d \in Calls : d # c => at'[d] = at[d]
    BY <1>3 DEF Load
  <2>3. at'[c].consent = at[c].consent
    BY <1>3 DEF Load, Held
  <2>4. approvals' = approvals /\ called' = called /\ serial' = serial
    BY <1>3 DEF Load
  <2>5. \A d \in Calls : Uses(d)
    BY <1>3, <2>1, <2>2, <2>3 DEF Uses, Open
  <2>6. Queued
    BY <2>1 DEF Queued, Working
  <2> QED BY <1>3, <2>4, <2>5, <2>6 DEF Taken
<1>4. ASSUME NEW c \in Calls, CheckBudget(c) PROVE Taken
  <2>1. pc[c] = "budget" /\ \E s \in {"leg", "failed"} : pc' = [pc EXCEPT ![c] = s]
    BY <1>4, Zenon DEF CheckBudget, Goto
  <2>2. \A d \in Calls : d # c => at'[d] = at[d]
    BY <1>4 DEF CheckBudget
  <2>3. at'[c].consent = at[c].consent
    BY <1>4 DEF CheckBudget, Held
  <2>4. approvals' = approvals /\ called' = called /\ serial' = serial
    BY <1>4 DEF CheckBudget
  <2>5. \A d \in Calls : Uses(d)
    BY <1>4, <2>1, <2>2, <2>3 DEF Uses, Open
  <2>6. Queued
    BY <2>1 DEF Queued, Working
  <2> QED BY <1>4, <2>4, <2>5, <2>6 DEF Taken
<1>5. ASSUME NEW c \in Calls, TryLeg(c) PROVE Taken
  <2>1. pc[c] = "leg" /\ \E s \in {"failed", "send"} : pc' = [pc EXCEPT ![c] = s]
    BY <1>5, Zenon DEF TryLeg, Goto
  <2> DEFINE k == Latest(Reusable(at[c].task))
             row == [at[c] EXCEPT !.consent = k]
  <2>2. at' = at \/ (Reusable(at[c].task) # {} /\ at' = [at EXCEPT ![c] = row])
    BY <1>5 DEF TryLeg
  <2>3. Reusable(at[c].task) # {} => k \in Reusable(at[c].task)
    BY LatestIsOne DEF Reusable
  <2>4. row.consent = k
    BY DEF Held
  <2>5. called' = called /\ serial' = serial
        /\ \E r : approvals' = approvals \/ approvals' = Append(approvals, r)
    BY <1>5 DEF TryLeg
  <2> HIDE DEF k, row
  <2>6. \A d \in Calls : Uses(d)
    BY <2>1, <2>2, <2>3, <2>4 DEF Uses, Open
  <2>7. Marks
    BY <2>5
  <2>8. Queued
    BY <2>1 DEF Queued, Working
  <2> QED BY <2>5, <2>6, <2>7, <2>8 DEF Taken
<1>6. ASSUME NEW c \in Calls, Send(c) PROVE Taken
  <2>1. pc[c] = "send" /\ \E s \in {"sent"} : pc' = [pc EXCEPT ![c] = s]
    BY <1>6, Zenon DEF Send, Goto
  <2>2. \A d \in Calls : d # c => at'[d] = at[d]
    BY <1>6 DEF Send
  <2>3. at'[c].consent = at[c].consent
    BY <1>6 DEF Send, Held
  <2>4. approvals' = approvals /\ called' = called /\ serial' = serial
    BY <1>6 DEF Send
  <2>5. \A d \in Calls : Uses(d)
    BY <1>6, <2>1, <2>2, <2>3 DEF Uses, Open
  <2>6. Queued
    BY <2>1 DEF Queued, Working
  <2> QED BY <1>6, <2>4, <2>5, <2>6 DEF Taken
<1>7. ASSUME NEW c \in Calls, NEW tokens \in 0..PerCall, Answered(c, tokens) PROVE Taken
  <2>1. pc[c] = "sent" /\ \E s \in {"mark"} : pc' = [pc EXCEPT ![c] = s]
    BY <1>7, Zenon DEF Answered, Goto
  <2>2. \A d \in Calls : d # c => at'[d] = at[d]
    BY <1>7 DEF Answered
  <2>3. at'[c].consent = at[c].consent
    BY <1>7 DEF Answered, Held
  <2>4. approvals' = approvals /\ called' = called /\ serial' = serial
    BY <1>7 DEF Answered
  <2>5. \A d \in Calls : Uses(d)
    BY <1>7, <2>1, <2>2, <2>3 DEF Uses, Open
  <2>6. Queued
    BY <2>1 DEF Queued, Working
  <2> QED BY <1>7, <2>4, <2>5, <2>6 DEF Taken
<1>8. ASSUME NEW c \in Calls, NEW eligible \in BOOLEAN, ProviderFails(c, eligible) PROVE Taken
  <2>1. pc[c] = "sent" /\ \E s \in {"leg", "failed"} : pc' = [pc EXCEPT ![c] = s]
    BY <1>8, Zenon DEF ProviderFails, Goto
  <2>2. \A d \in Calls : d # c => at'[d] = at[d]
    BY <1>8 DEF ProviderFails
  <2>3. at'[c].consent = at[c].consent
    BY <1>8 DEF ProviderFails, Held
  <2>4. approvals' = approvals /\ called' = called /\ serial' = serial
    BY <1>8 DEF ProviderFails
  <2>5. \A d \in Calls : Uses(d)
    BY <1>8, <2>1, <2>2, <2>3 DEF Uses, Open
  <2>6. Queued
    BY <2>1 DEF Queued, Working
  <2> QED BY <1>8, <2>4, <2>5, <2>6 DEF Taken
<1>9. ASSUME NEW c \in Calls, MarkExecuted(c) PROVE Taken
  <2>1. pc[c] = "mark" /\ \E s \in {"called"} : pc' = [pc EXCEPT ![c] = s]
    BY <1>9, Zenon DEF MarkExecuted, Goto
  <2>2. \A d \in Calls : d # c => at'[d] = at[d]
    BY <1>9 DEF MarkExecuted
  <2>3. at'[c].consent = at[c].consent
    BY <1>9 DEF MarkExecuted, Held
  <2>4. TRUE /\ called' = called /\ serial' = serial
    BY <1>9 DEF MarkExecuted
  <2>5. \A d \in Calls : Uses(d)
    BY <1>9, <2>1, <2>2, <2>3 DEF Uses, Open
  <2>6. Queued
    BY <2>1 DEF Queued, Working
  <2> QED BY <1>9, <2>4, <2>5, <2>6 DEF Taken
<1>10. ASSUME NEW c \in Calls, LogCalled(c) PROVE Taken
  <2>1. pc[c] = "called" /\ \E s \in {"cost"} : pc' = [pc EXCEPT ![c] = s]
    BY <1>10, Zenon DEF LogCalled, Goto
  <2>2. \A d \in Calls : d # c => at'[d] = at[d]
    BY <1>10 DEF LogCalled
  <2>3. at'[c].consent = at[c].consent
    BY <1>10 DEF LogCalled, Held
  <2>4. approvals' = approvals /\ TRUE /\ serial' = serial
    BY <1>10 DEF LogCalled
  <2>5. \A d \in Calls : Uses(d)
    BY <1>10, <2>1, <2>2, <2>3 DEF Uses, Open
  <2>6. Queued
    BY <2>1 DEF Queued, Working
  <2> QED BY <1>10, <2>4, <2>5, <2>6 DEF Taken
<1>11. ASSUME NEW c \in Calls, LogCost(c) PROVE Taken
  <2>1. pc[c] = "cost" /\ \E s \in {"answer", "over"} : pc' = [pc EXCEPT ![c] = s]
    BY <1>11, Zenon DEF LogCost, Goto
  <2>2. \A d \in Calls : d # c => at'[d] = at[d]
    BY <1>11 DEF LogCost
  <2>3. TRUE
    BY <1>11 DEF LogCost, Held
  <2>4. approvals' = approvals /\ called' = called /\ serial' = serial
    BY <1>11 DEF LogCost
  <2>5. \A d \in Calls : Uses(d)
    BY <1>11, <2>1, <2>2, <2>3 DEF Uses, Open
  <2>6. Queued
    BY <2>1 DEF Queued, Working
  <2> QED BY <1>11, <2>4, <2>5, <2>6 DEF Taken
<1>12. ASSUME NEW c \in Calls, NEW parses \in BOOLEAN, Plan(c, parses) PROVE Taken
  <2>1. pc[c] = "answer" /\ \E s \in {"failed", "over"} : pc' = [pc EXCEPT ![c] = s]
    BY <1>12, Zenon DEF Plan, Goto
  <2>2. \A d \in Calls : d # c => at'[d] = at[d]
    BY <1>12 DEF Plan
  <2>3. TRUE
    BY <1>12 DEF Plan, Held
  <2>4. approvals' = approvals /\ called' = called /\ serial' = serial
    BY <1>12 DEF Plan
  <2>5. \A d \in Calls : Uses(d)
    BY <1>12, <2>1, <2>2, <2>3 DEF Uses, Open
  <2>6. Queued
    BY <2>1 DEF Queued, Working
  <2> QED BY <1>12, <2>4, <2>5, <2>6 DEF Taken
<1>13. ASSUME NEW c \in Calls, Fail(c) PROVE Taken
  <2>1. pc[c] = "failed" /\ \E s \in {"over"} : pc' = [pc EXCEPT ![c] = s]
    BY <1>13, Zenon DEF Fail, Goto
  <2>2. \A d \in Calls : d # c => at'[d] = at[d]
    BY <1>13 DEF Fail
  <2>3. TRUE
    BY <1>13 DEF Fail, Held
  <2>4. approvals' = approvals /\ called' = called /\ serial' = serial
    BY <1>13 DEF Fail
  <2>5. \A d \in Calls : Uses(d)
    BY <1>13, <2>1, <2>2, <2>3 DEF Uses, Open
  <2>6. Queued
    BY <2>1 DEF Queued, Working
  <2> QED BY <1>13, <2>4, <2>5, <2>6 DEF Taken
<1>14. ASSUME NEW c \in Calls, Die(c) PROVE Taken
  <2>1. c \in Working /\ pc' = [pc EXCEPT ![c] = "dead"]
    BY <1>14 DEF Die, Goto
  <2>2. \A d \in Calls : d # c => at'[d] = at[d]
    BY <1>14 DEF Die
  <2>4. approvals' = approvals /\ called' = called /\ serial' = serial
    BY <1>14 DEF Die
  <2>5. \A d \in Calls : Uses(d)
    BY <1>14, <2>1, <2>2 DEF Uses, Open
  <2>6. Queued
    BY <2>1 DEF Queued, Working
  <2> QED BY <1>14, <2>4, <2>5, <2>6 DEF Taken
<1>15. ASSUME NEW i \in DOMAIN approvals, NEW status \in {"approved", "denied"}, Rule(i, status) PROVE Taken
  <2> DEFINE row == [approvals[i] EXCEPT !.status = status, !.ruled = rulings + 1]
  <2>1. approvals' = [approvals EXCEPT ![i] = row] /\ UNCHANGED <<pc, at, called, serial>>
    BY <1>15 DEF Rule
  <2>2. row.executed = approvals[i].executed
    BY DEF Approval
  <2> HIDE DEF row
  <2>3. Marks
    BY <2>1, <2>2
  <2>4. (\A d \in Calls : Uses(d)) /\ Queued
    BY <2>1 DEF Uses, Queued, Open, Working
  <2> QED BY <2>1, <2>3, <2>4 DEF Taken
<1>16. ASSUME NEW p \in Policies, EditPolicy(p) PROVE Taken
  <2>1. UNCHANGED <<pc, at, called, serial, approvals>>
    BY <1>16 DEF EditPolicy
  <2>2. (\A d \in Calls : Uses(d)) /\ Queued
    BY <2>1 DEF Uses, Queued, Open, Working
  <2> QED BY <2>1, <2>2 DEF Taken
<1>17. CASE UNCHANGED vars
  BY <1>17 DEF vars, Taken, Uses, Queued, Open, Working
<1>18. ASSUME NEW c \in Calls, PlanThrows(c) PROVE Taken
  <2>1. pc[c] = "idle" /\ pc' = [pc EXCEPT ![c] = "over"] /\ at' = at
    BY <1>18 DEF PlanThrows, MayStart, Goto
  <2>2. approvals' = approvals /\ called' = called /\ serial' = serial
    BY <1>18 DEF PlanThrows
  <2>3. \A d \in Calls : Uses(d)
    BY <2>1 DEF Uses, Open
  <2>4. Queued
    BY <2>1 DEF Queued, Working
  <2> QED BY <2>2, <2>3, <2>4 DEF Taken
<1> QED
  BY <1>1, <1>2, <1>3, <1>4, <1>5, <1>6, <1>7, <1>8, <1>9, <1>10, <1>11,
     <1>12, <1>13, <1>14, <1>15, <1>16, <1>17, <1>18 DEF Next

(* A call that is under way holds a consent that is unused; one that has   *)
(* been answered holds one that is used and not in the ledger yet.         *)
Own(c) ==
  /\ pc[c] \in {"load", "budget"} => at[c].consent = 0
  /\ pc[c] \in Open /\ at[c].consent # 0 => ~approvals[at[c].consent].executed
  /\ pc[c] = "called" /\ at[c].consent # 0 =>
       /\ approvals[at[c].consent].executed
       /\ \A m \in called : m.consent # at[c].consent

OnceInv ==
  /\ CloudInv
  /\ serial =>
       /\ \A c, d \in Working : c = d
       /\ \A c \in Calls : Own(c)
       /\ \A m \in called : Spent(m.consent)
  /\ ConsentOnce

(* OnceInv holds at the start.                                             *)
LEMMA OnceInit == Init => OnceInv
  BY CloudInit DEF Init, OnceInv, Working, Own, Open, Spent, ConsentOnce, Nobody

(* Every step keeps OnceInv.                                               *)
LEMMA OnceNext == OnceInv /\ [Next]_vars => OnceInv'
<1> SUFFICES ASSUME OnceInv, [Next]_vars PROVE OnceInv'
  OBVIOUS
<1>1. CloudInv' /\ Kept /\ Taken
  BY CloudNext, ApprovalsKept, ConsentsTaken DEF OnceInv, CloudInv
<1>2. CASE ~serial
  BY <1>1, <1>2 DEF Taken, OnceInv, ConsentOnce
<1>3. CASE serial
  <2>1. /\ \A c, d \in Working : c = d
        /\ \A c \in Calls : Own(c) /\ Backed(c)
        /\ \A m \in called : Spent(m.consent)
        /\ \A m, n \in called : m.consent = n.consent /\ m.consent # 0 => m = n
    BY <1>3 DEF OnceInv, CloudInv, ConsentOnce
  <2>2. \A c, d \in Working' : c = d
    BY <1>1, <1>3, <2>1 DEF Taken, Queued
  <2>3. ASSUME NEW d \in Calls PROVE Own(d)'
    <3> DEFINE k == at'[d].consent
    <3>0. Uses(d) /\ Own(d) /\ Backed(d)
      BY <1>1, <2>1 DEF Taken
    <3>1. pc'[d] \in {"load", "budget"} => k = 0
      BY <3>0 DEF Uses, Own
    <3>2. ASSUME pc'[d] \in Open, k # 0 PROVE ~approvals'[k].executed
      <4>1. pc[d] \in Open \union {"budget"} /\ (k = at[d].consent \/ k \in Reusable(at[d].task))
        BY <3>0, <3>2 DEF Uses
      <4>2. k \in DOMAIN approvals /\ ~approvals[k].executed
        BY <3>0, <3>2, <4>1 DEF Own, Backed, Reusable
      <4>3. ASSUME NEW c \in Calls, MarkExecuted(c) PROVE FALSE
        <5>1. pc[c] = "mark" /\ pc' = [pc EXCEPT ![c] = "called"]
          BY <4>3 DEF MarkExecuted, Goto
        <5>2. c \in Working /\ d \in Working
          BY <4>1, <5>1 DEF Working, Open
        <5>3. c = d
          BY <2>1, <5>2
        <5>4. pc'[d] = "called"
          BY <5>1, <5>3 DEF OnceInv, CloudInv, Typed, TypeOK
        <5> QED BY <3>2, <5>4 DEF Open
      <4>4. approvals'[k].executed = approvals[k].executed
        BY <1>1, <4>2, <4>3 DEF Taken
      <4> QED BY <4>2, <4>4
    <3>3. ASSUME pc'[d] = "called", k # 0
          PROVE  approvals'[k].executed /\ \A m \in called' : m.consent # k
      <4>1. CASE pc[d] = "called" /\ at'[d] = at[d]
        <5>1. k \in DOMAIN approvals /\ approvals[k].executed /\ \A m \in called : m.consent # k
          BY <3>0, <3>3, <4>1 DEF Own, Backed
        <5>2. ASSUME NEW c \in Calls, LogCalled(c) PROVE FALSE
          <6>1. pc[c] = "called" /\ pc' = [pc EXCEPT ![c] = "cost"]
            BY <5>2 DEF LogCalled, Goto
          <6>2. c \in Working /\ d \in Working
            BY <4>1, <6>1 DEF Working
          <6>3. c = d
            BY <2>1, <6>2
          <6>4. pc'[d] = "cost"
            BY <6>1, <6>3 DEF OnceInv, CloudInv, Typed, TypeOK
          <6> QED BY <3>3, <6>4
        <5>3. called' = called
          BY <1>1, <5>2 DEF Taken
        <5> QED BY <1>1, <5>1, <5>3 DEF Kept
      <4>2. CASE MarkExecuted(d)
        <5>1. pc[d] = "mark" /\ at' = at /\ called' = called
              /\ approvals' = IF k = 0 \/ approvals[k].executed THEN approvals
                              ELSE [approvals EXCEPT ![k].executed = TRUE]
          BY <4>2 DEF MarkExecuted, ledger
        <5>2. k \in DOMAIN approvals /\ ~approvals[k].executed
          BY <3>0, <3>3, <5>1 DEF Own, Backed, Open
        <5>3. approvals[k] \in Approval
          BY <5>2 DEF OnceInv, CloudInv, Typed, TypeOK
        <5>4. approvals'[k].executed
          <6> HIDE DEF k
          <6> QED BY <3>3, <5>1, <5>2, <5>3 DEF Approval
        <5>5. \A m \in called : m.consent # k
          BY <2>1, <3>3, <5>2 DEF Spent
        <5> QED BY <5>1, <5>4, <5>5
      <4> QED BY <3>0, <3>3, <4>1, <4>2 DEF Uses
    <3> QED BY <3>1, <3>2, <3>3 DEF Own
  <2>4. ASSUME NEW c \in Calls, LogCalled(c)
        PROVE  /\ \A m \in called' : m \in called \/ (m.consent = at[c].consent /\ \A n \in called' : n \in called \/ n = m)
               /\ approvals' = approvals /\ pc[c] = "called"
    <3> DEFINE row == [call |-> c, consent |-> at[c].consent, tokens |-> at[c].tokens]
    <3>1. called' = called \union {row} /\ approvals' = approvals /\ pc[c] = "called"
      BY <2>4 DEF LogCalled
    <3>2. row.consent = at[c].consent
      OBVIOUS
    <3> HIDE DEF row
    <3> QED BY <3>1, <3>2
  <2>5. ASSUME NEW m \in called' PROVE Spent(m.consent)'
    <3>1. CASE m \in called
      BY <1>1, <2>1, <3>1 DEF Spent, Kept
    <3>2. CASE m \notin called
      <4>1. PICK c \in Calls : LogCalled(c)
        BY <1>1, <3>2 DEF Taken
      <4>2. m.consent = at[c].consent /\ approvals' = approvals /\ pc[c] = "called"
        BY <2>4, <3>2, <4>1
      <4> QED BY <2>1, <4>2 DEF Spent, Own, Backed
    <3> QED BY <3>1, <3>2
  <2>6. ConsentOnce'
    <3> SUFFICES ASSUME NEW m \in called', NEW n \in called', m.consent = n.consent, m.consent # 0
                 PROVE  m = n
      BY DEF ConsentOnce
    <3>1. CASE m \in called /\ n \in called
      BY <2>1, <3>1
    <3>2. CASE m \notin called \/ n \notin called
      <4>1. PICK c \in Calls : LogCalled(c)
        BY <1>1, <3>2 DEF Taken
      <4>2. Own(c) /\ pc[c] = "called"
        BY <2>1, <2>4, <4>1
      <4> QED BY <2>4, <3>2, <4>1, <4>2 DEF Own
    <3> QED BY <3>1, <3>2
  <2> QED BY <1>1, <2>2, <2>3, <2>5, <2>6 DEF OnceInv
<1> QED BY <1>2, <1>3

(* Calls that do not overlap never ledger two answers under one consent:   *)
(* the consent is spent before the line is written, on whatever leg.       *)
THEOREM ConsentsUsedOnce == Spec => []ConsentOnce
<1>1. OnceInv => ConsentOnce
  BY DEF OnceInv
<1> QED BY <1>1, OnceInit, OnceNext, PTL DEF Spec
-----------------------------------------------------------------------------
OneLine(s) == CHOOSE m \in s : TRUE

(* Added up one line at a time.                                            *)
AddsUp(g, T) ==
  \A s \in SUBSET T : g[s] = IF s = {} THEN 0 ELSE OneLine(s).tokens + g[s \ {OneLine(s)}]

(* Some function adds the lines up, and Spend is that function.            *)
LEMMA SpendAddsUp ==
  ASSUME NEW T, IsFiniteSet(T), \A m \in T : m.tokens \in Nat
  PROVE  \E g \in [SUBSET T -> Nat] : AddsUp(g, T) /\ \A s \in SUBSET T : SpendOf(s) = g[s]
<1> DEFINE op == [p \in T \X Nat |-> p[1].tokens + p[2]]
           pick == [s \in SUBSET T |-> OneLine(s)]
           iter(s, f) == IF s = {} THEN 0 ELSE OneLine(s).tokens + f[s \ {OneLine(s)}]
<1>0. \A s : s # {} => OneLine(s) \in s
  BY DEF OneLine
<1>1. Picks(pick, T)
  BY <1>0 DEF Picks
<1>2. op \in [T \X Nat -> Nat]
  OBVIOUS
<1>3. PICK g \in [SUBSET T -> Nat] : Folded(g, T, 0, op, pick)
  <2> HIDE DEF op, pick
  <2> QED BY <1>1, <1>2, FoldExists
<1>4. ASSUME NEW s \in SUBSET T PROVE g[s] = iter(s, g)
  <2>1. g[s] = IF s = {} THEN 0 ELSE op[<<pick[s], g[s \ {pick[s]}]>>]
    <3> HIDE DEF op, pick
    <3> QED BY <1>3 DEF Folded
  <2>2. s # {} => OneLine(s) \in T /\ g[s \ {OneLine(s)}] \in Nat
    BY <1>0
  <2> QED BY <2>1, <2>2
<1>5. ASSUME NEW U \in SUBSET T PROVE SpendOf(U) = g[U]
  <2> DEFINE Is(f) == f = [s \in SUBSET U |-> iter(s, f)]
             h == CHOOSE f : Is(f)
             P == {s \in SUBSET U : h[s] = g[s]}
  <2>1. SpendOf(U) = h[U]
    BY DEF SpendOf, FoldSet, MapThenFoldSet, OneLine
  <2>2. Is([s \in SUBSET U |-> g[s]])
    <3> DEFINE f == [s \in SUBSET U |-> g[s]]
    <3>1. ASSUME NEW s \in SUBSET U PROVE g[s] = iter(s, f)
      <4>1. s # {} => f[s \ {OneLine(s)}] = g[s \ {OneLine(s)}]
        OBVIOUS
      <4> HIDE DEF f
      <4> QED BY <1>4, <4>1
    <3> HIDE DEF iter
    <3> QED BY <3>1
  <2>3. h = [s \in SUBSET U |-> iter(s, h)]
    <3> HIDE DEF iter
    <3> QED BY <2>2
  <2> HIDE DEF h
  <2>4. ASSUME NEW s \in SUBSET U, \A r \in SUBSET s : r # s => r \in P PROVE s \in P
    <3>1. h[s] = iter(s, h)
      <4> HIDE DEF iter
      <4> QED BY <2>3
    <3>2. s # {} => h[s \ {OneLine(s)}] = g[s \ {OneLine(s)}]
      BY <1>0, <2>4
    <3> QED BY <1>4, <3>1, <3>2
  <2> HIDE DEF P
  <2>5. U \in P
    BY <2>4, FS_Subset, SubsetInduction
  <2> QED BY <2>1, <2>5 DEF P
<1>6. AddsUp(g, T)
  BY <1>4 DEF AddsUp
<1> QED BY <1>5, <1>6

(* One more line costs what it says.                                       *)
LEMMA SpendAdds ==
  ASSUME NEW S, IsFiniteSet(S), NEW m, m \notin S, \A n \in S \union {m} : n.tokens \in Nat
  PROVE  SpendOf(S) \in Nat /\ SpendOf(S \union {m}) = SpendOf(S) + m.tokens
<1> DEFINE T == S \union {m}
<1>1. IsFiniteSet(T)
  BY FS_AddElement
<1>2. PICK g \in [SUBSET T -> Nat] : AddsUp(g, T) /\ \A s \in SUBSET T : SpendOf(s) = g[s]
  <2> HIDE DEF T
  <2> QED BY <1>1, SpendAddsUp DEF T
<1> DEFINE P == {s \in SUBSET T : \A x \in s : g[s] = x.tokens + g[s \ {x}]}
<1>3. ASSUME NEW s \in SUBSET T, \A r \in SUBSET s : r # s => r \in P PROVE s \in P
  <2> DEFINE y == OneLine(s)
  <2>1. SUFFICES ASSUME NEW x \in s PROVE g[s] = x.tokens + g[s \ {x}]
    OBVIOUS
  <2>2. y \in s
    BY DEF OneLine
  <2> HIDE DEF y
  <2>3. g[s] = y.tokens + g[s \ {y}]
    BY <1>2, <2>1 DEF AddsUp, y
  <2>4. ASSUME x # y PROVE g[s] = x.tokens + g[s \ {x}]
    <3>1. g[s \ {y}] = x.tokens + g[(s \ {y}) \ {x}]
      BY <1>3, <2>1, <2>2, <2>4
    <3>2. g[s \ {x}] = y.tokens + g[(s \ {x}) \ {y}]
      BY <1>3, <2>1, <2>2, <2>4
    <3>3. (s \ {y}) \ {x} = (s \ {x}) \ {y}
      OBVIOUS
    <3> DEFINE z == (s \ {x}) \ {y}
    <3>4. x.tokens \in Nat /\ y.tokens \in Nat /\ g[z] \in Nat
      BY <2>1, <2>2
    <3>5. g[s \ {y}] = x.tokens + g[z] /\ g[s \ {x}] = y.tokens + g[z]
      BY <3>1, <3>2, <3>3
    <3> HIDE DEF z, T, P
    <3>6. y.tokens + (x.tokens + g[z]) = x.tokens + (y.tokens + g[z])
      BY <3>4
    <3> QED BY <2>3, <3>5, <3>6
  <2> QED BY <2>3, <2>4
<1>4. T \in P
  <2> HIDE DEF P, T
  <2>1. \A s \in SUBSET T : s \in P
    BY <1>1, <1>3, SubsetInduction
  <2> QED BY <2>1
<1>5. g[T] = m.tokens + g[S]
  <2>1. T \ {m} = S
    OBVIOUS
  <2> QED BY <1>4, <2>1
<1>6. g[S] \in Nat /\ m.tokens \in Nat /\ SpendOf(S) = g[S] /\ SpendOf(T) = g[T]
  BY <1>2
<1> QED BY <1>5, <1>6

(* No line costs nothing.                                                  *)
LEMMA NothingSpent == SpendOf({}) = 0
<1>1. PICK g \in [SUBSET {} -> Nat] : AddsUp(g, {}) /\ \A s \in SUBSET {} : SpendOf(s) = g[s]
  BY FS_EmptySet, SpendAddsUp
<1> QED BY <1>1 DEF AddsUp
-----------------------------------------------------------------------------
(* A call that may still add to the spend found it below the limit, or is  *)
(* on a stub, which costs nothing.                                         *)
Under == routing.tokens \notin {0, NoLimit} => Spend < routing.tokens

OnStub(c) ==
  /\ at[c].legs[at[c].leg] \in Stubs
  /\ pc[c] \in {"mark", "called"} => at[c].tokens = 0

Within(c) ==
  /\ pc[c] \in {"load", "budget"} => at[c].leg = 1
  /\ pc[c] \in Open \union {"called"} => Under \/ OnStub(c)

BudgetInv ==
  /\ OnceInv
  /\ IsFiniteSet(called)
  /\ serial => \A c \in Calls : Within(c)
  /\ BudgetKept

(* How a step goes about the budget: only the budget check opens a call's  *)
(* legs, and a call that stays on a leg keeps it, with what it cost.       *)
Pays(d) ==
  /\ pc'[d] \in {"load", "budget"} =>
       at'[d].leg = 1 \/ (pc[d] \in {"load", "budget"} /\ at'[d].leg = at[d].leg)
  /\ pc'[d] \in Open \union {"called"} =>
       \/ CheckBudget(d)
       \/ /\ pc[d] \in Open \union {"called"}
          /\ at'[d].legs = at[d].legs /\ at'[d].leg = at[d].leg
          /\ pc'[d] \in {"mark", "called"} =>
               \/ pc[d] \in {"mark", "called"} /\ at'[d].tokens = at[d].tokens
               \/ at[d].legs[at[d].leg] \in Stubs => at'[d].tokens = 0
       \/ pc[d] = "sent" /\ at[d].legs[at[d].leg] \notin Stubs

(* Every step does so.                                                     *)
LEMMA BudgetRespected == Typed /\ [Next]_vars => routing' = routing /\ \A d \in Calls : Pays(d)
<1> DEFINE Goal == routing' = routing /\ \A d \in Calls : Pays(d)
<1> SUFFICES ASSUME Typed, [Next]_vars PROVE Goal
  OBVIOUS
<1>0. at \in [Calls -> Held] /\ pc \in [Calls -> Steps]
  BY DEF Typed, TypeOK, Held, Steps
<1>a. ASSUME NEW d \in Calls, pc'[d] = pc[d], at'[d] = at[d] PROVE Pays(d)
  BY <1>a DEF Pays
<1>1. ASSUME NEW c \in Calls, NEW sens \in BOOLEAN, PlanStarts(c, sens) PROVE Goal
  <2>1. pc[c] = "idle" /\ \E s \in {"load"} : pc' = [pc EXCEPT ![c] = s]
    BY <1>1, Zenon DEF PlanStarts, MayStart, Goto
  <2>2. routing' = routing /\ \A d \in Calls : d # c => pc'[d] = pc[d] /\ at'[d] = at[d]
    BY <1>0, <1>1, <2>1 DEF PlanStarts, world
  <2>3. at'[c].leg = 1
    BY <1>0, <1>1 DEF PlanStarts, Held, Nobody
  <2>4. Pays(c)
    BY <1>0, <2>1, <2>3 DEF Pays, Open, Steps
  <2> QED BY <1>a, <2>2, <2>4
<1>2. ASSUME NEW c \in Calls, ChatStarts(c) PROVE Goal
  <2>1. pc[c] = "idle" /\ \E s \in {"load"} : pc' = [pc EXCEPT ![c] = s]
    BY <1>2, Zenon DEF ChatStarts, MayStart, Goto
  <2>2. routing' = routing /\ \A d \in Calls : d # c => pc'[d] = pc[d] /\ at'[d] = at[d]
    BY <1>0, <1>2, <2>1 DEF ChatStarts, world
  <2>3. at'[c].leg = 1
    BY <1>0, <1>2 DEF ChatStarts, Held, Nobody
  <2>4. Pays(c)
    BY <1>0, <2>1, <2>3 DEF Pays, Open, Steps
  <2> QED BY <1>a, <2>2, <2>4
<1>3. ASSUME NEW c \in Calls, Load(c) PROVE Goal
  <2>1. pc[c] = "load" /\ \E s \in {"budget", "failed"} : pc' = [pc EXCEPT ![c] = s]
    BY <1>3, Zenon DEF Load, Goto
  <2>2. routing' = routing /\ \A d \in Calls : d # c => pc'[d] = pc[d] /\ at'[d] = at[d]
    BY <1>0, <1>3, <2>1 DEF Load, world
  <2>3. at'[c].leg = at[c].leg
    BY <1>0, <1>3 DEF Load, Held
  <2>4. Pays(c)
    BY <1>0, <2>1, <2>3 DEF Pays, Open, Steps
  <2> QED BY <1>a, <2>2, <2>4
<1>4. ASSUME NEW c \in Calls, CheckBudget(c) PROVE Goal
  <2>1. pc[c] = "budget" /\ \E s \in {"leg", "failed"} : pc' = [pc EXCEPT ![c] = s]
    BY <1>4, Zenon DEF CheckBudget, Goto
  <2>2. routing' = routing /\ \A d \in Calls : d # c => pc'[d] = pc[d] /\ at'[d] = at[d]
    BY <1>0, <1>4, <2>1 DEF CheckBudget, world
  <2>3. TRUE
    OBVIOUS
  <2>4. Pays(c)
    BY <1>4, <1>0, <2>1, <2>3 DEF Pays, Open, Steps
  <2> QED BY <1>a, <2>2, <2>4
<1>5. ASSUME NEW c \in Calls, TryLeg(c) PROVE Goal
  <2>1. pc[c] = "leg" /\ \E s \in {"failed", "send"} : pc' = [pc EXCEPT ![c] = s]
    BY <1>5, Zenon DEF TryLeg, Goto
  <2>2. routing' = routing /\ \A d \in Calls : d # c => pc'[d] = pc[d] /\ at'[d] = at[d]
    BY <1>0, <1>5, <2>1 DEF TryLeg, world
  <2>3. at'[c].legs = at[c].legs /\ at'[c].leg = at[c].leg
    <3>1. at' = at \/ \E k : at' = [at EXCEPT ![c].consent = k]
      BY <1>5 DEF TryLeg
    <3> QED BY <1>0, <3>1 DEF Held
  <2>4. Pays(c)
    BY <1>0, <2>1, <2>3 DEF Pays, Open, Steps
  <2> QED BY <1>a, <2>2, <2>4
<1>6. ASSUME NEW c \in Calls, Send(c) PROVE Goal
  <2>1. pc[c] = "send" /\ \E s \in {"sent"} : pc' = [pc EXCEPT ![c] = s]
    BY <1>6, Zenon DEF Send, Goto
  <2>2. routing' = routing /\ \A d \in Calls : d # c => pc'[d] = pc[d] /\ at'[d] = at[d]
    BY <1>0, <1>6, <2>1 DEF Send, world
  <2>3. at'[c] = at[c]
    BY <1>6 DEF Send
  <2>4. Pays(c)
    BY <1>0, <2>1, <2>3 DEF Pays, Open, Steps
  <2> QED BY <1>a, <2>2, <2>4
<1>7. ASSUME NEW c \in Calls, NEW tokens \in 0..PerCall, Answered(c, tokens) PROVE Goal
  <2>1. pc[c] = "sent" /\ \E s \in {"mark"} : pc' = [pc EXCEPT ![c] = s]
    BY <1>7, Zenon DEF Answered, Goto
  <2>2. routing' = routing /\ \A d \in Calls : d # c => pc'[d] = pc[d] /\ at'[d] = at[d]
    BY <1>0, <1>7, <2>1 DEF Answered, world
  <2>3. /\ at'[c].legs = at[c].legs /\ at'[c].leg = at[c].leg
        /\ at[c].legs[at[c].leg] \in Stubs => at'[c].tokens = 0
    BY <1>0, <1>7 DEF Answered, Held
  <2>4. Pays(c)
    BY <1>0, <2>1, <2>3 DEF Pays, Open, Steps
  <2> QED BY <1>a, <2>2, <2>4
<1>8. ASSUME NEW c \in Calls, NEW eligible \in BOOLEAN, ProviderFails(c, eligible) PROVE Goal
  <2>1. pc[c] = "sent" /\ \E s \in {"leg", "failed"} : pc' = [pc EXCEPT ![c] = s]
    BY <1>8, Zenon DEF ProviderFails, Goto
  <2>2. routing' = routing /\ \A d \in Calls : d # c => pc'[d] = pc[d] /\ at'[d] = at[d]
    BY <1>0, <1>8, <2>1 DEF ProviderFails, world
  <2>3. at[c].legs[at[c].leg] \notin Stubs
    BY <1>8 DEF ProviderFails
  <2>4. Pays(c)
    BY <1>0, <2>1, <2>3 DEF Pays, Open, Steps
  <2> QED BY <1>a, <2>2, <2>4
<1>9. ASSUME NEW c \in Calls, MarkExecuted(c) PROVE Goal
  <2>1. pc[c] = "mark" /\ \E s \in {"called"} : pc' = [pc EXCEPT ![c] = s]
    BY <1>9, Zenon DEF MarkExecuted, Goto
  <2>2. routing' = routing /\ \A d \in Calls : d # c => pc'[d] = pc[d] /\ at'[d] = at[d]
    BY <1>0, <1>9, <2>1 DEF MarkExecuted, world
  <2>3. at'[c] = at[c]
    BY <1>9 DEF MarkExecuted
  <2>4. Pays(c)
    BY <1>0, <2>1, <2>3 DEF Pays, Open, Steps
  <2> QED BY <1>a, <2>2, <2>4
<1>10. ASSUME NEW c \in Calls, LogCalled(c) PROVE Goal
  <2>1. pc[c] = "called" /\ \E s \in {"cost"} : pc' = [pc EXCEPT ![c] = s]
    BY <1>10, Zenon DEF LogCalled, Goto
  <2>2. routing' = routing /\ \A d \in Calls : d # c => pc'[d] = pc[d] /\ at'[d] = at[d]
    BY <1>0, <1>10, <2>1 DEF LogCalled, world
  <2>3. TRUE
    OBVIOUS
  <2>4. Pays(c)
    BY <1>0, <2>1, <2>3 DEF Pays, Open, Steps
  <2> QED BY <1>a, <2>2, <2>4
<1>11. ASSUME NEW c \in Calls, LogCost(c) PROVE Goal
  <2>1. pc[c] = "cost" /\ \E s \in {"answer", "over"} : pc' = [pc EXCEPT ![c] = s]
    BY <1>11, Zenon DEF LogCost, Goto
  <2>2. routing' = routing /\ \A d \in Calls : d # c => pc'[d] = pc[d] /\ at'[d] = at[d]
    BY <1>0, <1>11, <2>1 DEF LogCost, world
  <2>3. TRUE
    OBVIOUS
  <2>4. Pays(c)
    BY <1>0, <2>1, <2>3 DEF Pays, Open, Steps
  <2> QED BY <1>a, <2>2, <2>4
<1>12. ASSUME NEW c \in Calls, NEW parses \in BOOLEAN, Plan(c, parses) PROVE Goal
  <2>1. pc[c] = "answer" /\ \E s \in {"failed", "over"} : pc' = [pc EXCEPT ![c] = s]
    BY <1>12, Zenon DEF Plan, Goto
  <2>2. routing' = routing /\ \A d \in Calls : d # c => pc'[d] = pc[d] /\ at'[d] = at[d]
    BY <1>0, <1>12, <2>1 DEF Plan, world
  <2>3. TRUE
    OBVIOUS
  <2>4. Pays(c)
    BY <1>0, <2>1, <2>3 DEF Pays, Open, Steps
  <2> QED BY <1>a, <2>2, <2>4
<1>13. ASSUME NEW c \in Calls, Fail(c) PROVE Goal
  <2>1. pc[c] = "failed" /\ \E s \in {"over"} : pc' = [pc EXCEPT ![c] = s]
    BY <1>13, Zenon DEF Fail, Goto
  <2>2. routing' = routing /\ \A d \in Calls : d # c => pc'[d] = pc[d] /\ at'[d] = at[d]
    BY <1>0, <1>13, <2>1 DEF Fail, world
  <2>3. TRUE
    OBVIOUS
  <2>4. Pays(c)
    BY <1>0, <2>1, <2>3 DEF Pays, Open, Steps
  <2> QED BY <1>a, <2>2, <2>4
<1>14. ASSUME NEW c \in Calls, Die(c) PROVE Goal
  <2>1. pc' = [pc EXCEPT ![c] = "dead"] /\ routing' = routing
        /\ \A d \in Calls : d # c => pc'[d] = pc[d] /\ at'[d] = at[d]
    BY <1>0, <1>14 DEF Die, Goto
  <2>2. Pays(c)
    BY <1>0, <2>1 DEF Pays, Open
  <2> QED BY <1>a, <2>1, <2>2
<1>15. ASSUME NEW i \in DOMAIN approvals, NEW status \in {"approved", "denied"}, Rule(i, status) PROVE Goal
  BY <1>a, <1>15 DEF Rule
<1>16. ASSUME NEW p \in Policies, EditPolicy(p) PROVE Goal
  BY <1>a, <1>16 DEF EditPolicy
<1>17. CASE UNCHANGED vars
  BY <1>a, <1>17 DEF vars
<1>18. ASSUME NEW c \in Calls, PlanThrows(c) PROVE Goal
  <2>1. pc[c] = "idle" /\ \E s \in {"over"} : pc' = [pc EXCEPT ![c] = s]
    BY <1>18, Zenon DEF PlanThrows, MayStart, Goto
  <2>2. routing' = routing /\ \A d \in Calls : d # c => pc'[d] = pc[d] /\ at'[d] = at[d]
    BY <1>0, <1>18, <2>1 DEF PlanThrows, world
  <2>3. Pays(c)
    BY <1>0, <2>1 DEF Pays, Open, Steps
  <2> QED BY <1>a, <2>2, <2>3
<1> HIDE DEF Goal
<1> QED
  BY <1>1, <1>2, <1>3, <1>4, <1>5, <1>6, <1>7, <1>8, <1>9, <1>10, <1>11,
     <1>12, <1>13, <1>14, <1>15, <1>16, <1>17, <1>18 DEF Next

(* The lines of the ledger add up to a number.                             *)
LEMMA SpendIsNat == Typed /\ IsFiniteSet(called) => Spend \in Nat
<1> SUFFICES ASSUME Typed, IsFiniteSet(called) PROVE Spend \in Nat
  OBVIOUS
<1>1. \A m \in called : m.tokens \in Nat
  BY RouterAssumption DEF Typed, TypeOK
<1>2. PICK g \in [SUBSET called -> Nat] : \A s \in SUBSET called : SpendOf(s) = g[s]
  BY <1>1, SpendAddsUp
<1> QED BY <1>2 DEF Spend

(* An answer adds at most its own tokens to the spend.                     *)
LEMMA SpendGrows ==
  ASSUME Typed, Typed', IsFiniteSet(called), NEW c \in Calls, LogCalled(c)
  PROVE  IsFiniteSet(called') /\ (Spend' = Spend \/ Spend' = Spend + at[c].tokens)
<1> DEFINE row == [call |-> c, consent |-> at[c].consent, tokens |-> at[c].tokens]
<1>1. called' = called \union {row} /\ row.tokens = at[c].tokens
  BY DEF LogCalled
<1>2. \A m \in called' : m.tokens \in Nat
  BY RouterAssumption DEF Typed, TypeOK
<1> HIDE DEF row
<1>3. IsFiniteSet(called')
  BY <1>1, FS_AddElement
<1>4. Spend = SpendOf(called) /\ Spend' = SpendOf(called')
  BY DEF Spend
<1>5. CASE row \in called
  <2>1. called' = called
    BY <1>1, <1>5
  <2> QED BY <1>3, <1>4, <2>1
<1>6. CASE row \notin called
  <2>1. SpendOf(called \union {row}) = SpendOf(called) + row.tokens
    BY <1>1, <1>2, <1>6, SpendAdds
  <2> QED BY <1>1, <1>3, <1>4, <2>1
<1> QED BY <1>5, <1>6

(* BudgetInv holds at the start.                                           *)
LEMMA BudgetInit == Init => BudgetInv
<1> SUFFICES ASSUME Init PROVE BudgetInv
  OBVIOUS
<1>1. OnceInv /\ called = {} /\ \A c \in Calls : pc[c] = "idle"
  BY OnceInit DEF Init
<1>2. IsFiniteSet(called) /\ \A c \in Calls : Within(c)
  BY <1>1, FS_EmptySet DEF Within, Open
<1>3. Spend = 0
  BY <1>1, NothingSpent DEF Spend
<1>4. routing.tokens \in Nat /\ PerCall \in Nat
  BY <1>1, RouterAssumption DEF OnceInv, CloudInv, Typed, TypeOK, Routing
<1>5. BudgetKept
  BY <1>3, <1>4 DEF BudgetKept
<1> QED BY <1>1, <1>2, <1>5 DEF BudgetInv

(* A call that may still add to the spend stays within the budget.         *)
LEMMA WithinNext ==
  ASSUME BudgetInv, [Next]_vars, serial, NEW d \in Calls
  PROVE  Within(d)'
<1>1. Typed /\ Within(d) /\ \A c, e \in Working : c = e
  BY DEF BudgetInv, OnceInv, CloudInv
<1>0. at \in [Calls -> Held] /\ pc \in [Calls -> Steps]
  BY <1>1 DEF Typed, TypeOK, Held, Steps
<1>2. routing' = routing /\ Pays(d) /\ Taken
  BY <1>1, BudgetRespected, ConsentsTaken
<1>3. pc'[d] \in {"load", "budget"} => at'[d].leg = 1
  BY <1>1, <1>2 DEF Pays, Within
<1>4. ASSUME pc'[d] \in Open \union {"called"} PROVE Under' \/ OnStub(d)'
  <2>1. pc[d] \in Open \union {"called", "budget"}
    BY <1>2, <1>4 DEF Pays, CheckBudget, Open
  <2>2. ASSUME NEW c \in Calls, LogCalled(c) PROVE FALSE
    <3>1. pc[c] = "called" /\ pc' = [pc EXCEPT ![c] = "cost"]
      BY <2>2 DEF LogCalled, Goto
    <3>2. c = d
      BY <1>1, <2>1, <3>1 DEF Working, Open
    <3> QED BY <1>0, <1>4, <3>1, <3>2 DEF Open
  <2>3. called' = called
    BY <1>2, <2>2 DEF Taken
  <2>4. Under' <=> Under
    BY <1>2, <2>3 DEF Under, Spend
  <2>5. CASE CheckBudget(d)
    <3>1. pc[d] = "budget" /\ at[d].leg = 1 /\ pc'[d] = "leg"
      BY <1>0, <1>1, <1>4, <2>5, Zenon DEF CheckBudget, Within, Goto, Open
    <3>2. CASE ~OverBudget
      <4>1. routing.tokens \in Nat /\ Spend \in Nat
        BY <1>1, RouterAssumption, SpendIsNat DEF BudgetInv, Typed, TypeOK, Routing
      <4> QED BY <2>4, <3>2, <4>1 DEF OverBudget, Under
    <3>3. CASE OverBudget
      <4>1. at' = [at EXCEPT ![d].legs = <<CHOOSE e \in Stubs : TRUE>>]
        BY <1>0, <3>1, <3>3, <2>5 DEF CheckBudget, Goto
      <4>2. (CHOOSE e \in Stubs : TRUE) \in Stubs
        BY RouterAssumption
      <4>3. at'[d].legs = <<CHOOSE e \in Stubs : TRUE>> /\ at'[d].leg = 1
        BY <1>0, <3>1, <4>1 DEF Held
      <4> QED BY <3>1, <4>2, <4>3 DEF OnStub
    <3> QED BY <3>2, <3>3
  <2>6. CASE pc[d] = "sent" /\ at[d].legs[at[d].leg] \notin Stubs
    BY <1>1, <2>4, <2>6 DEF Within, OnStub, Open
  <2>7. CASE /\ pc[d] \in Open \union {"called"}
             /\ at'[d].legs = at[d].legs /\ at'[d].leg = at[d].leg
             /\ pc'[d] \in {"mark", "called"} =>
                  \/ pc[d] \in {"mark", "called"} /\ at'[d].tokens = at[d].tokens
                  \/ at[d].legs[at[d].leg] \in Stubs => at'[d].tokens = 0
    <3>1. Under \/ OnStub(d)
      BY <1>1, <2>7 DEF Within
    <3> QED BY <2>4, <2>7, <3>1 DEF OnStub
  <2> QED BY <1>2, <1>4, <2>5, <2>6, <2>7 DEF Pays
<1> QED BY <1>3, <1>4 DEF Within

(* Every step keeps BudgetInv.                                             *)
LEMMA BudgetNext == BudgetInv /\ [Next]_vars => BudgetInv'
<1> SUFFICES ASSUME BudgetInv, [Next]_vars PROVE BudgetInv'
  OBVIOUS
<1>1. Typed /\ OnceInv' /\ Typed' /\ Taken /\ routing' = routing
  BY OnceNext, ConsentsTaken, BudgetRespected DEF BudgetInv, OnceInv, CloudInv
<1>2. IsFiniteSet(called')
  <2>1. IsFiniteSet(called)
    BY DEF BudgetInv
  <2> QED BY <1>1, <2>1, SpendGrows DEF Taken
<1>3. serial' => \A c \in Calls : Within(c)'
  BY <1>1, WithinNext DEF Taken
<1>4. BudgetKept'
  <2> SUFFICES ASSUME serial, routing.tokens \notin {0, NoLimit}
               PROVE  Spend' < routing.tokens + PerCall
    BY <1>1 DEF BudgetKept, Taken
  <2>1. CASE called' = called
    BY <2>1 DEF BudgetInv, BudgetKept, Spend
  <2>2. CASE \E c \in Calls : LogCalled(c)
    <3>1. PICK c \in Calls : LogCalled(c)
      BY <2>2
    <3>2. Within(c) /\ pc[c] = "called" /\ IsFiniteSet(called)
      BY <3>1 DEF BudgetInv, LogCalled
    <3>3. at[c].tokens \in 0..PerCall
      BY <1>1 DEF Typed, TypeOK
    <3>4. routing.tokens \in Nat /\ PerCall \in Nat /\ Spend \in Nat
      BY <1>1, <3>2, RouterAssumption, SpendIsNat DEF Typed, TypeOK, Routing
    <3>5. Spend' = Spend \/ Spend' = Spend + at[c].tokens
      BY <1>1, <3>1, <3>2, SpendGrows
    <3>6. Spend < routing.tokens + PerCall
      BY DEF BudgetInv, BudgetKept
    <3>7. Spend < routing.tokens \/ at[c].tokens = 0
      BY <3>2 DEF Within, Under, OnStub
    <3> HIDE DEF Spend
    <3> QED BY <3>3, <3>4, <3>5, <3>6, <3>7
  <2> QED BY <1>1, <2>1, <2>2 DEF Taken
<1> QED BY <1>1, <1>2, <1>3, <1>4 DEF BudgetInv

(* Calls that do not overlap overrun a token limit by less than one        *)
(* answer, however many legs, failures and dead processes came before.     *)
THEOREM BudgetAlwaysKept == Spec => []BudgetKept
<1>1. BudgetInv => BudgetKept
  BY DEF BudgetInv
<1> QED BY <1>1, BudgetInit, BudgetNext, PTL DEF Spec
=============================================================================
