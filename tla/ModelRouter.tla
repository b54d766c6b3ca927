----------------------------- MODULE ModelRouter -----------------------------
(***************************************************************************)
(* Model calls (src/agent/model-router.ts, model-routing.ts) and the       *)
(* planner that makes them (model-planner.ts).  A call reads the policy    *)
(* and the routing file, compares the mission's ledgered spend with the    *)
(* budget, tries the legs of its task in order, asks for a human's consent *)
(* before sensitive context leaves the machine, and ledgers what came      *)
(* back.                                                                   *)
(*                                                                         *)
(* Approvals are ruled on and written in one step here; ApprovalGate       *)
(* models their files.  Both cost and the stub's usage are always zero     *)
(* (openai-compatible.ts:164, stub.ts:26), so a cost limit is reached at   *)
(* once or never.                                                          *)
(***************************************************************************)
EXTENDS Naturals, FiniteSets, SequencesExt

CONSTANTS
  Calls,          \* model calls that are made
  Endpoints,      \* endpoints of model-routing.yaml
  Stubs,          \* those of kind stub
  Loopback,       \* those whose base_url is this machine
  Keyless,        \* those whose API key is not set
  EnvEndpoint,    \* what the environment variables describe
  Routings,       \* model-routing.yaml as it may be
  Policies,       \* policy.yaml as it may be
  PerCall,        \* most tokens one answer costs
  NoLimit,        \* a budget that is not set
  MaxOverlap,     \* bound: how many calls are made when they interleave
  MaxEdits,       \* bound: changes of the policy
  MaxDeaths       \* bound: processes that die

Tasks == {"planning", "companion_chat"}
Modes == {"allow", "ask", "block"}
Policy == [valid : BOOLEAN, network : BOOLEAN, sensitive : Modes, companion : Modes]
Routing == [valid : BOOLEAN, legs : [Tasks -> Seq(Endpoints)], tokens : Nat, cost : Nat,
            exceed : {"fail_closed", "downgrade_stub"}]

ASSUME RouterAssumption ==
  /\ Stubs \subseteq Endpoints /\ Stubs # {}
  /\ Loopback \subseteq Endpoints /\ Keyless \subseteq Endpoints
  /\ EnvEndpoint \in Endpoints
  /\ Routings \subseteq Routing /\ Policies \subseteq Policy
  /\ PerCall \in Nat /\ NoLimit \in Nat
  /\ MaxOverlap \in Nat /\ MaxEdits \in Nat /\ MaxDeaths \in Nat

VARIABLES
  policy, routing,
  approvals,      \* consents asked for, oldest first
  called,         \* model.called lines of the ledger, [call, consent, tokens]
  costs,          \* calls with a cost.recorded line
  errors,         \* calls with an error line
  plans,          \* calls whose plan graph was stored
  tried,          \* planning calls that came to their try, history
  sent,           \* requests that left, as the call saw the policy then
  pc, at,         \* per call: what it does next, and what it holds
  serial,         \* TRUE when one call ends before the next begins
  rulings, edits, deaths

vars == <<policy, routing, approvals, called, costs, errors, plans, tried, sent, pc, at,
          serial, rulings, edits, deaths>>
ledger == <<called, costs, errors>>
world == <<policy, routing, tried, serial, rulings, edits, deaths>>

Approval == [task : Tasks, status : {"pending", "approved", "denied"}, executed : BOOLEAN,
             ruled : Nat]
Nobody == [task |-> "planning", sens |-> FALSE, policy |-> [valid |-> FALSE, network |-> FALSE,
           sensitive |-> "block", companion |-> "block"], legs |-> <<>>, leg |-> 1,
           consent |-> 0, tokens |-> 0]

TypeOK ==
  /\ policy \in Policies /\ routing \in Routings
  /\ approvals \in Seq(Approval)
  /\ called \subseteq [call : Calls, consent : Nat, tokens : 0..PerCall]
  /\ costs \subseteq Calls /\ errors \subseteq Calls /\ plans \subseteq Calls
  /\ tried \subseteq Calls
  /\ pc \in [Calls -> {"idle", "load", "budget", "leg", "send", "sent", "mark", "called",
                       "cost", "answer", "failed", "over", "dead"}]
  /\ at \in [Calls -> [task : Tasks, sens : BOOLEAN, policy : Policy,
                       legs : Seq(Endpoints), leg : Nat, consent : Nat, tokens : 0..PerCall]]
  /\ rulings \in Nat /\ edits \in 0..MaxEdits /\ deaths \in 0..MaxDeaths

Init ==
  /\ policy \in Policies /\ routing \in Routings
  /\ approvals = <<>>
  /\ called = {} /\ costs = {} /\ errors = {} /\ plans = {} /\ tried = {} /\ sent = {}
  /\ pc = [c \in Calls |-> "idle"]
  /\ at = [c \in Calls |-> Nobody]
  /\ serial \in BOOLEAN
  /\ rulings = 0 /\ edits = 0 /\ deaths = 0

Working == {c \in Calls : pc[c] \notin {"idle", "over", "dead"}}
MayStart(c) ==
  /\ pc[c] = "idle"
  /\ IF serial THEN Working = {} ELSE Cardinality({d \in Calls : pc[d] # "idle"}) < MaxOverlap
Goto(c, step) == pc' = [pc EXCEPT ![c] = step]
-----------------------------------------------------------------------------
(* computeMissionModelSpend: an answer that reported no total counts zero. *)
SpendOf(lines) == FoldSet(LAMBDA m, n : m.tokens + n, 0, lines)
Spend == SpendOf(called)

(* shouldBudgetDowngradeToStub, assertBudgetAllowsCall.                    *)
OverBudget ==
  \/ routing.tokens # NoLimit /\ Spend >= routing.tokens
  \/ routing.cost = 0

(* openAiBaseUrlIsNetworkedForPolicy.                                      *)
IsNetworked(e) == e \notin Stubs /\ e \notin Loopback
ProviderMissing(e) == e \notin Stubs /\ e \in Keyless

(* resolveRouteLegsForTask, resolveRoutingLegs: without a route the        *)
(* environment decides.                                                    *)
LegsFor(task) == IF routing.legs[task] = <<>> THEN <<EnvEndpoint>> ELSE routing.legs[task]

(* companion_chat has a mode of its own.                                   *)
ModeFor(c) ==
  IF at[c].task = "companion_chat" THEN at[c].policy.companion ELSE at[c].policy.sensitive

(* What both consent and policy are asked about, on every leg.             *)
Guarded_primary(c, e) == IsNetworked(e) /\ at[c].sens /\ at[c].leg = 1

Guarded(c, e) == IsNetworked(e) /\ at[c].sens

(* enforcePolicy; with mode ask the consent is already at hand.            *)
Blocked(c, e) ==
  (IsNetworked(e) /\ ~at[c].policy.network) \/ (Guarded(c, e) /\ ModeFor(c) = "block")

(* findReusableSensitiveConsent: the one ruled on last.                    *)
Reusable(task) ==
  {i \in DOMAIN approvals : /\ approvals[i].task = task
                            /\ approvals[i].status = "approved" /\ ~approvals[i].executed}
Latest(S) == CHOOSE i \in S : \A j \in S : approvals[j].ruled <= approvals[i].ruled
-----------------------------------------------------------------------------
(* generatePlan reads the mission and the policy and packs context, where  *)
(* the policy may let it leave; whether the packet is sensitive is what    *)
(* ContextPacket computes.                                                 *)
PlanStarts(c, sens) ==
  /\ MayStart(c)
  /\ sens => policy.valid /\ policy.sensitive \in {"allow", "ask"}
  /\ tried' = tried \union {c}
  /\ at' = [at EXCEPT ![c] = [Nobody EXCEPT !.sens = sens]]
  /\ Goto(c, "load")
  /\ UNCHANGED <<policy, routing, approvals, ledger, plans, sent, serial, rulings, edits,
                 deaths>>

(* One of those throws: this is before the try, so no line says so.        *)
PlanThrows(c) ==
  /\ MayStart(c)
  /\ Goto(c, "over")
  /\ UNCHANGED <<at, approvals, ledger, plans, sent, world>>

(* runCompanionChatTurn, as far as the router goes.                        *)
ChatStarts(c) ==
  /\ MayStart(c)
  /\ at' = [at EXCEPT ![c] = [Nobody EXCEPT !.task = "companion_chat"]]
  /\ Goto(c, "load")
  /\ UNCHANGED <<approvals, ledger, plans, sent, world>>

Load(c) ==
  /\ pc[c] = "load"
  /\ at' = [at EXCEPT ![c].policy = policy, ![c].legs = LegsFor(at[c].task)]
  /\ Goto(c, IF policy.valid /\ routing.valid THEN "budget" ELSE "failed")
  /\ UNCHANGED <<approvals, ledger, plans, sent, world>>

CheckBudget_strict(c) ==
  /\ pc[c] = "budget"
  /\ \/ /\ ~(routing.tokens # NoLimit /\ Spend > routing.tokens)
        /\ Goto(c, "leg") /\ UNCHANGED at
     \/ /\ routing.tokens # NoLimit /\ Spend > routing.tokens
        /\ Goto(c, "failed") /\ UNCHANGED at
  /\ UNCHANGED <<approvals, ledger, plans, sent, world>>

CheckBudget(c) ==
  /\ pc[c] = "budget"
  /\ \/ ~OverBudget /\ Goto(c, "leg") /\ UNCHANGED at
     \/ /\ OverBudget /\ routing.exceed = "downgrade_stub"
        /\ at' = [at EXCEPT ![c].legs = <<CHOOSE e \in Stubs : TRUE>>]
        /\ Goto(c, "leg")
     \/ OverBudget /\ routing.exceed = "fail_closed" /\ Goto(c, "failed") /\ UNCHANGED at
  /\ UNCHANGED <<approvals, ledger, plans, sent, world>>

(* One leg up to the request: the provider, ensureSensitiveCloudConsent    *)
(* and enforcePolicy.  Nothing thrown here tries the next leg.             *)
TryLeg(c) ==
  /\ pc[c] = "leg"
  /\ LET e == at[c].legs[at[c].leg]
         guarded == Guarded(c, e)
     IN \/ /\ ProviderMissing(e)
           /\ Goto(c, "failed") /\ UNCHANGED <<at, approvals>>
        \/ /\ ~ProviderMissing(e)
           /\ guarded /\ ModeFor(c) = "ask" /\ Reusable(at[c].task) = {}
           /\ approvals' = Append(approvals, [task |-> at[c].task, status |-> "pending",
                                              executed |-> FALSE, ruled |-> 0])
           /\ Goto(c, "failed") /\ UNCHANGED at
        \/ /\ ~ProviderMissing(e)
           /\ guarded /\ ModeFor(c) = "ask" => Reusable(at[c].task) # {}
           /\ at' = IF guarded /\ ModeFor(c) = "ask"
                    THEN [at EXCEPT ![c].consent = Latest(Reusable(at[c].task))]
                    ELSE at
           /\ Goto(c, IF Blocked(c, e) THEN "failed" ELSE "send")
           /\ UNCHANGED approvals
  /\ UNCHANGED <<ledger, plans, sent, world>>

Send(c) ==
  /\ pc[c] = "send"
  /\ sent' = sent \union {[call |-> c, task |-> at[c].task, sens |-> at[c].sens,
                           endpoint |-> at[c].legs[at[c].leg], consent |-> at[c].consent,
                           network |-> at[c].policy.network, mode |-> ModeFor(c)]}
  /\ Goto(c, "sent")
  /\ UNCHANGED <<at, approvals, ledger, plans, world>>

(* The provider answers; a stub costs nothing.                             *)
Answered(c, tokens) ==
  /\ pc[c] = "sent"
  /\ at[c].legs[at[c].leg] \in Stubs => tokens = 0
  /\ at' = [at EXCEPT ![c].tokens = tokens]
  /\ Goto(c, "mark")
  /\ UNCHANGED <<approvals, ledger, plans, sent, world>>

(* isFallbackEligibleError: a request that failed, timed out or came back  *)
(* with an HTTP error tries the next leg; a response that does not parse,  *)
(* or an abort while its body is read, does not.                           *)
ProviderFails(c, eligible) ==
  /\ pc[c] = "sent"
  /\ at[c].legs[at[c].leg] \notin Stubs
  /\ IF eligible /\ at[c].leg < Len(at[c].legs)
     THEN at' = [at EXCEPT ![c].leg = @ + 1] /\ Goto(c, "leg")
     ELSE Goto(c, "failed") /\ UNCHANGED at
  /\ UNCHANGED <<approvals, ledger, plans, sent, world>>

(* markApprovalExecuted: a consent found by an earlier leg counts too.     *)
MarkExecuted_skipsFallback(c) ==
  /\ pc[c] = "mark"
  /\ approvals' = IF at[c].consent = 0 \/ at[c].leg > 1 THEN approvals
                  ELSE [approvals EXCEPT ![at[c].consent].executed = TRUE]
  /\ Goto(c, "called")
  /\ UNCHANGED <<at, ledger, plans, sent, world>>

MarkExecuted(c) ==
  /\ pc[c] = "mark"
  /\ approvals' = IF at[c].consent = 0 \/ approvals[at[c].consent].executed THEN approvals
                  ELSE [approvals EXCEPT ![at[c].consent].executed = TRUE]
  /\ Goto(c, "called")
  /\ UNCHANGED <<at, ledger, plans, sent, world>>

(* appendModelLedgerEvents: two lines.                                     *)
LogCalled(c) ==
  /\ pc[c] = "called"
  /\ called' = called \union {[call |-> c, consent |-> at[c].consent, tokens |-> at[c].tokens]}
  /\ Goto(c, "cost")
  /\ UNCHANGED <<at, approvals, costs, errors, plans, sent, world>>

LogCost(c) ==
  /\ pc[c] = "cost"
  /\ costs' = costs \union {c}
  /\ Goto(c, IF at[c].task = "planning" THEN "answer" ELSE "over")
  /\ at' = IF at[c].task = "planning" THEN at ELSE [at EXCEPT ![c] = Nobody]
  /\ UNCHANGED <<approvals, called, errors, plans, sent, world>>

(* parseModelPlan and updateMissionPlanGraph, or an answer that is no plan.*)
Plan(c, parses) ==
  /\ pc[c] = "answer"
  /\ IF parses THEN plans' = plans \union {c} /\ Goto(c, "over")
               ELSE UNCHANGED plans /\ Goto(c, "failed")
  /\ at' = IF parses THEN [at EXCEPT ![c] = Nobody] ELSE at
  /\ UNCHANGED <<approvals, ledger, sent, world>>

(* The planner ledgers what was thrown (appendPlanningError); the          *)
(* companion answers with it.                                              *)
Fail_silently(c) ==
  /\ pc[c] = "failed"
  /\ Goto(c, "over")
  /\ at' = [at EXCEPT ![c] = Nobody]
  /\ UNCHANGED <<approvals, ledger, plans, sent, world>>

Fail(c) ==
  /\ pc[c] = "failed"
  /\ errors' = IF at[c].task = "planning" THEN errors \union {c} ELSE errors
  /\ Goto(c, "over")
  /\ at' = [at EXCEPT ![c] = Nobody]
  /\ UNCHANGED <<approvals, called, costs, plans, sent, world>>
-----------------------------------------------------------------------------
Rule(i, status) ==
  /\ approvals[i].status = "pending"
  /\ rulings' = rulings + 1
  /\ approvals' = [approvals EXCEPT ![i].status = status, ![i].ruled = rulings + 1]
  /\ UNCHANGED <<policy, routing, ledger, plans, tried, sent, pc, at, serial, edits, deaths>>

EditPolicy(p) ==
  /\ edits < MaxEdits /\ p # policy
  /\ policy' = p
  /\ edits' = edits + 1
  /\ UNCHANGED <<routing, approvals, ledger, plans, tried, sent, pc, at, serial, rulings,
                 deaths>>

Die(c) ==
  /\ c \in Working /\ deaths < MaxDeaths
  /\ Goto(c, "dead")
  /\ at' = [at EXCEPT ![c] = Nobody]
  /\ deaths' = deaths + 1
  /\ UNCHANGED <<policy, routing, approvals, ledger, plans, tried, sent, serial, rulings,
                 edits>>

Next ==
  \/ \E c \in Calls :
       \/ \E sens \in BOOLEAN : PlanStarts(c, sens)
       \/ PlanThrows(c) \/ ChatStarts(c) \/ Load(c) \/ CheckBudget(c) \/ TryLeg(c) \/ Send(c)
       \/ \E tokens \in 0..PerCall : Answered(c, tokens)
       \/ \E eligible \in BOOLEAN : ProviderFails(c, eligible)
       \/ MarkExecuted(c) \/ LogCalled(c) \/ LogCost(c)
       \/ \E parses \in BOOLEAN : Plan(c, parses)
       \/ Fail(c) \/ Die(c)
  \/ \E i \in DOMAIN approvals : \E status \in {"approved", "denied"} : Rule(i, status)
  \/ \E p \in Policies : EditPolicy(p)

Spec == Init /\ [][Next]_vars
-----------------------------------------------------------------------------
(* Sensitive context reaches a networked endpoint, on whatever leg, only   *)
(* if the policy the call read lets it: allowed outright, or asked for and *)
(* approved by a human for the same task (docs/safety-model.md:143).       *)
CloudNeedsConsent ==
  \A s \in sent : s.sens /\ IsNetworked(s.endpoint) =>
    /\ s.network
    /\ \/ s.mode = "allow"
       \/ /\ s.mode = "ask" /\ s.consent \in DOMAIN approvals
          /\ approvals[s.consent].status = "approved" /\ approvals[s.consent].task = s.task

(* A consent covers one answer: as long as calls do not overlap, no two    *)
(* ledgered calls name the same approval, whichever legs they took.        *)
ConsentOnce ==
  serial => \A m, n \in called : m.consent = n.consent /\ m.consent # 0 => m = n

(* Calls that do not overlap overrun the token limit by at most the last   *)
(* answer: the next one is refused or downgraded, however many legs or     *)
(* dead processes came before (docs/safety-model.md:164).  Calls that      *)
(* overlap have all read the spend before each other's lines.              *)
BudgetKept ==
  serial /\ routing.tokens \notin {0, NoLimit} => Spend < routing.tokens + PerCall

(* A planning call that comes to its try and ends leaves a plan or an      *)
(* error in the mission, whether or not a request left                     *)
(* (model-planner.ts:55-90), and a plan is never stored before the call    *)
(* that produced it is ledgered and its consent spent.  A mission or a     *)
(* context that cannot be read throws before the try, and nothing says so. *)
PlanIsAccounted ==
  \A c \in Calls :
    /\ c \in plans => /\ c \in costs /\ c \notin errors
                      /\ \E m \in called : /\ m.call = c
                                           /\ m.consent # 0 => approvals[m.consent].executed
    /\ pc[c] = "over" /\ c \in tried => c \in plans \union errors
=============================================================================
