---------------------------- MODULE LoopPrecise ----------------------------
(***************************************************************************)
(* run_precise: the DS-STAR control loop of packages/core, a LangGraph     *)
(* StateGraph whose nodes are the functions of loop/nodes/ and whose       *)
(* conditional edges are the predicates of loop/edges.py.  One action is   *)
(* one node together with the edge that leaves it (one super-step).        *)
(*                                                                         *)
(* The agents are nondeterministic: the planner restates any plan, a       *)
(* script succeeds or crashes, the verifier and the router answer anything *)
(* their schemas allow, and every node that awaits an outside service may  *)
(* raise instead.  Texts, costs and the two budgets are constants.         *)
(***************************************************************************)
EXTENDS Integers, Sequences, FiniteSetsExt

CONSTANTS
  Texts,            \* texts a plan step can have
  Norm,             \* Norm[t]: what is left of text t once white space is collapsed
  MaxDrafts,        \* bound: steps in one planner answer
  CallCosts,        \* what the model calls of one node may add to cost_usd
  MaxRounds,        \* RunBudget.max_rounds
  MaxDebugAttempts, \* RunBudget.max_debug_attempts
  MaxCost,          \* RunBudget.max_cost_usd
  MaxRepeats        \* CycleDetector's max_repeats

ASSUME TextsAssumption == Norm \in [Texts -> Texts]
ASSUME CostAssumption == CallCosts \subseteq Nat /\ CallCosts # {} /\ MaxCost \in Nat
ASSUME BudgetAssumption ==
  /\ MaxDrafts \in Nat
  /\ MaxRounds \in Nat \ {0}
  /\ MaxDebugAttempts \in Nat
  /\ MaxRepeats \in Nat \ {0}

VARIABLES
  pc,                     \* the node the graph runs next, or "end", or "raised"
  plan,                   \* active_plan: the steps not superseded, in list order
  superseded,             \* the superseded steps of RunState.plan
  script,                 \* RunState.script: the artifact's number, NoScript if none
  scriptCheckpoints,      \* step index -> artifact
  observations,           \* the members of RunState.observations
  lastObservation,        \* observations[-1]
  observationCheckpoints, \* step index -> observation
  sufficient,             \* verdicts[-1].sufficient
  decision,               \* routes[-1]
  round, debugAttempts, cost,
  abandoned,              \* RunState.abandoned_branches
  history,                \* CycleDetector._history (it lives outside RunState)
  status,                 \* RunState.status
  (* The rest records the past for the properties; no guard reads it.      *)
  artifacts,              \* artifacts generated so far: the next one's number
  crashes,                \* failed executions since the planner last ran
  everSucceeded,          \* some execution of this run succeeded
  steps                   \* super-steps taken

planVars == <<plan, superseded, history>>
scriptVars == <<script, scriptCheckpoints, artifacts>>
observationVars == <<observations, lastObservation, observationCheckpoints, everSucceeded>>
judgeVars == <<sufficient, decision, round, abandoned>>
debugVars == <<debugAttempts, crashes>>
vars == <<pc, planVars, scriptVars, observationVars, judgeVars, debugVars, cost, status, steps>>

-----------------------------------------------------------------------------
(* Data.                                                                   *)

Nodes == {"analyze", "retrieve", "plan", "code", "execute", "debug", "verify",
          "route", "truncate", "finalize_ok", "finalize_degraded"}

NoScript == 0
NoIndex == -1    \* RouterDecision.backtrack_index is None

Step == [index : Nat, text : Texts]
Observation == [script : Nat, succeeded : BOOLEAN]
NoObservation == [script |-> NoScript, succeeded |-> FALSE]
Decision == [action : {"add_step", "backtrack"}, index : Nat \cup {NoIndex}]

(* PlannerOutput.steps.                                                    *)
Drafts == UNION {[1..n -> Texts] : n \in 0..MaxDrafts}

ActiveSteps == {plan[i] : i \in DOMAIN plan}
AllSteps == ActiveSteps \cup superseded
Indices(S) == {s.index : s \in S}

(* max(..., default=d).                                                    *)
MaxOr(S, d) == IF S = {} THEN d ELSE Max(S)
MaxActiveIndex == MaxOr(Indices(ActiveSteps), 0)

Set(f, k, v) == [x \in DOMAIN f \cup {k} |-> IF x = k THEN v ELSE f[x]]
BelowOrAt(f, j) == [k \in {x \in DOMAIN f : x <= j} |-> f[k]]    \* mutant
Below(f, j) == [k \in {x \in DOMAIN f : x < j} |-> f[k]]

-----------------------------------------------------------------------------
(* Policies and edges.                                                     *)

(* _is_prefix: the planner restated the active plan, up to white space.    *)
Restates(drafts) ==
  /\ Len(plan) <= Len(drafts)
  /\ \A i \in DOMAIN plan : Norm[plan[i].text] = Norm[drafts[i]]

(* plan_fingerprint, before hashing: the raw texts of the active plan.     *)
Fingerprint(p) == [i \in DOMAIN p |-> p[i].text]

(* CycleDetector.is_cycling on the history h.                              *)
Cycling(h) ==
  /\ Len(h) >= MaxRepeats
  /\ \A i \in (Len(h) - MaxRepeats + 1)..Len(h) : h[i] = h[Len(h)]

BudgetSpent == round >= MaxRounds \/ cost >= MaxCost

AfterExecuteUnmapped(succeeded) ==    \* mutant: an edge name the graph has no target for
  IF succeeded THEN "verify"
  ELSE IF BudgetSpent THEN "budget"
       ELSE IF debugAttempts >= MaxDebugAttempts THEN "finalize_degraded" ELSE "debug"

AfterExecute(succeeded) ==
  IF succeeded THEN "verify"
  ELSE IF BudgetSpent \/ debugAttempts >= MaxDebugAttempts
       THEN "finalize_degraded" ELSE "debug"

VerifyOutcomeLate(isSufficient, rounds) ==    \* mutant: off by one
  IF isSufficient THEN "finalize_ok"
  ELSE IF rounds > MaxRounds THEN "finalize_degraded" ELSE "route"

VerifyOutcome(isSufficient, rounds) ==
  IF isSufficient THEN "finalize_ok"
  ELSE IF rounds >= MaxRounds THEN "finalize_degraded" ELSE "route"

RouteOutcome(d) ==
  IF d.action = "backtrack" /\ d.index # NoIndex THEN "truncate" ELSE "plan"

DefaultRecursionLimit == 25    \* mutant: langgraph's default
RecursionLimit == 2 + MaxRounds * (8 + 2 * MaxDebugAttempts) + 10

-----------------------------------------------------------------------------
(* Nodes.                                                                  *)

Goto(from, to) == pc = from /\ pc' = to /\ steps' = steps + 1
Account == \E c \in CallCosts : cost' = cost + c

Init ==
  /\ pc = "analyze"
  /\ plan = <<>> /\ superseded = {} /\ history = <<>>
  /\ script = NoScript /\ scriptCheckpoints = <<>> /\ artifacts = 0
  /\ observations = {} /\ lastObservation = NoObservation
  /\ observationCheckpoints = <<>> /\ everSucceeded = FALSE
  /\ sufficient = FALSE /\ decision = [action |-> "add_step", index |-> NoIndex]
  /\ round = 0 /\ abandoned = <<>>
  /\ debugAttempts = 0 /\ crashes = 0
  /\ cost = 0 /\ status = "running" /\ steps = 0

(* The file descriptions only feed prompts; here the node spends money.    *)
Analyze ==
  /\ Goto("analyze", "retrieve")
  /\ Account
  /\ UNCHANGED <<planVars, scriptVars, observationVars, judgeVars, debugVars, status>>

Retrieve ==
  /\ Goto("retrieve", "plan")
  /\ UNCHANGED <<planVars, scriptVars, observationVars, judgeVars, debugVars, cost, status>>

NextActiveIndex == MaxOr(Indices(ActiveSteps), -1) + 1    \* mutant
NextIndex == MaxOr(Indices(AllSteps), -1) + 1

(* New steps only if the planner restated the plan, else all its steps.    *)
NewDrafts(drafts) ==
  IF Restates(drafts) THEN SubSeq(drafts, Len(plan) + 1, Len(drafts)) ELSE drafts

ExtendPlan(drafts) ==
  plan \o [i \in DOMAIN NewDrafts(drafts) |->
             [index |-> NextIndex + i - 1, text |-> NewDrafts(drafts)[i]]]

KeepDebugBudget == UNCHANGED debugAttempts    \* mutant: one debug budget for the run
ResetDebugBudget == debugAttempts' = 0

Plan ==
  /\ \E drafts \in Drafts :
       /\ plan' = ExtendPlan(drafts)
       /\ history' = Append(history, Fingerprint(plan'))
       /\ Goto("plan", IF Cycling(history') THEN "finalize_degraded" ELSE "code")
  /\ ResetDebugBudget
  /\ crashes' = 0
  /\ Account
  /\ UNCHANGED <<superseded, scriptVars, observationVars, judgeVars, status>>

(* A fresh artifact, checkpointed under the newest active step.            *)
NewArtifact ==
  /\ artifacts' = artifacts + 1
  /\ script' = artifacts + 1
  /\ scriptCheckpoints' = Set(scriptCheckpoints, MaxActiveIndex, artifacts + 1)

Code ==
  /\ Goto("code", "execute")
  /\ NewArtifact
  /\ Account
  /\ UNCHANGED <<planVars, observationVars, judgeVars, debugVars, status>>

(* A timeout is recorded as a failed observation; any other error of the   *)
(* sandbox, or a missing script, raises.                                   *)
Execute ==
  /\ script # NoScript
  /\ \E ok \in BOOLEAN :
       LET obs == [script |-> script, succeeded |-> ok]
       IN /\ Goto("execute", AfterExecute(ok))
          /\ observations' = observations \cup {obs}
          /\ lastObservation' = obs
          /\ observationCheckpoints' = Set(observationCheckpoints, MaxActiveIndex, obs)
          /\ everSucceeded' = (everSucceeded \/ ok)
          /\ crashes' = IF ok THEN crashes ELSE crashes + 1
  /\ UNCHANGED <<planVars, scriptVars, judgeVars, debugAttempts, cost, status>>

DebugKeepingCheckpoint ==    \* mutant: only the coder writes checkpoints
  /\ Goto("debug", "execute")
  /\ debugAttempts' = debugAttempts + 1
  /\ artifacts' = artifacts + 1 /\ script' = artifacts + 1
  /\ Account
  /\ UNCHANGED <<planVars, scriptCheckpoints, observationVars, judgeVars, crashes, status>>

Debug ==
  /\ Goto("debug", "execute")
  /\ debugAttempts' = debugAttempts + 1
  /\ NewArtifact
  /\ Account
  /\ UNCHANGED <<planVars, observationVars, judgeVars, crashes, status>>

Verify ==
  /\ sufficient' \in BOOLEAN
  /\ round' = round + 1
  /\ Goto("verify", VerifyOutcome(sufficient', round'))
  /\ Account
  /\ UNCHANGED <<planVars, scriptVars, observationVars, decision, abandoned, debugVars, status>>

(* The router may name any index, also one no step has or a superseded one;*)
(* an index beside add_step is never read.                                 *)
Route ==
  /\ \/ decision' = [action |-> "add_step", index |-> NoIndex]
     \/ decision' \in [action : {"backtrack"}, index : {NoIndex} \cup 0..NextIndex]
  /\ Goto("route", RouteOutcome(decision'))
  /\ Account
  /\ UNCHANGED <<planVars, scriptVars, observationVars, sufficient, round, abandoned,
                 debugVars, status>>

(* The step rolled back to: an index that is not active is clamped.        *)
BacktrackIndex ==
  IF decision.index \in Indices(ActiveSteps) THEN decision.index ELSE Min(Indices(ActiveSteps))

(* What the abandoned branch records, and what apply_backtrack supersedes. *)
RemovedAfter(j) == {s \in ActiveSteps : s.index > j}    \* mutant
Removed(j) == {s \in ActiveSteps : s.index >= j}

SupersedeAnew(j) == {s \in ActiveSteps : s.index >= j}    \* mutant: forgets earlier branches
Supersede(j) == superseded \cup {s \in ActiveSteps : s.index >= j}

(* Keep the steps, scripts and observations below index j.  The active     *)
(* plan is in index order, so the steps kept are its first ones.           *)
RollBack(j) ==
  LET scripts == Below(scriptCheckpoints, j)
      kept == Below(observationCheckpoints, j)
      latest(f) == f[Max(DOMAIN f)]
  IN /\ plan' = SubSeq(plan, 1, Cardinality({i \in DOMAIN plan : plan[i].index < j}))
     /\ superseded' = Supersede(j)
     /\ scriptCheckpoints' = scripts
     /\ script' = IF DOMAIN scripts = {} THEN NoScript ELSE latest(scripts)
     /\ observationCheckpoints' = kept
     /\ observations' = {kept[k] : k \in DOMAIN kept}
     /\ lastObservation' = IF DOMAIN kept = {} THEN NoObservation ELSE latest(kept)
     /\ abandoned' = Append(abandoned, [from_index |-> j, removed |-> Removed(j)])
     /\ debugAttempts' = 0

Truncate ==
  /\ Goto("truncate", "plan")
  /\ IF plan = <<>>
       THEN UNCHANGED <<plan, superseded, script, scriptCheckpoints, observations,
                        lastObservation, observationCheckpoints, abandoned, debugAttempts>>
       ELSE RollBack(BacktrackIndex)
  /\ UNCHANGED <<history, artifacts, everSucceeded, sufficient, decision, round, crashes,
                 cost, status>>

FinalStatusDegradedSucceeds(degraded) == "succeeded"    \* mutant

FinalStatus(degraded) ==
  IF degraded /\ ~ \E o \in observations : o.succeeded THEN "failed" ELSE "succeeded"

Finalize ==
  /\ \/ Goto("finalize_ok", "end") /\ status' = FinalStatus(FALSE)
     \/ Goto("finalize_degraded", "end") /\ status' = FinalStatus(TRUE)
  /\ Account
  /\ UNCHANGED <<planVars, scriptVars, observationVars, judgeVars, debugVars>>

(* Unparseable model output, or an error of the model client, retriever,   *)
(* sandbox or event bus, escapes run_precise: what the node did is lost.   *)
Raise ==
  /\ pc \in Nodes \ {"truncate"}
  /\ Goto(pc, "raised")
  /\ UNCHANGED <<planVars, scriptVars, observationVars, judgeVars, debugVars, cost, status>>

Next ==
  \/ Analyze \/ Retrieve \/ Plan \/ Code \/ Execute \/ Debug
  \/ Verify \/ Route \/ Truncate \/ Finalize \/ Raise

SafeSpec == Init /\ [][Next]_vars

(* ainvoke awaits one node after the other, and every await returns: calls *)
(* to the model client and the sandbox are bounded by their own timeouts.  *)
Spec == SafeSpec /\ WF_vars(Next)
-----------------------------------------------------------------------------
(* Properties.                                                             *)

PlanTypes ==
  /\ plan \in Seq(Step) /\ superseded \subseteq Step
  /\ history \in Seq(Seq(Texts))

ScriptTypes ==
  /\ script \in Nat /\ artifacts \in Nat
  /\ DOMAIN scriptCheckpoints \subseteq Nat
  /\ scriptCheckpoints \in [DOMAIN scriptCheckpoints -> Nat]

ObservationTypes ==
  /\ observations \subseteq Observation /\ lastObservation \in Observation
  /\ DOMAIN observationCheckpoints \subseteq Nat
  /\ observationCheckpoints \in [DOMAIN observationCheckpoints -> Observation]

JudgeTypes ==
  /\ decision \in Decision /\ round \in Nat
  /\ abandoned \in Seq([from_index : Nat, removed : SUBSET Step])

CounterTypes ==
  /\ pc \in Nodes \cup {"end", "raised"} /\ status \in {"running", "succeeded", "failed"}
  /\ debugAttempts \in Nat /\ crashes \in Nat /\ cost \in Nat /\ steps \in Nat

TypeOK ==
  /\ PlanTypes /\ ScriptTypes /\ ObservationTypes /\ JudgeTypes /\ CounterTypes
  /\ sufficient \in BOOLEAN /\ everSucceeded \in BOOLEAN

(* A step index names one step for ever, so the absolute index the router  *)
(* answers with, and the checkpoints keyed by it, cannot mean a step that  *)
(* was superseded and one planned later (plan node, RouterDecision).       *)
IndexNamesOneStep ==
  /\ \A i, j \in DOMAIN plan : i < j => plan[i].index < plan[j].index
  /\ \A s, t \in AllSteps : s.index = t.index => s = t
  /\ ActiveSteps \cap superseded = {}

(* Whatever sequence of fixes and backtracks led there, the planner and    *)
(* the coder resume from a script together with that script's own          *)
(* successful observation, or from neither; so does every checkpoint a     *)
(* later backtrack may restore (code, execute, debug, truncate nodes).     *)
ResumesFromMatchingPair ==
  pc \in {"plan", "code"} =>
    /\ script # NoScript => lastObservation.succeeded
    /\ lastObservation.script = script
    /\ DOMAIN scriptCheckpoints = DOMAIN observationCheckpoints
    /\ \A k \in DOMAIN scriptCheckpoints :
         observationCheckpoints[k] = [script |-> scriptCheckpoints[k], succeeded |-> TRUE]

(* No checkpoint survives the step it belongs to: a backtrack can never    *)
(* restore a script of an abandoned branch.  Key 0 also stands for an      *)
(* empty plan (truncate node, max_active_index).                           *)
CheckpointsBelongToActiveSteps ==
  DOMAIN scriptCheckpoints \cup DOMAIN observationCheckpoints
    \subseteq Indices(ActiveSteps) \cup {0}

(* The abandoned branches account for the superseded steps exactly: each   *)
(* was abandoned once, with the rationale the planner is told about.       *)
AbandonedAccountsForSuperseded ==
  /\ superseded = UNION {abandoned[i].removed : i \in DOMAIN abandoned}
  /\ \A i, j \in DOMAIN abandoned :
       i # j => abandoned[i].removed \cap abandoned[j].removed = {}

(* "keeping the history for audit" (apply_backtrack): a step is never lost *)
(* or reworded, and a superseded step never becomes active again.          *)
PlanHistoryKept ==
  [][AllSteps \subseteq AllSteps' /\ superseded \subseteq superseded']_vars

(* A run gives up on a crashing script only when the money is spent or the *)
(* crash outlived every fix this round allows: each round has the whole    *)
(* debug budget, whatever earlier rounds used (_plan_step, debug_outcome). *)
CrashExitSpentBudget ==
  (pc = "finalize_degraded" /\ lastObservation # NoObservation /\ ~lastObservation.succeeded)
    => cost >= MaxCost \/ crashes = MaxDebugAttempts + 1

(* edges.py:18: the round arm of check_budget is unreachable from          *)
(* run_precise; verify_outcome is the max-rounds exit.                     *)
RoundArmUnreachable ==
  pc \in {"execute", "debug"} => round < MaxRounds

(* _recursion_limit is a real worst case: langgraph never aborts a run     *)
(* with GraphRecursionError, which this model therefore leaves out.        *)
WithinRecursionLimit ==
  steps <= RecursionLimit

Usable == \E o \in observations : o.succeeded

Lifecycle == INSTANCE RunLifecycle WITH
  phase <- IF pc = "raised" THEN "raised" ELSE status, rounds <- round, usable <- Usable

(* The loop keeps what RunLifecycle promises its callers: a run ends       *)
(* SUCCEEDED with evidence kept, FAILED without, or raises; only rounds    *)
(* with a successful execution are counted.                                *)
ImplementsLifecycle == Lifecycle!SafeSpec

(* Every run ends, whatever the agents answer.                             *)
Terminates == <>(pc \in {"end", "raised"})

(* "Return True if the run must stop before the next round"                *)
(* (should_terminate): no round starts once a budget is spent.             *)
StopsBeforeNextRound ==
  pc = "plan" /\ round > 0 => ~BudgetSpent

(* finalize.py:32, "run degraded: no successful execution".                *)
FailedMeansNoSuccess ==
  status = "failed" => ~everSucceeded
=============================================================================
