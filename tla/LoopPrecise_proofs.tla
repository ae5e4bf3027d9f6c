------------------------- MODULE LoopPrecise_proofs -------------------------
(***************************************************************************)
(* Theorems about the precise loop, for every plan text, budget and cost.  *)
(*                                                                         *)
(* The argument: step indices are bounded (IndexBound), so max() over them *)
(* and over checkpoint keys is well defined; with the types this gives the *)
(* inductive invariant of the plan (PlanInv).  On top of it stand the      *)
(* checkpoint pairs (PairInv) and the super-step count (StepInv).          *)
(***************************************************************************)
EXTENDS LoopPrecise, DataFacts

-----------------------------------------------------------------------------
(* Step indices and checkpoint keys.                                       *)

IndexBound == \E n \in Nat : \A s \in AllSteps : s.index < n

PlanInv ==
  /\ TypeOK
  /\ IndexBound
  /\ IndexNamesOneStep
  /\ CheckpointsBelongToActiveSteps

USE DEF NoScript, NoIndex

LEMMA StepTypes ==
  ASSUME TypeOK
  PROVE  /\ AllSteps \subseteq Step /\ ActiveSteps \subseteq Step
         /\ Indices(AllSteps) \in SUBSET Nat /\ Indices(ActiveSteps) \in SUBSET Nat
<1>1. plan \in [1..Len(plan) -> Step] /\ DOMAIN plan = 1..Len(plan)
  BY LenProperties DEF TypeOK, PlanTypes
<1>2. ActiveSteps \subseteq Step
  BY <1>1 DEF ActiveSteps
<1>3. AllSteps \subseteq Step
  BY <1>2 DEF AllSteps, TypeOK, PlanTypes
<1>4. \A S : S \subseteq Step => Indices(S) \in SUBSET Nat
  BY DEF Indices, Step
<1> QED
  BY <1>2, <1>3, <1>4

(* The key a script is checkpointed under: an active step's index, or 0.   *)
LEMMA MaxActiveIndexIsKey ==
  ASSUME TypeOK, IndexBound
  PROVE  MaxActiveIndex \in Nat /\ MaxActiveIndex \in Indices(ActiveSteps) \cup {0}
<1> DEFINE I == Indices(ActiveSteps)
<1>1. I \in SUBSET Nat
  BY StepTypes
<1>2. PICK n \in Nat : \A s \in AllSteps : s.index < n
  BY DEF IndexBound
<1>3. \A k \in I : k <= n
  BY <1>1, <1>2, StepTypes DEF Indices, AllSteps, Step
<1> HIDE DEF I
<1>4. I # {} => Max(I) \in I
  BY <1>1, <1>2, <1>3, GreatestMember
<1>5. MaxActiveIndex = IF I = {} THEN 0 ELSE Max(I)
  BY DEF MaxActiveIndex, MaxOr, I
<1>6. MaxActiveIndex \in I \cup {0}
  BY <1>4, <1>5
<1> QED
  BY <1>1, <1>6 DEF I

(* A new step's index is above every index ever used.                      *)
LEMMA NextIndexIsFresh ==
  ASSUME TypeOK, IndexBound
  PROVE  NextIndex \in Nat /\ \A s \in AllSteps : s.index < NextIndex
<1> DEFINE I == Indices(AllSteps)
<1>1. I \in SUBSET Nat
  BY StepTypes
<1>2. PICK n \in Nat : \A s \in AllSteps : s.index < n
  BY DEF IndexBound
<1>3. \A k \in I : k <= n
  BY <1>1, <1>2, StepTypes DEF Indices, Step
<1>4. \A s \in AllSteps : s.index \in I
  BY DEF Indices
<1>5. NextIndex = (IF I = {} THEN -1 ELSE Max(I)) + 1
  BY DEF NextIndex, MaxOr
<1> HIDE DEF I
<1>6. I # {} => Max(I) \in I /\ \A k \in I : k <= Max(I)
  BY <1>1, <1>2, <1>3, GreatestMember
<1>7. CASE I = {}
  BY <1>4, <1>5, <1>7
<1>8. CASE I # {}
  <2>1. PICK m \in Nat : m = Max(I) /\ \A k \in I : k <= m
    BY <1>1, <1>6, <1>8
  <2>2. NextIndex = m + 1
    BY <1>5, <1>8, <2>1
  <2>3. \A k \in I : k \in Nat /\ k <= m
    BY <1>1, <2>1
  <2>4. ASSUME NEW s \in AllSteps PROVE s.index < m + 1
    <3>1. s.index \in I
      BY <1>4
    <3>2. s.index \in Nat /\ s.index <= m
      BY <2>3, <3>1
    <3> QED
      BY <2>1, <3>2
  <2> QED
    BY <2>1, <2>2, <2>4
<1> QED
  BY <1>7, <1>8

(* The drafts a planner answer contributes, and the plan they extend.      *)
LEMMA NewDraftsType ==
  ASSUME TypeOK, NEW drafts \in Drafts
  PROVE  NewDrafts(drafts) \in Seq(Texts)
<1>1. drafts \in Seq(Texts)
  BY BudgetAssumption DEF Drafts
<1>2. Len(plan) \in Nat /\ Len(drafts) \in Nat
  BY <1>1, LenProperties DEF TypeOK, PlanTypes
<1>3. \A i \in Len(plan) + 1 .. Len(drafts) : drafts[i] \in Texts
  BY <1>1, <1>2
<1> QED
  BY <1>1, <1>2, <1>3, SubSeqProperties DEF NewDrafts

LEMMA ExtendPlanProperties ==
  ASSUME TypeOK, IndexBound, NEW drafts \in Drafts
  PROVE  /\ ExtendPlan(drafts) \in Seq(Step)
         /\ Len(ExtendPlan(drafts)) = Len(plan) + Len(NewDrafts(drafts))
         /\ \A i \in 1..Len(plan) : ExtendPlan(drafts)[i] = plan[i]
         /\ \A i \in 1..Len(NewDrafts(drafts)) :
              ExtendPlan(drafts)[Len(plan) + i].index = NextIndex + i - 1
<1> DEFINE new == NewDrafts(drafts)
           added == [i \in DOMAIN new |-> [index |-> NextIndex + i - 1, text |-> new[i]]]
<1>1. new \in Seq(Texts) /\ Len(new) \in Nat /\ DOMAIN new = 1..Len(new)
  BY NewDraftsType, LenProperties
<1>2. NextIndex \in Nat
  BY NextIndexIsFresh
<1>3. added \in Seq(Step) /\ Len(added) = Len(new)
  <2>1. \A i \in 1..Len(new) : [index |-> NextIndex + i - 1, text |-> new[i]] \in Step
    BY <1>1, <1>2 DEF Step
  <2>2. added \in [1..Len(new) -> Step]
    BY <1>1, <2>1
  <2> QED
    BY <1>1, <2>2
<1>4. plan \in Seq(Step) /\ Len(plan) \in Nat
  BY LenProperties DEF TypeOK, PlanTypes
<1>5. ExtendPlan(drafts) = plan \o added
  BY DEF ExtendPlan
<1>6. \A i \in 1..Len(new) : (plan \o added)[Len(plan) + i] = added[i]
  BY <1>1, <1>3, <1>4
<1>7. \A i \in 1..Len(plan) : (plan \o added)[i] = plan[i]
  BY <1>3, <1>4
<1> HIDE DEF added, new
<1>8. plan \o added \in Seq(Step) /\ Len(plan \o added) = Len(plan) + Len(new)
  <2>1. Len(plan \o added) = Len(plan) + Len(added)
    BY <1>3, <1>4, ConcatProperties
  <2>2. plan \o added \in Seq(Step)
    BY <1>3, <1>4, ConcatProperties
  <2> QED
    BY <1>3, <2>1, <2>2
<1>9. \A i \in 1..Len(new) : added[i].index = NextIndex + i - 1
  BY <1>1 DEF added
<1>10. \A i \in 1..Len(new) : (plan \o added)[Len(plan) + i].index = NextIndex + i - 1
  BY <1>6, <1>9
<1> QED
  BY <1>5, <1>7, <1>8, <1>10 DEF new

-----------------------------------------------------------------------------
(* The plan invariant.                                                     *)

LEMMA PlanInvInit == Init => PlanInv
<1> SUFFICES ASSUME Init PROVE PlanInv
  OBVIOUS
<1>1. ActiveSteps = {} /\ AllSteps = {}
  BY DEF Init, ActiveSteps, AllSteps
<1>2. \A T : <<>> \in Seq(T) /\ <<>> \in [{} -> T]
  BY EmptySeq
<1>3. PlanTypes
  BY <1>2 DEF Init, PlanTypes
<1>4. ScriptTypes
  BY <1>2 DEF Init, ScriptTypes
<1>5. ObservationTypes
  BY <1>2 DEF Init, ObservationTypes, Observation, NoObservation
<1>6. JudgeTypes /\ CounterTypes
  BY <1>2 DEF Init, JudgeTypes, CounterTypes, Decision, Nodes
<1>7. TypeOK
  BY <1>3, <1>4, <1>5, <1>6 DEF Init, TypeOK
<1>8. IndexBound
  BY <1>1 DEF IndexBound
<1>9. IndexNamesOneStep
  BY <1>1 DEF Init, IndexNamesOneStep
<1>10. CheckpointsBelongToActiveSteps
  BY DEF Init, CheckpointsBelongToActiveSteps
<1> QED
  BY <1>7, <1>8, <1>9, <1>10 DEF PlanInv

(* Groups of variables a step leaves alone keep their types.               *)
LEMMA TypesKept ==
  ASSUME TypeOK
  PROVE  /\ UNCHANGED <<plan, superseded, history>> => PlanTypes'
         /\ UNCHANGED <<script, scriptCheckpoints, artifacts>> => ScriptTypes'
         /\ UNCHANGED <<observations, lastObservation, observationCheckpoints>>
              => ObservationTypes'
         /\ UNCHANGED <<decision, round, abandoned>> => JudgeTypes'
BY DEF TypeOK, PlanTypes, ScriptTypes, ObservationTypes, JudgeTypes

LEMMA AccountType ==
  ASSUME TypeOK, Account PROVE cost' \in Nat
BY CostAssumption DEF Account, TypeOK, CounterTypes

(* Steps that leave the plan and the checkpoints alone.                    *)
LEMMA PlanUntouched ==
  ASSUME PlanInv, TypeOK',
         UNCHANGED <<plan, superseded, scriptCheckpoints, observationCheckpoints>>
  PROVE  PlanInv'
<1>1. UNCHANGED <<ActiveSteps, AllSteps>>
  BY DEF ActiveSteps, AllSteps
<1> QED
  BY <1>1 DEF PlanInv, IndexBound, IndexNamesOneStep, CheckpointsBelongToActiveSteps, Indices

LEMMA AnalyzeKeepsPlanInv == PlanInv /\ Analyze => PlanInv'
<1> SUFFICES ASSUME PlanInv, Analyze PROVE PlanInv'
  OBVIOUS
<1>1. /\ UNCHANGED <<plan, superseded, history, script, scriptCheckpoints, artifacts>>
      /\ UNCHANGED <<observations, lastObservation, observationCheckpoints, everSucceeded>>
  BY DEF Analyze, planVars, scriptVars, observationVars
<1>2. JudgeTypes' /\ sufficient' \in BOOLEAN
  BY TypesKept DEF PlanInv, TypeOK, Analyze, judgeVars
<1>3. CounterTypes'
  BY AccountType DEF PlanInv, TypeOK, CounterTypes, Analyze, Goto, Nodes, debugVars
<1>4. TypeOK'
  BY <1>1, <1>2, <1>3, TypesKept DEF PlanInv, TypeOK
<1> QED
  BY <1>1, <1>4, PlanUntouched

LEMMA RetrieveKeepsPlanInv == PlanInv /\ Retrieve => PlanInv'
<1> SUFFICES ASSUME PlanInv, Retrieve PROVE PlanInv'
  OBVIOUS
<1>1. /\ UNCHANGED <<plan, superseded, history, script, scriptCheckpoints, artifacts>>
      /\ UNCHANGED <<observations, lastObservation, observationCheckpoints, everSucceeded>>
  BY DEF Retrieve, planVars, scriptVars, observationVars
<1>2. JudgeTypes' /\ sufficient' \in BOOLEAN
  BY TypesKept DEF PlanInv, TypeOK, Retrieve, judgeVars
<1>3. CounterTypes'
  BY DEF PlanInv, TypeOK, CounterTypes, Retrieve, Goto, Nodes, debugVars
<1>4. TypeOK'
  BY <1>1, <1>2, <1>3, TypesKept DEF PlanInv, TypeOK
<1> QED
  BY <1>1, <1>4, PlanUntouched

LEMMA VerifyKeepsPlanInv == PlanInv /\ Verify => PlanInv'
<1> SUFFICES ASSUME PlanInv, Verify PROVE PlanInv'
  OBVIOUS
<1>1. /\ UNCHANGED <<plan, superseded, history, script, scriptCheckpoints, artifacts>>
      /\ UNCHANGED <<observations, lastObservation, observationCheckpoints, everSucceeded>>
  BY DEF Verify, planVars, scriptVars, observationVars
<1>2. JudgeTypes' /\ sufficient' \in BOOLEAN
  BY DEF PlanInv, TypeOK, JudgeTypes, Verify
<1>3. CounterTypes'
  BY AccountType DEF PlanInv, TypeOK, CounterTypes, Verify, Goto, Nodes, debugVars, VerifyOutcome
<1>4. TypeOK'
  BY <1>1, <1>2, <1>3, TypesKept DEF PlanInv, TypeOK
<1> QED
  BY <1>1, <1>4, PlanUntouched

LEMMA RouteKeepsPlanInv == PlanInv /\ Route => PlanInv'
<1> SUFFICES ASSUME PlanInv, Route PROVE PlanInv'
  OBVIOUS
<1>1. /\ UNCHANGED <<plan, superseded, history, script, scriptCheckpoints, artifacts>>
      /\ UNCHANGED <<observations, lastObservation, observationCheckpoints, everSucceeded>>
  BY DEF Route, planVars, scriptVars, observationVars
<1>2. JudgeTypes' /\ sufficient' \in BOOLEAN
  <2>1. NextIndex \in Nat
    BY NextIndexIsFresh DEF PlanInv
  <2>2. decision' \in Decision
    BY <2>1 DEF Route, Decision
  <2> QED
    BY <2>2 DEF PlanInv, TypeOK, JudgeTypes, Route
<1>3. CounterTypes'
  BY AccountType DEF PlanInv, TypeOK, CounterTypes, Route, Goto, Nodes, debugVars, RouteOutcome
<1>4. TypeOK'
  BY <1>1, <1>2, <1>3, TypesKept DEF PlanInv, TypeOK
<1> QED
  BY <1>1, <1>4, PlanUntouched

LEMMA FinalizeKeepsPlanInv == PlanInv /\ Finalize => PlanInv'
<1> SUFFICES ASSUME PlanInv, Finalize PROVE PlanInv'
  OBVIOUS
<1>1. /\ UNCHANGED <<plan, superseded, history, script, scriptCheckpoints, artifacts>>
      /\ UNCHANGED <<observations, lastObservation, observationCheckpoints, everSucceeded>>
  BY DEF Finalize, planVars, scriptVars, observationVars
<1>2. JudgeTypes' /\ sufficient' \in BOOLEAN
  BY TypesKept DEF PlanInv, TypeOK, Finalize, judgeVars
<1>3. CounterTypes'
  BY AccountType DEF PlanInv, TypeOK, CounterTypes, Finalize, Goto, Nodes, debugVars, FinalStatus
<1>4. TypeOK'
  BY <1>1, <1>2, <1>3, TypesKept DEF PlanInv, TypeOK
<1> QED
  BY <1>1, <1>4, PlanUntouched

LEMMA RaiseKeepsPlanInv == PlanInv /\ Raise => PlanInv'
<1> SUFFICES ASSUME PlanInv, Raise PROVE PlanInv'
  OBVIOUS
<1>1. /\ UNCHANGED <<plan, superseded, history, script, scriptCheckpoints, artifacts>>
      /\ UNCHANGED <<observations, lastObservation, observationCheckpoints, everSucceeded>>
  BY DEF Raise, planVars, scriptVars, observationVars
<1>2. JudgeTypes' /\ sufficient' \in BOOLEAN
  BY TypesKept DEF PlanInv, TypeOK, Raise, judgeVars
<1>3. CounterTypes'
  BY DEF PlanInv, TypeOK, CounterTypes, Raise, Goto, Nodes, debugVars
<1>4. TypeOK'
  BY <1>1, <1>2, <1>3, TypesKept DEF PlanInv, TypeOK
<1> QED
  BY <1>1, <1>4, PlanUntouched

-----------------------------------------------------------------------------
(* Steps that write checkpoints.                                           *)

LEMMA BelowProperties ==
  ASSUME NEW f, NEW j
  PROVE  /\ DOMAIN Below(f, j) = {k \in DOMAIN f : k < j}
         /\ \A k \in DOMAIN Below(f, j) : Below(f, j)[k] = f[k]
BY DEF Below

(* Steps that add the current key to the checkpoints.                      *)
LEMMA PlanKeyAdded ==
  ASSUME PlanInv, TypeOK', UNCHANGED <<plan, superseded>>,
         DOMAIN scriptCheckpoints' \subseteq DOMAIN scriptCheckpoints \cup {MaxActiveIndex},
         DOMAIN observationCheckpoints'
           \subseteq DOMAIN observationCheckpoints \cup {MaxActiveIndex}
  PROVE  PlanInv'
<1>1. UNCHANGED <<ActiveSteps, AllSteps>>
  BY DEF ActiveSteps, AllSteps
<1>2. MaxActiveIndex \in Indices(ActiveSteps) \cup {0}
  BY MaxActiveIndexIsKey DEF PlanInv
<1>3. CheckpointsBelongToActiveSteps'
  BY <1>1, <1>2 DEF PlanInv, CheckpointsBelongToActiveSteps, Indices
<1> QED
  BY <1>1, <1>3 DEF PlanInv, IndexBound, IndexNamesOneStep

LEMMA NewArtifactEffects ==
  ASSUME PlanInv, NewArtifact
  PROVE  /\ ScriptTypes' /\ script' # NoScript
         /\ DOMAIN scriptCheckpoints' = DOMAIN scriptCheckpoints \cup {MaxActiveIndex}
         /\ scriptCheckpoints'[MaxActiveIndex] = script'
         /\ \A k \in DOMAIN scriptCheckpoints \ {MaxActiveIndex} :
              scriptCheckpoints'[k] = scriptCheckpoints[k]
<1>1. artifacts + 1 \in Nat /\ artifacts + 1 # 0
  BY DEF PlanInv, TypeOK, ScriptTypes
<1>2. scriptCheckpoints \in [DOMAIN scriptCheckpoints -> Nat]
      /\ DOMAIN scriptCheckpoints \subseteq Nat
  BY DEF PlanInv, TypeOK, ScriptTypes
<1>3. MaxActiveIndex \in Nat
  BY MaxActiveIndexIsKey DEF PlanInv
<1> DEFINE new == Set(scriptCheckpoints, MaxActiveIndex, artifacts + 1)
<1>4. /\ DOMAIN new = DOMAIN scriptCheckpoints \cup {MaxActiveIndex}
      /\ new \in [DOMAIN scriptCheckpoints \cup {MaxActiveIndex} -> Nat]
      /\ new[MaxActiveIndex] = artifacts + 1
      /\ \A k \in DOMAIN scriptCheckpoints \ {MaxActiveIndex} : new[k] = scriptCheckpoints[k]
  BY <1>1, <1>2 DEF Set
<1> HIDE DEF new
<1>5. script' = artifacts + 1 /\ artifacts' = artifacts + 1 /\ scriptCheckpoints' = new
  BY DEF NewArtifact, new
<1> QED
  BY <1>1, <1>2, <1>3, <1>4, <1>5 DEF ScriptTypes

LEMMA CodeKeepsPlanInv == PlanInv /\ Code => PlanInv'
<1> SUFFICES ASSUME PlanInv, Code PROVE PlanInv'
  OBVIOUS
<1>1. /\ UNCHANGED <<plan, superseded, history, sufficient, decision, round, abandoned>>
      /\ UNCHANGED <<observations, lastObservation, observationCheckpoints, everSucceeded>>
      /\ NewArtifact
  BY DEF Code, planVars, observationVars, judgeVars
<1>2. ScriptTypes' /\ DOMAIN scriptCheckpoints' = DOMAIN scriptCheckpoints \cup {MaxActiveIndex}
  BY <1>1, NewArtifactEffects
<1>3. CounterTypes'
  BY AccountType DEF PlanInv, TypeOK, CounterTypes, Code, Goto, Nodes, debugVars
<1>4. TypeOK'
  BY <1>1, <1>2, <1>3, TypesKept DEF PlanInv, TypeOK
<1> QED
  BY <1>1, <1>2, <1>4, PlanKeyAdded

LEMMA DebugKeepsPlanInv == PlanInv /\ Debug => PlanInv'
<1> SUFFICES ASSUME PlanInv, Debug PROVE PlanInv'
  OBVIOUS
<1>1. /\ UNCHANGED <<plan, superseded, history, sufficient, decision, round, abandoned>>
      /\ UNCHANGED <<observations, lastObservation, observationCheckpoints, everSucceeded>>
      /\ NewArtifact
  BY DEF Debug, planVars, observationVars, judgeVars
<1>2. ScriptTypes' /\ DOMAIN scriptCheckpoints' = DOMAIN scriptCheckpoints \cup {MaxActiveIndex}
  BY <1>1, NewArtifactEffects
<1>3. CounterTypes'
  BY AccountType DEF PlanInv, TypeOK, CounterTypes, Debug, Goto, Nodes
<1>4. TypeOK'
  BY <1>1, <1>2, <1>3, TypesKept DEF PlanInv, TypeOK
<1> QED
  BY <1>1, <1>2, <1>4, PlanKeyAdded

(* What an execution leaves behind.                                        *)
LEMMA ExecuteEffects ==
  ASSUME PlanInv, Execute
  PROVE  \E ok \in BOOLEAN :
           /\ Goto("execute", AfterExecute(ok))
           /\ lastObservation' = [script |-> script, succeeded |-> ok]
           /\ observations' = observations \cup {lastObservation'}
           /\ ObservationTypes'
           /\ everSucceeded' = (everSucceeded \/ ok)
           /\ crashes' = IF ok THEN crashes ELSE crashes + 1
           /\ DOMAIN observationCheckpoints'
                = DOMAIN observationCheckpoints \cup {MaxActiveIndex}
           /\ observationCheckpoints'[MaxActiveIndex] = lastObservation'
           /\ \A k \in DOMAIN observationCheckpoints \ {MaxActiveIndex} :
                observationCheckpoints'[k] = observationCheckpoints[k]
<1> DEFINE obs(ok) == [script |-> script, succeeded |-> ok]
<1>1. PICK ok \in BOOLEAN :
        /\ Goto("execute", AfterExecute(ok))
        /\ observations' = observations \cup {obs(ok)} /\ lastObservation' = obs(ok)
        /\ observationCheckpoints' = Set(observationCheckpoints, MaxActiveIndex, obs(ok))
        /\ everSucceeded' = (everSucceeded \/ ok)
        /\ crashes' = IF ok THEN crashes ELSE crashes + 1
  BY DEF Execute
<1>2. obs(ok) \in Observation
  BY DEF PlanInv, TypeOK, ScriptTypes, Observation
<1>3. /\ observationCheckpoints \in [DOMAIN observationCheckpoints -> Observation]
      /\ DOMAIN observationCheckpoints \subseteq Nat /\ observations \subseteq Observation
  BY DEF PlanInv, TypeOK, ObservationTypes
<1>4. MaxActiveIndex \in Nat
  BY MaxActiveIndexIsKey DEF PlanInv
<1> HIDE DEF obs
<1>5. /\ observationCheckpoints' \in [DOMAIN observationCheckpoints \cup {MaxActiveIndex}
                                         -> Observation]
      /\ DOMAIN observationCheckpoints' = DOMAIN observationCheckpoints \cup {MaxActiveIndex}
      /\ observationCheckpoints'[MaxActiveIndex] = obs(ok)
      /\ \A k \in DOMAIN observationCheckpoints \ {MaxActiveIndex} :
           observationCheckpoints'[k] = observationCheckpoints[k]
  BY <1>1, <1>2, <1>3 DEF Set
<1>6. ObservationTypes'
  BY <1>1, <1>2, <1>3, <1>4, <1>5 DEF ObservationTypes
<1>7. WITNESS ok \in BOOLEAN
<1> QED
  BY <1>1, <1>5, <1>6 DEF obs

LEMMA ExecuteKeepsPlanInv == PlanInv /\ Execute => PlanInv'
<1> SUFFICES ASSUME PlanInv, Execute PROVE PlanInv'
  OBVIOUS
<1>1. PICK ok \in BOOLEAN :
        /\ Goto("execute", AfterExecute(ok))
        /\ ObservationTypes'
        /\ everSucceeded' = (everSucceeded \/ ok)
        /\ crashes' = IF ok THEN crashes ELSE crashes + 1
        /\ DOMAIN observationCheckpoints' = DOMAIN observationCheckpoints \cup {MaxActiveIndex}
  BY ExecuteEffects
<1>2. /\ UNCHANGED <<plan, superseded, history, script, scriptCheckpoints, artifacts>>
      /\ UNCHANGED <<sufficient, decision, round, abandoned, debugAttempts, cost, status>>
  BY DEF Execute, planVars, scriptVars, judgeVars
<1>3. CounterTypes'
  BY <1>1, <1>2 DEF PlanInv, TypeOK, CounterTypes, Goto, AfterExecute, Nodes
<1>4. everSucceeded' \in BOOLEAN
  BY <1>1 DEF PlanInv, TypeOK
<1>5. TypeOK'
  BY <1>1, <1>2, <1>3, <1>4, TypesKept DEF PlanInv, TypeOK
<1> QED
  BY <1>1, <1>2, <1>5, PlanKeyAdded

-----------------------------------------------------------------------------
(* Steps that change the plan.                                             *)

LEMMA PlanKeepsPlanInv == PlanInv /\ Plan => PlanInv'
<1> SUFFICES ASSUME PlanInv, Plan PROVE PlanInv'
  OBVIOUS
<1>0. TypeOK /\ IndexBound
  BY DEF PlanInv
<1>1. PICK drafts \in Drafts :
        /\ plan' = ExtendPlan(drafts)
        /\ history' = Append(history, Fingerprint(plan'))
        /\ Goto("plan", IF Cycling(history') THEN "finalize_degraded" ELSE "code")
  BY DEF Plan
<1>2. /\ UNCHANGED <<superseded, script, scriptCheckpoints, artifacts, sufficient, decision>>
      /\ UNCHANGED <<observations, lastObservation, observationCheckpoints, everSucceeded>>
      /\ UNCHANGED <<round, abandoned, status>>
  BY DEF Plan, scriptVars, observationVars, judgeVars
<1> DEFINE old == Len(plan)
           new == Len(NewDrafts(drafts))
<1>3. plan \in Seq(Step) /\ DOMAIN plan = 1..old /\ old \in Nat
  BY <1>0, LenProperties DEF TypeOK, PlanTypes
<1>4. new \in Nat
  BY <1>0, NewDraftsType, LenProperties
<1>5. /\ plan' \in Seq(Step) /\ DOMAIN plan' = 1..(old + new)
      /\ plan' \in [1..(old + new) -> Step]
  BY <1>0, <1>1, <1>3, ExtendPlanProperties, LenProperties
<1>6. \A i \in 1..old : plan'[i] = plan[i]
  BY <1>0, <1>1, ExtendPlanProperties
<1>7. \A i \in 1..new : plan'[old + i].index = NextIndex + i - 1
  BY <1>0, <1>1, ExtendPlanProperties
<1>8. NextIndex \in Nat /\ \A s \in AllSteps : s.index < NextIndex
  BY <1>0, NextIndexIsFresh
<1> HIDE DEF old, new
<1>9. \A i \in (old + 1)..(old + new) : plan'[i].index = NextIndex + (i - old) - 1
  <2> SUFFICES ASSUME NEW i \in (old + 1)..(old + new)
               PROVE  plan'[i].index = NextIndex + (i - old) - 1
    OBVIOUS
  <2>1. i - old \in 1..new /\ old + (i - old) = i
    BY <1>3, <1>4
  <2> QED
    BY <1>7, <2>1
<1>10. ActiveSteps \subseteq ActiveSteps'
  BY <1>3, <1>4, <1>5, <1>6 DEF ActiveSteps
<1>11. \A s \in ActiveSteps' : s \in ActiveSteps \/ s.index >= NextIndex
  <2> SUFFICES ASSUME NEW i \in 1..(old + new)
               PROVE  plan'[i] \in ActiveSteps \/ plan'[i].index >= NextIndex
    BY <1>5 DEF ActiveSteps
  <2>1. CASE i \in 1..old
    BY <1>3, <1>6, <2>1 DEF ActiveSteps
  <2>2. CASE i \in (old + 1)..(old + new)
    BY <1>3, <1>8, <1>9, <2>2
  <2> QED
    BY <1>3, <2>1, <2>2
<1>12. PlanTypes'
  <2>1. Fingerprint(plan') \in Seq(Texts)
    <3>1. \A i \in 1..(old + new) : plan'[i].text \in Texts
      BY <1>5 DEF Step
    <3>2. Fingerprint(plan') = [i \in 1..(old + new) |-> plan'[i].text]
      BY <1>5 DEF Fingerprint
    <3>3. old + new \in Nat
      BY <1>3, <1>4
    <3>4. Fingerprint(plan') \in [1..(old + new) -> Texts]
      BY <3>1, <3>2
    <3> QED
      BY <3>3, <3>4, SeqDef
  <2>2. history \in Seq(Seq(Texts))
    BY <1>0 DEF TypeOK, PlanTypes
  <2>3. history' \in Seq(Seq(Texts))
    BY <1>1, <2>1, <2>2, AppendProperties
  <2> QED
    BY <1>0, <1>2, <1>5, <2>3 DEF TypeOK, PlanTypes
<1>13. CounterTypes'
  BY <1>0, <1>1, <1>2, AccountType DEF TypeOK, CounterTypes, Plan, ResetDebugBudget, Goto, Nodes
<1>14. TypeOK'
  BY <1>0, <1>2, <1>12, <1>13, TypesKept DEF TypeOK
<1>15. IndexBound'
  <2>1. \A s \in AllSteps' : s.index < NextIndex + new
    <3> SUFFICES ASSUME NEW s \in AllSteps' PROVE s.index < NextIndex + new
      OBVIOUS
    <3>1. CASE s \in AllSteps
      BY <1>0, <1>4, <1>8, <3>1, StepTypes DEF Step
    <3>2. CASE s \notin AllSteps
      <4>1. PICK i \in 1..(old + new) : s = plan'[i]
        BY <1>2, <1>5, <3>2 DEF AllSteps, ActiveSteps
      <4>2. i \in (old + 1)..(old + new)
        BY <1>3, <1>6, <3>2, <4>1 DEF AllSteps, ActiveSteps
      <4> QED
        BY <1>3, <1>4, <1>8, <1>9, <4>1, <4>2
    <3> QED
      BY <3>1, <3>2
  <2>2. NextIndex + new \in Nat
    BY <1>4, <1>8
  <2> QED
    BY <2>1, <2>2 DEF IndexBound
<1>16. \A i, k \in DOMAIN plan' : i < k => plan'[i].index < plan'[k].index
  <2> SUFFICES ASSUME NEW i \in 1..(old + new), NEW k \in 1..(old + new), i < k
               PROVE  plan'[i].index < plan'[k].index
    BY <1>5
  <2>1. CASE k \in 1..old
    BY <1>3, <1>6, <2>1 DEF PlanInv, IndexNamesOneStep
  <2>2. CASE i \in 1..old /\ k \in (old + 1)..(old + new)
    <3>1. plan[i] \in AllSteps /\ plan[i] \in Step
      BY <1>3, <2>2 DEF AllSteps, ActiveSteps
    <3>2. plan'[i].index \in Nat /\ plan'[i].index < NextIndex
      BY <1>6, <1>8, <2>2, <3>1 DEF Step
    <3>3. plan'[k].index = NextIndex + (k - old) - 1
      BY <1>9, <2>2
    <3> QED
      BY <1>3, <1>8, <2>2, <3>2, <3>3
  <2>3. CASE i \in (old + 1)..(old + new) /\ k \in (old + 1)..(old + new)
    BY <1>3, <1>8, <1>9, <2>3
  <2> QED
    BY <1>3, <1>4, <2>1, <2>2, <2>3
<1>17. ActiveSteps' \cap superseded' = {}
  BY <1>0, <1>2, <1>8, <1>11, StepTypes DEF PlanInv, IndexNamesOneStep, AllSteps, Step
<1>18. \A s, t \in AllSteps' : s.index = t.index => s = t
  <2> SUFFICES ASSUME NEW s \in AllSteps', NEW t \in AllSteps', s.index = t.index
               PROVE  s = t
    OBVIOUS
  <2>1. CASE s \in AllSteps /\ t \in AllSteps
    BY <2>1 DEF PlanInv, IndexNamesOneStep
  <2>2. CASE s \in AllSteps /\ t \notin AllSteps
    BY <1>0, <1>2, <1>8, <1>11, <2>2, StepTypes DEF AllSteps, Step
  <2>3. CASE s \notin AllSteps /\ t \in AllSteps
    BY <1>0, <1>2, <1>8, <1>11, <2>3, StepTypes DEF AllSteps, Step
  <2>4. CASE s \notin AllSteps /\ t \notin AllSteps
    <3>1. PICK i \in 1..(old + new) : s = plan'[i]
      BY <1>2, <1>5, <2>4 DEF AllSteps, ActiveSteps
    <3>2. PICK k \in 1..(old + new) : t = plan'[k]
      BY <1>2, <1>5, <2>4 DEF AllSteps, ActiveSteps
    <3>3. s.index \in Nat /\ t.index \in Nat
      <4>1. s \in Step /\ t \in Step
        BY <1>5, <3>1, <3>2
      <4> QED
        BY <4>1 DEF Step
    <3>4. i < k => s.index < t.index
      BY <1>5, <1>16, <3>1, <3>2
    <3>5. k < i => t.index < s.index
      BY <1>5, <1>16, <3>1, <3>2
    <3>6. i = k
      BY <3>3, <3>4, <3>5
    <3> QED
      BY <3>1, <3>2, <3>6
  <2> QED
    BY <2>1, <2>2, <2>3, <2>4
<1>19. CheckpointsBelongToActiveSteps'
  BY <1>2, <1>10 DEF PlanInv, CheckpointsBelongToActiveSteps, Indices
<1> QED
  BY <1>14, <1>15, <1>16, <1>17, <1>18, <1>19 DEF PlanInv, IndexNamesOneStep

(* The steps below an index are an initial segment of the active plan.     *)
LEMMA KeptPrefix ==
  ASSUME PlanInv, NEW j \in Nat
  PROVE  \E n \in 0..Len(plan) :
           /\ {i \in DOMAIN plan : plan[i].index < j} = 1..n
           /\ Cardinality({i \in DOMAIN plan : plan[i].index < j}) = n
<1> DEFINE K == {i \in DOMAIN plan : plan[i].index < j}
<1>1. plan \in [1..Len(plan) -> Step] /\ DOMAIN plan = 1..Len(plan) /\ Len(plan) \in Nat
  BY LenProperties DEF PlanInv, TypeOK, PlanTypes
<1>2. K \in SUBSET (1..Len(plan))
  BY <1>1
<1> SUFFICES \E n \in 0..Len(plan) : K = 1..n /\ Cardinality(K) = n
  OBVIOUS
<1> HIDE DEF K
<1>3. CASE K = {}
  <2>1. Cardinality(K) = 0
    BY <1>3, FS_EmptySet
  <2>2. K = 1..0 /\ 0 \in 0..Len(plan)
    BY <1>1, <1>3
  <2> QED
    BY <2>1, <2>2
<1>4. CASE K # {}
  <2>1. PICK m \in K : \A k \in K : k <= m
    <3>1. K \in SUBSET Nat /\ \A k \in K : k <= Len(plan)
      BY <1>1, <1>2
    <3>2. Max(K) \in K /\ \A k \in K : k <= Max(K)
      BY <1>1, <1>4, <3>1, GreatestMember
    <3> QED
      BY <3>2
  <2>2. m \in 1..Len(plan) /\ plan[m].index < j
    BY <2>1 DEF K
  <2>3. ASSUME NEW i \in 1..m PROVE i \in K
    <3>1. i \in 1..Len(plan) /\ plan[i].index \in Nat /\ plan[m].index \in Nat
      BY <1>1, <2>2 DEF Step
    <3>2. i = m \/ plan[i].index < plan[m].index
      BY <1>1, <2>2, <3>1 DEF PlanInv, IndexNamesOneStep
    <3> QED
      BY <1>1, <2>2, <3>1, <3>2 DEF K
  <2>4. K = 1..m
    <3>1. m \in Nat
      BY <1>1, <2>2
    <3>2. ASSUME NEW k \in K PROVE k \in 1..m
      <4>1. k \in 1..Len(plan) /\ k <= m
        BY <1>2, <2>1
      <4> QED
        BY <1>1, <3>1, <4>1
    <3> QED
      BY <2>3, <3>2
  <2>5. Cardinality(K) = m
    <3>1. m \in Int /\ ~(1 > m) /\ m - 1 + 1 = m /\ 1 \in Int
      BY <1>1, <2>2
    <3>2. Cardinality(1..m) = IF 1 > m THEN 0 ELSE m - 1 + 1
      BY <3>1, FS_Interval
    <3> QED
      BY <2>4, <3>1, <3>2
  <2>6. m \in 0..Len(plan)
    BY <1>1, <2>2
  <2> QED
    BY <2>4, <2>5, <2>6
<1> QED
  BY <1>3, <1>4

(* What a backtrack to an active step does to the plan.                    *)
LEMMA RollBackPlan ==
  ASSUME PlanInv, NEW j \in Nat, RollBack(j)
  PROVE  /\ plan' \in Seq(Step) /\ Len(plan') <= Len(plan)
         /\ DOMAIN plan' = 1..Len(plan')
         /\ \A i \in DOMAIN plan' : i \in DOMAIN plan /\ plan'[i] = plan[i]
         /\ ActiveSteps' = {s \in ActiveSteps : s.index < j}
         /\ AllSteps' = AllSteps
         /\ superseded' = superseded \cup Removed(j)
<1> DEFINE K == {i \in DOMAIN plan : plan[i].index < j}
<1>1. PICK n \in 0..Len(plan) : K = 1..n /\ Cardinality(K) = n
  BY KeptPrefix
<1>2. plan \in Seq(Step) /\ DOMAIN plan = 1..Len(plan) /\ Len(plan) \in Nat
      /\ plan \in [1..Len(plan) -> Step]
  BY LenProperties DEF PlanInv, TypeOK, PlanTypes
<1>3. plan' = SubSeq(plan, 1, n) /\ superseded' = superseded \cup Removed(j)
  BY <1>1 DEF RollBack, Supersede, Removed
<1>4. /\ SubSeq(plan, 1, n) \in Seq(Step) /\ Len(SubSeq(plan, 1, n)) = n
      /\ DOMAIN SubSeq(plan, 1, n) = 1..n
      /\ \A i \in 1..n : SubSeq(plan, 1, n)[i] = plan[i]
  BY <1>2, SubSeqProperties
<1>5. ActiveSteps' = {plan[i] : i \in K}
  BY <1>1, <1>3, <1>4 DEF ActiveSteps
<1>6. ActiveSteps' = {s \in ActiveSteps : s.index < j}
  BY <1>5 DEF ActiveSteps
<1>7. \A s \in ActiveSteps : s.index \in Nat
  BY StepTypes DEF PlanInv, Step
<1>8. AllSteps' = AllSteps
  BY <1>3, <1>6, <1>7 DEF AllSteps, Removed
<1> QED
  BY <1>2, <1>3, <1>4, <1>6, <1>8

(* ... and to the checkpoints.                                             *)
LEMMA LatestMember ==
  ASSUME NEW T, NEW f, DOMAIN f \subseteq Nat, DOMAIN f # {}, f \in [DOMAIN f -> T],
         NEW j \in Nat, \A k \in DOMAIN f : k < j
  PROVE  Max(DOMAIN f) \in DOMAIN f /\ f[Max(DOMAIN f)] \in T
<1>1. Max(DOMAIN f) \in DOMAIN f
  BY GreatestMember
<1> QED
  BY <1>1

LEMMA RollBackScripts ==
  ASSUME PlanInv, NEW j \in Nat, RollBack(j), UNCHANGED artifacts
  PROVE  /\ ScriptTypes'
         /\ DOMAIN scriptCheckpoints' = {k \in DOMAIN scriptCheckpoints : k < j}
         /\ \A k \in DOMAIN scriptCheckpoints' : scriptCheckpoints'[k] = scriptCheckpoints[k]
         /\ \/ DOMAIN scriptCheckpoints' = {} /\ script' = NoScript
            \/ /\ Max(DOMAIN scriptCheckpoints') \in DOMAIN scriptCheckpoints'
               /\ script' = scriptCheckpoints'[Max(DOMAIN scriptCheckpoints')]
<1> DEFINE kept == Below(scriptCheckpoints, j)
<1>1. scriptCheckpoints \in [DOMAIN scriptCheckpoints -> Nat] /\ artifacts \in Nat
      /\ DOMAIN scriptCheckpoints \subseteq Nat
  BY DEF PlanInv, TypeOK, ScriptTypes
<1>2. scriptCheckpoints' = kept
      /\ script' = IF DOMAIN kept = {} THEN NoScript ELSE kept[Max(DOMAIN kept)]
  BY DEF RollBack
<1>3. /\ DOMAIN kept = {k \in DOMAIN scriptCheckpoints : k < j}
      /\ \A k \in DOMAIN kept : kept[k] = scriptCheckpoints[k]
  BY BelowProperties
<1>4. kept \in [DOMAIN kept -> Nat] /\ DOMAIN kept \subseteq Nat
  BY <1>1 DEF Below
<1> HIDE DEF kept
<1>5. DOMAIN kept # {} => Max(DOMAIN kept) \in DOMAIN kept /\ kept[Max(DOMAIN kept)] \in Nat
  BY <1>3, <1>4, LatestMember
<1>6. script' \in Nat
  BY <1>2, <1>5
<1> QED
  BY <1>1, <1>2, <1>3, <1>4, <1>5, <1>6 DEF ScriptTypes

LEMMA RollBackObservations ==
  ASSUME PlanInv, NEW j \in Nat, RollBack(j)
  PROVE  /\ ObservationTypes'
         /\ DOMAIN observationCheckpoints' = {k \in DOMAIN observationCheckpoints : k < j}
         /\ \A k \in DOMAIN observationCheckpoints' :
              observationCheckpoints'[k] = observationCheckpoints[k]
         /\ observations' = {observationCheckpoints'[k] : k \in DOMAIN observationCheckpoints'}
         /\ \/ DOMAIN observationCheckpoints' = {} /\ lastObservation' = NoObservation
            \/ /\ Max(DOMAIN observationCheckpoints') \in DOMAIN observationCheckpoints'
               /\ lastObservation' = observationCheckpoints'[Max(DOMAIN observationCheckpoints')]
<1> DEFINE kept == Below(observationCheckpoints, j)
<1>1. observationCheckpoints \in [DOMAIN observationCheckpoints -> Observation]
      /\ DOMAIN observationCheckpoints \subseteq Nat
  BY DEF PlanInv, TypeOK, ObservationTypes
<1>2. /\ observationCheckpoints' = kept
      /\ observations' = {kept[k] : k \in DOMAIN kept}
      /\ lastObservation' = IF DOMAIN kept = {} THEN NoObservation ELSE kept[Max(DOMAIN kept)]
  BY DEF RollBack
<1>3. /\ DOMAIN kept = {k \in DOMAIN observationCheckpoints : k < j}
      /\ \A k \in DOMAIN kept : kept[k] = observationCheckpoints[k]
  BY BelowProperties
<1>4. kept \in [DOMAIN kept -> Observation] /\ DOMAIN kept \subseteq Nat
  BY <1>1 DEF Below
<1> HIDE DEF kept
<1>5. DOMAIN kept # {}
        => Max(DOMAIN kept) \in DOMAIN kept /\ kept[Max(DOMAIN kept)] \in Observation
  BY <1>3, <1>4, LatestMember
<1>6. NoObservation \in Observation
  BY DEF NoObservation, Observation
<1>7. lastObservation' \in Observation
  BY <1>2, <1>5, <1>6
<1>8. observations' \subseteq Observation
  BY <1>2, <1>4
<1> QED
  BY <1>2, <1>3, <1>4, <1>5, <1>7, <1>8 DEF ObservationTypes

LEMMA BacktrackIndexIsActive ==
  ASSUME PlanInv, plan # <<>>
  PROVE  BacktrackIndex \in Nat /\ BacktrackIndex \in Indices(ActiveSteps)
<1>1. plan \in Seq(Step) /\ Len(plan) # 0
  BY EmptySeq DEF PlanInv, TypeOK, PlanTypes
<1>2. 1 \in DOMAIN plan
  BY <1>1, LenProperties
<1>3. Indices(ActiveSteps) \in SUBSET Nat /\ Indices(ActiveSteps) # {}
  BY <1>2, StepTypes DEF PlanInv, ActiveSteps, Indices
<1> QED
  BY <1>3, LeastMember DEF BacktrackIndex

LEMMA TruncateKeepsPlanInv == PlanInv /\ Truncate => PlanInv'
<1> SUFFICES ASSUME PlanInv, Truncate PROVE PlanInv'
  OBVIOUS
<1>1. UNCHANGED <<history, artifacts, everSucceeded, sufficient, decision, round, crashes,
                  cost, status>>
  BY DEF Truncate
<1>2. CounterTypes' \/ debugAttempts' \notin Nat
  BY <1>1 DEF PlanInv, TypeOK, CounterTypes, Truncate, Goto, Nodes
<1>3. CASE plan = <<>>
  <2>1. /\ UNCHANGED <<plan, superseded, script, scriptCheckpoints, observations>>
        /\ UNCHANGED <<lastObservation, observationCheckpoints, abandoned, debugAttempts>>
    BY <1>3 DEF Truncate
  <2>2. TypeOK'
    BY <1>1, <1>2, <2>1, TypesKept DEF PlanInv, TypeOK, CounterTypes
  <2> QED
    BY <2>1, <2>2, PlanUntouched
<1>4. CASE plan # <<>>
  <2>1. PICK j \in Nat : j = BacktrackIndex
    BY <1>4, BacktrackIndexIsActive
  <2>2. RollBack(j)
    BY <1>4, <2>1 DEF Truncate
  <2>3. /\ plan' \in Seq(Step) /\ DOMAIN plan' = 1..Len(plan')
        /\ \A i \in DOMAIN plan' : i \in DOMAIN plan /\ plan'[i] = plan[i]
        /\ ActiveSteps' = {s \in ActiveSteps : s.index < j}
        /\ AllSteps' = AllSteps
        /\ superseded' = superseded \cup Removed(j)
    BY <2>2, RollBackPlan
  <2>4. Removed(j) \subseteq Step /\ \A s \in AllSteps : s.index \in Nat
    BY StepTypes DEF PlanInv, Removed, Step
  <2>5. PlanTypes'
    BY <1>1, <2>3, <2>4 DEF PlanInv, TypeOK, PlanTypes
  <2>6. /\ ScriptTypes'
        /\ DOMAIN scriptCheckpoints' = {k \in DOMAIN scriptCheckpoints : k < j}
    BY <1>1, <2>2, RollBackScripts
  <2>7. /\ ObservationTypes'
        /\ DOMAIN observationCheckpoints' = {k \in DOMAIN observationCheckpoints : k < j}
    BY <2>2, RollBackObservations
  <2>8. JudgeTypes'
    <3> DEFINE Branch == [from_index : Nat, removed : SUBSET Step]
    <3>1. [from_index |-> j, removed |-> Removed(j)] \in Branch
      BY <2>4
    <3>2. abandoned \in Seq(Branch) /\ decision \in Decision /\ round \in Nat
      BY DEF PlanInv, TypeOK, JudgeTypes
    <3>3. abandoned' = Append(abandoned, [from_index |-> j, removed |-> Removed(j)])
      BY <2>2 DEF RollBack
    <3> HIDE DEF Branch
    <3>4. abandoned' \in Seq(Branch)
      BY <3>1, <3>2, <3>3, AppendProperties
    <3> QED
      BY <1>1, <3>2, <3>4 DEF JudgeTypes, Branch
  <2>9. CounterTypes'
    BY <1>2, <2>2 DEF RollBack
  <2>10. TypeOK'
    BY <1>1, <2>5, <2>6, <2>7, <2>8, <2>9 DEF PlanInv, TypeOK
  <2>11. IndexBound'
    BY <2>3 DEF PlanInv, IndexBound
  <2>12. IndexNamesOneStep'
    <3>1. \A i, k \in DOMAIN plan' : i < k => plan'[i].index < plan'[k].index
      BY <2>3 DEF PlanInv, IndexNamesOneStep
    <3>2. \A s, t \in AllSteps' : s.index = t.index => s = t
      BY <2>3 DEF PlanInv, IndexNamesOneStep
    <3>3. ActiveSteps' \cap superseded' = {}
      BY <2>3, <2>4 DEF PlanInv, IndexNamesOneStep, Removed, AllSteps
    <3> QED
      BY <3>1, <3>2, <3>3 DEF IndexNamesOneStep
  <2>13. CheckpointsBelongToActiveSteps'
    BY <2>3, <2>6, <2>7
       DEF PlanInv, CheckpointsBelongToActiveSteps, Indices
  <2> QED
    BY <2>10, <2>11, <2>12, <2>13 DEF PlanInv
<1> QED
  BY <1>3, <1>4

-----------------------------------------------------------------------------
(* The plan invariant holds of every reachable state.                      *)

LEMMA StepKeepsPlanInv == PlanInv /\ [Next]_vars => PlanInv'
<1> SUFFICES ASSUME PlanInv, [Next]_vars PROVE PlanInv'
  OBVIOUS
<1>1. CASE UNCHANGED vars
  <2>1. /\ UNCHANGED <<plan, superseded, history, script, scriptCheckpoints, artifacts>>
        /\ UNCHANGED <<observations, lastObservation, observationCheckpoints, everSucceeded>>
        /\ UNCHANGED <<sufficient, decision, round, abandoned, debugAttempts, crashes>>
        /\ UNCHANGED <<pc, cost, status, steps>>
    BY <1>1 DEF vars, planVars, scriptVars, observationVars, judgeVars, debugVars
  <2>2. CounterTypes'
    BY <2>1 DEF PlanInv, TypeOK, CounterTypes
  <2>3. TypeOK'
    BY <2>1, <2>2, TypesKept DEF PlanInv, TypeOK
  <2> QED
    BY <2>1, <2>3, PlanUntouched
<1>2. CASE Next
  BY <1>2, AnalyzeKeepsPlanInv, RetrieveKeepsPlanInv, PlanKeepsPlanInv, CodeKeepsPlanInv,
     ExecuteKeepsPlanInv, DebugKeepsPlanInv, VerifyKeepsPlanInv, RouteKeepsPlanInv,
     TruncateKeepsPlanInv, FinalizeKeepsPlanInv, RaiseKeepsPlanInv DEF Next
<1> QED
  BY <1>1, <1>2

(* Every reachable state has its declared types.                           *)
THEOREM TypesHold == SafeSpec => []TypeOK
<1>1. PlanInv => TypeOK
  BY DEF PlanInv
<1> QED
  BY PlanInvInit, StepKeepsPlanInv, <1>1, PTL DEF SafeSpec

(* Step indices are allocated once: however often the planner extends,     *)
(* restates or rewords the plan and the router rolls it back, the index a  *)
(* backtrack or a checkpoint names is that of one step.                    *)
THEOREM IndexNamesOneStepHolds == SafeSpec => []IndexNamesOneStep
<1>1. PlanInv => IndexNamesOneStep
  BY DEF PlanInv
<1> QED
  BY PlanInvInit, StepKeepsPlanInv, <1>1, PTL DEF SafeSpec

(* No checkpoint outlives its step, so a backtrack restores no script of   *)
(* an abandoned branch.                                                    *)
THEOREM CheckpointsBelongHolds == SafeSpec => []CheckpointsBelongToActiveSteps
<1>1. PlanInv => CheckpointsBelongToActiveSteps
  BY DEF PlanInv
<1> QED
  BY PlanInvInit, StepKeepsPlanInv, <1>1, PTL DEF SafeSpec

-----------------------------------------------------------------------------
(* The record of abandoned branches.                                       *)

LEMMA PlanStepExtends ==
  ASSUME PlanInv, Plan
  PROVE  ActiveSteps \subseteq ActiveSteps' /\ UNCHANGED <<superseded, abandoned>>
<1>0. TypeOK /\ IndexBound
  BY DEF PlanInv
<1>1. PICK drafts \in Drafts : plan' = ExtendPlan(drafts)
  BY DEF Plan
<1>2. DOMAIN plan = 1..Len(plan) /\ Len(plan) \in Nat /\ Len(NewDrafts(drafts)) \in Nat
  BY <1>0, NewDraftsType, LenProperties DEF TypeOK, PlanTypes
<1>3. /\ DOMAIN plan' = 1..(Len(plan) + Len(NewDrafts(drafts)))
      /\ \A i \in 1..Len(plan) : plan'[i] = plan[i]
  BY <1>0, <1>1, ExtendPlanProperties, LenProperties
<1>4. \A i \in 1..Len(plan) : i \in 1..(Len(plan) + Len(NewDrafts(drafts)))
  BY <1>2
<1>5. ActiveSteps \subseteq ActiveSteps'
  BY <1>2, <1>3, <1>4 DEF ActiveSteps
<1> QED
  BY <1>5 DEF Plan, judgeVars

LEMMA TruncateSteps ==
  ASSUME PlanInv, Truncate
  PROVE  \/ UNCHANGED <<plan, superseded, abandoned>>
         \/ \E j \in Nat : RollBack(j) /\ j \in Indices(ActiveSteps)
BY BacktrackIndexIsActive DEF Truncate

LEMMA OtherStepsKeepPlan ==
  ASSUME Next, ~Plan, ~Truncate
  PROVE  UNCHANGED <<plan, superseded, abandoned>>
BY DEF Next, Analyze, Retrieve, Code, Execute, Debug, Verify, Route, Finalize, Raise,
       planVars, judgeVars

(* Nothing the loop does loses a planned step or revives a superseded one. *)
THEOREM PlanHistoryHolds == SafeSpec => PlanHistoryKept
<1>1. PlanInv /\ [Next]_vars
        => [AllSteps \subseteq AllSteps' /\ superseded \subseteq superseded']_vars
  <2> SUFFICES ASSUME PlanInv, Next
               PROVE  AllSteps \subseteq AllSteps' /\ superseded \subseteq superseded'
    OBVIOUS
  <2>1. CASE Plan
    BY <2>1, PlanStepExtends DEF AllSteps
  <2>2. CASE Truncate
    <3>1. CASE UNCHANGED <<plan, superseded, abandoned>>
      BY <3>1 DEF AllSteps, ActiveSteps
    <3>2. CASE \E j \in Nat : RollBack(j)
      BY <3>2, RollBackPlan
    <3> QED
      BY <2>2, <3>1, <3>2, TruncateSteps
  <2>3. CASE ~Plan /\ ~Truncate
    BY <2>3, OtherStepsKeepPlan DEF AllSteps, ActiveSteps
  <2> QED
    BY <2>1, <2>2, <2>3
<1> QED
  BY PlanInvInit, StepKeepsPlanInv, <1>1, PTL DEF SafeSpec, PlanHistoryKept

(* What the planner is told was abandoned is what was superseded, each     *)
(* step once.                                                              *)
THEOREM AbandonedAccountsHolds == SafeSpec => []AbandonedAccountsForSuperseded
<1> DEFINE Accounts == AbandonedAccountsForSuperseded
<1>1. Init => Accounts
  BY DEF Init, AbandonedAccountsForSuperseded
<1>2. PlanInv /\ Accounts /\ [Next]_vars => Accounts'
  <2> SUFFICES ASSUME PlanInv, Accounts, [Next]_vars PROVE Accounts'
    OBVIOUS
  <2>1. CASE UNCHANGED <<superseded, abandoned>>
    BY <2>1 DEF AbandonedAccountsForSuperseded
  <2>2. CASE \E j \in Nat : RollBack(j)
    <3>1. PICK j \in Nat : RollBack(j)
      BY <2>2
    <3> DEFINE n == Len(abandoned)
               Branch == [from_index : Nat, removed : SUBSET Step]
               branch == [from_index |-> j, removed |-> Removed(j)]
    <3>2. superseded' = superseded \cup Removed(j) /\ abandoned' = Append(abandoned, branch)
      BY <3>1, RollBackPlan DEF RollBack
    <3>3. abandoned \in Seq(Branch) /\ n \in Nat /\ DOMAIN abandoned = 1..n
      BY LenProperties DEF PlanInv, TypeOK, JudgeTypes
    <3>4. branch.removed = Removed(j) /\ branch \in Branch
      BY StepTypes DEF PlanInv, Removed
    <3> HIDE DEF Branch, branch
    <3>5. /\ DOMAIN abandoned' = 1..(n + 1)
          /\ abandoned'[n + 1] = branch
          /\ \A i \in 1..n : abandoned'[i] = abandoned[i]
      BY <3>2, <3>3, <3>4, AppendProperties, LenProperties
    <3> HIDE DEF n
    <3>6. 1..(n + 1) = 1..n \cup {n + 1} /\ n + 1 \notin 1..n
      BY <3>3
    <3>7. superseded = UNION {abandoned[i].removed : i \in 1..n}
          /\ \A i, k \in 1..n : i # k => abandoned[i].removed \cap abandoned[k].removed = {}
      BY <3>3 DEF AbandonedAccountsForSuperseded
    <3>8. Removed(j) \cap superseded = {}
      BY DEF Removed, PlanInv, IndexNamesOneStep
    <3>9. \A i \in 1..n : abandoned[i].removed \cap Removed(j) = {}
      BY <3>7, <3>8
    <3>10. superseded' = UNION {abandoned'[i].removed : i \in 1..(n + 1)}
      <4> SUFFICES ASSUME NEW s
                   PROVE  s \in superseded' <=> \E i \in 1..(n + 1) : s \in abandoned'[i].removed
        OBVIOUS
      <4>1. (\E i \in 1..(n + 1) : s \in abandoned'[i].removed)
              <=> (\E i \in 1..n : s \in abandoned'[i].removed) \/ s \in abandoned'[n + 1].removed
        BY <3>6
      <4>2. (\E i \in 1..n : s \in abandoned'[i].removed) <=> s \in superseded
        BY <3>5, <3>7
      <4>3. s \in abandoned'[n + 1].removed <=> s \in Removed(j)
        BY <3>4, <3>5
      <4> QED
        BY <3>2, <4>1, <4>2, <4>3
    <3>11. \A i, k \in 1..(n + 1) :
             i # k => abandoned'[i].removed \cap abandoned'[k].removed = {}
      BY <3>4, <3>5, <3>6, <3>7, <3>9
    <3> QED
      BY <3>5, <3>10, <3>11 DEF AbandonedAccountsForSuperseded
  <2>3. CASE UNCHANGED vars
    BY <2>1, <2>3 DEF vars, planVars, judgeVars
  <2> QED
    BY <2>1, <2>2, <2>3, PlanStepExtends, TruncateSteps, OtherStepsKeepPlan
<1> HIDE DEF Accounts
<1>3. PlanInv /\ Accounts /\ [Next]_vars => (PlanInv /\ Accounts)'
  BY <1>2, StepKeepsPlanInv
<1>4. SafeSpec => []Accounts
  BY <1>1, <1>3, PlanInvInit, PTL DEF SafeSpec
<1> QED
  BY <1>4 DEF Accounts

-----------------------------------------------------------------------------
(* How the loop recovers: from crashes (the debug budget), from backtracks *)
(* (the checkpoint pairs) and by giving up (the rounds, the outcome).      *)
(*                                                                         *)
(* The inductive invariant says where each fact about scripts,             *)
(* observations, rounds and debug attempts holds: while a script is being  *)
(* executed or repaired, the newest step's checkpoints may disagree; they  *)
(* agree at every other node.                                              *)


Settled == {"analyze", "retrieve", "plan", "code", "verify", "route", "truncate", "finalize_ok"}
Working == {"plan", "code", "execute", "debug", "verify"}

Paired(k) == observationCheckpoints[k] = [script |-> scriptCheckpoints[k], succeeded |-> TRUE]

LatestMatches ==
  \/ script = NoScript /\ lastObservation = NoObservation
  \/ /\ lastObservation = [script |-> script, succeeded |-> TRUE]
     /\ lastObservation \in observations

PairInv ==
  /\ pc \in Settled =>
       /\ DOMAIN scriptCheckpoints = DOMAIN observationCheckpoints
       /\ \A k \in DOMAIN scriptCheckpoints : Paired(k)
       /\ LatestMatches
  /\ pc \in {"execute", "debug"} =>
       /\ DOMAIN scriptCheckpoints = DOMAIN observationCheckpoints \cup {MaxActiveIndex}
       /\ scriptCheckpoints[MaxActiveIndex] = script
       /\ \A k \in DOMAIN scriptCheckpoints \ {MaxActiveIndex} : Paired(k)
  /\ pc \in {"verify", "finalize_ok"} =>
       lastObservation.succeeded /\ lastObservation \in observations

RoundInv ==
  /\ round <= MaxRounds
  /\ pc \in Working \cup {"analyze", "retrieve", "route", "truncate"} => round < MaxRounds
  /\ pc \in {"route", "truncate"} => round > 0

CrashInv ==
  /\ pc = "code" => crashes = 0 /\ debugAttempts = 0
  /\ pc = "execute" => crashes = debugAttempts /\ debugAttempts <= MaxDebugAttempts
  /\ pc = "debug" => crashes = debugAttempts + 1 /\ debugAttempts < MaxDebugAttempts
  /\ CrashExitSpentBudget

PhaseInv == pc \notin {"end", "raised"} => status = "running"

RecoveryInv == PlanInv /\ PairInv /\ RoundInv /\ CrashInv /\ PhaseInv

-----------------------------------------------------------------------------

LEMMA RecoveryTypes ==
  ASSUME PlanInv
  PROVE  /\ round \in Nat /\ debugAttempts \in Nat /\ crashes \in Nat /\ cost \in Nat
         /\ script \in Nat /\ steps \in Nat
         /\ pc \in Nodes \cup {"end", "raised"}
BY DEF PlanInv, TypeOK, JudgeTypes, CounterTypes, ScriptTypes

LEMMA RecoveryInvInit == Init => RecoveryInv
<1> SUFFICES ASSUME Init PROVE RecoveryInv
  OBVIOUS
<1>1. PairInv
  BY DEF Init, PairInv, LatestMatches
<1>2. RoundInv
  BY BudgetAssumption DEF Init, RoundInv
<1>3. CrashInv /\ PhaseInv
  BY DEF Init, CrashInv, CrashExitSpentBudget, PhaseInv
<1> QED
  BY <1>1, <1>2, <1>3, PlanInvInit DEF RecoveryInv

(* Facts that only depend on what a step leaves alone.                     *)
LEMMA PairsUntouched ==
  ASSUME PairInv, pc \in Settled, pc' \in Nodes \cup {"end", "raised"},
         pc' \notin {"execute", "debug", "verify", "finalize_ok"},
         UNCHANGED <<script, scriptCheckpoints>>,
         UNCHANGED <<observations, lastObservation, observationCheckpoints>>
  PROVE  PairInv'
BY DEF PairInv, LatestMatches, Paired, Settled

-----------------------------------------------------------------------------
(* Nodes that leave scripts and observations alone.                        *)

LEMMA AnalyzeRecovers == RecoveryInv /\ Analyze => RecoveryInv'
<1> SUFFICES ASSUME RecoveryInv, Analyze PROVE RecoveryInv'
  OBVIOUS
<1>1. /\ UNCHANGED <<script, scriptCheckpoints, round, status>>
      /\ UNCHANGED <<observations, lastObservation, observationCheckpoints>>
      /\ pc = "analyze" /\ pc' = "retrieve"
  BY DEF Analyze, Goto, scriptVars, observationVars, judgeVars
<1>2. PairInv'
  BY <1>1, PairsUntouched DEF RecoveryInv, Settled, Nodes
<1>3. RoundInv' /\ CrashInv' /\ PhaseInv'
  BY <1>1 DEF RecoveryInv, RoundInv, CrashInv, CrashExitSpentBudget, PhaseInv
<1> QED
  BY <1>2, <1>3, AnalyzeKeepsPlanInv DEF RecoveryInv

LEMMA RetrieveRecovers == RecoveryInv /\ Retrieve => RecoveryInv'
<1> SUFFICES ASSUME RecoveryInv, Retrieve PROVE RecoveryInv'
  OBVIOUS
<1>1. /\ UNCHANGED <<script, scriptCheckpoints, round, status>>
      /\ UNCHANGED <<observations, lastObservation, observationCheckpoints>>
      /\ pc = "retrieve" /\ pc' = "plan"
  BY DEF Retrieve, Goto, scriptVars, observationVars, judgeVars
<1>2. PairInv'
  BY <1>1, PairsUntouched DEF RecoveryInv, Settled, Nodes
<1>3. RoundInv' /\ CrashInv' /\ PhaseInv'
  BY <1>1 DEF RecoveryInv, RoundInv, CrashInv, CrashExitSpentBudget, PhaseInv
<1> QED
  BY <1>2, <1>3, RetrieveKeepsPlanInv DEF RecoveryInv

LEMMA PlanRecovers == RecoveryInv /\ Plan => RecoveryInv'
<1> SUFFICES ASSUME RecoveryInv, Plan PROVE RecoveryInv'
  OBVIOUS
<1>1. /\ UNCHANGED <<script, scriptCheckpoints, round, status>>
      /\ UNCHANGED <<observations, lastObservation, observationCheckpoints>>
      /\ debugAttempts' = 0 /\ crashes' = 0
      /\ pc = "plan" /\ pc' \in {"code", "finalize_degraded"}
  BY DEF Plan, ResetDebugBudget, Goto, scriptVars, observationVars, judgeVars
<1>2. PairInv'
  BY <1>1, PairsUntouched DEF RecoveryInv, Settled, Nodes
<1>3. RoundInv' /\ PhaseInv'
  BY <1>1 DEF RecoveryInv, RoundInv, Working, PhaseInv
<1>4. lastObservation' = NoObservation \/ lastObservation'.succeeded
  BY <1>1 DEF RecoveryInv, PairInv, LatestMatches, Settled
<1>5. CrashInv'
  BY <1>1, <1>4 DEF CrashInv, CrashExitSpentBudget
<1> QED
  BY <1>2, <1>3, <1>5, PlanKeepsPlanInv DEF RecoveryInv

LEMMA VerifyRecovers == RecoveryInv /\ Verify => RecoveryInv'
<1> SUFFICES ASSUME RecoveryInv, Verify PROVE RecoveryInv'
  OBVIOUS
<1>1. /\ UNCHANGED <<script, scriptCheckpoints, status>>
      /\ UNCHANGED <<observations, lastObservation, observationCheckpoints>>
      /\ pc = "verify" /\ round' = round + 1
      /\ pc' \in {"finalize_ok", "finalize_degraded", "route"}
      /\ pc' = "route" => round' < MaxRounds
  BY RecoveryTypes, BudgetAssumption
     DEF Verify, VerifyOutcome, Goto, scriptVars, observationVars, RecoveryInv
<1>2. lastObservation.succeeded /\ lastObservation \in observations
  BY <1>1 DEF RecoveryInv, PairInv
<1>3. PairInv'
  BY <1>1, <1>2 DEF RecoveryInv, PairInv, LatestMatches, Paired, Settled
<1>4. RoundInv'
  BY <1>1, RecoveryTypes, BudgetAssumption DEF RecoveryInv, RoundInv, Working
<1>5. CrashInv' /\ PhaseInv'
  BY <1>1, <1>2 DEF RecoveryInv, CrashInv, CrashExitSpentBudget, PhaseInv
<1> QED
  BY <1>3, <1>4, <1>5, VerifyKeepsPlanInv DEF RecoveryInv

LEMMA RouteRecovers == RecoveryInv /\ Route => RecoveryInv'
<1> SUFFICES ASSUME RecoveryInv, Route PROVE RecoveryInv'
  OBVIOUS
<1>1. /\ UNCHANGED <<script, scriptCheckpoints, round, status>>
      /\ UNCHANGED <<observations, lastObservation, observationCheckpoints>>
      /\ pc = "route" /\ pc' \in {"truncate", "plan"}
  BY DEF Route, RouteOutcome, Goto, scriptVars, observationVars
<1>2. PairInv'
  BY <1>1, PairsUntouched DEF RecoveryInv, Settled, Nodes
<1>3. RoundInv' /\ CrashInv' /\ PhaseInv'
  BY <1>1 DEF RecoveryInv, RoundInv, Working, CrashInv, CrashExitSpentBudget, PhaseInv
<1> QED
  BY <1>2, <1>3, RouteKeepsPlanInv DEF RecoveryInv

LEMMA FinalizeRecovers == RecoveryInv /\ Finalize => RecoveryInv'
<1> SUFFICES ASSUME RecoveryInv, Finalize PROVE RecoveryInv'
  OBVIOUS
<1>1. UNCHANGED round /\ pc' = "end"
  BY DEF Finalize, Goto, judgeVars
<1>2. PairInv' /\ CrashInv' /\ PhaseInv'
  BY <1>1 DEF PairInv, Settled, CrashInv, CrashExitSpentBudget, PhaseInv
<1>3. RoundInv'
  BY <1>1 DEF RecoveryInv, RoundInv, Working
<1> QED
  BY <1>2, <1>3, FinalizeKeepsPlanInv DEF RecoveryInv

LEMMA RaiseRecovers == RecoveryInv /\ Raise => RecoveryInv'
<1> SUFFICES ASSUME RecoveryInv, Raise PROVE RecoveryInv'
  OBVIOUS
<1>1. UNCHANGED round /\ pc' = "raised"
  BY DEF Raise, Goto, judgeVars
<1>2. PairInv' /\ CrashInv' /\ PhaseInv'
  BY <1>1 DEF PairInv, Settled, CrashInv, CrashExitSpentBudget, PhaseInv
<1>3. RoundInv'
  BY <1>1 DEF RecoveryInv, RoundInv, Working
<1> QED
  BY <1>2, <1>3, RaiseKeepsPlanInv DEF RecoveryInv

-----------------------------------------------------------------------------
(* Nodes that change them.                                                 *)

LEMMA CodeRecovers == RecoveryInv /\ Code => RecoveryInv'
<1> SUFFICES ASSUME RecoveryInv, Code PROVE RecoveryInv'
  OBVIOUS
<1>1. /\ UNCHANGED <<plan, superseded, round, status, debugAttempts, crashes>>
      /\ UNCHANGED <<observations, lastObservation, observationCheckpoints>>
      /\ pc = "code" /\ pc' = "execute" /\ NewArtifact
  BY DEF Code, Goto, planVars, observationVars, judgeVars, debugVars
<1>2. UNCHANGED MaxActiveIndex
  BY <1>1 DEF MaxActiveIndex, ActiveSteps, MaxOr, Indices
<1>3. /\ DOMAIN scriptCheckpoints' = DOMAIN scriptCheckpoints \cup {MaxActiveIndex}
      /\ scriptCheckpoints'[MaxActiveIndex] = script'
      /\ \A k \in DOMAIN scriptCheckpoints \ {MaxActiveIndex} :
           scriptCheckpoints'[k] = scriptCheckpoints[k]
  BY <1>1, NewArtifactEffects DEF RecoveryInv
<1>4. /\ DOMAIN scriptCheckpoints = DOMAIN observationCheckpoints
      /\ \A k \in DOMAIN scriptCheckpoints : Paired(k)
  BY <1>1 DEF RecoveryInv, PairInv, Settled
<1>5. PairInv'
  BY <1>1, <1>2, <1>3, <1>4 DEF PairInv, Paired, Settled
<1>6. RoundInv' /\ PhaseInv'
  BY <1>1 DEF RecoveryInv, RoundInv, Working, PhaseInv
<1>7. CrashInv'
  BY <1>1, BudgetAssumption DEF RecoveryInv, CrashInv, CrashExitSpentBudget
<1> QED
  BY <1>5, <1>6, <1>7, CodeKeepsPlanInv DEF RecoveryInv

LEMMA DebugRecovers == RecoveryInv /\ Debug => RecoveryInv'
<1> SUFFICES ASSUME RecoveryInv, Debug PROVE RecoveryInv'
  OBVIOUS
<1>1. /\ UNCHANGED <<plan, superseded, round, status, crashes>>
      /\ UNCHANGED <<observations, lastObservation, observationCheckpoints>>
      /\ pc = "debug" /\ pc' = "execute" /\ NewArtifact /\ debugAttempts' = debugAttempts + 1
  BY DEF Debug, Goto, planVars, observationVars, judgeVars
<1>2. UNCHANGED MaxActiveIndex
  BY <1>1 DEF MaxActiveIndex, ActiveSteps, MaxOr, Indices
<1>3. /\ DOMAIN scriptCheckpoints' = DOMAIN scriptCheckpoints \cup {MaxActiveIndex}
      /\ scriptCheckpoints'[MaxActiveIndex] = script'
      /\ \A k \in DOMAIN scriptCheckpoints \ {MaxActiveIndex} :
           scriptCheckpoints'[k] = scriptCheckpoints[k]
  BY <1>1, NewArtifactEffects DEF RecoveryInv
<1>4. /\ DOMAIN scriptCheckpoints = DOMAIN observationCheckpoints \cup {MaxActiveIndex}
      /\ \A k \in DOMAIN scriptCheckpoints \ {MaxActiveIndex} : Paired(k)
  BY <1>1 DEF RecoveryInv, PairInv
<1>5. PairInv'
  BY <1>1, <1>2, <1>3, <1>4 DEF PairInv, Paired, Settled
<1>6. RoundInv' /\ PhaseInv'
  BY <1>1 DEF RecoveryInv, RoundInv, Working, PhaseInv
<1>7. CrashInv'
  BY <1>1, RecoveryTypes, BudgetAssumption DEF RecoveryInv, CrashInv, CrashExitSpentBudget
<1> QED
  BY <1>5, <1>6, <1>7, DebugKeepsPlanInv DEF RecoveryInv

LEMMA ExecuteRecovers == RecoveryInv /\ Execute => RecoveryInv'
<1> SUFFICES ASSUME RecoveryInv, Execute PROVE RecoveryInv'
  OBVIOUS
<1>1. PICK ok \in BOOLEAN :
        /\ Goto("execute", AfterExecute(ok))
        /\ lastObservation' = [script |-> script, succeeded |-> ok]
        /\ observations' = observations \cup {lastObservation'}
        /\ crashes' = IF ok THEN crashes ELSE crashes + 1
        /\ DOMAIN observationCheckpoints' = DOMAIN observationCheckpoints \cup {MaxActiveIndex}
        /\ observationCheckpoints'[MaxActiveIndex] = lastObservation'
        /\ \A k \in DOMAIN observationCheckpoints \ {MaxActiveIndex} :
             observationCheckpoints'[k] = observationCheckpoints[k]
  BY ExecuteEffects DEF RecoveryInv
<1>2. /\ UNCHANGED <<plan, superseded, script, scriptCheckpoints, round, debugAttempts, cost, status>>
      /\ pc = "execute"
  BY <1>1 DEF Execute, Goto, planVars, scriptVars, judgeVars
<1>3. UNCHANGED MaxActiveIndex
  BY <1>2 DEF MaxActiveIndex, ActiveSteps, MaxOr, Indices
<1>4. /\ DOMAIN scriptCheckpoints = DOMAIN observationCheckpoints \cup {MaxActiveIndex}
      /\ scriptCheckpoints[MaxActiveIndex] = script
      /\ \A k \in DOMAIN scriptCheckpoints \ {MaxActiveIndex} : Paired(k)
  BY <1>2 DEF RecoveryInv, PairInv
<1>5. /\ DOMAIN scriptCheckpoints' = DOMAIN observationCheckpoints'
      /\ \A k \in DOMAIN scriptCheckpoints' \ {MaxActiveIndex} : Paired(k)'
  BY <1>1, <1>2, <1>4 DEF Paired
<1>6. crashes = debugAttempts /\ debugAttempts <= MaxDebugAttempts
  BY <1>2 DEF RecoveryInv, CrashInv
<1>7. /\ crashes \in Nat /\ debugAttempts \in Nat /\ MaxDebugAttempts \in Nat
      /\ cost \in Nat /\ MaxCost \in Nat
  BY RecoveryTypes, BudgetAssumption, CostAssumption DEF RecoveryInv
<1>8. round < MaxRounds /\ round \in Nat /\ MaxRounds \in Nat
  BY <1>2, RecoveryTypes, BudgetAssumption DEF RecoveryInv, RoundInv, Working
<1>9. RoundInv' /\ PhaseInv'
  BY <1>1, <1>2, <1>8 DEF RecoveryInv, RoundInv, Working, PhaseInv, Goto, AfterExecute
<1>10. CASE ok
  <2>1. pc' = "verify"
    BY <1>1, <1>10 DEF Goto, AfterExecute
  <2>2. lastObservation'.succeeded /\ lastObservation' \in observations'
    BY <1>1, <1>10
  <2>3. LatestMatches'
    BY <1>1, <1>2, <1>10 DEF LatestMatches
  <2>4. \A k \in DOMAIN scriptCheckpoints' : Paired(k)'
    BY <1>1, <1>2, <1>4, <1>5, <1>10 DEF Paired
  <2>5. PairInv'
    BY <1>5, <2>1, <2>2, <2>3, <2>4 DEF PairInv
  <2>6. CrashInv'
    BY <2>1 DEF CrashInv, CrashExitSpentBudget
  <2> QED
    BY <1>9, <2>5, <2>6, ExecuteKeepsPlanInv DEF RecoveryInv
<1>11. CASE ~ok
  <2>1. pc' = IF BudgetSpent \/ debugAttempts >= MaxDebugAttempts
                THEN "finalize_degraded" ELSE "debug"
    BY <1>1, <1>11 DEF Goto, AfterExecute
  <2>2. crashes' = crashes + 1
    BY <1>1, <1>11
  <2>3. PairInv'
    BY <1>2, <1>3, <1>4, <1>5, <2>1 DEF PairInv, Settled
  <2>4. CrashInv'
    BY <1>2, <1>6, <1>7, <1>8, <2>1, <2>2 DEF CrashInv, CrashExitSpentBudget, BudgetSpent
  <2> QED
    BY <1>9, <2>3, <2>4, ExecuteKeepsPlanInv DEF RecoveryInv
<1> QED
  BY <1>10, <1>11

LEMMA TruncateRecovers == RecoveryInv /\ Truncate => RecoveryInv'
<1> SUFFICES ASSUME RecoveryInv, Truncate PROVE RecoveryInv'
  OBVIOUS
<1>1. /\ UNCHANGED <<artifacts, round, status>>
      /\ pc = "truncate" /\ pc' = "plan"
  BY DEF Truncate, Goto
<1>2. RoundInv' /\ PhaseInv' /\ CrashInv'
  BY <1>1 DEF RecoveryInv, RoundInv, Working, PhaseInv, CrashInv, CrashExitSpentBudget
<1>3. CASE plan = <<>>
  <2>1. UNCHANGED <<script, scriptCheckpoints, observations, lastObservation, observationCheckpoints>>
    BY <1>3 DEF Truncate
  <2>2. PairInv'
    BY <1>1, <2>1, PairsUntouched DEF RecoveryInv, Settled, Nodes
  <2> QED
    BY <1>2, <2>2, TruncateKeepsPlanInv DEF RecoveryInv
<1>4. CASE plan # <<>>
  <2>1. PICK j \in Nat : RollBack(j)
    BY <1>4, BacktrackIndexIsActive DEF Truncate, RecoveryInv
  <2> DEFINE keys == DOMAIN scriptCheckpoints'
  <2>2. /\ keys = {k \in DOMAIN scriptCheckpoints : k < j}
        /\ \A k \in keys : scriptCheckpoints'[k] = scriptCheckpoints[k]
        /\ \/ keys = {} /\ script' = NoScript
           \/ Max(keys) \in keys /\ script' = scriptCheckpoints'[Max(keys)]
    BY <1>1, <2>1, RollBackScripts DEF RecoveryInv
  <2>3. /\ DOMAIN scriptCheckpoints = DOMAIN observationCheckpoints
        /\ \A k \in DOMAIN scriptCheckpoints : Paired(k)
    BY <1>1 DEF RecoveryInv, PairInv, Settled
  <2>4. DOMAIN observationCheckpoints' = {k \in DOMAIN observationCheckpoints : k < j}
    BY <2>1, RollBackObservations DEF RecoveryInv
  <2>5. DOMAIN observationCheckpoints' = keys
    BY <2>2, <2>3, <2>4
  <2>6. /\ \A k \in keys : observationCheckpoints'[k] = observationCheckpoints[k]
        /\ observations' = {observationCheckpoints'[k] : k \in keys}
        /\ \/ keys = {} /\ lastObservation' = NoObservation
           \/ Max(keys) \in keys /\ lastObservation' = observationCheckpoints'[Max(keys)]
    BY <2>1, <2>5, RollBackObservations DEF RecoveryInv
  <2>7. \A k \in keys : Paired(k)'
    BY <2>2, <2>3, <2>6 DEF Paired
  <2> HIDE DEF keys
  <2>8. LatestMatches'
    <3>1. CASE keys = {}
      BY <2>2, <2>6, <3>1 DEF LatestMatches
    <3>2. CASE keys # {}
      BY <2>2, <2>6, <2>7, <3>2 DEF LatestMatches, Paired
    <3> QED
      BY <3>1, <3>2
  <2>9. PairInv'
    BY <1>1, <2>5, <2>7, <2>8 DEF PairInv, keys
  <2> QED
    BY <1>2, <2>9, TruncateKeepsPlanInv DEF RecoveryInv
<1> QED
  BY <1>3, <1>4

-----------------------------------------------------------------------------
(* The recovery invariant holds of every reachable state.                  *)

LEMMA StepRecovers == RecoveryInv /\ [Next]_vars => RecoveryInv'
<1> SUFFICES ASSUME RecoveryInv, [Next]_vars PROVE RecoveryInv'
  OBVIOUS
<1>1. CASE UNCHANGED vars
  <2>1. /\ UNCHANGED <<pc, plan, superseded, script, scriptCheckpoints, status, cost>>
        /\ UNCHANGED <<observations, lastObservation, observationCheckpoints>>
        /\ UNCHANGED <<round, debugAttempts, crashes>>
    BY <1>1 DEF vars, planVars, scriptVars, observationVars, judgeVars, debugVars
  <2>2. UNCHANGED MaxActiveIndex
    BY <2>1 DEF MaxActiveIndex, ActiveSteps, MaxOr, Indices
  <2>3. PairInv'
    BY <2>1, <2>2 DEF RecoveryInv, PairInv, LatestMatches, Paired
  <2>4. RoundInv' /\ CrashInv' /\ PhaseInv'
    BY <2>1 DEF RecoveryInv, RoundInv, CrashInv, CrashExitSpentBudget, PhaseInv
  <2> QED
    BY <1>1, <2>3, <2>4, StepKeepsPlanInv DEF RecoveryInv
<1>2. CASE Next
  BY <1>2, AnalyzeRecovers, RetrieveRecovers, PlanRecovers, CodeRecovers, ExecuteRecovers,
     DebugRecovers, VerifyRecovers, RouteRecovers, TruncateRecovers, FinalizeRecovers,
     RaiseRecovers DEF Next
<1> QED
  BY <1>1, <1>2

THEOREM RecoveryInvHolds == SafeSpec => []RecoveryInv
BY RecoveryInvInit, StepRecovers, PTL DEF SafeSpec

(* The planner and the coder always resume from a script together with its *)
(* own successful observation, whatever fixes and backtracks came before.  *)
THEOREM ResumesFromMatchingPairHolds == SafeSpec => []ResumesFromMatchingPair
<1>1. RecoveryInv => ResumesFromMatchingPair
  BY DEF RecoveryInv, PairInv, LatestMatches, Paired, Settled, NoObservation,
         ResumesFromMatchingPair
<1> QED
  BY RecoveryInvHolds, <1>1, PTL

(* The comment of execution_outcome is right: a crash never meets a spent  *)
(* round budget.                                                           *)
THEOREM RoundArmUnreachableHolds == SafeSpec => []RoundArmUnreachable
<1>1. RecoveryInv => RoundArmUnreachable
  BY DEF RecoveryInv, RoundInv, Working, RoundArmUnreachable
<1> QED
  BY RecoveryInvHolds, <1>1, PTL

(* A crash ends a run only when the money is spent or every fix of this    *)
(* round has been tried.                                                   *)
THEOREM CrashExitHolds == SafeSpec => []CrashExitSpentBudget
<1>1. RecoveryInv => CrashExitSpentBudget
  BY DEF RecoveryInv, CrashInv
<1> QED
  BY RecoveryInvHolds, <1>1, PTL

-----------------------------------------------------------------------------
(* The loop implements RunLifecycle.                                       *)

LEMMA LifecycleInit == Init => Lifecycle!Init
BY DEF Init, Lifecycle!Init, Usable

(* Nodes before a verdict may only add observations.                       *)
LEMMA LifecycleStep == RecoveryInv /\ [Next]_vars => [Lifecycle!Next]_(Lifecycle!vars)
<1> SUFFICES ASSUME RecoveryInv, [Next]_vars PROVE [Lifecycle!Next]_(Lifecycle!vars)
  OBVIOUS
<1> DEFINE phase == IF pc = "raised" THEN "raised" ELSE status
<1>0. round \in Nat /\ Usable \in BOOLEAN
  BY RecoveryTypes DEF RecoveryInv, Usable
<1>1. CASE UNCHANGED <<phase, round, observations>>
  BY <1>1 DEF Lifecycle!vars, Usable
<1>2. CASE Verify
  <2>1. pc = "verify" /\ pc' # "raised" /\ UNCHANGED <<observations, status>> /\ round' = round + 1
    BY <1>2 DEF Verify, VerifyOutcome, Goto, observationVars
  <2>2. Usable /\ round < MaxRounds /\ status = "running"
    BY <2>1 DEF RecoveryInv, PairInv, RoundInv, Working, PhaseInv, Usable
  <2>3. Lifecycle!Judge
    BY <2>1, <2>2 DEF Lifecycle!Judge, Usable
  <2> QED
    BY <2>3 DEF Lifecycle!Next
<1>3. CASE Execute
  <2>1. PICK ok \in BOOLEAN :
          /\ Goto("execute", AfterExecute(ok))
          /\ lastObservation' = [script |-> script, succeeded |-> ok]
          /\ observations' = observations \cup {lastObservation'}
    BY <1>3, ExecuteEffects DEF RecoveryInv
  <2>2. /\ pc = "execute" /\ pc' # "raised" /\ UNCHANGED <<round, status>>
        /\ status = "running"
    BY <1>3, <2>1 DEF Execute, AfterExecute, Goto, judgeVars, RecoveryInv, PhaseInv
  <2>3. CASE ok
    <3>1. Usable'
      BY <2>1, <2>3 DEF Usable
    <3>2. Lifecycle!Observe
      BY <2>2, <3>1 DEF Lifecycle!Observe
    <3> QED
      BY <3>2 DEF Lifecycle!Next
  <2>4. CASE ~ok
    <3>1. Usable' <=> Usable
      BY <2>1, <2>4 DEF Usable
    <3> QED
      BY <1>0, <2>2, <3>1 DEF Lifecycle!vars
  <2> QED
    BY <2>3, <2>4
<1>4. CASE Truncate
  <2>1. pc = "truncate" /\ pc' = "plan" /\ UNCHANGED <<round, status>>
        /\ status = "running" /\ round > 0
    BY <1>4 DEF Truncate, Goto, RecoveryInv, PhaseInv, RoundInv
  <2>2. CASE Usable'
    BY <2>1, <2>2 DEF Lifecycle!Observe, Lifecycle!Next
  <2>3. CASE ~Usable'
    <3>1. Usable' = FALSE
      BY <2>3 DEF Usable
    <3> QED
      BY <2>1, <3>1 DEF Lifecycle!Discard, Lifecycle!Next
  <2> QED
    BY <2>2, <2>3
<1>5. CASE Finalize
  <2>1. /\ pc \in {"finalize_ok", "finalize_degraded"} /\ pc' = "end"
        /\ status' = FinalStatus(pc = "finalize_degraded")
        /\ UNCHANGED <<round, observations>> /\ status = "running"
    BY <1>5 DEF Finalize, Goto, observationVars, judgeVars, RecoveryInv, PhaseInv
  <2>2. pc = "finalize_ok" => Usable
    BY DEF RecoveryInv, PairInv, Usable
  <2>3. status' = IF Usable THEN "succeeded" ELSE "failed"
    BY <2>1, <2>2 DEF FinalStatus, Usable
  <2>4. Lifecycle!Finish
    BY <2>1, <2>3 DEF Lifecycle!Finish, Usable
  <2> QED
    BY <2>4 DEF Lifecycle!Next
<1>6. CASE Raise
  <2>1. pc # "raised" /\ pc' = "raised" /\ UNCHANGED <<round, observations>> /\ status = "running"
    BY <1>6 DEF Raise, Goto, Nodes, observationVars, judgeVars, RecoveryInv, PhaseInv
  <2>2. Lifecycle!Raise
    BY <2>1 DEF Lifecycle!Raise, Usable
  <2> QED
    BY <2>2 DEF Lifecycle!Next
<1>7. CASE Analyze \/ Retrieve \/ Plan \/ Code \/ Debug \/ Route
  BY <1>1, <1>7 DEF Analyze, Retrieve, Plan, Code, Debug, Route, RouteOutcome, Goto,
                    observationVars, judgeVars
<1>8. CASE UNCHANGED vars
  BY <1>1, <1>8 DEF vars, observationVars, judgeVars
<1> QED
  BY <1>2, <1>3, <1>4, <1>5, <1>6, <1>7, <1>8 DEF Next

(* A run ends SUCCEEDED with evidence kept, FAILED without, or raises, and *)
(* counts only rounds whose script ran.                                    *)
THEOREM ImplementsLifecycleHolds == SafeSpec => ImplementsLifecycle
BY RecoveryInvHolds, LifecycleInit, LifecycleStep, PTL
   DEF SafeSpec, ImplementsLifecycle, Lifecycle!SafeSpec

-----------------------------------------------------------------------------
(* The super-steps of a run: two, then one per node of each round, a round *)
(* visiting execute and debug once more per debug attempt.                 *)

PerRound == 6 + 2 * MaxDebugAttempts
Rounds(k) == k * PerRound

StepInv ==
  /\ pc = "analyze" => steps <= 0
  /\ pc = "retrieve" => steps <= 1
  /\ pc = "plan" => steps <= Rounds(round) + 2
  /\ pc = "code" => steps <= Rounds(round) + 3
  /\ pc = "execute" => steps <= Rounds(round) + 4 + 2 * debugAttempts
  /\ pc = "debug" => steps <= Rounds(round) + 5 + 2 * debugAttempts
  /\ pc = "verify" => steps <= Rounds(round) + 5 + 2 * MaxDebugAttempts
  /\ pc = "route" => steps <= Rounds(round)
  /\ pc = "truncate" => steps <= Rounds(round) + 1
  /\ pc \in {"finalize_ok", "finalize_degraded"} => steps <= Rounds(MaxRounds)
  /\ pc \in {"end", "raised"} => steps <= Rounds(MaxRounds) + 2

LEMMA RoundsProperties ==
  /\ Rounds(0) = 0
  /\ \A k \in Nat : Rounds(k) \in Nat /\ Rounds(k + 1) = Rounds(k) + PerRound
  /\ \A k, m \in Nat : k <= m => Rounds(k) <= Rounds(m)
<1>1. PerRound \in Nat
  BY BudgetAssumption DEF PerRound
<1>2. \A k \in Nat : Rounds(k) \in Nat
  BY <1>1, SMT DEF Rounds
<1>3. \A k \in Nat : Rounds(k + 1) = Rounds(k) + PerRound
  BY <1>1, SMT DEF Rounds
<1>4. ASSUME NEW k \in Nat, NEW m \in Nat, k <= m PROVE Rounds(k) <= Rounds(m)
  <2>1. PICK d \in Nat : m = k + d
    <3>1. m - k \in Nat /\ m = k + (m - k)
      BY <1>4
    <3> QED
      BY <3>1
  <2>2. (k + d) * PerRound = k * PerRound + d * PerRound
    BY <1>1, SMT
  <2>3. d * PerRound \in Nat /\ k * PerRound \in Nat
    BY <1>1, SMT
  <2> QED
    BY <2>1, <2>2, <2>3 DEF Rounds
<1> QED
  BY <1>1, <1>2, <1>3, <1>4 DEF Rounds

LEMMA StepInvInit == Init => StepInv
BY DEF Init, StepInv

LEMMA StepBound ==
  ASSUME RecoveryInv, StepInv
  PROVE  /\ steps \in Nat /\ Rounds(MaxRounds) \in Nat
         /\ pc \in Nodes => steps <= Rounds(MaxRounds) + 1
         /\ steps <= Rounds(MaxRounds) + 2
<1> DEFINE R == Rounds(round)
           L == Rounds(MaxRounds)
           D == MaxDebugAttempts
<1>1. /\ D \in Nat /\ MaxRounds \in Nat /\ PerRound = 6 + 2 * D
      /\ round \in Nat /\ debugAttempts \in Nat /\ steps \in Nat
      /\ pc \in Nodes \cup {"end", "raised"}
  BY BudgetAssumption, RecoveryTypes DEF RecoveryInv, PerRound
<1>2. R \in Nat /\ L \in Nat /\ R <= L
  BY <1>1, RoundsProperties DEF RecoveryInv, RoundInv
<1>3. pc \in Working \cup {"truncate"} => R + PerRound <= L
  <2>1. pc \in Working \cup {"truncate"} => round + 1 <= MaxRounds
    BY <1>1 DEF RecoveryInv, RoundInv
  <2>2. round + 1 <= MaxRounds => Rounds(round + 1) <= L
    BY <1>1, RoundsProperties
  <2> QED
    BY <1>1, <2>1, <2>2, RoundsProperties
<1>4. pc = "execute" => debugAttempts <= D
  BY DEF RecoveryInv, CrashInv
<1>5. pc = "debug" => debugAttempts + 1 <= D
  BY <1>1 DEF RecoveryInv, CrashInv
<1> HIDE DEF D
<1>6. CASE pc \in {"analyze", "retrieve"}
  <2>1. steps <= 1
    BY <1>1, <1>6 DEF StepInv
  <2> HIDE DEF R, L
  <2> QED
    BY <1>1, <1>2, <2>1 DEF L
<1>7. CASE pc \in Working
  <2>1. \/ steps <= R + 5
        \/ debugAttempts <= D /\ steps <= R + 5 + 2 * debugAttempts
        \/ steps <= R + 5 + 2 * D
    BY <1>1, <1>2, <1>4, <1>5, <1>7 DEF StepInv, Working, D
  <2> HIDE DEF R, L
  <2>2. steps <= L
    BY <1>1, <1>2, <1>3, <1>7, <2>1
  <2> QED
    BY <1>1, <1>2, <2>2 DEF L
<1>8. CASE pc \in {"route", "truncate", "finalize_ok", "finalize_degraded"}
  <2>1. steps <= R + 1 \/ steps <= L
    BY <1>1, <1>2, <1>8 DEF StepInv
  <2> HIDE DEF R, L
  <2> QED
    BY <1>1, <1>2, <2>1 DEF L
<1>9. CASE pc \in {"end", "raised"}
  BY <1>1, <1>2, <1>9 DEF StepInv, Nodes
<1> QED
  BY <1>1, <1>6, <1>7, <1>8, <1>9 DEF Nodes, Working

LEMMA StepInvStep ==
  ASSUME RecoveryInv, RecoveryInv', StepInv, [Next]_vars PROVE StepInv'
<1> DEFINE R == Rounds(round)
           L == Rounds(MaxRounds)
           D == MaxDebugAttempts
<1>1. /\ D \in Nat /\ MaxRounds \in Nat /\ PerRound = 6 + 2 * D
      /\ round \in Nat /\ debugAttempts \in Nat /\ steps \in Nat
  BY BudgetAssumption, RecoveryTypes DEF RecoveryInv, PerRound
<1>2. R \in Nat /\ L \in Nat /\ Rounds(round + 1) = R + PerRound
      /\ round <= MaxRounds /\ R <= L
  BY <1>1, RoundsProperties DEF RecoveryInv, RoundInv
<1>3. round < MaxRounds => R + PerRound <= L
  BY <1>1, <1>2, RoundsProperties
<1>4. pc \in Working \cup {"analyze", "retrieve", "route", "truncate"} => round < MaxRounds
  BY DEF RecoveryInv, RoundInv
<1>5. CASE UNCHANGED vars
  BY <1>5 DEF StepInv, vars, judgeVars, debugVars
<1>6. CASE Analyze \/ Retrieve
  BY <1>1, <1>2, <1>6 DEF StepInv, Analyze, Retrieve, Goto, judgeVars, debugVars
<1>7. CASE Plan
  BY <1>1, <1>2, <1>3, <1>4, <1>7 DEF StepInv, Plan, Goto, judgeVars, Working
<1>8. CASE Code
  BY <1>1, <1>2, <1>8 DEF StepInv, Code, Goto, judgeVars, debugVars
<1>9. CASE Execute
  <2>1. /\ pc = "execute" /\ pc' \in {"verify", "debug", "finalize_degraded"}
        /\ steps' = steps + 1 /\ UNCHANGED <<round, debugAttempts>>
    BY <1>9 DEF Execute, Goto, AfterExecute, judgeVars
  <2>2. debugAttempts <= D
    BY <2>1 DEF RecoveryInv, CrashInv
  <2>3. R + PerRound <= L
    BY <1>3, <1>4, <2>1 DEF Working
  <2>4. steps <= R + 4 + 2 * debugAttempts
    BY <2>1 DEF StepInv
  <2> HIDE DEF R, L, D
  <2>5. /\ steps' <= R + 5 + 2 * debugAttempts
        /\ steps' <= R + 5 + 2 * D
        /\ steps' <= L
    BY <1>1, <1>2, <2>1, <2>2, <2>3, <2>4
  <2> QED
    BY <2>1, <2>5 DEF StepInv, R, L, D
<1>10. CASE Debug
  BY <1>1, <1>2, <1>10 DEF StepInv, Debug, Goto, judgeVars
<1>11. CASE Verify
  <2>1. /\ pc = "verify" /\ pc' \in {"route", "finalize_ok", "finalize_degraded"}
        /\ steps' = steps + 1 /\ round' = round + 1
    BY <1>11 DEF Verify, Goto, VerifyOutcome
  <2>2. R + PerRound <= L /\ Rounds(round') = R + PerRound
    BY <1>2, <1>3, <1>4, <2>1 DEF Working
  <2>3. steps <= R + 5 + 2 * D
    BY <2>1 DEF StepInv
  <2> HIDE DEF R, L, D
  <2>4. steps' <= Rounds(round') /\ steps' <= L
    BY <1>1, <1>2, <2>1, <2>2, <2>3
  <2> QED
    BY <2>1, <2>4 DEF StepInv, L
<1>12. CASE Route
  BY <1>1, <1>2, <1>12 DEF StepInv, Route, RouteOutcome, Goto, judgeVars, debugVars
<1>13. CASE Truncate
  BY <1>1, <1>2, <1>13 DEF StepInv, Truncate, Goto
<1>14. CASE Finalize
  <2>1. pc \in {"finalize_ok", "finalize_degraded"} /\ pc' = "end" /\ steps' = steps + 1
    BY <1>14 DEF Finalize, Goto
  <2>2. steps <= L
    BY <2>1 DEF StepInv
  <2> QED
    BY <1>1, <1>2, <2>1, <2>2 DEF StepInv
<1>15. CASE Raise
  <2>1. pc' = "raised" /\ steps' = steps + 1 /\ pc \in Nodes \ {"truncate"}
    BY <1>15 DEF Raise, Goto
  <2>2. steps <= L + 1
    BY <2>1, StepBound
  <2> QED
    BY <1>1, <1>2, <2>1, <2>2 DEF StepInv
<1> QED
  BY <1>5, <1>6, <1>7, <1>8, <1>9, <1>10, <1>11, <1>12, <1>13, <1>14, <1>15 DEF Next

(* _recursion_limit is above what any run can take, whatever the budgets:  *)
(* langgraph's own limit never ends a run.                                 *)
THEOREM WithinRecursionLimitHolds == SafeSpec => []WithinRecursionLimit
<1>1. RecoveryInv /\ StepInv => WithinRecursionLimit
  <2> SUFFICES ASSUME RecoveryInv, StepInv PROVE steps <= RecursionLimit
    BY DEF WithinRecursionLimit
  <2>1. RecursionLimit = Rounds(MaxRounds) + 2 * MaxRounds + 12
    BY BudgetAssumption, SMT DEF RecursionLimit, Rounds, PerRound
  <2> QED
    BY <2>1, StepBound, BudgetAssumption
<1>2. RecoveryInv /\ RecoveryInv' /\ StepInv /\ [Next]_vars => StepInv'
  BY StepInvStep
<1> QED
  BY RecoveryInvHolds, StepInvInit, <1>1, <1>2, PTL DEF SafeSpec
=============================================================================
