-------------------------- MODULE Research_proofs --------------------------
(***************************************************************************)
(* Theorems about run_research, for every budget.  A child is known only   *)
(* by RunLifecycle's steps: a child that succeeded kept evidence, one that *)
(* failed kept none, and that is what DONE and FAILED pass on.             *)
(***************************************************************************)
EXTENDS Research, FiniteSets, SequenceTheorems, FiniteSetTheorems, TLAPS

-----------------------------------------------------------------------------

(* What the parent relies on of a child, and where its loop stands.        *)
ChildInv ==
  /\ childPhase = "succeeded" => childUsable
  /\ childPhase = "failed" => ~childUsable
  /\ phase = "child" => current \in DOMAIN subQuestions /\ subQuestions[current] = "running"

LoopInv ==
  /\ phase = "prepare" => gapRound = 0
  /\ phase = "report" => Pending(subQuestions) = {}
  /\ phase \in {"finish", "succeeded"} \/ (phase = "generate" /\ gapRound > 0) =>
       /\ report.questions = Len(subQuestions)
       /\ Resolved(subQuestions) = DOMAIN subQuestions

ResearchInv == TypeOK /\ OneChildEach /\ DoneIsBacked /\ ChildInv /\ LoopInv

LEMMA QuestionTypes ==
  ASSUME TypeOK
  PROVE  /\ Len(subQuestions) \in Nat /\ DOMAIN subQuestions = 1..Len(subQuestions)
         /\ subQuestions \in [1..Len(subQuestions) -> Statuses]
         /\ childRuns \in [1..Len(subQuestions) -> Nat]
         /\ backed \in [1..Len(subQuestions) -> BOOLEAN]
BY LenProperties DEF TypeOK

(* Appending a function on 1..n to one on 1..m.                            *)
LEMMA Appended ==
  ASSUME NEW S, NEW m \in Nat, NEW n \in Nat, NEW f \in [1..m -> S], NEW g \in [1..n -> S]
  PROVE  /\ f \o g \in [1..(m + n) -> S] /\ f \o g \in Seq(S)
         /\ Len(f \o g) = m + n
         /\ \A i \in 1..m : (f \o g)[i] = f[i]
         /\ \A i \in (m + 1)..(m + n) : i - m \in 1..n /\ (f \o g)[i] = g[i - m]
<1>1. f \in Seq(S) /\ Len(f) = m /\ g \in Seq(S) /\ Len(g) = n
  OBVIOUS
<1>2. f \o g \in Seq(S) /\ Len(f \o g) = m + n
  BY <1>1, ConcatProperties
<1>3. f \o g \in [1..(m + n) -> S]
  BY <1>2, LenProperties
<1>4. \A i \in 1..(m + n) : (f \o g)[i] = IF i <= m THEN f[i] ELSE g[i - m]
  BY <1>1, ConcatProperties
<1>5. \A i \in (m + 1)..(m + n) : i - m \in 1..n /\ ~(i <= m) /\ i \in 1..(m + n)
  OBVIOUS
<1>6. \A i \in 1..m : (f \o g)[i] = f[i]
  BY <1>4
<1> QED
  BY <1>2, <1>3, <1>4, <1>5, <1>6

LEMMA ResearchInvInit == Init => ResearchInv
<1> SUFFICES ASSUME Init PROVE ResearchInv
  OBVIOUS
<1>1. <<>> \in Seq(Statuses) /\ Len(<<>>) = 0 /\ DOMAIN <<>> = {}
  BY EmptySeq
<1>2. TypeOK
  <2>1. \A T : <<>> \in [{} -> T]
    BY <1>1
  <2>2. gapRound \in 0..MaxGapRounds /\ Len(subQuestions) <= MaxSubQuestions
    BY <1>1, ResearchAssumption DEF Init
  <2> QED
    BY <1>1, <2>1, <2>2 DEF Init, TypeOK
<1>3. OneChildEach /\ DoneIsBacked /\ ChildInv /\ LoopInv
  BY <1>1 DEF Init, OneChildEach, DoneIsBacked, ChildInv, LoopInv, Resolved
<1> QED
  BY <1>2, <1>3 DEF ResearchInv

-----------------------------------------------------------------------------
(* Steps that leave the sub-questions alone.                               *)

LEMMA QuestionsUntouched ==
  ASSUME ResearchInv, UNCHANGED <<subQuestions, childRuns, backed, current>>,
         phase \in {"child", "raised"} => phase' \in {"child", "raised"}
  PROVE  OneChildEach' /\ DoneIsBacked'
<1>1. OneChildEach'
  BY DEF ResearchInv, OneChildEach
<1>2. DoneIsBacked'
  BY DEF ResearchInv, DoneIsBacked, Resolved
<1> QED
  BY <1>1, <1>2

LEMMA PhaseStep ==
  ASSUME ResearchInv, Prepare \/ AnswersDone \/ Finish \/ Raise
  PROVE  ResearchInv'
<1>1. /\ UNCHANGED <<subQuestions, childRuns, backed, current, gapRound, report>>
      /\ UNCHANGED <<childPhase, childRounds, childUsable>>
  BY DEF Prepare, AnswersDone, Finish, Raise, questionVars, childVars
<1>2. phase' \in {"generate", "report", "succeeded", "raised"}
      /\ (phase \in {"child", "raised"} => phase' = "raised")
      /\ (phase' = "generate" => phase = "prepare")
      /\ (phase' = "report" => Pending(subQuestions) = {})
      /\ (phase' = "succeeded" => phase = "finish")
  BY DEF Prepare, AnswersDone, Finish, Raise
<1>3. TypeOK'
  BY <1>1, <1>2 DEF ResearchInv, TypeOK
<1>4. OneChildEach' /\ DoneIsBacked'
  BY <1>1, <1>2, QuestionsUntouched
<1>5. ChildInv'
  BY <1>1, <1>2 DEF ResearchInv, ChildInv
<1>6. phase = "prepare" => gapRound = 0
  BY DEF ResearchInv, LoopInv
<1>7. LoopInv'
  BY <1>1, <1>2, <1>6 DEF ResearchInv, LoopInv, Pending, Resolved
<1> QED
  BY <1>3, <1>4, <1>5, <1>7 DEF ResearchInv

LEMMA ChildStepKeeps == ResearchInv /\ ChildStep => ResearchInv'
<1> SUFFICES ASSUME ResearchInv, ChildStep PROVE ResearchInv'
  OBVIOUS
<1>1. /\ UNCHANGED <<phase, subQuestions, childRuns, backed, current, gapRound, report>>
      /\ Child!Next
  BY DEF ChildStep, questionVars
<1>2. /\ childPhase' \in {"running", "succeeded", "failed", "raised"}
      /\ childRounds' \in Nat /\ childUsable' \in BOOLEAN
      /\ childPhase' = "succeeded" => childUsable'
      /\ childPhase' = "failed" => ~childUsable'
  <2>0. childUsable \in BOOLEAN /\ childRounds \in Nat /\ childPhase = "running"
    BY <1>1 DEF ResearchInv, TypeOK, Child!Next, Child!Observe, Child!Judge, Child!Discard,
                Child!Finish, Child!Raise
  <2>1. CASE Child!Observe
    BY <2>0, <2>1 DEF Child!Observe
  <2>2. CASE Child!Judge
    BY <2>0, <2>2 DEF Child!Judge
  <2>3. CASE Child!Discard
    BY <2>0, <2>3 DEF Child!Discard
  <2>4. CASE Child!Finish
    <3>1. CASE childUsable
      BY <2>0, <2>4, <3>1 DEF Child!Finish
    <3>2. CASE ~childUsable
      BY <2>0, <2>4, <3>2 DEF Child!Finish
    <3> QED
      BY <3>1, <3>2
  <2>5. CASE Child!Raise
    BY <2>0, <2>5 DEF Child!Raise
  <2> QED
    BY <1>1, <2>1, <2>2, <2>3, <2>4, <2>5 DEF Child!Next
<1>3. TypeOK'
  BY <1>1, <1>2 DEF ResearchInv, TypeOK
<1>4. OneChildEach' /\ DoneIsBacked'
  BY <1>1, QuestionsUntouched
<1>5. ChildInv' /\ LoopInv'
  BY <1>1, <1>2 DEF ResearchInv, ChildInv, LoopInv, Pending, Resolved
<1> QED
  BY <1>3, <1>4, <1>5 DEF ResearchInv

LEMMA WriteReportKeeps == ResearchInv /\ WriteReport => ResearchInv'
<1> SUFFICES ASSUME ResearchInv, WriteReport PROVE ResearchInv'
  OBVIOUS
<1>1. /\ UNCHANGED <<subQuestions, childRuns, backed, current>>
      /\ UNCHANGED <<childPhase, childRounds, childUsable>>
      /\ phase = "report" /\ phase' \in {"generate", "finish"}
      /\ report' = [questions |-> Len(subQuestions), gapRounds |-> gapRound]
  BY DEF WriteReport, NewReport, questionVars, childVars
<1>2. gapRound' \in 0..MaxGapRounds
  BY ResearchAssumption DEF WriteReport, ResearchInv, TypeOK
<1>3. report' \in [questions : Nat, gapRounds : 0..MaxGapRounds]
  BY <1>1, QuestionTypes DEF ResearchInv, TypeOK
<1>4. TypeOK'
  BY <1>1, <1>2, <1>3 DEF ResearchInv, TypeOK
<1>5. OneChildEach' /\ DoneIsBacked'
  BY <1>1, QuestionsUntouched
<1>6. ChildInv'
  BY <1>1 DEF ResearchInv, ChildInv
<1>7. Resolved(subQuestions) = DOMAIN subQuestions
  <2>1. \A i \in DOMAIN subQuestions : subQuestions[i] \notin {"pending", "running"}
    BY <1>1 DEF ResearchInv, LoopInv, OneChildEach, Pending
  <2> QED
    BY <2>1, QuestionTypes DEF Resolved, Statuses, ResearchInv
<1>8. LoopInv'
  BY <1>1, <1>7 DEF LoopInv, Resolved
<1> QED
  BY <1>4, <1>5, <1>6, <1>8 DEF ResearchInv

-----------------------------------------------------------------------------
(* Steps that change them.                                                 *)

(* What is appended never exceeds the cap on sub-questions.                *)
LEMMA AddedInCap ==
  ASSUME TypeOK, NEW drafts \in 0..MaxDrafts
  PROVE  /\ Added(drafts) \in Nat /\ Len(subQuestions) + Added(drafts) <= MaxSubQuestions
         /\ drafts = 0 => Added(drafts) = 0
<1>1. /\ drafts \in Nat /\ MaxSubQuestions \in Nat /\ Len(subQuestions) \in Nat
      /\ Len(subQuestions) <= MaxSubQuestions
  BY ResearchAssumption, QuestionTypes DEF TypeOK
<1>2. CASE drafts <= MaxSubQuestions - Len(subQuestions)
  BY <1>1, <1>2 DEF Added
<1>3. CASE ~(drafts <= MaxSubQuestions - Len(subQuestions))
  BY <1>1, <1>3 DEF Added
<1> QED
  BY <1>2, <1>3

LEMMA GenerateKeeps == ResearchInv /\ Generate => ResearchInv'
<1> SUFFICES ASSUME ResearchInv, Generate PROVE ResearchInv'
  OBVIOUS
<1>. PICK m \in Nat : m = Len(subQuestions)
  BY QuestionTypes DEF ResearchInv
<1>0. TypeOK /\ DOMAIN subQuestions = 1..m /\ m <= MaxSubQuestions
      /\ subQuestions \in [1..m -> Statuses] /\ childRuns \in [1..m -> Nat]
      /\ backed \in [1..m -> BOOLEAN]
  BY QuestionTypes DEF ResearchInv, TypeOK
<1>1. PICK drafts \in 0..MaxDrafts :
        /\ subQuestions' = subQuestions \o [i \in 1..Added(drafts) |-> "pending"]
        /\ childRuns' = childRuns \o [i \in 1..Added(drafts) |-> 0]
        /\ backed' = backed \o [i \in 1..Added(drafts) |-> FALSE]
        /\ phase' = IF gapRound > 0 /\ drafts = 0 THEN "finish" ELSE "answer"
  BY DEF Generate
<1>2. /\ UNCHANGED <<gapRound, current, report, childPhase, childRounds, childUsable>>
      /\ phase = "generate"
  BY DEF Generate, childVars
<1>3. Added(drafts) \in Nat /\ m + Added(drafts) <= MaxSubQuestions
      /\ (drafts = 0 => Added(drafts) = 0)
  BY <1>0, AddedInCap
<1>. PICK n \in Nat : n = Added(drafts)
  BY <1>3
<1> DEFINE pending == [i \in 1..n |-> "pending"]
           zeros == [i \in 1..n |-> 0]
           falses == [i \in 1..n |-> FALSE]
<1>a. /\ subQuestions' = subQuestions \o pending
      /\ childRuns' = childRuns \o zeros /\ backed' = backed \o falses
  BY <1>1
<1>c. pending \in [1..n -> Statuses] /\ zeros \in [1..n -> Nat] /\ falses \in [1..n -> BOOLEAN]
  BY DEF Statuses
<1>d. \A i \in 1..n : pending[i] = "pending" /\ zeros[i] = 0
  OBVIOUS
<1> HIDE DEF pending, zeros, falses
<1>e. /\ subQuestions \o pending \in [1..(m + n) -> Statuses] /\ subQuestions \o pending \in Seq(Statuses)
      /\ Len(subQuestions \o pending) = m + n
      /\ \A i \in 1..m : (subQuestions \o pending)[i] = subQuestions[i]
      /\ \A i \in (m + 1)..(m + n) : i - m \in 1..n /\ (subQuestions \o pending)[i] = pending[i - m]
  <2>1. subQuestions \in [1..m -> Statuses] /\ pending \in [1..n -> Statuses]
    BY <1>0, <1>c
  <2>2. subQuestions \o pending \in [1..(m + n) -> Statuses]
    BY <2>1, Appended
  <2>3. subQuestions \o pending \in Seq(Statuses) /\ Len(subQuestions \o pending) = m + n
    BY <2>1, Appended
  <2> QED
    BY <2>1, <2>2, <2>3, Appended
<1>f. /\ childRuns \o zeros \in [1..(m + n) -> Nat]
      /\ \A i \in 1..m : (childRuns \o zeros)[i] = childRuns[i]
      /\ \A i \in (m + 1)..(m + n) : i - m \in 1..n /\ (childRuns \o zeros)[i] = zeros[i - m]
  <2>1. childRuns \in [1..m -> Nat] /\ zeros \in [1..n -> Nat]
    BY <1>0, <1>c
  <2>2. childRuns \o zeros \in [1..(m + n) -> Nat]
    BY <2>1, Appended
  <2>3. \A i \in 1..m : (childRuns \o zeros)[i] = childRuns[i]
    BY <2>1, Appended
  <2>4. \A i \in (m + 1)..(m + n) : i - m \in 1..n /\ (childRuns \o zeros)[i] = zeros[i - m]
    BY <2>1, Appended
  <2> QED
    BY <2>2, <2>3, <2>4
<1>g. /\ backed \o falses \in [1..(m + n) -> BOOLEAN]
      /\ \A i \in 1..m : (backed \o falses)[i] = backed[i]
      /\ \A i \in (m + 1)..(m + n) : i - m \in 1..n /\ (backed \o falses)[i] = falses[i - m]
  <2>1. backed \in [1..m -> BOOLEAN] /\ falses \in [1..n -> BOOLEAN]
    BY <1>0, <1>c
  <2>2. backed \o falses \in [1..(m + n) -> BOOLEAN]
    BY <2>1, Appended
  <2>3. \A i \in 1..m : (backed \o falses)[i] = backed[i]
    BY <2>1, Appended
  <2>4. \A i \in (m + 1)..(m + n) : i - m \in 1..n /\ (backed \o falses)[i] = falses[i - m]
    BY <2>1, Appended
  <2> QED
    BY <2>2, <2>3, <2>4
<1>4. /\ subQuestions' \in [1..(m + n) -> Statuses] /\ subQuestions' \in Seq(Statuses)
      /\ Len(subQuestions') = m + n
      /\ \A i \in 1..m : subQuestions'[i] = subQuestions[i]
      /\ \A i \in (m + 1)..(m + n) : subQuestions'[i] = "pending"
  BY <1>a, <1>d, <1>e
<1>5. /\ childRuns' \in [1..(m + n) -> Nat]
      /\ \A i \in 1..m : childRuns'[i] = childRuns[i]
      /\ \A i \in (m + 1)..(m + n) : childRuns'[i] = 0
  BY <1>a, <1>d, <1>f
<1>6. /\ backed' \in [1..(m + n) -> BOOLEAN]
      /\ \A i \in 1..m : backed'[i] = backed[i]
  BY <1>a, <1>g
<1>7. 1..(m + n) = 1..m \cup (m + 1)..(m + n)
  BY <1>0, <1>3
<1>8. DOMAIN subQuestions' = 1..(m + n)
  BY <1>4
<1>9. TypeOK'
  <2>1. phase' \in {"finish", "answer"}
    BY <1>1
  <2>2. current' \in {0} \cup DOMAIN subQuestions'
    BY <1>0, <1>2, <1>7, <1>8 DEF TypeOK
  <2>3. Len(subQuestions') <= MaxSubQuestions
    BY <1>3, <1>4
  <2> QED
    BY <1>0, <1>2, <1>4, <1>5, <1>6, <1>8, <2>1, <2>2, <2>3 DEF TypeOK
<1>10. OneChildEach'
  <2>1. \A i \in 1..m : /\ childRuns[i] = IF subQuestions[i] = "pending" THEN 0 ELSE 1
                        /\ subQuestions[i] # "running"
    BY <1>0, <1>2 DEF ResearchInv, OneChildEach
  <2>2. ASSUME NEW i \in DOMAIN subQuestions'
        PROVE  /\ childRuns'[i] = IF subQuestions'[i] = "pending" THEN 0 ELSE 1
               /\ subQuestions'[i] # "running"
    <3>1. CASE i \in 1..m
      BY <1>4, <1>5, <2>1, <3>1
    <3>2. CASE i \in (m + 1)..(m + n)
      BY <1>4, <1>5, <3>2
    <3> QED
      BY <1>7, <1>8, <3>1, <3>2
  <2> QED
    BY <2>2 DEF OneChildEach
<1>11. DoneIsBacked'
  <2>1. \A i \in 1..m : subQuestions[i] \in {"done", "failed"}
                          => ((subQuestions[i] = "done") <=> backed[i])
    BY <1>0 DEF ResearchInv, DoneIsBacked, Resolved
  <2> QED
    BY <1>4, <1>6, <1>7, <1>8, <2>1 DEF DoneIsBacked, Resolved
<1>12. ChildInv'
  BY <1>1, <1>2 DEF ResearchInv, ChildInv
<1>13. LoopInv'
  <2>1. CASE gapRound > 0 /\ drafts = 0
    <3>1. n = 0 /\ m + n = m
      BY <1>0, <1>3, <2>1
    <3>2. report.questions = m /\ \A i \in 1..m : subQuestions[i] \in {"done", "failed"}
      BY <1>0, <1>2, <2>1 DEF ResearchInv, LoopInv, Resolved
    <3> QED
      BY <1>1, <1>2, <1>4, <1>8, <2>1, <3>1, <3>2 DEF LoopInv, Resolved
  <2>2. CASE ~(gapRound > 0 /\ drafts = 0)
    BY <1>1, <2>2 DEF LoopInv
  <2> QED
    BY <2>1, <2>2
<1> QED
  BY <1>9, <1>10, <1>11, <1>12, <1>13 DEF ResearchInv

LEMMA StartChildKeeps == ResearchInv /\ StartChild => ResearchInv'
<1> SUFFICES ASSUME ResearchInv, StartChild PROVE ResearchInv'
  OBVIOUS
<1>0. TypeOK /\ DOMAIN subQuestions = 1..Len(subQuestions)
      /\ subQuestions \in [1..Len(subQuestions) -> Statuses]
      /\ childRuns \in [1..Len(subQuestions) -> Nat]
  BY QuestionTypes DEF ResearchInv
<1>1. PICK i \in 1..Len(subQuestions) :
        /\ subQuestions[i] = "pending"
        /\ subQuestions' = [subQuestions EXCEPT ![i] = "running"]
        /\ childRuns' = [childRuns EXCEPT ![i] = @ + 1]
        /\ current' = i
  BY <1>0 DEF StartChild, NextPending, Pending
<1>2. /\ UNCHANGED <<gapRound, report, backed>> /\ phase = "answer" /\ phase' = "child"
      /\ childPhase' = "running" /\ childRounds' = 0 /\ childUsable' = FALSE
  BY DEF StartChild
<1>3. subQuestions' \in [1..Len(subQuestions) -> Statuses]
      /\ subQuestions' \in Seq(Statuses) /\ Len(subQuestions') = Len(subQuestions)
      /\ DOMAIN subQuestions' = 1..Len(subQuestions)
  BY <1>0, <1>1 DEF Statuses, TypeOK
<1>4. childRuns' \in [1..Len(subQuestions) -> Nat]
  BY <1>0, <1>1
<1>5. TypeOK'
  BY <1>0, <1>1, <1>2, <1>3, <1>4 DEF TypeOK
<1>6. OneChildEach'
  <2>1. \A k \in 1..Len(subQuestions) :
          /\ childRuns[k] = IF subQuestions[k] = "pending" THEN 0 ELSE 1
          /\ subQuestions[k] # "running"
    BY <1>0, <1>2 DEF ResearchInv, OneChildEach
  <2> QED
    BY <1>0, <1>1, <1>2, <1>3, <2>1 DEF OneChildEach
<1>7. DoneIsBacked'
  BY <1>0, <1>1, <1>2, <1>3 DEF ResearchInv, DoneIsBacked, Resolved
<1>8. ChildInv' /\ LoopInv'
  BY <1>0, <1>1, <1>2, <1>3 DEF ChildInv, LoopInv
<1> QED
  BY <1>5, <1>6, <1>7, <1>8 DEF ResearchInv

LEMMA ResolveKeeps == ResearchInv /\ Resolve => ResearchInv'
<1> SUFFICES ASSUME ResearchInv, Resolve PROVE ResearchInv'
  OBVIOUS
<1>0. TypeOK /\ DOMAIN subQuestions = 1..Len(subQuestions)
      /\ subQuestions \in [1..Len(subQuestions) -> Statuses]
      /\ backed \in [1..Len(subQuestions) -> BOOLEAN] /\ childUsable \in BOOLEAN
  BY QuestionTypes DEF ResearchInv, TypeOK
<1>1. /\ current \in 1..Len(subQuestions) /\ subQuestions[current] = "running"
      /\ phase = "child" /\ phase' = "answer"
      /\ UNCHANGED <<gapRound, childRuns, current, report, childPhase, childRounds, childUsable>>
      /\ subQuestions' = [subQuestions EXCEPT ![current] = Outcome(childPhase)]
      /\ backed' = [backed EXCEPT ![current] = childUsable]
  BY <1>0 DEF Resolve, ResearchInv, ChildInv, childVars
<1>2. /\ Outcome(childPhase) \in {"done", "failed"}
      /\ (Outcome(childPhase) = "done") <=> childUsable
  BY DEF Resolve, Outcome, ResearchInv, ChildInv
<1>3. subQuestions' \in [1..Len(subQuestions) -> Statuses]
      /\ subQuestions' \in Seq(Statuses) /\ Len(subQuestions') = Len(subQuestions)
      /\ DOMAIN subQuestions' = 1..Len(subQuestions)
  BY <1>0, <1>1, <1>2 DEF Statuses, TypeOK
<1>4. backed' \in [1..Len(subQuestions) -> BOOLEAN]
  BY <1>0, <1>1
<1>5. TypeOK'
  BY <1>0, <1>1, <1>3, <1>4 DEF TypeOK
<1>6. OneChildEach'
  BY <1>0, <1>1, <1>2, <1>3 DEF ResearchInv, OneChildEach
<1>7. DoneIsBacked'
  BY <1>0, <1>1, <1>2, <1>3 DEF ResearchInv, DoneIsBacked, Resolved
<1>8. ChildInv' /\ LoopInv'
  BY <1>1 DEF ResearchInv, ChildInv, LoopInv
<1> QED
  BY <1>5, <1>6, <1>7, <1>8 DEF ResearchInv

-----------------------------------------------------------------------------

LEMMA StepKeepsResearchInv == ResearchInv /\ [Next]_vars => ResearchInv'
<1> SUFFICES ASSUME ResearchInv, [Next]_vars PROVE ResearchInv'
  OBVIOUS
<1>1. CASE UNCHANGED vars
  BY <1>1 DEF ResearchInv, TypeOK, OneChildEach, DoneIsBacked, ChildInv, LoopInv, Pending,
              Resolved, vars, questionVars, childVars
<1>2. CASE Next
  BY <1>2, PhaseStep, GenerateKeeps, StartChildKeeps, ChildStepKeeps, ResolveKeeps,
     WriteReportKeeps DEF Next
<1> QED
  BY <1>1, <1>2

THEOREM ResearchInvHolds == SafeSpec => []ResearchInv
BY ResearchInvInit, StepKeepsResearchInv, PTL DEF SafeSpec

(* A sub-question that has its answer is at rest: the generator appends    *)
(* behind it, and a child is started and resolved for a pending one.       *)
LEMMA AnswersAtRest ==
  ASSUME ResearchInv, [Next]_vars
  PROVE  \A i \in Resolved(subQuestions) :
           i \in DOMAIN subQuestions' /\ subQuestions'[i] = subQuestions[i]
<1> SUFFICES ASSUME NEW i \in Resolved(subQuestions)
             PROVE  i \in DOMAIN subQuestions' /\ subQuestions'[i] = subQuestions[i]
  OBVIOUS
<1>0. TypeOK /\ i \in DOMAIN subQuestions /\ subQuestions[i] \in {"done", "failed"}
  BY DEF ResearchInv, Resolved
<1>1. CASE \/ Prepare \/ ChildStep \/ AnswersDone \/ WriteReport \/ Finish \/ Raise \/ UNCHANGED vars
  <2>1. subQuestions' = subQuestions
    BY <1>1 DEF Prepare, ChildStep, AnswersDone, WriteReport, Finish, Raise, vars, questionVars
  <2> QED
    BY <1>0, <2>1
<1>2. CASE Generate
  <2>1. PICK drafts \in 0..MaxDrafts :
          subQuestions' = subQuestions \o [k \in 1..Added(drafts) |-> "pending"]
    BY <1>2 DEF Generate
  <2>2. PICK n \in Nat : n = Added(drafts)
    BY <1>0, AddedInCap
  <2>3. PICK m \in Nat : m = Len(subQuestions)
    BY <1>0, QuestionTypes
  <2> DEFINE pending == [k \in 1..n |-> "pending"]
  <2>4. subQuestions \in [1..m -> Statuses] /\ pending \in [1..n -> Statuses]
    BY <1>0, <2>3, QuestionTypes DEF Statuses
  <2> HIDE DEF pending
  <2>5. /\ subQuestions \o pending \in [1..(m + n) -> Statuses]
        /\ \A k \in 1..m : (subQuestions \o pending)[k] = subQuestions[k]
    <3>1. subQuestions \o pending \in [1..(m + n) -> Statuses]
      BY <2>4, Appended
    <3>2. \A k \in 1..m : (subQuestions \o pending)[k] = subQuestions[k]
      BY <2>4, Appended
    <3> QED
      BY <3>1, <3>2
  <2>6. i \in 1..m /\ i \in 1..(m + n)
    BY <1>0, <2>3, QuestionTypes
  <2>7. subQuestions' = subQuestions \o pending
    BY <2>1, <2>2 DEF pending
  <2> QED
    BY <2>5, <2>6, <2>7
<1>3. CASE StartChild
  <2>1. PICK k \in DOMAIN subQuestions :
          subQuestions[k] = "pending" /\ subQuestions' = [subQuestions EXCEPT ![k] = "running"]
    BY <1>3 DEF StartChild, NextPending, Pending
  <2> QED
    BY <1>0, <2>1
<1>4. CASE Resolve
  <2>1. subQuestions[current] = "running" /\ subQuestions' = [subQuestions EXCEPT ![current] = Outcome(childPhase)]
    BY <1>4 DEF Resolve, ResearchInv, ChildInv
  <2> QED
    BY <1>0, <2>1
<1> QED
  BY <1>1, <1>2, <1>3, <1>4 DEF Next

(* However many gap rounds there are and whatever the children do, each    *)
(* sub-question gets exactly one child.                                    *)
THEOREM OneChildEachHolds == SafeSpec => []OneChildEach
<1>1. ResearchInv => OneChildEach
  BY DEF ResearchInv
<1> QED
  BY ResearchInvHolds, <1>1, PTL

(* DONE means the child kept evidence: from RunLifecycle alone, so from    *)
(* any implementation of it.                                               *)
THEOREM DoneIsBackedHolds == SafeSpec => []DoneIsBacked
<1>1. ResearchInv => DoneIsBacked
  BY DEF ResearchInv
<1> QED
  BY ResearchInvHolds, <1>1, PTL

(* A research run only succeeds with a report over all its sub-questions.  *)
THEOREM ReportIsCompleteHolds == SafeSpec => []ReportIsComplete
<1>1. ResearchInv => ReportIsComplete
  BY DEF ResearchInv, LoopInv, ReportIsComplete
<1> QED
  BY ResearchInvHolds, <1>1, PTL

(* For any numbers of gap rounds and drafts: an answer that was given is   *)
(* neither withdrawn nor asked for again.                                  *)
THEOREM AnswersKeptHolds == SafeSpec => AnswersKept
<1>1. ResearchInv /\ [Next]_vars =>
        [\A i \in Resolved(subQuestions) :
           i \in DOMAIN subQuestions' /\ subQuestions'[i] = subQuestions[i]]_vars
  BY AnswersAtRest
<1> QED
  BY <1>1, ResearchInvHolds, PTL DEF SafeSpec, AnswersKept

(* Every variable keeps its type; the sub-questions never exceed their cap,*)
(* whatever the generator drafts, also over several gap rounds.            *)
THEOREM ResearchTypesHold == SafeSpec => []TypeOK
<1>1. ResearchInv => TypeOK
  BY DEF ResearchInv
<1> QED
  BY ResearchInvHolds, <1>1, PTL

-----------------------------------------------------------------------------
(* The pipeline's stages run out.  A gap round costs four stages besides   *)
(* its sub-questions', a sub-question two: its child's start and its end.  *)

Started == {i \in DOMAIN subQuestions : subQuestions[i] # "pending"}

AheadInRound ==
  [prepare |-> 6, generate |-> 5, child |-> 4, answer |-> 3, report |-> 2, finish |-> 1,
   succeeded |-> 0, raised |-> 0][phase]

StagesLeft ==
  4 * (MaxGapRounds - gapRound) + 2 * (MaxSubQuestions - Cardinality(Started)) + AheadInRound

StagesBounded == StagesLeft \in 0..(4 * MaxGapRounds + 2 * MaxSubQuestions + 6)

StagesFall ==
  [][IF ChildStep THEN StagesLeft' = StagesLeft ELSE StagesLeft' < StagesLeft]_vars

LEMMA StartedInCap ==
  ASSUME TypeOK
  PROVE  /\ Started \subseteq 1..MaxSubQuestions /\ IsFiniteSet(Started)
         /\ Cardinality(Started) \in 0..MaxSubQuestions
<1>1. Started \subseteq 1..MaxSubQuestions /\ MaxSubQuestions \in Nat
  BY ResearchAssumption, QuestionTypes DEF TypeOK, Started
<1>2. IsFiniteSet(1..MaxSubQuestions) /\ Cardinality(1..MaxSubQuestions) = MaxSubQuestions
  BY <1>1, FS_Interval
<1>3. IsFiniteSet(Started) /\ Cardinality(Started) <= MaxSubQuestions
  BY <1>1, <1>2, FS_Subset
<1> QED
  BY <1>1, <1>3, FS_CardinalityType

LEMMA StagesTyped ==
  ASSUME TypeOK
  PROVE  /\ StagesBounded /\ AheadInRound \in 0..6 /\ gapRound \in Nat /\ MaxGapRounds \in Nat
         /\ MaxSubQuestions \in Nat /\ gapRound <= MaxGapRounds /\ Cardinality(Started) \in Nat
<1>1. AheadInRound \in 0..6
  BY DEF TypeOK, AheadInRound
<1>2. /\ gapRound \in Nat /\ MaxGapRounds \in Nat /\ MaxSubQuestions \in Nat /\ gapRound <= MaxGapRounds
      /\ Cardinality(Started) \in 0..MaxSubQuestions
  BY ResearchAssumption, StartedInCap DEF TypeOK
<1> HIDE DEF AheadInRound
<1> QED
  BY <1>1, <1>2 DEF StagesBounded, StagesLeft

(* Only a child's start changes which sub-questions were started.          *)
LEMMA StartedGrows ==
  ASSUME ResearchInv, Next
  PROVE  Cardinality(Started') = IF StartChild THEN Cardinality(Started) + 1 ELSE Cardinality(Started)
<1>0. TypeOK /\ IsFiniteSet(Started)
  BY StartedInCap DEF ResearchInv
<1>1. CASE Prepare \/ ChildStep \/ AnswersDone \/ WriteReport \/ Finish \/ Raise
  <2>1. subQuestions' = subQuestions
    BY <1>1 DEF Prepare, ChildStep, AnswersDone, WriteReport, Finish, Raise, questionVars
  <2>2. Started' = Started
    BY <2>1 DEF Started
  <2>3. ~StartChild
    BY <2>1, <1>0 DEF StartChild, NextPending, Pending, TypeOK
  <2> QED
    BY <2>2, <2>3
<1>2. CASE Generate
  <2>1. PICK m \in Nat : m = Len(subQuestions)
    BY <1>0, QuestionTypes
  <2>2. PICK drafts \in 0..MaxDrafts :
          subQuestions' = subQuestions \o [k \in 1..Added(drafts) |-> "pending"]
    BY <1>2 DEF Generate
  <2>3. PICK n \in Nat : n = Added(drafts)
    BY <1>0, AddedInCap
  <2> DEFINE pending == [k \in 1..n |-> "pending"]
  <2>4. subQuestions \in [1..m -> Statuses] /\ pending \in [1..n -> Statuses]
    BY <1>0, <2>1, QuestionTypes DEF Statuses
  <2>5. \A k \in 1..n : pending[k] = "pending"
    OBVIOUS
  <2>6. subQuestions' = subQuestions \o pending
    BY <2>2, <2>3
  <2> HIDE DEF pending
  <2>7. subQuestions' \in [1..(m + n) -> Statuses]
    BY <2>4, <2>6, Appended
  <2>8. \A k \in 1..m : subQuestions'[k] = subQuestions[k]
    BY <2>4, <2>6, Appended
  <2>9. \A k \in (m + 1)..(m + n) : k - m \in 1..n /\ subQuestions'[k] = pending[k - m]
    BY <2>4, <2>6, Appended
  <2>10. \A k \in 1..(m + n) : k \in 1..m \/ (k \in (m + 1)..(m + n) /\ subQuestions'[k] = "pending")
    BY <2>5, <2>9
  <2>11. Started' = Started
    BY <2>4, <2>7, <2>8, <2>10 DEF Started
  <2>12. ~StartChild
    BY <1>2 DEF Generate, StartChild
  <2> QED
    BY <2>11, <2>12
<1>3. CASE StartChild
  <2>1. PICK k \in DOMAIN subQuestions :
          subQuestions[k] = "pending" /\ subQuestions' = [subQuestions EXCEPT ![k] = "running"]
    BY <1>3 DEF StartChild, NextPending, Pending
  <2>2. Started' = Started \cup {k} /\ k \notin Started
    BY <1>0, <2>1 DEF Started, TypeOK
  <2> QED
    BY <1>0, <1>3, <2>2, FS_AddElement
<1>4. CASE Resolve
  <2>1. /\ current \in DOMAIN subQuestions /\ subQuestions[current] = "running"
        /\ subQuestions' = [subQuestions EXCEPT ![current] = Outcome(childPhase)]
    BY <1>4 DEF Resolve, ResearchInv, ChildInv
  <2>2. Outcome(childPhase) # "pending"
    BY DEF Outcome
  <2>3. Started' = Started
    BY <1>0, <2>1, <2>2 DEF Started, TypeOK
  <2>4. ~StartChild
    BY <1>4 DEF Resolve, StartChild
  <2> QED
    BY <2>3, <2>4
<1> QED
  BY <1>1, <1>2, <1>3, <1>4 DEF Next

LEMMA StageStep ==
  ASSUME ResearchInv, Next
  PROVE  IF ChildStep THEN StagesLeft' = StagesLeft ELSE StagesLeft' < StagesLeft
<1>1. TypeOK /\ TypeOK'
  BY StepKeepsResearchInv DEF ResearchInv
<1>2. /\ gapRound \in Nat /\ gapRound' \in Nat /\ MaxGapRounds \in Nat /\ MaxSubQuestions \in Nat
      /\ Cardinality(Started) \in Nat /\ AheadInRound \in 0..6 /\ AheadInRound' \in 0..6
  <2>1. AheadInRound' \in 0..6
    BY <1>1 DEF TypeOK, AheadInRound
  <2>2. gapRound' \in Nat
    BY <1>1, ResearchAssumption DEF TypeOK
  <2> QED
    BY <1>1, <2>1, <2>2, StagesTyped
<1>3. Cardinality(Started)' = IF StartChild THEN Cardinality(Started) + 1 ELSE Cardinality(Started)
  BY StartedGrows
<1>4. CASE ChildStep
  <2>1. UNCHANGED <<phase, gapRound>> /\ phase = "child"
    BY <1>4 DEF ChildStep
  <2>2. AheadInRound' = AheadInRound /\ ~StartChild
    BY <2>1 DEF AheadInRound, StartChild
  <2> QED
    BY <1>3, <1>4, <2>1, <2>2 DEF StagesLeft
<1>5. CASE ~ChildStep
  <2>1. CASE StartChild
    <3>1. AheadInRound = 3 /\ AheadInRound' = 4 /\ gapRound' = gapRound
      BY <2>1 DEF StartChild, AheadInRound
    <3> QED
      BY <1>2, <1>3, <1>5, <2>1, <3>1 DEF StagesLeft
  <2>2. CASE WriteReport
    <3>1. ~StartChild /\ AheadInRound = 2
      BY <2>2 DEF WriteReport, StartChild, AheadInRound
    <3>2. \/ AheadInRound' = 5 /\ gapRound' = gapRound + 1
          \/ AheadInRound' = 1 /\ gapRound' = gapRound
      BY <2>2 DEF WriteReport, AheadInRound
    <3> QED
      BY <1>2, <1>3, <1>5, <3>1, <3>2 DEF StagesLeft
  <2>3. CASE Prepare \/ Generate \/ Resolve \/ AnswersDone \/ Finish \/ Raise
    <3>1. gapRound' = gapRound /\ ~StartChild
      BY <2>3 DEF Prepare, Generate, Resolve, AnswersDone, Finish, Raise, StartChild
    <3>2. AheadInRound' < AheadInRound
      <4>1. CASE Prepare
        BY <4>1 DEF Prepare, AheadInRound
      <4>2. CASE Generate
        BY <4>2 DEF Generate, AheadInRound
      <4>3. CASE Resolve \/ AnswersDone \/ Finish
        BY <4>3 DEF Resolve, AnswersDone, Finish, AheadInRound
      <4>4. CASE Raise
        BY <4>4 DEF Raise, AheadInRound
      <4> QED
        BY <2>3, <4>1, <4>2, <4>3, <4>4
    <3> QED
      BY <1>2, <1>3, <1>5, <3>1, <3>2 DEF StagesLeft
  <2> QED
    BY <1>5, <2>1, <2>2, <2>3 DEF Next
<1> QED
  BY <1>4, <1>5

(* For every budget, generator and children: the pipeline passes through   *)
(* at most 4 * max_gap_rounds + 2 * max_sub_questions + 6 stages besides   *)
(* its children's own steps, since each leaves fewer of them.  Neither a   *)
(* gap round nor an unresolved sub-question can keep run_research going.   *)
THEOREM StagesRunOut == SafeSpec => []StagesBounded /\ StagesFall
<1>1. ResearchInv => StagesBounded
  BY StagesTyped DEF ResearchInv
<1>2. ResearchInv /\ [Next]_vars =>
        [IF ChildStep THEN StagesLeft' = StagesLeft ELSE StagesLeft' < StagesLeft]_vars
  BY StageStep
<1> QED
  BY <1>1, <1>2, ResearchInvHolds, PTL DEF SafeSpec, StagesFall
=============================================================================
