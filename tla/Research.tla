------------------------------ MODULE Research ------------------------------
(***************************************************************************)
(* run_research: the DS-STAR+ orchestrator.  It generates sub-questions,   *)
(* answers each with a precise run of its own, writes a report, and        *)
(* refines the report for a few gap rounds.                                *)
(*                                                                         *)
(* A child is seen only through what RunLifecycle promises of it, which    *)
(* LoopPrecise implements: its rounds and evidence are RunLifecycle's, and *)
(* its outcome or its exception is all the parent learns.                  *)
(***************************************************************************)
EXTENDS Integers, Sequences

CONSTANTS
  MaxDrafts,       \* bound: questions in one answer of the generator
  MaxSubQuestions, \* RunBudget.max_sub_questions
  MaxGapRounds,    \* RunBudget.max_gap_rounds
  MaxRounds        \* RunBudget.max_rounds, the whole of it given to each child

ASSUME ResearchAssumption ==
  /\ MaxDrafts \in Nat /\ MaxGapRounds \in Nat
  /\ MaxSubQuestions \in Nat \ {0} /\ MaxRounds \in Nat \ {0}

VARIABLES
  phase,        \* where run_research is; "succeeded" and "raised" end it
  gapRound,     \* 0 for the first pass, then the loop variable
  subQuestions, \* RunState.sub_questions: their statuses
  current,      \* the sub-question whose child runs
  report,       \* RunState.report: its sub_question_count and gap_rounds
  childPhase, childRounds, childUsable,    \* the child run
  (* The rest records the past for the properties; no guard reads it.      *)
  childRuns,    \* children started for each sub-question
  backed        \* the child of each sub-question ended with evidence kept

childVars == <<childPhase, childRounds, childUsable>>
questionVars == <<subQuestions, childRuns, backed>>
vars == <<phase, gapRound, questionVars, current, report, childVars>>

Child == INSTANCE RunLifecycle WITH
  phase <- childPhase, rounds <- childRounds, usable <- childUsable

NoReport == [questions |-> 0, gapRounds |-> -1]

Pending(statuses) == {i \in DOMAIN statuses : statuses[i] = "pending"}
Resolved(statuses) == {i \in DOMAIN statuses : statuses[i] \in {"done", "failed"}}

-----------------------------------------------------------------------------

Init ==
  /\ phase = "prepare" /\ gapRound = 0
  /\ subQuestions = <<>> /\ childRuns = <<>> /\ backed = <<>>
  /\ current = 0 /\ report = NoReport
  /\ childPhase = "raised" /\ childRounds = 0 /\ childUsable = FALSE    \* none yet

(* analyze and retrieve, once for all children's questions.                *)
Prepare ==
  /\ phase = "prepare"
  /\ phase' = "generate"
  /\ UNCHANGED <<gapRound, questionVars, current, report, childVars>>

AddedUncapped(drafts) == drafts    \* mutant: the cap is only tested between rounds
Added(drafts) ==
  IF drafts <= MaxSubQuestions - Len(subQuestions)
    THEN drafts ELSE MaxSubQuestions - Len(subQuestions)

(* _append_questions; a gap round without drafts ends the loop.            *)
Generate ==
  /\ phase = "generate"
  /\ \E drafts \in 0..MaxDrafts :
       LET more(f, v) == f \o [i \in 1..Added(drafts) |-> v]
       IN /\ subQuestions' = more(subQuestions, "pending")
          /\ childRuns' = more(childRuns, 0)
          /\ backed' = more(backed, FALSE)
          /\ phase' = IF gapRound > 0 /\ drafts = 0 THEN "finish" ELSE "answer"
  /\ UNCHANGED <<gapRound, current, report, childVars>>

NextUnresolved(statuses, i) ==    \* mutant: asks a failed question again
  statuses[i] \in {"pending", "failed"} /\ \A k \in 1..(i - 1) : statuses[k] = "done"

NextPending(statuses, i) ==
  i \in Pending(statuses) /\ \A k \in Pending(statuses) : i <= k

(* A fresh run, with a cycle detector of its own.                          *)
StartChild ==
  /\ phase = "answer"
  /\ \E i \in DOMAIN subQuestions :
       /\ NextPending(subQuestions, i)
       /\ subQuestions' = [subQuestions EXCEPT ![i] = "running"]
       /\ childRuns' = [childRuns EXCEPT ![i] = @ + 1]
       /\ current' = i
  /\ childPhase' = "running" /\ childRounds' = 0 /\ childUsable' = FALSE
  /\ phase' = "child"
  /\ UNCHANGED <<gapRound, report, backed>>

ChildStep ==
  /\ phase = "child"
  /\ Child!Next
  /\ UNCHANGED <<phase, gapRound, questionVars, current, report>>

OutcomeAnswered(ended) == "done"    \* mutant: every child has an answer text
Outcome(ended) == IF ended = "succeeded" THEN "done" ELSE "failed"

Resolve ==
  /\ phase = "child"
  /\ childPhase \in {"succeeded", "failed"}
  /\ subQuestions' = [subQuestions EXCEPT ![current] = Outcome(childPhase)]
  /\ backed' = [backed EXCEPT ![current] = childUsable]
  /\ phase' = "answer"
  /\ UNCHANGED <<gapRound, childRuns, current, report, childVars>>

(* No sub-question is pending any more.                                    *)
AnswersDone ==
  /\ phase = "answer"
  /\ Pending(subQuestions) = {}
  /\ phase' = "report"
  /\ UNCHANGED <<gapRound, questionVars, current, report, childVars>>

FirstReport(n) ==    \* mutant: a refinement does not replace the draft
  IF report = NoReport THEN [questions |-> n, gapRounds |-> gapRound] ELSE report
NewReport(n) == [questions |-> n, gapRounds |-> gapRound]

WriteReportSameRound ==    \* mutant: the loop goes by the cap alone
  /\ phase = "report"
  /\ report' = NewReport(Len(subQuestions))
  /\ phase' = IF Len(subQuestions) < MaxSubQuestions THEN "generate" ELSE "finish"
  /\ UNCHANGED <<gapRound, questionVars, current, childVars>>

(* _write_report, and the head of the gap loop.                            *)
WriteReport ==
  /\ phase = "report"
  /\ report' = NewReport(Len(subQuestions))
  /\ IF gapRound < MaxGapRounds /\ Len(subQuestions) < MaxSubQuestions
       THEN phase' = "generate" /\ gapRound' = gapRound + 1
       ELSE phase' = "finish" /\ UNCHANGED gapRound
  /\ UNCHANGED <<questionVars, current, childVars>>

Finish ==
  /\ phase = "finish"
  /\ phase' = "succeeded"
  /\ UNCHANGED <<gapRound, questionVars, current, report, childVars>>

(* An agent, the retriever or the event bus raises, or the child raised:   *)
(* nothing catches it, and the sub-question stays RUNNING.                 *)
Raise ==
  /\ \/ phase \in {"prepare", "generate", "answer", "report", "finish"}
     \/ phase = "child" /\ childPhase = "raised"
  /\ phase' = "raised"
  /\ UNCHANGED <<gapRound, questionVars, current, report, childVars>>

Next ==
  \/ Prepare \/ Generate \/ StartChild \/ ChildStep \/ Resolve
  \/ AnswersDone \/ WriteReport \/ Finish \/ Raise

SafeSpec == Init /\ [][Next]_vars

ChildEnds == ChildStep /\ childPhase' # "running"

(* The pipeline is one coroutine whose awaits return, and a child that     *)
(* runs ends: that is LoopPrecise's Terminates.                            *)
Spec == SafeSpec /\ WF_vars(Next) /\ WF_vars(ChildEnds)
-----------------------------------------------------------------------------
(* Properties.                                                             *)

Statuses == {"pending", "running", "done", "failed"}

TypeOK ==
  /\ phase \in {"prepare", "generate", "answer", "child", "report", "finish", "succeeded", "raised"}
  /\ gapRound \in 0..MaxGapRounds
  /\ subQuestions \in Seq(Statuses) /\ Len(subQuestions) <= MaxSubQuestions
  /\ childRuns \in [DOMAIN subQuestions -> Nat]
  /\ backed \in [DOMAIN subQuestions -> BOOLEAN]
  /\ current \in {0} \cup DOMAIN subQuestions
  /\ report \in [questions : Nat, gapRounds : 0..MaxGapRounds] \cup {NoReport}
  /\ childPhase \in {"running", "succeeded", "failed", "raised"}
  /\ childRounds \in Nat /\ childUsable \in BOOLEAN

(* Each sub-question is answered by exactly one child, whatever gap round  *)
(* added it and whatever became of the children before it.                 *)
OneChildEach ==
  /\ \A i \in DOMAIN subQuestions :
       childRuns[i] = IF subQuestions[i] = "pending" THEN 0 ELSE 1
  /\ \A i \in DOMAIN subQuestions :
       subQuestions[i] = "running" => i = current /\ phase \in {"child", "raised"}

(* A sub-question is DONE exactly when its child ended with evidence for   *)
(* the answer, so the report never cites a child that only crashed.        *)
DoneIsBacked ==
  \A i \in Resolved(subQuestions) : (subQuestions[i] = "done") <=> backed[i]

(* The report that becomes the run's answer was written when every         *)
(* sub-question of every gap round had been resolved.                      *)
ReportIsComplete ==
  phase \in {"finish", "succeeded"} =>
    /\ report.questions = Len(subQuestions)
    /\ Resolved(subQuestions) = DOMAIN subQuestions

(* A gap round only appends: it neither withdraws nor reopens what earlier *)
(* rounds resolved, which the report already cites by number.              *)
AnswersKept ==
  [][\A i \in Resolved(subQuestions) :
       i \in DOMAIN subQuestions' /\ subQuestions'[i] = subQuestions[i]]_vars

(* Every research run ends, whatever the generator and the children do.    *)
Terminates == <>(phase \in {"succeeded", "raised"})
=============================================================================
