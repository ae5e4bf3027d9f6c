------------------------------ MODULE RunStore ------------------------------
(***************************************************************************)
(* The run state the browser derives from a run's events (apps/web,        *)
(* lib/stores/runStore.ts): what applyEvent does with each kind of event.  *)
(* Texts, costs, file names and the settings of the view are left out.     *)
(***************************************************************************)
EXTENDS Naturals, Sequences, SequencesExt

NoAnswer == "no answer"

StoreInit ==
  [phase |-> "connecting", steps |-> <<>>, code |-> 0, observed |-> {},
   verdicts |-> <<>>, backtracks |-> <<>>, final |-> "running", answer |-> NoAnswer]

ActiveAt(s) == {i \in DOMAIN s.steps : s.steps[i].status = "active"}

(* find(...): the first active step, if there is one.                      *)
HasActive(s) == ActiveAt(s) # {}
ActiveIndex(s) == s.steps[CHOOSE i \in ActiveAt(s) : \A j \in ActiveAt(s) : i <= j].index

(* Every step that satisfies Sel gets the status.                          *)
Mark(s, Sel(_), st) ==
  [i \in DOMAIN s.steps |-> IF Sel(s.steps[i]) THEN [s.steps[i] EXCEPT !.status = st] ELSE s.steps[i]]
Complete(s) == Mark(s, LAMBDA p : p.status = "active", "completed")

PlanStep(s, e) ==
  [s EXCEPT !.phase = "planning",
            !.steps = Append(Complete(s), [index |-> e.index, status |-> "active"])]

(* Output goes to the active step's observation, or nowhere.               *)
Stdout(s) ==
  [s EXCEPT !.phase = "executing",
            !.observed = IF HasActive(s) THEN @ \cup {ActiveIndex(s)} ELSE @]

Finished(s) ==
  IF HasActive(s)
  THEN [s EXCEPT !.phase = "verifying", !.observed = @ \cup {ActiveIndex(s)}]
  ELSE s

VerdictOn(s, e) ==
  [s EXCEPT !.phase = "verifying",
            !.verdicts = Append(@, [sufficient |-> e.sufficient,
                                    hasStep |-> HasActive(s)])]

(* The verifier sends the run back to a step, or on to a new one.          *)
Backtracks(e) == e.action = "backtrack" /\ "index" \in DOMAIN e

RouteDecision(s, e) ==
  IF Backtracks(e)
  THEN [s EXCEPT !.phase = "routing", !.backtracks = Append(@, e.index),
                 !.steps = Mark(s, LAMBDA p : p.index >= e.index, "backtracked")]
  ELSE [s EXCEPT !.phase = "routing"]

Truncate(s, e) ==
  [s EXCEPT !.steps = Mark(s, LAMBDA p : p.index > e.index, "backtracked")]

RunFinished(s, e) ==
  [s EXCEPT !.phase = CASE e.status = "succeeded" -> "complete"
                        [] e.status = "cancelled" -> "cancelled"
                        [] OTHER -> "failed",
            !.final = e.status, !.answer = e.answer, !.steps = Complete(s)]

applyEvent(s, e) ==
  CASE e.type \in {"run.started", "analyze.progress"} -> [s EXCEPT !.phase = "analyzing"]
    [] e.type = "plan.step" -> PlanStep(s, e)
    [] e.type = "code.generated" -> [s EXCEPT !.phase = "coding", !.code = e.index]
    [] e.type = "exec.stdout" -> Stdout(s)
    [] e.type = "exec.finished" -> Finished(s)
    [] e.type = "verify.verdict" -> VerdictOn(s, e)
    [] e.type = "route.decision" -> RouteDecision(s, e)
    [] e.type = "plan.truncated" -> Truncate(s, e)
    [] e.type = "debug.attempt" -> [s EXCEPT !.phase = "debugging"]
    [] e.type = "run.finished" -> RunFinished(s, e)
    [] e.type = "run.failed" -> [s EXCEPT !.phase = "failed", !.final = "failed"]
    [] OTHER -> s

IsTerminal(e) == e.type \in {"run.finished", "run.failed"}

(* The state after a sequence of events.                                   *)
ApplyAll(s, evs) ==
  LET after[i \in 0..Len(evs)] == IF i = 0 THEN s ELSE applyEvent(after[i - 1], evs[i])
  IN after[Len(evs)]
=============================================================================
