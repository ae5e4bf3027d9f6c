----------------------------- MODULE MCRunStream -----------------------------
(* A run that plans a step, runs it, takes it back and plans another.      *)
EXTENDS RunStream

MCLog == <<
  [type |-> "run.started"],
  [type |-> "plan.step", index |-> 0],
  [type |-> "exec.stdout"],
  [type |-> "verify.verdict", sufficient |-> FALSE],
  [type |-> "route.decision", action |-> "backtrack", index |-> 0],
  [type |-> "plan.step", index |-> 0],
  [type |-> "run.finished", status |-> "succeeded", answer |-> "answer"] >>
=============================================================================
