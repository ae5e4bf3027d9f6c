----------------------------- MODULE MCRunView -----------------------------
EXTENDS RunView

(* A run that fails in its second step, repairs it and takes it back.      *)
At(st, out) == [status |-> st, out |-> out]
MCRunStates == <<
  [phase |-> "connecting", steps |-> <<>>],
  [phase |-> "executing", steps |-> <<At("active", NotRun)>>],
  [phase |-> "debugging", steps |-> <<At("completed", "some"), At("active", NotRun)>>],
  [phase |-> "routing", steps |-> <<At("completed", "some"), At("backtracked", "none")>>],
  [phase |-> "complete", steps |-> <<At("completed", "some"), At("backtracked", "none")>>] >>
=============================================================================
