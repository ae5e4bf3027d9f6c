---------------------------- MODULE RunLifecycle ----------------------------
(***************************************************************************)
(* What a precise run promises to whoever started it: the HTTP and CLI     *)
(* callers, and run_research, which starts one run per sub-question.  It   *)
(* says nothing of plans, scripts or checkpoints, only of                  *)
(*   - how a run may end: an answer backed by evidence, a failure without  *)
(*     evidence, or an exception that leaves RunState.status RUNNING;      *)
(*   - how rounds are spent: one per judged successful execution.          *)
(* LoopPrecise is shown to implement it.                                   *)
(***************************************************************************)
EXTENDS Naturals

CONSTANT MaxRounds

VARIABLES
  phase,    \* what the caller sees: RunState.status, or "raised"
  rounds,   \* RunState.round
  usable    \* some execution kept in RunState.observations succeeded

vars == <<phase, rounds, usable>>

Init ==
  /\ phase = "running"
  /\ rounds = 0
  /\ usable = FALSE

-----------------------------------------------------------------------------

(* An execution ends, and its observation is evidence if it succeeded.     *)
Observe ==
  /\ phase = "running"
  /\ usable' = TRUE
  /\ UNCHANGED <<phase, rounds>>

(* A verdict: only a run with evidence is judged, and each verdict costs a *)
(* round.                                                                  *)
Judge ==
  /\ phase = "running"
  /\ usable
  /\ rounds < MaxRounds
  /\ rounds' = rounds + 1
  /\ UNCHANGED <<phase, usable>>

(* A backtrack, possible only after a verdict, may discard all evidence.   *)
Discard ==
  /\ phase = "running"
  /\ rounds > 0
  /\ usable' = FALSE
  /\ UNCHANGED <<phase, rounds>>

Finish ==
  /\ phase = "running"
  /\ phase' = IF usable THEN "succeeded" ELSE "failed"
  /\ UNCHANGED <<rounds, usable>>

(* An agent, the retriever, the sandbox or the event bus raised.           *)
Raise ==
  /\ phase = "running"
  /\ phase' = "raised"
  /\ UNCHANGED <<rounds, usable>>

Next == Observe \/ Judge \/ Discard \/ Finish \/ Raise

SafeSpec == Init /\ [][Next]_vars
=============================================================================
