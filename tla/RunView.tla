------------------------------ MODULE RunView ------------------------------
(***************************************************************************)
(* The page of one run (apps/web, runs/[runId]/page.tsx with StatusBar,    *)
(* PlanTimeline and ObservationPane).  It polls the run while it goes on   *)
(* and fetches the code and the output of one step, the selected or else   *)
(* the active one.  Selecting, polling and the answers interleave; a       *)
(* newer request supersedes an older one, whose answer is dropped          *)
(* (useResource with keepPreviousData).                                    *)
(***************************************************************************)
EXTENDS Naturals, Sequences, SequencesExt

CONSTANTS
  RunStates,    \* the states the server reports of the run, in order: phase
                \* and steps, each with its status and its output:
                \* "not run", "none" or "some"
  Panes,        \* the panes that show a step: "code", "output"
  MaxPolls      \* MAX_POLLS

NotRun == "not run"

ASSUME PanesAssumption == Panes \subseteq {"code", "output"}
ASSUME PollsAssumption == MaxPolls \in Nat
ASSUME RunStatesAssumption ==
  RunStates \in Seq([phase : STRING, steps : Seq([status : STRING, out : {NotRun, "none", "some"}])])

NoStep == 0    \* selectedStep = null; steps count from 1 here
Nothing == [step |-> NoStep, out |-> NotRun]

TerminalPhases == {"complete", "failed", "cancelled"}
ForgotDebugging ==    \* mutant: a phase is missing
  {"analyzing", "planning", "coding", "executing", "verifying", "routing", "finalizing"}
RunningPhases ==
  {"analyzing", "planning", "coding", "executing", "verifying", "routing", "debugging", "finalizing"}

VARIABLES
  backend,      \* the run's state on the server, an index of RunStates
  detail,       \* the state shown, 0 before the first answer
  detailReq,    \* its request: "sent", "answered", "ready", "failed"
  detailAns,    \* the answer on its way
  polls,        \* pollCount
  selected,     \* selectedStep
  pane,         \* what each pane holds: step and output
  paneReq, paneAns,
  cancelConfirming, timelineView, expanded

runVars == <<detail, detailReq, detailAns, polls>>
paneVars == <<pane, paneReq, paneAns>>
viewVars == <<cancelConfirming, timelineView, expanded>>
runViewVars == <<backend, runVars, selected, paneVars, viewVars>>

StepsOf(d) == IF d = 0 THEN <<>> ELSE RunStates[d].steps
Phase == IF detail = 0 THEN "connecting" ELSE RunStates[detail].phase
isRunning == Phase \in RunningPhases

RunScreen == IF detail # 0 THEN "page" ELSE IF detailReq = "failed" THEN "error" ELSE "loading"

(* The step both panes are about: the selected one, else the first active  *)
(* one, else the first.                                                    *)
activeStepIndex(d, sel) ==
  LET active == {i \in DOMAIN StepsOf(d) : StepsOf(d)[i].status = "active"} IN
    IF sel # NoStep THEN sel
    ELSE IF active = {} THEN 1 ELSE CHOOSE i \in active : \A j \in active : i <= j

(* The panes' resources start over when one of these changes.              *)
Deps(d, sel) == <<activeStepIndex(d, sel), d # 0, StepsOf(d) # <<>>>>

KeepPanes(d, sel) ==    \* mutant: the panes are fetched once per run
  /\ paneReq' = IF d # 0 /\ detail = 0 THEN [p \in Panes |-> "sent"] ELSE paneReq
  /\ UNCHANGED <<pane, paneAns>>

Refetch(d, sel) ==
  /\ paneReq' = IF Deps(d, sel) # Deps(detail, selected) THEN [p \in Panes |-> "sent"] ELSE paneReq
  /\ UNCHANGED <<pane, paneAns>>

RunViewInit ==
  /\ backend \in DOMAIN RunStates
  /\ detail = 0 /\ detailReq = "sent" /\ detailAns = 0 /\ polls = 0
  /\ selected = NoStep
  /\ pane = [p \in Panes |-> Nothing] /\ paneReq = [p \in Panes |-> "sent"]
  /\ paneAns = [p \in Panes |-> Nothing]
  /\ cancelConfirming = FALSE /\ timelineView = "plan" /\ expanded = {}

RunGoesOn ==
  /\ backend < Len(RunStates) /\ backend' = backend + 1
  /\ UNCHANGED <<runVars, selected, paneVars, viewVars>>

-----------------------------------------------------------------------------
(* The run's state.                                                        *)

AnswerDetail ==
  /\ detailReq = "sent"
  /\ detailReq' = "answered" /\ detailAns' = backend
  /\ UNCHANGED <<backend, detail, polls, selected, paneVars, viewVars>>

ReceiveDetail ==
  /\ detailReq = "answered"
  /\ detailReq' = "ready" /\ detail' = detailAns /\ detailAns' = 0
  /\ Refetch(detailAns, selected)
  /\ UNCHANGED <<backend, polls, selected, viewVars>>

(* A dropped poll keeps what is on screen.                                 *)
DetailFails ==
  /\ detailReq = "sent" /\ detailReq' = "failed"
  /\ UNCHANGED <<backend, detail, detailAns, polls, selected, paneVars, viewVars>>

RetryDetail ==
  /\ RunScreen = "error" /\ detailReq' = "sent"
  /\ UNCHANGED <<backend, detail, detailAns, polls, selected, paneVars, viewVars>>

(* The interval fires.                                                     *)
Poll ==
  /\ isRunning /\ polls < MaxPolls
  /\ polls' = polls + 1 /\ detailReq' = "sent" /\ detailAns' = 0
  /\ UNCHANGED <<backend, detail, selected, paneVars, viewVars>>

-----------------------------------------------------------------------------
(* The panes.                                                              *)

(* A run that is not loaded or has no steps asks for nothing.              *)
AnswerPane(p) ==
  /\ paneReq[p] = "sent"
  /\ paneReq' = [paneReq EXCEPT ![p] = "answered"]
  /\ LET step == activeStepIndex(detail, selected) IN
       paneAns' = [paneAns EXCEPT ![p] =
         IF StepsOf(detail) = <<>> THEN Nothing
         ELSE [step |-> step, out |-> RunStates[backend].steps[step].out]]
  /\ UNCHANGED <<backend, runVars, selected, pane, viewVars>>

ReceivePane(p) ==
  /\ paneReq[p] = "answered"
  /\ paneReq' = [paneReq EXCEPT ![p] = "ready"]
  /\ pane' = [pane EXCEPT ![p] = paneAns[p]]
  /\ paneAns' = [paneAns EXCEPT ![p] = Nothing]
  /\ UNCHANGED <<backend, runVars, selected, viewVars>>

PaneFails(p) ==
  /\ paneReq[p] = "sent" /\ StepsOf(detail) # <<>>
  /\ paneReq' = [paneReq EXCEPT ![p] = "failed"]
  /\ UNCHANGED <<backend, runVars, selected, pane, paneAns, viewVars>>

(* The output pane's text under the step's label.                          *)
OutputText ==
  IF pane["output"].out = "some" THEN "output"
  ELSE IF Phase = "executing" /\ selected = NoStep THEN "executing" ELSE "completed without output"

-----------------------------------------------------------------------------
(* The timeline.                                                           *)

(* onStepClick: the selected step again gives the active one back.         *)
SelectStep(i) ==
  LET sel == IF i = selected THEN NoStep ELSE i IN
    selected' = sel /\ Refetch(detail, sel)

(* The rows of the plan view by status; pending steps have none, and a     *)
(* backtracked one unfolds.                                                *)
RowsWith(statuses) ==
  IF RunScreen # "page" \/ timelineView # "plan" THEN {}
  ELSE {i \in DOMAIN StepsOf(detail) : StepsOf(detail)[i].status \in statuses}

ClickStep(i) ==
  /\ i \in RowsWith({"completed"}) /\ SelectStep(i)
  /\ UNCHANGED <<backend, runVars, viewVars>>

(* Arrow up and down on a completed row choose its neighbour among the     *)
(* completed and active ones.                                              *)
ArrowFrom(i, j) ==
  /\ i \in RowsWith({"completed"}) /\ j \in RowsWith({"completed", "active"}) \ {i}
  /\ ~\E k \in RowsWith({"completed", "active"}) : (i < k /\ k < j) \/ (j < k /\ k < i)
  /\ SelectStep(j)
  /\ UNCHANGED <<backend, runVars, viewVars>>

ToggleBacktrack(i) ==
  /\ i \in RowsWith({"backtracked"})
  /\ expanded' = SymDiff(expanded, {i})
  /\ UNCHANGED <<backend, runVars, selected, paneVars, cancelConfirming, timelineView>>

ChooseView(v) ==
  /\ RunScreen = "page" /\ timelineView' = v
  /\ UNCHANGED <<backend, runVars, selected, paneVars, cancelConfirming, expanded>>

Escape ==
  /\ selected' = NoStep /\ Refetch(detail, NoStep)
  /\ UNCHANGED <<backend, runVars, viewVars>>

(* The status bar's button and its question; either answer only takes the  *)
(* question back.                                                          *)
AskCancel ==
  /\ RunScreen = "page" /\ Phase \notin TerminalPhases /\ ~cancelConfirming
  /\ cancelConfirming' = TRUE
  /\ UNCHANGED <<backend, runVars, selected, paneVars, timelineView, expanded>>

AnswerCancel ==
  /\ RunScreen = "page" /\ Phase \notin TerminalPhases /\ cancelConfirming
  /\ cancelConfirming' = FALSE
  /\ UNCHANGED <<backend, runVars, selected, paneVars, timelineView, expanded>>

RunViewNext ==
  \/ RunGoesOn
  \/ AnswerDetail \/ ReceiveDetail \/ DetailFails \/ RetryDetail \/ Poll
  \/ \E p \in Panes : AnswerPane(p) \/ ReceivePane(p) \/ PaneFails(p)
  \/ \E i \in DOMAIN StepsOf(detail) : ClickStep(i) \/ ToggleBacktrack(i)
  \/ \E i, j \in DOMAIN StepsOf(detail) : ArrowFrom(i, j)
  \/ \E v \in {"plan", "round"} : ChooseView(v)
  \/ Escape \/ AskCancel \/ AnswerCancel

RunViewSpec == RunViewInit /\ [][RunViewNext]_runViewVars

-----------------------------------------------------------------------------
(* Properties.                                                             *)

RunViewTypeOK ==
  /\ backend \in DOMAIN RunStates /\ detail \in 0..Len(RunStates)
  /\ detailReq \in {"sent", "answered", "ready", "failed"}
  /\ detailAns \in 0..Len(RunStates) /\ polls \in 0..MaxPolls
  /\ \A p \in Panes : paneReq[p] \in {"sent", "answered", "ready", "failed"}
  /\ timelineView \in {"plan", "round"}

(* Whatever is selected and reported meanwhile, a pane whose request is    *)
(* done shows the step it is labelled with.                                *)
PaneShowsItsStep ==
  \A p \in Panes : paneReq[p] = "ready" /\ StepsOf(detail) # <<>> =>
    pane[p].step = activeStepIndex(detail, selected)

(* A run seen on its way and ended since is shown ended, unless the last   *)
(* poll of MAX_POLLS failed or is spent: no phase between the first and    *)
(* the last stops the polling.  A run still "connecting" is not polled.    *)
EndIsShown ==
  (/\ detail # 0 /\ Phase # "connecting" /\ polls < MaxPolls
   /\ backend = Len(RunStates))
    ~> (Phase \in TerminalPhases \/ detailReq = "failed")

(* docs/Plan/UI.md:785 gives "The script completed but produced no output."*)
(* for an "Empty observation (code produced no output)": under a step whose*)
(* output has been fetched, that is what happened on the server.           *)
NoOutputMeansNone ==
  RunScreen = "page" /\ paneReq["output"] = "ready" /\ StepsOf(detail) # <<>>
    /\ OutputText = "completed without output"
    => RunStates[backend].steps[activeStepIndex(detail, selected)].out = "none"
=============================================================================
