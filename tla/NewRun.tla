------------------------------- MODULE NewRun -------------------------------
(***************************************************************************)
(* The form of a new run (apps/web, runs/new/page.tsx).  It can be filled  *)
(* in before its workspaces, suggestions and limits have arrived, and each *)
(* arrival changes fields: the limits the rounds and the cost ceiling, the *)
(* workspaces the choice of one.  The ceiling follows the rounds through   *)
(* an effect until it is typed in.                                         *)
(*                                                                         *)
(* Modes, estimates and texts are left out.                                *)
(***************************************************************************)
EXTENDS Naturals

CONSTANTS
  Spaces,          \* the user's workspaces
  FallbackLimits,  \* DEFAULT_RESOURCE_LIMITS: rounds, cost, perRound, max
  ServerLimits,    \* the limits that the server sends
  Ceilings,        \* the costs that may be typed
  MaxRounds,       \* bound of the slider
  MaxRuns          \* bound: runs created

(* Each round has its price, and the default rounds are on the slider.     *)
ASSUME LimitsAssumption ==
  \A l \in {FallbackLimits, ServerLimits} :
    l.rounds \in 1..MaxRounds /\ l.cost \in Nat /\ l.perRound \in Nat \ {0}
ASSUME BoundsAssumption == MaxRounds \in Nat /\ MaxRuns \in Nat
ASSUME CeilingsAssumption == Ceilings \subseteq Nat

NoSpace == "no workspace"
NotTyped == {}

VARIABLES
  spacesReq,      \* the list's useResource: "sent", "ready", "failed"
  readySpaces,    \* which of them are ready for a run
  workspaceId,
  limitsApplied,  \* the server's limits have arrived, and were adopted
  maxRounds, maxCost, costTouched,
  question,       \* query: "empty", "typed" or "chip", the text of a suggestion
  suggestedFor,   \* the workspace whose suggestions are shown, or NoSpace
  submitting,     \* a createRun is under way: the workspace it is for
  created,        \* runs created
  pushed, left,   \* router.push was called; the page is left
  (* Records the past for the property; no guard reads it.                 *)
  typedCost       \* the set of the ceiling typed since the defaults were last
                  \* put in, if one was

spaceVars == <<spacesReq, readySpaces, workspaceId, suggestedFor>>
limitVars == <<limitsApplied, maxRounds, maxCost, costTouched, typedCost>>
submitVars == <<submitting, created, pushed, left>>
newRunVars == <<spaceVars, limitVars, question, submitVars>>

limits == IF limitsApplied THEN ServerLimits ELSE FallbackLimits
estimatedCap == maxRounds * limits.perRound
maxCostError == maxCost = 0 \/ maxCost > limits.max
submittable == question # "empty" /\ ~maxCostError
Idle == submitting = "none"

(* The form is replaced by an error while the list has failed.             *)
FormShown == spacesReq # "failed" /\ ~left

NewRunInit ==
  /\ readySpaces \in SUBSET Spaces /\ spacesReq = "sent"
  /\ workspaceId \in Spaces \cup {NoSpace} /\ suggestedFor = NoSpace
  /\ limitsApplied = FALSE /\ maxRounds = FallbackLimits.rounds
  /\ maxCost = FallbackLimits.rounds * FallbackLimits.perRound
  /\ costTouched = FALSE /\ typedCost = NotTyped
  /\ question = "empty"
  /\ submitting = "none" /\ created = 0 /\ pushed = FALSE /\ left = FALSE

-----------------------------------------------------------------------------
(* Workspaces and suggestions.                                             *)

(* The list arrives; without a workspace, a ready one is chosen.           *)
SpacesArrive ==
  /\ spacesReq = "sent" /\ ~left
  /\ \/ spacesReq' = "failed" /\ UNCHANGED workspaceId
     \/ /\ spacesReq' = "ready"
        /\ IF workspaceId = NoSpace /\ readySpaces # {}
           THEN workspaceId' \in readySpaces ELSE UNCHANGED workspaceId
  /\ UNCHANGED <<readySpaces, suggestedFor, limitVars, question, submitVars>>

RetrySpaces ==
  /\ spacesReq = "failed" /\ ~left /\ spacesReq' = "sent"
  /\ UNCHANGED <<readySpaces, workspaceId, suggestedFor, limitVars, question, submitVars>>

ChooseSpace(w) ==
  /\ FormShown /\ spacesReq = "ready" /\ w # workspaceId
  /\ workspaceId' = w /\ suggestedFor' = NoSpace
  /\ UNCHANGED <<spacesReq, readySpaces, limitVars, question, submitVars>>

(* The answer for a workspace that is no longer chosen is dropped.         *)
SuggestionsArrive ==
  /\ suggestedFor # workspaceId /\ workspaceId # NoSpace /\ ~left
  /\ suggestedFor' = workspaceId
  /\ UNCHANGED <<spacesReq, readySpaces, workspaceId, limitVars, question, submitVars>>

(* A chip is shown once its workspace's suggestions are there; typing away *)
(* from its text clears its mark.                                          *)
Suggested == suggestedFor = workspaceId /\ workspaceId # NoSpace

AskQuestion(q) ==
  /\ FormShown /\ q # question
  /\ q = "chip" => Suggested
  /\ question' = q
  /\ UNCHANGED <<spaceVars, limitVars, submitVars>>

-----------------------------------------------------------------------------
(* Rounds and the cost ceiling.                                            *)

(* The effect behind a change of the rounds, the limits or costTouched: it *)
(* runs when the cap or costTouched differs from the last time.            *)
FollowCap(ran) == maxCost' = IF ran /\ ~costTouched' THEN estimatedCap' ELSE limits'.cost

IgnoreTouched(r) ==    \* mutant: the effect does not look at costTouched
  /\ FormShown /\ maxRounds' = r
  /\ UNCHANGED <<limitsApplied, costTouched, typedCost, spaceVars, question, submitVars>>
  /\ maxCost' = IF estimatedCap' # estimatedCap THEN estimatedCap' ELSE maxCost

SlideRounds(r) ==
  /\ FormShown /\ maxRounds' = r
  /\ UNCHANGED <<limitsApplied, costTouched, typedCost, spaceVars, question, submitVars>>
  /\ maxCost' = IF estimatedCap' # estimatedCap /\ ~costTouched THEN estimatedCap' ELSE maxCost

TypeCost(c) ==
  /\ FormShown
  /\ maxCost' = c /\ costTouched' = TRUE /\ typedCost' = {c}
  /\ UNCHANGED <<limitsApplied, maxRounds, spaceVars, question, submitVars>>

(* The adopted defaults overwrite a typed ceiling, which stays marked as   *)
(* typed; the effect sees the new limits first, then the new rounds.       *)
LimitsArrive ==
  /\ ~limitsApplied /\ ~left
  /\ limitsApplied' = TRUE /\ maxRounds' = ServerLimits.rounds
  /\ typedCost' = NotTyped
  /\ UNCHANGED <<costTouched, spaceVars, question, submitVars>>
  /\ LET between == maxRounds * ServerLimits.perRound
     IN  FollowCap(estimatedCap # between \/ between # estimatedCap')

ResetToRecommended ==
  /\ FormShown
  /\ maxRounds' = limits.rounds /\ costTouched' = FALSE /\ typedCost' = NotTyped
  /\ UNCHANGED <<limitsApplied, spaceVars, question, submitVars>>
  /\ FollowCap(estimatedCap' # estimatedCap \/ costTouched)

-----------------------------------------------------------------------------
(* handleSubmit.  The workspace is not looked at: the server refuses a run *)
(* without one.  The button is free again before the page is left.         *)

SubmitRun ==
  /\ FormShown /\ Idle /\ submittable /\ created < MaxRuns
  /\ submitting' = workspaceId
  /\ UNCHANGED <<spaceVars, limitVars, question, created, pushed, left>>

SubmitAnswered ==
  /\ ~Idle /\ submitting' = "none"
  /\ \/ submitting # NoSpace /\ created' = created + 1 /\ pushed' = TRUE
     \/ UNCHANGED <<created, pushed>>
  /\ UNCHANGED <<spaceVars, limitVars, question, left>>

Leave ==
  /\ pushed /\ ~left /\ left' = TRUE
  /\ UNCHANGED <<spaceVars, limitVars, question, submitting, created, pushed>>

NewRunNext ==
  \/ SpacesArrive \/ RetrySpaces \/ SuggestionsArrive
  \/ \E w \in Spaces : ChooseSpace(w)
  \/ \E q \in {"empty", "typed", "chip"} : AskQuestion(q)
  \/ \E r \in 1..MaxRounds : SlideRounds(r)
  \/ \E c \in Ceilings : TypeCost(c)
  \/ LimitsArrive \/ ResetToRecommended
  \/ SubmitRun \/ SubmitAnswered \/ Leave

NewRunSpec == NewRunInit /\ [][NewRunNext]_newRunVars

-----------------------------------------------------------------------------
(* Properties.                                                             *)

NewRunTypeOK ==
  /\ workspaceId \in Spaces \cup {NoSpace} /\ suggestedFor \in Spaces \cup {NoSpace}
  /\ maxRounds \in 1..MaxRounds /\ maxCost \in Nat /\ costTouched \in BOOLEAN
  /\ submitting \in Spaces \cup {NoSpace, "none"} /\ created \in 0..MaxRuns

(* A ceiling the user typed is the one in the form, whatever the slider    *)
(* does, until the defaults are put in over it.  One that was not touched  *)
(* is the cap of the rounds, or the default with the default rounds.       *)
CeilingKept ==
  /\ typedCost # NotTyped => typedCost = {maxCost} /\ costTouched
  /\ ~costTouched =>
       \/ maxCost = estimatedCap
       \/ maxRounds = limits.rounds /\ maxCost = limits.cost
=============================================================================
