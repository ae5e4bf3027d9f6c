--------------------------- MODULE AgentDefaults ---------------------------
(***************************************************************************)
(* The page of the agent defaults (apps/web, settings/agent-defaults/      *)
(* page.tsx, SaveButton.tsx) against the API's settings_service.py.        *)
(*                                                                         *)
(* Saving and resetting share one flag, so they can overlap; for both the  *)
(* API writes the limits before the model of the tier, each by itself, and *)
(* may fail between the two; and a provider removed on another page takes  *)
(* its model out of the tier.  The run limits stand for all numbers, one   *)
(* tier for both.                                                          *)
(***************************************************************************)
EXTENDS Naturals, Sequences, SequencesExt

CONSTANTS
  Limits,     \* values of the run limits
  Default,    \* the recommended one
  MaxSaves    \* bound: saves under way at once

ASSUME DefaultAssumption == Default \in Limits

(* A tier's model: chosen, none, or its connection set to null.            *)
Assigned == "chosen"
Unset == "unset"
Gone == "gone"

Settings(l, t) == [limits |-> l, tier |-> t]
Recommended == Settings(Default, Unset)
None == [limits |-> Default, tier |-> "none"]

VARIABLES
  defaults,    \* the server's row and assignment
  connected,   \* the server has the provider's connection
  defLoad,     \* fetchSettings: "sent", "answered", "ready", "failed"
  defAnswer,   \* its answer
  defError,    \* the page's error, never cleared
  settings,    \* the server's last answer, or None
  values,      \* the form, or None
  isSaving,
  resetting,   \* the reset's question is shown
  saves,       \* saves under way: what was sent, phase, answer
  reset,       \* the reset under way: phase, answer
  saveError,
  (* Record the past for the properties; no guard reads them.              *)
  overlapped,  \* two of saves and reset were under way together
  unseen       \* the server changed and the page was not told

loadVars == <<defLoad, defAnswer, defError>>
formVars == <<settings, values, resetting, saveError>>
requestVars == <<isSaving, saves, reset>>
defNotes == <<overlapped, unseen>>
defaultsVars == <<defaults, connected, loadVars, formVars, requestVars, defNotes>>

NoReset == [phase |-> "none", answer |-> None]
DefaultsScreen ==
  IF defError THEN "error" ELSE IF defLoad # "ready" THEN "loading" ELSE "page"

(* What the form starts from: assignments without a connection are left    *)
(* out, so a tier whose provider is gone counts as changed at once.        *)
FromServer(s) == Settings(s.limits, IF s.tier = Gone THEN Unset ELSE s.tier)
isDirty == settings # values

DefaultsInit ==
  /\ defaults \in [limits : Limits, tier : {Assigned, Unset, Gone}]
  /\ connected \in BOOLEAN /\ (defaults.tier = Assigned => connected)
  /\ defLoad = "sent" /\ defAnswer = None /\ defError = FALSE
  /\ settings = None /\ values = None
  /\ isSaving = FALSE /\ resetting = FALSE /\ saves = <<>> /\ reset = NoReset
  /\ saveError = FALSE
  /\ overlapped = FALSE /\ unseen = FALSE

-----------------------------------------------------------------------------
(* Loading.                                                                *)

AnswerDefaults ==
  /\ defLoad = "sent"
  /\ defLoad' = "answered" /\ defAnswer' = defaults
  /\ UNCHANGED <<defaults, connected, defError, formVars, requestVars, defNotes>>

ShowDefaults ==
  /\ defLoad = "answered"
  /\ defLoad' = "ready" /\ settings' = defAnswer /\ values' = FromServer(defAnswer)
  /\ defAnswer' = None
  /\ UNCHANGED <<defaults, connected, defError, resetting, saveError, requestVars, defNotes>>

DefaultsFail ==
  /\ defLoad = "sent"
  /\ defLoad' = "failed" /\ defError' = TRUE
  /\ UNCHANGED <<defaults, connected, defAnswer, formVars, requestVars, defNotes>>

(* "Try again" asks again; the error stays.                                *)
RetryDefaults ==
  /\ DefaultsScreen = "error" /\ defLoad \in {"failed", "ready"}
  /\ defLoad' = "sent" /\ unseen' = FALSE
  /\ UNCHANGED <<defaults, connected, defAnswer, defError, formVars, requestVars, overlapped>>

(* On the API Keys page: the connection's row goes, its assignments are    *)
(* set to null.                                                            *)
RemoveProvider ==
  /\ connected /\ connected' = FALSE
  /\ defaults' = [defaults EXCEPT !.tier = IF @ = Assigned THEN Gone ELSE @]
  /\ unseen' = TRUE
  /\ UNCHANGED <<loadVars, formVars, requestVars, overlapped>>

-----------------------------------------------------------------------------
(* The form.                                                               *)

SetLimits(l) ==
  /\ DefaultsScreen = "page" /\ l # values.limits
  /\ values' = [values EXCEPT !.limits = l]
  /\ UNCHANGED <<defaults, connected, loadVars, settings, resetting, saveError, requestVars, defNotes>>

setAssignment ==
  /\ DefaultsScreen = "page" /\ values.tier # Assigned
  /\ values' = [values EXCEPT !.tier = Assigned]
  /\ UNCHANGED <<defaults, connected, loadVars, settings, resetting, saveError, requestVars, defNotes>>

Save ==
  /\ DefaultsScreen = "page" /\ isDirty /\ ~isSaving /\ Len(saves) < MaxSaves
  /\ isSaving' = TRUE
  /\ saves' = Append(saves, [sent |-> values, phase |-> "sent", answer |-> None])
  /\ overlapped' = (overlapped \/ saves # <<>> \/ reset.phase # "none")
  /\ UNCHANGED <<defaults, connected, loadVars, formVars, reset, unseen>>

(* update_agent_defaults writes the limits, and then the assignment if one *)
(* was sent, each by a request to the database and with no transaction     *)
(* around them; it answers with what it reads afterwards.  An assignment   *)
(* to a connection that is gone cannot be written.                         *)
StoreLimits(i) ==
  /\ saves[i].phase = "sent"
  /\ defaults' = [defaults EXCEPT !.limits = saves[i].sent.limits]
  /\ saves' = [saves EXCEPT ![i].phase = "half"]
  /\ UNCHANGED <<connected, loadVars, formVars, isSaving, reset, defNotes>>

StoreTier(i) ==
  /\ saves[i].phase = "half"
  /\ \/ saves[i].sent.tier # Assigned /\ UNCHANGED defaults
     \/ saves[i].sent.tier = Assigned /\ connected /\ defaults' = [defaults EXCEPT !.tier = Assigned]
  /\ saves' = [saves EXCEPT ![i].phase = "stored", ![i].answer = defaults']
  /\ UNCHANGED <<connected, loadVars, formVars, isSaving, reset, defNotes>>

MarkClean(i) ==    \* mutant: the form's present values count as saved
  /\ saves[i].phase = "stored"
  /\ settings' = values /\ saveError' = FALSE
  /\ isSaving' = FALSE /\ saves' = RemoveAt(saves, i)
  /\ UNCHANGED <<defaults, connected, loadVars, values, resetting, reset, defNotes>>

(* handleSave's end.                                                       *)
Saved(i) ==
  /\ saves[i].phase = "stored"
  /\ settings' = saves[i].answer /\ saveError' = FALSE
  /\ isSaving' = FALSE /\ saves' = RemoveAt(saves, i)
  /\ UNCHANGED <<defaults, connected, loadVars, values, resetting, reset, defNotes>>

(* Refused at once, failed between the writes, or stored and the answer    *)
(* lost.  The error is shown, and the button, which awaited the handler    *)
(* that caught it, says "Changes saved" as well (its note is not kept).     *)
SaveFails(i) ==
  /\ saveError' = TRUE
  /\ isSaving' = FALSE /\ saves' = RemoveAt(saves, i)
  /\ unseen' = (unseen \/ saves[i].phase # "sent")
  /\ UNCHANGED <<defaults, connected, loadVars, settings, values, resetting, reset, overlapped>>

AskReset ==
  /\ DefaultsScreen = "page" /\ resetting' = ~resetting
  /\ UNCHANGED <<defaults, connected, loadVars, settings, values, saveError, requestVars, defNotes>>

(* The question's button stays enabled while a save is under way.  A       *)
(* second click would only send the same again.                            *)
Reset ==
  /\ DefaultsScreen = "page" /\ resetting /\ reset.phase = "none"
  /\ isSaving' = TRUE /\ reset' = [phase |-> "sent", answer |-> None]
  /\ overlapped' = (overlapped \/ saves # <<>>)
  /\ UNCHANGED <<defaults, connected, loadVars, formVars, saves, unseen>>

(* reset_agent_defaults likewise writes the limits, then deletes the       *)
(* assignments.                                                            *)
ResetLimits ==
  /\ reset.phase = "sent"
  /\ defaults' = [defaults EXCEPT !.limits = Default]
  /\ reset' = [reset EXCEPT !.phase = "half"]
  /\ UNCHANGED <<connected, loadVars, formVars, isSaving, saves, defNotes>>

ResetTier ==
  /\ reset.phase = "half"
  /\ defaults' = [defaults EXCEPT !.tier = Unset]
  /\ reset' = [phase |-> "stored", answer |-> defaults']
  /\ UNCHANGED <<connected, loadVars, formVars, isSaving, saves, defNotes>>

ResetDone ==
  /\ reset.phase = "stored"
  /\ settings' = reset.answer /\ values' = Settings(reset.answer.limits, Unset)
  /\ saveError' = FALSE /\ isSaving' = FALSE /\ resetting' = FALSE /\ reset' = NoReset
  /\ UNCHANGED <<defaults, connected, loadVars, saves, defNotes>>

ResetFails ==
  /\ reset.phase # "none"
  /\ saveError' = TRUE /\ isSaving' = FALSE /\ resetting' = FALSE /\ reset' = NoReset
  /\ unseen' = (unseen \/ reset.phase # "sent")
  /\ UNCHANGED <<defaults, connected, loadVars, settings, values, saves, overlapped>>

DefaultsNext ==
  \/ AnswerDefaults \/ ShowDefaults \/ DefaultsFail \/ RetryDefaults \/ RemoveProvider
  \/ \E l \in Limits : SetLimits(l)
  \/ setAssignment \/ Save
  \/ \E i \in DOMAIN saves : StoreLimits(i) \/ StoreTier(i) \/ Saved(i) \/ SaveFails(i)
  \/ AskReset \/ Reset \/ ResetLimits \/ ResetTier \/ ResetDone \/ ResetFails

DefaultsSpec == DefaultsInit /\ [][DefaultsNext]_defaultsVars

-----------------------------------------------------------------------------
(* Properties.                                                             *)

DefaultsTypeOK ==
  /\ defaults \in [limits : Limits, tier : {Assigned, Unset, Gone}]
  /\ defLoad \in {"sent", "answered", "ready", "failed"}
  /\ DefaultsScreen = "page" => values \in [limits : Limits, tier : {Assigned, Unset}]
  /\ \A i \in DOMAIN saves : saves[i].phase \in {"sent", "half", "stored"}
  /\ reset.phase \in {"none", "sent", "half", "stored"}

(* A form whose buttons say there is nothing to save shows what the server *)
(* holds, once nothing is under way; unless saves and resets overlapped,   *)
(* or the server changed and the page was not told: by a removed provider, *)
(* by a save or a reset that failed after it had written the limits, by a  *)
(* lost answer.                                                            *)
CleanFormIsServer ==
  DefaultsScreen = "page" /\ ~isDirty /\ saves = <<>> /\ reset.phase = "none"
    /\ ~overlapped /\ ~unseen => values = defaults
=============================================================================
