---------------------------- MODULE SavedAnalyses ----------------------------
(***************************************************************************)
(* The page of the saved analyses (apps/web, saved-analyses/page.tsx).     *)
(* Pausing a schedule and deleting are shown before the server has         *)
(* answered, a re-run only after; each puts the whole list back as it was  *)
(* before, if it fails.  Schedules are either active or paused.            *)
(***************************************************************************)
EXTENDS Naturals, FiniteSets

CONSTANTS
  Analyses,   \* the analyses saved
  MaxEdits    \* bound: requests of the user

Line(paused, status) == [paused |-> paused, status |-> status]
Deleted == Line(FALSE, "deleted")

VARIABLES
  saved,        \* the server: each analysis, or Deleted
  savedLoad,    \* the useResource: "sent", "answered", "ready", "error"
  savedFetched,
  analyses,     \* the list shown
  edits,        \* requests under way, by number: kind, analysis, the list
                \* before it, the analyses of those that overlapped it,
                \* its phase
  edited,       \* requests so far
  rerunning,    \* the analysis being re-run, or "none"
  asksDelete,   \* deleteConfirmId, or "none"
  (* Records the past for the properties; no guard reads it.               *)
  tangled       \* analyses whose request overlapped one for another that
                \* failed, that had two under way, or whose request was
                \* carried out and the answer lost

savedVars == <<saved, savedLoad, savedFetched, analyses, edits, edited, rerunning, asksDelete, tangled>>

NoEdits == [k \in {} |-> 0]
SavedScreen == CASE savedLoad = "error" -> "error"
                 [] savedLoad = "ready" -> "list"
                 [] OTHER -> "loading"
RowShown(a) == SavedScreen = "list" /\ analyses[a] # Deleted
EndEdit(k) == edits' = [j \in DOMAIN edits \ {k} |-> edits[j]]

SavedInit ==
  /\ saved \in [Analyses -> {Line(FALSE, "failed"), Line(TRUE, "succeeded")}]
  /\ savedLoad = "sent" /\ savedFetched = saved
  /\ analyses = [a \in Analyses |-> Deleted]
  /\ edits = NoEdits /\ edited = 0 /\ rerunning = "none" /\ asksDelete = "none"
  /\ tangled = {}

AnswerSaved ==
  /\ savedLoad = "sent"
  /\ \/ savedLoad' = "answered" /\ savedFetched' = saved
     \/ savedLoad' = "error" /\ UNCHANGED savedFetched
  /\ UNCHANGED <<saved, analyses, edits, edited, rerunning, asksDelete, tangled>>

ReceiveSaved ==
  /\ savedLoad = "answered"
  /\ savedLoad' = "ready" /\ analyses' = savedFetched
  /\ UNCHANGED <<saved, savedFetched, edits, edited, rerunning, asksDelete, tangled>>

RetrySaved ==
  /\ SavedScreen = "error" /\ savedLoad' = "sent"
  /\ UNCHANGED <<saved, savedFetched, analyses, edits, edited, rerunning, asksDelete, tangled>>

-----------------------------------------------------------------------------
(* The rows' buttons.                                                      *)

(* What an edit makes of a row, on the page and on the server; a pause     *)
(* sends the opposite of what the page shows.                              *)
Edited(kind, paused, row) ==
  CASE kind = "pause" -> [row EXCEPT !.paused = paused]
    [] kind = "delete" -> Deleted
    [] kind = "rerun" -> [row EXCEPT !.status = "succeeded"]

StartEdit(kind, a) ==
  /\ RowShown(a) /\ edited < MaxEdits
  /\ edited' = edited + 1
  /\ edits' = [k \in DOMAIN edits \cup {edited'} |->
       IF k \in DOMAIN edits THEN [edits[k] EXCEPT !.others = @ \cup {a}]
       ELSE [kind |-> kind, on |-> a, paused |-> ~analyses[a].paused, previous |-> analyses,
             others |-> {edits[j].on : j \in DOMAIN edits}, phase |-> "sent"]]
  /\ tangled' = IF \E k \in DOMAIN edits : edits[k].on = a THEN tangled \cup {a} ELSE tangled
  /\ UNCHANGED <<saved, savedLoad, savedFetched>>

TogglePause(a) ==
  /\ StartEdit("pause", a)
  /\ analyses' = [analyses EXCEPT ![a].paused = ~@]
  /\ UNCHANGED <<rerunning, asksDelete>>

(* The bin asks; another row's bin moves the question there.               *)
AskDelete(a) ==
  /\ RowShown(a) /\ asksDelete # a /\ asksDelete' = a
  /\ UNCHANGED <<saved, savedLoad, savedFetched, analyses, edits, edited, rerunning, tangled>>

KeepIt ==
  /\ asksDelete # "none" /\ asksDelete' = "none"
  /\ UNCHANGED <<saved, savedLoad, savedFetched, analyses, edits, edited, rerunning, tangled>>

DeleteSaved(a) ==
  /\ asksDelete = a /\ StartEdit("delete", a)
  /\ analyses' = [analyses EXCEPT ![a] = Deleted]
  /\ asksDelete' = "none"
  /\ UNCHANGED rerunning

(* One re-run at a time.                                                   *)
ReRun(a) ==
  /\ rerunning = "none" /\ StartEdit("rerun", a)
  /\ rerunning' = a
  /\ UNCHANGED <<analyses, asksDelete>>

(* The server does what it was asked, or refuses: what is gone, always.    *)
AnswerEdit(k) ==
  LET a == edits[k].on IN
    /\ edits[k].phase = "sent"
    /\ \/ saved[a] # Deleted
          /\ saved' = [saved EXCEPT ![a] = Edited(edits[k].kind, edits[k].paused, @)]
          /\ edits' = [edits EXCEPT ![k].phase = "made"]
       \/ edits' = [edits EXCEPT ![k].phase = "refused"] /\ UNCHANGED saved
    /\ UNCHANGED <<savedLoad, savedFetched, analyses, edited, rerunning, asksDelete, tangled>>

Ran(k) == rerunning' = IF edits[k].kind = "rerun" THEN "none" ELSE rerunning

EditMade(k) ==
  /\ edits[k].phase = "made" /\ EndEdit(k) /\ Ran(k)
  /\ analyses' = IF edits[k].kind = "rerun" /\ analyses[edits[k].on] # Deleted
                 THEN [analyses EXCEPT ![edits[k].on].status = "succeeded"] ELSE analyses
  /\ UNCHANGED <<saved, savedLoad, savedFetched, edited, asksDelete, tangled>>

(* What the failure of a request leaves in doubt: its analysis, if it was  *)
(* carried out, and those whose requests the rollback takes along.         *)
Caught(k) == edits[k].others \cup IF edits[k].phase = "made" THEN {edits[k].on} ELSE {}

KeepEdit(k) ==    \* mutant: the list is not put back
  /\ EndEdit(k) /\ Ran(k)
  /\ tangled' = tangled \cup Caught(k)
  /\ UNCHANGED <<saved, savedLoad, savedFetched, analyses, edited, asksDelete>>

(* The catch; the list of before comes back for a re-run, too.             *)
EditFails(k) ==
  /\ EndEdit(k) /\ Ran(k)
  /\ analyses' = edits[k].previous
  /\ tangled' = tangled \cup Caught(k)
  /\ UNCHANGED <<saved, savedLoad, savedFetched, edited, asksDelete>>

SavedNext ==
  \/ AnswerSaved \/ ReceiveSaved \/ RetrySaved \/ KeepIt
  \/ \E a \in Analyses : TogglePause(a) \/ AskDelete(a) \/ DeleteSaved(a) \/ ReRun(a)
  \/ \E k \in DOMAIN edits : AnswerEdit(k) \/ EditMade(k) \/ EditFails(k)

SavedSpec == SavedInit /\ [][SavedNext]_savedVars

-----------------------------------------------------------------------------
(* Properties.                                                             *)

SavedTypeOK ==
  LET Lines == [paused : BOOLEAN, status : {"failed", "succeeded", "deleted"}] IN
    /\ saved \in [Analyses -> Lines] /\ analyses \in [Analyses -> Lines]
    /\ savedLoad \in {"sent", "answered", "ready", "error"}
    /\ DOMAIN edits \subseteq 1..edited
    /\ rerunning \in Analyses \cup {"none"} /\ asksDelete \in Analyses \cup {"none"}

(* An analysis with no request under way is on the page what it is on the  *)
(* server, whatever requests for others overlap and fail: the rollback of  *)
(* a request puts its own row right.  Excepted are the analyses whose      *)
(* requests overlapped a failed one for another row, which its rollback    *)
(* undoes on the page only; two requests for one row at a time; and one    *)
(* carried out whose answer was lost.                                      *)
SavedIsServer ==
  SavedScreen = "list" =>
    \A a \in Analyses \ tangled :
      (\A k \in DOMAIN edits : edits[k].on # a) => analyses[a] = saved[a]
=============================================================================
