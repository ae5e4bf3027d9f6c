------------------------- MODULE DescriptionDrawer -------------------------
(***************************************************************************)
(* The drawer that describes one file of a workspace (apps/web,            *)
(* DescriptionDrawer.tsx), opened from a row of the grid.  It stays        *)
(* mounted when it is closed or given another file, so the answer to a     *)
(* "Re-analyze" may find it on another file than the one it asked for.     *)
(***************************************************************************)
EXTENDS Naturals, FiniteSets

CONSTANTS
  Described,     \* the files of the grid
  MaxAnalyses    \* bound: analyses of one file

ASSUME AnalysesAssumption == MaxAnalyses \in Nat \ {0}

NoFile == [file |-> "no file", version |-> 0]

VARIABLES
  analysis,    \* the server: how often each file was analyzed
  drawerFile,  \* the file the drawer is open on, or NoFile.file
  fetch,       \* the useResource of its description: "idle", "loading",
               \* "answered", "ready", "error"
  fetchedDesc, \* what the server answered to it
  description, \* the description shown
  reanalysis,  \* the request of handleReanalyze: file, phase, answer
  (* Record the past for the properties; no guard reads them.              *)
  moved,       \* it was opened or closed with a reanalysis under way,
               \* or opened with an answer that came while it was closed
  raced,       \* its fetch and a reanalysis were under way together
  unheard      \* the last reanalysis since it was opened was carried out
               \* and its answer lost

NoReanalysis == [file |-> NoFile.file, phase |-> "none", version |-> 0]
drawerVars == <<analysis, drawerFile, fetch, fetchedDesc, description, reanalysis, moved, raced, unheard>>

reanalyzing == reanalysis.phase # "none"
Fetching == fetch \in {"loading", "answered"}
Describe(f) == [file |-> f, version |-> analysis[f]]

(* The mark on the analyzer script and the blur of its text.               *)
scriptStatus ==
  IF fetch = "loading" \/ fetch = "answered" \/ reanalyzing THEN "validating"
  ELSE IF description = NoFile THEN "error" ELSE "verified"

DrawerInit ==
  /\ analysis \in [Described -> 0..1]
  /\ drawerFile = NoFile.file /\ fetch = "idle"
  /\ fetchedDesc = NoFile /\ description = NoFile
  /\ reanalysis = NoReanalysis /\ moved = FALSE /\ raced = FALSE /\ unheard = FALSE

KeepDescription(f) ==    \* mutant: the old description stays until the answer
  /\ f # drawerFile
  /\ drawerFile' = f /\ fetch' = "loading" /\ fetchedDesc' = NoFile
  /\ moved' = reanalyzing /\ raced' = reanalyzing /\ unheard' = FALSE
  /\ UNCHANGED <<analysis, description, reanalysis>>

(* A row is clicked: the resource starts over for the new file and what    *)
(* the drawer showed is dropped, but for an answer that came while it was  *)
(* closed: nothing was fetched then, so the effect may find no change.     *)
OpenFile(f) ==
  /\ f # drawerFile
  /\ drawerFile' = f /\ fetch' = "loading" /\ fetchedDesc' = NoFile
  /\ description' \in {NoFile} \cup (IF drawerFile = NoFile.file THEN {description} ELSE {})
  /\ moved' = (reanalyzing \/ description' # NoFile) /\ raced' = reanalyzing /\ unheard' = FALSE
  /\ UNCHANGED <<analysis, reanalysis>>

CloseDrawer ==
  /\ drawerFile # NoFile.file
  /\ drawerFile' = NoFile.file /\ fetch' = "idle" /\ fetchedDesc' = NoFile /\ description' = NoFile
  /\ moved' = reanalyzing /\ raced' = reanalyzing /\ unheard' = FALSE
  /\ UNCHANGED <<analysis, reanalysis>>

AnswerDescription ==
  /\ fetch = "loading"
  /\ \/ fetch' = "answered" /\ fetchedDesc' = Describe(drawerFile)
     \/ fetch' = "error" /\ UNCHANGED fetchedDesc
  /\ UNCHANGED <<analysis, drawerFile, description, reanalysis, moved, raced, unheard>>

ReceiveDescription ==
  /\ fetch = "answered"
  /\ fetch' = "ready" /\ description' = fetchedDesc
  /\ UNCHANGED <<analysis, drawerFile, fetchedDesc, reanalysis, moved, raced, unheard>>

Reanalyze ==
  /\ drawerFile # NoFile.file /\ ~reanalyzing
  /\ reanalysis' = [file |-> drawerFile, phase |-> "sent", version |-> 0]
  /\ raced' = (raced \/ Fetching)
  /\ UNCHANGED <<analysis, drawerFile, fetch, fetchedDesc, description, moved, unheard>>

AnswerReanalysis ==
  /\ reanalysis.phase = "sent" /\ analysis[reanalysis.file] < MaxAnalyses
  /\ analysis' = [analysis EXCEPT ![reanalysis.file] = @ + 1]
  /\ reanalysis' = [reanalysis EXCEPT !.phase = "answered", !.version = analysis[reanalysis.file] + 1]
  /\ UNCHANGED <<drawerFile, fetch, fetchedDesc, description, moved, raced, unheard>>

(* The answer is shown whatever file the drawer is on by now.              *)
ReceiveReanalysis ==
  /\ reanalysis.phase = "answered"
  /\ description' = [file |-> reanalysis.file, version |-> reanalysis.version]
  /\ reanalysis' = NoReanalysis /\ unheard' = FALSE
  /\ UNCHANGED <<analysis, drawerFile, fetch, fetchedDesc, moved, raced>>

(* Refused, or carried out and the answer lost: the catch keeps what is on *)
(* screen.                                                                 *)
ReanalysisFails ==
  /\ reanalyzing
  /\ reanalysis' = NoReanalysis
  /\ unheard' = (unheard \/ reanalysis.phase = "answered")
  /\ UNCHANGED <<analysis, drawerFile, fetch, fetchedDesc, description, moved, raced>>

DrawerNext ==
  \/ \E f \in Described : OpenFile(f)
  \/ CloseDrawer \/ AnswerDescription \/ ReceiveDescription
  \/ Reanalyze \/ AnswerReanalysis \/ ReceiveReanalysis \/ ReanalysisFails

DrawerSpec == DrawerInit /\ [][DrawerNext]_drawerVars

-----------------------------------------------------------------------------
(* Properties.                                                             *)

DrawerTypeOK ==
  /\ analysis \in [Described -> 0..MaxAnalyses]
  /\ drawerFile \in Described \cup {NoFile.file}
  /\ fetch \in {"idle", "loading", "answered", "ready", "error"}
  /\ \A d \in {description, fetchedDesc} : d.file \in Described \cup {NoFile.file}
  /\ scriptStatus \in {"validating", "verified", "error"}

(* The description under a file's name is that file's, unless the drawer   *)
(* was put on it while the reanalysis of another was under way: that       *)
(* answer is shown under the new name.  A script marked as executed is the *)
(* server's newest: nothing is under way, no fetch overlapped a            *)
(* reanalysis, whose answers may arrive in either order, and the last      *)
(* reanalysis was not carried out unheard, when the older script stays     *)
(* and is marked as before.                                                *)
ShowsOwnNewest ==
  /\ ~moved => description = NoFile \/ description.file = drawerFile
  /\ scriptStatus = "verified" /\ ~raced /\ ~moved /\ ~unheard =>
       description.version = analysis[description.file]
=============================================================================
