---------------------------- MODULE NewWorkspace ----------------------------
(***************************************************************************)
(* The page of all workspaces and its "New workspace" dialog (apps/web,    *)
(* workspaces/page.tsx, NewWorkspaceModal.tsx, UploadDropzone.tsx without  *)
(* a workspace).                                                           *)
(*                                                                         *)
(* Creating takes several requests: the workspace, then each staged file;  *)
(* the row is added when all are answered.  The dialog can be closed,      *)
(* opened again and edited meanwhile.                                      *)
(***************************************************************************)
EXTENDS Naturals, Sequences, SequencesExt

CONSTANTS
  Staging,        \* bound: files the user may drop, each for one workspace
  MaxWorkspaces   \* bound: workspaces the server creates

NoCreation == [phase |-> "none", files |-> <<>>, ws |-> 0]

VARIABLES
  wsFiles,    \* the server: the files of each workspace it created, in order
  wsList,     \* status of the list's useResource
  wsFetched,  \* the list the server answered
  wsRows,     \* rows of the table: workspace and file count
  modalOpen,
  zoneRows,   \* rows of the dialog's upload zone
  stagedFiles,
  creation,   \* handleSubmit / handleCreated under way: `creating`
  modalError,
  (* Record the past for the properties; no guard reads them.              *)
  orphans,    \* workspaces the server created in a creation that failed
  listCrossed,\* the list was loading while a workspace was being created
  zoneStray,  \* the zone's rows are not the staged files
  late        \* files dropped while a workspace was being created

wsPage == <<wsList, wsFetched, wsRows>>
dialogVars == <<modalOpen, zoneRows, stagedFiles>>
wsNotes == <<orphans, listCrossed, zoneStray, late>>
newVars == <<wsFiles, wsPage, dialogVars, creation, modalError, wsNotes>>

ServerRows == Reverse([w \in DOMAIN wsFiles |-> [ws |-> w, count |-> Len(wsFiles[w])]])
Droppable(f) == f \notin Range(stagedFiles) /\ \A w \in DOMAIN wsFiles : f \notin Range(wsFiles[w])
creating == creation.phase # "none"

NewInit ==
  /\ wsFiles = <<>> /\ wsList = "loading" /\ wsFetched = <<>> /\ wsRows = <<>>
  /\ modalOpen = FALSE /\ zoneRows = <<>> /\ stagedFiles = <<>>
  /\ creation = NoCreation /\ modalError = FALSE
  /\ orphans = {} /\ listCrossed = FALSE /\ zoneStray = FALSE /\ late = {}

AnswerWorkspaces ==
  /\ wsList = "loading"
  /\ wsList' = "answered" /\ wsFetched' = ServerRows
  /\ UNCHANGED <<wsFiles, wsRows, dialogVars, creation, modalError, wsNotes>>

(* The list that arrives replaces the rows.                                *)
MirrorList ==
  /\ wsList = "answered"
  /\ wsList' = "ready" /\ wsRows' = wsFetched
  /\ UNCHANGED <<wsFiles, wsFetched, dialogVars, creation, modalError, wsNotes>>

ListFails ==
  /\ wsList = "loading" /\ wsList' = "error"
  /\ UNCHANGED <<wsFiles, wsFetched, wsRows, dialogVars, creation, modalError, wsNotes>>

RetryList ==
  /\ wsList = "error" /\ wsList' = "loading"
  /\ listCrossed' = (listCrossed \/ creating)
  /\ UNCHANGED <<wsFiles, wsFetched, wsRows, dialogVars, creation, modalError, orphans, zoneStray, late>>

OpenModal ==
  /\ ~modalOpen /\ modalOpen' = TRUE
  /\ UNCHANGED <<wsFiles, wsPage, zoneRows, stagedFiles, creation, modalError, wsNotes>>

(* Closing unmounts the zone; the dialog keeps its staged files.           *)
CloseModal ==
  /\ modalOpen /\ modalOpen' = FALSE /\ zoneRows' = <<>>
  /\ zoneStray' = (zoneStray \/ stagedFiles # <<>>)
  /\ UNCHANGED <<wsFiles, wsPage, stagedFiles, creation, modalError, orphans, listCrossed, late>>

(* A file dropped with no workspace to upload into is held for the caller. *)
StageLast(f) ==    \* mutant: a second drop replaces the first
  /\ modalOpen /\ Droppable(f)
  /\ zoneRows' = Append(zoneRows, f) /\ stagedFiles' = <<f>>
  /\ late' = IF creating THEN late \cup {f} ELSE late
  /\ UNCHANGED <<wsFiles, wsPage, modalOpen, creation, modalError, orphans, listCrossed, zoneStray>>

Stage(f) ==
  /\ modalOpen /\ Droppable(f)
  /\ zoneRows' = Append(zoneRows, f) /\ stagedFiles' = Append(stagedFiles, f)
  /\ late' = IF creating THEN late \cup {f} ELSE late
  /\ UNCHANGED <<wsFiles, wsPage, modalOpen, creation, modalError, orphans, listCrossed, zoneStray>>

(* The zone's X removes its row and nothing else.                          *)
RemoveStaged(i) ==
  /\ modalOpen /\ i \in DOMAIN zoneRows
  /\ zoneRows' = RemoveAt(zoneRows, i) /\ zoneStray' = TRUE
  /\ UNCHANGED <<wsFiles, wsPage, modalOpen, stagedFiles, creation, modalError, orphans, listCrossed, late>>

(* handleSubmit with a name; the files are those staged at this moment.    *)
Submit ==
  /\ modalOpen /\ ~creating
  /\ creation' = [phase |-> "create", files |-> stagedFiles, ws |-> 0]
  /\ modalError' = FALSE
  /\ listCrossed' = (listCrossed \/ wsList \in {"loading", "answered"})
  /\ UNCHANGED <<wsFiles, wsPage, dialogVars, orphans, zoneStray, late>>

CreateWorkspace ==
  /\ creation.phase = "create" /\ Len(wsFiles) < MaxWorkspaces
  /\ wsFiles' = Append(wsFiles, <<>>)
  /\ creation' = [creation EXCEPT !.phase = "upload", !.ws = Len(wsFiles) + 1]
  /\ UNCHANGED <<wsPage, dialogVars, modalError, wsNotes>>

(* One staged file after the other, each awaited.                          *)
UploadStaged ==
  /\ creation.phase = "upload" /\ creation.files # <<>>
  /\ wsFiles' = [wsFiles EXCEPT ![creation.ws] = Append(@, Head(creation.files))]
  /\ creation' = [creation EXCEPT !.files = Tail(@)]
  /\ UNCHANGED <<wsPage, dialogVars, modalError, wsNotes>>

(* A request may be refused or not arrive: the dialog keeps what it has    *)
(* and shows the error; a workspace already created stays.                 *)
CreationFails ==
  /\ creating /\ (creation.phase = "upload" => creation.files # <<>>)
  /\ creation' = NoCreation /\ modalError' = TRUE /\ late' = {}
  /\ orphans' = IF creation.ws = 0 THEN orphans ELSE orphans \cup {creation.ws}
  /\ UNCHANGED <<wsFiles, wsPage, dialogVars, listCrossed, zoneStray>>

(* Or carried out and its answer lost: the dialog learns of a failure, and *)
(* the server has the workspace, or the file, all the same.                *)
CreationUnheard ==
  /\ \/ /\ creation.phase = "create" /\ Len(wsFiles) < MaxWorkspaces
        /\ wsFiles' = Append(wsFiles, <<>>)
        /\ orphans' = orphans \cup {Len(wsFiles) + 1}
     \/ /\ creation.phase = "upload" /\ creation.files # <<>>
        /\ wsFiles' = [wsFiles EXCEPT ![creation.ws] = Append(@, Head(creation.files))]
        /\ orphans' = orphans \cup {creation.ws}
  /\ creation' = NoCreation /\ modalError' = TRUE /\ late' = {}
  /\ UNCHANGED <<wsPage, dialogVars, listCrossed, zoneStray>>

PrependEmpty ==    \* mutant: the row counts the files of the answer only
  /\ creation.phase = "upload" /\ creation.files = <<>>
  /\ wsRows' = <<[ws |-> creation.ws, count |-> 0]>> \o wsRows
  /\ creation' = NoCreation
  /\ modalOpen' = FALSE /\ zoneRows' = <<>> /\ stagedFiles' = <<>> /\ zoneStray' = FALSE /\ late' = {}
  /\ UNCHANGED <<wsFiles, wsList, wsFetched, modalError, orphans, listCrossed>>

(* All answered: the row is prepended, the dialog emptied and closed.      *)
Created ==
  /\ creation.phase = "upload" /\ creation.files = <<>>
  /\ wsRows' = <<[ws |-> creation.ws, count |-> Len(wsFiles[creation.ws])]>> \o wsRows
  /\ creation' = NoCreation
  /\ modalOpen' = FALSE /\ zoneRows' = <<>> /\ stagedFiles' = <<>> /\ zoneStray' = FALSE /\ late' = {}
  /\ UNCHANGED <<wsFiles, wsList, wsFetched, modalError, orphans, listCrossed>>

NewNext ==
  \/ AnswerWorkspaces \/ MirrorList \/ ListFails \/ RetryList
  \/ OpenModal \/ CloseModal \/ Submit
  \/ \E f \in Staging : Stage(f)
  \/ \E i \in DOMAIN zoneRows : RemoveStaged(i)
  \/ CreateWorkspace \/ UploadStaged \/ CreationFails \/ CreationUnheard \/ Created

NewSpec == NewInit /\ [][NewNext]_newVars

-----------------------------------------------------------------------------
(* Properties.                                                             *)

NewTypeOK ==
  /\ \A w \in DOMAIN wsFiles : \A i \in DOMAIN wsFiles[w] : wsFiles[w][i] \in Staging
  /\ wsList \in {"loading", "answered", "ready", "error"}
  /\ \A i \in DOMAIN wsRows : wsRows[i].ws \in DOMAIN wsFiles
  /\ modalOpen \in BOOLEAN /\ modalError \in BOOLEAN
  /\ creation.phase \in {"none", "create", "upload"}
  /\ creation.ws \in 0..Len(wsFiles)
  /\ orphans \subseteq DOMAIN wsFiles

(* Once the list is in and nothing is under way, the table holds each      *)
(* workspace once, the newest first, with the number of files the server   *)
(* holds for it, save one whose creation failed after the server had made  *)
(* it: one of its uploads was refused, or an answer on the way was lost.   *)
(* Excepted is a list that was loading while a workspace was being         *)
(* created: that workspace's row may be dropped or doubled.                *)
TableIsServer ==
  LET Whole(rows) == {row \in Range(rows) : row.ws \notin orphans} IN
    wsList = "ready" /\ ~creating /\ ~listCrossed =>
      /\ Whole(wsRows) = Whole(ServerRows)
      /\ \A i, j \in DOMAIN wsRows : i < j => wsRows[i].ws > wsRows[j].ws

(* When the dialog reports success, the new workspace holds the files that *)
(* were staged, except those dropped while it was being created: they are  *)
(* discarded.  They are also the files its zone showed, unless a row was   *)
(* removed there or the dialog was closed with files in it: such files go  *)
(* up though no row shows them.                                            *)
DialogDelivers ==
  [][creating /\ creation' = NoCreation /\ ~modalError' =>
       LET up == Range(wsFiles[creation.ws]) IN
         /\ Range(stagedFiles) \ late \subseteq up
         /\ zoneStray \/ Range(zoneRows) = up \cup late]_newVars
=============================================================================
