--------------------------- MODULE WorkspaceFiles ---------------------------
(***************************************************************************)
(* The page of one workspace (apps/web, workspaces/[workspaceId]/page.tsx) *)
(* with its upload zone (UploadDropzone.tsx) against the server.           *)
(*                                                                         *)
(* The page keeps a local copy of the file list: the answers to uploads    *)
(* and to "Analyze pending" edit it, in the order they arrive.  A request  *)
(* is sent, answered by the server and received in three steps.            *)
(***************************************************************************)
EXTENDS Naturals, Sequences, FiniteSets, SequencesExt

CONSTANT Uploads    \* bound: files the user may drop, each once

ASSUME UploadsAssumption == IsFiniteSet(Uploads)

Loads == {"workspace", "list"}    \* the page's two useResource calls
Absent == "absent"

VARIABLES
  stored,     \* the server's rows: status of each file, or Absent
  load,       \* status of each useResource
  fetched,    \* the list the server answered, until it is received
  files,      \* rows of the grid
  ingest,     \* the "Analyze pending" request: "none", "sent", "answered"
  ingestList, \* its answer
  entries,    \* rows of the upload zone
  slot,       \* the index each upload's patch writes to
  upload,     \* each upload's request
  (* Record the past for the properties; no guard reads them.              *)
  shifted,    \* a row was removed below or at an unfinished upload's index
  crossed,    \* an upload and an ingestion were under way together
  lost        \* files the server keeps though their upload seemed to fail

pageVars == <<load, fetched, files>>
ingestVars == <<ingest, ingestList>>
zoneVars == <<entries, slot, upload>>
filesNotes == <<shifted, crossed, lost>>
filesVars == <<stored, pageVars, ingestVars, zoneVars, filesNotes>>

Row(f, s) == [file |-> f, status |-> s]
FilesInFlight == {f \in Uploads : upload[f] \in {"sent", "stored", "refused"}}
ServerList == SetToSeq({Row(f, stored[f]) : f \in {g \in Uploads : stored[g] # Absent}})
Count(s) == Len(SelectSeq(files, LAMBDA row : row.status = s))
GridRows(f) == Cardinality({i \in DOMAIN files : files[i].file = f})

(* What the page shows: the zone, the grid and the drawer only when both   *)
(* loads are in.                                                           *)
Failed == \E x \in Loads : load[x] = "error"
FilesScreen == CASE Failed -> "error"
                 [] \A x \in Loads : load[x] = "ready" -> "page"
                 [] OTHER -> "loading"

FilesInit ==
  /\ stored \in [Uploads -> {Absent, "pending", "ready"}]
  /\ load = [x \in Loads |-> "loading"] /\ fetched = <<>> /\ files = <<>>
  /\ ingest = "none" /\ ingestList = <<>>
  /\ entries = <<>> /\ slot = [f \in Uploads |-> 0]
  /\ upload = [f \in Uploads |-> "none"]
  /\ shifted = FALSE /\ crossed = FALSE /\ lost = {}

(* The server answers the list request with its rows of that moment.       *)
AnswerList ==
  /\ load["list"] = "loading"
  /\ load' = [load EXCEPT !["list"] = "answered"] /\ fetched' = ServerList
  /\ UNCHANGED <<stored, files, ingestVars, zoneVars, filesNotes>>

(* A list that arrives re-seeds the local copy.                            *)
ReceiveList ==
  /\ load["list"] = "answered"
  /\ load' = [load EXCEPT !["list"] = "ready"] /\ files' = fetched
  /\ UNCHANGED <<stored, fetched, ingestVars, zoneVars, filesNotes>>

ReceiveWorkspace ==
  /\ load["workspace"] = "loading"
  /\ load' = [load EXCEPT !["workspace"] = "ready"]
  /\ UNCHANGED <<stored, fetched, files, ingestVars, zoneVars, filesNotes>>

LoadFails(x) ==
  /\ load[x] = "loading"
  /\ load' = [load EXCEPT ![x] = "error"]
  /\ UNCHANGED <<stored, fetched, files, ingestVars, zoneVars, filesNotes>>

(* The error state's button asks for both again.                           *)
Retry ==
  /\ FilesScreen = "error"
  /\ load' = [x \in Loads |-> "loading"]
  /\ UNCHANGED <<stored, fetched, files, ingestVars, zoneVars, filesNotes>>

(* The analyzer finishes a file.                                           *)
Analyze(f) ==
  /\ stored[f] = "analyzing"
  /\ stored' = [stored EXCEPT ![f] = "ready"]
  /\ UNCHANGED <<pageVars, ingestVars, zoneVars, filesNotes>>

-----------------------------------------------------------------------------
(* Analyze pending.                                                        *)

IngestEnabled ==
  FilesScreen = "page" /\ ingest = "none" /\ Count("analyzing") = 0 /\ Count("pending") > 0

IngestAll ==
  /\ IngestEnabled
  /\ ingest' = "sent"
  /\ crossed' = (crossed \/ FilesInFlight # {})
  /\ UNCHANGED <<stored, pageVars, ingestList, zoneVars, shifted, lost>>

(* The server owns the status transitions and reports its whole list.      *)
AnswerIngest ==
  /\ ingest = "sent"
  /\ stored' = [f \in Uploads |-> IF stored[f] = "pending" THEN "analyzing" ELSE stored[f]]
  /\ ingestList' = SetToSeq({Row(f, stored'[f]) : f \in {g \in Uploads : stored[g] # Absent}})
  /\ ingest' = "answered"
  /\ UNCHANGED <<pageVars, zoneVars, filesNotes>>

MergeIngest ==    \* mutant: keeps the rows it already has
  /\ ingest = "answered"
  /\ ingest' = "none" /\ files' = files \o ingestList
  /\ UNCHANGED <<stored, load, fetched, ingestList, zoneVars, filesNotes>>

ReceiveIngest ==
  /\ ingest = "answered"
  /\ ingest' = "none" /\ files' = ingestList
  /\ UNCHANGED <<stored, load, fetched, ingestList, zoneVars, filesNotes>>

IngestFails ==
  /\ ingest \in {"sent", "answered"} /\ ingest' = "none"
  /\ UNCHANGED <<stored, pageVars, ingestList, zoneVars, filesNotes>>

-----------------------------------------------------------------------------
(* The upload zone.                                                        *)

(* The zone is on the page; each of its rows has an X, also under way.     *)
ZoneOpen == FilesScreen = "page"
Removable == DOMAIN entries

(* setEntries with a function of the previous rows: writes by index.       *)
Patch(i, s) == [j \in DOMAIN entries |-> IF j = i THEN [entries[j] EXCEPT !.status = s]
                                                  ELSE entries[j]]

(* onDrop: every accepted file gets the next index and is sent at once.    *)
DropAtEnd(f) ==    \* mutant: each file of a batch takes the index it ends at
  /\ ZoneOpen /\ upload[f] = "none"
  /\ entries' = Append(entries, Row(f, "queued"))
  /\ slot' = [slot EXCEPT ![f] = Len(entries)]
  /\ upload' = [upload EXCEPT ![f] = "sent"]
  /\ crossed' = (crossed \/ ingest # "none")
  /\ UNCHANGED <<stored, pageVars, ingestVars, shifted, lost>>

Drop(f) ==
  /\ ZoneOpen /\ upload[f] = "none"
  /\ entries' = Append(entries, Row(f, "queued"))
  /\ slot' = [slot EXCEPT ![f] = Len(entries) + 1]
  /\ upload' = [upload EXCEPT ![f] = "sent"]
  /\ crossed' = (crossed \/ ingest # "none")
  /\ UNCHANGED <<stored, pageVars, ingestVars, shifted, lost>>

Progress(f) ==
  /\ upload[f] = "sent"
  /\ entries' = Patch(slot[f], "uploading")
  /\ UNCHANGED <<stored, pageVars, ingestVars, slot, upload, filesNotes>>

Store(f) ==
  /\ upload[f] = "sent"
  /\ \/ /\ stored[f] = Absent
        /\ stored' = [stored EXCEPT ![f] = "pending"]
        /\ upload' = [upload EXCEPT ![f] = "stored"]
     \/ /\ upload' = [upload EXCEPT ![f] = "refused"]
        /\ UNCHANGED stored
  /\ UNCHANGED <<pageVars, ingestVars, entries, slot, filesNotes>>

(* The answer: the row is done and the server's record joins the grid.     *)
Uploaded(f) ==
  /\ upload[f] = "stored"
  /\ entries' = Patch(slot[f], "done")
  /\ files' = Append(files, Row(f, "pending"))
  /\ upload' = [upload EXCEPT ![f] = "done"]
  /\ UNCHANGED <<stored, load, fetched, ingestVars, slot, filesNotes>>

(* Refused, or stored and the answer lost on its way.                      *)
UploadFails(f) ==
  /\ upload[f] \in {"stored", "refused"}
  /\ entries' = Patch(slot[f], "error")
  /\ upload' = [upload EXCEPT ![f] = "error"]
  /\ lost' = IF upload[f] = "stored" THEN lost \cup {f} ELSE lost
  /\ UNCHANGED <<stored, pageVars, ingestVars, slot, shifted, crossed>>

(* removeEntry: the rows behind it move up; an upload keeps its index.     *)
RemoveEntry(i) ==
  /\ i \in Removable
  /\ entries' = RemoveAt(entries, i)
  /\ shifted' = (shifted \/ \E f \in FilesInFlight : slot[f] >= i)
  /\ UNCHANGED <<stored, pageVars, ingestVars, slot, upload, crossed, lost>>

-----------------------------------------------------------------------------

Server == AnswerList \/ AnswerIngest \/ \E f \in Uploads : Analyze(f) \/ Store(f)

Received ==
  \/ ReceiveList \/ ReceiveWorkspace \/ ReceiveIngest \/ IngestFails
  \/ \E x \in Loads : LoadFails(x)
  \/ \E f \in Uploads : Uploaded(f) \/ UploadFails(f)

User ==
  \/ Retry \/ IngestAll
  \/ \E f \in Uploads : Drop(f) \/ Progress(f)
  \/ \E i \in DOMAIN entries : RemoveEntry(i)

FilesNext == Server \/ Received \/ User

FilesSpec == FilesInit /\ [][FilesNext]_filesVars

-----------------------------------------------------------------------------
(* Properties.                                                             *)

FilesTypeOK ==
  /\ stored \in [Uploads -> {Absent, "pending", "analyzing", "ready"}]
  /\ load \in [Loads -> {"loading", "answered", "ready", "error"}]
  /\ \A i \in DOMAIN files : files[i].file \in Uploads /\ files[i].status # Absent
  /\ ingest \in {"none", "sent", "answered"}
  /\ \A i \in DOMAIN entries : entries[i].status \in {"queued", "uploading", "done", "error"}
  /\ upload \in [Uploads -> {"none", "sent", "stored", "refused", "done", "error"}]

(* Each row of the upload zone reports its own file's upload, as long as   *)
(* no row is removed while an upload at its index or behind it is under    *)
(* way: then the patches of that upload go to another row (removeEntry     *)
(* moves rows, upload's index stays).                                      *)
RowsReportOwnUpload ==
  ~shifted =>
    \A i \in DOMAIN entries :
      LET u == upload[entries[i].file] IN
        /\ entries[i].status \in {"done", "error"} => entries[i].status = u
        /\ u \in {"done", "error"} => entries[i].status = u

(* With no request under way, the grid holds every row of the server once, *)
(* unless an upload and an ingestion overlapped: their answers then may    *)
(* drop a new file from the grid, or show it twice.  A file whose answer    *)
(* was lost may be missing.                                                *)
GridShowsEachFileOnce ==
  FilesScreen = "page" /\ ingest = "none" /\ FilesInFlight = {} /\ ~crossed =>
    \A f \in Uploads :
      /\ stored[f] = Absent => GridRows(f) = 0
      /\ stored[f] # Absent => GridRows(f) = 1 \/ (f \in lost /\ GridRows(f) = 0)
=============================================================================
