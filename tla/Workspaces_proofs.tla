-------------------------- MODULE Workspaces_proofs --------------------------
(***************************************************************************)
(* Proofs about the workspace pages: the page of one workspace and the     *)
(* page of all of them, for any files and any number of workspaces.        *)
(***************************************************************************)
EXTENDS WorkspaceFiles, NewWorkspace, DataFacts, TLAPS

-----------------------------------------------------------------------------
(* The rows of the upload zone report their own files' uploads: as long as *)
(* no row at or below the index of an unfinished upload is removed, that   *)
(* index names the upload's own row.                                       *)

Statuses == {"queued", "uploading", "done", "error"}
Entries == [file : Uploads, status : Statuses]

ZoneTypes ==
  /\ entries \in Seq(Entries)
  /\ upload \in [Uploads -> {"none", "sent", "stored", "refused", "done", "error"}]
  /\ slot \in [Uploads -> Nat] /\ shifted \in BOOLEAN

(* A file has one row at most, and an unfinished upload has its index.     *)
OwnRow ==
  /\ \A i, j \in DOMAIN entries : entries[i].file = entries[j].file => i = j
  /\ \A i \in DOMAIN entries : upload[entries[i].file] # "none"
  /\ \A f \in FilesInFlight : slot[f] \in DOMAIN entries /\ entries[slot[f]].file = f

Reported(e, u) ==
  /\ e.status \in {"done", "error"} => e.status = u
  /\ u \in {"done", "error"} => e.status = u

ZoneInv ==
  /\ ZoneTypes
  /\ ~shifted => OwnRow /\ \A i \in DOMAIN entries : Reported(entries[i], upload[entries[i].file])

LEMMA EntriesTyped ==
  ASSUME ZoneTypes
  PROVE  \A i \in DOMAIN entries : entries[i] \in Entries /\ entries[i].file \in Uploads
<1>1. \A i \in DOMAIN entries : entries[i] \in Entries
  BY DEF ZoneTypes
<1> QED
  BY <1>1 DEF Entries

LEMMA ZoneInvInit == FilesInit => ZoneInv
<1> SUFFICES ASSUME FilesInit PROVE ZoneInv
  OBVIOUS
<1>1. entries = <<>> /\ DOMAIN entries = {} /\ entries \in Seq(Entries)
  BY DEF FilesInit
<1>2. ZoneTypes
  BY <1>1 DEF FilesInit, ZoneTypes
<1>3. FilesInFlight = {}
  BY DEF FilesInit, FilesInFlight
<1> QED
  BY <1>1, <1>2, <1>3 DEF ZoneInv, OwnRow

(* What the zone's rows and requests are.                                  *)
zone == <<entries, slot, upload, shifted>>

LEMMA ZoneAlone == ASSUME ZoneInv, UNCHANGED zone PROVE ZoneInv'
BY DEF ZoneInv, ZoneTypes, OwnRow, Reported, FilesInFlight, zone

(* A patch of the row of an upload under way.                              *)
LEMMA Patched ==
  ASSUME ZoneInv, NEW f \in FilesInFlight, NEW st \in Statuses, entries' = Patch(slot[f], st),
         NEW u \in {"sent", "stored", "refused", "done", "error"},
         upload' = [upload EXCEPT ![f] = u], UNCHANGED <<slot, shifted>>,
         st \in {"done", "error"} \/ u \in {"done", "error"} => st = u
  PROVE  ZoneInv'
<1>1. /\ DOMAIN entries' = DOMAIN entries /\ DOMAIN entries = 1..Len(entries) /\ Len(entries) \in Nat
      /\ \A j \in DOMAIN entries : entries[j] \in Entries
  BY DEF Patch, ZoneInv, ZoneTypes
<1>2. ASSUME NEW j \in DOMAIN entries
      PROVE  /\ entries'[j] \in Entries /\ entries'[j].file = entries[j].file
             /\ entries'[j].status = IF j = slot[f] THEN st ELSE entries[j].status
  BY <1>1 DEF Patch, Entries
<1>3. ZoneTypes'
  <2>1. entries' \in Seq(Entries)
    BY <1>1, <1>2 DEF Patch
  <2> QED
    BY <2>1 DEF ZoneInv, ZoneTypes
<1>4. ASSUME ~shifted'
      PROVE  OwnRow' /\ \A i \in DOMAIN entries' : Reported(entries'[i], upload'[entries'[i].file])
  <2>1. OwnRow /\ f \in Uploads /\ FilesInFlight' \subseteq FilesInFlight
    BY <1>4 DEF ZoneInv, ZoneTypes, FilesInFlight
  <2>2. OwnRow'
    <3>1. \A i, j \in DOMAIN entries' : entries'[i].file = entries'[j].file => i = j
      BY <1>1, <1>2, <2>1 DEF OwnRow
    <3>2. ASSUME NEW i \in DOMAIN entries' PROVE upload'[entries'[i].file] # "none"
      BY <1>1, <1>2, <2>1, EntriesTyped DEF OwnRow, ZoneInv, ZoneTypes
    <3>3. ASSUME NEW g \in FilesInFlight'
          PROVE  slot'[g] \in DOMAIN entries' /\ entries'[slot'[g]].file = g
      BY <1>1, <1>2, <2>1 DEF OwnRow
    <3> QED
      BY <3>1, <3>2, <3>3 DEF OwnRow
  <2>3. ASSUME NEW i \in DOMAIN entries' PROVE Reported(entries'[i], upload'[entries'[i].file])
    <3>1. CASE i = slot[f]
      BY <1>1, <1>2, <2>1, <2>3, <3>1 DEF OwnRow, Reported, ZoneInv, ZoneTypes
    <3>2. CASE i # slot[f]
      <4>1. entries[i].file # f
        BY <1>1, <2>1, <3>2 DEF OwnRow
      <4>2. upload'[entries[i].file] = upload[entries[i].file]
        BY <1>1, <2>1, <4>1 DEF ZoneInv, ZoneTypes, Entries
      <4> QED
        BY <1>1, <1>2, <1>4, <3>2, <4>2 DEF ZoneInv, Reported
    <3> QED
      BY <3>1, <3>2
  <2> QED
    BY <2>2, <2>3
<1> QED
  BY <1>3, <1>4 DEF ZoneInv

LEMMA DropStep == ASSUME ZoneInv, NEW f \in Uploads, Drop(f) PROVE ZoneInv'
<1>1. /\ entries' = Append(entries, Row(f, "queued")) /\ slot' = [slot EXCEPT ![f] = Len(entries) + 1]
      /\ upload[f] = "none" /\ upload' = [upload EXCEPT ![f] = "sent"] /\ UNCHANGED shifted
  BY DEF Drop
<1>2. Row(f, "queued") \in Entries /\ entries \in Seq(Entries) /\ Len(entries) \in Nat
  BY DEF Row, Entries, Statuses, ZoneInv, ZoneTypes
<1>3. /\ entries' \in Seq(Entries) /\ Len(entries') = Len(entries) + 1
      /\ \A j \in 1..Len(entries) : entries'[j] = entries[j]
      /\ entries'[Len(entries) + 1] = Row(f, "queued")
  BY <1>1, <1>2, AppendProperties
<1>4. ZoneTypes'
  BY <1>1, <1>2, <1>3 DEF ZoneInv, ZoneTypes
<1>5. ASSUME ~shifted'
      PROVE  OwnRow' /\ \A i \in DOMAIN entries' : Reported(entries'[i], upload'[entries'[i].file])
  <2>1. OwnRow /\ \A i \in DOMAIN entries : Reported(entries[i], upload[entries[i].file])
    BY <1>1, <1>5 DEF ZoneInv
  <2>2. \A j \in 1..Len(entries) : entries[j].file \in Uploads /\ entries[j].file # f
    BY <1>1, <1>2, <2>1, EntriesTyped DEF OwnRow, ZoneInv
  <2>3. \A j \in 1..Len(entries) : upload'[entries'[j].file] = upload[entries[j].file]
    BY <1>1, <1>3, <2>2 DEF ZoneInv, ZoneTypes
  <2>4. DOMAIN entries = 1..Len(entries) /\ DOMAIN entries' = 1..(Len(entries) + 1)
    BY <1>2, <1>3
  <2>5. Row(f, "queued").file = f /\ Row(f, "queued").status = "queued" /\ upload'[f] = "sent"
    BY <1>1 DEF Row, ZoneInv, ZoneTypes
  <2>6. ASSUME NEW i \in DOMAIN entries' PROVE Reported(entries'[i], upload'[entries'[i].file])
    BY <1>2, <1>3, <2>1, <2>3, <2>4, <2>5 DEF Reported
  <2>7. \A i, j \in DOMAIN entries' : entries'[i].file = entries'[j].file => i = j
    BY <1>2, <1>3, <2>1, <2>2, <2>4, <2>5 DEF OwnRow
  <2>8. \A i \in DOMAIN entries' : upload'[entries'[i].file] # "none"
    BY <1>2, <1>3, <2>1, <2>3, <2>4, <2>5 DEF OwnRow
  <2>9. ASSUME NEW g \in FilesInFlight'
        PROVE  slot'[g] \in DOMAIN entries' /\ entries'[slot'[g]].file = g
    <3>1. CASE g = f
      BY <1>1, <1>2, <1>3, <2>4, <2>5, <3>1 DEF ZoneInv, ZoneTypes
    <3>2. CASE g # f
      <4>1. g \in FilesInFlight /\ slot'[g] = slot[g]
        BY <1>1, <2>9, <3>2 DEF FilesInFlight, ZoneInv, ZoneTypes
      <4> QED
        BY <1>2, <1>3, <2>1, <2>4, <4>1 DEF OwnRow
    <3> QED
      BY <3>1, <3>2
  <2> QED
    BY <2>6, <2>7, <2>8, <2>9 DEF OwnRow
<1> QED
  BY <1>4, <1>5 DEF ZoneInv

LEMMA RemoveStep == ASSUME ZoneInv, NEW i \in DOMAIN entries, RemoveEntry(i) PROVE ZoneInv'
<1>1. /\ entries' = RemoveAt(entries, i) /\ UNCHANGED <<slot, upload>>
      /\ shifted' = (shifted \/ \E f \in FilesInFlight : slot[f] >= i)
  BY DEF RemoveEntry
<1>2. entries \in Seq(Entries) /\ i \in 1..Len(entries) /\ Len(entries) \in Nat
  BY DEF ZoneInv, ZoneTypes
<1>3. /\ entries' \in Seq(Entries) /\ Len(entries') = Len(entries) - 1
      /\ \A j \in 1..(Len(entries) - 1) : entries'[j] = IF j < i THEN entries[j] ELSE entries[j + 1]
  BY <1>1, <1>2, RemoveAtElements
<1>4. ZoneTypes'
  BY <1>1, <1>3 DEF ZoneInv, ZoneTypes
<1>5. ASSUME ~shifted'
      PROVE  OwnRow' /\ \A k \in DOMAIN entries' : Reported(entries'[k], upload'[entries'[k].file])
  <2>1. OwnRow /\ \A k \in DOMAIN entries : Reported(entries[k], upload[entries[k].file])
    BY <1>1, <1>5 DEF ZoneInv
  <2>2. DOMAIN entries = 1..Len(entries) /\ DOMAIN entries' = 1..(Len(entries) - 1)
    BY <1>2, <1>3
  <2> DEFINE old(k) == IF k < i THEN k ELSE k + 1
  <2>3. \A k \in DOMAIN entries' : old(k) \in DOMAIN entries /\ entries'[k] = entries[old(k)]
    BY <1>2, <1>3, <2>2
  <2>4. \A k, l \in DOMAIN entries' : old(k) = old(l) => k = l
    BY <1>2, <2>2
  <2>5. ASSUME NEW g \in FilesInFlight'
        PROVE  slot'[g] \in DOMAIN entries' /\ entries'[slot'[g]].file = g
    <3>1. g \in FilesInFlight /\ slot'[g] = slot[g]
      BY <1>1 DEF FilesInFlight
    <3>2. slot[g] \in DOMAIN entries /\ ~(slot[g] >= i) /\ entries[slot[g]].file = g
      BY <1>1, <1>5, <2>1, <3>1 DEF OwnRow
    <3> QED
      BY <1>2, <1>3, <2>2, <3>1, <3>2
  <2> HIDE DEF old
  <2>6. OwnRow'
    BY <1>1, <2>1, <2>3, <2>4, <2>5 DEF OwnRow
  <2> QED
    BY <1>1, <2>1, <2>3, <2>6
<1> QED
  BY <1>4, <1>5 DEF ZoneInv

LEMMA ZoneInvStep == ZoneInv /\ [FilesNext]_filesVars => ZoneInv'
<1> SUFFICES ASSUME ZoneInv, [FilesNext]_filesVars PROVE ZoneInv'
  OBVIOUS
<1>1. CASE UNCHANGED filesVars
  BY <1>1, ZoneAlone DEF filesVars, zoneVars, filesNotes, zone
<1>2. CASE \/ AnswerList \/ AnswerIngest \/ ReceiveList \/ ReceiveWorkspace \/ ReceiveIngest \/ IngestFails
           \/ Retry \/ IngestAll
  BY <1>2, ZoneAlone DEF AnswerList, AnswerIngest, ReceiveList, ReceiveWorkspace, ReceiveIngest,
                         IngestFails, Retry, IngestAll, zoneVars, filesNotes, zone
<1>3. ASSUME NEW x \in Loads, LoadFails(x) PROVE ZoneInv'
  BY <1>3, ZoneAlone DEF LoadFails, zoneVars, filesNotes, zone
<1>4. ASSUME NEW f \in Uploads, Analyze(f) PROVE ZoneInv'
  BY <1>4, ZoneAlone DEF Analyze, zoneVars, filesNotes, zone
<1>5. ASSUME NEW f \in Uploads, Store(f) PROVE ZoneInv'
  <2>1. f \in FilesInFlight /\ upload[f] = "sent"
    BY <1>5 DEF Store, FilesInFlight
  <2>2. PICK u \in {"stored", "refused"} : upload' = [upload EXCEPT ![f] = u]
    BY <1>5 DEF Store
  <2>3. UNCHANGED <<entries, slot, shifted>> /\ FilesInFlight' = FilesInFlight
    BY <1>5, <2>1, <2>2 DEF Store, filesNotes, FilesInFlight, ZoneInv, ZoneTypes
  <2>4. ZoneTypes'
    BY <2>2, <2>3 DEF ZoneInv, ZoneTypes
  <2>5. ASSUME NEW g \in Uploads
        PROVE  /\ upload'[g] \in {"done", "error"} <=> upload[g] \in {"done", "error"}
               /\ upload'[g] # upload[g] => upload'[g] \notin {"done", "error", "none"}
    BY <2>1, <2>2 DEF ZoneInv, ZoneTypes
  <2>6. \A i \in DOMAIN entries : entries[i].file \in Uploads
    BY EntriesTyped DEF ZoneInv
  <2>7. ASSUME ~shifted'
        PROVE  OwnRow' /\ \A i \in DOMAIN entries' : Reported(entries'[i], upload'[entries'[i].file])
    BY <2>3, <2>5, <2>6, <2>7 DEF ZoneInv, OwnRow, Reported
  <2> QED
    BY <2>4, <2>7 DEF ZoneInv
<1>6. ASSUME NEW f \in Uploads, Uploaded(f) PROVE ZoneInv'
  BY <1>6, Patched DEF Uploaded, FilesInFlight, Statuses, filesNotes
<1>7. ASSUME NEW f \in Uploads, UploadFails(f) PROVE ZoneInv'
  BY <1>7, Patched DEF UploadFails, FilesInFlight, Statuses
<1>8. ASSUME NEW f \in Uploads, Progress(f) PROVE ZoneInv'
  <2>1. upload' = [upload EXCEPT ![f] = "sent"] /\ f \in FilesInFlight
    BY <1>8 DEF Progress, FilesInFlight, ZoneInv, ZoneTypes
  <2> QED
    BY <1>8, <2>1, Patched DEF Progress, Statuses, filesNotes
<1>9. ASSUME NEW f \in Uploads, Drop(f) PROVE ZoneInv'
  BY <1>9, DropStep
<1>10. ASSUME NEW i \in DOMAIN entries, RemoveEntry(i) PROVE ZoneInv'
  BY <1>10, RemoveStep
<1> QED
  BY <1>1, <1>2, <1>3, <1>4, <1>5, <1>6, <1>7, <1>8, <1>9, <1>10
     DEF FilesNext, Server, Received, User

(* Whatever files are dropped, fail, finish or are removed from the zone,  *)
(* a row tells its own file's end and no other's, until a row is removed   *)
(* at or below the index of an upload under way.                           *)
THEOREM RowsReportOwnUploadHolds == FilesSpec => []RowsReportOwnUpload
<1>1. ZoneInv => RowsReportOwnUpload
  BY DEF ZoneInv, Reported, RowsReportOwnUpload
<1> QED
  BY <1>1, ZoneInvInit, ZoneInvStep, PTL DEF FilesSpec

-----------------------------------------------------------------------------
(* The grid of one workspace.  Before the page is shown nothing is asked   *)
(* for but the list; after, as long as no upload and no ingestion overlap, *)
(* every answer that edits the grid finds it whole but for the files whose *)
(* upload is still to be answered, or whose answer was lost.               *)

FileStates == {"pending", "analyzing", "ready"}
FileRow == [file : Uploads, status : FileStates]
Stored == [Uploads -> FileStates \cup {Absent}]

Lists(s, f) == \E i \in DOMAIN s : s[i].file = f
OnceEach(s) == \A i, j \in DOMAIN s : s[i].file = s[j].file => i = j
ListsAll(s, st) == OnceEach(s) /\ \A f \in Uploads : Lists(s, f) <=> st[f] # Absent

GridTypes ==
  /\ stored \in Stored
  /\ load \in [Loads -> {"loading", "answered", "ready", "error"}]
  /\ files \in Seq(FileRow)
  /\ load["list"] = "answered" => fetched \in Seq(FileRow)
  /\ ingest \in {"none", "sent", "answered"}
  /\ ingest = "answered" => ingestList \in Seq(FileRow)
  /\ upload \in [Uploads -> {"none", "sent", "stored", "refused", "done", "error"}]
  /\ \A f \in Uploads : upload[f] = "stored" => stored[f] # Absent

PageFirst ==
  ingest # "none" \/ (\E f \in Uploads : upload[f] # "none") => \A x \in Loads : load[x] = "ready"

OneKind == ~crossed /\ ingest # "none" => FilesInFlight = {}

GridWhole ==
  /\ load["list"] = "answered" => ListsAll(fetched, stored)
  /\ ~crossed /\ ingest = "answered" => ListsAll(ingestList, stored)
  /\ ~crossed /\ load["list"] = "ready" =>
       /\ OnceEach(files)
       /\ \A f \in Uploads :
            /\ Lists(files, f) => stored[f] # Absent /\ upload[f] # "stored"
            /\ stored[f] # Absent => Lists(files, f) \/ f \in lost \/ upload[f] = "stored"

GridInv == GridTypes /\ PageFirst /\ OneKind /\ GridWhole

(* The server's list, in whatever order, has each file it holds once.      *)
LEMMA ServerListWhole ==
  ASSUME NEW st \in Stored
  PROVE  LET s == SetToSeq({Row(f, st[f]) : f \in {g \in Uploads : st[g] # Absent}}) IN
           s \in Seq(FileRow) /\ ListsAll(s, st)
<1> DEFINE Held == {g \in Uploads : st[g] # Absent}
           rows == {Row(f, st[f]) : f \in Held}
           s == SetToSeq(rows)
<1>1. IsFiniteSet(rows)
  <2> DEFINE h == [f \in Held |-> Row(f, st[f])]
  <2>1. IsFiniteSet(Held)
    BY UploadsAssumption, FS_Subset
  <2>2. h \in Surjection(Held, rows)
    BY DEF Surjection
  <2> QED
    BY <2>1, <2>2, FS_Surjection
<1>2. rows \subseteq FileRow /\ \A r \in rows : r.file \in Held /\ r = Row(r.file, st[r.file])
  BY DEF Row, FileRow, Stored
<1>3. \A f \in Held : Row(f, st[f]) \in rows /\ Row(f, st[f]).file = f
  BY DEF Row
<1> HIDE DEF rows, s
<1>4. /\ s \in Seq(rows) /\ \A i, j \in DOMAIN s : s[i] = s[j] => i = j
      /\ \A r \in rows : \E i \in DOMAIN s : s[i] = r
  BY <1>1, SetInOrder DEF s
<1>5. /\ \A i \in DOMAIN s : s[i] \in rows
      /\ s \in Seq(FileRow)
  BY <1>2, <1>4
<1>6. OnceEach(s)
  BY <1>2, <1>4, <1>5 DEF OnceEach
<1>7. ASSUME NEW f \in Uploads PROVE Lists(s, f) <=> st[f] # Absent
  BY <1>2, <1>3, <1>4, <1>5 DEF Lists
<1> QED
  BY <1>5, <1>6, <1>7 DEF s, rows, ListsAll

LEMMA GridInvInit == FilesInit => GridInv
<1> SUFFICES ASSUME FilesInit PROVE GridInv
  OBVIOUS
<1>1. files \in Seq(FileRow) /\ ingest = "none" /\ upload = [f \in Uploads |-> "none"]
      /\ load = [x \in Loads |-> "loading"] /\ stored \in Stored
  BY DEF FilesInit, Stored, FileStates
<1> QED
  BY <1>1 DEF GridInv, GridTypes, PageFirst, OneKind, GridWhole, Loads

(* Requests of the page's loads.                                           *)
LEMMA GridLoadSteps ==
  GridInv /\ (AnswerList \/ ReceiveList \/ ReceiveWorkspace \/ Retry \/ \E x \in Loads : LoadFails(x))
    => GridInv'
<1> SUFFICES ASSUME GridInv,
                    AnswerList \/ ReceiveList \/ ReceiveWorkspace \/ Retry \/ \E x \in Loads : LoadFails(x)
             PROVE  GridInv'
  OBVIOUS
<1>1. UNCHANGED <<stored, ingest, ingestList, upload, crossed, lost>>
  BY DEF AnswerList, ReceiveList, ReceiveWorkspace, Retry, LoadFails, ingestVars, zoneVars, filesNotes
<1>2. load \in [Loads -> {"loading", "answered", "ready", "error"}] /\ Loads = {"workspace", "list"}
  BY DEF GridInv, GridTypes, Loads
<1>3. ingest = "none" /\ \A f \in Uploads : upload[f] = "none"
  <2>1. \E x \in Loads : load[x] # "ready"
    BY <1>2 DEF AnswerList, ReceiveList, ReceiveWorkspace, Retry, LoadFails, FilesScreen, Failed
  <2> QED
    BY <2>1 DEF GridInv, PageFirst
<1>4. PageFirst' /\ OneKind'
  BY <1>1, <1>3 DEF PageFirst, OneKind
<1>5. CASE AnswerList
  <2>1. /\ load' = [load EXCEPT !["list"] = "answered"] /\ files' = files
        /\ fetched' \in Seq(FileRow) /\ ListsAll(fetched', stored)
    BY <1>5, ServerListWhole DEF AnswerList, ServerList, GridInv, GridTypes
  <2>2. load' \in [Loads -> {"loading", "answered", "ready", "error"}] /\ load'["list"] = "answered"
    BY <1>2, <2>1
  <2>3. GridTypes' /\ GridWhole'
    BY <1>1, <1>3, <2>1, <2>2 DEF GridInv, GridTypes, GridWhole
  <2> QED
    BY <1>4, <2>3 DEF GridInv
<1>6. CASE ReceiveList
  <2>1. load' = [load EXCEPT !["list"] = "ready"] /\ files' = fetched /\ load["list"] = "answered"
    BY <1>6 DEF ReceiveList
  <2>2. load' \in [Loads -> {"loading", "answered", "ready", "error"}] /\ load'["list"] = "ready"
    BY <1>2, <2>1
  <2>3. ListsAll(files', stored) /\ files' \in Seq(FileRow)
    BY <2>1 DEF GridInv, GridWhole, GridTypes
  <2>4. GridTypes' /\ GridWhole'
    BY <1>1, <1>3, <2>2, <2>3 DEF GridInv, GridTypes, GridWhole, ListsAll
  <2> QED
    BY <1>4, <2>4 DEF GridInv
<1>7. CASE ReceiveWorkspace \/ Retry \/ \E x \in Loads : LoadFails(x)
  <2>1. UNCHANGED <<files, fetched>>
    BY <1>7 DEF ReceiveWorkspace, Retry, LoadFails
  <2>2. /\ load' \in [Loads -> {"loading", "answered", "ready", "error"}]
        /\ load'["list"] \in {load["list"], "loading", "error"}
    BY <1>2, <1>7 DEF ReceiveWorkspace, Retry, LoadFails
  <2>3. GridTypes' /\ GridWhole'
    BY <1>1, <1>3, <2>1, <2>2 DEF GridInv, GridTypes, GridWhole
  <2> QED
    BY <1>4, <2>3 DEF GridInv
<1> QED
  BY <1>5, <1>6, <1>7

LEMMA AnalyzeStep == ASSUME GridInv, NEW f \in Uploads, Analyze(f) PROVE GridInv'
<1>1. /\ UNCHANGED <<load, fetched, files, ingest, ingestList, upload, crossed, lost>>
      /\ stored' = [stored EXCEPT ![f] = "ready"] /\ stored[f] = "analyzing"
  BY DEF Analyze, pageVars, ingestVars, zoneVars, filesNotes
<1>2. stored' \in Stored /\ \A g \in Uploads : stored'[g] = Absent <=> stored[g] = Absent
  BY <1>1 DEF GridInv, GridTypes, Stored, FileStates, Absent
<1>3. GridTypes' /\ PageFirst' /\ OneKind'
  BY <1>1, <1>2 DEF GridInv, GridTypes, PageFirst, OneKind, FilesInFlight
<1>4. GridWhole'
  BY <1>1, <1>2 DEF GridInv, GridWhole, ListsAll
<1> QED
  BY <1>3, <1>4 DEF GridInv

(* Analyze pending.                                                        *)
LEMMA IngestSteps == GridInv /\ (IngestAll \/ AnswerIngest \/ ReceiveIngest \/ IngestFails) => GridInv'
<1> SUFFICES ASSUME GridInv, IngestAll \/ AnswerIngest \/ ReceiveIngest \/ IngestFails PROVE GridInv'
  OBVIOUS
<1>1. UNCHANGED <<load, fetched, upload, lost>>
  BY DEF IngestAll, AnswerIngest, ReceiveIngest, IngestFails, pageVars, zoneVars, filesNotes
<1>2. CASE IngestAll
  <2>1. /\ ingest' = "sent" /\ crossed' = (crossed \/ FilesInFlight # {}) /\ ingest = "none"
        /\ UNCHANGED <<stored, files, ingestList>> /\ FilesScreen = "page"
    BY <1>2 DEF IngestAll, IngestEnabled, pageVars
  <2>2. \A x \in Loads : load[x] = "ready"
    BY <2>1 DEF FilesScreen, Failed
  <2>3. GridTypes' /\ PageFirst'
    BY <1>1, <2>1, <2>2 DEF GridInv, GridTypes, PageFirst
  <2>4. ~crossed' => ~crossed /\ FilesInFlight' = {}
    BY <1>1, <2>1 DEF FilesInFlight
  <2>5. OneKind'
    BY <2>4 DEF OneKind
  <2>6. GridWhole'
    BY <1>1, <2>1, <2>4 DEF GridInv, GridWhole
  <2> QED
    BY <2>3, <2>5, <2>6 DEF GridInv
<1>3. CASE AnswerIngest
  <2>1. /\ ingest = "sent" /\ ingest' = "answered" /\ UNCHANGED <<files, crossed>>
        /\ stored' = [f \in Uploads |-> IF stored[f] = "pending" THEN "analyzing" ELSE stored[f]]
    BY <1>3 DEF AnswerIngest, pageVars, filesNotes
  <2>2. stored' \in Stored /\ \A g \in Uploads : stored'[g] = Absent <=> stored[g] = Absent
    BY <2>1 DEF GridInv, GridTypes, Stored, FileStates, Absent
  <2>3. ingestList' \in Seq(FileRow) /\ ListsAll(ingestList', stored')
    BY <1>3, <2>2, ServerListWhole DEF AnswerIngest
  <2>4. GridTypes' /\ PageFirst' /\ OneKind'
    BY <1>1, <2>1, <2>2, <2>3 DEF GridInv, GridTypes, PageFirst, OneKind, FilesInFlight
  <2>5. GridWhole'
    BY <1>1, <2>1, <2>2, <2>3 DEF GridInv, GridWhole, ListsAll
  <2> QED
    BY <2>4, <2>5 DEF GridInv
<1>4. CASE ReceiveIngest
  <2>1. /\ ingest = "answered" /\ ingest' = "none" /\ files' = ingestList
        /\ UNCHANGED <<stored, crossed, ingestList>>
    BY <1>4 DEF ReceiveIngest, filesNotes
  <2>2. GridTypes' /\ PageFirst' /\ OneKind'
    BY <1>1, <2>1 DEF GridInv, GridTypes, PageFirst, OneKind
  <2>3. ~crossed => ListsAll(files', stored) /\ \A f \in Uploads : upload[f] # "stored"
    BY <2>1 DEF GridInv, GridWhole, OneKind, FilesInFlight
  <2>4. GridWhole'
    BY <1>1, <2>1, <2>3 DEF GridInv, GridWhole, ListsAll
  <2> QED
    BY <2>2, <2>4 DEF GridInv
<1>5. CASE IngestFails
  BY <1>1, <1>5 DEF IngestFails, pageVars, filesNotes, GridInv, GridTypes, PageFirst, OneKind, GridWhole
<1> QED
  BY <1>2, <1>3, <1>4, <1>5

(* Uploads.                                                                *)
LEMMA GridDropStep == ASSUME GridInv, NEW f \in Uploads, Drop(f) PROVE GridInv'
<1>1. /\ upload[f] = "none" /\ upload' = [upload EXCEPT ![f] = "sent"] /\ FilesScreen = "page"
      /\ crossed' = (crossed \/ ingest # "none")
      /\ UNCHANGED <<stored, load, fetched, files, ingest, ingestList, lost>>
  BY DEF Drop, ZoneOpen, pageVars, ingestVars
<1>2. \A x \in Loads : load[x] = "ready"
  BY <1>1 DEF FilesScreen, Failed
<1>3. GridTypes' /\ PageFirst'
  BY <1>1, <1>2 DEF GridInv, GridTypes, PageFirst
<1>4. ~crossed' => ~crossed /\ ingest = "none"
  BY <1>1, Zenon
<1>5. OneKind'
  BY <1>1, <1>4 DEF OneKind
<1>6. upload \in [Uploads -> {"none", "sent", "stored", "refused", "done", "error"}]
  BY DEF GridInv, GridTypes
<1>7. \A g \in Uploads : upload'[g] = "stored" <=> upload[g] = "stored"
  BY <1>1, <1>6
<1>8. GridWhole'
  BY <1>1, <1>4, <1>7 DEF GridInv, GridWhole
<1> QED
  BY <1>3, <1>5, <1>8 DEF GridInv

LEMMA StoreStep == ASSUME GridInv, NEW f \in Uploads, Store(f) PROVE GridInv'
<1>1. /\ upload[f] = "sent" /\ UNCHANGED <<load, fetched, files, ingest, ingestList, crossed, lost>>
      /\ \/ /\ stored[f] = Absent /\ stored' = [stored EXCEPT ![f] = "pending"]
            /\ upload' = [upload EXCEPT ![f] = "stored"]
         \/ upload' = [upload EXCEPT ![f] = "refused"] /\ stored' = stored
  BY DEF Store, pageVars, ingestVars, filesNotes
<1>2. /\ stored \in Stored
      /\ upload \in [Uploads -> {"none", "sent", "stored", "refused", "done", "error"}]
      /\ "pending" \in FileStates /\ "pending" # Absent
  BY DEF GridInv, GridTypes, FileStates, Absent
<1>3. /\ stored' \in Stored /\ \A g \in Uploads \ {f} : stored'[g] = stored[g] /\ upload'[g] = upload[g]
      /\ upload' \in [Uploads -> {"none", "sent", "stored", "refused", "done", "error"}]
      /\ \/ upload'[f] = "stored" /\ stored'[f] # Absent /\ stored[f] = Absent
         \/ upload'[f] = "refused" /\ stored'[f] = stored[f]
  BY <1>1, <1>2 DEF Stored
<1>4. /\ \A x \in Loads : load[x] = "ready"
      /\ f \in FilesInFlight /\ (~crossed => ingest = "none")
  BY <1>1 DEF GridInv, PageFirst, OneKind, FilesInFlight
<1>5. GridTypes' /\ PageFirst' /\ OneKind'
  BY <1>1, <1>3, <1>4 DEF GridInv, GridTypes, PageFirst, OneKind
<1>6. GridWhole'
  <2>1. load'["list"] = "ready"
    BY <1>1, <1>4 DEF Loads
  <2>2. ASSUME ~crossed
        PROVE  /\ OnceEach(files)
               /\ \A g \in Uploads :
                    /\ Lists(files, g) => stored'[g] # Absent /\ upload'[g] # "stored"
                    /\ stored'[g] # Absent => Lists(files, g) \/ g \in lost \/ upload'[g] = "stored"
    <3>1. /\ OnceEach(files)
          /\ \A g \in Uploads :
               /\ Lists(files, g) => stored[g] # Absent /\ upload[g] # "stored"
               /\ stored[g] # Absent => Lists(files, g) \/ g \in lost \/ upload[g] = "stored"
      BY <1>1, <2>1, <2>2 DEF GridInv, GridWhole
    <3> QED
      BY <1>1, <1>3, <3>1
  <2> QED
    BY <1>1, <1>4, <2>1, <2>2 DEF GridWhole
<1> QED
  BY <1>5, <1>6 DEF GridInv

(* The page receives the answer, or that there is none.                    *)
LEMMA UploadEndsStep == ASSUME GridInv, NEW f \in Uploads, Uploaded(f) \/ UploadFails(f) PROVE GridInv'
<1> DEFINE row == Row(f, "pending")
<1>1. UNCHANGED <<stored, load, fetched, ingest, ingestList, crossed>>
  BY DEF Uploaded, UploadFails, pageVars, ingestVars, filesNotes
<1>2. /\ stored \in Stored /\ files \in Seq(FileRow)
      /\ upload \in [Uploads -> {"none", "sent", "stored", "refused", "done", "error"}]
  BY DEF GridInv, GridTypes
<1>3. row \in FileRow /\ row.file = f
  BY DEF Row, FileRow, FileStates
<1> HIDE DEF row
<1>4. \/ /\ upload[f] = "stored" /\ upload' = [upload EXCEPT ![f] = "done"]
         /\ files' = Append(files, row) /\ lost' = lost
      \/ /\ upload' = [upload EXCEPT ![f] = "error"] /\ files' = files
         /\ upload[f] = "stored" /\ lost' = lost \cup {f}
      \/ /\ upload' = [upload EXCEPT ![f] = "error"] /\ files' = files
         /\ upload[f] = "refused" /\ lost' = lost
  BY DEF Uploaded, UploadFails, pageVars, filesNotes, row
<1>5. /\ Append(files, row) \in Seq(FileRow) /\ DOMAIN files = 1..Len(files) /\ Len(files) \in Nat
      /\ DOMAIN Append(files, row) = 1..(Len(files) + 1)
      /\ \A i \in DOMAIN files : Append(files, row)[i] = files[i]
      /\ Append(files, row)[Len(files) + 1] = row
  BY <1>2, <1>3, AppendProperties
<1>6. files' \in Seq(FileRow)
  BY <1>2, <1>4, <1>5
<1>7. /\ upload' \in [Uploads -> {"none", "sent", "stored", "refused", "done", "error"}]
      /\ upload'[f] \in {"done", "error"} /\ \A g \in Uploads \ {f} : upload'[g] = upload[g]
      /\ upload[f] \in {"stored", "refused"}
  BY <1>2, <1>4
<1>8. \A x \in Loads : load[x] = "ready"
  BY <1>7 DEF GridInv, PageFirst
<1>9. GridTypes' /\ PageFirst' /\ OneKind'
  <2>1. FilesInFlight' \subseteq FilesInFlight
    BY <1>7 DEF FilesInFlight
  <2>2. OneKind'
    BY <1>1, <2>1 DEF GridInv, OneKind
  <2> QED
    BY <1>1, <1>6, <1>7, <1>8, <2>2 DEF GridInv, GridTypes, PageFirst
<1>10. \A g \in Uploads : Lists(Append(files, row), g) <=> (Lists(files, g) \/ g = f)
  <2>1. \A i \in DOMAIN Append(files, row) : i \in DOMAIN files \/ i = Len(files) + 1
    BY <1>5
  <2> QED
    BY <1>3, <1>5, <2>1 DEF Lists
<1>11. OnceEach(files) /\ ~Lists(files, f) => OnceEach(Append(files, row))
  <2>1. \A i \in DOMAIN Append(files, row) : i \in DOMAIN files \/ i = Len(files) + 1
    BY <1>5
  <2> QED
    BY <1>3, <1>5, <2>1 DEF OnceEach, Lists
<1>12. GridWhole'
  <2>1. load["list"] = "ready"
    BY <1>8 DEF Loads
  <2>2. ASSUME ~crossed
        PROVE  /\ OnceEach(files')
               /\ \A g \in Uploads :
                    /\ Lists(files', g) => stored[g] # Absent /\ upload'[g] # "stored"
                    /\ stored[g] # Absent => Lists(files', g) \/ g \in lost' \/ upload'[g] = "stored"
    <3>1. /\ OnceEach(files)
          /\ \A g \in Uploads :
               /\ Lists(files, g) => stored[g] # Absent /\ upload[g] # "stored"
               /\ stored[g] # Absent => Lists(files, g) \/ g \in lost \/ upload[g] = "stored"
      BY <2>1, <2>2 DEF GridInv, GridWhole
    <3>2. CASE files' = files /\ (upload[f] = "stored" => f \in lost') /\ lost \subseteq lost'
      BY <1>7, <3>1, <3>2
    <3>3. CASE upload[f] = "stored" /\ files' = Append(files, row) /\ lost' = lost
      <4>1. ~Lists(files, f)
        BY <3>1, <3>3
      <4>2. stored[f] # Absent
        BY <3>3 DEF GridInv, GridTypes
      <4> QED
        BY <1>7, <1>10, <1>11, <3>1, <3>3, <4>1, <4>2
    <3> QED
      BY <1>4, <3>2, <3>3
  <2> QED
    BY <1>1, <2>1, <2>2 DEF GridInv, GridWhole
<1> QED
  BY <1>9, <1>12 DEF GridInv

LEMMA GridInvStep == GridInv /\ [FilesNext]_filesVars => GridInv'
<1> SUFFICES ASSUME GridInv, [FilesNext]_filesVars PROVE GridInv'
  OBVIOUS
<1>1. CASE \/ UNCHANGED filesVars \/ (\E f \in Uploads : Progress(f))
           \/ (\E i \in DOMAIN entries : RemoveEntry(i))
  <2>1. UNCHANGED <<stored, load, fetched, files, ingest, ingestList, upload, crossed, lost>>
    BY <1>1 DEF Progress, RemoveEntry, filesVars, pageVars, ingestVars, zoneVars, filesNotes
  <2> QED
    BY <2>1 DEF GridInv, GridTypes, PageFirst, OneKind, GridWhole, FilesInFlight
<1>2. CASE AnswerList \/ ReceiveList \/ ReceiveWorkspace \/ Retry \/ \E x \in Loads : LoadFails(x)
  BY <1>2, GridLoadSteps
<1>3. CASE IngestAll \/ AnswerIngest \/ ReceiveIngest \/ IngestFails
  BY <1>3, IngestSteps
<1>4. ASSUME NEW f \in Uploads, Analyze(f) \/ Drop(f) \/ Store(f) \/ Uploaded(f) \/ UploadFails(f)
      PROVE  GridInv'
  BY <1>4, AnalyzeStep, GridDropStep, StoreStep, UploadEndsStep
<1> QED
  BY <1>1, <1>2, <1>3, <1>4 DEF FilesNext, Server, Received, User

LEMMA GridInvHolds == GridInv => GridShowsEachFileOnce
<1> SUFFICES ASSUME GridInv, FilesScreen = "page", FilesInFlight = {}, ~crossed, NEW f \in Uploads
             PROVE  /\ stored[f] = Absent => GridRows(f) = 0
                    /\ stored[f] # Absent => GridRows(f) = 1 \/ (f \in lost /\ GridRows(f) = 0)
  BY DEF GridShowsEachFileOnce
<1> DEFINE at == {i \in DOMAIN files : files[i].file = f}
<1>1. load["list"] = "ready" /\ upload[f] # "stored"
  BY DEF FilesScreen, Failed, Loads, FilesInFlight
<1>2. /\ OnceEach(files)
      /\ Lists(files, f) => stored[f] # Absent
      /\ stored[f] # Absent => Lists(files, f) \/ f \in lost
  BY <1>1 DEF GridInv, GridWhole
<1>3. ~Lists(files, f) => GridRows(f) = 0
  <2>1. ~Lists(files, f) => at = {}
    BY DEF Lists
  <2> QED
    BY <2>1, FS_EmptySet DEF GridRows
<1>4. Lists(files, f) => GridRows(f) = 1
  <2>1. Lists(files, f) => \E i : at = {i}
    BY <1>2 DEF Lists, OnceEach
  <2> QED
    BY <2>1, FS_Singleton DEF GridRows
<1> QED
  BY <1>2, <1>3, <1>4

(* For any files: with no request under way, the grid holds every row of   *)
(* the server once, unless an upload and an ingestion overlapped.          *)
THEOREM GridShowsEachFileOnceHolds == FilesSpec => []GridShowsEachFileOnce
BY GridInvInit, GridInvStep, GridInvHolds, PTL DEF FilesSpec

(* For any files: rows and entries keep to the states the code gives them. *)
THEOREM FilesTypesHold == FilesSpec => []FilesTypeOK
<1>1. ZoneInv /\ GridInv => FilesTypeOK
  <2> SUFFICES ASSUME ZoneInv, GridInv PROVE FilesTypeOK
    OBVIOUS
  <2>1. \A i \in DOMAIN files : files[i] \in FileRow
    BY DEF GridInv, GridTypes
  <2>2. \A i \in DOMAIN entries : entries[i] \in Entries
    BY DEF ZoneInv, ZoneTypes
  <2>3. \A i \in DOMAIN files : files[i].file \in Uploads /\ files[i].status # Absent
    BY <2>1 DEF FileRow, FileStates, Absent
  <2>4. \A i \in DOMAIN entries : entries[i].status \in {"queued", "uploading", "done", "error"}
    BY <2>2 DEF Entries, Statuses
  <2> QED
    BY <2>3, <2>4 DEF GridInv, GridTypes, FilesTypeOK, Stored, FileStates
<1> QED
  BY <1>1, ZoneInvInit, ZoneInvStep, GridInvInit, GridInvStep, PTL DEF FilesSpec

-----------------------------------------------------------------------------
(* The dialog of a new workspace.  While a workspace is being created, the *)
(* files staged are those uploaded, those still to upload and those that   *)
(* came late; and the zone shows the staged files unless it went astray.   *)

DialogTypes ==
  /\ wsFiles \in Seq(Seq(Staging))
  /\ zoneRows \in Seq(Staging) /\ stagedFiles \in Seq(Staging)
  /\ creation \in [phase : {"none", "create", "upload"}, files : Seq(Staging), ws : Nat]
  /\ IF creation.phase = "upload" THEN creation.ws = Len(wsFiles) /\ wsFiles # <<>> ELSE creation.ws = 0
  /\ orphans \subseteq DOMAIN wsFiles
  /\ modalOpen \in BOOLEAN /\ modalError \in BOOLEAN

Up == IF creation.phase = "upload" THEN Range(wsFiles[creation.ws]) ELSE {}

StagedInv ==
  /\ ~zoneStray => Range(zoneRows) = Range(stagedFiles)
  /\ IF creating THEN Range(stagedFiles) = Up \cup Range(creation.files) \cup late ELSE late = {}

DialogInv == DialogTypes /\ StagedInv

LEMMA RangeAppended ==
  ASSUME NEW S, NEW s \in Seq(S), NEW x \in S
  PROVE  Append(s, x) \in Seq(S) /\ Range(Append(s, x)) = Range(s) \cup {x}
<1>1. /\ Append(s, x) \in Seq(S) /\ Len(s) \in Nat /\ DOMAIN s = 1..Len(s)
      /\ DOMAIN Append(s, x) = 1..(Len(s) + 1)
      /\ \A i \in 1..Len(s) : Append(s, x)[i] = s[i]
      /\ Append(s, x)[Len(s) + 1] = x
  BY AppendProperties
<1>2. \A i \in DOMAIN Append(s, x) : i \in DOMAIN s \/ i = Len(s) + 1
  BY <1>1
<1>3. \A i \in DOMAIN s : i \in DOMAIN Append(s, x)
  BY <1>1
<1>4. Len(s) + 1 \in DOMAIN Append(s, x)
  BY <1>1
<1> QED
  BY <1>1, <1>2, <1>3, <1>4 DEF Range

LEMMA RangeOfTail ==
  ASSUME NEW S, NEW s \in Seq(S), s # <<>>
  PROVE  Head(s) \in S /\ Tail(s) \in Seq(S) /\ Range(s) = {Head(s)} \cup Range(Tail(s))
<1>1. /\ Head(s) \in S /\ Head(s) = s[1] /\ Len(s) \in Nat \ {0} /\ DOMAIN s = 1..Len(s)
      /\ Tail(s) \in Seq(S) /\ DOMAIN Tail(s) = 1..(Len(s) - 1)
      /\ \A i \in 1..(Len(s) - 1) : Tail(s)[i] = s[i + 1]
  BY HeadTailProperties
<1>2. \A i \in DOMAIN s : i = 1 \/ (i - 1 \in DOMAIN Tail(s) /\ (i - 1) + 1 = i)
  BY <1>1
<1>3. 1 \in DOMAIN s /\ \A i \in DOMAIN Tail(s) : i + 1 \in DOMAIN s
  BY <1>1
<1>4. \A i \in DOMAIN s : s[i] = Head(s) \/ s[i] \in Range(Tail(s))
  <2> TAKE i \in DOMAIN s
  <2>1. CASE i = 1
    BY <1>1, <2>1
  <2>2. CASE i # 1
    <3>1. i - 1 \in DOMAIN Tail(s) /\ Tail(s)[i - 1] = s[i]
      BY <1>1, <1>2, <2>2
    <3> QED
      BY <3>1 DEF Range
  <2> QED
    BY <2>1, <2>2
<1> QED
  BY <1>1, <1>3, <1>4 DEF Range

LEMMA DialogInvInit == NewInit => DialogInv
<1> SUFFICES ASSUME NewInit PROVE DialogInv
  OBVIOUS
<1>1. /\ creation = NoCreation /\ NoCreation.phase = "none" /\ NoCreation.ws = 0
      /\ NoCreation \in [phase : {"none", "create", "upload"}, files : Seq(Staging), ws : Nat]
  BY DEF NewInit, NoCreation
<1>2. <<>> \in Seq(Staging) /\ <<>> \in Seq(Seq(Staging))
  OBVIOUS
<1>3. DialogTypes
  BY <1>1, <1>2 DEF NewInit, DialogTypes
<1> QED
  BY <1>1, <1>3 DEF NewInit, DialogInv, StagedInv, creating

(* Opening, closing, dropping and removing.                                *)
LEMMA StagingSteps ==
  ASSUME DialogInv,
         \/ OpenModal \/ CloseModal \/ (\E f \in Staging : Stage(f))
         \/ \E i \in DOMAIN zoneRows : RemoveStaged(i)
  PROVE  DialogInv'
<1>1. UNCHANGED <<wsFiles, creation, orphans, modalError>>
  BY DEF OpenModal, CloseModal, Stage, RemoveStaged, wsNotes
<1>2. CASE OpenModal \/ CloseModal
  <2>1. UNCHANGED <<stagedFiles, late>> /\ modalOpen' \in BOOLEAN /\ zoneRows' \in {zoneRows, <<>>}
    BY <1>2 DEF OpenModal, CloseModal, wsNotes
  <2>2. DialogTypes'
    <3>1. zoneRows' \in Seq(Staging)
      <4>1. <<>> \in Seq(Staging)
        OBVIOUS
      <4> QED
        BY <2>1, <4>1 DEF DialogInv, DialogTypes
    <3> QED
      BY <1>1, <2>1, <3>1 DEF DialogInv, DialogTypes
  <2>3. ~zoneStray' => ~zoneStray /\ (zoneRows' = zoneRows \/ zoneRows' = stagedFiles)
    BY <1>2 DEF OpenModal, CloseModal, wsNotes
  <2> QED
    BY <1>1, <2>1, <2>2, <2>3 DEF DialogInv, StagedInv, Up, creating
<1>3. ASSUME NEW f \in Staging, Stage(f) PROVE DialogInv'
  <2>1. /\ zoneRows' = Append(zoneRows, f) /\ stagedFiles' = Append(stagedFiles, f)
        /\ late' = IF creating THEN late \cup {f} ELSE late
        /\ UNCHANGED <<modalOpen, zoneStray>>
    BY <1>3 DEF Stage
  <2>2. /\ zoneRows' \in Seq(Staging) /\ Range(zoneRows') = Range(zoneRows) \cup {f}
        /\ stagedFiles' \in Seq(Staging) /\ Range(stagedFiles') = Range(stagedFiles) \cup {f}
    BY <2>1, RangeAppended DEF DialogInv, DialogTypes
  <2>3. DialogTypes'
    BY <1>1, <2>1, <2>2 DEF DialogInv, DialogTypes
  <2> QED
    BY <1>1, <2>1, <2>2, <2>3 DEF DialogInv, StagedInv, Up, creating
<1>4. ASSUME NEW i \in DOMAIN zoneRows, RemoveStaged(i) PROVE DialogInv'
  <2>1. zoneRows \in Seq(Staging) /\ i \in 1..Len(zoneRows)
    BY DEF DialogInv, DialogTypes
  <2>2. zoneRows' \in Seq(Staging)
    BY <1>4, <2>1, RemoveAtElements DEF RemoveStaged
  <2> QED
    BY <1>1, <1>4, <2>2 DEF RemoveStaged, DialogInv, DialogTypes, StagedInv, Up, creating
<1> QED
  BY <1>2, <1>3, <1>4

(* What a request carried out unheard leaves on the server: its workspace  *)
(* is an orphan, and every other is as it was.                             *)
LEMMA UnheardKeeps ==
  ASSUME DialogTypes, CreationUnheard
  PROVE  /\ wsFiles' \in Seq(Seq(Staging)) /\ orphans' \subseteq DOMAIN wsFiles'
         /\ DOMAIN wsFiles \subseteq DOMAIN wsFiles' /\ orphans \subseteq orphans'
         /\ \A w \in DOMAIN wsFiles' \ orphans' : w \in DOMAIN wsFiles /\ w # creation.ws
         /\ \A w \in DOMAIN wsFiles \ {creation.ws} : wsFiles'[w] = wsFiles[w]
<1>1. /\ wsFiles \in Seq(Seq(Staging)) /\ Len(wsFiles) \in Nat /\ DOMAIN wsFiles = 1..Len(wsFiles)
      /\ creation.files \in Seq(Staging) /\ orphans \subseteq DOMAIN wsFiles
  BY DEF DialogTypes
<1>2. CASE creation.phase = "create"
  <2>1. /\ wsFiles' = Append(wsFiles, <<>>) /\ orphans' = orphans \cup {Len(wsFiles) + 1}
    BY <1>2 DEF CreationUnheard
  <2>2. creation.ws = 0
    BY <1>2 DEF DialogTypes
  <2>3. /\ wsFiles' \in Seq(Seq(Staging)) /\ DOMAIN wsFiles' = 1..(Len(wsFiles) + 1)
        /\ \A w \in 1..Len(wsFiles) : wsFiles'[w] = wsFiles[w]
    BY <1>1, <2>1, AppendProperties
  <2> QED
    BY <1>1, <2>1, <2>2, <2>3
<1>3. CASE creation.phase # "create"
  <2> DEFINE w == creation.ws
             f == Head(creation.files)
  <2>1. /\ creation.phase = "upload" /\ creation.files # <<>>
        /\ wsFiles' = [wsFiles EXCEPT ![w] = Append(wsFiles[w], f)]
        /\ orphans' = orphans \cup {w}
    BY <1>3 DEF CreationUnheard
  <2>2. w \in DOMAIN wsFiles /\ w \in 1..Len(wsFiles) /\ wsFiles[w] \in Seq(Staging)
    <3>1. w = Len(wsFiles) /\ wsFiles # <<>>
      BY <2>1 DEF DialogTypes
    <3>2. w \in 1..Len(wsFiles)
      BY <1>1, <3>1
    <3> QED
      BY <1>1, <3>2
  <2>3. f \in Staging
    BY <1>1, <2>1, RangeOfTail
  <2> HIDE DEF f, w
  <2>4. Append(wsFiles[w], f) \in Seq(Staging)
    BY <2>2, <2>3, RangeAppended
  <2>5. wsFiles' \in Seq(Seq(Staging)) /\ Len(wsFiles') = Len(wsFiles)
    BY <1>1, <2>1, <2>2, <2>4, ExceptSeq
  <2>6. DOMAIN wsFiles' = DOMAIN wsFiles /\ \A v \in DOMAIN wsFiles \ {w} : wsFiles'[v] = wsFiles[v]
    BY <2>1
  <2> QED
    BY <1>1, <2>1, <2>2, <2>5, <2>6 DEF w
<1> QED
  BY <1>2, <1>3

(* The requests.                                                           *)
LEMMA CreationSteps ==
  ASSUME DialogInv, Submit \/ CreateWorkspace \/ UploadStaged \/ CreationFails \/ CreationUnheard \/ Created
  PROVE  DialogInv'
<1>1. /\ DialogTypes /\ wsFiles \in Seq(Seq(Staging)) /\ Len(wsFiles) \in Nat
      /\ DOMAIN wsFiles = 1..Len(wsFiles) /\ stagedFiles \in Seq(Staging) /\ creation.files \in Seq(Staging)
  BY DEF DialogInv, DialogTypes
<1>2. CASE Submit
  <2>1. /\ creation' = [phase |-> "create", files |-> stagedFiles, ws |-> 0] /\ ~creating
        /\ UNCHANGED <<wsFiles, zoneRows, stagedFiles, orphans, zoneStray, late, modalOpen>>
        /\ modalError' = FALSE
    BY <1>2 DEF Submit, dialogVars
  <2>2. creation'.phase = "create" /\ creation'.files = stagedFiles
    BY <2>1
  <2>3. DialogTypes'
    BY <1>1, <2>1 DEF DialogTypes
  <2> QED
    BY <2>1, <2>2, <2>3 DEF DialogInv, StagedInv, Up, creating
<1>3. CASE CreateWorkspace
  <2>1. /\ wsFiles' = Append(wsFiles, <<>>) /\ creation.phase = "create"
        /\ creation' = [creation EXCEPT !.phase = "upload", !.ws = Len(wsFiles) + 1]
        /\ UNCHANGED <<zoneRows, stagedFiles, orphans, zoneStray, late, modalOpen, modalError>>
    BY <1>3 DEF CreateWorkspace, dialogVars, wsNotes
  <2>2. /\ creation' \in [phase : {"none", "create", "upload"}, files : Seq(Staging), ws : Nat]
        /\ creation'.phase = "upload" /\ creation'.ws = Len(wsFiles) + 1 /\ creation'.files = creation.files
    <3> DEFINE c == [creation EXCEPT !.phase = "upload"]
    <3>1. /\ c \in [phase : {"none", "create", "upload"}, files : Seq(Staging), ws : Nat]
          /\ c.phase = "upload" /\ c.files = creation.files
      BY <1>1 DEF DialogTypes
    <3>2. creation' = [c EXCEPT !.ws = Len(wsFiles) + 1]
      BY <2>1
    <3> HIDE DEF c
    <3> QED
      BY <1>1, <3>1, <3>2
  <2>3. /\ wsFiles' \in Seq(Seq(Staging)) /\ Len(wsFiles') = Len(wsFiles) + 1
        /\ DOMAIN wsFiles' = 1..(Len(wsFiles) + 1) /\ wsFiles'[Len(wsFiles) + 1] = <<>>
    BY <1>1, <2>1, AppendProperties
  <2>4. wsFiles' # <<>> /\ DOMAIN wsFiles \subseteq DOMAIN wsFiles'
    BY <1>1, <2>3
  <2>5. DialogTypes'
    BY <1>1, <2>1, <2>2, <2>3, <2>4 DEF DialogTypes
  <2>6. Up = {} /\ Up' = {} /\ creating /\ creating'
    BY <2>1, <2>2, <2>3 DEF Up, creating, Range
  <2> QED
    BY <2>1, <2>2, <2>5, <2>6 DEF DialogInv, StagedInv
<1>4. CASE UploadStaged
  <2> DEFINE w == creation.ws
             f == Head(creation.files)
  <2>1. /\ creation.phase = "upload" /\ creation.files # <<>>
        /\ wsFiles' = [wsFiles EXCEPT ![w] = Append(wsFiles[w], f)]
        /\ creation' = [creation EXCEPT !.files = Tail(creation.files)]
        /\ UNCHANGED <<zoneRows, stagedFiles, orphans, zoneStray, late, modalOpen, modalError>>
    BY <1>4 DEF UploadStaged, dialogVars, wsNotes
  <2>2. /\ f \in Staging /\ Tail(creation.files) \in Seq(Staging)
        /\ Range(creation.files) = {f} \cup Range(Tail(creation.files))
    BY <1>1, <2>1, RangeOfTail
  <2>3. w = Len(wsFiles) /\ w \in DOMAIN wsFiles /\ w \in 1..Len(wsFiles) /\ wsFiles[w] \in Seq(Staging)
    <3>1. w = Len(wsFiles) /\ wsFiles # <<>>
      BY <1>1, <2>1 DEF DialogTypes
    <3>2. w \in 1..Len(wsFiles)
      BY <1>1, <3>1
    <3> QED
      BY <1>1, <3>1, <3>2
  <2>4. /\ creation' \in [phase : {"none", "create", "upload"}, files : Seq(Staging), ws : Nat]
        /\ creation'.phase = "upload" /\ creation'.ws = w /\ creation'.files = Tail(creation.files)
    BY <1>1, <2>1, <2>2 DEF DialogTypes
  <2> HIDE DEF f, w
  <2>5. Append(wsFiles[w], f) \in Seq(Staging) /\ Range(Append(wsFiles[w], f)) = Range(wsFiles[w]) \cup {f}
    BY <2>2, <2>3, RangeAppended
  <2>6. /\ wsFiles' \in Seq(Seq(Staging)) /\ Len(wsFiles') = Len(wsFiles)
        /\ wsFiles'[w] = Append(wsFiles[w], f)
    BY <1>1, <2>1, <2>3, <2>5, ExceptSeq
  <2>7. DOMAIN wsFiles' = DOMAIN wsFiles /\ wsFiles' # <<>>
    BY <1>1, <2>3, <2>6
  <2>8. DialogTypes'
    BY <1>1, <2>1, <2>3, <2>4, <2>6, <2>7 DEF DialogTypes
  <2>9. Up = Range(wsFiles[w]) /\ Up' = Range(wsFiles[w]) \cup {f} /\ creating /\ creating'
    BY <2>1, <2>4, <2>5, <2>6 DEF Up, creating, w
  <2> QED
    BY <2>1, <2>2, <2>4, <2>8, <2>9 DEF DialogInv, StagedInv
<1>5. CASE CreationFails \/ Created
  <2>1. /\ creation' = NoCreation /\ NoCreation.phase = "none" /\ NoCreation.ws = 0
        /\ NoCreation \in [phase : {"none", "create", "upload"}, files : Seq(Staging), ws : Nat]
        /\ late' = {} /\ wsFiles' = wsFiles
    BY <1>5 DEF CreationFails, Created, NoCreation
  <2>2. /\ \/ UNCHANGED <<zoneRows, stagedFiles, zoneStray>>
           \/ zoneRows' = <<>> /\ stagedFiles' = <<>>
        /\ modalOpen' \in {modalOpen, FALSE} /\ modalError' \in {modalError, TRUE}
    BY <1>5 DEF CreationFails, Created, dialogVars
  <2>3. orphans' \subseteq DOMAIN wsFiles
    <3>1. creation.ws # 0 => creation.ws \in DOMAIN wsFiles
      BY <1>1 DEF DialogTypes
    <3> QED
      BY <1>1, <1>5, <3>1 DEF CreationFails, Created, DialogTypes
  <2>4. zoneRows' \in Seq(Staging) /\ stagedFiles' \in Seq(Staging)
    <3>1. <<>> \in Seq(Staging)
      OBVIOUS
    <3> QED
      BY <1>1, <2>2, <3>1 DEF DialogTypes
  <2>5. modalOpen' \in BOOLEAN /\ modalError' \in BOOLEAN
    BY <1>1, <2>2 DEF DialogTypes
  <2>6. DialogTypes'
    BY <1>1, <2>1, <2>3, <2>4, <2>5 DEF DialogTypes
  <2> QED
    BY <2>1, <2>2, <2>6 DEF DialogInv, StagedInv, creating
<1>6. CASE CreationUnheard
  <2>1. /\ creation' = NoCreation /\ NoCreation.phase = "none" /\ NoCreation.ws = 0
        /\ NoCreation \in [phase : {"none", "create", "upload"}, files : Seq(Staging), ws : Nat]
        /\ late' = {} /\ modalError' = TRUE
        /\ UNCHANGED <<zoneRows, stagedFiles, modalOpen, zoneStray>>
    BY <1>6 DEF CreationUnheard, NoCreation, dialogVars
  <2>2. wsFiles' \in Seq(Seq(Staging)) /\ orphans' \subseteq DOMAIN wsFiles'
    BY <1>6, UnheardKeeps DEF DialogInv
  <2>3. DialogTypes'
    BY <1>1, <2>1, <2>2 DEF DialogTypes
  <2> QED
    BY <2>1, <2>3 DEF DialogInv, StagedInv, creating
<1> QED
  BY <1>2, <1>3, <1>4, <1>5, <1>6

LEMMA DialogInvStep == DialogInv /\ [NewNext]_newVars => DialogInv'
<1> SUFFICES ASSUME DialogInv, [NewNext]_newVars PROVE DialogInv'
  OBVIOUS
<1>1. CASE AnswerWorkspaces \/ MirrorList \/ ListFails \/ RetryList \/ UNCHANGED newVars
  <2>1. UNCHANGED <<wsFiles, zoneRows, stagedFiles, creation, orphans, zoneStray, late, modalOpen, modalError>>
    BY <1>1 DEF AnswerWorkspaces, MirrorList, ListFails, RetryList, newVars, dialogVars, wsNotes
  <2> QED
    BY <2>1 DEF DialogInv, DialogTypes, StagedInv, Up, creating
<1> QED
  BY <1>1, StagingSteps, CreationSteps DEF NewNext

(* What a step that reports success finds.                                 *)
LEMMA DeliversStep ==
  ASSUME DialogInv, [NewNext]_newVars, creating, creation' = NoCreation, ~modalError'
  PROVE  LET up == Range(wsFiles[creation.ws]) IN
           /\ Range(stagedFiles) \ late \subseteq up
           /\ zoneStray \/ Range(zoneRows) = up \cup late
<1>1. creation' # creation
  BY DEF creating, NoCreation
<1>2. \/ AnswerWorkspaces \/ MirrorList \/ ListFails \/ RetryList \/ OpenModal \/ CloseModal
      \/ (\E f \in Staging : Stage(f)) \/ (\E i \in DOMAIN zoneRows : RemoveStaged(i)) \/ UNCHANGED newVars
      => creation' = creation
  BY DEF newVars, AnswerWorkspaces, MirrorList, ListFails, RetryList, OpenModal, CloseModal, Stage, RemoveStaged
<1>3. ~Submit /\ ~CreateWorkspace /\ ~UploadStaged /\ ~CreationFails /\ ~CreationUnheard
  <2>1. creation'.phase = "none"
    BY DEF NoCreation
  <2>2. ~Submit /\ ~CreationFails /\ ~CreationUnheard
    BY <2>1 DEF Submit, CreationFails, CreationUnheard
  <2>3. /\ creation \in [phase : {"none", "create", "upload"}, files : Seq(Staging), ws : Nat]
    BY DEF DialogInv, DialogTypes
  <2>4. UploadStaged => creation'.phase = "upload"
    BY <2>3 DEF UploadStaged
  <2>5. CreateWorkspace => creation'.phase = "upload"
    BY <2>3 DEF CreateWorkspace
  <2> QED
    BY <2>1, <2>2, <2>4, <2>5
<1>4. Created
  BY <1>1, <1>2, <1>3 DEF NewNext
<1>5. creation.phase = "upload" /\ Range(creation.files) = {}
  BY <1>4 DEF Created, Range
<1> QED
  BY <1>5 DEF DialogInv, StagedInv, Up

(* For any files and workspaces: a dialog that reports success has         *)
(* delivered the files that were staged and shown, but for late ones.      *)
THEOREM DialogDeliversHolds == NewSpec => DialogDelivers
<1>1. DialogInv /\ [NewNext]_newVars =>
        [creating /\ creation' = NoCreation /\ ~modalError' =>
           LET up == Range(wsFiles[creation.ws]) IN
             /\ Range(stagedFiles) \ late \subseteq up
             /\ zoneStray \/ Range(zoneRows) = up \cup late]_newVars
  BY DeliversStep
<1> QED
  BY <1>1, DialogInvInit, DialogInvStep, PTL DEF NewSpec, DialogDelivers

-----------------------------------------------------------------------------
(* The table of all workspaces.  Unless the list was loading while a       *)
(* workspace was being created, every answer finds the server as it was    *)
(* asked for: the one being created is the newest, and no row has it yet.  *)

TableRow == [ws : DOMAIN wsFiles, count : Nat]
Descending(rows) == \A i, j \in DOMAIN rows : i < j => rows[i].ws > rows[j].ws

TableTypes ==
  /\ wsList \in {"loading", "answered", "ready", "error"}
  /\ wsRows \in Seq(TableRow) /\ wsFetched \in Seq(TableRow)

TableApart ==
  ~listCrossed =>
    /\ wsList \in {"loading", "answered"} => ~creating
    /\ wsList = "answered" => wsFetched = ServerRows

RowsRight ==
  ~listCrossed /\ wsList = "ready" =>
    /\ \A i \in DOMAIN wsRows :
         wsRows[i].ws # creation.ws /\ wsRows[i].count = Len(wsFiles[wsRows[i].ws])
    /\ \A w \in DOMAIN wsFiles \ orphans :
         w # creation.ws => \E i \in DOMAIN wsRows : wsRows[i].ws = w
    /\ Descending(wsRows)

TableInv == DialogInv /\ TableTypes /\ TableApart /\ RowsRight

LEMMA RowsTyped ==
  ASSUME DialogTypes
  PROVE  \A rows \in Seq(TableRow) : \A i \in DOMAIN rows :
           /\ rows[i] \in TableRow
           /\ rows[i].ws \in DOMAIN wsFiles /\ rows[i].ws \in 1..Len(wsFiles) /\ rows[i].ws # 0
<1> SUFFICES ASSUME NEW rows \in Seq(TableRow), NEW i \in DOMAIN rows
             PROVE  /\ rows[i] \in TableRow
                    /\ rows[i].ws \in DOMAIN wsFiles /\ rows[i].ws \in 1..Len(wsFiles) /\ rows[i].ws # 0
  OBVIOUS
<1>1. DOMAIN wsFiles = 1..Len(wsFiles) /\ Len(wsFiles) \in Nat
  BY DEF DialogTypes
<1>2. rows[i] \in TableRow
  OBVIOUS
<1>3. rows[i].ws \in DOMAIN wsFiles
  BY <1>2 DEF TableRow
<1> QED
  BY <1>1, <1>2, <1>3

LEMMA ServerRowsRight ==
  ASSUME DialogTypes
  PROVE  /\ ServerRows \in Seq(TableRow)
         /\ \A i \in DOMAIN ServerRows : ServerRows[i].count = Len(wsFiles[ServerRows[i].ws])
         /\ \A w \in DOMAIN wsFiles : \E i \in DOMAIN ServerRows : ServerRows[i].ws = w
         /\ Descending(ServerRows)
<1> DEFINE n == Len(wsFiles)
           counts == [w \in DOMAIN wsFiles |-> [ws |-> w, count |-> Len(wsFiles[w])]]
<1>1. n \in Nat /\ DOMAIN wsFiles = 1..n /\ \A w \in 1..n : Len(wsFiles[w]) \in Nat
  BY DEF DialogTypes
<1>2. \A w \in 1..n : counts[w] \in TableRow /\ counts[w].ws = w /\ counts[w].count = Len(wsFiles[w])
  BY <1>1 DEF TableRow
<1>3. counts \in Seq(TableRow) /\ DOMAIN counts = 1..n
  BY <1>1, <1>2
<1>4. Len(counts) = n
  BY <1>1, <1>3
<1> HIDE DEF counts, n
<1>5. ServerRows = [i \in 1..n |-> counts[(n - i) + 1]]
  BY <1>4 DEF ServerRows, Reverse, counts
<1>6. \A i \in 1..n : (n - i) + 1 \in 1..n
  BY <1>1
<1>7. /\ DOMAIN ServerRows = 1..n
      /\ \A i \in 1..n : /\ ServerRows[i] \in TableRow /\ ServerRows[i].ws = (n - i) + 1
                         /\ ServerRows[i].count = Len(wsFiles[(n - i) + 1])
  BY <1>2, <1>5, <1>6
<1>8. ServerRows \in Seq(TableRow)
  BY <1>1, <1>5, <1>7
<1>9. \A w \in DOMAIN wsFiles : (n - w) + 1 \in 1..n /\ (n - ((n - w) + 1)) + 1 = w
  BY <1>1
<1>10. \A w \in DOMAIN wsFiles : \E i \in DOMAIN ServerRows : ServerRows[i].ws = w
  BY <1>7, <1>9
<1>11. Descending(ServerRows)
  BY <1>1, <1>7 DEF Descending
<1> QED
  BY <1>7, <1>8, <1>10, <1>11

LEMMA TableInvInit == NewInit => TableInv
<1> SUFFICES ASSUME NewInit PROVE TableInv
  OBVIOUS
<1>1. <<>> \in Seq(TableRow)
  OBVIOUS
<1> QED
  BY <1>1, DialogInvInit DEF NewInit, TableInv, TableTypes, TableApart, RowsRight, creating, NoCreation

(* The list.                                                               *)
LEMMA TableLoadSteps ==
  ASSUME TableInv, AnswerWorkspaces \/ MirrorList \/ ListFails \/ RetryList
  PROVE  TableTypes' /\ TableApart' /\ RowsRight'
<1>1. DialogTypes /\ UNCHANGED <<wsFiles, creation, orphans>>
  BY DEF TableInv, DialogInv, AnswerWorkspaces, MirrorList, ListFails, RetryList, wsNotes
<1>2. UNCHANGED <<TableRow, ServerRows, creating>>
  BY <1>1 DEF TableRow, ServerRows, creating
<1>3. CASE AnswerWorkspaces
  BY <1>1, <1>2, <1>3, ServerRowsRight
     DEF AnswerWorkspaces, wsNotes, TableInv, TableTypes, TableApart, RowsRight
<1>4. CASE MirrorList
  <2>1. /\ wsList = "answered" /\ wsList' = "ready" /\ wsRows' = wsFetched
        /\ UNCHANGED <<wsFetched, listCrossed>>
    BY <1>4 DEF MirrorList, wsNotes
  <2>2. ~listCrossed => wsFetched = ServerRows /\ ~creating
    BY <2>1 DEF TableInv, TableApart
  <2>3. ~creating => creation.ws = 0
    BY <1>1 DEF DialogTypes, creating
  <2>4. \A i \in DOMAIN wsFetched : wsFetched[i].ws \in DOMAIN wsFiles /\ wsFetched[i].ws # 0
    BY <1>1, RowsTyped DEF TableInv, TableTypes
  <2>5. RowsRight'
    BY <1>1, <2>1, <2>2, <2>3, <2>4, ServerRowsRight DEF RowsRight, Descending
  <2> QED
    BY <1>1, <1>2, <2>1, <2>2, <2>5 DEF TableInv, TableTypes, TableApart
<1>5. CASE ListFails \/ RetryList
  <2>1. /\ UNCHANGED <<wsRows, wsFetched>> /\ wsList' \in {"error", "loading"}
        /\ (~listCrossed' => ~listCrossed /\ (wsList' = "loading" => ~creating))
    <3>1. CASE ListFails
      BY <3>1 DEF ListFails, wsNotes
    <3>2. CASE RetryList
      <4>1. UNCHANGED <<wsRows, wsFetched>> /\ wsList' = "loading" /\ listCrossed' = (listCrossed \/ creating)
        BY <3>2 DEF RetryList
      <4>2. ~listCrossed' => ~listCrossed /\ ~creating
        BY <4>1, Zenon
      <4> QED
        BY <4>1, <4>2
    <3> QED
      BY <1>5, <3>1, <3>2
  <2> QED
    BY <1>1, <1>2, <2>1 DEF TableInv, TableTypes, TableApart, RowsRight
<1> QED
  BY <1>3, <1>4, <1>5

(* A workspace is created on the server, and its files uploaded.           *)
LEMMA TableServerSteps ==
  ASSUME TableInv, CreateWorkspace \/ UploadStaged
  PROVE  TableTypes' /\ TableApart' /\ RowsRight'
<1>1. /\ DialogTypes /\ wsFiles \in Seq(Seq(Staging)) /\ Len(wsFiles) \in Nat /\ DOMAIN wsFiles = 1..Len(wsFiles)
      /\ creating /\ UNCHANGED <<wsList, wsRows, wsFetched, listCrossed, orphans>>
  BY DEF TableInv, DialogInv, DialogTypes, CreateWorkspace, UploadStaged, creating, wsPage, wsNotes
<1>2. creation \in [phase : {"none", "create", "upload"}, files : Seq(Staging), ws : Nat]
  BY <1>1 DEF DialogTypes
<1>3. /\ \A w \in DOMAIN wsFiles \ {creation.ws} : w \in DOMAIN wsFiles' /\ wsFiles'[w] = wsFiles[w] /\ w # creation'.ws
      /\ \A w \in DOMAIN wsFiles' \ {creation'.ws} : w \in DOMAIN wsFiles /\ w # creation.ws
      /\ DOMAIN wsFiles \subseteq DOMAIN wsFiles'
  <2>1. CASE CreateWorkspace
    <3>1. wsFiles' = Append(wsFiles, <<>>) /\ creation.phase = "create"
      BY <2>1 DEF CreateWorkspace
    <3>2. creation'.ws = Len(wsFiles) + 1
      <4>1. creation' = [[creation EXCEPT !.phase = "upload"] EXCEPT !.ws = Len(wsFiles) + 1]
        BY <2>1 DEF CreateWorkspace
      <4> QED
        BY <1>2, <4>1
    <3>3. creation.ws = 0
      BY <1>1, <3>1 DEF DialogTypes
    <3>4. /\ DOMAIN wsFiles' = 1..(Len(wsFiles) + 1)
          /\ \A w \in 1..Len(wsFiles) : wsFiles'[w] = wsFiles[w]
      BY <1>1, <3>1, AppendProperties
    <3> QED
      BY <1>1, <3>2, <3>3, <3>4
  <2>2. CASE UploadStaged
    <3>1. wsFiles' = [wsFiles EXCEPT ![creation.ws] = Append(wsFiles[creation.ws], Head(creation.files))]
      BY <2>2 DEF UploadStaged
    <3>2. creation'.ws = creation.ws
      BY <1>2, <2>2 DEF UploadStaged
    <3> QED
      BY <1>1, <3>1, <3>2
  <2> QED
    BY <2>1, <2>2
<1>4. TableTypes'
  <2>1. \A r \in TableRow : r \in TableRow'
    BY <1>3 DEF TableRow
  <2>2. wsRows \in Seq(TableRow') /\ wsFetched \in Seq(TableRow')
    BY <2>1 DEF TableInv, TableTypes
  <2> QED
    BY <1>1, <2>2 DEF TableInv, TableTypes
<1>5. TableApart'
  BY <1>1 DEF TableInv, TableApart
<1>6. RowsRight'
  <2>1. \A i \in DOMAIN wsRows : wsRows[i].ws \in DOMAIN wsFiles
    BY <1>1, RowsTyped DEF TableInv, TableTypes
  <2> QED
    BY <1>1, <1>3, <2>1 DEF TableInv, RowsRight
<1> QED
  BY <1>4, <1>5, <1>6

LEMMA SubmitStep == ASSUME TableInv, Submit PROVE TableTypes' /\ TableApart' /\ RowsRight'
<1>1. /\ DialogTypes /\ ~creating /\ creation' = [phase |-> "create", files |-> stagedFiles, ws |-> 0]
      /\ listCrossed' = (listCrossed \/ wsList \in {"loading", "answered"})
      /\ UNCHANGED <<wsFiles, wsList, wsRows, wsFetched, orphans>>
  BY DEF TableInv, DialogInv, Submit, wsPage
<1>2. creation'.ws = 0 /\ creation.ws = 0 /\ UNCHANGED TableRow
  BY <1>1 DEF DialogTypes, creating, TableRow
<1>3. ~listCrossed' => ~listCrossed /\ wsList \notin {"loading", "answered"}
  BY <1>1, Zenon
<1>4. TableTypes' /\ TableApart'
  BY <1>1, <1>2, <1>3 DEF TableInv, TableTypes, TableApart
<1>5. RowsRight'
  BY <1>1, <1>2, <1>3 DEF TableInv, RowsRight
<1> QED
  BY <1>4, <1>5

(* A request is carried out and its answer lost.                           *)
LEMMA UnheardStep == ASSUME TableInv, CreationUnheard PROVE TableTypes' /\ TableApart' /\ RowsRight'
<1>1. /\ DialogTypes /\ creating /\ ~creating' /\ creation'.ws = 0
      /\ UNCHANGED <<wsList, wsRows, wsFetched, listCrossed>>
  BY DEF TableInv, DialogInv, CreationUnheard, creating, NoCreation, wsPage
<1>2. /\ DOMAIN wsFiles \subseteq DOMAIN wsFiles' /\ orphans \subseteq orphans'
      /\ \A w \in DOMAIN wsFiles' \ orphans' : w \in DOMAIN wsFiles /\ w # creation.ws
      /\ \A w \in DOMAIN wsFiles \ {creation.ws} : wsFiles'[w] = wsFiles[w]
  BY <1>1, UnheardKeeps
<1>3. TableTypes'
  <2>1. \A r \in TableRow : r \in TableRow'
    BY <1>2 DEF TableRow
  <2>2. wsRows \in Seq(TableRow') /\ wsFetched \in Seq(TableRow')
    BY <2>1 DEF TableInv, TableTypes
  <2> QED
    BY <1>1, <2>2 DEF TableInv, TableTypes
<1>4. TableApart'
  BY <1>1 DEF TableInv, TableApart
<1>5. RowsRight'
  <2>1. \A i \in DOMAIN wsRows : wsRows[i].ws \in DOMAIN wsFiles /\ wsRows[i].ws # 0
    BY <1>1, RowsTyped DEF TableInv, TableTypes
  <2> QED
    BY <1>1, <1>2, <2>1 DEF TableInv, RowsRight
<1> QED
  BY <1>3, <1>4, <1>5

(* A creation ends: its row is added, or its workspace has files missing.  *)
LEMMA CreationEndsStep ==
  ASSUME TableInv, CreationFails \/ Created
  PROVE  TableTypes' /\ TableApart' /\ RowsRight'
<1> DEFINE w == creation.ws
           new == [ws |-> w, count |-> Len(wsFiles[w])]
<1>1. /\ DialogTypes /\ wsFiles \in Seq(Seq(Staging)) /\ Len(wsFiles) \in Nat /\ DOMAIN wsFiles = 1..Len(wsFiles)
      /\ wsRows \in Seq(TableRow) /\ creating
      /\ creation' = NoCreation /\ NoCreation.ws = 0 /\ NoCreation.phase = "none"
      /\ UNCHANGED <<wsFiles, wsList, wsFetched, listCrossed>>
  BY DEF TableInv, TableTypes, DialogInv, DialogTypes, CreationFails, Created, NoCreation, creating, wsPage
<1>2. ~creating' /\ UNCHANGED <<TableRow, ServerRows>> /\ creation'.ws = 0
  BY <1>1 DEF creating, TableRow, ServerRows
<1>3. \A i \in DOMAIN wsRows : wsRows[i] \in TableRow /\ wsRows[i].ws \in 1..Len(wsFiles)
  BY <1>1, RowsTyped
<1>4. CASE CreationFails
  <2>1. wsRows' = wsRows /\ orphans' = IF w = 0 THEN orphans ELSE orphans \cup {w}
    BY <1>4 DEF CreationFails, wsPage
  <2>2. TableTypes' /\ TableApart'
    BY <1>1, <1>2, <2>1 DEF TableInv, TableTypes, TableApart
  <2>3. RowsRight'
    BY <1>1, <1>2, <1>3, <2>1 DEF TableInv, RowsRight
  <2> QED
    BY <2>2, <2>3
<1>5. CASE Created
  <2>1. wsRows' = <<new>> \o wsRows /\ orphans' = orphans /\ creation.phase = "upload"
    BY <1>5 DEF Created
  <2>2. w = Len(wsFiles) /\ w \in DOMAIN wsFiles
    BY <1>1, <2>1 DEF DialogTypes
  <2>3. new \in TableRow /\ new.ws = w /\ new.count = Len(wsFiles[w])
    BY <1>1, <2>2 DEF TableRow
  <2> HIDE DEF new, w
  <2>4. <<new>> \in Seq(TableRow) /\ Len(<<new>>) = 1 /\ <<new>>[1] = new
    BY <2>3
  <2>5. /\ wsRows' \in Seq(TableRow) /\ Len(wsRows') = 1 + Len(wsRows)
        /\ \A i \in 1..(1 + Len(wsRows)) : wsRows'[i] = IF i <= 1 THEN <<new>>[i] ELSE wsRows[i - 1]
    BY <1>1, <2>1, <2>4, ConcatProperties
  <2>6. /\ DOMAIN wsRows = 1..Len(wsRows) /\ Len(wsRows) \in Nat
        /\ DOMAIN wsRows' = 1..(Len(wsRows) + 1) /\ wsRows'[1] = new
    BY <1>1, <2>4, <2>5
  <2>7. /\ \A i \in DOMAIN wsRows' : i = 1 \/ (i - 1 \in DOMAIN wsRows /\ wsRows'[i] = wsRows[i - 1])
        /\ \A i \in DOMAIN wsRows : i + 1 \in DOMAIN wsRows' /\ wsRows'[i + 1] = wsRows[i]
    BY <2>5, <2>6
  <2>8. TableTypes' /\ TableApart'
    BY <1>1, <1>2, <2>5 DEF TableInv, TableTypes, TableApart
  <2>9. ASSUME ~listCrossed, wsList = "ready"
        PROVE  /\ \A i \in DOMAIN wsRows' :
                    wsRows'[i].ws # 0 /\ wsRows'[i].count = Len(wsFiles[wsRows'[i].ws])
               /\ \A v \in DOMAIN wsFiles \ orphans : \E i \in DOMAIN wsRows' : wsRows'[i].ws = v
               /\ Descending(wsRows')
    <3>1. /\ \A i \in DOMAIN wsRows : wsRows[i].ws # w /\ wsRows[i].count = Len(wsFiles[wsRows[i].ws])
          /\ \A v \in DOMAIN wsFiles \ orphans : v # w => \E i \in DOMAIN wsRows : wsRows[i].ws = v
          /\ Descending(wsRows)
      BY <2>9 DEF TableInv, RowsRight, w
    <3>2. \A i \in DOMAIN wsRows' : wsRows'[i].ws # 0 /\ wsRows'[i].count = Len(wsFiles[wsRows'[i].ws])
      <4>1. new.ws # 0 /\ new.count = Len(wsFiles[new.ws])
        BY <1>1, <2>2, <2>3
      <4>2. \A i \in DOMAIN wsRows : wsRows[i].ws # 0 /\ wsRows[i].count = Len(wsFiles[wsRows[i].ws])
        BY <1>1, <1>3, <3>1
      <4> QED
        BY <2>6, <2>7, <4>1, <4>2
    <3>3. ASSUME NEW v \in DOMAIN wsFiles \ orphans PROVE \E i \in DOMAIN wsRows' : wsRows'[i].ws = v
      <4>1. CASE v = w
        BY <2>3, <2>6, <4>1
      <4>2. CASE v # w
        BY <2>7, <3>1, <4>2
      <4> QED
        BY <4>1, <4>2
    <3>4. \A i \in DOMAIN wsRows : w > wsRows[i].ws
      BY <1>1, <1>3, <2>2, <3>1
    <3>5. ASSUME NEW i \in DOMAIN wsRows', NEW j \in DOMAIN wsRows', i < j PROVE wsRows'[i].ws > wsRows'[j].ws
      <4>1. j - 1 \in DOMAIN wsRows /\ wsRows'[j] = wsRows[j - 1]
        BY <2>6, <2>7, <3>5
      <4>2. CASE i = 1
        BY <2>3, <2>6, <3>4, <4>1, <4>2
      <4>3. CASE i # 1
        <5>1. i - 1 \in DOMAIN wsRows /\ wsRows'[i] = wsRows[i - 1] /\ i - 1 < j - 1
          BY <2>6, <2>7, <3>5, <4>3
        <5> QED
          BY <3>1, <4>1, <5>1 DEF Descending
      <4> QED
        BY <4>2, <4>3
    <3> QED
      BY <3>2, <3>3, <3>5 DEF Descending
  <2>10. RowsRight'
    <3>1. creation'.ws = 0 /\ UNCHANGED <<wsFiles, wsList, listCrossed, orphans>>
      BY <1>1, <1>2, <2>1
    <3>2. ASSUME ~listCrossed', wsList' = "ready"
          PROVE  /\ \A i \in DOMAIN wsRows' :
                      wsRows'[i].ws # creation'.ws /\ wsRows'[i].count = Len(wsFiles'[wsRows'[i].ws])
                 /\ \A v \in DOMAIN wsFiles' \ orphans' :
                      v # creation'.ws => \E i \in DOMAIN wsRows' : wsRows'[i].ws = v
                 /\ Descending(wsRows')
      BY <2>9, <3>1, <3>2
    <3> QED
      BY <3>2 DEF RowsRight
  <2> QED
    BY <2>8, <2>10
<1> QED
  BY <1>4, <1>5

LEMMA TableInvStep == TableInv /\ [NewNext]_newVars => TableInv'
<1> SUFFICES ASSUME TableInv, [NewNext]_newVars PROVE TableInv'
  OBVIOUS
<1>1. DialogInv'
  BY DialogInvStep DEF TableInv
<1>2. CASE \/ OpenModal \/ CloseModal \/ (\E f \in Staging : Stage(f))
           \/ (\E i \in DOMAIN zoneRows : RemoveStaged(i)) \/ UNCHANGED newVars
  <2>1. UNCHANGED <<wsFiles, wsList, wsFetched, wsRows, creation, orphans, listCrossed>>
    BY <1>2 DEF OpenModal, CloseModal, Stage, RemoveStaged, newVars, wsPage, wsNotes
  <2>2. UNCHANGED <<TableRow, ServerRows, creating>>
    BY <2>1 DEF TableRow, ServerRows, creating
  <2> QED
    BY <1>1, <2>1, <2>2 DEF TableInv, TableTypes, TableApart, RowsRight, Descending
<1>3. CASE AnswerWorkspaces \/ MirrorList \/ ListFails \/ RetryList
  BY <1>1, <1>3, TableLoadSteps DEF TableInv
<1>4. CASE CreateWorkspace \/ UploadStaged
  BY <1>1, <1>4, TableServerSteps DEF TableInv
<1>5. CASE Submit
  BY <1>1, <1>5, SubmitStep DEF TableInv
<1>6. CASE CreationFails \/ Created
  BY <1>1, <1>6, CreationEndsStep DEF TableInv
<1>7. CASE CreationUnheard
  BY <1>1, <1>7, UnheardStep DEF TableInv
<1> QED
  BY <1>2, <1>3, <1>4, <1>5, <1>6, <1>7 DEF NewNext

LEMMA TableInvHolds == TableInv => NewTypeOK /\ TableIsServer
<1> SUFFICES ASSUME TableInv PROVE NewTypeOK /\ TableIsServer
  OBVIOUS
<1>1. /\ DialogTypes /\ wsFiles \in Seq(Seq(Staging)) /\ Len(wsFiles) \in Nat /\ DOMAIN wsFiles = 1..Len(wsFiles)
      /\ \A i \in DOMAIN wsRows : wsRows[i] \in TableRow
  BY DEF TableInv, TableTypes, DialogInv, DialogTypes
<1>2. NewTypeOK
  <2>1. \A w \in DOMAIN wsFiles : wsFiles[w] \in Seq(Staging)
    BY <1>1
  <2>2. creation.ws \in 0..Len(wsFiles) /\ creation.phase \in {"none", "create", "upload"}
    BY <1>1 DEF DialogTypes
  <2>3. \A w \in DOMAIN wsFiles : \A i \in DOMAIN wsFiles[w] : wsFiles[w][i] \in Staging
    BY <2>1
  <2> QED
    BY <1>1, <2>2, <2>3 DEF NewTypeOK, TableInv, TableTypes, TableRow, DialogTypes
<1>3. ASSUME wsList = "ready", ~creating, ~listCrossed
      PROVE  /\ {row \in Range(wsRows) : row.ws \notin orphans} = {row \in Range(ServerRows) : row.ws \notin orphans}
             /\ \A i, j \in DOMAIN wsRows : i < j => wsRows[i].ws > wsRows[j].ws
  <2>1. creation.ws = 0 /\ \A w \in DOMAIN wsFiles : w # 0
    BY <1>1, <1>3 DEF DialogTypes, creating
  <2>2. /\ \A i \in DOMAIN wsRows : wsRows[i].count = Len(wsFiles[wsRows[i].ws])
        /\ \A w \in DOMAIN wsFiles \ orphans : \E i \in DOMAIN wsRows : wsRows[i].ws = w
        /\ Descending(wsRows)
    BY <1>3, <2>1 DEF TableInv, RowsRight
  <2>3. \A i \in DOMAIN ServerRows : ServerRows[i] \in TableRow
    BY <1>1, ServerRowsRight
  <2>4. \A r, t \in TableRow :
          r.ws = t.ws /\ r.count = Len(wsFiles[r.ws]) /\ t.count = Len(wsFiles[t.ws]) => r = t
    BY DEF TableRow
  <2>5. \A i \in DOMAIN wsRows : \E j \in DOMAIN ServerRows : wsRows[i] = ServerRows[j]
    <3> TAKE i \in DOMAIN wsRows
    <3>1. wsRows[i].ws \in DOMAIN wsFiles
      BY <1>1 DEF TableRow
    <3>2. PICK j \in DOMAIN ServerRows : ServerRows[j].ws = wsRows[i].ws
      BY <1>1, <3>1, ServerRowsRight
    <3> QED
      BY <1>1, <2>2, <2>3, <2>4, <3>2, ServerRowsRight
  <2>6. \A j \in DOMAIN ServerRows :
          ServerRows[j].ws \notin orphans => \E i \in DOMAIN wsRows : wsRows[i] = ServerRows[j]
    <3> SUFFICES ASSUME NEW j \in DOMAIN ServerRows, ServerRows[j].ws \notin orphans
                 PROVE  \E i \in DOMAIN wsRows : wsRows[i] = ServerRows[j]
      OBVIOUS
    <3>1. ServerRows[j].ws \in DOMAIN wsFiles \ orphans
      BY <2>3 DEF TableRow
    <3>2. PICK i \in DOMAIN wsRows : wsRows[i].ws = ServerRows[j].ws
      BY <2>2, <3>1
    <3> QED
      BY <1>1, <2>2, <2>3, <2>4, <3>2, ServerRowsRight
  <2> QED
    BY <2>2, <2>5, <2>6 DEF Range, Descending
<1> QED
  BY <1>2, <1>3 DEF TableIsServer

(* For any files and workspaces: but for creations that failed, the table  *)
(* is the server's, newest first, unless the list was loading while a      *)
(* workspace was being created.                                            *)
THEOREM TableIsServerHolds == NewSpec => []TableIsServer
BY TableInvInit, TableInvStep, TableInvHolds, PTL DEF NewSpec

(* For any files and workspaces: the table's rows are workspaces that      *)
(* exist.                                                                  *)
THEOREM NewTypesHold == NewSpec => []NewTypeOK
BY TableInvInit, TableInvStep, TableInvHolds, PTL DEF NewSpec
=============================================================================
