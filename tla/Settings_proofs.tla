--------------------------- MODULE Settings_proofs ---------------------------
(***************************************************************************)
(* Proofs about the settings pages and the saved analyses, for any number  *)
(* of connections, people, analyses and requests.                          *)
(***************************************************************************)
EXTENDS AgentDefaults, ProviderKeys, TeamMembers, SavedAnalyses, Profile, DataFacts, TLAPS

-----------------------------------------------------------------------------
(* API keys.  The server's connection and the browser's key agree: the     *)
(* proof follows the key of one row through saving and removing, which may *)
(* overlap; what a removal is at work on was listed, so it is no later row *)
(* than the last.                                                          *)

Ids == 0..lastRow
ListOf(rows) == [phase : {"sent", "answered"}, found : rows]

KeyTypes ==
  /\ lastRow \in Nat /\ row \in Ids /\ connectionId \in Ids /\ newRow \in Ids
  /\ keyStore \subseteq Ids \ {NoRow}
  /\ lists \in Seq(ListOf(Ids))
  /\ removal \in [id : Ids, phase : {"none", "sent", "deleted", "kept"}]

(* The row being saved, which a removal that overlaps marks.               *)
SaveInv ==
  /\ testing # "store" => newRow = NoRow
  /\ testing = "store" => newRow # NoRow /\ (newRow = row \/ newRow \in cutShort)
  /\ testing = "store" /\ removal.phase # "none" /\ removal.id = newRow => newRow \in cutShort

(* The row being removed, and its key until that is deleted too.           *)
RemovalInv ==
  /\ removal.phase = "none" <=> removal.id = NoRow
  /\ removal.phase = "deleted" => removal.id # row
  /\ removal.phase = "kept" => removal.id \in cutShort

StoresInv ==
  /\ row # NoRow /\ row \notin cutShort => row \in keyStore \/ row = newRow
  /\ \A k \in keyStore \ cutShort : k = row \/ (removal.phase = "deleted" /\ k = removal.id)

KeysInv == KeyTypes /\ SaveInv /\ RemovalInv /\ StoresInv

LEMMA KeysInvInit == KeysInit => KeysInv
<1> SUFFICES ASSUME KeysInit PROVE KeysInv
  OBVIOUS
<1>1. List("sent", NoRow) \in ListOf(Ids)
  BY DEF KeysInit, List, ListOf, Ids, NoRow
<1>2. <<List("sent", NoRow)>> \in Seq(ListOf(Ids))
  BY <1>1
<1>3. KeyTypes
  BY <1>2 DEF KeysInit, KeyTypes, Ids, NoRow, NoRemoval
<1> QED
  BY <1>3 DEF KeysInit, KeysInv, SaveInv, RemovalInv, StoresInv, NoRow, NoRemoval

(* Ids given are never taken back.                                         *)
LEMMA MoreIds ==
  ASSUME KeyTypes, lastRow' = lastRow + 1
  PROVE  /\ lastRow' \in Nat /\ Ids \subseteq Ids' /\ lastRow' \notin Ids
         /\ lists \in Seq(ListOf(Ids)')
         /\ removal \in [id : Ids', phase : {"none", "sent", "deleted", "kept"}]
<1>1. lastRow' \in Nat /\ Ids \subseteq Ids' /\ lastRow' \notin Ids
  BY DEF KeyTypes, Ids
<1>2. ListOf(Ids) \subseteq ListOf(Ids)'
  BY <1>1 DEF ListOf
<1>3. lists \in Seq(ListOf(Ids)')
  BY <1>2, SeqMonotonic DEF KeyTypes
<1> QED
  BY <1>1, <1>3 DEF KeyTypes

(* Steps of the page alone.                                                *)
LEMMA PageStep ==
  ASSUME KeysInv, UNCHANGED <<row, lastRow, keyStore, newRow, removal, cutShort>>,
         testing = "store" <=> testing' = "store",
         lists' \in Seq(ListOf(Ids)), connectionId' \in Ids
  PROVE  KeysInv'
BY DEF KeysInv, KeyTypes, SaveInv, RemovalInv, StoresInv, Ids, ListOf

(* A new request of the list.                                              *)
LEMMA AskedAgain ==
  ASSUME KeyTypes
  PROVE  /\ Append(lists, List("sent", NoRow)) \in Seq(ListOf(Ids))
         /\ <<List("sent", NoRow)>> \in Seq(ListOf(Ids))
<1>1. List("sent", NoRow) \in ListOf(Ids)
  BY DEF KeyTypes, List, ListOf, Ids, NoRow
<1>2. <<List("sent", NoRow)>> \in Seq(ListOf(Ids))
  BY <1>1
<1> QED
  BY <1>1, <1>2, AppendProperties DEF KeyTypes

LEMMA ListSteps ==
  ASSUME KeysInv, NEW i \in DOMAIN lists, AnswerKeyList(i) \/ ReceiveKeyList(i) \/ KeyListFails(i)
  PROVE  KeysInv'
<1>1. KeyTypes /\ lists \in Seq(ListOf(Ids)) /\ i \in 1..Len(lists) /\ lists[i].found \in Ids
  <2>1. KeyTypes /\ lists \in Seq(ListOf(Ids))
    BY DEF KeysInv, KeyTypes
  <2>2. i \in 1..Len(lists) /\ lists[i] \in ListOf(Ids)
    BY <2>1
  <2> QED
    BY <2>1, <2>2 DEF ListOf
<1>2. RemoveAt(lists, i) \in Seq(ListOf(Ids))
  BY <1>1, RemoveAtElements
<1>3. CASE AnswerKeyList(i)
  <2>1. List("answered", row) \in ListOf(Ids)
    BY <1>1 DEF KeyTypes, List, ListOf
  <2>2. lists' \in Seq(ListOf(Ids))
    BY <1>1, <1>3, <2>1, ExceptSeq DEF AnswerKeyList
  <2>3. UNCHANGED <<row, lastRow, keyStore, newRow, removal, cutShort, testing, connectionId>>
    BY <1>3 DEF AnswerKeyList, cardVars
  <2>4. connectionId' \in Ids
    BY <1>1, <2>3 DEF KeyTypes
  <2> QED
    BY <2>2, <2>3, <2>4, PageStep
<1>4. CASE ReceiveKeyList(i)
  BY <1>1, <1>2, <1>4, PageStep DEF ReceiveKeyList
<1>5. CASE KeyListFails(i)
  BY <1>1, <1>2, <1>5, PageStep DEF KeyListFails, KeyTypes, cardVars
<1> QED
  BY <1>3, <1>4, <1>5

LEMMA RegisterStep == KeysInv /\ Register => KeysInv'
<1> SUFFICES ASSUME KeysInv, Register PROVE KeysInv'
  OBVIOUS
<1>1. CASE UNCHANGED <<row, lastRow>>
  <2>1. UNCHANGED <<row, lastRow, keyStore, newRow, removal, cutShort, lists, connectionId>>
    BY <1>1 DEF Register, KeysInv, KeyTypes, pageFlags
  <2>2. testing' # "store"
    BY <1>1 DEF Register, Rejected, KeysInv, KeyTypes
  <2> QED
    BY <2>1, <2>2 DEF KeysInv, KeyTypes, SaveInv, RemovalInv, StoresInv, Register, Ids, ListOf
<1>2. CASE row = NoRow /\ lastRow' = lastRow + 1 /\ row' = lastRow'
  <2>1. UNCHANGED <<keyStore, lists, connectionId, removal>>
    BY DEF Register, pageFlags
  <2>2. /\ lastRow' \in Nat /\ Ids \subseteq Ids' /\ lastRow' \notin Ids
        /\ lists \in Seq(ListOf(Ids)')
        /\ removal \in [id : Ids', phase : {"none", "sent", "deleted", "kept"}]
    BY <1>2, MoreIds DEF KeysInv
  <2>3. lastRow' \in Ids' /\ lastRow' # NoRow
    BY <1>2, <2>2 DEF Ids, KeysInv, KeyTypes, NoRow
  <2>4. testing = "register" /\ newRow = NoRow
    BY DEF Register, KeysInv, SaveInv
  <2>5. \/ testing' = "store" /\ newRow' = row' /\ UNCHANGED cutShort
        \/ testing' = "none" /\ UNCHANGED newRow /\ cutShort' = cutShort \cup {row'}
    BY <1>2, <2>2, <2>3, <2>4 DEF Register, Rejected, KeysInv, KeyTypes
  <2>6. KeyTypes'
    BY <1>2, <2>1, <2>2, <2>3, <2>5 DEF KeysInv, KeyTypes
  <2>7. removal.id # row' /\ row' \notin keyStore
    BY <1>2, <2>2 DEF KeysInv, KeyTypes
  <2>8. SaveInv' /\ RemovalInv'
    BY <1>2, <2>1, <2>3, <2>4, <2>5, <2>7 DEF KeysInv, SaveInv, RemovalInv
  <2>9. StoresInv'
    BY <1>2, <2>1, <2>3, <2>4, <2>5, <2>7 DEF KeysInv, StoresInv, KeyTypes
  <2> QED
    BY <2>6, <2>8, <2>9 DEF KeysInv
<1> QED
  BY <1>1, <1>2 DEF Register

LEMMA StoreKeyStep == KeysInv /\ StoreKey => KeysInv'
<1> SUFFICES ASSUME KeysInv, StoreKey PROVE KeysInv'
  OBVIOUS
<1>1. KeyTypes'
  BY AskedAgain DEF StoreKey, KeysInv, KeyTypes, SaveInv, Ids, ListOf, NoRow
<1> QED
  BY <1>1 DEF StoreKey, KeysInv, SaveInv, RemovalInv, StoresInv, KeyTypes

LEMMA StoreFailsStep == KeysInv /\ StoreFails => KeysInv'
<1> SUFFICES ASSUME KeysInv, StoreFails PROVE KeysInv'
  OBVIOUS
<1>1. /\ testing = "store" /\ testing' = "none" /\ newRow' = NoRow
      /\ UNCHANGED <<row, lastRow, lists, connectionId, removal>>
      /\ \/ cutShort' = cutShort \cup {newRow} /\ UNCHANGED keyStore
         \/ keyStore' = keyStore \cup {newRow} /\ UNCHANGED cutShort
  BY DEF StoreFails, Rejected, pageFlags
<1>2. KeyTypes'
  <2>1. KeyTypes /\ newRow \in Ids \ {NoRow}
    BY <1>1 DEF KeysInv, SaveInv, KeyTypes
  <2>2. Ids' = Ids /\ ListOf(Ids') = ListOf(Ids)
    BY <1>1 DEF Ids, ListOf
  <2>3. keyStore' \subseteq Ids \ {NoRow}
    BY <1>1, <2>1 DEF KeyTypes
  <2> QED
    BY <1>1, <2>1, <2>2, <2>3 DEF KeyTypes, Ids, NoRow
<1> QED
  BY <1>1, <1>2 DEF KeysInv, SaveInv, RemovalInv, StoresInv, KeyTypes

LEMMA RemovalSteps ==
  KeysInv /\ (RemoveKey \/ DeleteRow \/ RemoveFails \/ DeleteKey \/ CacheFails) => KeysInv'
<1> SUFFICES ASSUME KeysInv, RemoveKey \/ DeleteRow \/ RemoveFails \/ DeleteKey \/ CacheFails
             PROVE  KeysInv'
  OBVIOUS
<1> USE DEF KeysInv, SaveInv, RemovalInv, StoresInv
<1>1. CASE RemoveKey
  <2>1. KeyTypes'
    BY <1>1 DEF RemoveKey, KeyTypes, pageFlags, Ids, ListOf
  <2> QED
    BY <1>1, <2>1 DEF RemoveKey, KeyTypes
<1>2. CASE DeleteRow
  <2>1. KeyTypes'
    BY <1>2 DEF DeleteRow, KeyTypes, pageFlags, Ids, ListOf, NoRow
  <2>2. removal' = [id |-> removal.id, phase |-> removal'.phase] /\ removal.phase = "sent"
    BY <1>2 DEF DeleteRow, KeyTypes
  <2>3. CASE removal'.phase = "deleted" /\ row = removal.id
    BY <1>2, <2>1, <2>2, <2>3 DEF DeleteRow, KeyTypes
  <2>4. CASE removal'.phase = "deleted" /\ row # removal.id
    BY <1>2, <2>1, <2>2, <2>4 DEF DeleteRow, KeyTypes
  <2>5. CASE removal'.phase = "kept"
    BY <1>2, <2>1, <2>2, <2>5 DEF DeleteRow, KeyTypes
  <2> QED
    BY <1>2, <2>2, <2>3, <2>4, <2>5 DEF DeleteRow, KeyTypes
<1>3. CASE RemoveFails
  <2>1. KeyTypes'
    BY <1>3 DEF RemoveFails, KeyTypes, pageFlags, Ids, ListOf, NoRemoval, NoRow
  <2> QED
    BY <1>3, <2>1 DEF RemoveFails, NoRemoval
<1>4. CASE DeleteKey
  <2>1. KeyTypes'
    <3>1. /\ lists' = Append(lists, List("sent", NoRow)) /\ removal' = NoRemoval
          /\ keyStore' \subseteq keyStore
          /\ UNCHANGED <<row, lastRow, connectionId, newRow>>
      BY <1>4 DEF DeleteKey
    <3>2. lists' \in Seq(ListOf(Ids))
      BY <3>1, AskedAgain
    <3> QED
      BY <3>1, <3>2 DEF KeyTypes, Ids, ListOf, NoRemoval, NoRow
  <2> QED
    BY <1>4, <2>1 DEF DeleteKey, NoRemoval
<1>5. CASE CacheFails
  <2>1. KeyTypes'
    <3>1. /\ removal' = NoRemoval /\ keyStore' \subseteq keyStore
          /\ UNCHANGED <<row, lastRow, lists, connectionId, newRow, cutShort>>
      BY <1>5 DEF CacheFails, pageFlags
    <3>2. Ids' = Ids /\ ListOf(Ids') = ListOf(Ids)
      BY <3>1 DEF Ids, ListOf
    <3> QED
      BY <3>1, <3>2 DEF KeyTypes, Ids, NoRemoval, NoRow
  <2> QED
    BY <1>5, <2>1 DEF CacheFails, NoRemoval
<1> QED
  BY <1>1, <1>2, <1>3, <1>4, <1>5

LEMMA ReloadStep == KeysInv /\ Reload => KeysInv'
<1> SUFFICES ASSUME KeysInv, Reload PROVE KeysInv'
  OBVIOUS
<1>1. /\ lists' = <<List("sent", NoRow)>> /\ connectionId' = NoRow /\ testing' = "none"
      /\ newRow' = NoRow /\ removal' = NoRemoval /\ keyStore' = keyStore
      /\ cutShort' = (cutShort \cup {newRow, removal.id} \cup ({row'} \ {row})) \ {NoRow}
  BY DEF Reload, FreshCard
<1>2. /\ lastRow' \in Nat /\ Ids \subseteq Ids' /\ row' \in Ids'
      /\ <<List("sent", NoRow)>> \in Seq(ListOf(Ids)')
  <2>1. CASE UNCHANGED lastRow
    BY <2>1, AskedAgain DEF Reload, KeysInv, KeyTypes, Ids, ListOf, NoRow
  <2>2. CASE lastRow' = lastRow + 1 /\ row' = lastRow'
    <3>1. lastRow' \in Nat /\ Ids \subseteq Ids'
      BY <2>2, MoreIds DEF KeysInv
    <3>2. List("sent", NoRow) \in ListOf(Ids)'
      BY <3>1 DEF List, ListOf, Ids, NoRow
    <3> QED
      BY <2>2, <3>1, <3>2 DEF Ids
  <2> QED
    BY <2>1, <2>2 DEF Reload
<1>3. KeyTypes'
  BY <1>1, <1>2 DEF KeysInv, KeyTypes, Ids, NoRemoval, NoRow
<1>4. SaveInv' /\ RemovalInv'
  BY <1>1 DEF SaveInv, RemovalInv, NoRemoval
<1>5. row' # row => \/ row' = NoRow /\ row = removal.id
                    \/ row' \in cutShort' /\ row = NoRow
  <2>1. \/ row' = row
        \/ row' = NoRow /\ row = removal.id
        \/ row = NoRow /\ row' = lastRow + 1
    BY DEF Reload
  <2>2. row' # row /\ row' # NoRow => row' \in cutShort'
    BY <1>1
  <2>3. lastRow + 1 # NoRow
    BY DEF KeysInv, KeyTypes, NoRow
  <2> QED
    BY <2>1, <2>2, <2>3
<1>6. StoresInv'
  BY <1>1, <1>5 DEF KeysInv, KeyTypes, StoresInv, RemovalInv, SaveInv
<1> QED
  BY <1>3, <1>4, <1>6 DEF KeysInv

LEMMA KeysInvStep == KeysInv /\ [KeysNext]_keysVars => KeysInv'
<1> SUFFICES ASSUME KeysInv, [KeysNext]_keysVars PROVE KeysInv'
  OBVIOUS
<1>1. lists \in Seq(ListOf(Ids)) /\ connectionId \in Ids
  BY DEF KeysInv, KeyTypes
<1>2. CASE \/ UNCHANGED keysVars \/ RetryKeyList \/ SaveKey \/ TestKey \/ FetchModels
           \/ ChangeKey \/ AskRemove \/ \E k \in {"unfit", "valid"} : TypeKey(k)
  <2>1. UNCHANGED <<row, lastRow, keyStore, newRow, removal, cutShort, connectionId>>
    <3>1. CASE UNCHANGED keysVars
      BY <3>1 DEF keysVars, pageFlags, cardVars
    <3>2. CASE \E k \in {"unfit", "valid"} : TypeKey(k)
      BY <3>2 DEF TypeKey, pageFlags
    <3>3. CASE RetryKeyList
      BY <3>3 DEF RetryKeyList, cardVars
    <3>4. CASE SaveKey \/ TestKey \/ FetchModels \/ ChangeKey \/ AskRemove
      BY <3>4 DEF SaveKey, TestKey, FetchModels, ChangeKey, AskRemove, pageFlags
    <3> QED
      BY <1>2, <3>1, <3>2, <3>3, <3>4
  <2>2. testing = "store" <=> testing' = "store"
    BY <1>2 DEF RetryKeyList, SaveKey, TestKey, FetchModels, ChangeKey, AskRemove, TypeKey,
                keysVars, pageFlags, cardVars, Rejected
  <2>3. lists' \in Seq(ListOf(Ids))
    <3>1. lists' = lists \/ lists' = Append(lists, List("sent", NoRow))
      BY <1>2 DEF RetryKeyList, SaveKey, TestKey, FetchModels, ChangeKey, AskRemove, TypeKey,
                  keysVars, pageFlags
    <3> QED
      BY <1>1, <3>1, AskedAgain DEF KeysInv
  <2> QED
    BY <1>1, <2>1, <2>2, <2>3, PageStep
<1>3. CASE \E i \in DOMAIN lists : AnswerKeyList(i) \/ ReceiveKeyList(i) \/ KeyListFails(i)
  BY <1>3, ListSteps
<1>4. CASE Register
  BY <1>4, RegisterStep
<1>5. CASE StoreKey \/ StoreFails
  BY <1>5, StoreKeyStep, StoreFailsStep
<1>6. CASE RemoveKey \/ DeleteRow \/ RemoveFails \/ DeleteKey \/ CacheFails
  BY <1>6, RemovalSteps
<1>7. CASE Reload
  BY <1>7, ReloadStep
<1>8. CASE ClearSiteData
  <2>1. KeyTypes'
    BY <1>8 DEF ClearSiteData, KeysInv, KeyTypes, pageFlags, cardVars, Ids, ListOf
  <2> QED
    BY <1>8, <2>1 DEF ClearSiteData, KeysInv, SaveInv, RemovalInv, StoresInv, cardVars
<1> QED
  BY <1>2, <1>3, <1>4, <1>5, <1>6, <1>7, <1>8 DEF KeysNext

(* The browser's keys and the server's connection agree when nothing is    *)
(* under way, however many connections come and go and however the saving  *)
(* of one overlaps the removal of another, but for what was cut short.     *)
THEOREM KeysMatchConnectionsHolds == KeysSpec => []KeysMatchConnections
<1>1. KeysInv => KeysMatchConnections
  BY DEF KeysInv, KeyTypes, SaveInv, StoresInv, KeysMatchConnections
<1> QED
  BY <1>1, KeysInvInit, KeysInvStep, PTL DEF KeysSpec

(* What the card shows, and that only given ids are cut short.             *)
CardTypes ==
  /\ cardStatus \in {"none", "connected", "rejected"}
  /\ testing \in {"none", "test", "models", "register", "store"}
  /\ cutShort \subseteq Ids \ {NoRow}

LEMMA CardTypesInit == KeysInit => CardTypes
BY DEF KeysInit, CardTypes

LEMMA CardTypesStep == KeysInv /\ CardTypes /\ [KeysNext]_keysVars => CardTypes'
<1> SUFFICES ASSUME KeysInv, CardTypes, [KeysNext]_keysVars PROVE CardTypes'
  OBVIOUS
<1>1. KeyTypes /\ RemovalInv
  BY DEF KeysInv
<1>2. CASE \/ UNCHANGED keysVars \/ RetryKeyList \/ SaveKey \/ TestKey \/ FetchModels \/ StoreKey
           \/ ChangeKey \/ AskRemove \/ DeleteKey \/ CacheFails \/ ClearSiteData
  <2>1. UNCHANGED lastRow /\ (cutShort' = cutShort \/ cutShort' = cutShort \cup keyStore)
    BY <1>2 DEF RetryKeyList, SaveKey, TestKey, FetchModels, StoreKey, ChangeKey, AskRemove,
                DeleteKey, CacheFails, ClearSiteData, keysVars
  <2>2. cardStatus' \in {"none", "connected", "rejected"}
    BY <1>2 DEF CardTypes, RetryKeyList, SaveKey, TestKey, FetchModels, StoreKey, ChangeKey, AskRemove,
                DeleteKey, CacheFails, ClearSiteData, keysVars, cardVars, Rejected
  <2>3. testing' \in {"none", "test", "models", "register", "store"}
    BY <1>2 DEF CardTypes, RetryKeyList, SaveKey, TestKey, FetchModels, StoreKey, ChangeKey, AskRemove,
                DeleteKey, CacheFails, ClearSiteData, keysVars, cardVars, Rejected
  <2> QED
    BY <1>1, <2>1, <2>2, <2>3 DEF CardTypes, KeyTypes, Ids
<1>3. ASSUME NEW k \in {"unfit", "valid"}, TypeKey(k) PROVE CardTypes'
  BY <1>3 DEF TypeKey, CardTypes, Ids
<1>4. ASSUME NEW i \in DOMAIN lists, AnswerKeyList(i) \/ ReceiveKeyList(i) \/ KeyListFails(i)
      PROVE  CardTypes'
  BY <1>4 DEF AnswerKeyList, ReceiveKeyList, KeyListFails, CardTypes, cardVars, Ids
<1>5. CASE Register
  <2>1. testing' \in {"none", "store"} /\ cardStatus' \in {cardStatus, "rejected"}
    BY <1>5 DEF Register, Rejected
  <2>2. \/ UNCHANGED lastRow /\ cutShort' = cutShort
        \/ lastRow' = lastRow + 1 /\ cutShort' \subseteq cutShort \cup {lastRow + 1}
    BY <1>5 DEF Register
  <2>3. cutShort' \subseteq Ids' \ {NoRow}
    <3>1. lastRow \in Nat /\ \A c \in cutShort : c \in 0..lastRow /\ c # 0
      BY <1>1 DEF CardTypes, KeyTypes, Ids, NoRow
    <3>2. \A c \in 0..lastRow : c \in 0..(lastRow + 1)
      BY <3>1
    <3> QED
      BY <2>2, <3>1, <3>2 DEF Ids, NoRow
  <2> QED
    BY <2>1, <2>3 DEF CardTypes
<1>6. CASE RemoveKey
  <2>1. UNCHANGED <<lastRow, cardStatus, testing>> /\ connectionId # NoRow
    BY <1>6 DEF RemoveKey
  <2>2. cutShort' \subseteq cutShort \cup {connectionId}
    BY <1>6 DEF RemoveKey
  <2> QED
    BY <1>1, <2>1, <2>2 DEF CardTypes, KeyTypes, Ids
<1>7. CASE DeleteRow \/ RemoveFails
  <2>1. UNCHANGED <<lastRow, cardStatus, testing>> /\ removal.phase # "none"
    BY <1>7 DEF DeleteRow, RemoveFails
  <2>2. cutShort' \subseteq cutShort \cup {removal.id}
    BY <1>7 DEF DeleteRow, RemoveFails
  <2> QED
    BY <1>1, <2>1, <2>2 DEF CardTypes, KeyTypes, RemovalInv, Ids, NoRow
<1>8. CASE Reload
  <2>1. cardStatus' = "none" /\ testing' = "none"
    BY <1>8 DEF Reload, FreshCard
  <2>2. /\ \/ UNCHANGED <<row, lastRow>>
           \/ row' = NoRow /\ UNCHANGED lastRow
           \/ lastRow' = lastRow + 1 /\ row' = lastRow'
        /\ cutShort' = (cutShort \cup {newRow, removal.id} \cup ({row'} \ {row})) \ {NoRow}
    BY <1>8 DEF Reload
  <2>3. \A c \in cutShort \cup {newRow, removal.id, row} : c \in 0..lastRow
    BY <1>1 DEF CardTypes, KeyTypes, Ids
  <2>4. cutShort' \subseteq Ids' \ {NoRow}
    <3>1. CASE row' \in {row, NoRow} /\ UNCHANGED lastRow
      BY <2>2, <2>3, <3>1 DEF Ids, NoRow
    <3>2. CASE lastRow' = lastRow + 1 /\ row' = lastRow'
      <4>1. lastRow \in Nat
        BY <1>1 DEF KeyTypes
      <4>2. \A c \in 0..lastRow : c \in 0..(lastRow + 1)
        BY <4>1
      <4> QED
        BY <2>2, <2>3, <3>2, <4>1, <4>2 DEF Ids, NoRow
    <3> QED
      BY <2>2, <3>1, <3>2
  <2> QED
    BY <2>1, <2>4 DEF CardTypes
<1>9. CASE StoreFails
  <2>1. cardStatus' = "rejected" /\ testing' = "none" /\ UNCHANGED lastRow /\ newRow # NoRow
    BY <1>9 DEF StoreFails, Rejected, KeysInv, SaveInv
  <2>2. cutShort' \subseteq cutShort \cup {newRow}
    BY <1>9 DEF StoreFails
  <2> QED
    BY <1>1, <2>1, <2>2 DEF CardTypes, KeyTypes, Ids
<1> QED
  BY <1>2, <1>3, <1>4, <1>5, <1>6, <1>7, <1>8, <1>9 DEF KeysNext

(* For any number of connections: the card refers to ids that were given.  *)
THEOREM KeysTypesHold == KeysSpec => []KeysTypeOK
<1>1. KeysInv /\ CardTypes => KeysTypeOK
  BY DEF KeysInv, KeyTypes, CardTypes, KeysTypeOK, Ids, NoRow
<1> QED
  BY <1>1, KeysInvInit, KeysInvStep, CardTypesInit, CardTypesStep, PTL DEF KeysSpec

-----------------------------------------------------------------------------
(* The team.  The page and the server agree on every person by themselves: *)
(* somebody not mixed up in a failure has one change under way at most,    *)
(* and a list of before has their role of the server unless their change   *)
(* overlapped it.                                                          *)

Standing == Roles \cup {Outside}
Change == [who : People, role : Standing, previous : [People -> Standing],
           invitation : BOOLEAN, others : SUBSET People, phase : {"sent", "made", "refused"}]

TeamTypes ==
  /\ team \in [People -> Standing] /\ members \in [People -> Standing]
  /\ teamFetched \in [People -> Standing] /\ mixed \subseteq People
  /\ teamLoad \in {"sent", "answered", "ready", "error"}
  /\ changed \in Nat /\ DOMAIN changes \subseteq 1..changed
  /\ changes = [k \in DOMAIN changes |-> changes[k]]
  /\ \A k \in DOMAIN changes : changes[k] \in Change

Overlaps == \A j, k \in DOMAIN changes : j # k => changes[j].who \in changes[k].others

Untouched(p) == \A k \in DOMAIN changes : changes[k].who # p

TeamLoading ==
  /\ teamLoad # "ready" => \A k \in DOMAIN changes : changes[k].invitation
  /\ teamLoad = "answered" => \A p \in People \ mixed : Untouched(p) /\ teamFetched[p] = team[p]

ChangeShown(c) ==
  /\ c.phase = "made" => team[c.who] = c.role
  /\ ~c.invitation => members[c.who] = c.role
  /\ c.invitation /\ c.phase # "made" => members[c.who] = team[c.who]

PreviousKept(c, p) ==
  ~c.invitation /\ p \notin c.others /\ (p = c.who => c.phase # "made") => c.previous[p] = team[p]

PersonShown(p) ==
  /\ \A j, k \in DOMAIN changes : changes[j].who = p /\ changes[k].who = p => j = k
  /\ Untouched(p) => members[p] = team[p]
  /\ \A k \in DOMAIN changes : changes[k].who = p => ChangeShown(changes[k])
  /\ \A k \in DOMAIN changes : PreviousKept(changes[k], p)

TeamShown == teamLoad = "ready" => \A p \in People \ mixed : PersonShown(p)

TeamInv == TeamTypes /\ Overlaps /\ TeamLoading /\ TeamShown

LEMMA TeamInvInit == TeamInit => TeamInv
<1> SUFFICES ASSUME TeamInit PROVE TeamInv
  OBVIOUS
<1>1. TeamTypes
  BY InvitedAssumption DEF TeamInit, TeamTypes, Standing
<1>2. DOMAIN changes = {} /\ teamLoad = "sent"
  BY DEF TeamInit
<1> QED
  BY <1>1, <1>2 DEF TeamInv, Overlaps, TeamLoading, TeamShown

LEMMA TeamLoadSteps == TeamInv /\ (AnswerTeam \/ ReceiveTeam \/ RetryTeam) => TeamInv'
<1> SUFFICES ASSUME TeamInv, AnswerTeam \/ ReceiveTeam \/ RetryTeam PROVE TeamInv'
  OBVIOUS
<1>1. TeamTypes /\ Overlaps /\ TeamLoading
  BY DEF TeamInv
<1>2. UNCHANGED <<team, changes, changed>> /\ teamLoad # "ready"
  BY DEF AnswerTeam, ReceiveTeam, RetryTeam, TeamScreen
<1>3. /\ teamFetched' \in {team, teamFetched} /\ members' \in {members, teamFetched}
      /\ teamLoad' \in {"sent", "answered", "ready", "error"}
  BY DEF AnswerTeam, ReceiveTeam, RetryTeam
<1>4. mixed' \in {mixed, mixed \cup {changes[k].who : k \in DOMAIN changes}}
  BY DEF AnswerTeam, ReceiveTeam, RetryTeam
<1>5. mixed' \subseteq People
  BY <1>1, <1>4 DEF TeamTypes, Change
<1>6. TeamTypes' /\ Overlaps'
  BY <1>1, <1>2, <1>3, <1>5 DEF TeamTypes, Change, Overlaps
<1>7. TeamLoading'
  <2>1. \A k \in DOMAIN changes' : changes'[k].invitation
    BY <1>1, <1>2 DEF TeamLoading
  <2>2. ASSUME teamLoad' = "answered" PROVE \A p \in People \ mixed' : Untouched(p)' /\ teamFetched'[p] = team'[p]
    BY <1>2, <2>2 DEF AnswerTeam, ReceiveTeam, RetryTeam, Untouched
  <2> QED
    BY <2>1, <2>2 DEF TeamLoading
<1>8. TeamShown'
  <2>1. CASE ReceiveTeam
    <3>1. ASSUME NEW p \in People \ mixed' PROVE PersonShown(p)'
      <4>1. Untouched(p)' /\ members'[p] = team'[p]
        BY <1>1, <1>2, <2>1 DEF ReceiveTeam, TeamLoading, Untouched
      <4>2. \A k \in DOMAIN changes' : changes'[k].invitation
        BY <1>1, <1>2 DEF TeamLoading
      <4> QED
        BY <4>1, <4>2 DEF PersonShown, Untouched, PreviousKept
    <3> QED
      BY <3>1 DEF TeamShown
  <2>2. CASE AnswerTeam \/ RetryTeam
    BY <2>2 DEF AnswerTeam, RetryTeam, TeamShown
  <2> QED
    BY <2>1, <2>2
<1> QED
  BY <1>6, <1>7, <1>8 DEF TeamInv

(* A change is asked for; but for an invitation, of a list that is shown.  *)
LEMMA AskStep ==
  ASSUME TeamInv, NEW p \in People, NEW role \in Standing, NEW invitation \in BOOLEAN,
         Ask(p, role, invitation), invitation \/ teamLoad = "ready"
  PROVE  TeamInv'
<1>0. PICK n : n = changed + 1
  OBVIOUS
<1> DEFINE c == [who |-> p, role |-> role, previous |-> members, invitation |-> invitation,
                 others |-> {changes[j].who : j \in DOMAIN changes}, phase |-> "sent"]
<1>1. TeamTypes /\ Overlaps /\ n \in Nat /\ n \notin DOMAIN changes
  BY <1>0 DEF TeamInv, TeamTypes
<1>2. /\ changed' = n
      /\ DOMAIN changes' = DOMAIN changes \cup {n}
      /\ changes' = [k \in DOMAIN changes' |-> changes'[k]]
      /\ \A k \in DOMAIN changes : changes'[k] = [changes[k] EXCEPT !.others = @ \cup {p}]
      /\ changes'[n] = c
  BY <1>0, <1>1 DEF Ask
<1>3. /\ members' = IF invitation THEN members ELSE [members EXCEPT ![p] = role]
      /\ mixed' \in {mixed, mixed \cup {p}}
      /\ teamLoad = "answered" \/ ~Untouched(p) => p \in mixed'
      /\ UNCHANGED <<team, teamLoad, teamFetched>>
  BY DEF Ask, Untouched
<1>4. /\ c \in Change /\ c.who = p /\ c.role = role /\ c.previous = members
      /\ c.invitation = invitation /\ c.phase = "sent"
      /\ c.others = {changes[j].who : j \in DOMAIN changes}
  BY <1>1 DEF Change, TeamTypes
<1>5. ASSUME NEW k \in DOMAIN changes
      PROVE  /\ changes'[k] \in Change /\ changes'[k].others = changes[k].others \cup {p}
             /\ changes'[k].who = changes[k].who /\ changes'[k].role = changes[k].role
             /\ changes'[k].invitation = changes[k].invitation /\ changes'[k].phase = changes[k].phase
             /\ changes'[k].previous = changes[k].previous
  <2>1. changes[k] \in Change /\ changes'[k] = [changes[k] EXCEPT !.others = @ \cup {p}]
    BY <1>1, <1>2 DEF TeamTypes
  <2> QED
    BY <2>1 DEF Change
<1> HIDE DEF c
<1>6. members' \in [People -> Standing] /\ \A q \in People \ {p} : members'[q] = members[q]
  BY <1>1, <1>3 DEF TeamTypes
<1>7. members'[p] = IF invitation THEN members[p] ELSE role
  BY <1>1, <1>3 DEF TeamTypes
<1>8. DOMAIN changes' \subseteq 1..n
  BY <1>0, <1>1, <1>2 DEF TeamTypes
<1>9. TeamTypes'
  BY <1>1, <1>2, <1>3, <1>4, <1>5, <1>6, <1>8 DEF TeamTypes, Change
<1>10. Overlaps'
  BY <1>1, <1>2, <1>4, <1>5 DEF Overlaps
<1>11. TeamLoading'
  <2>1. teamLoad' # "ready" => \A k \in DOMAIN changes' : changes'[k].invitation
    BY <1>2, <1>3, <1>4, <1>5 DEF TeamInv, TeamLoading
  <2>2. ASSUME teamLoad' = "answered", NEW q \in People \ mixed' PROVE Untouched(q)' /\ teamFetched'[q] = team'[q]
    <3>1. q # p /\ q \notin mixed /\ teamLoad = "answered"
      BY <1>3, <2>2
    <3>2. Untouched(q) /\ teamFetched[q] = team[q]
      BY <3>1 DEF TeamInv, TeamLoading
    <3> QED
      BY <1>2, <1>3, <1>4, <1>5, <3>1, <3>2 DEF Untouched
  <2> QED
    BY <2>1, <2>2 DEF TeamLoading
<1>12. ASSUME teamLoad = "ready", NEW q \in People \ mixed' PROVE PersonShown(q)'
  <2>1. PersonShown(q) /\ q \notin mixed
    BY <1>3, <1>12 DEF TeamInv, TeamShown
  <2>2. q = p => Untouched(p)
    BY <1>3, <1>12
  <2>3. \A j, k \in DOMAIN changes' : changes'[j].who = q /\ changes'[k].who = q => j = k
    BY <1>2, <1>4, <1>5, <2>1, <2>2 DEF PersonShown, Untouched
  <2>4. Untouched(q)' => members'[q] = team'[q]
    BY <1>2, <1>3, <1>4, <1>5, <1>6, <2>1 DEF PersonShown, Untouched
  <2>5. ASSUME NEW k \in DOMAIN changes', changes'[k].who = q PROVE ChangeShown(changes[k])'
    <3>1. CASE k = n
      <4>1. q = p /\ members[p] = team[p]
        BY <1>2, <1>4, <2>1, <2>2, <2>5, <3>1 DEF PersonShown
      <4> QED
        BY <1>2, <1>3, <1>4, <1>7, <3>1, <4>1 DEF ChangeShown
    <3>2. CASE k \in DOMAIN changes
      <4>1. q # p /\ ChangeShown(changes[k]) /\ changes[k].who = q
        BY <1>5, <2>1, <2>2, <2>5, <3>2 DEF PersonShown, Untouched
      <4> QED
        BY <1>3, <1>5, <1>6, <3>2, <4>1 DEF ChangeShown
    <3> QED
      BY <1>2, <3>1, <3>2
  <2>6. ASSUME NEW k \in DOMAIN changes' PROVE PreviousKept(changes[k], q)'
    <3>1. CASE k = n
      <4>1. q \notin c.others => Untouched(q)
        BY <1>4 DEF Untouched
      <4> QED
        BY <1>2, <1>3, <1>4, <2>1, <3>1, <4>1 DEF PersonShown, PreviousKept
    <3>2. CASE k \in DOMAIN changes
      <4>1. PreviousKept(changes[k], q)
        BY <2>1, <3>2 DEF PersonShown
      <4> QED
        BY <1>3, <1>5, <3>2, <4>1 DEF PreviousKept
    <3> QED
      BY <1>2, <3>1, <3>2
  <2> QED
    BY <2>3, <2>4, <2>5, <2>6 DEF PersonShown
<1>13. TeamShown'
  BY <1>3, <1>12 DEF TeamShown
<1> QED
  BY <1>9, <1>10, <1>11, <1>13 DEF TeamInv

(* The server answers.                                                     *)
LEMMA AnswerChangeStep ==
  ASSUME TeamInv, NEW k \in DOMAIN changes, AnswerChange(k)
  PROVE  TeamInv'
<1> DEFINE c == changes[k]
<1>1. TeamTypes /\ c \in Change /\ changes = [j \in DOMAIN changes |-> changes[j]]
      /\ UNCHANGED <<teamLoad, teamFetched, members, changed, mixed>>
  BY DEF TeamInv, TeamTypes, AnswerChange
<1>2. PICK d \in Change :
        /\ changes' = [changes EXCEPT ![k] = d] /\ d.who = c.who /\ d.role = c.role
        /\ d.invitation = c.invitation /\ d.others = c.others /\ d.previous = c.previous
        /\ \/ d.phase = "made" /\ team' = [team EXCEPT ![c.who] = c.role]
           \/ d.phase = "refused" /\ team' = team
        /\ c.phase = "sent"
  <2>1. CASE changes' = [changes EXCEPT ![k].phase = "made"] /\ team' = [team EXCEPT ![c.who] = c.role]
    <3> DEFINE d == [c EXCEPT !.phase = "made"]
    <3>1. /\ d \in Change /\ d.who = c.who /\ d.role = c.role /\ d.phase = "made"
          /\ d.invitation = c.invitation /\ d.others = c.others /\ d.previous = c.previous
      BY <1>1 DEF Change
    <3>2. changes' = [changes EXCEPT ![k] = d]
      BY <2>1
    <3>3. c.phase = "sent"
      BY DEF AnswerChange
    <3> HIDE DEF d, c
    <3> QED
      BY <2>1, <3>1, <3>2, <3>3
  <2>2. CASE changes' = [changes EXCEPT ![k].phase = "refused"] /\ team' = team
    <3> DEFINE d == [c EXCEPT !.phase = "refused"]
    <3>1. /\ d \in Change /\ d.who = c.who /\ d.role = c.role /\ d.phase = "refused"
          /\ d.invitation = c.invitation /\ d.others = c.others /\ d.previous = c.previous
      BY <1>1 DEF Change
    <3>2. changes' = [changes EXCEPT ![k] = d]
      BY <2>2
    <3>3. c.phase = "sent"
      BY DEF AnswerChange
    <3> HIDE DEF d, c
    <3> QED
      BY <2>2, <3>1, <3>2, <3>3
  <2> QED
    BY <2>1, <2>2 DEF AnswerChange
<1>3. /\ DOMAIN changes' = DOMAIN changes /\ changes'[k] = d
      /\ changes' = [j \in DOMAIN changes' |-> changes'[j]]
      /\ \A j \in DOMAIN changes \ {k} : changes'[j] = changes[j]
  BY <1>2
<1>4. /\ c.who \in People /\ c.role \in Standing /\ team \in [People -> Standing]
  BY <1>1 DEF Change, TeamTypes
<1> HIDE DEF c
<1>5. /\ team' \in [People -> Standing] /\ \A q \in People \ {c.who} : team'[q] = team[q]
      /\ team'[c.who] = IF d.phase = "made" THEN c.role ELSE team[c.who]
  BY <1>2, <1>4
<1>6. ASSUME NEW j \in DOMAIN changes
      PROVE  /\ changes'[j].who = changes[j].who /\ changes'[j].invitation = changes[j].invitation
             /\ changes'[j].others = changes[j].others /\ changes'[j].previous = changes[j].previous
  BY <1>2, <1>3 DEF c
<1>7. TeamTypes'
  BY <1>1, <1>2, <1>3, <1>5 DEF TeamTypes
<1>8. Overlaps'
  BY <1>3, <1>6 DEF TeamInv, Overlaps
<1>9. TeamLoading'
  <2>1. teamLoad' # "ready" => \A j \in DOMAIN changes' : changes'[j].invitation
    BY <1>1, <1>3, <1>6 DEF TeamInv, TeamLoading
  <2>2. ASSUME teamLoad' = "answered", NEW q \in People \ mixed' PROVE Untouched(q)' /\ teamFetched'[q] = team'[q]
    <3>1. Untouched(q) /\ teamFetched[q] = team[q]
      BY <1>1, <2>2 DEF TeamInv, TeamLoading
    <3>2. q # c.who
      BY <3>1 DEF Untouched, c
    <3> QED
      BY <1>1, <1>3, <1>5, <1>6, <3>1, <3>2 DEF Untouched
  <2> QED
    BY <2>1, <2>2 DEF TeamLoading
<1>10. ASSUME teamLoad = "ready", NEW q \in People \ mixed PROVE PersonShown(q)'
  <2>1. PersonShown(q)
    BY <1>10 DEF TeamInv, TeamShown
  <2>2. \A i, j \in DOMAIN changes' : changes'[i].who = q /\ changes'[j].who = q => i = j
    BY <1>3, <1>6, <2>1 DEF PersonShown
  <2>3. Untouched(q)' => members'[q] = team'[q]
    <3>1. Untouched(q)' => Untouched(q) /\ q # c.who
      BY <1>2, <1>3, <1>6 DEF Untouched
    <3> QED
      BY <1>1, <1>5, <2>1, <3>1 DEF PersonShown
  <2>4. ASSUME NEW j \in DOMAIN changes', changes'[j].who = q PROVE ChangeShown(changes[j])'
    <3>1. ChangeShown(changes[j]) /\ changes[j].who = q
      BY <1>3, <1>6, <2>1, <2>4 DEF PersonShown
    <3>2. CASE j = k
      BY <1>1, <1>2, <1>3, <1>5, <3>1, <3>2 DEF ChangeShown, c
    <3>3. CASE j # k
      <4>1. q # c.who /\ changes'[j] = changes[j]
        BY <1>3, <2>1, <2>4, <3>1, <3>3 DEF PersonShown, c
      <4> QED
        BY <1>1, <1>5, <3>1, <4>1 DEF ChangeShown
    <3> QED
      BY <3>2, <3>3
  <2>5. ASSUME NEW j \in DOMAIN changes' PROVE PreviousKept(changes[j], q)'
    <3>1. PreviousKept(changes[j], q)
      BY <1>3, <2>1 DEF PersonShown
    <3>2. CASE j = k
      <4>1. q = c.who /\ d.phase # "made" => team'[q] = team[q]
        BY <1>5
      <4>2. c.phase # "made"
        BY <1>2
      <4> QED
        BY <1>2, <1>3, <1>5, <3>1, <3>2, <4>1, <4>2 DEF PreviousKept, c
    <3>3. CASE j # k
      <4>1. c.who \in changes[j].others /\ changes'[j] = changes[j]
        BY <1>3, <3>3 DEF TeamInv, Overlaps, c
      <4> QED
        BY <1>5, <3>1, <4>1 DEF PreviousKept
    <3> QED
      BY <3>2, <3>3
  <2> QED
    BY <2>2, <2>3, <2>4, <2>5 DEF PersonShown
<1>11. TeamShown'
  BY <1>1, <1>10 DEF TeamShown
<1> QED
  BY <1>7, <1>8, <1>9, <1>11 DEF TeamInv

(* The page receives the answer.                                           *)
LEMMA FinishTypes ==
  ASSUME TeamTypes, NEW k \in DOMAIN changes, Finish(k), members' \in [People -> Standing],
         mixed' \subseteq People, UNCHANGED <<team, teamLoad, teamFetched, changed>>
  PROVE  /\ TeamTypes' /\ DOMAIN changes' = DOMAIN changes \ {k}
         /\ \A j \in DOMAIN changes' : changes'[j] = changes[j]
<1>1. /\ DOMAIN changes' = DOMAIN changes \ {k} /\ \A j \in DOMAIN changes' : changes'[j] = changes[j]
      /\ changes' = [j \in DOMAIN changes' |-> changes'[j]]
  BY DEF Finish
<1>2. TeamTypes'
  BY <1>1 DEF TeamTypes, Change
<1> QED
  BY <1>1, <1>2

LEMMA ChangeEndsStep ==
  ASSUME TeamInv, NEW k \in DOMAIN changes, ChangeMade(k) \/ ChangeFails(k)
  PROVE  TeamInv'
<1> DEFINE c == changes[k]
<1>1. TeamTypes /\ c \in Change /\ Finish(k) /\ UNCHANGED <<team, teamLoad, teamFetched, changed>>
  BY DEF TeamInv, TeamTypes, ChangeMade, ChangeFails
<1>2. /\ c.who \in People /\ c.role \in Standing /\ c.previous \in [People -> Standing]
      /\ c.others \subseteq People /\ mixed \subseteq People
      /\ team \in [People -> Standing] /\ members \in [People -> Standing]
  BY <1>1 DEF Change, TeamTypes
<1>3. members' \in {members, [members EXCEPT ![c.who] = c.role], c.previous}
  BY DEF ChangeMade, ChangeFails
<1>4. members' \in [People -> Standing]
  BY <1>2, <1>3
<1>5. mixed \subseteq mixed' /\ mixed' \subseteq People
  <2>1. Tangled(k) \subseteq People
    BY <1>2 DEF Tangled
  <2> QED
    BY <1>2, <2>1 DEF ChangeMade, ChangeFails
<1>6. /\ TeamTypes' /\ DOMAIN changes' = DOMAIN changes \ {k}
      /\ \A j \in DOMAIN changes' : changes'[j] = changes[j]
  BY <1>1, <1>4, <1>5, FinishTypes
<1>7. Overlaps'
  BY <1>6 DEF TeamInv, Overlaps
<1>8. TeamLoading'
  BY <1>1, <1>5, <1>6 DEF TeamInv, TeamLoading, Untouched
<1>9. ASSUME teamLoad = "ready", NEW q \in People \ mixed' PROVE PersonShown(q)'
  <2>1. PersonShown(q)
    BY <1>5, <1>9 DEF TeamInv, TeamShown
  <2>2. q = c.who => Untouched(q)' /\ members'[q] = team[q]
    <3>1. q = c.who => Untouched(q)'
      BY <1>6, <2>1 DEF PersonShown, Untouched
    <3>2. ASSUME q = c.who PROVE ChangeShown(c) /\ PreviousKept(c, q)
      BY <2>1, <3>2 DEF PersonShown
    <3>3. CASE ChangeMade(k)
      <4>1. c.phase = "made" /\ members' = IF c.invitation THEN [members EXCEPT ![c.who] = c.role] ELSE members
        BY <3>3 DEF ChangeMade
      <4> QED
        BY <1>2, <3>1, <3>2, <4>1 DEF ChangeShown
    <3>4. CASE ChangeFails(k)
      <4>1. /\ members' = IF c.invitation THEN members ELSE c.previous
            /\ q = c.who => c.phase # "made"
            /\ ~c.invitation => q \notin c.others
        BY <1>9, <3>4 DEF ChangeFails, Tangled
      <4> QED
        BY <3>1, <3>2, <4>1 DEF ChangeShown, PreviousKept
    <3> QED
      BY <3>3, <3>4
  <2>3. q # c.who => members'[q] = members[q] \/ (Untouched(q) /\ members'[q] = team[q])
    <3>1. CASE ChangeMade(k)
      BY <1>2, <3>1 DEF ChangeMade
    <3>2. CASE ChangeFails(k) /\ c.invitation
      BY <3>2 DEF ChangeFails
    <3>3. CASE ChangeFails(k) /\ ~c.invitation
      <4>1. members' = c.previous /\ q \notin c.others
        BY <1>9, <3>3 DEF ChangeFails, Tangled
      <4>2. q # c.who => Untouched(q)
        BY <4>1 DEF TeamInv, Overlaps, Untouched
      <4>3. PreviousKept(c, q)
        BY <2>1 DEF PersonShown
      <4> QED
        BY <3>3, <4>1, <4>2, <4>3 DEF PreviousKept
    <3> QED
      BY <3>1, <3>2, <3>3
  <2>4. \A i, j \in DOMAIN changes' : changes'[i].who = q /\ changes'[j].who = q => i = j
    BY <1>6, <2>1 DEF PersonShown
  <2>5. Untouched(q)' => members'[q] = team'[q]
    <3>1. q # c.who /\ Untouched(q)' => Untouched(q)
      BY <1>6 DEF Untouched
    <3> QED
      BY <1>1, <2>1, <2>2, <2>3, <3>1 DEF PersonShown
  <2>6. ASSUME NEW j \in DOMAIN changes', changes'[j].who = q PROVE ChangeShown(changes[j])'
    <3>1. changes[j].who = q /\ ChangeShown(changes[j]) /\ changes'[j] = changes[j] /\ ~Untouched(q) /\ ~Untouched(q)'
      BY <1>6, <2>1, <2>6 DEF PersonShown, Untouched
    <3>2. members'[q] = members[q]
      BY <2>2, <2>3, <3>1
    <3> QED
      BY <1>1, <3>1, <3>2 DEF ChangeShown
  <2>7. ASSUME NEW j \in DOMAIN changes' PROVE PreviousKept(changes[j], q)'
    <3>1. PreviousKept(changes[j], q) /\ changes'[j] = changes[j]
      BY <1>6, <2>1 DEF PersonShown
    <3> QED
      BY <1>1, <3>1 DEF PreviousKept
  <2> QED
    BY <2>4, <2>5, <2>6, <2>7 DEF PersonShown
<1>10. TeamShown'
  BY <1>1, <1>9 DEF TeamShown
<1> QED
  BY <1>6, <1>7, <1>8, <1>10 DEF TeamInv

LEMMA TeamInvStep == TeamInv /\ [TeamNext]_teamVars => TeamInv'
<1> SUFFICES ASSUME TeamInv, [TeamNext]_teamVars PROVE TeamInv'
  OBVIOUS
<1>1. CASE AnswerTeam \/ ReceiveTeam \/ RetryTeam
  BY <1>1, TeamLoadSteps
<1>2. ASSUME NEW p \in People, Invite(p) PROVE TeamInv'
  <2>1. Ask(p, Invited, TRUE) /\ Invited \in Standing
    BY <1>2, InvitedAssumption DEF Invite, Standing
  <2> QED
    BY <2>1, AskStep
<1>3. ASSUME NEW p \in People, RemoveMember(p) PROVE TeamInv'
  <2>1. Ask(p, Outside, FALSE) /\ Outside \in Standing /\ teamLoad = "ready"
    BY <1>3 DEF RemoveMember, Standing, TeamScreen
  <2> QED
    BY <2>1, AskStep
<1>4. ASSUME NEW p \in People, NEW r \in Roles, ChangeRole(p, r) PROVE TeamInv'
  <2>1. Ask(p, r, FALSE) /\ r \in Standing /\ teamLoad = "ready"
    BY <1>4 DEF ChangeRole, Standing, TeamScreen
  <2> QED
    BY <2>1, AskStep
<1>5. ASSUME NEW k \in DOMAIN changes, AnswerChange(k) \/ ChangeMade(k) \/ ChangeFails(k) PROVE TeamInv'
  BY <1>5, AnswerChangeStep, ChangeEndsStep
<1>6. CASE UNCHANGED teamVars
  <2>1. UNCHANGED <<team, teamLoad, teamFetched, members, changes, changed, mixed>>
    BY <1>6 DEF teamVars
  <2>2. TeamTypes' /\ Overlaps' /\ TeamLoading'
    BY <2>1 DEF TeamInv, TeamTypes, Overlaps, TeamLoading, Untouched, Change
  <2>3. TeamShown'
    BY <2>1 DEF TeamInv, TeamShown, PersonShown, Untouched, ChangeShown, PreviousKept
  <2> QED
    BY <2>2, <2>3 DEF TeamInv
<1> QED
  BY <1>1, <1>2, <1>3, <1>4, <1>5, <1>6 DEF TeamNext

LEMMA TeamInvHolds == TeamInv => TeamTypeOK /\ TeamIsServer
<1> SUFFICES ASSUME TeamInv PROVE TeamTypeOK /\ TeamIsServer
  OBVIOUS
<1>1. TeamTypeOK
  BY DEF TeamInv, TeamTypes, TeamTypeOK, Standing
<1>2. TeamIsServer
  BY DEF TeamInv, TeamShown, PersonShown, Untouched, TeamIsServer, TeamScreen
<1> QED
  BY <1>1, <1>2

(* For any people and roles: the list holds members and roles.             *)
THEOREM TeamTypesHold == TeamSpec => []TeamTypeOK
BY TeamInvInit, TeamInvStep, TeamInvHolds, PTL DEF TeamSpec

(* For any people and any number of changes: whoever has none under way is *)
(* shown with the role the server has, also while changes of others fail,  *)
(* unless mixed up in one of the ways the property names.                  *)
THEOREM TeamIsServerHolds == TeamSpec => []TeamIsServer
BY TeamInvInit, TeamInvStep, TeamInvHolds, PTL DEF TeamSpec

-----------------------------------------------------------------------------
(* The saved analyses, row by row as with the team: a pause and a deletion *)
(* are shown ahead of the server, a re-run behind it.                      *)

Lines == [paused : BOOLEAN, status : {"failed", "succeeded", "deleted"}]
Edit == [kind : {"pause", "delete", "rerun"}, on : Analyses, paused : BOOLEAN,
         previous : [Analyses -> Lines], others : SUBSET Analyses, phase : {"sent", "made", "refused"}]

SavedTypes ==
  /\ saved \in [Analyses -> Lines] /\ analyses \in [Analyses -> Lines]
  /\ savedFetched \in [Analyses -> Lines] /\ tangled \subseteq Analyses
  /\ savedLoad \in {"sent", "answered", "ready", "error"}
  /\ edited \in Nat /\ DOMAIN edits \subseteq 1..edited
  /\ edits = [k \in DOMAIN edits |-> edits[k]]
  /\ \A k \in DOMAIN edits : edits[k] \in Edit

ButtonTypes == rerunning \in Analyses \cup {"none"} /\ asksDelete \in Analyses \cup {"none"}

SavedLoading ==
  /\ savedLoad # "ready" => DOMAIN edits = {}
  /\ savedLoad = "answered" => savedFetched = saved

EditsOverlap == \A j, k \in DOMAIN edits : j # k => edits[j].on \in edits[k].others

Still(a) == \A k \in DOMAIN edits : edits[k].on # a

EditShown(e) ==
  LET shown == analyses[e.on]
      there == saved[e.on] IN
    CASE e.kind = "rerun" -> /\ shown # Deleted
                             /\ there = IF e.phase = "made" THEN Edited("rerun", e.paused, shown) ELSE shown
      [] OTHER -> shown = IF e.phase = "made" THEN there ELSE Edited(e.kind, e.paused, there)

PreviousRow(e, a) == a \notin e.others /\ (a = e.on => e.phase # "made") => e.previous[a] = saved[a]

RowInv(a) ==
  /\ \A j, k \in DOMAIN edits : edits[j].on = a /\ edits[k].on = a => j = k
  /\ Still(a) => analyses[a] = saved[a]
  /\ \A k \in DOMAIN edits : edits[k].on = a => EditShown(edits[k])
  /\ \A k \in DOMAIN edits : PreviousRow(edits[k], a)

SavedShown == savedLoad = "ready" => \A a \in Analyses \ tangled : RowInv(a)

SavedInv == SavedTypes /\ ButtonTypes /\ EditsOverlap /\ SavedLoading /\ SavedShown

LEMMA LineTypes ==
  /\ Deleted \in Lines
  /\ \A line \in Lines, b \in BOOLEAN, st \in {"failed", "succeeded", "deleted"} :
       [line EXCEPT !.paused = b] \in Lines /\ [line EXCEPT !.status = st] \in Lines
  /\ \A line \in Lines, b \in BOOLEAN, kind \in {"pause", "delete", "rerun"} : Edited(kind, b, line) \in Lines
<1>1. Deleted \in Lines
  BY DEF Deleted, Line, Lines
<1>2. ASSUME NEW line \in Lines, NEW b \in BOOLEAN, NEW st \in {"failed", "succeeded", "deleted"}
      PROVE  [line EXCEPT !.paused = b] \in Lines /\ [line EXCEPT !.status = st] \in Lines
  BY DEF Lines
<1>3. ASSUME NEW line \in Lines, NEW b \in BOOLEAN, NEW kind \in {"pause", "delete", "rerun"}
      PROVE  Edited(kind, b, line) \in Lines
  <2>1. CASE kind = "pause"
    BY <1>2, <2>1 DEF Edited
  <2>2. CASE kind = "delete"
    BY <1>1, <2>2 DEF Edited
  <2>3. CASE kind = "rerun"
    BY <1>2, <2>3 DEF Edited
  <2> QED
    BY <2>1, <2>2, <2>3
<1> QED
  BY <1>1, <1>2, <1>3

LEMMA SavedInvInit == SavedInit => SavedInv
<1> SUFFICES ASSUME SavedInit PROVE SavedInv
  OBVIOUS
<1>1. Line(FALSE, "failed") \in Lines /\ Line(TRUE, "succeeded") \in Lines /\ Deleted \in Lines
  BY DEF Line, Lines, Deleted
<1>2. DOMAIN edits = {} /\ edits = [k \in {} |-> 0] /\ savedLoad = "sent"
  BY DEF SavedInit, NoEdits
<1>3. SavedTypes
  BY <1>1, <1>2 DEF SavedInit, SavedTypes
<1> QED
  BY <1>2, <1>3 DEF SavedInit, SavedInv, ButtonTypes, EditsOverlap, SavedLoading, SavedShown

LEMMA SavedLoadSteps == SavedInv /\ (AnswerSaved \/ ReceiveSaved \/ RetrySaved) => SavedInv'
<1> SUFFICES ASSUME SavedInv, AnswerSaved \/ ReceiveSaved \/ RetrySaved PROVE SavedInv'
  OBVIOUS
<1>1. SavedTypes' /\ SavedLoading' /\ ButtonTypes' /\ EditsOverlap'
  <2>1. SavedTypes /\ SavedLoading /\ ButtonTypes /\ EditsOverlap
    BY DEF SavedInv
  <2>2. UNCHANGED <<saved, edits, edited, tangled, rerunning, asksDelete>>
    BY DEF AnswerSaved, ReceiveSaved, RetrySaved
  <2>3. /\ savedLoad # "ready" /\ savedFetched' \in {saved, savedFetched} /\ analyses' \in {analyses, savedFetched}
        /\ savedLoad' \in {"sent", "answered", "ready", "error"} /\ (savedLoad' = "answered" => savedFetched' = saved)
    BY DEF AnswerSaved, ReceiveSaved, RetrySaved, SavedScreen
  <2>4. SavedTypes'
    BY <2>1, <2>2, <2>3 DEF SavedTypes, Edit, Lines
  <2> QED
    BY <2>1, <2>2, <2>3, <2>4 DEF SavedLoading, ButtonTypes, EditsOverlap
<1>2. SavedShown'
  <2>1. CASE ReceiveSaved
    BY <2>1 DEF ReceiveSaved, SavedInv, SavedLoading, SavedShown, RowInv
  <2>2. CASE AnswerSaved \/ RetrySaved
    BY <2>2 DEF AnswerSaved, RetrySaved, SavedShown
  <2> QED
    BY <2>1, <2>2
<1> QED
  BY <1>1, <1>2 DEF SavedInv

(* A request, with the row it shows meanwhile.                             *)
LEMMA StartEditStep ==
  ASSUME SavedInv, NEW a \in Analyses, NEW kind \in {"pause", "delete", "rerun"}, StartEdit(kind, a),
         analyses' = [analyses EXCEPT ![a] = IF kind = "rerun" THEN analyses[a]
                                             ELSE Edited(kind, ~analyses[a].paused, analyses[a])]
  PROVE  SavedTypes' /\ EditsOverlap' /\ SavedLoading' /\ SavedShown'
<1>0. PICK n : n = edited + 1
  OBVIOUS
<1> DEFINE e == [kind |-> kind, on |-> a, paused |-> ~analyses[a].paused, previous |-> analyses,
                 others |-> {edits[j].on : j \in DOMAIN edits}, phase |-> "sent"]
           line == IF kind = "rerun" THEN analyses[a] ELSE Edited(kind, ~analyses[a].paused, analyses[a])
<1>1. /\ SavedTypes /\ EditsOverlap /\ n \in Nat /\ n \notin DOMAIN edits
      /\ savedLoad = "ready" /\ analyses[a] # Deleted
  BY <1>0 DEF SavedInv, SavedTypes, StartEdit, RowShown, SavedScreen
<1>2. /\ edited' = n
      /\ DOMAIN edits' = DOMAIN edits \cup {n}
      /\ edits' = [k \in DOMAIN edits' |-> edits'[k]]
      /\ \A k \in DOMAIN edits : edits'[k] = [edits[k] EXCEPT !.others = @ \cup {a}]
      /\ edits'[n] = e
  BY <1>0, <1>1 DEF StartEdit
<1>3. /\ tangled' \in {tangled, tangled \cup {a}} /\ (~Still(a) => a \in tangled')
      /\ UNCHANGED <<saved, savedLoad, savedFetched>>
  BY DEF StartEdit, Still
<1>4. analyses[a] \in Lines /\ analyses[a].paused \in BOOLEAN /\ (~analyses[a].paused) \in BOOLEAN
  BY <1>1 DEF SavedTypes, Lines
<1>5. e \in Edit /\ e.on = a /\ e.kind = kind /\ e.previous = analyses /\ e.paused = ~analyses[a].paused
      /\ e.phase = "sent" /\ e.others = {edits[j].on : j \in DOMAIN edits}
  BY <1>1, <1>4 DEF Edit, SavedTypes
<1>6. ASSUME NEW k \in DOMAIN edits
      PROVE  /\ edits'[k] \in Edit /\ edits'[k].others = edits[k].others \cup {a}
             /\ edits'[k].previous = edits[k].previous
             /\ edits'[k].on = edits[k].on /\ edits'[k].kind = edits[k].kind
             /\ edits'[k].paused = edits[k].paused /\ edits'[k].phase = edits[k].phase
  <2>1. edits[k] \in Edit /\ edits'[k] = [edits[k] EXCEPT !.others = @ \cup {a}]
    BY <1>1, <1>2 DEF SavedTypes
  <2> QED
    BY <2>1 DEF Edit
<1>7. line \in Lines
  BY <1>4, LineTypes
<1>8. analyses' = [analyses EXCEPT ![a] = line]
  OBVIOUS
<1>9. line = IF kind = "rerun" THEN analyses[a] ELSE Edited(e.kind, e.paused, analyses[a])
  BY <1>5
<1> HIDE DEF e, line
<1>10. /\ analyses' \in [Analyses -> Lines] /\ analyses'[a] = line
       /\ \A b \in Analyses \ {a} : analyses'[b] = analyses[b]
  BY <1>1, <1>7, <1>8 DEF SavedTypes
<1>11. DOMAIN edits' \subseteq 1..n
  BY <1>0, <1>1, <1>2 DEF SavedTypes
<1>12. SavedTypes'
  BY <1>1, <1>2, <1>3, <1>5, <1>6, <1>10, <1>11 DEF SavedTypes, Edit, Lines
<1>13. SavedLoading'
  BY <1>1, <1>3 DEF SavedLoading
<1>14. EditsOverlap'
  BY <1>1, <1>2, <1>5, <1>6 DEF EditsOverlap
<1>15. ASSUME NEW b \in Analyses \ tangled' PROVE RowInv(b)'
  <2>1. RowInv(b) /\ b \notin tangled
    BY <1>1, <1>3, <1>15 DEF SavedInv, SavedShown
  <2>2. b = a => Still(a)
    BY <1>3, <1>15
  <2>3. \A j, k \in DOMAIN edits' : edits'[j].on = b /\ edits'[k].on = b => j = k
    BY <1>2, <1>5, <1>6, <2>1, <2>2 DEF RowInv, Still
  <2>4. Still(b)' => analyses'[b] = saved'[b]
    BY <1>2, <1>3, <1>5, <1>6, <1>10, <2>1 DEF RowInv, Still
  <2>5. ASSUME NEW k \in DOMAIN edits', edits'[k].on = b PROVE EditShown(edits[k])'
    <3>1. CASE k = n
      <4>1. b = a /\ analyses[a] = saved[a]
        BY <1>2, <1>5, <2>1, <2>2, <2>5, <3>1 DEF RowInv
      <4> QED
        BY <1>1, <1>2, <1>3, <1>5, <1>9, <1>10, <3>1, <4>1 DEF EditShown
    <3>2. CASE k \in DOMAIN edits
      <4>1. b # a /\ EditShown(edits[k]) /\ edits[k].on = b
        BY <1>6, <2>1, <2>2, <2>5, <3>2 DEF RowInv, Still
      <4>2. analyses'[b] = analyses[b]
        BY <1>10, <4>1
      <4> QED
        BY <1>3, <1>6, <3>2, <4>1, <4>2 DEF EditShown
    <3> QED
      BY <1>2, <3>1, <3>2
  <2>6. ASSUME NEW k \in DOMAIN edits' PROVE PreviousRow(edits[k], b)'
    <3>1. CASE k = n
      <4>1. b \notin e.others => Still(b)
        BY <1>5 DEF Still
      <4> QED
        BY <1>2, <1>3, <1>5, <2>1, <3>1, <4>1 DEF RowInv, PreviousRow
    <3>2. CASE k \in DOMAIN edits
      <4>1. PreviousRow(edits[k], b)
        BY <2>1, <3>2 DEF RowInv
      <4> QED
        BY <1>3, <1>6, <3>2, <4>1 DEF PreviousRow
    <3> QED
      BY <1>2, <3>1, <3>2
  <2> QED
    BY <2>3, <2>4, <2>5, <2>6 DEF RowInv
<1>16. SavedShown'
  BY <1>15 DEF SavedShown
<1> QED
  BY <1>12, <1>13, <1>14, <1>16

LEMMA UserSteps ==
  ASSUME SavedInv, NEW a \in Analyses, TogglePause(a) \/ DeleteSaved(a) \/ ReRun(a)
  PROVE  SavedInv'
<1>1. analyses \in [Analyses -> Lines] /\ analyses[a] \in Lines
  BY DEF SavedInv, SavedTypes
<1>2. CASE TogglePause(a)
  <2> DEFINE line == [analyses[a] EXCEPT !.paused = ~analyses[a].paused]
  <2>1. StartEdit("pause", a) /\ analyses' = [analyses EXCEPT ![a] = line]
    BY <1>2 DEF TogglePause
  <2>2. line = Edited("pause", ~analyses[a].paused, analyses[a])
    BY DEF Edited
  <2> HIDE DEF line
  <2>3. SavedTypes' /\ EditsOverlap' /\ SavedLoading' /\ SavedShown'
    BY <2>1, <2>2, StartEditStep
  <2> QED
    BY <1>2, <2>3 DEF TogglePause, SavedInv, ButtonTypes
<1>3. CASE DeleteSaved(a)
  <2>1. StartEdit("delete", a) /\ analyses' = [analyses EXCEPT ![a] = Deleted]
    BY <1>3 DEF DeleteSaved
  <2>2. Deleted = Edited("delete", ~analyses[a].paused, analyses[a])
    BY DEF Edited
  <2>3. SavedTypes' /\ EditsOverlap' /\ SavedLoading' /\ SavedShown'
    BY <2>1, <2>2, StartEditStep
  <2> QED
    BY <1>3, <2>3 DEF DeleteSaved, SavedInv, ButtonTypes
<1>4. CASE ReRun(a)
  <2>1. StartEdit("rerun", a) /\ analyses' = [analyses EXCEPT ![a] = analyses[a]]
    BY <1>1, <1>4 DEF ReRun
  <2>2. SavedTypes' /\ EditsOverlap' /\ SavedLoading' /\ SavedShown'
    BY <2>1, StartEditStep
  <2> QED
    BY <1>4, <2>2 DEF ReRun, SavedInv, ButtonTypes
<1> QED
  BY <1>2, <1>3, <1>4

(* The server's answer.                                                    *)
LEMMA AnswerEditStep ==
  ASSUME SavedInv, NEW k \in DOMAIN edits, AnswerEdit(k)
  PROVE  SavedInv'
<1> DEFINE e == edits[k]
<1>1. SavedTypes /\ e \in Edit /\ edits = [j \in DOMAIN edits |-> edits[j]]
      /\ UNCHANGED <<savedLoad, savedFetched, analyses, edited, rerunning, asksDelete, tangled>>
  BY DEF SavedInv, SavedTypes, AnswerEdit
<1>2. PICK d \in Edit :
        /\ edits' = [edits EXCEPT ![k] = d] /\ d.on = e.on /\ d.kind = e.kind
        /\ d.paused = e.paused /\ d.others = e.others /\ d.previous = e.previous
        /\ \/ d.phase = "made" /\ saved' = [saved EXCEPT ![e.on] = Edited(e.kind, e.paused, saved[e.on])]
           \/ d.phase = "refused" /\ saved' = saved
        /\ e.phase = "sent"
  <2>1. CASE /\ edits' = [edits EXCEPT ![k].phase = "made"]
             /\ saved' = [saved EXCEPT ![e.on] = Edited(e.kind, e.paused, saved[e.on])]
    <3> DEFINE d == [e EXCEPT !.phase = "made"]
    <3>1. /\ d \in Edit /\ d.on = e.on /\ d.kind = e.kind /\ d.phase = "made"
          /\ d.paused = e.paused /\ d.others = e.others /\ d.previous = e.previous
      BY <1>1 DEF Edit
    <3>2. edits' = [edits EXCEPT ![k] = d]
      BY <2>1
    <3>3. e.phase = "sent"
      BY DEF AnswerEdit
    <3> HIDE DEF d, e
    <3> QED
      BY <2>1, <3>1, <3>2, <3>3
  <2>2. CASE edits' = [edits EXCEPT ![k].phase = "refused"] /\ saved' = saved
    <3> DEFINE d == [e EXCEPT !.phase = "refused"]
    <3>1. /\ d \in Edit /\ d.on = e.on /\ d.kind = e.kind /\ d.phase = "refused"
          /\ d.paused = e.paused /\ d.others = e.others /\ d.previous = e.previous
      BY <1>1 DEF Edit
    <3>2. edits' = [edits EXCEPT ![k] = d]
      BY <2>2
    <3>3. e.phase = "sent"
      BY DEF AnswerEdit
    <3> HIDE DEF d, e
    <3> QED
      BY <2>2, <3>1, <3>2, <3>3
  <2>3. \/ /\ edits' = [edits EXCEPT ![k].phase = "made"]
           /\ saved' = [saved EXCEPT ![e.on] = Edited(e.kind, e.paused, saved[e.on])]
        \/ edits' = [edits EXCEPT ![k].phase = "refused"] /\ saved' = saved
    BY DEF AnswerEdit
  <2> QED
    BY <2>1, <2>2, <2>3
<1>3. /\ DOMAIN edits' = DOMAIN edits /\ edits'[k] = d
      /\ edits' = [j \in DOMAIN edits' |-> edits'[j]]
      /\ \A j \in DOMAIN edits \ {k} : edits'[j] = edits[j]
  BY <1>2
<1>4. /\ e.on \in Analyses /\ e.kind \in {"pause", "delete", "rerun"} /\ e.paused \in BOOLEAN
      /\ saved \in [Analyses -> Lines] /\ saved[e.on] \in Lines
  BY <1>1 DEF Edit, SavedTypes
<1> HIDE DEF e
<1>5. Edited(e.kind, e.paused, saved[e.on]) \in Lines
  BY <1>4, LineTypes
<1>6. /\ saved' \in [Analyses -> Lines] /\ \A b \in Analyses \ {e.on} : saved'[b] = saved[b]
      /\ saved'[e.on] = IF d.phase = "made" THEN Edited(e.kind, e.paused, saved[e.on]) ELSE saved[e.on]
  BY <1>2, <1>4, <1>5
<1>7. SavedTypes' /\ SavedLoading' /\ ButtonTypes'
  BY <1>1, <1>2, <1>3, <1>6 DEF SavedInv, SavedTypes, SavedLoading, ButtonTypes, Edit, Lines
<1>8. ASSUME NEW j \in DOMAIN edits
      PROVE  /\ edits'[j].on = edits[j].on /\ edits'[j].others = edits[j].others
             /\ edits'[j].previous = edits[j].previous
  BY <1>2, <1>3 DEF e
<1>9. EditsOverlap'
  BY <1>3, <1>8 DEF SavedInv, EditsOverlap
<1>10. ASSUME savedLoad = "ready", NEW b \in Analyses \ tangled PROVE RowInv(b)'
  <2>1. RowInv(b)
    BY <1>10 DEF SavedInv, SavedShown
  <2>2. \A i, j \in DOMAIN edits' : edits'[i].on = b /\ edits'[j].on = b => i = j
    BY <1>3, <1>8, <2>1 DEF RowInv
  <2>3. Still(b)' => analyses'[b] = saved'[b]
    <3>1. Still(b)' => Still(b) /\ b # e.on
      BY <1>2, <1>3, <1>8 DEF Still
    <3> QED
      BY <1>1, <1>6, <2>1, <3>1 DEF RowInv
  <2>4. ASSUME NEW j \in DOMAIN edits', edits'[j].on = b PROVE EditShown(edits[j])'
    <3>1. EditShown(edits[j]) /\ edits[j].on = b
      BY <1>3, <1>8, <2>1, <2>4 DEF RowInv
    <3>2. CASE j = k
      <4>1. EditShown(e)
        BY <3>1, <3>2 DEF e
      <4> QED
        BY <1>1, <1>2, <1>3, <1>4, <1>6, <3>2, <4>1 DEF EditShown
    <3>3. CASE j # k
      <4>1. b # e.on /\ edits'[j] = edits[j]
        BY <1>3, <2>1, <2>4, <3>1, <3>3 DEF RowInv, e
      <4>2. saved'[b] = saved[b]
        BY <1>6, <4>1
      <4> QED
        BY <1>1, <3>1, <4>1, <4>2 DEF EditShown
    <3> QED
      BY <3>2, <3>3
  <2>5. ASSUME NEW j \in DOMAIN edits' PROVE PreviousRow(edits[j], b)'
    <3>1. PreviousRow(edits[j], b)
      BY <1>3, <2>1 DEF RowInv
    <3>2. CASE j = k
      <4>1. b = e.on /\ d.phase # "made" => saved'[b] = saved[b]
        BY <1>6
      <4>2. e.phase # "made"
        BY <1>2
      <4> QED
        BY <1>2, <1>3, <1>6, <3>1, <3>2, <4>1, <4>2 DEF PreviousRow, e
    <3>3. CASE j # k
      <4>1. e.on \in edits[j].others /\ edits'[j] = edits[j]
        BY <1>3, <3>3 DEF SavedInv, EditsOverlap, e
      <4> QED
        BY <1>6, <3>1, <4>1 DEF PreviousRow
    <3> QED
      BY <3>2, <3>3
  <2> QED
    BY <2>2, <2>3, <2>4, <2>5 DEF RowInv
<1>11. SavedShown'
  BY <1>1, <1>10 DEF SavedShown
<1> QED
  BY <1>7, <1>9, <1>11 DEF SavedInv

(* The page receives the answer.                                           *)
LEMMA EditEndsStep ==
  ASSUME SavedInv, NEW k \in DOMAIN edits, EditMade(k) \/ EditFails(k)
  PROVE  SavedInv'
<1> DEFINE e == edits[k]
<1>1. SavedTypes /\ e \in Edit /\ UNCHANGED <<saved, savedLoad, savedFetched, edited, asksDelete>>
  BY DEF SavedInv, SavedTypes, EditMade, EditFails
<1>2. /\ DOMAIN edits' = DOMAIN edits \ {k} /\ \A j \in DOMAIN edits' : edits'[j] = edits[j]
      /\ edits' = [j \in DOMAIN edits' |-> edits'[j]]
  BY DEF EditMade, EditFails, EndEdit
<1>3. /\ e.on \in Analyses /\ e.previous \in [Analyses -> Lines]
      /\ saved \in [Analyses -> Lines] /\ analyses \in [Analyses -> Lines] /\ analyses[e.on] \in Lines
  BY <1>1 DEF Edit, SavedTypes
<1> DEFINE line == Edited("rerun", e.paused, analyses[e.on])
<1>4. line = [analyses[e.on] EXCEPT !.status = "succeeded"]
  BY DEF Edited
<1>5. line \in Lines
  BY <1>3, <1>4, LineTypes
<1>6. \/ /\ e.phase = "made" /\ tangled' = tangled
         /\ analyses' = IF e.kind = "rerun" /\ analyses[e.on] # Deleted
                        THEN [analyses EXCEPT ![e.on] = line] ELSE analyses
      \/ /\ analyses' = e.previous
         /\ tangled' = tangled \cup e.others \cup IF e.phase = "made" THEN {e.on} ELSE {}
  BY <1>4 DEF EditMade, EditFails, Caught
<1>7. e.kind \in {"pause", "delete", "rerun"} /\ e.others \subseteq Analyses
  BY <1>1 DEF Edit
<1>8. tangled \subseteq tangled' /\ tangled' \subseteq Analyses
  BY <1>1, <1>3, <1>6, <1>7 DEF SavedTypes
<1> HIDE DEF line
<1>9. analyses' \in [Analyses -> Lines]
  BY <1>3, <1>5, <1>6
<1>10. SavedTypes' /\ SavedLoading' /\ ButtonTypes'
  <2>1. ButtonTypes'
    BY <1>1 DEF SavedInv, ButtonTypes, EditMade, EditFails, Ran
  <2>2. SavedTypes'
    BY <1>1, <1>2, <1>8, <1>9 DEF SavedTypes, Edit, Lines
  <2> QED
    BY <1>1, <1>2, <2>1, <2>2 DEF SavedInv, SavedLoading
<1>11. EditsOverlap'
  BY <1>2 DEF SavedInv, EditsOverlap
<1>12. ASSUME savedLoad = "ready", NEW b \in Analyses \ tangled' PROVE RowInv(b)'
  <2>1. RowInv(b)
    BY <1>8, <1>12 DEF SavedInv, SavedShown
  <2>2. b = e.on => Still(b)' /\ analyses'[b] = saved[b]
    <3>1. b = e.on => Still(b)'
      BY <1>2, <2>1 DEF RowInv, Still
    <3>2. ASSUME b = e.on PROVE EditShown(e) /\ PreviousRow(e, b)
      BY <2>1, <3>2 DEF RowInv
    <3>3. CASE e.phase = "made"
              /\ analyses' = IF e.kind = "rerun" /\ analyses[e.on] # Deleted
                             THEN [analyses EXCEPT ![e.on] = line] ELSE analyses
      <4>1. CASE e.kind = "rerun" /\ b = e.on
        <5>1. analyses[e.on] # Deleted /\ saved[e.on] = line
          BY <3>2, <3>3, <4>1 DEF EditShown, line
        <5> QED
          BY <1>3, <3>1, <3>3, <4>1, <5>1
      <4>2. CASE e.kind # "rerun"
        BY <3>1, <3>2, <3>3, <4>2 DEF EditShown
      <4> QED
        BY <4>1, <4>2
    <3>4. CASE /\ analyses' = e.previous
               /\ tangled' = tangled \cup e.others \cup IF e.phase = "made" THEN {e.on} ELSE {}
      <4>1. b \notin e.others /\ (b = e.on => e.phase # "made")
        BY <1>12, <3>4
      <4> QED
        BY <3>1, <3>2, <3>4, <4>1 DEF PreviousRow
    <3> QED
      BY <1>6, <3>3, <3>4
  <2>3. b # e.on => analyses'[b] = analyses[b] \/ (Still(b) /\ analyses'[b] = saved[b])
    <3>1. CASE analyses' = IF e.kind = "rerun" /\ analyses[e.on] # Deleted
                           THEN [analyses EXCEPT ![e.on] = line] ELSE analyses
      BY <1>3, <3>1
    <3>2. CASE /\ analyses' = e.previous
               /\ tangled' = tangled \cup e.others \cup IF e.phase = "made" THEN {e.on} ELSE {}
      <4>1. b \notin e.others /\ (b # e.on => Still(b))
        BY <1>12, <3>2 DEF SavedInv, EditsOverlap, Still
      <4>2. PreviousRow(e, b)
        BY <2>1 DEF RowInv
      <4> QED
        BY <3>2, <4>1, <4>2 DEF PreviousRow
    <3> QED
      BY <1>6, <3>1, <3>2
  <2>4. \A i, j \in DOMAIN edits' : edits'[i].on = b /\ edits'[j].on = b => i = j
    BY <1>2, <2>1 DEF RowInv
  <2>5. Still(b)' => analyses'[b] = saved'[b]
    <3>1. b # e.on /\ Still(b)' => Still(b)
      BY <1>2 DEF Still
    <3> QED
      BY <1>1, <2>1, <2>2, <2>3, <3>1 DEF RowInv
  <2>6. ASSUME NEW j \in DOMAIN edits', edits'[j].on = b PROVE EditShown(edits[j])'
    <3>1. edits[j].on = b /\ EditShown(edits[j]) /\ edits'[j] = edits[j] /\ ~Still(b) /\ ~Still(b)'
      BY <1>2, <2>1, <2>6 DEF RowInv, Still
    <3>2. analyses'[b] = analyses[b]
      BY <2>2, <2>3, <3>1
    <3> QED
      BY <1>1, <3>1, <3>2 DEF EditShown
  <2>7. ASSUME NEW j \in DOMAIN edits' PROVE PreviousRow(edits[j], b)'
    <3>1. PreviousRow(edits[j], b) /\ edits'[j] = edits[j]
      BY <1>2, <2>1 DEF RowInv
    <3> QED
      BY <1>1, <3>1 DEF PreviousRow
  <2> QED
    BY <2>4, <2>5, <2>6, <2>7 DEF RowInv
<1>13. SavedShown'
  BY <1>1, <1>12 DEF SavedShown
<1> QED
  BY <1>10, <1>11, <1>13 DEF SavedInv

LEMMA SavedInvStep == SavedInv /\ [SavedNext]_savedVars => SavedInv'
<1> SUFFICES ASSUME SavedInv, [SavedNext]_savedVars PROVE SavedInv'
  OBVIOUS
<1>1. CASE AnswerSaved \/ ReceiveSaved \/ RetrySaved
  BY <1>1, SavedLoadSteps
<1>2. ASSUME NEW a \in Analyses, TogglePause(a) \/ DeleteSaved(a) \/ ReRun(a) PROVE SavedInv'
  BY <1>2, UserSteps
<1>3. CASE /\ UNCHANGED <<saved, savedLoad, savedFetched, analyses, edits, edited, rerunning, tangled>>
           /\ asksDelete' \in Analyses \cup {"none", asksDelete}
  <2>1. SavedTypes' /\ SavedLoading' /\ ButtonTypes'
    BY <1>3 DEF SavedInv, SavedTypes, SavedLoading, ButtonTypes
  <2>2. EditsOverlap'
    BY <1>3 DEF SavedInv, EditsOverlap
  <2>3. ASSUME NEW a \in Analyses, RowInv(a) PROVE RowInv(a)'
    BY <1>3, <2>3 DEF RowInv, Still, EditShown, PreviousRow
  <2>4. SavedShown'
    BY <1>3, <2>3 DEF SavedInv, SavedShown
  <2> QED
    BY <2>1, <2>2, <2>4 DEF SavedInv
<1>4. ASSUME NEW k \in DOMAIN edits, AnswerEdit(k) PROVE SavedInv'
  BY <1>4, AnswerEditStep
<1>5. ASSUME NEW k \in DOMAIN edits, EditMade(k) \/ EditFails(k) PROVE SavedInv'
  BY <1>5, EditEndsStep
<1>6. KeepIt \/ UNCHANGED savedVars \/ (\E a \in Analyses : AskDelete(a)) =>
        /\ UNCHANGED <<saved, savedLoad, savedFetched, analyses, edits, edited, rerunning, tangled>>
        /\ asksDelete' \in Analyses \cup {"none", asksDelete}
  BY DEF KeepIt, AskDelete, savedVars
<1> QED
  BY <1>1, <1>2, <1>3, <1>4, <1>5, <1>6 DEF SavedNext

LEMMA SavedInvHolds == SavedInv => SavedTypeOK /\ SavedIsServer
<1> SUFFICES ASSUME SavedInv PROVE SavedTypeOK /\ SavedIsServer
  OBVIOUS
<1>1. SavedTypeOK
  BY DEF SavedInv, SavedTypes, ButtonTypes, SavedTypeOK, Lines
<1>2. SavedIsServer
  BY DEF SavedInv, SavedShown, RowInv, Still, SavedIsServer, SavedScreen
<1> QED
  BY <1>1, <1>2

(* For any analyses: the list holds their rows and nothing else.           *)
THEOREM SavedTypesHold == SavedSpec => []SavedTypeOK
BY SavedInvInit, SavedInvStep, SavedInvHolds, PTL DEF SavedSpec

(* For any analyses and any number of requests: a row with none under way  *)
(* is the server's, also while requests for others fail, unless its        *)
(* analysis is tangled in one of the ways the property names.              *)
THEOREM SavedIsServerHolds == SavedSpec => []SavedIsServer
BY SavedInvInit, SavedInvStep, SavedInvHolds, PTL DEF SavedSpec

-----------------------------------------------------------------------------
(* Agent defaults.  Nothing is saved before the page is shown, nor once an *)
(* error hides it for good.  While no two requests overlap, the settings   *)
(* the page compares its form with are the server's, or the answer under   *)
(* way has them.                                                           *)

ServerSettings == [limits : Limits, tier : {Assigned, Unset, Gone}]
FormSettings == [limits : Limits, tier : {Assigned, Unset}]
SaveUnderWay == [sent : FormSettings, phase : {"sent", "half", "stored"},
                 answer : ServerSettings \cup {None}]
ResetUnderWay == [phase : {"none", "sent", "half", "stored"}, answer : ServerSettings \cup {None}]

DefaultsTypes ==
  /\ defaults \in ServerSettings
  /\ defLoad \in {"sent", "answered", "ready", "failed"} /\ defError \in BOOLEAN
  /\ defLoad = "answered" => defAnswer \in ServerSettings
  /\ defLoad = "ready" /\ ~defError => settings \in ServerSettings /\ values \in FormSettings
  /\ saves \in Seq(SaveUnderWay) /\ reset \in ResetUnderWay
  /\ \A i \in DOMAIN saves : saves[i].phase = "stored" => saves[i].answer \in ServerSettings
  /\ reset.phase = "stored" => reset.answer \in ServerSettings

SavesFromPage == saves # <<>> \/ reset.phase # "none" => defLoad = "ready" /\ ~defError

NoOverlap == ~overlapped => Len(saves) \in {0, 1} /\ (reset.phase # "none" => Len(saves) = 0)

AnswersAreServer ==
  ~overlapped /\ ~unseen /\ ~defError =>
    /\ defLoad = "answered" => defAnswer = defaults
    /\ \A i \in DOMAIN saves : saves[i].phase = "stored" => saves[i].answer = defaults
    /\ reset.phase = "stored" => reset.answer = defaults
    /\ /\ defLoad = "ready" /\ reset.phase \in {"none", "sent"}
       /\ \A i \in DOMAIN saves : saves[i].phase = "sent"
       => settings = defaults

DefaultsInv == DefaultsTypes /\ SavesFromPage /\ NoOverlap /\ AnswersAreServer

LEMMA SettingsTypes ==
  /\ Recommended \in ServerSettings
  /\ \A l \in Limits, t \in {Assigned, Unset, Gone} : Settings(l, t) \in ServerSettings
  /\ \A s \in ServerSettings : FromServer(s) \in FormSettings /\ Settings(s.limits, Unset) \in FormSettings
  /\ \A s \in ServerSettings, t \in {Assigned, Unset, Gone} : [s EXCEPT !.tier = t] \in ServerSettings
  /\ \A s \in FormSettings : [s EXCEPT !.tier = Assigned] \in FormSettings
  /\ \A s \in FormSettings, l \in Limits : [s EXCEPT !.limits = l] \in FormSettings
BY DefaultAssumption
   DEF Recommended, Settings, ServerSettings, FormSettings, FromServer, Assigned, Unset, Gone

LEMMA DefaultsInvInit == DefaultsInit => DefaultsInv
<1> SUFFICES ASSUME DefaultsInit PROVE DefaultsInv
  OBVIOUS
<1>1. saves = <<>> /\ reset = NoReset /\ NoReset \in ResetUnderWay /\ NoReset.phase = "none"
  BY DEF DefaultsInit, NoReset, ResetUnderWay
<1>2. saves \in Seq(SaveUnderWay) /\ Len(saves) = 0 /\ DOMAIN saves = {}
  BY <1>1
<1>3. defaults \in ServerSettings /\ defLoad = "sent" /\ defError = FALSE
  BY DEF DefaultsInit, ServerSettings
<1> QED
  BY <1>1, <1>2, <1>3 DEF DefaultsInv, DefaultsTypes, SavesFromPage, NoOverlap, AnswersAreServer

(* Loading, and the provider removed on another page.                      *)
LEMMA DefaultsLoadSteps ==
  DefaultsInv /\ (AnswerDefaults \/ ShowDefaults \/ DefaultsFail \/ RetryDefaults \/ RemoveProvider)
    => DefaultsInv'
<1> SUFFICES ASSUME DefaultsInv,
                    AnswerDefaults \/ ShowDefaults \/ DefaultsFail \/ RetryDefaults \/ RemoveProvider
             PROVE  DefaultsInv'
  OBVIOUS
<1>1. UNCHANGED <<saves, reset, overlapped>>
  BY DEF AnswerDefaults, ShowDefaults, DefaultsFail, RetryDefaults, RemoveProvider,
         requestVars, defNotes
<1>2. CASE AnswerDefaults
  BY <1>1, <1>2 DEF AnswerDefaults, formVars, requestVars, defNotes, DefaultsInv, DefaultsTypes,
                    SavesFromPage, NoOverlap, AnswersAreServer
<1>3. CASE ShowDefaults
  <2>1. settings' \in ServerSettings /\ values' \in FormSettings
    BY <1>3, SettingsTypes DEF ShowDefaults, DefaultsInv, DefaultsTypes
  <2> QED
    BY <1>1, <1>3, <2>1 DEF ShowDefaults, requestVars, defNotes, DefaultsInv, DefaultsTypes,
                            SavesFromPage, NoOverlap, AnswersAreServer
<1>4. CASE DefaultsFail
  BY <1>1, <1>4 DEF DefaultsFail, formVars, requestVars, defNotes, DefaultsInv, DefaultsTypes,
                    SavesFromPage, NoOverlap, AnswersAreServer
<1>5. CASE RetryDefaults
  <2>1. defError
    BY <1>5 DEF RetryDefaults, DefaultsScreen
  <2> QED
    BY <1>1, <1>5, <2>1 DEF RetryDefaults, formVars, requestVars, DefaultsInv, DefaultsTypes,
                            SavesFromPage, NoOverlap, AnswersAreServer
<1>6. CASE RemoveProvider
  <2>1. defaults \in ServerSettings /\ defaults.tier \in {Assigned, Unset, Gone}
    BY DEF DefaultsInv, DefaultsTypes, ServerSettings
  <2>2. PICK t \in {Assigned, Unset, Gone} : defaults' = [defaults EXCEPT !.tier = t]
    BY <1>6, <2>1 DEF RemoveProvider
  <2>3. defaults' \in ServerSettings
    BY <2>1, <2>2, SettingsTypes
  <2> QED
    <3>1. unseen' /\ UNCHANGED <<defLoad, defAnswer, defError, settings, values>>
      BY <1>6 DEF RemoveProvider, loadVars, formVars
    <3>2. DefaultsTypes'
      BY <1>1, <2>3, <3>1 DEF DefaultsInv, DefaultsTypes
    <3> QED
      BY <1>1, <3>1, <3>2 DEF DefaultsInv, SavesFromPage, NoOverlap, AnswersAreServer
<1> QED
  BY <1>2, <1>3, <1>4, <1>5, <1>6

(* Editing and the reset's question.                                       *)
LEMMA FormSteps ==
  DefaultsInv /\ ((\E l \in Limits : SetLimits(l)) \/ setAssignment \/ AskReset)
    => DefaultsInv'
<1> SUFFICES ASSUME DefaultsInv, (\E l \in Limits : SetLimits(l)) \/ setAssignment \/ AskReset
             PROVE  DefaultsInv'
  OBVIOUS
<1>1. UNCHANGED <<defaults, defLoad, defAnswer, defError, settings, saves, reset, overlapped, unseen>>
  BY DEF SetLimits, setAssignment, AskReset, loadVars, requestVars, defNotes
<1>2. ASSUME defLoad = "ready", ~defError PROVE values' \in FormSettings
  <2>1. values \in FormSettings
    BY <1>2 DEF DefaultsInv, DefaultsTypes
  <2>2. ASSUME NEW l \in Limits, SetLimits(l) PROVE values' \in FormSettings
    BY <2>1, <2>2, SettingsTypes DEF SetLimits
  <2>3. CASE setAssignment
    BY <2>1, <2>3, SettingsTypes DEF setAssignment
  <2>4. CASE AskReset
    BY <2>1, <2>4 DEF AskReset
  <2> QED
    BY <2>2, <2>3, <2>4
<1> QED
  <2>1. DefaultsTypes'
    BY <1>1, <1>2 DEF DefaultsInv, DefaultsTypes
  <2> QED
    BY <1>1, <2>1 DEF DefaultsInv, SavesFromPage, NoOverlap, AnswersAreServer

LEMMA SaveStep == DefaultsInv /\ Save => DefaultsInv'
<1> SUFFICES ASSUME DefaultsInv, Save PROVE DefaultsInv'
  OBVIOUS
<1> DEFINE new == [sent |-> values, phase |-> "sent", answer |-> None]
<1>1. DefaultsTypes /\ defLoad = "ready" /\ ~defError
  BY DEF DefaultsInv, DefaultsTypes, Save, DefaultsScreen
<1>2. new \in SaveUnderWay /\ new.phase = "sent"
  BY <1>1 DEF DefaultsTypes, SaveUnderWay
<1>3. saves' = Append(saves, new) /\ overlapped' = (overlapped \/ saves # <<>> \/ reset.phase # "none")
      /\ UNCHANGED <<defaults, defLoad, defAnswer, defError, settings, values, reset, unseen>>
  BY DEF Save, loadVars, formVars
<1> HIDE DEF new
<1>4. /\ saves' \in Seq(SaveUnderWay) /\ Len(saves') = Len(saves) + 1 /\ DOMAIN saves' = 1..(Len(saves) + 1)
      /\ saves'[Len(saves) + 1] = new /\ \A i \in DOMAIN saves : saves'[i] = saves[i]
      /\ DOMAIN saves = 1..Len(saves) /\ Len(saves) \in Nat /\ (saves = <<>> <=> Len(saves) = 0)
  BY <1>1, <1>2, <1>3, AppendProperties DEF DefaultsTypes
<1>5. \A i \in DOMAIN saves' : saves'[i] = new \/ (i \in DOMAIN saves /\ saves'[i] = saves[i])
  BY <1>4
<1>6. DefaultsTypes'
  BY <1>1, <1>2, <1>3, <1>4, <1>5 DEF DefaultsTypes
<1>7. ~overlapped' => ~overlapped /\ Len(saves) = 0 /\ reset.phase = "none" /\ DOMAIN saves = {}
  <2>1. ~overlapped' => ~overlapped /\ saves = <<>> /\ reset.phase = "none"
    BY <1>3, Zenon
  <2> QED
    BY <1>4, <2>1
<1>8. SavesFromPage' /\ NoOverlap'
  BY <1>1, <1>3, <1>4, <1>7 DEF SavesFromPage, NoOverlap
<1>9. AnswersAreServer'
  BY <1>2, <1>3, <1>5, <1>7 DEF DefaultsInv, AnswersAreServer
<1> QED
  BY <1>6, <1>8, <1>9 DEF DefaultsInv

(* What the server makes of a save: it writes twice.                       *)
LEMMA StoreSaveStep ==
  ASSUME DefaultsInv, NEW i \in DOMAIN saves, StoreLimits(i) \/ StoreTier(i)
  PROVE  DefaultsInv'
<1>1. /\ DefaultsTypes /\ saves \in Seq(SaveUnderWay) /\ DOMAIN saves = 1..Len(saves)
      /\ saves[i] \in SaveUnderWay /\ defaults \in ServerSettings /\ saves # <<>> /\ Len(saves) \in Nat
  BY DEF DefaultsInv, DefaultsTypes
<1>2. UNCHANGED <<defLoad, defAnswer, defError, settings, values, reset, overlapped, unseen>>
  BY DEF StoreLimits, StoreTier, loadVars, formVars, defNotes
<1>3. defaults' \in ServerSettings
  <2>1. saves[i].sent.limits \in Limits
    BY <1>1 DEF SaveUnderWay, FormSettings
  <2>2. CASE StoreLimits(i)
    BY <1>1, <2>1, <2>2 DEF StoreLimits, ServerSettings
  <2>3. CASE StoreTier(i)
    BY <1>1, <2>3, SettingsTypes DEF StoreTier
  <2> QED
    BY <2>2, <2>3
<1>4. \E r \in SaveUnderWay : /\ saves' = [saves EXCEPT ![i] = r] /\ r.phase # "sent"
                              /\ r.phase = "stored" => r.answer = defaults'
  <2>1. CASE StoreLimits(i)
    <3> DEFINE r == [saves[i] EXCEPT !.phase = "half"]
    <3>1. r \in SaveUnderWay /\ r.phase = "half"
      BY <1>1 DEF SaveUnderWay
    <3>2. saves' = [saves EXCEPT ![i] = r]
      BY <2>1 DEF StoreLimits
    <3> QED
      BY <3>1, <3>2
  <2>2. CASE StoreTier(i)
    <3>1. PICK new \in ServerSettings : new = defaults'
      BY <1>3
    <3> DEFINE r == [[saves[i] EXCEPT !.phase = "stored"] EXCEPT !.answer = new]
    <3>2. r \in SaveUnderWay /\ r.phase = "stored" /\ r.answer = new
      BY <1>1, <3>1 DEF SaveUnderWay
    <3>3. saves' = [saves EXCEPT ![i] = r]
      BY <1>1, <2>2, <3>1 DEF StoreTier
    <3> QED
      BY <3>1, <3>2, <3>3
  <2> QED
    BY <2>1, <2>2
<1>5. PICK r \in SaveUnderWay : /\ saves' = [saves EXCEPT ![i] = r] /\ r.phase # "sent"
                                /\ r.phase = "stored" => r.answer = defaults'
  BY <1>4
<1>6. /\ saves' \in Seq(SaveUnderWay) /\ Len(saves') = Len(saves) /\ DOMAIN saves' = DOMAIN saves
      /\ saves'[i] = r /\ \A j \in DOMAIN saves \ {i} : saves'[j] = saves[j]
  <2>1. saves' = [saves EXCEPT ![i] = r]
    BY <1>5
  <2> QED
    BY <1>1, <2>1, ExceptSeq
<1>7. DefaultsTypes'
  BY <1>1, <1>2, <1>3, <1>5, <1>6 DEF DefaultsTypes
<1>8. SavesFromPage' /\ NoOverlap'
  BY <1>1, <1>2, <1>6 DEF DefaultsInv, SavesFromPage, NoOverlap
<1>9. AnswersAreServer'
  <2>1. ~overlapped => Len(saves) = 1 /\ DOMAIN saves = {i} /\ reset.phase = "none"
    BY <1>1 DEF DefaultsInv, NoOverlap
  <2>2. defLoad = "ready"
    BY <1>1 DEF DefaultsInv, SavesFromPage
  <2>3. ASSUME ~overlapped
        PROVE  /\ \A j \in DOMAIN saves' :
                    saves'[j].phase # "sent" /\ (saves'[j].phase = "stored" => saves'[j].answer = defaults')
               /\ i \in DOMAIN saves' /\ reset.phase = "none"
    <3>1. DOMAIN saves' = {i} /\ saves'[i] = r /\ reset.phase = "none"
      BY <1>6, <2>1, <2>3
    <3>2. r.phase # "sent" /\ (r.phase = "stored" => r.answer = defaults')
      BY <1>5
    <3> QED
      BY <3>1, <3>2
  <2> QED
    BY <1>2, <2>2, <2>3 DEF AnswersAreServer
<1> QED
  BY <1>7, <1>8, <1>9 DEF DefaultsInv

(* The page receives the answer, or the request's failure.                 *)
LEMMA SaveEndsStep ==
  ASSUME DefaultsInv, NEW i \in DOMAIN saves, Saved(i) \/ SaveFails(i)
  PROVE  DefaultsInv'
<1>1. /\ DefaultsTypes /\ saves \in Seq(SaveUnderWay) /\ DOMAIN saves = 1..Len(saves)
      /\ saves # <<>> /\ Len(saves) \in Nat
  BY DEF DefaultsInv, DefaultsTypes
<1>2. /\ saves' = RemoveAt(saves, i)
      /\ UNCHANGED <<defaults, defLoad, defAnswer, defError, values, reset, overlapped>>
  BY DEF Saved, SaveFails, loadVars, defNotes
<1>3. /\ saves' \in Seq(SaveUnderWay) /\ Len(saves') = Len(saves) - 1
      /\ DOMAIN saves' = 1..(Len(saves) - 1)
      /\ \A j \in DOMAIN saves' : \E n \in DOMAIN saves : saves'[j] = saves[n]
  <2>1. /\ RemoveAt(saves, i) \in Seq(SaveUnderWay)
        /\ Len(RemoveAt(saves, i)) = Len(saves) - 1
        /\ \A j \in 1..(Len(saves) - 1) :
             RemoveAt(saves, i)[j] = IF j < i THEN saves[j] ELSE saves[j + 1]
    BY <1>1, RemoveAtElements
  <2>2. DOMAIN saves' = 1..(Len(saves) - 1)
    BY <1>2, <2>1
  <2> QED
    <3>1. ASSUME NEW j \in DOMAIN saves' PROVE \E n \in DOMAIN saves : saves'[j] = saves[n]
      <4>1. CASE j < i
        BY <1>1, <1>2, <2>1, <2>2, <4>1
      <4>2. CASE ~(j < i)
        <5>1. saves'[j] = saves[j + 1] /\ j + 1 \in DOMAIN saves
          BY <1>1, <1>2, <2>1, <2>2, <4>2
        <5> QED
          BY <5>1
      <4> QED
        BY <4>1, <4>2
    <3> QED
      BY <1>2, <2>1, <2>2, <3>1
<1>4. settings' = settings \/ (Saved(i) /\ settings' = saves[i].answer /\ saves[i].answer \in ServerSettings)
  BY <1>1 DEF Saved, SaveFails, DefaultsTypes
<1>5. DefaultsTypes'
  BY <1>1, <1>2, <1>3, <1>4 DEF DefaultsTypes
<1>6. SavesFromPage' /\ NoOverlap'
  <2>1. SavesFromPage'
    BY <1>1, <1>2 DEF DefaultsInv, SavesFromPage
  <2>2. ~overlapped => Len(saves) = 1 /\ reset.phase = "none"
    BY <1>1 DEF DefaultsInv, NoOverlap
  <2> QED
    BY <1>2, <1>3, <2>1, <2>2 DEF NoOverlap
<1>7. ASSUME ~overlapped, ~unseen', ~defError
      PROVE  defLoad = "ready" /\ reset.phase = "none" /\ settings' = defaults /\ DOMAIN saves' = {}
  <2>1. ~unseen
    BY <1>7 DEF Saved, SaveFails, defNotes
  <2>2. Len(saves) = 1 /\ i = 1 /\ DOMAIN saves = {i} /\ reset.phase = "none" /\ defLoad = "ready"
    BY <1>1, <1>7 DEF DefaultsInv, NoOverlap, SavesFromPage
  <2>3. /\ saves[i].phase = "stored" => saves[i].answer = defaults
        /\ saves[i].phase = "sent" => settings = defaults
    BY <1>7, <2>1, <2>2 DEF DefaultsInv, AnswersAreServer
  <2>4. CASE Saved(i)
    BY <1>3, <2>2, <2>3, <2>4 DEF Saved
  <2>5. CASE SaveFails(i)
    <3>1. saves[i].phase = "sent" /\ settings' = settings
      BY <1>7, <2>5 DEF SaveFails
    <3> QED
      BY <1>3, <2>2, <2>3, <3>1
  <2> QED
    BY <2>4, <2>5
<1>8. AnswersAreServer'
  BY <1>2, <1>7 DEF AnswersAreServer
<1> QED
  BY <1>5, <1>6, <1>8 DEF DefaultsInv

LEMMA ResetSteps == DefaultsInv /\ (Reset \/ ResetLimits \/ ResetTier \/ ResetDone \/ ResetFails) => DefaultsInv'
<1> SUFFICES ASSUME DefaultsInv, Reset \/ ResetLimits \/ ResetTier \/ ResetDone \/ ResetFails PROVE DefaultsInv'
  OBVIOUS
<1>1. /\ DefaultsTypes /\ saves \in Seq(SaveUnderWay) /\ Len(saves) \in Nat /\ (Len(saves) = 0 <=> saves = <<>>)
      /\ DOMAIN saves = 1..Len(saves)
  BY DEF DefaultsInv, DefaultsTypes
<1>2. UNCHANGED <<defLoad, defAnswer, defError, saves>>
  BY DEF Reset, ResetLimits, ResetTier, ResetDone, ResetFails, loadVars
<1>3. reset \in ResetUnderWay
  BY <1>1 DEF DefaultsTypes
<1>4. \A s \in ServerSettings : Settings(s.limits, Unset) \in FormSettings
  BY SettingsTypes
<1>5. CASE Reset
  <2>1. /\ reset'.phase = "sent" /\ reset.phase = "none" /\ overlapped' = (overlapped \/ saves # <<>>)
        /\ defLoad = "ready" /\ ~defError /\ UNCHANGED <<defaults, settings, values, unseen>>
    BY <1>5 DEF Reset, formVars, DefaultsScreen, DefaultsInv, DefaultsTypes
  <2>2. DefaultsTypes'
    <3>1. reset' \in ResetUnderWay
      BY <1>5 DEF Reset, ResetUnderWay
    <3> QED
      BY <1>1, <1>2, <2>1, <3>1 DEF DefaultsTypes
  <2>3. ~overlapped' => ~overlapped /\ saves = <<>>
    BY <2>1, Zenon
  <2>4. SavesFromPage' /\ NoOverlap'
    BY <1>1, <1>2, <2>1, <2>3 DEF SavesFromPage, NoOverlap
  <2>5. AnswersAreServer'
    BY <1>1, <1>2, <2>1, <2>3 DEF DefaultsInv, AnswersAreServer
  <2> QED
    BY <2>2, <2>4, <2>5 DEF DefaultsInv
<1>6. CASE ResetLimits \/ ResetTier
  <2>1. /\ defaults' \in ServerSettings /\ reset' \in ResetUnderWay
        /\ reset.phase \in {"sent", "half"} /\ reset'.phase \in {"half", "stored"}
        /\ reset'.phase = "stored" => reset'.answer = defaults'
    <3>1. CASE ResetLimits
      <4>1. defaults' \in ServerSettings
        BY <1>1, <3>1, DefaultAssumption DEF ResetLimits, DefaultsTypes, ServerSettings
      <4>2. reset' \in ResetUnderWay /\ reset'.phase = "half" /\ reset.phase = "sent"
        BY <1>3, <3>1 DEF ResetLimits, ResetUnderWay
      <4> QED
        BY <4>1, <4>2
    <3>2. CASE ResetTier
      <4>1. defaults' \in ServerSettings
        BY <1>1, <3>2, SettingsTypes DEF ResetTier, DefaultsTypes
      <4>2. /\ reset' = [phase |-> "stored", answer |-> defaults'] /\ reset.phase = "half"
        BY <3>2 DEF ResetTier
      <4> QED
        BY <4>1, <4>2 DEF ResetUnderWay
    <3> QED
      BY <1>6, <3>1, <3>2
  <2>2. UNCHANGED <<settings, values, overlapped, unseen>>
    BY <1>6 DEF ResetLimits, ResetTier, formVars, defNotes
  <2>3. DefaultsTypes'
    BY <1>1, <1>2, <2>1, <2>2 DEF DefaultsTypes
  <2>4. SavesFromPage' /\ NoOverlap'
    BY <1>1, <1>2, <2>1, <2>2 DEF DefaultsInv, SavesFromPage, NoOverlap
  <2>5. ~overlapped => Len(saves) = 0 /\ defLoad = "ready"
    BY <2>1 DEF DefaultsInv, NoOverlap, SavesFromPage
  <2>6. AnswersAreServer'
    BY <1>1, <1>2, <2>1, <2>2, <2>5 DEF AnswersAreServer
  <2> QED
    BY <2>3, <2>4, <2>6 DEF DefaultsInv
<1>7. CASE ResetDone \/ ResetFails
  <2>1. reset' = NoReset /\ reset'.phase = "none" /\ reset.phase # "none" /\ UNCHANGED <<defaults, overlapped>>
    BY <1>7 DEF ResetDone, ResetFails, NoReset, defNotes
  <2>2. defLoad = "ready" /\ ~defError /\ (~overlapped => Len(saves) = 0 /\ DOMAIN saves = {})
    BY <1>1, <2>1 DEF DefaultsInv, NoOverlap, SavesFromPage
  <2>3. \/ settings' = settings /\ values' = values
        \/ /\ reset.answer \in ServerSettings /\ settings' = reset.answer
           /\ values' = Settings(reset.answer.limits, Unset)
    BY <1>1, <1>7 DEF ResetDone, ResetFails, DefaultsTypes
  <2>4. DefaultsTypes'
    <3>1. reset' \in ResetUnderWay
      BY <2>1 DEF NoReset, ResetUnderWay
    <3> QED
      BY <1>1, <1>2, <1>4, <2>1, <2>3, <3>1 DEF DefaultsTypes
  <2>5. SavesFromPage' /\ NoOverlap'
    BY <1>1, <1>2, <2>1 DEF DefaultsInv, SavesFromPage, NoOverlap
  <2>6. ASSUME ~overlapped, ~unseen' PROVE settings' = defaults
    <3>1. ~unseen
      BY <1>7, <2>6 DEF ResetDone, ResetFails, defNotes
    <3>2. /\ reset.phase = "stored" => reset.answer = defaults
          /\ reset.phase = "sent" => settings = defaults
      BY <2>2, <2>6, <3>1 DEF DefaultsInv, AnswersAreServer
    <3>3. CASE ResetDone
      BY <3>2, <3>3 DEF ResetDone
    <3>4. CASE ResetFails
      BY <2>6, <3>2, <3>4 DEF ResetFails
    <3> QED
      BY <1>7, <3>3, <3>4
  <2>7. AnswersAreServer'
    BY <1>2, <2>1, <2>2, <2>6 DEF AnswersAreServer
  <2> QED
    BY <2>4, <2>5, <2>7 DEF DefaultsInv
<1> QED
  BY <1>5, <1>6, <1>7

LEMMA DefaultsInvStep == DefaultsInv /\ [DefaultsNext]_defaultsVars => DefaultsInv'
<1> SUFFICES ASSUME DefaultsInv, [DefaultsNext]_defaultsVars PROVE DefaultsInv'
  OBVIOUS
<1>1. CASE UNCHANGED defaultsVars
  BY <1>1 DEF defaultsVars, loadVars, formVars, requestVars, defNotes, DefaultsInv, DefaultsTypes,
              SavesFromPage, NoOverlap, AnswersAreServer
<1>2. ASSUME NEW i \in DOMAIN saves, StoreLimits(i) \/ StoreTier(i) \/ Saved(i) \/ SaveFails(i) PROVE DefaultsInv'
  BY <1>2, StoreSaveStep, SaveEndsStep
<1> QED
  BY <1>1, <1>2, DefaultsLoadSteps, FormSteps, SaveStep, ResetSteps DEF DefaultsNext

LEMMA DefaultsInvHolds == DefaultsInv => DefaultsTypeOK /\ CleanFormIsServer
<1> SUFFICES ASSUME DefaultsInv PROVE DefaultsTypeOK /\ CleanFormIsServer
  OBVIOUS
<1>1. DefaultsScreen = "page" => defLoad = "ready" /\ ~defError
  BY DEF DefaultsScreen, DefaultsInv, DefaultsTypes
<1>2. DefaultsTypeOK
  <2>1. \A i \in DOMAIN saves : saves[i] \in SaveUnderWay
    BY DEF DefaultsInv, DefaultsTypes
  <2>2. \A i \in DOMAIN saves : saves[i].phase \in {"sent", "half", "stored"}
    BY <2>1 DEF SaveUnderWay
  <2> QED
    BY <1>1, <2>2 DEF DefaultsInv, DefaultsTypes, DefaultsTypeOK, ServerSettings, FormSettings, ResetUnderWay
<1>3. ASSUME DefaultsScreen = "page", ~isDirty, saves = <<>>, reset.phase = "none", ~overlapped, ~unseen
      PROVE  values = defaults
  <2>1. settings = defaults
    BY <1>1, <1>3 DEF DefaultsInv, AnswersAreServer
  <2> QED
    BY <1>3, <2>1 DEF isDirty
<1> QED
  BY <1>2, <1>3 DEF CleanFormIsServer

(* For any limits: the form holds settings the server may have.            *)
THEOREM DefaultsTypesHold == DefaultsSpec => []DefaultsTypeOK
BY DefaultsInvInit, DefaultsInvStep, DefaultsInvHolds, PTL DEF DefaultsSpec

(* For any limits: a form with nothing to save is the server's, unless     *)
(* saves and resets overlapped or the page was not told of a change.       *)
THEOREM CleanFormIsServerHolds == DefaultsSpec => []CleanFormIsServer
BY DefaultsInvInit, DefaultsInvStep, DefaultsInvHolds, PTL DEF DefaultsSpec

-----------------------------------------------------------------------------
(* The profile.  What a save under way was stored with is the server's     *)
(* name; with none stored, an answer that was asked for since, and the     *)
(* saved name, are.                                                        *)

AnyName == Names \cup {NoName}

ProfileTypes ==
  /\ profile \in [name : AnyName, mode : Modes]
  /\ userReq \in {"sent", "answered", "ready", "failed"} /\ userName \in AnyName
  /\ name \in AnyName /\ runMode \in Modes
  /\ profileSave \in [phase : {"none", "sent", "stored"}, name : AnyName, mode : Modes]

NamesAreServer ==
  /\ profileSave.phase = "stored" => profileSave.name = profile.name
  /\ ~unsure /\ profileSave.phase # "stored" =>
       /\ userReq = "answered" => userName = profile.name
       /\ savedName \in {NoName, profile.name}

ProfileInv == ProfileTypes /\ NamesAreServer

LEMMA ProfileInvInit == ProfileInit => ProfileInv
BY ModeAssumption DEF ProfileInit, ProfileInv, ProfileTypes, NamesAreServer, NoSave, AnyName

LEMMA ProfileInvStep == ProfileInv /\ [ProfileNext]_profileVars => ProfileInv'
<1> SUFFICES ASSUME ProfileInv, [ProfileNext]_profileVars PROVE ProfileInv'
  OBVIOUS
<1> USE ModeAssumption
<1>1. CASE UNCHANGED profileVars
  BY <1>1 DEF profileVars, profileForm, ProfileInv, ProfileTypes, NamesAreServer
<1>2. CASE AnswerUser
  BY <1>2 DEF AnswerUser, profileForm, ProfileInv, ProfileTypes, NamesAreServer
<1>3. CASE Hydrate
  BY <1>3 DEF Hydrate, ProfileInv, ProfileTypes, NamesAreServer
<1>4. CASE (\E n \in AnyName : TypeName(n)) \/ (\E r \in Modes : ChooseMode(r))
  BY <1>4 DEF TypeName, ChooseMode, ProfileInv, ProfileTypes, NamesAreServer
<1>5. CASE SaveProfile
  BY <1>5 DEF SaveProfile, isSavingProfile, profileForm, ProfileInv, ProfileTypes, NamesAreServer
<1>6. CASE StoreProfile
  BY <1>6 DEF StoreProfile, profileForm, ProfileInv, ProfileTypes, NamesAreServer
<1>7. CASE ProfileSaved
  BY <1>7 DEF ProfileSaved, NoSave, ProfileInv, ProfileTypes, NamesAreServer, AnyName
<1>8. CASE ProfileFails
  BY <1>8 DEF ProfileFails, NoSave, profileForm, ProfileInv, ProfileTypes, NamesAreServer, AnyName
<1> QED
  BY <1>1, <1>2, <1>3, <1>4, <1>5, <1>6, <1>7, <1>8 DEF ProfileNext, AnyName

LEMMA ProfileInvHolds == ProfileInv => ProfileTypeOK /\ CleanNameIsServer
<1> SUFFICES ASSUME ProfileInv PROVE ProfileTypeOK /\ CleanNameIsServer
  OBVIOUS
<1>1. ProfileTypeOK
  BY DEF ProfileInv, ProfileTypes, ProfileTypeOK, AnyName
<1>2. CleanNameIsServer
  BY DEF ProfileInv, ProfileTypes, NamesAreServer, CleanNameIsServer, isSavingProfile
<1> QED
  BY <1>1, <1>2

(* For any names and modes: the form holds one of each.                    *)
THEOREM ProfileTypesHold == ProfileSpec => []ProfileTypeOK
BY ProfileInvInit, ProfileInvStep, ProfileInvHolds, PTL DEF ProfileSpec

(* For any names: one the page has nothing to save for is the server's,    *)
(* unless a save's answer was lost.                                        *)
THEOREM CleanNameIsServerHolds == ProfileSpec => []CleanNameIsServer
BY ProfileInvInit, ProfileInvStep, ProfileInvHolds, PTL DEF ProfileSpec
=============================================================================
