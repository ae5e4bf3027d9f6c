---------------------------- MODULE ProviderKeys ----------------------------
(***************************************************************************)
(* The card of one model provider on the API keys page (apps/web,          *)
(* settings/api-keys/page.tsx, ProviderKeyCard.tsx) against the API's      *)
(* provider_service.py.  The server holds the connection's row, the        *)
(* browser's IndexedDB the key under the row's id: two stores, written one *)
(* after the other, with the page free to be reloaded between.             *)
(***************************************************************************)
EXTENDS Naturals, Sequences, SequencesExt

CONSTANTS
  MaxRows,     \* bound: connections the server ever registers
  MaxLists     \* bound: requests for the list under way at once

NoRow == 0

VARIABLES
  row,         \* the server's connection of this provider, or NoRow
  lastRow,     \* ids given so far
  keyStore,    \* the ids with a key in this browser
  lists,       \* fetchConnections under way: phase and the row they found
  keysLoading, keysError,    \* the page's flags; the error is never cleared
  connectionId,
  cardStatus,  \* "none", "connected", "rejected": "invalid_key" or "unreachable"
  editing, removing,
  rawKey,      \* "valid", or "unfit": empty or of the wrong format
  testing,     \* handleSave: "none", "test", "models", "register", "store"
  newRow,      \* the row handleSave registered
  removal,     \* handleRemove: id, and phase "none", "sent", "deleted", "kept"
  (* Records the past for the properties; no guard reads it.               *)
  cutShort     \* rows whose saving or removal did not run to its end, in
               \* the API or in the browser's stores, those removed while
               \* they were saved, and those whose key the user cleared
               \* with the site's data

pageFlags == <<lists, keysLoading, keysError, connectionId>>
cardVars == <<cardStatus, editing, removing, rawKey, testing, newRow, removal>>
keysVars == <<row, lastRow, keyStore, pageFlags, cardVars, cutShort>>

NoRemoval == [id |-> NoRow, phase |-> "none"]
List(p, r) == [phase |-> p, found |-> r]
CardShown == ~keysLoading /\ ~keysError
FreshCard ==
  /\ cardStatus' = "none" /\ editing' = FALSE /\ removing' = FALSE /\ rawKey' = "unfit"
  /\ testing' = "none" /\ newRow' = NoRow /\ removal' = NoRemoval

KeysInit ==
  /\ row = NoRow /\ lastRow = 0 /\ keyStore = {}
  /\ lists = <<List("sent", NoRow)>> /\ keysLoading = TRUE /\ keysError = FALSE
  /\ connectionId = NoRow
  /\ cardStatus = "none" /\ editing = FALSE /\ removing = FALSE /\ rawKey = "unfit"
  /\ testing = "none" /\ newRow = NoRow /\ removal = NoRemoval
  /\ cutShort = {}

-----------------------------------------------------------------------------
(* The list.                                                               *)

AnswerKeyList(i) ==
  /\ lists[i].phase = "sent"
  /\ lists' = [lists EXCEPT ![i] = List("answered", row)]
  /\ UNCHANGED <<row, lastRow, keyStore, keysLoading, keysError, connectionId, cardVars, cutShort>>

(* Answers come in any order.  A card given another connection, or none,   *)
(* takes its status from it.                                               *)
ReceiveKeyList(i) ==
  /\ lists[i].phase = "answered"
  /\ lists' = RemoveAt(lists, i) /\ keysLoading' = FALSE
  /\ connectionId' = lists[i].found
  /\ cardStatus' = IF lists[i].found = connectionId THEN cardStatus
                   ELSE IF lists[i].found = NoRow THEN "none" ELSE "connected"
  /\ UNCHANGED <<row, lastRow, keyStore, keysError, editing, removing, rawKey, testing, newRow, removal, cutShort>>

(* The error replaces the cards for good; requests of theirs go on.        *)
KeyListFails(i) ==
  /\ lists' = RemoveAt(lists, i)
  /\ keysLoading' = FALSE /\ keysError' = TRUE
  /\ UNCHANGED <<row, lastRow, keyStore, connectionId, cardVars, cutShort>>

RetryKeyList ==
  /\ ~keysLoading /\ keysError /\ Len(lists) < MaxLists
  /\ lists' = Append(lists, List("sent", NoRow))
  /\ UNCHANGED <<row, lastRow, keyStore, keysLoading, keysError, connectionId, cardVars, cutShort>>

-----------------------------------------------------------------------------
(* Saving a key.                                                           *)

(* handleKeyChange: the format is checked as the key is typed.             *)
TypeKey(k) ==
  /\ CardShown /\ (connectionId = NoRow \/ editing) /\ rawKey' = k
  /\ UNCHANGED <<row, lastRow, keyStore, pageFlags, cardStatus, editing, removing, testing, newRow, removal, cutShort>>

SaveKey ==
  /\ CardShown /\ (connectionId = NoRow \/ editing)
  /\ rawKey = "valid" /\ testing = "none"
  /\ testing' = "test"
  /\ UNCHANGED <<row, lastRow, keyStore, pageFlags, cardStatus, editing, removing, rawKey, newRow, removal, cutShort>>

Rejected(st) == testing' = "none" /\ cardStatus' = st

(* The provider refuses the key, cannot be reached, or takes it.           *)
TestKey ==
  /\ testing = "test"
  /\ \/ Rejected("rejected") /\ UNCHANGED rawKey
     \/ Rejected(cardStatus) /\ rawKey' = "unfit"
     \/ testing' = "models" /\ UNCHANGED <<cardStatus, rawKey>>
  /\ UNCHANGED <<row, lastRow, keyStore, pageFlags, editing, removing, newRow, removal, cutShort>>

FetchModels ==
  /\ testing = "models"
  /\ testing' = "register" \/ testing' = "none"
  /\ cardStatus' = IF testing' = "none" THEN "rejected" ELSE cardStatus
  /\ UNCHANGED <<row, lastRow, keyStore, pageFlags, editing, removing, rawKey, newRow, removal, cutShort>>

(* The insert, refused when the user has a connection of that name: so a   *)
(* key of a connected card is never changed.  Its answer may be lost.      *)
Register ==
  /\ testing = "register"
  /\ \/ /\ row = NoRow /\ lastRow < MaxRows
        /\ lastRow' = lastRow + 1 /\ row' = lastRow'
        /\ \/ testing' = "store" /\ newRow' = lastRow' /\ UNCHANGED <<cardStatus, cutShort>>
           \/ Rejected("rejected") /\ cutShort' = cutShort \cup {row'} /\ UNCHANGED newRow
     \/ /\ Rejected("rejected") /\ UNCHANGED <<row, lastRow, newRow, cutShort>>
     \/ /\ Rejected(cardStatus) /\ UNCHANGED <<row, lastRow, newRow, cutShort>>    \* over the limit
  /\ UNCHANGED <<keyStore, pageFlags, editing, removing, rawKey, removal>>

StoreUnderShown ==    \* mutant: stored under the id the card has, not the answer's
  /\ testing = "store" /\ Len(lists) < MaxLists
  /\ keyStore' = keyStore \cup {connectionId}
  /\ testing' = "none" /\ newRow' = NoRow /\ cardStatus' = "connected"
  /\ editing' = FALSE /\ rawKey' = "unfit"
  /\ lists' = Append(lists, List("sent", NoRow))
  /\ UNCHANGED <<row, lastRow, keysLoading, keysError, connectionId, removing, removal, cutShort>>

StoreKey ==
  /\ testing = "store" /\ Len(lists) < MaxLists
  /\ keyStore' = keyStore \cup {newRow}
  /\ testing' = "none" /\ newRow' = NoRow /\ cardStatus' = "connected"
  /\ editing' = FALSE /\ rawKey' = "unfit"
  /\ lists' = Append(lists, List("sent", NoRow))
  /\ UNCHANGED <<row, lastRow, keysLoading, keysError, connectionId, removing, removal, cutShort>>

(* The browser's store rejects the key, or the cache the list of models:   *)
(* either shows as an error, and the list is not fetched again.            *)
StoreFails ==
  /\ testing = "store" /\ Rejected("rejected") /\ newRow' = NoRow
  /\ \/ cutShort' = cutShort \cup {newRow} /\ UNCHANGED keyStore
     \/ keyStore' = keyStore \cup {newRow} /\ UNCHANGED cutShort
  /\ UNCHANGED <<row, lastRow, pageFlags, editing, removing, rawKey, removal>>

ChangeKey ==
  /\ CardShown /\ connectionId # NoRow
  /\ editing' = ~editing /\ rawKey' = IF editing THEN "unfit" ELSE rawKey
  /\ UNCHANGED <<row, lastRow, keyStore, pageFlags, cardStatus, removing, testing, newRow, removal, cutShort>>

-----------------------------------------------------------------------------
(* Removing it.                                                            *)

AskRemove ==
  /\ CardShown /\ connectionId # NoRow /\ ~editing
  /\ removing' = ~removing
  /\ UNCHANGED <<row, lastRow, keyStore, pageFlags, cardStatus, editing, rawKey, testing, newRow, removal, cutShort>>

(* handleRemove, for the id the card has now.                              *)
RemoveKey ==
  /\ CardShown /\ connectionId # NoRow /\ ~editing /\ removing /\ removal.phase = "none"
  /\ removal' = [id |-> connectionId, phase |-> "sent"]
  /\ cutShort' = IF connectionId = newRow THEN cutShort \cup {newRow} ELSE cutShort
  /\ UNCHANGED <<row, lastRow, keyStore, pageFlags, cardStatus, editing, removing, rawKey, testing, newRow>>

(* The API may answer with an error, which the card does not look at.      *)
DeleteRow ==
  /\ removal.phase = "sent"
  /\ \/ /\ row' = (IF row = removal.id THEN NoRow ELSE row)
        /\ removal' = [removal EXCEPT !.phase = "deleted"] /\ UNCHANGED cutShort
     \/ /\ removal' = [removal EXCEPT !.phase = "kept"]
        /\ cutShort' = cutShort \cup {removal.id} /\ UNCHANGED row
  /\ UNCHANGED <<lastRow, keyStore, pageFlags, cardStatus, editing, removing, rawKey, testing, newRow>>

(* The request fails, its answer is lost, or the browser's store rejects   *)
(* the deletion: nothing behind it runs, and nothing is caught.            *)
RemoveFails ==
  /\ removal.phase # "none" /\ removal' = NoRemoval
  /\ cutShort' = IF removal.phase = "sent" THEN cutShort ELSE cutShort \cup {removal.id}
  /\ UNCHANGED <<row, lastRow, keyStore, pageFlags, cardStatus, editing, removing, rawKey, testing, newRow>>

LeaveKey ==    \* mutant: the key stays in the browser
  /\ removal.phase \in {"deleted", "kept"} /\ Len(lists) < MaxLists
  /\ removal' = NoRemoval /\ cardStatus' = "none" /\ removing' = FALSE /\ editing' = FALSE
  /\ lists' = Append(lists, List("sent", NoRow))
  /\ UNCHANGED <<row, lastRow, keyStore, keysLoading, keysError, connectionId, rawKey, testing, newRow, cutShort>>

DeleteKey ==
  /\ removal.phase \in {"deleted", "kept"} /\ Len(lists) < MaxLists
  /\ keyStore' = keyStore \ {removal.id}
  /\ removal' = NoRemoval /\ cardStatus' = "none" /\ removing' = FALSE /\ editing' = FALSE
  /\ lists' = Append(lists, List("sent", NoRow))
  /\ UNCHANGED <<row, lastRow, keysLoading, keysError, connectionId, rawKey, testing, newRow, cutShort>>

(* The cache of models rejects it after the key is gone.                   *)
CacheFails ==
  /\ removal.phase \in {"deleted", "kept"} /\ removal' = NoRemoval
  /\ keyStore' = keyStore \ {removal.id}
  /\ UNCHANGED <<row, lastRow, pageFlags, cardStatus, editing, removing, rawKey, testing, newRow, cutShort>>

-----------------------------------------------------------------------------

(* The page is reloaded: what was under way ends where it is; a request    *)
(* already sent may still reach the server.                                *)
Reload ==
  /\ lists' = <<List("sent", NoRow)>> /\ keysLoading' = TRUE /\ keysError' = FALSE
  /\ connectionId' = NoRow /\ FreshCard
  /\ \/ UNCHANGED <<row, lastRow>>
     \/ removal.phase = "sent" /\ removal.id = row /\ row' = NoRow /\ UNCHANGED lastRow
     \/ testing = "register" /\ row = NoRow /\ lastRow < MaxRows
        /\ lastRow' = lastRow + 1 /\ row' = lastRow'
  /\ cutShort' = (cutShort \cup {newRow, removal.id} \cup ({row'} \ {row})) \ {NoRow}
  /\ UNCHANGED keyStore

ClearSiteData ==
  /\ keyStore' = {} /\ cutShort' = cutShort \cup keyStore
  /\ UNCHANGED <<row, lastRow, pageFlags, cardVars>>

KeysNext ==
  \/ \E i \in DOMAIN lists : AnswerKeyList(i) \/ ReceiveKeyList(i) \/ KeyListFails(i)
  \/ RetryKeyList
  \/ \E k \in {"unfit", "valid"} : TypeKey(k)
  \/ SaveKey \/ TestKey \/ FetchModels \/ Register \/ StoreKey \/ StoreFails \/ ChangeKey
  \/ AskRemove \/ RemoveKey \/ DeleteRow \/ RemoveFails \/ DeleteKey \/ CacheFails
  \/ Reload \/ ClearSiteData

KeysSpec == KeysInit /\ [][KeysNext]_keysVars

-----------------------------------------------------------------------------
(* Properties.                                                             *)

KeysTypeOK ==
  /\ row \in 0..lastRow /\ keyStore \subseteq 1..lastRow /\ connectionId \in 0..lastRow
  /\ cardStatus \in {"none", "connected", "rejected"}
  /\ testing \in {"none", "test", "models", "register", "store"}
  /\ removal.phase \in {"none", "sent", "deleted", "kept"}
  /\ cutShort \subseteq 1..lastRow

(* With nothing under way, the browser holds a key for the server's        *)
(* connection and for no other, also when a key was saved while the        *)
(* removal of the one before it was under way; unless a save or a removal  *)
(* was cut short by a reload, a lost answer, a delete the API failed or a  *)
(* failure of the browser's store, a row was removed before its key was    *)
(* stored, or the site's data was cleared.                                 *)
KeysMatchConnections ==
  testing = "none" /\ removal.phase = "none" =>
    /\ row # NoRow /\ row \notin cutShort => row \in keyStore
    /\ keyStore \ cutShort \subseteq {row}
=============================================================================
