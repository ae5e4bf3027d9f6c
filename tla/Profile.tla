------------------------------- MODULE Profile -------------------------------
(***************************************************************************)
(* The profile page (apps/web, settings/profile/page.tsx).  The name comes *)
(* from the session's user and again from each refresh of it; the default  *)
(* run mode is never read from the server, only written with every save.   *)
(***************************************************************************)
EXTENDS Naturals

CONSTANTS
  Names,     \* names of the user
  Modes      \* run modes; ShownMode is the one the page starts with

ShownMode == "research"
NoName == "no name"

ASSUME ModeAssumption == ShownMode \in Modes

NoSave == [phase |-> "none", name |-> NoName, mode |-> ShownMode]

VARIABLES
  profile,      \* the server: name and mode
  userReq,      \* the session's user: "sent", "answered", "ready", "failed"
  userName,     \* the answer's name
  name, savedName, runMode, savedMode,
  profileSave,  \* handleSave under way: phase and what it sent
  (* Records the past for the property; no guard reads it.                 *)
  unsure        \* a save reached the server but its answer was lost

profileForm == <<name, savedName, runMode, savedMode>>
profileVars == <<profile, userReq, userName, profileForm, profileSave, unsure>>

isSavingProfile == profileSave.phase # "none"
profileDirty == name # savedName \/ runMode # savedMode

ProfileInit ==
  /\ profile \in [name : Names, mode : Modes]
  /\ userReq = "sent" /\ userName = NoName
  /\ name = NoName /\ savedName = NoName /\ runMode = ShownMode /\ savedMode = ShownMode
  /\ profileSave = NoSave /\ unsure = FALSE

(* The session's provider asks for the user once, and on each refresh.     *)
AnswerUser ==
  /\ userReq = "sent"
  /\ \/ userReq' = "answered" /\ userName' = profile.name
     \/ userReq' = "failed" /\ UNCHANGED userName
  /\ UNCHANGED <<profile, profileForm, profileSave, unsure>>

(* A user that arrives overwrites the field, typed in or not.              *)
Hydrate ==
  /\ userReq = "answered" /\ userReq' = "ready"
  /\ name' = userName /\ savedName' = userName
  /\ UNCHANGED <<profile, userName, runMode, savedMode, profileSave, unsure>>

TypeName(n) ==
  /\ n # name /\ name' = n
  /\ UNCHANGED <<profile, userReq, userName, savedName, runMode, savedMode, profileSave, unsure>>

ChooseMode(r) ==
  /\ r # runMode /\ runMode' = r
  /\ UNCHANGED <<profile, userReq, userName, name, savedName, savedMode, profileSave, unsure>>

(* Both of the page's buttons send both fields.                            *)
SaveProfile ==
  /\ profileDirty /\ ~isSavingProfile
  /\ profileSave' = [phase |-> "sent", name |-> name, mode |-> runMode]
  /\ UNCHANGED <<profile, userReq, userName, profileForm, unsure>>

StoreProfile ==
  /\ profileSave.phase = "sent"
  /\ profile' = [name |-> profileSave.name, mode |-> profileSave.mode]
  /\ profileSave' = [profileSave EXCEPT !.phase = "stored"]
  /\ UNCHANGED <<userReq, userName, profileForm, unsure>>

MarkField ==    \* mutant: what the fields hold by now counts as saved
  /\ profileSave.phase = "stored"
  /\ savedName' = name /\ savedMode' = runMode
  /\ profileSave' = NoSave /\ userReq' = "sent" /\ unsure' = FALSE
  /\ UNCHANGED <<profile, userName, name, runMode>>

ProfileSaved ==
  /\ profileSave.phase = "stored"
  /\ savedName' = profileSave.name /\ savedMode' = profileSave.mode
  /\ profileSave' = NoSave /\ userReq' = "sent" /\ unsure' = FALSE
  /\ UNCHANGED <<profile, userName, name, runMode>>

ProfileFails ==
  /\ isSavingProfile /\ profileSave' = NoSave
  /\ unsure' = (unsure \/ profileSave.phase = "stored")
  /\ UNCHANGED <<profile, userReq, userName, profileForm>>

ProfileNext ==
  \/ AnswerUser \/ Hydrate \/ SaveProfile \/ StoreProfile \/ ProfileSaved \/ ProfileFails
  \/ \E n \in Names \cup {NoName} : TypeName(n)
  \/ \E r \in Modes : ChooseMode(r)

ProfileSpec == ProfileInit /\ [][ProfileNext]_profileVars

-----------------------------------------------------------------------------
(* Properties.                                                             *)

ProfileTypeOK ==
  /\ profile \in [name : Names \cup {NoName}, mode : Modes]
  /\ userReq \in {"sent", "answered", "ready", "failed"}
  /\ name \in Names \cup {NoName} /\ runMode \in Modes \cup {ShownMode}
  /\ profileSave.phase \in {"none", "sent", "stored"}

(* A name the page has nothing to save for is the server's, also if it was *)
(* edited or arrived again while a save was under way; unless that save's  *)
(* answer was lost, or none of the user's answers has come yet.            *)
CleanNameIsServer ==
  ~isSavingProfile /\ name = savedName /\ name # NoName /\ ~unsure => name = profile.name
=============================================================================
