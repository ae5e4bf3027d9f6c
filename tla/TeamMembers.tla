---------------------------- MODULE TeamMembers ----------------------------
(***************************************************************************)
(* The team page (apps/web, settings/team/page.tsx).  A change of role or  *)
(* a removal is shown before the server has answered; if it fails, the     *)
(* page goes back to the whole list as it was when it was asked for.       *)
(* Several such changes may be under way, and people may be invited while  *)
(* the list itself is on its way.  (Somebody invited whom the list then    *)
(* has, too, is shown in two rows; the model keeps one.)                   *)
(***************************************************************************)
EXTENDS Naturals, FiniteSets

CONSTANTS
  People,      \* members now and to be invited
  Roles,       \* the roles that may be given
  Invited,     \* the role an invitation gives
  MaxChanges   \* bound: changes asked for

ASSUME InvitedAssumption == Invited \in Roles

Outside == "not a member"

VARIABLES
  team,        \* the server: everyone's role, or Outside
  teamLoad,    \* the useResource: "sent", "answered", "ready", "error"
  teamFetched,
  members,     \* the list shown
  changes,     \* changes under way, by number: who, the role asked for, the
               \* list before it, whether it is an invitation, those whose
               \* changes overlapped it, and its phase
  changed,     \* changes asked for so far
  mutationError,
  (* Records the past for the properties; no guard reads it.               *)
  mixed        \* people whose change overlapped one of somebody else that
               \* failed, who had two under way, whose change was made and
               \* the answer lost, or whose invitation crossed the list

teamVars == <<team, teamLoad, teamFetched, members, changes, changed, mutationError, mixed>>

TeamScreen == CASE teamLoad = "error" -> "error"
                [] teamLoad = "ready" -> "list"
                [] OTHER -> "loading"
Finish(k) == changes' = [j \in DOMAIN changes \ {k} |-> changes[j]]

TeamInit ==
  /\ team \in [People -> {Outside, Invited}] /\ teamLoad = "sent"
  /\ teamFetched = team /\ members = [p \in People |-> Outside]
  /\ changes = [k \in {} |-> 0] /\ changed = 0 /\ mutationError = FALSE
  /\ mixed = {}

AnswerTeam ==
  /\ teamLoad = "sent"
  /\ \/ /\ teamLoad' = "answered" /\ teamFetched' = team
        /\ mixed' = mixed \cup {changes[k].who : k \in DOMAIN changes}
     \/ teamLoad' = "error" /\ UNCHANGED <<teamFetched, mixed>>
  /\ UNCHANGED <<team, members, changes, changed, mutationError>>

(* The server's list re-seeds the local copy, whatever was added to it.    *)
ReceiveTeam ==
  /\ teamLoad = "answered"
  /\ teamLoad' = "ready" /\ members' = teamFetched
  /\ UNCHANGED <<team, teamFetched, changes, changed, mutationError, mixed>>

RetryTeam ==
  /\ TeamScreen = "error" /\ teamLoad' = "sent"
  /\ UNCHANGED <<team, teamFetched, members, changes, changed, mutationError, mixed>>

(* A request of the page, with what it shows meanwhile.                    *)
Ask(p, role, invitation) ==
  /\ changed < MaxChanges /\ changed' = changed + 1
  /\ changes' = [k \in DOMAIN changes \cup {changed'} |->
       IF k \in DOMAIN changes THEN [changes[k] EXCEPT !.others = @ \cup {p}]
       ELSE [who |-> p, role |-> role, previous |-> members, invitation |-> invitation,
             others |-> {changes[j].who : j \in DOMAIN changes}, phase |-> "sent"]]
  /\ members' = IF invitation THEN members ELSE [members EXCEPT ![p] = role]
  /\ mixed' = IF teamLoad = "answered" \/ \E k \in DOMAIN changes : changes[k].who = p
              THEN mixed \cup {p} ELSE mixed
  /\ UNCHANGED <<team, teamLoad, teamFetched, mutationError>>

(* The form is there whatever the list's state and takes any address, also *)
(* while an invitation is under way.                                       *)
Invite(p) == Ask(p, Invited, TRUE)
ChangeRole(p, r) == TeamScreen = "list" /\ members[p] \notin {Outside, r} /\ Ask(p, r, FALSE)
RemoveMember(p) == TeamScreen = "list" /\ members[p] # Outside /\ Ask(p, Outside, FALSE)

(* The server makes the change or refuses it; inviting somebody it has     *)
(* already, always.                                                        *)
AnswerChange(k) ==
  /\ changes[k].phase = "sent"
  /\ \/ /\ changes[k].invitation => team[changes[k].who] = Outside
        /\ team' = [team EXCEPT ![changes[k].who] = changes[k].role]
        /\ changes' = [changes EXCEPT ![k].phase = "made"]
     \/ /\ changes' = [changes EXCEPT ![k].phase = "refused"] /\ UNCHANGED team
  /\ UNCHANGED <<teamLoad, teamFetched, members, changed, mutationError, mixed>>

ChangeMade(k) ==
  /\ changes[k].phase = "made" /\ Finish(k)
  /\ members' = IF changes[k].invitation THEN [members EXCEPT ![changes[k].who] = changes[k].role]
                ELSE members
  /\ mutationError' = FALSE
  /\ UNCHANGED <<team, teamLoad, teamFetched, changed, mixed>>

(* Whom the failure of a change leaves in doubt: the person it is about if *)
(* it was made, and those whose changes a rollback takes along.            *)
Tangled(k) ==
  (IF changes[k].phase = "made" THEN {changes[k].who} ELSE {})
    \cup (IF changes[k].invitation THEN {} ELSE changes[k].others)

KeepChange(k) ==    \* mutant: the list is not put back
  /\ Finish(k)
  /\ mutationError' = TRUE
  /\ mixed' = mixed \cup Tangled(k)
  /\ UNCHANGED <<team, teamLoad, teamFetched, members, changed>>

(* The catch puts the whole list back, with whatever has changed since.    *)
ChangeFails(k) ==
  /\ Finish(k)
  /\ members' = IF changes[k].invitation THEN members ELSE changes[k].previous
  /\ mutationError' = TRUE
  /\ mixed' = mixed \cup Tangled(k)
  /\ UNCHANGED <<team, teamLoad, teamFetched, changed>>

TeamNext ==
  \/ AnswerTeam \/ ReceiveTeam \/ RetryTeam
  \/ \E p \in People : Invite(p) \/ RemoveMember(p) \/ \E r \in Roles : ChangeRole(p, r)
  \/ \E k \in DOMAIN changes : AnswerChange(k) \/ ChangeMade(k) \/ ChangeFails(k)

TeamSpec == TeamInit /\ [][TeamNext]_teamVars

-----------------------------------------------------------------------------
(* Properties.                                                             *)

TeamTypeOK ==
  /\ team \in [People -> Roles \cup {Outside}] /\ members \in [People -> Roles \cup {Outside}]
  /\ teamLoad \in {"sent", "answered", "ready", "error"}
  /\ DOMAIN changes \subseteq 1..changed

(* A person with no change under way has the role on the page that the     *)
(* server has, whatever changes of others overlap and fail: the rollback   *)
(* of a change puts its own person right.  Excepted are the people whose   *)
(* changes overlapped a failed one of somebody else, which its rollback    *)
(* takes back on the page only or brings back; two changes of one person   *)
(* at a time; a change made whose answer was lost; and an invitation       *)
(* crossing the list's answer, which overwrites it.                        *)
TeamIsServer ==
  TeamScreen = "list" =>
    \A p \in People \ mixed :
      (\A k \in DOMAIN changes : changes[k].who # p) => members[p] = team[p]
=============================================================================
