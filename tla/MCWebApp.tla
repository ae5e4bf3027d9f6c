------------------------------ MODULE MCWebApp ------------------------------
(***************************************************************************)
(* The pages of the web application for TLC.  Each keeps its own state, so *)
(* a behaviour shows one of them; the others stand still.                  *)
(***************************************************************************)
EXTENDS WorkspaceFiles, NewWorkspace, DescriptionDrawer, MCRunView, AgentDefaults,
        ProviderKeys, TeamMembers, Session, RunsList, NewRun, SavedAnalyses, Profile

MCFallbackLimits == [rounds |-> 1, cost |-> 2, perRound |-> 1, max |-> 4]
MCServerLimits == [rounds |-> 2, cost |-> 3, perRound |-> 1, max |-> 3]

VARIABLE page

WebPages == {"files", "workspaces", "drawer", "run", "defaults", "keys", "team", "session",
             "runs", "new run", "saved", "profile"}
webVars == <<page, filesVars, newVars, drawerVars, runViewVars, defaultsVars, keysVars, teamVars,
             sessionVars, runsListVars, newRunVars, savedVars, profileVars>>

(* A page that is not shown starts in one state.                           *)
WebInit ==
  /\ page \in WebPages
  /\ FilesInit /\ (page # "files" => stored = [f \in Uploads |-> Absent])
  /\ NewInit
  /\ DrawerInit /\ (page # "drawer" => analysis = [f \in Described |-> 0])
  /\ RunViewInit /\ (page # "run" => backend = 1)
  /\ DefaultsInit /\ (page # "defaults" => defaults = Recommended /\ connected)
  /\ KeysInit
  /\ TeamInit /\ (page # "team" => team = [p \in People |-> Outside])
  /\ SessionInit
  /\ RunsListInit /\ (page # "runs" => searchParams = Unfiltered)
  /\ NewRunInit /\ (page # "new run" => readySpaces = {} /\ workspaceId = NoSpace)
  /\ SavedInit /\ (page # "saved" => saved = [a \in Analyses |-> Line(FALSE, "failed")])
  /\ ProfileInit /\ (page # "profile" => profile = CHOOSE r \in [name : Names, mode : Modes] : TRUE)

OnFiles ==
  /\ page = "files" /\ FilesNext
  /\ UNCHANGED <<page, newVars, drawerVars, runViewVars, defaultsVars, keysVars,
                 teamVars, sessionVars, runsListVars, newRunVars, savedVars, profileVars>>
OnWorkspaces ==
  /\ page = "workspaces" /\ NewNext
  /\ UNCHANGED <<page, filesVars, drawerVars, runViewVars, defaultsVars, keysVars,
                 teamVars, sessionVars, runsListVars, newRunVars, savedVars, profileVars>>
OnDrawer ==
  /\ page = "drawer" /\ DrawerNext
  /\ UNCHANGED <<page, filesVars, newVars, runViewVars, defaultsVars, keysVars,
                 teamVars, sessionVars, runsListVars, newRunVars, savedVars, profileVars>>
OnRun ==
  /\ page = "run" /\ RunViewNext
  /\ UNCHANGED <<page, filesVars, newVars, drawerVars, defaultsVars, keysVars,
                 teamVars, sessionVars, runsListVars, newRunVars, savedVars, profileVars>>
OnDefaults ==
  /\ page = "defaults" /\ DefaultsNext
  /\ UNCHANGED <<page, filesVars, newVars, drawerVars, runViewVars, keysVars,
                 teamVars, sessionVars, runsListVars, newRunVars, savedVars, profileVars>>
OnKeys ==
  /\ page = "keys" /\ KeysNext
  /\ UNCHANGED <<page, filesVars, newVars, drawerVars, runViewVars, defaultsVars,
                 teamVars, sessionVars, runsListVars, newRunVars, savedVars, profileVars>>
OnTeam ==
  /\ page = "team" /\ TeamNext
  /\ UNCHANGED <<page, filesVars, newVars, drawerVars, runViewVars, defaultsVars,
                 keysVars, sessionVars, runsListVars, newRunVars, savedVars, profileVars>>
OnSession ==
  /\ page = "session" /\ SessionNext
  /\ UNCHANGED <<page, filesVars, newVars, drawerVars, runViewVars, defaultsVars,
                 keysVars, teamVars, runsListVars, newRunVars, savedVars, profileVars>>
OnRuns ==
  /\ page = "runs" /\ RunsListNext
  /\ UNCHANGED <<page, filesVars, newVars, drawerVars, runViewVars, defaultsVars,
                 keysVars, teamVars, sessionVars, newRunVars, savedVars, profileVars>>
OnNewRun ==
  /\ page = "new run" /\ NewRunNext
  /\ UNCHANGED <<page, filesVars, newVars, drawerVars, runViewVars, defaultsVars,
                 keysVars, teamVars, sessionVars, runsListVars, savedVars, profileVars>>
OnSaved ==
  /\ page = "saved" /\ SavedNext
  /\ UNCHANGED <<page, filesVars, newVars, drawerVars, runViewVars, defaultsVars,
                 keysVars, teamVars, sessionVars, runsListVars, newRunVars, profileVars>>
OnProfile ==
  /\ page = "profile" /\ ProfileNext
  /\ UNCHANGED <<page, filesVars, newVars, drawerVars, runViewVars, defaultsVars,
                 keysVars, teamVars, sessionVars, runsListVars, newRunVars, savedVars>>

WebNext ==
  \/ OnFiles \/ OnWorkspaces \/ OnDrawer \/ OnRun
  \/ OnDefaults \/ OnKeys \/ OnTeam \/ OnSession \/ OnRuns \/ OnNewRun
  \/ OnSaved \/ OnProfile

(* The run page's interval fires while it is set; a request sent is        *)
(* answered or fails, and an answer is received unless it is superseded.   *)
(* A navigation goes on.                                                   *)
WebSpec ==
  /\ WebInit /\ [][WebNext]_webVars
  /\ WF_runViewVars(page = "run" /\ Poll)
  /\ WF_runViewVars(page = "run" /\ (AnswerDetail \/ DetailFails))
  /\ WF_runViewVars(page = "run" /\ ReceiveDetail)
  /\ WF_sessionVars(page = "session" /\ SessionStep)

(* Every page keeps its state within its types.                            *)
WebTypeOK ==
  /\ FilesTypeOK /\ NewTypeOK /\ DrawerTypeOK /\ RunViewTypeOK
  /\ DefaultsTypeOK /\ KeysTypeOK /\ TeamTypeOK /\ SessionTypeOK
  /\ RunsListTypeOK /\ NewRunTypeOK /\ SavedTypeOK /\ ProfileTypeOK

(* The two pages that show a change of a list before the server has made   *)
(* it, and put the whole list back if it fails, agree with the server once *)
(* nothing is under way: the team's and the saved analyses'.               *)
ListsAreServer == TeamIsServer /\ SavedIsServer

(* On the two settings forms, what the page offers nothing to save for is  *)
(* what the server has, also if it was edited during a save.               *)
CleanFormsAreServer == CleanFormIsServer /\ CleanNameIsServer
=============================================================================
