---------------------------- MODULE WebApp_proofs ----------------------------
(***************************************************************************)
(* Proofs about the web application, for every value of its constants:     *)
(* sign-in and routing, the form of a new run, the description drawer, the *)
(* page of a run and the list of runs; and, with those about the workspace *)
(* and settings pages, about all of them together.                         *)
(***************************************************************************)
EXTENDS MCWebApp, Settings_proofs, Workspaces_proofs, TLAPS

-----------------------------------------------------------------------------
(* Session.                                                                *)

(* A request that has reached a page of (app) was let through by the       *)
(* middleware, with a token that is good unless the session was cut off.   *)
Whole(r) == r = [stage |-> r.stage, path |-> r.path, token |-> r.token]

RouteInv ==
  /\ Whole(request)
  /\ request.stage \in {"none", "middleware", "route"}
  /\ request.stage = "route" /\ request.path \in AppPages /\ ~cutOff => SignedIn(request.token)

LetThrough == RouteInv /\ ValidSessionNotBounced

LEMMA LetThroughInit == SessionInit => LetThrough
BY DEF SessionInit, LetThrough, RouteInv, ValidSessionNotBounced, NoRequest, Whole

(* A step that starts a request over, or ends it, has nothing to keep but  *)
(* that no request was bounced.                                            *)
LEMMA StartsOver ==
  ASSUME LetThrough, bounced' => bounced, Whole(request'), request'.stage \in {"none", "middleware"}
  PROVE  LetThrough'
BY DEF LetThrough, RouteInv, ValidSessionNotBounced

LEMMA LetThroughStep == LetThrough /\ [SessionNext]_sessionVars => LetThrough'
<1> SUFFICES ASSUME LetThrough, [SessionNext]_sessionVars PROVE LetThrough'
  OBVIOUS
<1> USE DEF Get, NoRequest, Whole
<1>1. CASE UNCHANGED sessionVars
  BY <1>1 DEF LetThrough, RouteInv, ValidSessionNotBounced, SignedIn, sessionVars, sessionNotes, browser
<1>2. ASSUME NEW p \in Paths, Visit(p) PROVE LetThrough'
  BY <1>2, StartsOver DEF Visit
<1>3. CASE Middleware
  <2>1. UNCHANGED <<alive, sessionNotes>>
    BY <1>3 DEF Middleware
  <2>2. CASE SendAway
    <3>1. request' \in {Get("/login"), Get("/workspaces")}
      BY <2>2 DEF SendAway, Redirect
    <3> QED
      BY <2>1, <3>1, StartsOver DEF sessionNotes
  <2>3. CASE ~ToLogin /\ ~ToWorkspaces /\ PassOn(Refreshed)
    <3>1. request' = [request EXCEPT !.stage = "route", !.token = Refreshed]
      BY <2>3 DEF PassOn
    <3>2. request' = [stage |-> "route", path |-> request.path, token |-> Refreshed]
      BY <3>1 DEF LetThrough, RouteInv
    <3>3. request.path \in AppPages => SignedIn(Refreshed)
      BY <2>3 DEF ToLogin, AppPages, PublicRoutes
    <3> QED
      BY <2>1, <3>2, <3>3 DEF LetThrough, RouteInv, ValidSessionNotBounced, SignedIn, sessionNotes
  <2> QED
    BY <1>3, <2>2, <2>3 DEF Middleware
<1>4. CASE AppLayout
  <2>1. Whole(request') /\ request'.stage \in {"none", "middleware"}
    BY <1>4 DEF AppLayout, Show, Redirect
  <2>2. bounced' => bounced
    BY <1>4 DEF AppLayout, LetThrough, RouteInv, sessionNotes, ValidSessionNotBounced
  <2> QED
    BY <2>1, <2>2, StartsOver
<1>5. CASE OtherRoute
  <2>1. request' \in {NoRequest, Get("/workspaces")}
    <3>1. CASE request.path = "/"
      BY <1>5, <3>1 DEF OtherRoute, Redirect, AuthPages
    <3>2. CASE request.path # "/" /\ request.path \in AuthPages
      BY <1>5, <3>2 DEF OtherRoute, Show
    <3>3. CASE request.path # "/" /\ request.path \notin AuthPages
      BY <1>5, <3>3 DEF OtherRoute, Show
    <3> QED
      BY <3>1, <3>2, <3>3
  <2>2. bounced' => bounced
    BY <1>5 DEF OtherRoute, sessionNotes
  <2>3. Whole(request') /\ request'.stage \in {"none", "middleware"}
    BY <2>1
  <2> QED
    BY <2>2, <2>3, StartsOver
<1>6. CASE Callback
  BY <1>6, StartsOver DEF Callback, Redirect, sessionNotes
<1>7. CASE LoginAnswered \/ FollowConfirmation \/ FollowReset \/ SignOut
  BY <1>7, StartsOver DEF LoginAnswered, FollowConfirmation, FollowReset, SignOut
<1>8. CASE \/ SubmitLogin \/ SubmitOther \/ LoginRefused \/ SignedUp \/ BackToSignup
           \/ ResetRequested \/ PasswordReset \/ Expire
  <2>1. UNCHANGED <<request, alive, sessionNotes>>
    BY <1>8 DEF SubmitLogin, SubmitOther, LoginRefused, SignedUp, BackToSignup, ResetRequested,
                PasswordReset, Expire
  <2> QED
    BY <2>1 DEF LetThrough, RouteInv, ValidSessionNotBounced, SignedIn, sessionNotes
<1>9. CASE Revoke
  BY <1>9 DEF Revoke, LetThrough, RouteInv, ValidSessionNotBounced, browser
<1> QED
  BY <1>1, <1>2, <1>3, <1>4, <1>5, <1>6, <1>7, <1>8, <1>9 DEF SessionNext, SessionStep

(* However often sessions are ended elsewhere, profiles fail to load and   *)
(* tokens age, the layout sends nobody away whose session and profile were *)
(* good through the whole request.                                         *)
THEOREM ValidSessionNotBouncedHolds == SessionSpec => []ValidSessionNotBounced
<1>1. LetThrough => ValidSessionNotBounced
  BY DEF LetThrough
<1>2. SessionInit /\ [][SessionNext]_sessionVars => []LetThrough
  BY LetThroughInit, LetThroughStep, PTL
<1> QED
  BY <1>1, <1>2, PTL DEF SessionSpec

LEMMA SessionTypesInit == SessionInit => SessionTypeOK
<1> SUFFICES ASSUME SessionInit PROVE SessionTypeOK
  OBVIOUS
<1>1. "/" \in Paths /\ "/workspaces" \in Paths
  BY DEF Paths, AppPages
<1>2. request.stage = "none" /\ request.path = "/" /\ next = "/workspaces"
  BY DEF SessionInit, NoRequest
<1>3. account = "none" /\ alive = FALSE /\ token = "none" /\ at = "blank" /\ form = "idle" /\ signIn = "none" /\ mail = {}
  BY DEF SessionInit
<1> QED
  BY <1>1, <1>2, <1>3 DEF SessionTypeOK

LEMMA SessionTypesStep ==
  LetThrough /\ SessionTypeOK /\ [SessionNext]_sessionVars => SessionTypeOK'
<1> SUFFICES ASSUME LetThrough, SessionTypeOK, [SessionNext]_sessionVars PROVE SessionTypeOK'
  OBVIOUS
<1> USE DEF SessionTypeOK, Get, NoRequest
<1>1. Whole(request)
  BY DEF LetThrough, RouteInv
<1>2. /\ "/" \in Paths /\ "/login" \in Paths /\ "/workspaces" \in Paths
      /\ "/auth/callback" \in Paths /\ "/auth/reset-password" \in Paths
  BY DEF Paths, AppPages, AuthPages
<1>3. ASSUME NEW p \in Paths, Visit(p) PROVE SessionTypeOK'
  BY <1>2, <1>3 DEF Visit
<1>4. CASE Middleware
  <2>1. token' \in {"none", "fresh", "stale"}
    BY <1>4 DEF Middleware, SendAway, PassOn, Refreshed
  <2>2. /\ next' \in Paths /\ UNCHANGED <<at, form>>
        /\ \/ request' \in {Get("/login"), Get("/workspaces")}
           \/ request' = [request EXCEPT !.stage = "route", !.token = Refreshed]
    BY <1>4 DEF Middleware, SendAway, PassOn, Redirect
  <2>3. request'.stage \in {"middleware", "route"} /\ request'.path \in Paths
    <3>1. CASE request' \in {Get("/login"), Get("/workspaces")}
      BY <1>2, <3>1
    <3>2. CASE request' = [request EXCEPT !.stage = "route", !.token = Refreshed]
      <4>1. request' = [stage |-> "route", path |-> request.path, token |-> Refreshed]
        BY <1>1, <3>2 DEF Whole
      <4> QED
        BY <4>1
    <3> QED
      BY <2>2, <3>1, <3>2
  <2> QED
    BY <1>4, <2>1, <2>2, <2>3 DEF Middleware
<1>5. CASE AppLayout
  BY <1>2, <1>5 DEF AppLayout, Show, Redirect
<1>6. CASE OtherRoute
  <2>1. CASE request.path = "/"
    BY <1>2, <1>6, <2>1 DEF OtherRoute, Redirect, AuthPages
  <2>2. CASE request.path # "/" /\ request.path \in AuthPages
    BY <1>2, <1>6, <2>2 DEF OtherRoute, Show
  <2>3. CASE request.path # "/" /\ request.path \notin AuthPages
    BY <1>2, <1>6, <2>3 DEF OtherRoute, Show
  <2> QED
    BY <2>1, <2>2, <2>3
<1>7. CASE Callback
  <2>1. UNCHANGED <<at, next, form, signIn>> /\ account' \in {account, "confirmed"} /\ alive' \in {alive, TRUE}
    BY <1>7 DEF Callback, Redirect
  <2>2. token' \in {token, "fresh"} /\ mail' \subseteq mail
    BY <1>7 DEF Callback, Redirect
  <2>3. request'.stage = "middleware" /\ request'.path \in {"/login", "/workspaces"}
    BY <1>7 DEF Callback, Redirect
  <2>4. /\ token' \in {"none", "fresh", "stale"} /\ mail' \subseteq {"confirm", "reset", "opened"}
    BY <1>2, <2>2
  <2> QED
    BY <1>2, <2>1, <2>3, <2>4
<1>8. CASE SubmitLogin \/ SubmitOther
  BY <1>8 DEF SubmitLogin, SubmitOther
<1>12. CASE LoginAnswered
  <2>1. request'.stage = "middleware" /\ request'.path = signIn /\ signIn # "none"
    BY <1>12 DEF LoginAnswered
  <2>2. signIn' = "none" /\ token' = "fresh" /\ alive' = TRUE /\ form' \in {"idle", form}
    BY <1>12 DEF LoginAnswered
  <2>3. UNCHANGED <<account, at, next, mail>>
    BY <1>12 DEF LoginAnswered
  <2> QED
    BY <2>1, <2>2, <2>3
<1>14. CASE LoginRefused
  BY <1>14 DEF LoginRefused
<1>9. CASE SignedUp \/ BackToSignup \/ ResetRequested \/ PasswordReset
  BY <1>9 DEF SignedUp, BackToSignup, ResetRequested, PasswordReset
<1>10. CASE FollowConfirmation
  BY <1>2, <1>10 DEF FollowConfirmation
<1>15. CASE SignOut
  <2>1. request'.stage = "middleware" /\ request'.path = "/login" /\ next' = "/workspaces"
    BY <1>15 DEF SignOut
  <2>2. token' = "none" /\ alive' = FALSE /\ UNCHANGED <<account, at, form, signIn, mail>>
    BY <1>15 DEF SignOut
  <2> QED
    BY <1>2, <2>1, <2>2
<1>13. CASE FollowReset
  BY <1>2, <1>13 DEF FollowReset
<1>11. CASE Expire \/ Revoke \/ UNCHANGED sessionVars
  BY <1>11 DEF Expire, Revoke, sessionVars, browser
<1> QED
  BY <1>3, <1>4, <1>5, <1>6, <1>7, <1>8, <1>9, <1>10, <1>11, <1>12, <1>13, <1>14, <1>15
     DEF SessionNext, SessionStep

-----------------------------------------------------------------------------
(* NewRun.                                                                 *)

LEMMA RoundsFromCap ==
  ASSUME NEW m \in Nat, NEW n \in Nat, NEW p \in Nat \ {0}, m * p = n * p
  PROVE  m = n
<1>1. ASSUME NEW a \in Nat, NEW b \in Nat, a < b PROVE a * p < b * p
  <2>1. PICK d \in Nat \ {0} : b = a + d
    <3>1. b - a \in Nat \ {0} /\ b = a + (b - a)
      BY <1>1
    <3> QED
      BY <3>1
  <2>2. b * p = a * p + d * p
    BY <2>1
  <2>3. d * p \in Nat \ {0} /\ a * p \in Nat
    OBVIOUS
  <2> QED
    BY <2>2, <2>3
<1>2. ~(m < n) /\ ~(n < m)
  <2>1. m * p \in Nat /\ n * p \in Nat
    OBVIOUS
  <2> QED
    BY <1>1, <2>1
<1> QED
  BY <1>2

(* The slider moves between two caps that are equal only where the rounds  *)
(* are, so the default ceiling is left only by moving it.                  *)
FormInv == maxRounds \in Nat /\ CeilingKept

LEMMA FormInit == NewRunInit => FormInv
BY LimitsAssumption DEF NewRunInit, FormInv, CeilingKept, estimatedCap, limits, NotTyped

(* The parts of the form that the ceiling depends on.                      *)
LEMMA CeilingAlone ==
  ASSUME FormInv, UNCHANGED limitVars
  PROVE  FormInv'
BY DEF FormInv, CeilingKept, estimatedCap, limits, limitVars

LEMMA FormStep == FormInv /\ [NewRunNext]_newRunVars => FormInv'
<1> SUFFICES ASSUME FormInv, [NewRunNext]_newRunVars PROVE FormInv'
  OBVIOUS
<1>1. CASE \/ SpacesArrive \/ RetrySpaces \/ SuggestionsArrive
           \/ SubmitRun \/ SubmitAnswered \/ Leave \/ UNCHANGED newRunVars
  BY <1>1, CeilingAlone DEF SpacesArrive, RetrySpaces, SuggestionsArrive, SubmitRun,
                            SubmitAnswered, Leave, newRunVars
<1>2. ASSUME NEW w \in Spaces, ChooseSpace(w) PROVE FormInv'
  BY <1>2, CeilingAlone DEF ChooseSpace
<1>3. ASSUME NEW q \in {"empty", "typed", "chip"}, AskQuestion(q) PROVE FormInv'
  BY <1>3, CeilingAlone DEF AskQuestion
<1>4. ASSUME NEW r \in 1..MaxRounds, SlideRounds(r) PROVE FormInv'
  <2>1. r \in Nat /\ maxRounds' = r /\ limits' = limits /\ UNCHANGED <<costTouched, typedCost>>
    BY <1>4 DEF SlideRounds, limits
  <2>2. CASE estimatedCap' # estimatedCap /\ ~costTouched
    <3>1. maxCost' = estimatedCap'
      BY <1>4, <2>2 DEF SlideRounds
    <3> QED
      BY <2>1, <2>2, <3>1 DEF FormInv, CeilingKept
  <2>3. CASE costTouched
    BY <1>4, <2>1, <2>3 DEF FormInv, CeilingKept, SlideRounds
  <2>4. CASE estimatedCap' = estimatedCap /\ ~costTouched
    <3>1. maxCost' = maxCost
      BY <1>4, <2>4 DEF SlideRounds
    <3>2. limits.perRound \in Nat \ {0}
      BY LimitsAssumption DEF limits
    <3>3. r = maxRounds
      BY <2>1, <2>4, <3>2, RoundsFromCap DEF FormInv, estimatedCap
    <3> QED
      BY <2>1, <2>4, <3>1, <3>3 DEF FormInv, CeilingKept
  <2> QED
    BY <2>2, <2>3, <2>4
<1>5. ASSUME NEW c \in Ceilings, TypeCost(c) PROVE FormInv'
  BY <1>5 DEF TypeCost, FormInv, CeilingKept
<1>6. CASE LimitsArrive
  <2>1. limits' = ServerLimits /\ maxRounds' = limits'.rounds /\ typedCost' = NotTyped
    BY <1>6 DEF LimitsArrive, limits
  <2>2. PICK ran \in BOOLEAN : FollowCap(ran)
    BY <1>6 DEF LimitsArrive
  <2> QED
    BY <2>1, <2>2, LimitsAssumption DEF FormInv, CeilingKept, FollowCap
<1>7. CASE ResetToRecommended
  <2>1. limits' = limits /\ maxRounds' = limits'.rounds /\ typedCost' = NotTyped
    BY <1>7 DEF ResetToRecommended, limits
  <2>2. PICK ran \in BOOLEAN : FollowCap(ran)
    BY <1>7 DEF ResetToRecommended
  <2>3. limits.rounds \in Nat
    BY LimitsAssumption DEF limits
  <2> QED
    BY <2>1, <2>2, <2>3 DEF FormInv, CeilingKept, FollowCap
<1> QED
  BY <1>1, <1>2, <1>3, <1>4, <1>5, <1>6, <1>7 DEF NewRunNext

(* Whatever arrives while the form is filled in, and for every price of a  *)
(* round, a typed ceiling stays until the defaults are put in over it, and *)
(* one that was not typed follows the rounds.                              *)
THEOREM CeilingKeptHolds == NewRunSpec => []CeilingKept
<1>1. FormInv => CeilingKept
  BY DEF FormInv
<1> QED
  BY <1>1, FormInit, FormStep, PTL DEF NewRunSpec

(* A request for a run is only sent below the bound of runs.               *)
FormTypes == NewRunTypeOK /\ readySpaces \subseteq Spaces /\ (~Idle => created < MaxRuns)

LEMMA FormTypesInit == NewRunInit => FormTypes
<1> SUFFICES ASSUME NewRunInit PROVE FormTypes
  OBVIOUS
<1>1. FallbackLimits.rounds \in 1..MaxRounds /\ FallbackLimits.rounds \in Nat /\ FallbackLimits.perRound \in Nat
  BY LimitsAssumption
<1>2. FallbackLimits.rounds * FallbackLimits.perRound \in Nat
  BY <1>1
<1>3. maxRounds \in 1..MaxRounds /\ maxCost \in Nat /\ costTouched \in BOOLEAN
  BY <1>1, <1>2 DEF NewRunInit
<1>4. created = 0 /\ 0 \in 0..MaxRuns /\ submitting = "none"
  BY BoundsAssumption DEF NewRunInit
<1> QED
  BY <1>3, <1>4 DEF NewRunInit, FormTypes, NewRunTypeOK, Idle

LEMMA FormTypesStep == FormTypes /\ [NewRunNext]_newRunVars => FormTypes'
<1> SUFFICES ASSUME FormTypes, [NewRunNext]_newRunVars PROVE FormTypes'
  OBVIOUS
<1> USE DEF FormTypes, NewRunTypeOK, Idle
<1>1. limits.rounds \in 1..MaxRounds /\ limits.cost \in Nat /\ limits.perRound \in Nat
  BY LimitsAssumption DEF limits
<1>2. CASE SpacesArrive \/ RetrySpaces \/ SuggestionsArrive \/ SubmitRun \/ Leave \/ UNCHANGED newRunVars
  BY <1>2 DEF SpacesArrive, RetrySpaces, SuggestionsArrive, SubmitRun, Leave, newRunVars, spaceVars,
              limitVars, submitVars
<1>3. ASSUME NEW w \in Spaces, ChooseSpace(w) PROVE FormTypes'
  BY <1>3 DEF ChooseSpace, limitVars, submitVars
<1>4. ASSUME NEW q \in {"empty", "typed", "chip"}, AskQuestion(q) PROVE FormTypes'
  BY <1>4 DEF AskQuestion, spaceVars, limitVars, submitVars
<1>5. ASSUME NEW r \in 1..MaxRounds, SlideRounds(r) PROVE FormTypes'
  <2>1. UNCHANGED <<workspaceId, suggestedFor, readySpaces, costTouched, submitting, created, limits>> /\ maxRounds' = r
    BY <1>5 DEF SlideRounds, spaceVars, submitVars, limits
  <2>2. estimatedCap' \in Nat
    BY <1>1, <2>1 DEF estimatedCap
  <2>3. maxCost' \in Nat
    BY <1>5, <2>2 DEF SlideRounds
  <2> QED
    BY <2>1, <2>3
<1>6. ASSUME NEW c \in Ceilings, TypeCost(c) PROVE FormTypes'
  BY <1>6, CeilingsAssumption DEF TypeCost, spaceVars, submitVars
<1>7. CASE LimitsArrive \/ ResetToRecommended
  <2>1. /\ UNCHANGED <<workspaceId, suggestedFor, readySpaces, submitting, created>> /\ costTouched' \in BOOLEAN
        /\ maxRounds' \in 1..MaxRounds
    BY <1>1, <1>7, LimitsAssumption DEF LimitsArrive, ResetToRecommended, spaceVars, submitVars
  <2>2. limits'.cost \in Nat /\ limits'.perRound \in Nat
    BY LimitsAssumption DEF limits
  <2>3. estimatedCap' \in Nat
    BY <2>1, <2>2 DEF estimatedCap
  <2>4. PICK ran \in BOOLEAN : FollowCap(ran)
    BY <1>7 DEF LimitsArrive, ResetToRecommended
  <2>5. maxCost' \in Nat
    BY <2>2, <2>3, <2>4 DEF FollowCap
  <2> QED
    BY <2>1, <2>5
<1>8. CASE SubmitAnswered
  BY <1>8, BoundsAssumption DEF SubmitAnswered, spaceVars, limitVars
<1> QED
  BY <1>2, <1>3, <1>4, <1>5, <1>6, <1>7, <1>8 DEF NewRunNext

-----------------------------------------------------------------------------
(* DescriptionDrawer.                                                      *)

DrawerTypes ==
  /\ analysis \in [Described -> Nat]
  /\ drawerFile \in Described \cup {NoFile.file}
  /\ reanalysis \in [file : Described \cup {NoFile.file}, phase : {"none", "sent", "answered"}, version : Nat]
  /\ reanalyzing => reanalysis.file \in Described

(* A fetch is always for the file the drawer is on.                        *)
FetchInv ==
  /\ reanalyzing /\ Fetching => raced
  /\ fetch = "answered" => fetchedDesc.file = drawerFile
  /\ fetch = "answered" /\ ~raced => fetchedDesc.version = analysis[drawerFile]

(* A reanalysis is for the file the drawer was on when it was asked for.   *)
ReanalysisInv ==
  /\ reanalyzing /\ ~moved => reanalysis.file = drawerFile
  /\ reanalysis.phase = "answered" => reanalysis.version = analysis[reanalysis.file]

(* Between the server's new analysis and its arrival what is shown is old, *)
(* and stays so if the answer is lost.                                     *)
ShownInv ==
  /\ ~moved => description = NoFile \/ description.file = drawerFile
  /\ ~raced /\ ~moved /\ ~unheard /\ reanalysis.phase # "answered" /\ description # NoFile =>
       description.version = analysis[description.file]

DrawerInv == DrawerTypes /\ FetchInv /\ ReanalysisInv /\ ShownInv

LEMMA DrawerInvInit == DrawerInit => DrawerInv
<1> SUFFICES ASSUME DrawerInit PROVE DrawerInv
  OBVIOUS
<1>1. analysis \in [Described -> Nat]
  BY DEF DrawerInit
<1>2. DrawerTypes
  BY <1>1 DEF DrawerInit, DrawerTypes, reanalyzing, NoReanalysis, NoFile
<1> QED
  BY <1>2 DEF DrawerInit, DrawerInv, FetchInv, ReanalysisInv, ShownInv, reanalyzing, NoReanalysis

LEMMA DrawerInvStep == DrawerInv /\ [DrawerNext]_drawerVars => DrawerInv'
<1> SUFFICES ASSUME DrawerInv, [DrawerNext]_drawerVars PROVE DrawerInv'
  OBVIOUS
<1> USE DEF DrawerInv, DrawerTypes, FetchInv, ReanalysisInv, ShownInv, reanalyzing, Fetching
<1>1. CASE UNCHANGED drawerVars
  BY <1>1 DEF drawerVars
<1>2. ASSUME NEW f \in Described, OpenFile(f) PROVE DrawerInv'
  <2>1. DrawerTypes' /\ FetchInv' /\ ReanalysisInv'
    BY <1>2 DEF OpenFile
  <2>2. ShownInv'
    BY <1>2 DEF OpenFile
  <2> QED
    BY <2>1, <2>2
<1>3. CASE CloseDrawer
  BY <1>3 DEF CloseDrawer
<1>4. CASE AnswerDescription
  BY <1>4 DEF AnswerDescription, Describe
<1>5. CASE ReceiveDescription
  BY <1>5 DEF ReceiveDescription
<1>6. CASE Reanalyze
  BY <1>6 DEF Reanalyze
<1>7. CASE AnswerReanalysis
  <2>1. reanalysis.file \in Described /\ reanalysis.phase = "sent"
    BY <1>7 DEF AnswerReanalysis
  <2>2. reanalysis' = [file |-> reanalysis.file, phase |-> "answered", version |-> analysis[reanalysis.file] + 1]
    BY <1>7 DEF AnswerReanalysis
  <2>3. analysis' \in [Described -> Nat] /\ analysis'[reanalysis.file] = analysis[reanalysis.file] + 1
    BY <1>7, <2>1 DEF AnswerReanalysis
  <2>4. UNCHANGED <<drawerFile, fetch, fetchedDesc, description, moved, raced, unheard>>
    BY <1>7 DEF AnswerReanalysis
  <2> QED
    BY <2>1, <2>2, <2>3, <2>4
<1>8. CASE ReceiveReanalysis
  BY <1>8 DEF ReceiveReanalysis, NoReanalysis
<1>9. CASE ReanalysisFails
  <2>1. /\ reanalyzing /\ reanalysis' = NoReanalysis
        /\ UNCHANGED <<analysis, drawerFile, fetch, fetchedDesc, description, moved, raced>>
    BY <1>9 DEF ReanalysisFails
  <2>2. ~unheard' => ~unheard /\ reanalysis.phase # "answered"
    BY <1>9 DEF ReanalysisFails
  <2> QED
    BY <2>1, <2>2 DEF NoReanalysis
<1> QED
  BY <1>1, <1>2, <1>3, <1>4, <1>5, <1>6, <1>7, <1>8, <1>9 DEF DrawerNext

(* For every set of files and any number of analyses: the description is   *)
(* of the drawer's file, and a script marked as executed is the newest,    *)
(* but where an answer crossed a change of file or another request, or was *)
(* lost.                                                                   *)
THEOREM ShowsOwnNewestHolds == DrawerSpec => []ShowsOwnNewest
<1>1. DrawerInv => ShowsOwnNewest
  BY DEF DrawerInv, ShownInv, ShowsOwnNewest, scriptStatus, reanalyzing
<1> QED
  BY <1>1, DrawerInvInit, DrawerInvStep, PTL DEF DrawerSpec

LEMMA DrawerTypesInit == DrawerInit => DrawerTypeOK
BY AnalysesAssumption DEF DrawerInit, DrawerTypeOK, scriptStatus

LEMMA DrawerTypesStep == DrawerInv /\ DrawerTypeOK /\ [DrawerNext]_drawerVars => DrawerTypeOK'
<1> SUFFICES ASSUME DrawerInv, DrawerTypeOK, [DrawerNext]_drawerVars PROVE DrawerTypeOK'
  OBVIOUS
<1> USE DEF DrawerTypeOK
<1>1. DrawerTypes
  BY DEF DrawerInv
<1>2. scriptStatus' \in {"validating", "verified", "error"}
  BY DEF scriptStatus
<1>3. ASSUME NEW f \in Described, OpenFile(f) PROVE DrawerTypeOK'
  BY <1>2, <1>3 DEF OpenFile
<1>4. CASE CloseDrawer \/ AnswerDescription \/ ReceiveDescription
  BY <1>2, <1>4 DEF CloseDrawer, AnswerDescription, ReceiveDescription, Describe
<1>5. CASE Reanalyze \/ ReceiveReanalysis \/ ReanalysisFails \/ UNCHANGED drawerVars
  BY <1>1, <1>2, <1>5 DEF Reanalyze, ReceiveReanalysis, ReanalysisFails, drawerVars, DrawerTypes
<1>6. CASE AnswerReanalysis
  <2>1. /\ analysis' = [analysis EXCEPT ![reanalysis.file] = analysis[reanalysis.file] + 1]
        /\ analysis[reanalysis.file] < MaxAnalyses /\ reanalysis.file \in Described
        /\ UNCHANGED <<drawerFile, fetch, fetchedDesc, description>>
    BY <1>1, <1>6 DEF AnswerReanalysis, DrawerTypes, reanalyzing
  <2>2. analysis[reanalysis.file] + 1 \in 0..MaxAnalyses
    BY <2>1, AnalysesAssumption
  <2> QED
    BY <1>2, <2>1, <2>2
<1> QED
  BY <1>3, <1>4, <1>5, <1>6 DEF DrawerNext

-----------------------------------------------------------------------------
(* RunView.                                                                *)

PaneTypes ==
  /\ paneReq \in [Panes -> {"sent", "answered", "ready", "failed"}]
  /\ pane = [p \in Panes |-> pane[p]] /\ paneAns = [p \in Panes |-> paneAns[p]]

(* An answer that is still wanted is of the step shown now: a change of    *)
(* the step would have started the request over.                           *)
AnswersInv ==
  \A p \in Panes : StepsOf(detail) # <<>> =>
    /\ paneReq[p] = "answered" => paneAns[p].step = activeStepIndex(detail, selected)
    /\ paneReq[p] = "ready" => pane[p].step = activeStepIndex(detail, selected)

PaneInv == PaneTypes /\ AnswersInv

LEMMA PaneInvInit == RunViewInit => PaneInv
BY DEF RunViewInit, PaneInv, PaneTypes, AnswersInv

LEMMA RefetchKeeps ==
  ASSUME PaneInv, Refetch(detail', selected')
  PROVE  PaneInv'
<1>1. CASE Deps(detail', selected') # Deps(detail, selected)
  BY <1>1 DEF Refetch, PaneInv, PaneTypes, AnswersInv
<1>2. CASE Deps(detail', selected') = Deps(detail, selected)
  <2>1. UNCHANGED paneVars
    BY <1>2 DEF Refetch, paneVars
  <2>2. /\ activeStepIndex(detail', selected') = activeStepIndex(detail, selected)
        /\ StepsOf(detail') # <<>> <=> StepsOf(detail) # <<>>
    BY <1>2 DEF Deps
  <2>3. PaneTypes'
    BY <2>1 DEF PaneInv, PaneTypes, paneVars
  <2>4. AnswersInv'
    BY <2>1, <2>2 DEF PaneInv, AnswersInv, paneVars
  <2> QED
    BY <2>3, <2>4 DEF PaneInv
<1> QED
  BY <1>1, <1>2

(* Steps that leave the step shown and the panes alone.                    *)
LEMMA PanesAlone ==
  ASSUME PaneInv, UNCHANGED <<detail, selected, pane, paneReq, paneAns>>
  PROVE  PaneInv'
<1>1. PaneTypes'
  BY DEF PaneInv, PaneTypes
<1>2. AnswersInv'
  BY DEF PaneInv, AnswersInv, activeStepIndex, StepsOf
<1> QED
  BY <1>1, <1>2 DEF PaneInv

LEMMA PaneSteps ==
  ASSUME PaneInv, NEW p \in Panes, AnswerPane(p) \/ ReceivePane(p) \/ PaneFails(p)
  PROVE  PaneInv'
<1>1. UNCHANGED <<detail, selected>>
  BY DEF AnswerPane, ReceivePane, PaneFails, runVars
<1>2. /\ activeStepIndex(detail, selected)' = activeStepIndex(detail, selected)
      /\ StepsOf(detail)' = StepsOf(detail)
  BY <1>1 DEF activeStepIndex, StepsOf
<1>3. CASE AnswerPane(p)
  <2>1. paneReq' = [paneReq EXCEPT ![p] = "answered"] /\ UNCHANGED pane
    BY <1>3 DEF AnswerPane
  <2> DEFINE step == activeStepIndex(detail, selected)
             a == IF StepsOf(detail) = <<>> THEN Nothing
                  ELSE [step |-> step, out |-> RunStates[backend].steps[step].out]
  <2>2. /\ paneAns' = [paneAns EXCEPT ![p] = a]
        /\ StepsOf(detail) # <<>> => a.step = activeStepIndex(detail, selected)
    BY <1>3 DEF AnswerPane
  <2> HIDE DEF step, a
  <2>3. PaneTypes'
    BY <2>1, <2>2 DEF PaneInv, PaneTypes
  <2>4. AnswersInv'
    BY <1>2, <2>1, <2>2 DEF PaneInv, PaneTypes, AnswersInv
  <2> QED
    BY <2>3, <2>4 DEF PaneInv
<1>4. CASE ReceivePane(p)
  <2>1. /\ paneReq[p] = "answered" /\ paneReq' = [paneReq EXCEPT ![p] = "ready"]
        /\ pane' = [pane EXCEPT ![p] = paneAns[p]] /\ paneAns' = [paneAns EXCEPT ![p] = Nothing]
    BY <1>4 DEF ReceivePane
  <2>2. PaneTypes'
    BY <2>1 DEF PaneInv, PaneTypes
  <2>3. AnswersInv'
    BY <1>2, <2>1 DEF PaneInv, PaneTypes, AnswersInv
  <2> QED
    BY <2>2, <2>3 DEF PaneInv
<1>5. CASE PaneFails(p)
  <2>1. paneReq' = [paneReq EXCEPT ![p] = "failed"] /\ UNCHANGED <<pane, paneAns>>
    BY <1>5 DEF PaneFails
  <2>2. PaneTypes'
    BY <2>1 DEF PaneInv, PaneTypes
  <2>3. AnswersInv'
    BY <1>2, <2>1 DEF PaneInv, PaneTypes, AnswersInv
  <2> QED
    BY <2>2, <2>3 DEF PaneInv
<1> QED
  BY <1>3, <1>4, <1>5

LEMMA PaneInvStep == PaneInv /\ [RunViewNext]_runViewVars => PaneInv'
<1> SUFFICES ASSUME PaneInv, [RunViewNext]_runViewVars PROVE PaneInv'
  OBVIOUS
<1>1. CASE \/ RunGoesOn \/ AnswerDetail \/ DetailFails \/ RetryDetail \/ Poll
           \/ AskCancel \/ AnswerCancel \/ UNCHANGED runViewVars
  BY <1>1, PanesAlone DEF RunGoesOn, AnswerDetail, DetailFails, RetryDetail, Poll, AskCancel,
                          AnswerCancel, runViewVars, runVars, paneVars
<1>2. CASE ReceiveDetail
  BY <1>2, RefetchKeeps DEF ReceiveDetail
<1>3. ASSUME NEW p \in Panes, AnswerPane(p) \/ ReceivePane(p) \/ PaneFails(p) PROVE PaneInv'
  BY <1>3, PaneSteps
<1>4. ASSUME NEW i \in DOMAIN StepsOf(detail), ClickStep(i) PROVE PaneInv'
  BY <1>4, RefetchKeeps DEF ClickStep, SelectStep, runVars
<1>5. ASSUME NEW i \in DOMAIN StepsOf(detail), ToggleBacktrack(i) PROVE PaneInv'
  BY <1>5, PanesAlone DEF ToggleBacktrack, runVars, paneVars
<1>6. ASSUME NEW i \in DOMAIN StepsOf(detail), NEW j \in DOMAIN StepsOf(detail), ArrowFrom(i, j)
      PROVE PaneInv'
  BY <1>6, RefetchKeeps DEF ArrowFrom, SelectStep, runVars
<1>7. ASSUME NEW v \in {"plan", "round"}, ChooseView(v) PROVE PaneInv'
  BY <1>7, PanesAlone DEF ChooseView, runVars, paneVars
<1>8. CASE Escape
  BY <1>8, RefetchKeeps DEF Escape, runVars
<1> QED
  BY <1>1, <1>2, <1>3, <1>4, <1>5, <1>6, <1>7, <1>8 DEF RunViewNext

(* For every run and any number of polls: a pane whose request is done     *)
(* shows the step it is labelled with.                                     *)
THEOREM PaneShowsItsStepHolds == RunViewSpec => []PaneShowsItsStep
<1>1. PaneInv => PaneShowsItsStep
  BY DEF PaneInv, AnswersInv, PaneShowsItsStep
<1> QED
  BY <1>1, PaneInvInit, PaneInvStep, PTL DEF RunViewSpec

LEMMA RunTypesInit == RunViewInit => RunViewTypeOK
BY PollsAssumption, RunStatesAssumption DEF RunViewInit, RunViewTypeOK

LEMMA RunTypesStep == PaneInv /\ RunViewTypeOK /\ [RunViewNext]_runViewVars => RunViewTypeOK'
<1> SUFFICES ASSUME PaneInv, RunViewTypeOK, [RunViewNext]_runViewVars PROVE RunViewTypeOK'
  OBVIOUS
<1>1. \A p \in Panes : paneReq'[p] \in {"sent", "answered", "ready", "failed"}
  BY PaneInvStep DEF PaneInv, PaneTypes
<1>2. DOMAIN RunStates = 1..Len(RunStates) /\ Len(RunStates) \in Nat
  BY RunStatesAssumption
<1>3. CASE \/ RunGoesOn \/ AnswerDetail \/ ReceiveDetail \/ DetailFails \/ RetryDetail \/ Poll
           \/ Escape \/ AskCancel \/ AnswerCancel \/ UNCHANGED runViewVars
  <2>1. backend' \in DOMAIN RunStates /\ polls' \in 0..MaxPolls
    BY <1>2, <1>3, PollsAssumption
       DEF RunGoesOn, AnswerDetail, ReceiveDetail, DetailFails, RetryDetail, Poll, Escape, AskCancel,
           AnswerCancel, runViewVars, runVars, RunViewTypeOK
  <2>2. /\ detail' \in 0..Len(RunStates) /\ detailAns' \in 0..Len(RunStates)
        /\ detailReq' \in {"sent", "answered", "ready", "failed"} /\ timelineView' \in {"plan", "round"}
    BY <1>2, <1>3
       DEF RunGoesOn, AnswerDetail, ReceiveDetail, DetailFails, RetryDetail, Poll, Escape, AskCancel,
           AnswerCancel, runViewVars, runVars, viewVars, RunViewTypeOK
  <2> QED
    BY <1>1, <2>1, <2>2 DEF RunViewTypeOK
<1>4. ASSUME NEW p \in Panes, AnswerPane(p) \/ ReceivePane(p) \/ PaneFails(p) PROVE RunViewTypeOK'
  BY <1>1, <1>4 DEF AnswerPane, ReceivePane, PaneFails, runVars, viewVars, RunViewTypeOK
<1>5. ASSUME NEW i \in DOMAIN StepsOf(detail), ClickStep(i) \/ ToggleBacktrack(i) PROVE RunViewTypeOK'
  BY <1>1, <1>5 DEF ClickStep, ToggleBacktrack, runVars, viewVars, RunViewTypeOK
<1>6. ASSUME NEW i \in DOMAIN StepsOf(detail), NEW j \in DOMAIN StepsOf(detail), ArrowFrom(i, j)
      PROVE RunViewTypeOK'
  BY <1>1, <1>6 DEF ArrowFrom, runVars, viewVars, RunViewTypeOK
<1>7. ASSUME NEW v \in {"plan", "round"}, ChooseView(v) PROVE RunViewTypeOK'
  BY <1>1, <1>7 DEF ChooseView, runVars, RunViewTypeOK
<1> QED
  BY <1>3, <1>4, <1>5, <1>6, <1>7 DEF RunViewNext

-----------------------------------------------------------------------------
(* RunsList.                                                               *)

ParamsTypes ==
  /\ searchParams \in [choice : Filters, q : Texts]
  /\ navigation \in [choice : Filters, q : Texts] \cup {NoParams}
  /\ wanted \in [choice : Filters, q : Texts]
  /\ searchInput \in Texts
  /\ searchTimer \in [q : Texts, params : [choice : Filters, q : Texts]] \cup {NoTimer}
  /\ runsFor = Asked(searchParams, visiblePages)

Quiet == searchTimer = NoTimer /\ navigation = NoParams

(* Where the choice last made is: in the address, in the rendering a       *)
(* search was typed in, or on its way.                                     *)
ChoiceInv ==
  \/ navigation = NoParams /\ searchParams.choice = wanted.choice
     /\ (searchTimer # NoTimer => searchTimer.params.choice = wanted.choice)
  \/ searchTimer = NoTimer /\ navigation # NoParams /\ navigation.choice = wanted.choice

(* Where the search is: in the address, in the timer, also while a choice  *)
(* made after it is on its way, or on its way itself.                      *)
QSettled == Quiet /\ Stands(wanted.q, searchParams.q) /\ Stands(searchInput, searchParams.q)
QDebouncing ==
  /\ searchTimer # NoTimer /\ (navigation # NoParams => navigation.q = searchParams.q)
  /\ searchTimer.q = searchInput /\ wanted.q = searchInput
QNavigating ==
  /\ searchTimer = NoTimer /\ navigation # NoParams /\ Stands(wanted.q, navigation.q)
  /\ searchInput = searchParams.q \/ Stands(searchInput, navigation.q)

FilterInv ==
  /\ ParamsTypes
  /\ ~leftFor => /\ "choice" \notin hurried => ChoiceInv
                 /\ "q" \notin hurried => QSettled \/ QDebouncing \/ QNavigating

LEMMA FilterInvInit == RunsListInit => FilterInv
<1> SUFFICES ASSUME RunsListInit PROVE FilterInv
  OBVIOUS
<1>1. ParamsTypes
  BY DEF RunsListInit, ParamsTypes, Params
<1> QED
  BY <1>1 DEF RunsListInit, FilterInv, ChoiceInv, QSettled, Quiet, Stands

LEMMA FilterInvStep == FilterInv /\ [RunsListNext]_runsListVars => FilterInv'
<1> SUFFICES ASSUME FilterInv, [RunsListNext]_runsListVars PROVE FilterInv'
  OBVIOUS
<1>0. \A p \in [choice : Filters, q : Texts] : p # NoParams
  BY FiltersAssumption DEF NoParams
<1>1. CASE \/ AnswerRuns \/ ReceiveRuns \/ RetryRuns \/ RetryRun \/ LoadMore \/ UNCHANGED runsListVars
  <2>1. UNCHANGED <<searchParams, navigation, searchInput, searchTimer, wishes, leftFor>>
    BY <1>1 DEF AnswerRuns, ReceiveRuns, RetryRuns, RetryRun, LoadMore, runsListVars, retryVars
  <2>2. runsFor' = Asked(searchParams', visiblePages')
    BY <1>1 DEF AnswerRuns, ReceiveRuns, RetryRuns, RetryRun, LoadMore, runsListVars, listVars,
                FilterInv, ParamsTypes
  <2> QED
    BY <2>1, <2>2 DEF FilterInv, ParamsTypes, ChoiceInv, QSettled, QDebouncing, QNavigating, Quiet, wishes
<1>2. ASSUME NEW c \in Filters, Choose(c) PROVE FilterInv'
  <2>1. ParamsTypes'
    BY <1>2 DEF Choose, Want, FilterInv, ParamsTypes, listVars
  <2>2. /\ navigation' = [searchParams EXCEPT !.choice = c] /\ wanted' = [wanted EXCEPT !.choice = c]
        /\ UNCHANGED <<searchParams, searchInput, searchTimer, leftFor>> /\ ~leftFor
    BY <1>2 DEF Choose, Want, retryVars
  <2>3. /\ navigation'.choice = c /\ navigation'.q = searchParams.q /\ navigation' # NoParams
        /\ wanted'.choice = c /\ wanted'.q = wanted.q
    BY <1>0, <2>1, <2>2 DEF FilterInv, ParamsTypes
  <2>4. ASSUME "choice" \notin hurried' PROVE ChoiceInv'
    <3>1. searchTimer = NoTimer
      BY <1>2, <2>4 DEF Choose, Want
    <3> QED
      BY <2>2, <2>3, <3>1 DEF ChoiceInv
  <2>5. ASSUME "q" \notin hurried' PROVE QDebouncing' \/ QNavigating'
    <3>1. navigation = NoParams /\ "q" \notin hurried
      BY <1>2, <2>5 DEF Choose, Want
    <3>2. QSettled \/ QDebouncing
      BY <2>2, <3>1 DEF FilterInv, QNavigating
    <3> QED
      BY <2>2, <2>3, <3>2 DEF QSettled, Quiet, QDebouncing, QNavigating, Stands
  <2> QED
    BY <2>1, <2>4, <2>5 DEF FilterInv
<1>3. CASE ClearFilters
  <2>1. Unfiltered \in [choice : Filters, q : Texts] /\ Unfiltered.q = NoText
    BY FiltersAssumption DEF Unfiltered, Params
  <2>2. ParamsTypes'
    BY <1>3, <2>1 DEF ClearFilters, Want, FilterInv, ParamsTypes, listVars
  <2>3. /\ navigation' = Unfiltered /\ wanted' = Unfiltered /\ navigation' # NoParams
        /\ UNCHANGED <<searchParams, searchInput, searchTimer, leftFor>> /\ ~leftFor
    BY <1>0, <1>3, <2>1 DEF ClearFilters, Want, retryVars
  <2>4. ASSUME "choice" \notin hurried' PROVE ChoiceInv'
    <3>1. searchTimer = NoTimer
      BY <1>3, <2>4 DEF ClearFilters, Want
    <3> QED
      BY <2>3, <3>1 DEF ChoiceInv
  <2>5. ASSUME "q" \notin hurried' PROVE QNavigating'
    <3>1. navigation = NoParams /\ searchTimer = NoTimer /\ "q" \notin hurried
      BY <1>3, <2>5 DEF ClearFilters, Want
    <3>2. QSettled
      BY <2>3, <3>1 DEF FilterInv, QDebouncing, QNavigating
    <3> QED
      BY <2>1, <2>3, <3>1, <3>2 DEF QSettled, QNavigating, Stands
  <2> QED
    BY <2>2, <2>4, <2>5 DEF FilterInv
<1>4. ASSUME NEW t \in Texts, TypeSearch(t) PROVE FilterInv'
  <2>1. ParamsTypes'
    BY <1>4 DEF TypeSearch, Want, Debounced, FilterInv, ParamsTypes, listVars
  <2>2. /\ searchInput' = t /\ wanted' = [wanted EXCEPT !.q = t]
        /\ searchTimer' = IF t = searchParams.q THEN NoTimer ELSE [q |-> t, params |-> searchParams]
        /\ UNCHANGED <<searchParams, navigation, leftFor>> /\ ~leftFor
    BY <1>4 DEF TypeSearch, Want, Debounced, retryVars
  <2>3. wanted'.q = t /\ wanted'.choice = wanted.choice
    BY <2>2 DEF FilterInv, ParamsTypes
  <2>4. ASSUME "choice" \notin hurried' PROVE ChoiceInv'
    <3>1. navigation = NoParams /\ "choice" \notin hurried
      BY <1>4, <2>4 DEF TypeSearch, Want
    <3>2. ChoiceInv
      BY <2>2, <3>1 DEF FilterInv
    <3> QED
      BY <2>2, <2>3, <3>1, <3>2 DEF ChoiceInv
  <2>5. ASSUME "q" \notin hurried' PROVE QSettled' \/ QDebouncing'
    <3>1. navigation = NoParams
      BY <1>4, <2>5 DEF TypeSearch, Want
    <3>2. CASE t = searchParams.q
      BY <2>2, <2>3, <3>1, <3>2 DEF QSettled, Quiet, Stands
    <3>3. CASE t # searchParams.q
      <4>1. searchTimer'.q = t /\ searchTimer' # NoTimer
        <5>1. searchTimer' = [q |-> t, params |-> searchParams]
          BY <2>2, <3>3
        <5>2. searchParams # NoParams
          BY <1>0 DEF FilterInv, ParamsTypes
        <5> QED
          BY <5>1, <5>2 DEF NoTimer
      <4> QED
        BY <2>2, <2>3, <3>1, <4>1 DEF QDebouncing
    <3> QED
      BY <3>2, <3>3
  <2> QED
    BY <2>1, <2>4, <2>5 DEF FilterInv
<1>5. CASE SearchFires
  <2>1. searchTimer \in [q : Texts, params : [choice : Filters, q : Texts]] /\ searchTimer # NoTimer
    BY <1>5 DEF SearchFires, FilterInv, ParamsTypes
  <2>2. InAddress(searchTimer.q) \in Texts /\ Stands(searchTimer.q, InAddress(searchTimer.q))
    BY <2>1, FiltersAssumption DEF InAddress, Stands
  <2>3. /\ navigation' = [searchTimer.params EXCEPT !.q = InAddress(searchTimer.q)] /\ searchTimer' = NoTimer
        /\ UNCHANGED <<searchParams, searchInput, wanted, hurried, leftFor, visiblePages, runsFor>>
    BY <1>5 DEF SearchFires, wishes, retryVars, listVars
  <2>4. /\ navigation' \in [choice : Filters, q : Texts] /\ navigation' # NoParams
        /\ navigation'.q = InAddress(searchTimer.q) /\ navigation'.choice = searchTimer.params.choice
    BY <1>0, <2>1, <2>2, <2>3
  <2>5. ParamsTypes'
    BY <2>3, <2>4 DEF FilterInv, ParamsTypes
  <2>6. ASSUME ChoiceInv PROVE ChoiceInv'
    BY <2>1, <2>3, <2>4, <2>6 DEF ChoiceInv
  <2>7. ASSUME QSettled \/ QDebouncing \/ QNavigating PROVE QNavigating'
    <3>1. QDebouncing
      BY <2>1, <2>7 DEF QSettled, Quiet, QNavigating
    <3> QED
      BY <2>2, <2>3, <2>4, <3>1 DEF QDebouncing, QNavigating
  <2> QED
    BY <2>3, <2>5, <2>6, <2>7 DEF FilterInv
<1>6. CASE NavigationArrives
  <2>1. navigation \in [choice : Filters, q : Texts] /\ navigation # NoParams
    BY <1>6 DEF NavigationArrives, FilterInv, ParamsTypes
  <2>2. searchParams' = navigation /\ navigation' = NoParams /\ UNCHANGED <<wanted, hurried, leftFor>>
    BY <1>6 DEF NavigationArrives, wishes, retryVars
  <2>3. Debounced(navigation.q, navigation) = NoTimer
    BY DEF Debounced
  <2>4. \/ searchInput' = navigation.q /\ searchTimer' = NoTimer /\ navigation.q # searchParams.q
        \/ /\ UNCHANGED <<searchInput, searchTimer>>
           /\ navigation.q = searchParams.q \/ navigation.q = searchInput
    BY <1>6, <2>3 DEF NavigationArrives
  <2>5. runsFor' = Asked(searchParams', visiblePages')
    BY <1>6 DEF NavigationArrives, FilterInv, ParamsTypes, listVars
  <2>6. ParamsTypes'
    BY <2>1, <2>2, <2>4, <2>5 DEF FilterInv, ParamsTypes
  <2>7. ASSUME ChoiceInv PROVE ChoiceInv'
    <3>1. searchTimer = NoTimer /\ navigation.choice = wanted.choice
      BY <2>1, <2>7 DEF ChoiceInv
    <3> QED
      BY <2>2, <2>4, <3>1 DEF ChoiceInv
  <2>8. ASSUME QSettled \/ QDebouncing \/ QNavigating PROVE QSettled' \/ QDebouncing'
    <3>1. CASE QDebouncing
      BY <2>1, <2>2, <2>4, <3>1 DEF QDebouncing
    <3>2. CASE QNavigating
      <4>1. searchTimer' = NoTimer
        BY <2>4, <3>2 DEF QNavigating
      <4>2. Stands(searchInput', navigation.q)
        BY <2>4, <3>2 DEF QNavigating, Stands
      <4> QED
        BY <2>2, <3>2, <4>1, <4>2 DEF QNavigating, QSettled, Quiet
    <3> QED
      BY <2>1, <2>8, <3>1, <3>2 DEF QSettled, Quiet
  <2> QED
    BY <2>2, <2>6, <2>7, <2>8 DEF FilterInv
<1>7. CASE RetryAnswered
  <2>1. UNCHANGED <<searchParams, searchInput, wanted, hurried, visiblePages, runsFor>>
    BY <1>7 DEF RetryAnswered, listVars, wishes
  <2>2. ParamsTypes'
    BY <1>7, <2>1 DEF RetryAnswered, FilterInv, ParamsTypes
  <2>3. ASSUME ~leftFor' PROVE UNCHANGED <<leftFor, navigation, searchTimer>>
    BY <1>7, <2>3 DEF RetryAnswered
  <2> QED
    BY <2>1, <2>2, <2>3 DEF FilterInv, ChoiceInv, QSettled, QDebouncing, QNavigating, Quiet
<1> QED
  BY <1>1, <1>2, <1>3, <1>4, <1>5, <1>6, <1>7 DEF RunsListNext

(* For any filters and texts: once nothing is on its way, the address has  *)
(* the filters the user last chose and the text last typed, each unless a  *)
(* later wish may have cost it, the box shows it and the rows are its own. *)
THEOREM FiltersKeptHolds == RunsListSpec => []FiltersKept
<1>1. FilterInv => FiltersKept
  BY DEF FilterInv, ParamsTypes, ChoiceInv, QSettled, QDebouncing, QNavigating, Quiet, FiltersKept
<1> QED
  BY <1>1, FilterInvInit, FilterInvStep, PTL DEF RunsListSpec

LEMMA RunsTypesInit == RunsListInit => RunsListTypeOK
BY FiltersAssumption DEF RunsListInit, RunsListTypeOK, Params

LEMMA RunsTypesStep == FilterInv /\ RunsListTypeOK /\ [RunsListNext]_runsListVars => RunsListTypeOK'
<1> SUFFICES ASSUME FilterInv, RunsListTypeOK, [RunsListNext]_runsListVars PROVE RunsListTypeOK'
  OBVIOUS
<1>1. searchParams'.choice \in Filters /\ searchParams'.q \in Texts /\ searchInput' \in Texts
  BY FilterInvStep DEF FilterInv, ParamsTypes
<1>2. MaxPages \in Nat \ {0} /\ MaxRetries \in Nat
  BY FiltersAssumption
<1> USE DEF RunsListTypeOK, RunsListNext, Choose, TypeSearch, ClearFilters, SearchFires, NavigationArrives,
            AnswerRuns, ReceiveRuns, RetryRuns, LoadMore, RetryRun, RetryAnswered, listVars, retryVars, runsListVars
<1>3. visiblePages' \in 1..MaxPages
  <2>1. visiblePages' \in {visiblePages, 1} \/ (visiblePages < MaxPages /\ visiblePages' = visiblePages + 1)
    OBVIOUS
  <2> QED
    BY <1>2, <2>1
<1>4. runsReq' \in {"sent", "answered", "ready", "failed"}
  OBVIOUS
<1>5. retries' \in 0..MaxRetries
  <2>1. \/ retries' = retries
        \/ retries < MaxRetries /\ retries' = retries + 1
        \/ retries > 0 /\ retries' = retries - 1
    OBVIOUS
  <2> QED
    BY <1>2, <2>1
<1> QED
  BY <1>1, <1>3, <1>4, <1>5 DEF RunsListTypeOK

-----------------------------------------------------------------------------
(* The whole application.  A page moves on its own or not at all, so what  *)
(* each promises alone it keeps among the others.                          *)

LEMMA PagesStart == WebInit => FilesInit /\ NewInit /\ DrawerInit /\ RunViewInit /\ DefaultsInit /\ KeysInit
                            /\ TeamInit /\ SessionInit /\ RunsListInit /\ NewRunInit /\ SavedInit /\ ProfileInit
BY DEF WebInit

LEMMA PagesMove ==
  ASSUME [WebNext]_webVars
  PROVE  /\ [FilesNext]_filesVars /\ [NewNext]_newVars /\ [DrawerNext]_drawerVars
         /\ [RunViewNext]_runViewVars /\ [DefaultsNext]_defaultsVars /\ [KeysNext]_keysVars
         /\ [TeamNext]_teamVars /\ [SessionNext]_sessionVars /\ [RunsListNext]_runsListVars
         /\ [NewRunNext]_newRunVars /\ [SavedNext]_savedVars /\ [ProfileNext]_profileVars
<1>1. CASE OnFiles
  BY <1>1 DEF OnFiles
<1>2. CASE OnWorkspaces
  BY <1>2 DEF OnWorkspaces
<1>3. CASE OnDrawer
  BY <1>3 DEF OnDrawer
<1>4. CASE OnRun
  BY <1>4 DEF OnRun
<1>5. CASE OnDefaults
  BY <1>5 DEF OnDefaults
<1>6. CASE OnKeys
  BY <1>6 DEF OnKeys
<1>7. CASE OnTeam
  BY <1>7 DEF OnTeam
<1>8. CASE OnSession
  BY <1>8 DEF OnSession
<1>9. CASE OnRuns
  BY <1>9 DEF OnRuns
<1>10. CASE OnNewRun
  BY <1>10 DEF OnNewRun
<1>11. CASE OnSaved
  BY <1>11 DEF OnSaved
<1>12. CASE OnProfile
  BY <1>12 DEF OnProfile
<1>13. CASE UNCHANGED webVars
  BY <1>13 DEF webVars
<1> QED
  BY <1>1, <1>2, <1>3, <1>4, <1>5, <1>6, <1>7, <1>8, <1>9, <1>10, <1>11, <1>12, <1>13 DEF WebNext

(* Every behaviour of the application is one of each page.                 *)
THEOREM PagesRunAlone ==
  WebSpec => /\ FilesSpec /\ NewSpec /\ DrawerSpec /\ RunViewSpec /\ DefaultsSpec /\ KeysSpec
             /\ TeamSpec /\ SessionSpec /\ RunsListSpec /\ NewRunSpec /\ SavedSpec /\ ProfileSpec
BY PagesStart, PagesMove, PTL
   DEF WebSpec, FilesSpec, NewSpec, DrawerSpec, RunViewSpec, DefaultsSpec, KeysSpec, TeamSpec, SessionSpec,
       RunsListSpec, NewRunSpec, SavedSpec, ProfileSpec

(* For any values of the bounds: every page keeps to its types.            *)
THEOREM WebTypesHold == WebSpec => []WebTypeOK
<1>1. DrawerSpec => []DrawerTypeOK
  BY DrawerInvInit, DrawerInvStep, DrawerTypesInit, DrawerTypesStep, PTL DEF DrawerSpec
<1>2. RunViewSpec => []RunViewTypeOK
  BY PaneInvInit, PaneInvStep, RunTypesInit, RunTypesStep, PTL DEF RunViewSpec
<1>3. SessionSpec => []SessionTypeOK
  BY LetThroughInit, LetThroughStep, SessionTypesInit, SessionTypesStep, PTL DEF SessionSpec
<1>4. RunsListSpec => []RunsListTypeOK
  BY FilterInvInit, FilterInvStep, RunsTypesInit, RunsTypesStep, PTL DEF RunsListSpec
<1>5. NewRunSpec => []NewRunTypeOK
  <2>1. FormTypes => NewRunTypeOK
    BY DEF FormTypes
  <2> QED
    BY <2>1, FormTypesInit, FormTypesStep, PTL DEF NewRunSpec
<1> QED
  BY <1>1, <1>2, <1>3, <1>4, <1>5, PagesRunAlone, FilesTypesHold, NewTypesHold, DefaultsTypesHold,
     KeysTypesHold, TeamTypesHold, SavedTypesHold, ProfileTypesHold, PTL DEF WebTypeOK

(* For any people, analyses and numbers of requests: with nothing under    *)
(* way both lists are the server's, unless a change that failed had been   *)
(* overlapped by another.                                                  *)
THEOREM ListsAreServerHolds == WebSpec => []ListsAreServer
BY PagesRunAlone, TeamIsServerHolds, SavedIsServerHolds, PTL DEF ListsAreServer

(* For any limits and names: a form with nothing to save is the server's.  *)
THEOREM CleanFormsAreServerHolds == WebSpec => []CleanFormsAreServer
BY PagesRunAlone, CleanFormIsServerHolds, CleanNameIsServerHolds, PTL DEF CleanFormsAreServer
=============================================================================
