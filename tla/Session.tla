------------------------------- MODULE Session -------------------------------
(***************************************************************************)
(* Signing in and moving between pages (apps/web: middleware.ts, the       *)
(* layout of (app), auth/callback, the pages of (auth); apps/api           *)
(* routers/v1/auth.py as those pages use it).                              *)
(*                                                                         *)
(* A request passes the middleware, which asks the auth server who the     *)
(* user is and refreshes a stale token, and then its page or, for a page   *)
(* of (app), the layout, which asks again and reads the profile.  Either   *)
(* may redirect, and the redirected request starts over.                   *)
(***************************************************************************)
EXTENDS Naturals

CONSTANTS
  MaxRevokes,    \* bound: sessions ended on the server, from elsewhere
  MaxFailures    \* bound: reads of the profile that fail

AppPages == {"/workspaces", "/runs"}
AuthPages == {"/login", "/signup", "/forgot-password", "/reset-password"}
Paths == AppPages \cup AuthPages \cup
  {"/", "/auth/callback", "/auth/forgot-password", "/auth/reset-password"}

(* PUBLIC_ROUTES.                                                          *)
PublicRoutes ==
  {"/login", "/signup", "/auth/callback", "/auth/reset-password", "/auth/forgot-password"}

NoRequest == [stage |-> "none", path |-> "/", token |-> "none"]
Get(p) == [stage |-> "middleware", path |-> p, token |-> "none"]

VARIABLES
  account,    \* "none", "unconfirmed", "confirmed"
  alive,      \* the auth server honours the browser's session
  token,      \* the browser's cookies: "none", "fresh", "stale"
  request,    \* the navigation under way: where it is, path, its cookies
  at,         \* the page shown
  next,       \* login's next parameter
  form,       \* the form of the page shown: "idle", "sending", "success", "error"
  signIn,     \* a login under way: where it will go, or "none"
  mail,       \* links sent: confirmation and reset; a reset link opened
  revokes, failures,
  (* Record the past for the properties; no guard reads them.              *)
  cutOff,     \* the session ended or the profile failed during this request
  bounced     \* the layout sent away a request it had no such reason to

bounds == <<revokes, failures>>
sessionNotes == <<cutOff, bounced>>
browser == <<token, request, at, next, form, signIn>>
sessionVars == <<account, alive, browser, mail, bounds, sessionNotes>>

SignedIn(t) == alive /\ t = "fresh"

(* A new page mounts its form afresh.                                      *)
Show(p) == at' = p /\ form' = "idle" /\ request' = NoRequest
Redirect(p) == request' = Get(p) /\ UNCHANGED <<at, form>>

SessionInit ==
  /\ account = "none" /\ alive = FALSE /\ token = "none"
  /\ request = NoRequest /\ at = "blank" /\ next = "/workspaces" /\ form = "idle"
  /\ signIn = "none" /\ mail = {}
  /\ revokes = 0 /\ failures = 0 /\ cutOff = FALSE /\ bounced = FALSE

(* The user opens an address.                                              *)
Visit(p) ==
  /\ request = NoRequest /\ p # "/auth/callback"
  /\ request' = Get(p) /\ next' = "/workspaces" /\ cutOff' = FALSE
  /\ mail' = mail \ {"opened"}
  /\ UNCHANGED <<account, alive, token, at, form, signIn, bounds, bounced>>

-----------------------------------------------------------------------------
(* The middleware: getUser() with the request's cookies.  A stale token is *)
(* exchanged; setAll writes the new one onto the request and the response. *)
(* A redirect is another response, without the new cookies: the browser    *)
(* keeps the stale token, and the redirected request exchanges it again    *)
(* (the auth server takes a token twice within its reuse interval).        *)

Refreshed == IF token = "stale" THEN (IF alive THEN "fresh" ELSE "none") ELSE token

ToLogin == ~SignedIn(Refreshed) /\ request.path \notin PublicRoutes
ToWorkspaces == SignedIn(Refreshed) /\ request.path \in {"/login", "/signup"}

PassOn(t) ==
  /\ request' = [request EXCEPT !.stage = "route", !.token = t]
  /\ token' = Refreshed /\ UNCHANGED <<at, form, next>>

SendAway ==
  /\ UNCHANGED token
  /\ \/ ToLogin /\ Redirect("/login") /\ next' = request.path
     \/ ToWorkspaces /\ Redirect("/workspaces") /\ UNCHANGED next

ResponseOnly ==    \* mutant: the new token is written to the response only
  /\ request.stage = "middleware"
  /\ SendAway \/ (~ToLogin /\ ~ToWorkspaces /\ PassOn(token))
  /\ UNCHANGED <<account, alive, signIn, mail, bounds, sessionNotes>>

LoginNotPublic ==    \* mutant: the login page is not exempted
  /\ request.stage = "middleware"
  /\ IF ~SignedIn(Refreshed) THEN Redirect("/login") /\ UNCHANGED <<next, token>>
                             ELSE SendAway \/ (~ToWorkspaces /\ PassOn(Refreshed))
  /\ UNCHANGED <<account, alive, signIn, mail, bounds, sessionNotes>>

Middleware ==
  /\ request.stage = "middleware"
  /\ SendAway \/ (~ToLogin /\ ~ToWorkspaces /\ PassOn(Refreshed))
  /\ UNCHANGED <<account, alive, signIn, mail, bounds, sessionNotes>>

(* The layout of (app): no user or no profile row goes back to the login.  *)
AppLayout ==
  /\ request.stage = "route" /\ request.path \in AppPages
  /\ \/ /\ SignedIn(request.token)
        /\ Show(request.path)
        /\ UNCHANGED <<next, failures, sessionNotes>>
     \/ /\ SignedIn(request.token) /\ failures < MaxFailures
        /\ Redirect("/login") /\ next' = "/workspaces"
        /\ failures' = failures + 1 /\ cutOff' = TRUE /\ UNCHANGED bounced
     \/ /\ ~SignedIn(request.token)
        /\ Redirect("/login") /\ next' = "/workspaces"
        /\ bounced' = (bounced \/ ~cutOff) /\ UNCHANGED <<failures, cutOff>>
  /\ UNCHANGED <<account, alive, token, signIn, mail, revokes>>

(* The other routes: the root redirects; only pages that exist show.       *)
OtherRoute ==
  /\ request.stage = "route" /\ request.path \notin AppPages \cup {"/auth/callback"}
  /\ CASE request.path = "/" -> Redirect("/workspaces")
       [] request.path \in AuthPages -> Show(request.path)
       [] OTHER -> Show("not-found")
  /\ UNCHANGED <<account, alive, token, next, signIn, mail, bounds, sessionNotes>>

(* auth/callback exchanges the confirmation's code once.                   *)
Callback ==
  /\ request.stage = "route" /\ request.path = "/auth/callback"
  /\ IF "confirm" \in mail
     THEN /\ account' = "confirmed" /\ alive' = TRUE /\ token' = "fresh"
          /\ mail' = mail \ {"confirm"} /\ Redirect("/workspaces")
     ELSE Redirect("/login") /\ UNCHANGED <<account, alive, token, mail>>
  /\ UNCHANGED <<next, signIn, bounds, sessionNotes>>

-----------------------------------------------------------------------------
(* The forms.  A form that is sending is disabled; the page may be left,   *)
(* and a login that is answered then signs in and moves on all the same.   *)

Editable(p) == request = NoRequest /\ at = p /\ form \in {"idle", "error"}
LoginForm == Editable("/login")
SignupForm == Editable("/signup")
ForgotForm == Editable("/forgot-password")

(* The form is there if a session was found when the page was shown; else  *)
(* the page says that the link has expired.                                *)
ResetForm == Editable("/reset-password") /\ token # "none"

SubmitLogin ==
  /\ LoginForm /\ form' = "sending" /\ signIn' = next
  /\ UNCHANGED <<account, alive, token, request, at, next, mail, bounds, sessionNotes>>

SubmitOther ==
  /\ SignupForm \/ ForgotForm \/ ResetForm
  /\ form' = "sending"
  /\ UNCHANGED <<account, alive, token, request, at, next, signIn, mail, bounds, sessionNotes>>

LoginAnswered ==
  /\ signIn # "none" /\ account = "confirmed"
  /\ alive' = TRUE /\ token' = "fresh" /\ signIn' = "none"
  /\ request' = Get(signIn) /\ cutOff' = FALSE
  /\ form' = IF at = "/login" THEN "idle" ELSE form
  /\ UNCHANGED <<account, at, next, mail, bounds, bounced>>

(* Refused, limited, unreachable, or the address is not confirmed.         *)
LoginRefused ==
  /\ signIn # "none" /\ signIn' = "none"
  /\ form' = IF at = "/login" THEN "error" ELSE form
  /\ UNCHANGED <<account, alive, token, request, at, next, mail, bounds, sessionNotes>>

SignedUp ==
  /\ at = "/signup" /\ form = "sending"
  /\ \/ /\ form' = "success"
        /\ IF account = "none" THEN account' = "unconfirmed" /\ mail' = mail \cup {"confirm"}
                               ELSE UNCHANGED <<account, mail>>
     \/ form' = "error" /\ UNCHANGED <<account, mail>>
  /\ UNCHANGED <<alive, token, request, at, next, signIn, bounds, sessionNotes>>

(* "Back to sign up" under the note that a mail was sent.                  *)
BackToSignup ==
  /\ at = "/signup" /\ form = "success" /\ request = NoRequest
  /\ form' = "idle"
  /\ UNCHANGED <<account, alive, token, request, at, next, signIn, mail, bounds, sessionNotes>>

(* The API answers alike for every address and mails a link if there is an *)
(* account.                                                                *)
ResetRequested ==
  /\ at = "/forgot-password" /\ form = "sending"
  /\ \/ form' = "success" /\ mail' = IF account = "none" THEN mail ELSE mail \cup {"reset"}
     \/ form' = "error" /\ UNCHANGED mail
  /\ UNCHANGED <<account, alive, token, request, at, next, signIn, bounds, sessionNotes>>

(* The new password is set with the session at hand.                       *)
PasswordReset ==
  /\ at = "/reset-password" /\ form = "sending"
  /\ form' \in (IF SignedIn(token) THEN {"success", "error"} ELSE {"error"})
  /\ UNCHANGED <<account, alive, token, request, at, next, signIn, mail, bounds, sessionNotes>>

(* A link in a mail is opened.  The reset link leads where the API said,   *)
(* /auth/reset-password; the page it opens would take its session over.    *)
FollowConfirmation ==
  /\ request = NoRequest /\ account = "unconfirmed"
  /\ request' = Get("/auth/callback") /\ cutOff' = FALSE
  /\ UNCHANGED <<account, alive, token, at, next, form, signIn, mail, bounds, bounced>>

FollowReset ==
  /\ request = NoRequest /\ "reset" \in mail
  /\ mail' = (mail \ {"reset"}) \cup {"opened"}
  /\ request' = Get("/auth/reset-password") /\ cutOff' = FALSE
  /\ UNCHANGED <<account, alive, token, at, next, form, signIn, bounds, bounced>>

SignOut ==
  /\ request = NoRequest
  /\ at \in AppPages \/ (at = "/reset-password" /\ form = "success")
  /\ token' = "none" /\ alive' = FALSE /\ request' = Get("/login")
  /\ next' = "/workspaces" /\ cutOff' = FALSE
  /\ UNCHANGED <<account, at, form, signIn, mail, bounds, bounced>>

(* The browser's token ages; one already checked does not within a request.*)
Expire ==
  /\ token = "fresh" /\ token' = "stale"
  /\ UNCHANGED <<account, alive, request, at, next, form, signIn, mail, bounds, sessionNotes>>

(* Another device signs out everywhere or resets the password.             *)
Revoke ==
  /\ alive /\ revokes < MaxRevokes
  /\ alive' = FALSE /\ revokes' = revokes + 1 /\ cutOff' = TRUE
  /\ UNCHANGED <<account, browser, mail, failures, bounced>>

SessionStep == Middleware \/ AppLayout \/ OtherRoute \/ Callback

SessionNext ==
  \/ \E p \in Paths : Visit(p)
  \/ SessionStep
  \/ SubmitLogin \/ SubmitOther
  \/ LoginAnswered \/ LoginRefused \/ SignedUp \/ BackToSignup \/ ResetRequested \/ PasswordReset
  \/ FollowConfirmation \/ FollowReset \/ SignOut \/ Expire \/ Revoke

SessionSpec == SessionInit /\ [][SessionNext]_sessionVars

-----------------------------------------------------------------------------
(* Properties.                                                             *)

SessionTypeOK ==
  /\ account \in {"none", "unconfirmed", "confirmed"} /\ alive \in BOOLEAN
  /\ token \in {"none", "fresh", "stale"}
  /\ request.stage \in {"none", "middleware", "route"} /\ request.path \in Paths
  /\ at \in AppPages \cup AuthPages \cup {"blank", "not-found"}
  /\ next \in Paths /\ signIn \in Paths \cup {"none"}
  /\ form \in {"idle", "sending", "success", "error"}
  /\ mail \subseteq {"confirm", "reset", "opened"}

(* A session the middleware has accepted is not sent to the login by the   *)
(* layout of the same request, unless it was ended or the profile could    *)
(* not be read meanwhile (middleware.ts:19 names the race that once did).  *)
ValidSessionNotBounced == ~bounced

(* Redirects come to an end: every navigation shows some page.  The layout *)
(* and the middleware send a user without a readable profile back and      *)
(* forth, so this is for profile reads that fail finitely often.           *)
NavigationSettles == request # NoRequest ~> request = NoRequest

(* forgot-password/page.tsx:61: "we've sent a reset link".  The link opens *)
(* a page of the application, not the page for unknown addresses.          *)
ResetLinkOpensForm == ~("opened" \in mail /\ request = NoRequest /\ at = "not-found")
=============================================================================
