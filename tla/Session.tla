------------------------------ MODULE Session ------------------------------
(***************************************************************************)
(* Signing in and out: App of main.js and Login of components.js in one    *)
(* browser, and authenticate, handle_login and handle_logout of net.c.     *)
(*                                                                         *)
(* The server is a process that runs or does not.  It dies of a login      *)
(* without known credentials, whoever sends it: handle_login formats the   *)
(* fields of the user authenticate did not find.  Credentials are the user *)
(* they are known for, or Nobody.                                          *)
(***************************************************************************)
EXTENDS Integers

CONSTANT Users  \* names in the users table of authenticate

Nobody == "nobody"    \* credentials that are unknown, or none

ASSUME SessionAssumption ==
  "" \notin Users /\ Nobody \notin Users

Slots == {"change", "click"}  \* the two ways the form is submitted

VARIABLES
  alive,     \* the server's process runs
  cookie,    \* whose access_token the browser holds, "" without one
  loading,   \* state of App: a blank page
  user,      \* state of App: the user shown, "" or null for the login form
  start,     \* credentials of the first api/login on its way, "" if none is
  form,      \* form[s]: those of a login form submitted by s, "" if none is
  leaving    \* a logout is on its way

browserVars == <<loading, user>>
sentVars == <<start, form, leaving>>
sessionVars == <<alive, cookie, browserVars, sentVars>>

SessionTypeOK ==
  /\ alive \in BOOLEAN
  /\ cookie \in Users \cup {""}
  /\ loading \in BOOLEAN
  /\ user \in Users \cup {""}
  /\ start \in Users \cup {"", Nobody}
  /\ form \in [Slots -> Users \cup {"", Nobody}]
  /\ leaving \in BOOLEAN

\* What authenticate makes of the cookie of a request.
Token == IF cookie = "" THEN Nobody ELSE cookie

SessionInit ==
  /\ alive = TRUE
  /\ cookie \in Users \cup {""}
  /\ loading = TRUE
  /\ user = ""
  /\ start = Token
  /\ form = [s \in Slots |-> ""]
  /\ leaving = FALSE

-----------------------------------------------------------------------------
(* The browser                                                             *)

\* The page is loaded again; nothing of the one before is waited for.
Visit ==
  /\ loading' = TRUE
  /\ user' = ""
  /\ start' = Token
  /\ form' = [s \in Slots |-> ""]
  /\ leaving' = FALSE
  /\ UNCHANGED <<alive, cookie>>

LoginShown == ~loading /\ user = ""

\* The password field has changed (s = "change") or the button is clicked;
\* who has typed a password does both, and sends it twice.  At most one request
\* of each kind is on its way: a bound.
Submit(s, who) ==
  /\ LoginShown
  /\ form[s] = ""
  /\ form' = [form EXCEPT ![s] = who]
  /\ UNCHANGED <<alive, cookie, browserVars, start, leaving>>

Logout ==
  /\ user # ""
  /\ ~leaving
  /\ leaving' = TRUE
  /\ UNCHANGED <<alive, cookie, browserVars, start, form>>

\* After a day.
CookieExpires ==
  /\ cookie # ""
  /\ cookie' = ""
  /\ UNCHANGED <<alive, browserVars, sentVars>>

-----------------------------------------------------------------------------
(* The server, and the network                                             *)

\* The answer of handle_login, and what login makes of it.
SignIn(who) ==
  /\ cookie' = who
  /\ user' = who
  /\ loading' = FALSE

AnswerStart ==
  /\ alive
  /\ start \in Users
  /\ SignIn(start)
  /\ start' = ""
  /\ UNCHANGED <<alive, form, leaving>>

\* Mutant of AnswerForm: a cookie is sent for any credentials.
AnswerFormAnyone(s) ==
  /\ alive
  /\ form[s] # ""
  /\ SignIn(form[s])
  /\ form' = [form EXCEPT ![s] = ""]
  /\ UNCHANGED <<alive, start, leaving>>

AnswerForm(s) ==
  /\ alive
  /\ form[s] \in Users
  /\ SignIn(form[s])
  /\ form' = [form EXCEPT ![s] = ""]
  /\ UNCHANGED <<alive, start, leaving>>

AnswerLogout ==
  /\ alive
  /\ leaving
  /\ leaving' = FALSE
  /\ cookie' = ""
  /\ user' = ""
  /\ UNCHANGED <<alive, loading, start, form>>

\* handle_login without a user.
CrashStart ==
  /\ alive
  /\ start = Nobody
  /\ alive' = FALSE
  /\ start' = ""
  /\ UNCHANGED <<cookie, browserVars, form, leaving>>

CrashForm(s) ==
  /\ alive
  /\ form[s] = Nobody
  /\ alive' = FALSE
  /\ form' = [form EXCEPT ![s] = ""]
  /\ UNCHANGED <<cookie, browserVars, start, leaving>>

\* Another browser's.
CrashElsewhere ==
  /\ alive
  /\ alive' = FALSE
  /\ UNCHANGED <<cookie, browserVars, sentVars>>

\* A request fails: login is not called, loading stays as it is.
LoseStart ==
  /\ start # ""
  /\ start' = ""
  /\ UNCHANGED <<alive, cookie, browserVars, form, leaving>>

LoseForm(s) ==
  /\ form[s] # ""
  /\ form' = [form EXCEPT ![s] = ""]
  /\ UNCHANGED <<alive, cookie, browserVars, start, leaving>>

LoseLogout ==
  /\ leaving
  /\ leaving' = FALSE
  /\ UNCHANGED <<alive, cookie, browserVars, start, form>>

\* start_meter.sh, later than any browser notices that it is not connected.
Restart ==
  /\ ~alive
  /\ start = "" /\ ~leaving /\ \A s \in Slots : form[s] = ""
  /\ alive' = TRUE
  /\ UNCHANGED <<cookie, browserVars, sentVars>>

Crash == CrashStart \/ CrashElsewhere \/ \E s \in Slots : CrashForm(s)

SessionNext ==
  \/ Visit \/ Logout \/ CookieExpires
  \/ \E s \in Slots :
       \/ \E who \in Users \cup {Nobody} : Submit(s, who)
       \/ AnswerForm(s) \/ LoseForm(s)
  \/ AnswerStart \/ AnswerLogout \/ LoseStart \/ LoseLogout
  \/ Crash \/ Restart

SessionSpec == SessionInit /\ [][SessionNext]_sessionVars
=============================================================================
