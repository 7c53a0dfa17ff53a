----------------------------- MODULE Dashboard -----------------------------
(***************************************************************************)
(* The dashboard in one browser: App of main.js decides from the session   *)
(* and the address which page its Router shows, and a page that is shown   *)
(* asks the server what it shows.  The firmware page is in                 *)
(* FirmwareUpload.tla; here nothing is left of it but the place.           *)
(***************************************************************************)
EXTENDS Session, EventsPage, SettingsPage

Routes == {"/", "/settings", "/update", "/events"}

VARIABLES
  route,   \* the hash the Router goes by, which the Sidebar's links set
  stats    \* Main: "off", "asked", "blank" or "shown"

vars == <<sessionVars, eventsVars, settingsPageVars, route, stats>>

TypeOK ==
  /\ SessionTypeOK
  /\ EventsTypeOK
  /\ SettingsPageTypeOK
  /\ route \in Routes
  /\ stats \in {"off", "asked", "blank", "shown"}

\* The page on the screen, "" while App shows none.
Shown == IF loading \/ user = "" THEN "" ELSE route

Init ==
  /\ SessionInit
  /\ EventsInit
  /\ SettingsPageInit
  /\ route \in Routes
  /\ stats = "off"

-----------------------------------------------------------------------------
(* Which page is shown                                                     *)

MountMain == stats' = "asked"
UnmountMain == stats' = "off"

\* A page is mounted when it comes to be shown, unmounted when it is not shown
\* any more, and left alone otherwise.
Turn(name, Mount, Unmount, v) ==
  IF (Shown = name) = (Shown' = name) THEN UNCHANGED v
  ELSE IF Shown' = name THEN Mount
  ELSE Unmount

Turns ==
  /\ Turn("/", MountMain, UnmountMain, stats)
  /\ Turn("/events", MountEvents, UnmountEvents, eventsVars)
  /\ Turn("/settings", MountSettings, UnmountSettings, settingsPageVars)

\* Nothing is on its way to the server.
NoRequests ==
  /\ latest = None /\ overdue = NoneOverdue
  /\ ~getting /\ saving = "none"
  /\ stats # "asked"

\* A step of the session.  The process starts again later than any browser
\* notices that its requests have failed.
SessionStep ==
  /\ SessionNext
  /\ ~alive /\ alive' => NoRequests
  /\ UNCHANGED route
  /\ Turns

\* A link of the Sidebar, or the address bar.
Navigate(r) ==
  /\ r # route
  /\ route' = r
  /\ UNCHANGED sessionVars
  /\ Turns

-----------------------------------------------------------------------------
(* Steps of the page shown: an answer takes a server that is alive.        *)

AnswerStats ==
  /\ alive
  /\ stats = "asked"
  /\ stats' = "shown"
  /\ UNCHANGED <<sessionVars, eventsVars, settingsPageVars, route>>

\* Main stays blank.
LoseStats ==
  /\ stats = "asked"
  /\ stats' = "blank"
  /\ UNCHANGED <<sessionVars, eventsVars, settingsPageVars, route>>

EventsStep ==
  /\ \/ EventsEffects
     \/ alive /\ EventsAnswer
     \/ EventsLose
     \/ \E p \in Clickable(page) : Click(p)
  /\ UNCHANGED <<sessionVars, settingsPageVars, route, stats>>

SettingsRequests ==
  /\ (alive /\ SettingsPageAnswer) \/ SettingsPageLose
  /\ UNCHANGED <<sessionVars, eventsVars, route, stats>>

SettingsTimers ==
  /\ AutoClose \/ Closed
  /\ UNCHANGED <<sessionVars, eventsVars, route, stats>>

SettingsClicks ==
  /\ Save \/ ClickClose \/ \E k \in Keys : Edit(k)
  /\ UNCHANGED <<sessionVars, eventsVars, route, stats>>

Next ==
  \/ SessionStep
  \/ \E r \in Routes : Navigate(r)
  \/ AnswerStats \/ LoseStats
  \/ EventsStep
  \/ SettingsRequests \/ SettingsTimers \/ SettingsClicks

Spec == Init /\ [][Next]_vars

\* A request ends in an answer or in an error, and a browser runs its timers.
FairSpec ==
  Spec /\ WF_vars(SettingsRequests) /\ WF_vars(SettingsTimers)

\* What that says with the conditions put in under which there is a request to
\* be ended and a timer to run.
RequestsEnd ==
  []<>(~getting /\ saving = "none") \/ []<><<SettingsRequests>>_vars
TimersRun == []<>(~auto /\ closes = 0) \/ []<><<SettingsTimers>>_vars

-----------------------------------------------------------------------------
(* Properties                                                              *)

\* A page is there exactly while the Router shows it, whatever order sessions,
\* links and answers come in; of one that is not, no request, timer or edit is
\* left that could act on the next.
OnlyShownMounted ==
  /\ stats # "off" <=> Shown = "/"
  /\ phase # "off" <=> Shown = "/events"
  /\ view # "off" <=> Shown = "/settings"
  /\ phase = "off" => latest = None /\ overdue = NoneOverdue /\ table = {}
  /\ view = "off" =>
       ~getting /\ saving = "none" /\ edits = {} /\ toast = "" /\ ~auto /\ closes = 0

\* Whoever is shown as signed in is who the next request is sent for, unless
\* the cookie has expired: sign-ins and sign-outs in any order, answered twice
\* or lost, do not part the two.
ShownIsSent == user # "" => ~loading /\ cookie \in {"", user}
=============================================================================
