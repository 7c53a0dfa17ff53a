---------------------------- MODULE SettingsPage ----------------------------
(***************************************************************************)
(* The settings form: Settings of main.js with the inputs, the Button and  *)
(* the Notification of components.js, and what handle_settings_get and     *)
(* handle_settings_set of net.c answer it.                                 *)
(*                                                                         *)
(* The form edits four settings of mongoose's example.  The gateway's      *)
(* settings have other names and its commands another form, so an answer   *)
(* never holds any of the four: what is in them is what was edited since.  *)
(* How long timers take is left out, except that the click that closes a   *)
(* notification comes before what it closes.                               *)
(***************************************************************************)
EXTENDS Integers

CONSTANT MaxCloses    \* bound: no clicks on Close with more timers running

ASSUME SettingsPageAssumption == MaxCloses \in Nat

Keys == {"log_enabled", "log_level", "brightness", "device_name"}

VARIABLES
  view,      \* "off", "blank" (settings are null) or "form"
  getting,   \* the request of the first effect is on its way
  edits,     \* the keys changed since settings were received
  enabled,   \* settings.log_enabled
  saving,    \* the promise the Save button waits for: "none", "post", "get"
  toast,     \* saveResult, as the Notification shows it; "" for null
  auto,      \* the Notification's timer that clicks on its Close button
  closes     \* timers that will set saveResult to null

formVars == <<edits, enabled>>
toastVars == <<toast, auto, closes>>
settingsPageVars == <<view, getting, formVars, saving, toastVars>>

SettingsPageTypeOK ==
  /\ view \in {"off", "blank", "form"}
  /\ getting \in BOOLEAN
  /\ edits \in SUBSET Keys
  /\ enabled \in BOOLEAN
  /\ saving \in {"none", "post", "get"}
  /\ toast \in {"", "Success", "Failed"}
  /\ auto \in BOOLEAN
  /\ closes \in Nat

NoToast == toast' = "" /\ auto' = FALSE /\ closes' = 0
Received == edits' = {} /\ enabled' = FALSE

SettingsPageInit ==
  /\ view = "off"
  /\ getting = FALSE
  /\ edits = {}
  /\ enabled = FALSE
  /\ saving = "none"
  /\ toast = ""
  /\ auto = FALSE
  /\ closes = 0

MountSettings ==
  /\ view = "off"
  /\ view' = "blank"
  /\ getting' = TRUE
  /\ UNCHANGED <<formVars, saving, toastVars>>

\* Timers that still run have nothing left to act on.
UnmountSettings ==
  /\ view # "off"
  /\ view' = "off"
  /\ getting' = FALSE
  /\ Received
  /\ saving' = "none"
  /\ NoToast

-----------------------------------------------------------------------------
(* The form                                                                *)

\* Mutant of AnswerGet: the form is refreshed over and over.
AnswerGetAgain ==
  /\ getting
  /\ view' = "form"
  /\ Received
  /\ UNCHANGED <<getting, saving, toastVars>>

AnswerGet ==
  /\ getting
  /\ getting' = FALSE
  /\ view' = "form"
  /\ Received
  /\ UNCHANGED <<saving, toastVars>>

\* The page stays blank.
LoseGet ==
  /\ getting
  /\ getting' = FALSE
  /\ UNCHANGED <<view, formVars, saving, toastVars>>

\* An input's onchange, or a click on the switch.  The log level can be
\* selected while logs are enabled.
Edit(k) ==
  /\ view = "form"
  /\ k = "log_level" => enabled
  /\ edits' = edits \cup {k}
  /\ enabled' = IF k = "log_enabled" THEN ~enabled ELSE enabled
  /\ UNCHANGED <<view, getting, saving, toastVars>>

-----------------------------------------------------------------------------
(* Saving                                                                  *)

\* The button is disabled while it waits.
Save ==
  /\ view = "form"
  /\ saving = "none"
  /\ saving' = "post"
  /\ UNCHANGED <<view, getting, formVars, toastVars>>

\* handle_settings_set: without a cmd nothing is stored.
Result == "Failed"

\* setSaveResult, then refresh.  A Notification on the screen takes the new
\* text; one that appears starts its timer.
AnswerPost ==
  /\ saving = "post"
  /\ saving' = "get"
  /\ toast' = Result
  /\ auto' = (auto \/ toast = "")
  /\ UNCHANGED <<view, getting, formVars, closes>>

\* Mutant of LosePost: a failed request leaves the button as it is.
LosePostWaits ==
  /\ saving = "post"
  /\ UNCHANGED settingsPageVars

\* cb of Button catches it.
LosePost ==
  /\ saving = "post"
  /\ saving' = "none"
  /\ UNCHANGED <<view, getting, formVars, toastVars>>

\* What was edited, before or after the click, is replaced.
AnswerRefresh ==
  /\ saving = "get"
  /\ saving' = "none"
  /\ Received
  /\ UNCHANGED <<view, getting, toastVars>>

LoseRefresh ==
  /\ saving = "get"
  /\ saving' = "none"
  /\ UNCHANGED <<view, getting, formVars, toastVars>>

-----------------------------------------------------------------------------
(* The Notification                                                        *)

\* Its timer clicks on its Close button.
AutoClose ==
  /\ auto
  /\ auto' = FALSE
  /\ closes' = closes + 1
  /\ UNCHANGED <<view, getting, formVars, saving, toast>>

ClickClose ==
  /\ toast # ""
  /\ closes <= MaxCloses
  /\ closes' = closes + 1
  /\ UNCHANGED <<view, getting, formVars, saving, toast, auto>>

\* setSaveResult(null), whichever Notification is shown by now.  The timer of
\* one that is gone finds no button.
Closed ==
  /\ closes > 0
  /\ closes' = closes - 1
  /\ toast' = ""
  /\ auto' = FALSE
  /\ UNCHANGED <<view, getting, formVars, saving>>

SettingsPageAnswer == AnswerGet \/ AnswerPost \/ AnswerRefresh
SettingsPageLose == LoseGet \/ LosePost \/ LoseRefresh

SettingsPageNext ==
  \/ MountSettings \/ UnmountSettings
  \/ SettingsPageAnswer \/ SettingsPageLose
  \/ \E k \in Keys : Edit(k)
  \/ Save \/ AutoClose \/ ClickClose \/ Closed

SettingsPageSpec == SettingsPageInit /\ [][SettingsPageNext]_settingsPageVars

-----------------------------------------------------------------------------
(* Properties                                                              *)

\* While the page is open, what has been edited stays until a save has been
\* answered: no answer that comes late replaces it.
EditsKept ==
  [][edits \subseteq edits' \/ saving = "get" \/ view' = "off"]_settingsPageVars

\* A notification on the screen has a timer that will take it away, also when
\* the one that was started for it has been used up by a click.
ToastHasTimer == toast # "" => auto \/ closes > 0

\* A save comes to rest whatever becomes of its requests and however often the
\* notification is clicked on: the button can be used again, and the
\* notification goes.
SaveComesToRest ==
  /\ saving # "none" ~> saving = "none"
  /\ toast # "" ~> toast = ""
=============================================================================
