------------------------------ MODULE Settings ------------------------------
(***************************************************************************)
(* The gateway's settings: the structure in memory, the file cfg.bin, the  *)
(* web handler that changes one and saves it (handle_settings_set of       *)
(* net.c, appl_cfg_save), the start that reads the file and hands copies   *)
(* to the cloud uploader and to the data recorder (appl_start,             *)
(* appl_cfg_read), and the kill -9 and restart of start_meter.sh.          *)
(*                                                                         *)
(* The file is 64 KB with all settings in its first page: what is on disk  *)
(* after an interrupted save is empty, a prefix that holds the settings,   *)
(* or the full file.  The checksum covers only bErr and always fits a full *)
(* file this program wrote.  A setting's value is abstracted to "zero" (of *)
(* a structure never filled), the "default" of appl_start, or one chosen.  *)
(***************************************************************************)
EXTENDS Integers, FiniteSets

CONSTANTS Fields,      \* the settings looked at; "days" is DataKeepDay
          HasDefault,  \* those appl_start has a default for
          Chosen,      \* the values an operator may choose
          MaxFds       \* bound: files the process can hold open for cfg.bin

ASSUME SettingsAssumption ==
  /\ "none" \notin Fields
  /\ HasDefault \subseteq Fields
  /\ "days" \in HasDefault
  /\ Chosen \cap {"zero", "default", "thirty", "none"} = {}
  /\ MaxFds \in Nat \ {0}

Values == Chosen \cup {"zero", "default"}
Contents == [Fields -> Values]
Zeros == [f \in Fields |-> "zero"]

VARIABLES
  up,        \* the process: "down", in "appl_start" or "up", serving the web
  mem,       \* APPL.Set.s
  bErr,      \* APPL.Set.s.bErr, with the text of szState
  KeepDay,   \* APPL.Snap.KeepDay, what the data recorder goes by
  started,   \* was the cloud uploader started?
  saving,    \* the setting whose save has truncated the file, or "none"
  length,    \* how much of the file there is
  file,      \* the settings in the file
  fds,       \* handles of cfg.bin the process has not closed
  promised,  \* promised[f]: the value the last command for f was answered
             \* with Success for, "none" while it is served or has failed
  reverted,  \* the promised settings that a start has not got back
  cut        \* was a save ever killed, or did one fall short?

runVars == <<up, mem, bErr, KeepDay, started, saving, fds>>
diskVars == <<length, file>>
ackVars == <<promised, reverted, cut>>
vars == <<runVars, diskVars, ackVars>>

TypeOK ==
  /\ up \in {"down", "appl_start", "up"}
  /\ mem \in Contents
  /\ bErr \in BOOLEAN
  /\ KeepDay \in Values \cup {"thirty"}
  /\ started \in BOOLEAN
  /\ saving \in Fields \cup {"none"}
  /\ length \in {"absent", "empty", "prefix", "full"}
  /\ file \in Contents
  /\ fds \in 0..MaxFds
  /\ promised \in [Fields -> Chosen \cup {"none"}]
  /\ reverted \subseteq Fields
  /\ cut \in BOOLEAN

\* The program is installed with a file of its own or without one.
Init ==
  /\ up = "down"
  /\ mem = Zeros
  /\ bErr = FALSE
  /\ KeepDay = "zero"
  /\ started = FALSE
  /\ saving = "none"
  /\ length \in {"absent", "full"}
  /\ file \in [Fields -> Chosen]
  /\ fds = 0
  /\ promised = [f \in Fields |-> "none"]
  /\ reverted = {}
  /\ cut = FALSE

\* The promised settings a start on a cut file does not get back: those that
\* get a default, and all of them when nothing is left of the file.
NotGotBack ==
  {f \in Fields : promised[f] # "none" /\ (f \in HasDefault \/ length # "prefix")}

-----------------------------------------------------------------------------
(* appl_start                                                              *)

\* appl_cfg_read succeeds: the uploader gets its copies and is started.
StartRead ==
  /\ up = "down"
  /\ length = "full"
  /\ up' = "appl_start"
  /\ mem' = file
  /\ bErr' = FALSE
  /\ started' = TRUE
  /\ fds' = 1
  /\ UNCHANGED <<KeepDay, saving, diskVars, ackVars>>

\* Mutant of StartDefault: the days are left to the recorder's own default.
StartDefaultButDays ==
  /\ up = "down"
  /\ length # "full"
  /\ up' = "appl_start"
  /\ mem' = [f \in Fields |->
               IF f \in HasDefault \ {"days"} THEN "default"
               ELSE IF length = "prefix" THEN file[f] ELSE "zero"]
  /\ bErr' = TRUE
  /\ KeepDay' = "thirty"
  /\ fds' = IF length = "absent" THEN 0 ELSE 1
  /\ reverted' = reverted \cup NotGotBack
  /\ UNCHANGED <<started, saving, diskVars, promised, cut>>

\* It fails: what fread got of the file stays, some settings get a default,
\* so does KeepDay, and the uploader is not started.
StartDefault ==
  /\ up = "down"
  /\ length # "full"
  /\ up' = "appl_start"
  /\ mem' = [f \in Fields |->
               IF f \in HasDefault THEN "default"
               ELSE IF length = "prefix" THEN file[f] ELSE "zero"]
  /\ bErr' = TRUE
  /\ KeepDay' = "thirty"
  /\ fds' = IF length = "absent" THEN 0 ELSE 1
  /\ reverted' = reverted \cup NotGotBack
  /\ UNCHANGED <<started, saving, diskVars, promised, cut>>

\* The end of appl_start: KeepDay becomes DataKeepDay and main goes on to
\* serve the web.
StartSnap ==
  /\ up = "appl_start"
  /\ up' = "up"
  /\ KeepDay' = mem["days"]
  /\ UNCHANGED <<mem, bErr, started, saving, fds, diskVars, ackVars>>

-----------------------------------------------------------------------------
(* handle_settings_set; the web thread serves one request at a time        *)

\* Mutant of Set: the process may open one file too many.
SetBeyondLimit(f, v) ==
  /\ up = "up"
  /\ saving = "none"
  /\ fds <= MaxFds
  /\ mem' = [mem EXCEPT ![f] = v]
  /\ saving' = f
  /\ length' = "empty"
  /\ fds' = fds + 1
  /\ promised' = [promised EXCEPT ![f] = "none"]
  /\ reverted' = reverted \ {f}
  /\ UNCHANGED <<up, bErr, KeepDay, started, file, cut>>

\* A value that is missing or unreadable changes nothing: no action.  A value
\* is stored in memory first; then fopen truncates the file ...
Set(f, v) ==
  /\ up = "up"
  /\ saving = "none"
  /\ fds < MaxFds
  /\ mem' = [mem EXCEPT ![f] = v]
  /\ saving' = f
  /\ length' = "empty"
  /\ fds' = fds + 1
  /\ promised' = [promised EXCEPT ![f] = "none"]
  /\ reverted' = reverted \ {f}
  /\ UNCHANGED <<up, bErr, KeepDay, started, file, cut>>

\* Mutant of SetNotOpened: the failure goes unreported.
SetNotOpenedYetSuccess(f, v) ==
  /\ up = "up"
  /\ saving = "none"
  /\ mem' = [mem EXCEPT ![f] = v]
  /\ promised' = [promised EXCEPT ![f] = v]
  /\ reverted' = reverted \ {f}
  /\ UNCHANGED <<up, bErr, KeepDay, started, saving, fds, diskVars, cut>>

\* ... or fails, for want of a handle or of permission, and leaves it alone.
SetNotOpened(f, v) ==
  /\ up = "up"
  /\ saving = "none"
  /\ mem' = [mem EXCEPT ![f] = v]
  /\ bErr' = TRUE
  /\ promised' = [promised EXCEPT ![f] = "none"]
  /\ reverted' = reverted \ {f}
  /\ UNCHANGED <<up, KeepDay, started, saving, fds, diskVars, cut>>

\* Mutant of SaveOk: success takes the fault back.
SaveOkClearsErr ==
  /\ up = "up"
  /\ saving # "none"
  /\ length' = "full"
  /\ file' = mem
  /\ bErr' = FALSE
  /\ promised' = [promised EXCEPT ![saving] = mem[saving]]
  /\ saving' = "none"
  /\ UNCHANGED <<up, mem, KeepDay, started, fds, reverted, cut>>

\* fwrite writes it all; the handle is never closed.
SaveOk ==
  /\ up = "up"
  /\ saving # "none"
  /\ length' = "full"
  /\ file' = mem
  /\ promised' = [promised EXCEPT ![saving] = mem[saving]]
  /\ saving' = "none"
  /\ UNCHANGED <<up, mem, bErr, KeepDay, started, fds, reverted, cut>>

\* fwrite stops short: the disk is full.
SaveShort ==
  /\ up = "up"
  /\ saving # "none"
  /\ length' \in {"empty", "prefix"}
  /\ file' = mem
  /\ bErr' = TRUE
  /\ saving' = "none"
  /\ cut' = TRUE
  /\ UNCHANGED <<up, mem, KeepDay, started, fds, promised, reverted>>

\* kill -9, at any point of a save.
Kill ==
  /\ up # "down"
  /\ up' = "down"
  /\ mem' = Zeros
  /\ bErr' = FALSE
  /\ KeepDay' = "zero"
  /\ started' = FALSE
  /\ fds' = 0
  /\ saving' = "none"
  /\ IF saving = "none"
     THEN UNCHANGED diskVars
     ELSE length' \in {"empty", "prefix"} /\ file' = mem
  /\ cut' = (cut \/ saving # "none")
  /\ UNCHANGED <<promised, reverted>>

Next ==
  \/ StartRead \/ StartDefault \/ StartSnap
  \/ \E f \in Fields, v \in Chosen : Set(f, v) \/ SetNotOpened(f, v)
  \/ SaveOk \/ SaveShort \/ Kill

Spec == Init /\ [][Next]_vars

-----------------------------------------------------------------------------
(* Properties                                                              *)

\* A setting answered with Success is the one in use and, wherever the file
\* is full, the one in the file, over saves of other settings, failed ones
\* included, and restarts.  It is lost only by a start on a file that a killed
\* or short save of some setting has left cut; one that appl_start has no
\* default for survives that too, if the cut is behind the settings.
AckedSurvives ==
  /\ \A f \in Fields :
       promised[f] # "none" /\ f \notin reverted =>
         /\ up # "down" => mem[f] = promised[f]
         /\ length = "full" => file[f] = promised[f]
  /\ reverted # {} => cut

\* A DataKeepDay of zero makes the recorder delete all but today's data.  It
\* never comes from a missing, cut or half-saved file, nor is one saved.  (An
\* operator who asks for zero gets it, net.c:308-313: Chosen leaves that out.)
NeverKeepZero ==
  /\ up # "down" => mem["days"] # "zero"
  /\ up = "up" => KeepDay # "zero"
  /\ length = "full" => file["days"] # "zero"

\* A gateway that does not upload because its settings could not be read says
\* so, however many settings are saved after that.
NoCloudIsShown ==
  (up # "down" /\ ~started) => bErr
=============================================================================
