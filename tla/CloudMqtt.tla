----------------------------- MODULE CloudMqtt -----------------------------
(***************************************************************************)
(* The cloud uploader of the meter gateway: thread thrd_mqtt_2 and its     *)
(* event handler fn_mqtt2 (appl.c), the connection of the mongoose library *)
(* they drive (mongoose.c), the broker and the network at its other end,   *)
(* the workers that judge the meters and the web client that asks for a    *)
(* registration or changes the upload interval.                            *)
(*                                                                         *)
(* The thread is a loop: poll the connection, look at the command, upload  *)
(* when the interval has passed, connect again if the connection is gone.  *)
(* Inside mg_mgr_poll nobody else looks at what it changes, so a poll is   *)
(* one step; everything the thread shares is read in steps of its own.     *)
(* The bytes of a message are left out, its kind is kept while it waits in *)
(* the connection's send buffer.  The counters only feed a web page.       *)
(***************************************************************************)
EXTENDS Integers, FiniteSets

CONSTANT Gate    \* the number of the gate meter, uploaded last (5 in the code)

ASSUME CloudAssumption == Gate \in Nat \ {0}

Meters == 1..Gate
Kinds == {"CONNECT", "SUBSCRIBE", "REGISTER", "sample"}

VARIABLES
  pc,          \* where the thread is in its loop
  i,           \* the meter whose upload is next, 0 outside the upload
  url,         \* szs_url, copied from the settings at the start
  link,        \* s_conn: NULL ("none") or the state of what it points to
  open,        \* connections on the list of mgr_mqtt2
  unsent,      \* kinds of messages in the send buffer of s_conn
  bConnected,  \* m->bConnected
  Cmd,         \* m->Cmd
  age,         \* mg_millis() - LastFastUpload: "fresh" does not exceed the
               \* interval, "due" does, "old" exceeds every int
  negative,    \* is set->UploadHighSpeed negative?
  CommState,   \* me->CommState
  verdict      \* verdict[m]: what m's channel worker last wrote to CommState

connVars == <<link, open, unsent, bConnected>>
webVars == <<Cmd, negative>>
meterVars == <<CommState, verdict>>
vars == <<pc, i, url, connVars, webVars, age, meterVars>>

Ages == {"fresh", "due", "old"}
Links == {"none", "connecting", "login", "up", "closing"}

TypeOK ==
  /\ pc \in {"poll", "cmd", "timer", "upload", "hide", "connect", "dead"}
  /\ i \in 0..Gate
  /\ url \in {"set", "empty"}
  /\ link \in Links
  /\ open \in Nat
  /\ unsent \in SUBSET Kinds
  /\ bConnected \in BOOLEAN
  /\ Cmd \in {"DONE", "REGISTER"}
  /\ age \in Ages
  /\ negative \in BOOLEAN
  /\ CommState \in [Meters -> {"ERR", "NORM"}]
  /\ verdict \in [Meters -> {"ERR", "NORM"}]

\* appl_start; the thread begins with the connect that also ends its loop.
Init ==
  /\ pc = "connect"
  /\ i = 0
  /\ url \in {"set", "empty"}
  /\ link = "none"
  /\ open = 0
  /\ unsent = {}
  /\ bConnected = FALSE
  /\ Cmd = "DONE"
  /\ age \in Ages
  /\ negative \in BOOLEAN
  /\ CommState = [m \in Meters |-> "ERR"]
  /\ verdict = [m \in Meters |-> "ERR"]

-----------------------------------------------------------------------------
(* mg_mgr_poll                                                             *)

Polled ==
  /\ pc = "poll"
  /\ pc' = "cmd"
  /\ UNCHANGED <<i, url, webVars, age, meterVars>>

\* write_conn empties the send buffer of a connection, or leaves it waiting.
Written == unsent' \in {{}, unsent}

\* Nothing arrives (a message for the program only counts in TotalRecv).
PollQuiet ==
  /\ Polled
  /\ link # "closing"
  /\ IF link \in {"login", "up"} THEN Written ELSE UNCHANGED unsent
  /\ UNCHANGED <<link, open, bConnected>>

\* connect_conn: the TCP connection stands.
PollConnected ==
  /\ Polled
  /\ link = "connecting"
  /\ link' = "login"
  /\ UNCHANGED <<open, unsent, bConnected>>

\* MG_EV_MQTT_OPEN with code 0: note it and subscribe.
PollAccepted ==
  /\ Polled
  /\ link = "login"
  /\ "CONNECT" \notin unsent
  /\ link' = "up"
  /\ bConnected' = TRUE
  /\ unsent' \in {{}, unsent \cup {"SUBSCRIBE"}}
  /\ UNCHANGED open

\* Mutant of PollLost: the close handler leaves bConnected as it was.
PollLostStillConnected ==
  /\ Polled
  /\ link # "none"
  /\ link' = "none"
  /\ open' = open - 1
  /\ unsent' = {}
  /\ UNCHANGED bConnected

\* The connect fails, the peer closes, a read or a write fails: the poll that
\* notices also closes the connection, with all its buffer still holds.
PollLost ==
  /\ Polled
  /\ link # "none"
  /\ link' = "none"
  /\ open' = open - 1
  /\ unsent' = {}
  /\ bConnected' = FALSE

\* Mutant of PollRefused: the connection is kept.
PollRefusedKept ==
  /\ Polled
  /\ link = "login"
  /\ "CONNECT" \notin unsent
  /\ bConnected' = TRUE
  /\ UNCHANGED <<link, open, unsent>>

\* MG_EV_MQTT_OPEN with another code: the handler notes it all the same, but
\* mqtt_cb marks the connection and this poll closes it.
PollRefused ==
  /\ Polled
  /\ link = "login"
  /\ "CONNECT" \notin unsent
  /\ link' = "none"
  /\ open' = open - 1
  /\ unsent' = {}
  /\ bConnected' = FALSE

-----------------------------------------------------------------------------
(* The command                                                             *)

\* Mutant of Register: only looked at while the cloud is connected.
RegisterIfConnected ==
  /\ pc = "cmd"
  /\ Cmd = "REGISTER"
  /\ Cmd' = IF bConnected THEN "DONE" ELSE Cmd
  /\ pc' = "timer"
  /\ unsent' = IF bConnected THEN unsent \cup {"REGISTER"} ELSE unsent
  /\ UNCHANGED <<i, url, link, open, bConnected, negative, age, meterVars>>

\* CMD_MQTT_REGISTER publishes five messages on s_conn, whatever its state;
\* mg_mqtt_pub dereferences it.
Register ==
  /\ pc = "cmd"
  /\ Cmd = "REGISTER"
  /\ Cmd' = "DONE"
  /\ \/ /\ link = "none"
        /\ pc' = "dead"
        /\ UNCHANGED unsent
     \/ /\ link # "none"
        /\ pc' = "timer"
        /\ unsent' = unsent \cup {"REGISTER"}
  /\ UNCHANGED <<i, url, link, open, bConnected, negative, age, meterVars>>

NoCommand ==
  /\ pc = "cmd"
  /\ Cmd # "REGISTER"
  /\ pc' = "timer"
  /\ UNCHANGED <<i, url, connVars, webVars, age, meterVars>>

-----------------------------------------------------------------------------
(* The upload                                                              *)

\* The age of the last upload is compared with the interval as unsigned
\* numbers: a negative interval never passes.
Elapsed == age # "fresh" /\ ~negative

\* Mutant of StartUpload: s_conn is tested instead of bConnected.
StartUploadIfOpen ==
  /\ pc = "timer"
  /\ Elapsed
  /\ age' = "fresh"
  /\ \/ link # "none" /\ pc' = "upload" /\ i' = 1
     \/ link = "none" /\ pc' = "connect" /\ UNCHANGED i
  /\ UNCHANGED <<url, connVars, webVars, meterVars>>

\* The timer is stamped whether or not anything can be uploaded.
StartUpload ==
  /\ pc = "timer"
  /\ Elapsed
  /\ age' = "fresh"
  /\ \/ bConnected /\ pc' = "upload" /\ i' = 1
     \/ ~bConnected /\ pc' = "connect" /\ UNCHANGED i
  /\ UNCHANGED <<url, connVars, webVars, meterVars>>

NotYet ==
  /\ pc = "timer"
  /\ ~Elapsed
  /\ pc' = "connect"
  /\ UNCHANGED <<i, url, connVars, webVars, age, meterVars>>

\* Mutant of NextMeter: the last meter is not the last.
NextMeterOneTooFar ==
  \/ i <= Gate /\ i' = i + 1 /\ pc' = "upload"
  \/ i > Gate /\ i' = 0 /\ pc' = "connect"

\* The meters are uploaded in order, the gate meter last.
NextMeter ==
  \/ i < Gate /\ i' = i + 1 /\ pc' = "upload"
  \/ i = Gate /\ i' = 0 /\ pc' = "connect"

\* The meter is normal: publish its sample.  s_conn is not tested again.
Publish ==
  /\ pc = "upload"
  /\ CommState[i] = "NORM"
  /\ IF link = "none"
     THEN pc' = "dead" /\ UNCHANGED <<i, unsent>>
     ELSE unsent' = unsent \cup {"sample"} /\ NextMeter
  /\ UNCHANGED <<url, link, open, bConnected, webVars, age, meterVars>>

\* Mutant of Skip: a meter that is not normal ends the upload.
SkipRest ==
  /\ pc = "upload"
  /\ CommState[i] # "NORM"
  /\ i' = 0
  /\ pc' = "connect"
  /\ UNCHANGED <<url, connVars, webVars, age, meterVars>>

\* A meter that is not normal is passed over; the gate meter is next hidden.
Skip ==
  /\ pc = "upload"
  /\ CommState[i] # "NORM"
  /\ \/ i < Gate /\ NextMeter
     \/ i = Gate /\ pc' = "hide" /\ UNCHANGED i
  /\ UNCHANGED <<url, connVars, webVars, age, meterVars>>

\* Mutant of Hide: the gate meter's state is derived from the others', as the
\* code did when no gate meter was fitted.
HideUnlessOthersNormal ==
  /\ pc = "hide"
  /\ CommState' = [CommState EXCEPT ![Gate] =
       IF \A m \in Meters \ {Gate} : CommState[m] = "NORM" THEN "NORM" ELSE "ERR"]
  /\ NextMeter
  /\ UNCHANGED <<url, connVars, webVars, age, verdict>>

\* The else branch of the gate meter writes ERR over whatever the channel's
\* worker has written since the test.
Hide ==
  /\ pc = "hide"
  /\ CommState' = [CommState EXCEPT ![Gate] = "ERR"]
  /\ NextMeter
  /\ UNCHANGED <<url, connVars, webVars, age, verdict>>

-----------------------------------------------------------------------------
(* Connecting again                                                        *)

\* Mutant of Connect: without the test for NULL.
ConnectAlways ==
  /\ pc = "connect"
  /\ pc' = "poll"
  /\ url = "set"
  /\ link' \in {"connecting", "login", "closing"}
  /\ open' = open + 1
  /\ unsent' = {"CONNECT"}
  /\ UNCHANGED <<i, url, bConnected, webVars, age, meterVars>>

\* Mutant of Connect: tried again only when an upload is due.
ConnectWhenDue ==
  /\ pc = "connect"
  /\ pc' = "poll"
  /\ link = "none" /\ url = "set"
  /\ IF age # "fresh"
     THEN /\ link' \in {"connecting", "login", "closing"}
          /\ open' = open + 1
          /\ unsent' = {"CONNECT"}
     ELSE UNCHANGED <<link, open, unsent>>
  /\ UNCHANGED <<i, url, bConnected, webVars, age, meterVars>>

\* mg_mqtt_connect: the connection is made, with the CONNECT in its buffer,
\* even when connect() fails at once; then the next poll closes it.
Connect ==
  /\ pc = "connect"
  /\ pc' = "poll"
  /\ link = "none" /\ url = "set"
  /\ link' \in {"connecting", "login", "closing"}
  /\ open' = open + 1
  /\ unsent' = {"CONNECT"}
  /\ UNCHANGED <<i, url, bConnected, webVars, age, meterVars>>

\* s_conn is there, or mg_mqtt_connect returns NULL for want of a url.
NoConnect ==
  /\ pc = "connect"
  /\ pc' = "poll"
  /\ link # "none" \/ url = "empty"
  /\ UNCHANGED <<i, url, connVars, webVars, age, meterVars>>

Poll ==
  \/ PollQuiet \/ PollConnected \/ PollAccepted \/ PollRefused \/ PollLost
Thread ==
  \/ Poll \/ Register \/ NoCommand
  \/ StartUpload \/ NotYet \/ Publish \/ Skip \/ Hide
  \/ Connect \/ NoConnect

-----------------------------------------------------------------------------
(* The rest of the process, while it lives, and the operator               *)

\* SETTINGS_CMD_REGISTER of handle_settings_set.
AskRegister ==
  /\ pc # "dead"
  /\ Cmd' = "REGISTER"
  /\ UNCHANGED <<pc, i, url, connVars, negative, age, meterVars>>

\* SETTINGS_CMD_SET_UPLOADHIHGSPEED takes any number but -1.  The next test is
\* made with it: what was due may be so no longer, and the other way round.
SetInterval ==
  /\ pc # "dead"
  /\ negative' \in BOOLEAN
  /\ age' \in IF age = "old" THEN {"old"} ELSE {"fresh", "due"}
  /\ UNCHANGED <<pc, i, url, connVars, Cmd, meterVars>>

\* The interval passes.
Tick ==
  /\ pc # "dead"
  /\ age = "fresh"
  /\ age' = "due"
  /\ UNCHANGED <<pc, i, url, connVars, webVars, meterVars>>

\* Every interval passes that may be set.
TickLong ==
  /\ pc # "dead"
  /\ age # "old"
  /\ age' = "old"
  /\ UNCHANGED <<pc, i, url, connVars, webVars, meterVars>>

\* The worker of m's channel writes m's CommState.
Judge(m) ==
  /\ pc # "dead"
  /\ \E v \in {"ERR", "NORM"} :
       /\ CommState' = [CommState EXCEPT ![m] = v]
       /\ verdict' = [verdict EXCEPT ![m] = v]
  /\ UNCHANGED <<pc, i, url, connVars, webVars, age>>

\* start_meter.sh, after the process has died.
Restart ==
  /\ pc = "dead"
  /\ pc' = "connect"
  /\ i' = 0
  /\ link' = "none"
  /\ open' = 0
  /\ unsent' = {}
  /\ bConnected' = FALSE
  /\ Cmd' = "DONE"
  /\ age' \in Ages
  /\ CommState' = [m \in Meters |-> "ERR"]
  /\ verdict' = [m \in Meters |-> "ERR"]
  /\ UNCHANGED <<url, negative>>

Next ==
  \/ Thread
  \/ AskRegister \/ SetInterval \/ Tick \/ TickLong \/ Restart
  \/ \E m \in Meters : Judge(m)

Spec == Init /\ [][Next]_vars

\* The thread waits only in select with a timeout of 20 ms; time passes, and
\* since a change may withdraw an upload that was due, as often as it is made,
\* what counts is that it passes every interval.
\* Nothing is assumed of the broker, the network, the meters and the web.
FairSpec == Spec /\ WF_vars(Thread) /\ WF_vars(TickLong)

\* What these say, with the conditions under which Thread and TickLong have a
\* step to take put in: the thread whenever it is not dead, the clock until no
\* interval is longer.
ThreadRuns == []<>(pc = "dead") \/ []<><<Thread>>_vars
TickRuns == []<>(pc = "dead" \/ age = "old") \/ []<><<TickLong>>_vars

-----------------------------------------------------------------------------
(* Properties                                                              *)

\* Between polls bConnected says that s_conn points to a connection the
\* broker has accepted, although the handler also sets it on a refusal and a
\* close may come in any poll: the upload relies on it for its pointer.
FlagMeansAccepted ==
  bConnected <=> link = "up"

\* No reconnect makes a second connection and none is left behind.
OneConnection ==
  open = IF link = "none" THEN 0 ELSE 1

\* A sample is only ever put on a connection the broker has accepted; one
\* that a lost connection still held is not carried over to the next.
SamplesToAccepted ==
  "sample" \in unsent => link = "up"

\* A meter its channel's worker calls faulty is never shown as normal; only
\* the gate meter may be shown worse than its worker says.
NeverShownBetter ==
  \A m \in Meters :
    CommState[m] # verdict[m] => m = Gate /\ CommState[m] = "ERR"

\* The thread, and with it the process, dies in one way only: a registration
\* is asked for while there is no connection.  The upload never does it.
DiesOnlyRegistering ==
  [][pc' = "dead" => pc = "cmd" /\ Cmd = "REGISTER" /\ ~bConnected]_vars

\* The steps of the thread up to its next poll.
Left == [poll |-> 0, dead |-> 0, connect |-> 1, hide |-> 2,
         upload |-> 3 + Gate - i, timer |-> 3 + Gate, cmd |-> 4 + Gate][pc]

\* However many meters there are and whatever they and the web do meanwhile,
\* the thread comes back to its poll: only the poll begins another loop, and
\* nobody else makes this one longer.
LoopShrinks ==
  [][IF Thread THEN Left' < Left \/ (Poll /\ Left' = 4 + Gate)
     ELSE Left' = Left \/ Restart]_vars

\* A registration asked for is taken, in whatever state the connection is.
RegisterTaken ==
  Cmd = "REGISTER" ~> (Cmd = "DONE" \/ pc = "dead")

\* A lost or refused connection is tried again, for as long as it takes.
Reconnects ==
  (url = "set" /\ link = "none") ~> (link # "none" \/ pc = "dead")

\* While the cloud stays connected and the interval makes sense, a meter that
\* stays normal is uploaded over and over, whatever the other meters do and
\* however often the interval is changed.
KeepsUploading ==
  \A m \in Meters :
    <>[](bConnected /\ ~negative /\ CommState[m] = "NORM")
      => []<><<Publish /\ i = m>>_vars
=============================================================================
