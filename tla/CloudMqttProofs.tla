--------------------------- MODULE CloudMqttProofs ---------------------------
(***************************************************************************)
(* Proofs about the cloud uploader, for any number of meters: what         *)
(* bConnected means, that connections are neither leaked nor doubled, what *)
(* is sent where, and the one way the process can die.                     *)
(***************************************************************************)
EXTENDS CloudMqtt, TLAPS

\* The upload runs only while connected: it is entered with bConnected set
\* and no poll, the only place that clears it, comes in between.
UploadConnected ==
  /\ pc \in {"upload", "hide"} => bConnected /\ i \in Meters
  /\ pc = "hide" => i = Gate

ConnInv == FlagMeansAccepted /\ OneConnection /\ SamplesToAccepted
IInv == TypeOK /\ ConnInv /\ UploadConnected

LEMMA InitInv == Init => IInv /\ NeverShownBetter
<1> SUFFICES ASSUME Init PROVE IInv /\ NeverShownBetter  OBVIOUS
<1>1. bConnected \in BOOLEAN /\ age \in Ages /\ negative \in BOOLEAN  BY DEF Init
<1>2. TypeOK  BY <1>1, CloudAssumption DEF Init, TypeOK, Kinds, Links
<1>3. FlagMeansAccepted  BY DEF Init, FlagMeansAccepted
<1>4. OneConnection /\ SamplesToAccepted /\ UploadConnected /\ NeverShownBetter
  BY DEF Init, OneConnection, SamplesToAccepted, UploadConnected, NeverShownBetter
<1> QED  BY <1>2, <1>3, <1>4 DEF IInv, ConnInv

\* Every poll keeps the invariant.
LEMMA PollInv == ASSUME IInv, Poll PROVE IInv'
<1> USE CloudAssumption DEF IInv, ConnInv
<1>0. pc' = "cmd" /\ UNCHANGED <<i, url, webVars, age, meterVars>>
  BY DEF Poll, Polled, PollQuiet, PollConnected, PollAccepted, PollRefused, PollLost
<1>1. UploadConnected'  BY <1>0 DEF UploadConnected
<1>2. unsent' \in SUBSET Kinds
  BY DEF Poll, PollQuiet, PollConnected, PollAccepted, PollRefused, PollLost,
         Written, TypeOK, Kinds
<1>3. /\ link' \in Links /\ bConnected' \in BOOLEAN /\ FlagMeansAccepted'
  <2>1. CASE PollQuiet
    BY <2>1 DEF PollQuiet, TypeOK, FlagMeansAccepted
  <2>2. CASE PollConnected
    BY <2>2 DEF PollConnected, TypeOK, FlagMeansAccepted, Links
  <2>3. CASE PollAccepted
    BY <2>3 DEF PollAccepted, TypeOK, FlagMeansAccepted, Links
  <2>4. CASE PollRefused \/ PollLost
    BY <2>4 DEF PollRefused, PollLost, TypeOK, FlagMeansAccepted, Links
  <2> QED  BY <2>1, <2>2, <2>3, <2>4 DEF Poll
<1>4. open' \in Nat /\ OneConnection'
  BY DEF Poll, PollQuiet, PollConnected, PollAccepted, PollRefused, PollLost,
         TypeOK, OneConnection, Links
<1>5. SamplesToAccepted'
  BY DEF Poll, PollQuiet, PollConnected, PollAccepted, PollRefused, PollLost,
         Written, SamplesToAccepted
<1>6. TypeOK'
  BY <1>0, <1>2, <1>3, <1>4 DEF TypeOK, webVars, meterVars
<1> QED  BY <1>1, <1>3, <1>4, <1>5, <1>6

\* So does every other step of the thread.
LEMMA ThreadInv ==
  ASSUME IInv, Thread, ~Poll PROVE IInv'
<1> USE CloudAssumption DEF IInv, ConnInv
<1> USE DEF webVars, meterVars, connVars
<1>1. CASE Register
  <2>1. UNCHANGED <<i, url, link, open, bConnected, negative, age, meterVars>>
    BY <1>1 DEF Register
  <2>2. FlagMeansAccepted'  BY <2>1 DEF FlagMeansAccepted
  <2>3. UploadConnected'  BY <1>1 DEF Register, UploadConnected
  <2>4. bConnected' \in BOOLEAN /\ negative' \in BOOLEAN /\ age' \in Ages
    BY <2>1 DEF TypeOK
  <2>5. OneConnection' /\ SamplesToAccepted'
    BY <1>1 DEF Register, OneConnection, SamplesToAccepted
  <2>6. TypeOK'  BY <1>1, <2>1, <2>4 DEF Register, TypeOK, Kinds
  <2> QED  BY <2>2, <2>3, <2>5, <2>6
<1>2. CASE NoCommand
  BY <1>2 DEF NoCommand, TypeOK, FlagMeansAccepted, OneConnection,
              SamplesToAccepted, UploadConnected
<1>3. CASE StartUpload
  <2>1. UNCHANGED <<url, connVars, webVars, meterVars>> /\ age' = "fresh"
    BY <1>3 DEF StartUpload
  <2>2. UploadConnected'  BY <1>3 DEF StartUpload, UploadConnected, Meters
  <2>3. FlagMeansAccepted'  BY <2>1 DEF FlagMeansAccepted
  <2>4. OneConnection' /\ SamplesToAccepted'
    BY <2>1 DEF OneConnection, SamplesToAccepted
  <2>5. bConnected' \in BOOLEAN /\ negative' \in BOOLEAN /\ age' \in Ages
    BY <2>1 DEF TypeOK, connVars, webVars, Ages
  <2>6. pc' \in {"upload", "connect"} /\ i' \in 0..Gate
    BY <1>3 DEF StartUpload, TypeOK
  <2>7. TypeOK'  BY <2>1, <2>5, <2>6 DEF TypeOK
  <2> QED  BY <2>2, <2>3, <2>4, <2>7
<1>4. CASE NotYet
  BY <1>4 DEF NotYet, TypeOK, FlagMeansAccepted, OneConnection,
              SamplesToAccepted, UploadConnected
<1>5. CASE Publish
  <2>1. link = "up" /\ i \in Meters
    BY <1>5 DEF Publish, UploadConnected, FlagMeansAccepted
  <2>2. unsent' = unsent \cup {"sample"} /\ NextMeter  BY <1>5, <2>1 DEF Publish
  <2>3. UNCHANGED <<url, link, open, bConnected, webVars, age, meterVars>>
    BY <1>5 DEF Publish
  <2> QED  BY <2>1, <2>2, <2>3 DEF NextMeter, Meters, TypeOK, FlagMeansAccepted,
              OneConnection, SamplesToAccepted, UploadConnected, Kinds
<1>6. CASE Skip
  BY <1>6 DEF Skip, NextMeter, TypeOK, FlagMeansAccepted, OneConnection,
              SamplesToAccepted, UploadConnected, Meters
<1>7. CASE Hide
  <2>1. CommState' \in [Meters -> {"ERR", "NORM"}]  BY <1>7 DEF Hide, TypeOK
  <2> QED
    BY <1>7, <2>1 DEF Hide, NextMeter, TypeOK, FlagMeansAccepted, OneConnection,
                SamplesToAccepted, UploadConnected, Meters
<1>8. CASE Connect
  BY <1>8 DEF Connect, TypeOK, FlagMeansAccepted, OneConnection,
              SamplesToAccepted, UploadConnected, Kinds, Links
<1>9. CASE NoConnect
  BY <1>9 DEF NoConnect, TypeOK, FlagMeansAccepted, OneConnection,
              SamplesToAccepted, UploadConnected
<1> QED  BY <1>1, <1>2, <1>3, <1>4, <1>5, <1>6, <1>7, <1>8, <1>9 DEF Thread

\* And every step of the others.
LEMMA OthersInv ==
  ASSUME IInv,
         AskRegister \/ SetInterval \/ Tick \/ TickLong \/ Restart \/ \E m \in Meters : Judge(m)
  PROVE  IInv'
<1> USE CloudAssumption DEF IInv, ConnInv
<1>1. CASE AskRegister \/ SetInterval \/ Tick \/ TickLong
  <2>1. UNCHANGED <<pc, i, url, connVars, meterVars>>
    BY <1>1 DEF AskRegister, SetInterval, Tick, TickLong
  <2>2. Cmd' \in {"DONE", "REGISTER"} /\ negative' \in BOOLEAN /\ age' \in Ages
    BY <1>1 DEF AskRegister, SetInterval, Tick, TickLong, webVars, TypeOK, Ages
  <2>3. FlagMeansAccepted'  BY <2>1 DEF connVars, FlagMeansAccepted
  <2>4. UploadConnected'  BY <2>1 DEF connVars, UploadConnected
  <2>5. OneConnection' /\ SamplesToAccepted'
    BY <2>1 DEF connVars, OneConnection, SamplesToAccepted
  <2>6. bConnected' \in BOOLEAN  BY <2>1 DEF connVars, TypeOK
  <2>7. TypeOK'  BY <2>1, <2>2, <2>6 DEF connVars, meterVars, TypeOK
  <2> QED  BY <2>3, <2>4, <2>5, <2>7
<1>2. CASE Restart
  <2>1. FlagMeansAccepted'  BY <1>2 DEF Restart, FlagMeansAccepted
  <2>2. bConnected' \in BOOLEAN /\ negative' \in BOOLEAN /\ age' \in Ages
    BY <1>2 DEF Restart, TypeOK
  <2>3. UploadConnected' /\ OneConnection' /\ SamplesToAccepted'
    BY <1>2 DEF Restart, OneConnection, SamplesToAccepted, UploadConnected
  <2>4. TypeOK'  BY <1>2, <2>2 DEF Restart, TypeOK, Links, Kinds
  <2> QED  BY <2>1, <2>3, <2>4
<1>3. ASSUME NEW m \in Meters, Judge(m) PROVE IInv'
  <2>1. CommState' \in [Meters -> {"ERR", "NORM"}]  BY <1>3 DEF Judge, TypeOK
  <2>2. verdict' \in [Meters -> {"ERR", "NORM"}]  BY <1>3 DEF Judge, TypeOK
  <2>3. UNCHANGED <<pc, i, url, connVars, webVars, age>>  BY <1>3 DEF Judge
  <2> QED
    BY <2>1, <2>2, <2>3 DEF connVars, webVars, TypeOK, FlagMeansAccepted,
       OneConnection, SamplesToAccepted, UploadConnected
<1> QED  BY <1>1, <1>2, <1>3

LEMMA NextInv == IInv /\ [Next]_vars => IInv'
<1> SUFFICES ASSUME IInv, [Next]_vars PROVE IInv'  OBVIOUS
<1>1. CASE UNCHANGED vars
  BY <1>1 DEF vars, connVars, webVars, meterVars, IInv, ConnInv, TypeOK,
     FlagMeansAccepted, OneConnection, SamplesToAccepted, UploadConnected
<1>2. CASE Next  BY <1>2, PollInv, ThreadInv, OthersInv DEF Next
<1> QED  BY <1>1, <1>2

\* The variables keep their types.
THEOREM TypeCorrect == Spec => []TypeOK
  BY InitInv, NextInv, PTL DEF Spec, IInv

\* bConnected is set just while s_conn is a connection the broker accepted.
THEOREM FlagIsAccepted == Spec => []FlagMeansAccepted
  BY InitInv, NextInv, PTL DEF Spec, IInv, ConnInv

\* The process never has a connection s_conn does not point to.
THEOREM ConnectionsOwned == Spec => []OneConnection
  BY InitInv, NextInv, PTL DEF Spec, IInv, ConnInv

\* Samples wait only on accepted connections.
THEOREM SamplesGoToAccepted == Spec => []SamplesToAccepted
  BY InitInv, NextInv, PTL DEF Spec, IInv, ConnInv

\* Only a step of a channel's worker can turn a meter to normal, so CommState
\* is never better than the worker's verdict.
LEMMA ShownStep ==
  TypeOK /\ NeverShownBetter /\ [Next]_vars => NeverShownBetter'
<1> SUFFICES ASSUME TypeOK, NeverShownBetter, [Next]_vars PROVE NeverShownBetter'
  OBVIOUS
<1>1. CASE Hide
  BY <1>1, CloudAssumption DEF Hide, NeverShownBetter, TypeOK, Meters
<1>2. CASE Restart
  BY <1>2 DEF Restart, NeverShownBetter
<1>3. ASSUME NEW m \in Meters, Judge(m) PROVE NeverShownBetter'
  BY <1>3 DEF Judge, NeverShownBetter, TypeOK
<1>4. CASE UNCHANGED meterVars
  BY <1>4 DEF meterVars, NeverShownBetter
<1> QED
  BY <1>1, <1>2, <1>3, <1>4
  DEF Next, Thread, Poll, Polled, PollQuiet, PollConnected, PollAccepted,
      PollRefused, PollLost, Register, NoCommand, StartUpload, NotYet, Publish,
      Skip, Connect, NoConnect, AskRegister, SetInterval, Tick, TickLong, vars

\* A meter its worker calls faulty is never shown, or uploaded, as normal.
THEOREM ShownIsEarned == Spec => []NeverShownBetter
<1>1. IInv => TypeOK  BY DEF IInv
<1> QED  BY <1>1, InitInv, NextInv, ShownStep, PTL DEF Spec

\* No step but a registration without a connection kills the process: the
\* upload's unchecked s_conn is safe.
LEMMA DeathStep ==
  IInv /\ [Next]_vars
    => [pc' = "dead" => pc = "cmd" /\ Cmd = "REGISTER" /\ ~bConnected]_vars
<1> SUFFICES ASSUME IInv, Next, pc' = "dead"
             PROVE  pc = "cmd" /\ Cmd = "REGISTER" /\ ~bConnected
  OBVIOUS
<1>1. CASE Register
  BY <1>1 DEF Register, IInv, ConnInv, FlagMeansAccepted
<1>2. CASE Publish
  <2>1. link = "up"  BY <1>2 DEF Publish, IInv, ConnInv, UploadConnected, FlagMeansAccepted
  <2> QED  BY <1>2, <2>1 DEF Publish, NextMeter
<1>3. ~AskRegister /\ ~SetInterval /\ ~Tick /\ ~TickLong /\ ~Restart /\ ~\E m \in Meters : Judge(m)
  BY DEF AskRegister, SetInterval, Tick, TickLong, Restart, Judge
<1> QED
  BY <1>1, <1>2, <1>3
  DEF Next, Thread, Poll, Polled, PollQuiet, PollConnected, PollAccepted,
      PollRefused, PollLost, NoCommand, StartUpload, NotYet, Skip, Hide,
      NextMeter, Connect, NoConnect

\* The process dies in one way only.
THEOREM DeathsExplained == Spec => DiesOnlyRegistering
  BY InitInv, NextInv, DeathStep, PTL DEF Spec, DiesOnlyRegistering
-----------------------------------------------------------------------------
(* Progress                                                                *)

LEMMA LoopStep ==
  ASSUME IInv, [Next]_vars
  PROVE  IF Thread THEN Left' < Left \/ (Poll /\ Left' = 4 + Gate)
         ELSE Left' = Left \/ Restart
<1> USE CloudAssumption
<1>0. i \in 0..Gate /\ (pc \in {"upload", "hide"} => i \in 1..Gate /\ link # "none")
  BY DEF IInv, ConnInv, TypeOK, UploadConnected, FlagMeansAccepted, Meters
<1>1. CASE Poll
  <2>1. pc' = "cmd"
    BY <1>1 DEF Poll, Polled, PollQuiet, PollConnected, PollAccepted, PollRefused, PollLost
  <2> QED  BY <1>1, <2>1 DEF Left, Thread
<1>2. CASE Register \/ NoCommand
  <2>1. pc = "cmd" /\ pc' \in {"timer", "dead"}  BY <1>2 DEF Register, NoCommand
  <2> QED  BY <1>2, <2>1 DEF Left, Thread
<1>3. CASE StartUpload \/ NotYet
  <2>1. pc = "timer" /\ ((pc' = "upload" /\ i' = 1) \/ pc' = "connect")
    BY <1>3 DEF StartUpload, NotYet
  <2> QED  BY <1>3, <2>1 DEF Left, Thread
<1>4. CASE Publish \/ Skip \/ Hide
  <2>1. \/ pc = "upload" /\ pc' = "upload" /\ i' = i + 1 /\ i < Gate
        \/ pc = "upload" /\ pc' \in {"connect", "hide"}
        \/ pc = "hide" /\ pc' = "connect"
    BY <1>0, <1>4 DEF Publish, Skip, Hide, NextMeter, IInv, UploadConnected
  <2>2. CASE pc = "upload" /\ pc' = "upload" /\ i' = i + 1 /\ i < Gate
    <3>1. Left = 3 + Gate - i /\ Left' = 3 + Gate - (i + 1)  BY <2>2 DEF Left
    <3> QED  BY <1>0, <1>4, <3>1 DEF Thread
  <2>3. CASE pc = "upload" /\ pc' \in {"connect", "hide"}
    <3>1. Left = 3 + Gate - i /\ Left' \in {1, 2}  BY <2>3 DEF Left
    <3>2. Left > 2  BY <1>0, <2>3, <3>1
    <3> QED  BY <1>0, <1>4, <3>1, <3>2 DEF Thread
  <2>4. CASE pc = "hide" /\ pc' = "connect"
    <3>1. Left = 2 /\ Left' = 1  BY <2>4 DEF Left
    <3> QED  BY <1>4, <3>1 DEF Thread
  <2> QED  BY <2>1, <2>2, <2>3, <2>4
<1>5. CASE Connect \/ NoConnect
  <2>1. pc = "connect" /\ pc' = "poll"  BY <1>5 DEF Connect, NoConnect
  <2> QED  BY <1>5, <2>1 DEF Left, Thread
<1>6. CASE ~Thread
  <2>1. CASE AskRegister \/ SetInterval \/ Tick \/ TickLong \/ \E m \in Meters : Judge(m)
    BY <1>6, <2>1 DEF AskRegister, SetInterval, Tick, TickLong, Judge, Left
  <2>2. CASE UNCHANGED vars
    BY <1>6, <2>2 DEF vars, Left
  <2> QED  BY <1>6, <2>1, <2>2 DEF Next
<1> QED  BY <1>1, <1>2, <1>3, <1>4, <1>5, <1>6 DEF Thread

\* Every loop of the thread comes to its end.
THEOREM LoopsEnd == Spec => LoopShrinks
<1>1. IInv /\ [Next]_vars =>
        [IF Thread THEN Left' < Left \/ (Poll /\ Left' = 4 + Gate)
         ELSE Left' = Left \/ Restart]_vars
  BY LoopStep
<1> QED  BY <1>1, InitInv, NextInv, PTL DEF Spec, LoopShrinks

\* Without a connection a step of the thread goes straight on to the connect,
\* unless it is the one that dies, and no other step moves the thread.
Lost == url = "set" /\ link = "none"

LEMMA LostStep ==
  ASSUME IInv, Lost, pc # "dead", [Next]_vars
  PROVE  /\ Lost' \/ link' # "none"
         /\ ~Thread => pc' = pc
         /\ Thread => \/ pc' = "dead" \/ link' # "none"
                      \/ pc = "poll" /\ pc' = "cmd"
                      \/ pc = "cmd" /\ pc' = "timer"
                      \/ pc = "timer" /\ pc' = "connect"
<1>0. ~bConnected /\ pc \notin {"upload", "hide"}
  BY DEF Lost, IInv, ConnInv, UploadConnected, FlagMeansAccepted
<1>1. CASE Poll
  BY <1>1 DEF Poll, Polled, PollQuiet, PollConnected, PollAccepted, PollRefused,
              PollLost, Lost, Thread
<1>2. CASE Register \/ NoCommand \/ StartUpload \/ NotYet
  BY <1>0, <1>2 DEF Register, NoCommand, StartUpload, NotYet, connVars, Lost, Thread
<1>3. CASE Publish \/ Skip \/ Hide
  BY <1>0, <1>3 DEF Publish, Skip, Hide
<1>4. CASE Connect \/ NoConnect
  BY <1>4 DEF Connect, NoConnect, connVars, Lost, Thread
<1>5. CASE ~Thread
  <2>1. UNCHANGED <<pc, url, link>>
    BY <1>5 DEF Next, AskRegister, SetInterval, Tick, TickLong, Judge, Restart, vars, connVars
  <2> QED  BY <1>5, <2>1 DEF Lost
<1> QED  BY <1>1, <1>2, <1>3, <1>4, <1>5 DEF Thread

\* A lost connection is tried again as long as the thread runs.
THEOREM ReconnectsIfRunning == Spec /\ ThreadRuns => Reconnects
<1> DEFINE At(x) == IInv /\ Lost /\ pc = x
           Back == link # "none" \/ pc = "dead"
<1>a. IInv /\ Lost /\ [Next]_vars => IInv'  BY NextInv
<1>b. At("connect") /\ [Next]_vars => At("connect")' \/ Back'  BY <1>a, LostStep
<1>c. At("connect") /\ [Next]_vars /\ <<Thread>>_vars => Back'  BY LostStep
<1>d. At("timer") /\ [Next]_vars => At("timer")' \/ At("connect")' \/ Back'
  BY <1>a, LostStep
<1>e. At("timer") /\ [Next]_vars /\ <<Thread>>_vars => At("connect")' \/ Back'
  BY <1>a, LostStep
<1>f. At("cmd") /\ [Next]_vars => At("cmd")' \/ At("timer")' \/ Back'
  BY <1>a, LostStep
<1>g. At("cmd") /\ [Next]_vars /\ <<Thread>>_vars => At("timer")' \/ Back'
  BY <1>a, LostStep
<1>h. At("poll") /\ [Next]_vars => At("poll")' \/ At("cmd")' \/ Back'
  BY <1>a, LostStep
<1>i. At("poll") /\ [Next]_vars /\ <<Thread>>_vars => At("cmd")' \/ Back'
  BY <1>a, LostStep
<1>j. IInv /\ Lost => At("poll") \/ At("cmd") \/ At("timer") \/ At("connect") \/ Back
  BY DEF IInv, ConnInv, TypeOK, UploadConnected, FlagMeansAccepted, Lost
<1>k. pc = "dead" => Back
  OBVIOUS
<1> HIDE DEF At, Back
<1>l. Spec /\ ThreadRuns => [](Lost => <>Back)
  BY <1>b, <1>c, <1>d, <1>e, <1>f, <1>g, <1>h, <1>i, <1>j, <1>k, InitInv, NextInv, PTL
     DEF Spec, ThreadRuns
<1> QED  BY <1>l, PTL DEF Reconnects, Lost, Back

LEMMA LeftRange ==
  IInv => Left \in 0..(4 + Gate) /\ (Left = 0 => pc = "poll" \/ pc = "dead")
<1> SUFFICES ASSUME IInv
             PROVE  Left \in 0..(4 + Gate) /\ (Left = 0 => pc = "poll" \/ pc = "dead")
  OBVIOUS
<1> USE CloudAssumption
<1>0. i \in 0..Gate  BY DEF IInv, TypeOK
<1>1. CASE pc \in {"poll", "dead"}
  <2>1. Left = 0  BY <1>1 DEF Left
  <2> QED  BY <1>1, <2>1
<1>2. CASE pc = "connect"
  <2>1. Left = 1  BY <1>2 DEF Left
  <2> QED  BY <2>1
<1>3. CASE pc = "hide"
  <2>1. Left = 2  BY <1>3 DEF Left
  <2> QED  BY <2>1
<1>4. CASE pc = "upload"
  <2>1. Left = 3 + Gate - i  BY <1>4 DEF Left
  <2> QED  BY <1>0, <2>1
<1>5. CASE pc = "timer"
  <2>1. Left = 3 + Gate  BY <1>5 DEF Left
  <2> QED  BY <2>1
<1>6. CASE pc = "cmd"
  <2>1. Left = 4 + Gate  BY <1>6 DEF Left
  <2> QED  BY <2>1
<1> QED  BY <1>1, <1>2, <1>3, <1>4, <1>5, <1>6 DEF IInv, TypeOK

LEMMA NextLeft == IInv' => (Left \in 0..(4 + Gate))'
  BY LeftRange, PTL

\* With the five meters of the code, or fewer, a thread that runs polls again
\* and again: at most nine steps lie between.
THEOREM PollsAgain ==
  ASSUME Gate <= 5
  PROVE  Spec /\ ThreadRuns => []<>(pc = "poll" \/ pc = "dead")
<1> DEFINE D(k) == IInv /\ Left = k
           Low(k) == IInv /\ Left < k
<1>1. ASSUME NEW k \in 1..9, D(k), [Next]_vars
      PROVE  (D(k)' \/ Low(k)') /\ (Thread => Low(k)')
  <2>1. IInv'  BY <1>1, NextInv
  <2>2. Left' \in Nat  BY <2>1, NextLeft, CloudAssumption
  <2>3. ~Poll /\ ~Restart
    <3>1. CASE pc = "poll" \/ pc = "dead"
      <4>1. Left = 0  BY <3>1 DEF Left
      <4> QED  BY <1>1, <4>1
    <3>2. CASE ~(pc = "poll" \/ pc = "dead")
      BY <3>2 DEF Restart, Poll, Polled, PollQuiet, PollConnected, PollAccepted,
                  PollRefused, PollLost
    <3> QED  BY <3>1, <3>2
  <2>4. Left' = Left \/ Left' < Left  BY <1>1, <2>3, LoopStep
  <2>5. Thread => Left' < Left  BY <1>1, <2>3, LoopStep
  <2> QED  BY <1>1, <2>1, <2>2, <2>4, <2>5
<1>a1. D(1) /\ [Next]_vars => D(1)' \/ Low(1)'
  BY <1>1
<1>b1. D(1) /\ [Next]_vars /\ <<Thread>>_vars => Low(1)'
  BY <1>1
<1>a2. D(2) /\ [Next]_vars => D(2)' \/ Low(2)'
  BY <1>1
<1>b2. D(2) /\ [Next]_vars /\ <<Thread>>_vars => Low(2)'
  BY <1>1
<1>a3. D(3) /\ [Next]_vars => D(3)' \/ Low(3)'
  BY <1>1
<1>b3. D(3) /\ [Next]_vars /\ <<Thread>>_vars => Low(3)'
  BY <1>1
<1>a4. D(4) /\ [Next]_vars => D(4)' \/ Low(4)'
  BY <1>1
<1>b4. D(4) /\ [Next]_vars /\ <<Thread>>_vars => Low(4)'
  BY <1>1
<1>a5. D(5) /\ [Next]_vars => D(5)' \/ Low(5)'
  BY <1>1
<1>b5. D(5) /\ [Next]_vars /\ <<Thread>>_vars => Low(5)'
  BY <1>1
<1>a6. D(6) /\ [Next]_vars => D(6)' \/ Low(6)'
  BY <1>1
<1>b6. D(6) /\ [Next]_vars /\ <<Thread>>_vars => Low(6)'
  BY <1>1
<1>a7. D(7) /\ [Next]_vars => D(7)' \/ Low(7)'
  BY <1>1
<1>b7. D(7) /\ [Next]_vars /\ <<Thread>>_vars => Low(7)'
  BY <1>1
<1>a8. D(8) /\ [Next]_vars => D(8)' \/ Low(8)'
  BY <1>1
<1>b8. D(8) /\ [Next]_vars /\ <<Thread>>_vars => Low(8)'
  BY <1>1
<1>a9. D(9) /\ [Next]_vars => D(9)' \/ Low(9)'
  BY <1>1
<1>b9. D(9) /\ [Next]_vars /\ <<Thread>>_vars => Low(9)'
  BY <1>1
<1>c1. Low(2) => D(1) \/ Low(1)
  BY LeftRange
<1>c2. Low(3) => D(2) \/ Low(2)
  BY LeftRange
<1>c3. Low(4) => D(3) \/ Low(3)
  BY LeftRange
<1>c4. Low(5) => D(4) \/ Low(4)
  BY LeftRange
<1>c5. Low(6) => D(5) \/ Low(5)
  BY LeftRange
<1>c6. Low(7) => D(6) \/ Low(6)
  BY LeftRange
<1>c7. Low(8) => D(7) \/ Low(7)
  BY LeftRange
<1>c8. Low(9) => D(8) \/ Low(8)
  BY LeftRange
<1>c9. Low(10) => D(9) \/ Low(9)
  BY LeftRange
<1>2. Low(1) => pc = "poll" \/ pc = "dead"  BY LeftRange
<1>3. IInv => Low(10)  BY LeftRange, CloudAssumption
<1> HIDE DEF D, Low
<1> QED
  BY <1>2, <1>3, <1>a1, <1>a2, <1>a3, <1>a4, <1>a5, <1>a6, <1>a7, <1>a8, <1>a9,
     <1>b1, <1>b2, <1>b3, <1>b4, <1>b5, <1>b6, <1>b7, <1>b8, <1>b9,
     <1>c1, <1>c2, <1>c3, <1>c4, <1>c5, <1>c6, <1>c7, <1>c8, <1>c9,
     InitInv, NextInv, PTL DEF Spec, ThreadRuns

\* A registration waits at the poll and at the command, and is then taken.
LEMMA RegisterStep ==
  ASSUME pc \in {"poll", "cmd"}, Cmd = "REGISTER", [Next]_vars
  PROVE  /\ ~Thread => pc' = pc /\ Cmd' = Cmd
         /\ Thread => \/ pc = "poll" /\ pc' = "cmd" /\ Cmd' = Cmd
                      \/ Cmd' = "DONE"
<1>1. CASE Poll
  <2>1. pc = "poll" /\ pc' = "cmd" /\ Cmd' = Cmd
    BY <1>1 DEF Poll, Polled, PollQuiet, PollConnected, PollAccepted, PollRefused,
                PollLost, webVars
  <2> QED  BY <1>1, <2>1 DEF Thread
<1>2. CASE Register
  BY <1>2 DEF Register, Thread
<1>3. CASE NoCommand \/ StartUpload \/ NotYet \/ Publish \/ Skip \/ Hide \/ Connect
           \/ NoConnect
  BY <1>3 DEF NoCommand, StartUpload, NotYet, Publish, Skip, Hide, Connect, NoConnect
<1>4. CASE ~Thread
  <2>1. pc' = pc /\ Cmd' = Cmd
    BY <1>4 DEF Next, AskRegister, SetInterval, Tick, TickLong, Judge, Restart, vars, webVars
  <2> QED  BY <1>4, <2>1
<1> QED  BY <1>1, <1>2, <1>3, <1>4 DEF Thread

\* A registration asked for at any moment is taken by a thread that runs and
\* comes back to its poll.
THEOREM RegisterIsTaken ==
  Spec /\ ThreadRuns /\ []<>(pc = "poll" \/ pc = "dead") => RegisterTaken
<1> DEFINE Asked == Cmd = "REGISTER"
           AtPoll == pc = "poll" /\ Asked
           AtCmd == pc = "cmd" /\ Asked
           Over == Cmd = "DONE" \/ pc = "dead"
<1>1. AtPoll /\ [Next]_vars => AtPoll' \/ AtCmd' \/ Over'  BY RegisterStep
<1>2. AtPoll /\ [Next]_vars /\ <<Thread>>_vars => AtCmd' \/ Over'  BY RegisterStep
<1>3. AtCmd /\ [Next]_vars => AtCmd' \/ Over'  BY RegisterStep
<1>4. AtCmd /\ [Next]_vars /\ <<Thread>>_vars => Over'  BY RegisterStep
<1>5. pc = "poll" \/ pc = "dead" => AtPoll \/ Over \/ ~Asked  OBVIOUS
<1>6. IInv => Asked \/ Over  BY DEF IInv, TypeOK
<1>7. (Asked <=> Cmd = "REGISTER") /\ (Over <=> Cmd = "DONE" \/ pc = "dead")
  OBVIOUS
<1>8. pc = "dead" => Over  OBVIOUS
<1> HIDE DEF Asked, AtPoll, AtCmd, Over
<1> QED
  BY <1>1, <1>2, <1>3, <1>4, <1>5, <1>6, <1>7, <1>8, InitInv, NextInv, PTL
     DEF Spec, ThreadRuns, RegisterTaken

\* While the cloud stays connected, the interval makes sense and meter m is
\* normal, the loop goes straight from its poll to m once every interval is over.
Serving(m) == bConnected /\ ~negative /\ CommState[m] = "NORM"

LEMMA ServeStep ==
  ASSUME IInv, NEW m \in Meters, Serving(m), [Next]_vars, Serving(m)'
  PROVE  /\ age = "old" => age' = "old" \/ (pc' = "upload" /\ i' = 1)
         /\ ~Thread => pc' = pc /\ i' = i
         /\ Thread => /\ pc = "poll" => pc' = "cmd" /\ age' = age
                      /\ pc = "cmd" => pc' = "timer" /\ age' = age
                      /\ pc = "timer" /\ age = "old" => pc' = "upload" /\ i' = 1
                      /\ pc = "upload" /\ i < m => pc' = "upload" /\ i' = i + 1
                      /\ pc = "upload" /\ i = m => Publish
<1> USE DEF Serving
<1>0. link = "up" /\ m \in 1..Gate /\ i \in 0..Gate
  BY DEF IInv, ConnInv, TypeOK, FlagMeansAccepted, Meters
<1>1. CASE Poll
  <2>1. pc = "poll" /\ pc' = "cmd" /\ age' = age
    BY <1>1 DEF Poll, Polled, PollQuiet, PollConnected, PollAccepted, PollRefused, PollLost
  <2> QED  BY <1>1, <2>1 DEF Thread
<1>2. CASE Register \/ NoCommand
  <2>1. pc = "cmd" /\ pc' = "timer" /\ age' = age
    BY <1>0, <1>2 DEF Register, NoCommand
  <2> QED  BY <1>2, <2>1 DEF Thread
<1>3. CASE StartUpload
  <2>1. pc = "timer" /\ pc' = "upload" /\ i' = 1  BY <1>3 DEF StartUpload
  <2> QED  BY <1>3, <2>1 DEF Thread
<1>4. CASE NotYet
  <2>1. pc = "timer" /\ age = "fresh" /\ age' = age  BY <1>4 DEF NotYet, Elapsed
  <2> QED  BY <1>4, <2>1 DEF Thread
<1>5. CASE Publish \/ Skip
  <2>1. pc = "upload" /\ age' = age  BY <1>5 DEF Publish, Skip
  <2>2. i < m => pc' = "upload" /\ i' = i + 1
    BY <1>0, <1>5, CloudAssumption DEF Publish, Skip, NextMeter
  <2>3. i = m => Publish  BY <1>5 DEF Skip
  <2> QED  BY <1>5, <2>1, <2>2, <2>3 DEF Thread
<1>6. CASE Hide \/ Connect \/ NoConnect
  <2>1. pc \in {"hide", "connect"} /\ age' = age  BY <1>6 DEF Hide, Connect, NoConnect
  <2> QED  BY <1>6, <2>1 DEF Thread
<1>7. CASE ~Thread
  <2>1. ~Restart  BY DEF Restart
  <2>2. UNCHANGED <<pc, i>> /\ (age = "old" => age' = "old")
    BY <1>7, <2>1 DEF Next, AskRegister, SetInterval, Tick, TickLong, Judge, vars
  <2> QED  BY <1>7, <2>2
<1> QED  BY <1>1, <1>2, <1>3, <1>4, <1>5, <1>6, <1>7 DEF Thread

\* A dead thread is not connected.
LEMMA DeadLost == Spec => [](pc = "dead" => ~bConnected)
<1> DEFINE Inv == pc = "dead" => ~bConnected
<1>1. Init => Inv  BY DEF Init
<1>2. IInv /\ Inv /\ [Next]_vars => Inv'
  <2> SUFFICES ASSUME IInv, Inv, [Next]_vars, pc' = "dead" PROVE ~bConnected'
    OBVIOUS
  <2>1. CASE Next /\ ~UNCHANGED vars
    <3>1. pc = "cmd" /\ ~bConnected  BY <2>1, DeathStep
    <3>2. UNCHANGED bConnected
      BY <2>1, <3>1 DEF Next, Thread, Poll, Polled, PollQuiet, PollConnected,
         PollAccepted, PollRefused, PollLost, Register, NoCommand, StartUpload, NotYet,
         Publish, Skip, Hide, Connect, NoConnect, AskRegister, SetInterval, Tick, TickLong,
         Judge, Restart, connVars
    <3> QED  BY <3>1, <3>2
  <2>2. CASE UNCHANGED vars
    BY <2>2 DEF vars, connVars
  <2> QED  BY <2>1, <2>2
<1> HIDE DEF Inv
<1>3. Inv <=> (pc = "dead" => ~bConnected)  BY DEF Inv
<1> QED  BY <1>1, <1>2, <1>3, InitInv, NextInv, PTL DEF Spec

\* A meter that stays normal is uploaded over and over, while the cloud stays
\* connected and the interval makes sense, whatever the other meters do.
THEOREM UploadsGoOn ==
  ASSUME Gate <= 5
  PROVE  Spec /\ ThreadRuns /\ TickRuns => KeepsUploading
<1>1. ASSUME NEW m \in Meters
      PROVE  Spec /\ ThreadRuns /\ TickRuns =>
               (<>[]Serving(m) => []<><<Publish /\ i = m>>_vars)
  <2> DEFINE On == Serving(m)
             Old == age = "old"
             At(x) == IInv /\ pc = x /\ Old
             Up(k) == IInv /\ pc = "upload" /\ i <= m /\ m - i = k
             First == Up(0) \/ Up(1) \/ Up(2) \/ Up(3) \/ Up(4)
  <2>1. IInv /\ pc = "upload" /\ i = 1 => First
    BY <1>1, CloudAssumption DEF Meters
  <2>2. ASSUME NEW k \in 1..4, Up(k), On, [Next]_vars, On'
        PROVE  (Up(k)' \/ Up(k - 1)') /\ (Thread => Up(k - 1)')
    <3>1. i \in Int /\ m \in Int  BY <2>2, CloudAssumption DEF IInv, TypeOK, Meters
    <3>2. IInv'  BY <2>2, NextInv
    <3>3. ~Thread => pc' = pc /\ i' = i  BY <2>2, ServeStep
    <3>4. Thread => pc' = "upload" /\ i' = i + 1  BY <2>2, <3>1, ServeStep
    <3> QED  BY <2>2, <3>1, <3>2, <3>3, <3>4
  <2>3. Up(0) /\ On /\ [Next]_vars /\ On' => Up(0)' \/ <<Publish /\ i = m>>_vars
    <3> SUFFICES ASSUME Up(0), On, [Next]_vars, On'
                 PROVE  Up(0)' \/ <<Publish /\ i = m>>_vars
      OBVIOUS
    <3>1. i = m  BY CloudAssumption DEF IInv, TypeOK, Meters
    <3>2. IInv'  BY NextInv
    <3>3. CASE UNCHANGED vars
      BY <3>2, <3>3 DEF vars
    <3>4. CASE ~UNCHANGED vars
      BY <3>1, <3>2, <3>4, ServeStep
    <3> QED  BY <3>3, <3>4
  <2>4. Up(0) /\ On /\ [Next]_vars /\ <<Thread>>_vars /\ On' => <<Publish /\ i = m>>_vars
    BY ServeStep, CloudAssumption DEF IInv, TypeOK, Meters
  <2>u1. Up(1) /\ On /\ [Next]_vars /\ On' => Up(1)' \/ Up(0)'
    BY <2>2
  <2>v1. Up(1) /\ On /\ [Next]_vars /\ <<Thread>>_vars /\ On' => Up(0)'
    BY <2>2
  <2>u2. Up(2) /\ On /\ [Next]_vars /\ On' => Up(2)' \/ Up(1)'
    BY <2>2
  <2>v2. Up(2) /\ On /\ [Next]_vars /\ <<Thread>>_vars /\ On' => Up(1)'
    BY <2>2
  <2>u3. Up(3) /\ On /\ [Next]_vars /\ On' => Up(3)' \/ Up(2)'
    BY <2>2
  <2>v3. Up(3) /\ On /\ [Next]_vars /\ <<Thread>>_vars /\ On' => Up(2)'
    BY <2>2
  <2>u4. Up(4) /\ On /\ [Next]_vars /\ On' => Up(4)' \/ Up(3)'
    BY <2>2
  <2>v4. Up(4) /\ On /\ [Next]_vars /\ <<Thread>>_vars /\ On' => Up(3)'
    BY <2>2
  <2>5. IInv /\ On /\ Old /\ [Next]_vars /\ On' => Old' \/ First'
    <3> SUFFICES ASSUME IInv, On, Old, [Next]_vars, On', ~Old' PROVE First'
      OBVIOUS
    <3>1. IInv'  BY NextInv
    <3>2. pc' = "upload" /\ i' = 1  BY ServeStep
    <3>3. i' <= m /\ m - i' \in 0..4  BY <1>1, <3>2, CloudAssumption DEF Meters
    <3> QED  BY <3>1, <3>2, <3>3
  <2>6. /\ IInv /\ On /\ Old /\ pc = "poll" => At("poll")
        /\ First => Up(0) \/ Up(1) \/ Up(2) \/ Up(3) \/ Up(4)
    OBVIOUS
  <2>7. At("poll") /\ On /\ [Next]_vars /\ On' => At("poll")' \/ At("cmd")' \/ First'
    BY <2>5, NextInv, ServeStep
  <2>8. At("poll") /\ On /\ [Next]_vars /\ <<Thread>>_vars /\ On' => At("cmd")'
    BY NextInv, ServeStep
  <2>9. At("cmd") /\ On /\ [Next]_vars /\ On' => At("cmd")' \/ At("timer")' \/ First'
    BY <2>5, NextInv, ServeStep
  <2>10. At("cmd") /\ On /\ [Next]_vars /\ <<Thread>>_vars /\ On' => At("timer")'
    BY NextInv, ServeStep
  <2>11. ASSUME At("timer"), On, [Next]_vars, On'
         PROVE  (At("timer")' \/ First') /\ (Thread => First')
    <3>1. IInv'  BY <2>11, NextInv
    <3>2. ~Thread => At("timer")' \/ First'  BY <2>5, <2>11, <3>1, ServeStep
    <3>3. Thread => pc' = "upload" /\ i' = 1  BY <2>11, ServeStep
    <3>4. Thread => i' <= m /\ m - i' \in 0..4
      BY <1>1, <3>3, CloudAssumption DEF Meters
    <3> QED  BY <3>1, <3>2, <3>3, <3>4
  <2>12. /\ At("timer") /\ On /\ [Next]_vars /\ On' => At("timer")' \/ First'
         /\ At("timer") /\ On /\ [Next]_vars /\ <<Thread>>_vars /\ On' => First'
    BY <2>11
  <2>13. On => bConnected  BY DEF Serving
  <2>14. [Next]_vars /\ <<TickLong>>_vars => Old'  BY DEF TickLong
  <2>15. (On <=> Serving(m)) /\ (Old <=> age = "old")  OBVIOUS
  <2>16. Spec /\ ThreadRuns => []<>(pc = "poll" \/ pc = "dead")  BY <1>1, PollsAgain
  <2> HIDE DEF On, Old, At, Up, First
  <2> QED
    BY <2>3, <2>4, <2>u1, <2>v1, <2>u2, <2>v2, <2>u3, <2>v3, <2>u4, <2>v4, <2>5, <2>6, <2>7,
       <2>8, <2>9, <2>10, <2>12, <2>13, <2>14, <2>15, <2>16, InitInv,
       NextInv, DeadLost, PTL DEF Spec, ThreadRuns, TickRuns
<1> QED  BY <1>1 DEF KeepsUploading, Serving

\* Together, for the five meters of the code or fewer: as long as its thread
\* runs and time passes, the uploader answers, reconnects and uploads.
THEOREM UploaderGoesOn ==
  ASSUME Gate <= 5
  PROVE  Spec /\ ThreadRuns /\ TickRuns =>
           RegisterTaken /\ Reconnects /\ KeepsUploading
  BY PollsAgain, RegisterIsTaken, ReconnectsIfRunning, UploadsGoOn, PTL
=============================================================================
