--------------------------- MODULE Chan485Proofs ---------------------------
(***************************************************************************)
(* Proofs about Chan485 for any range of meters, any bounds, and with or   *)
(* without late replies.                                                   *)
(***************************************************************************)
EXTENDS Chan485, SequenceTheorems, TLAPS

\* Marking the messages of earlier requests changes neither their number nor
\* anything but their cur field.
LEMMA OutdatedRequests ==
  ASSUME NEW s \in Seq(Request)
  PROVE  /\ Outdated(s) \in Seq(Request)
         /\ s = <<>> => Outdated(s) = <<>>
  <1>1. Len(s) \in Nat /\ \A i \in 1..Len(s) : s[i] \in Request
    OBVIOUS
  <1>2. Outdated(s) \in [1..Len(s) -> Request]
    BY <1>1 DEF Outdated, Request
  <1>3. Outdated(s) \in Seq(Request)
    BY <1>1, <1>2, SeqDef
  <1>4. ASSUME s = <<>> PROVE Outdated(s) = <<>>
    BY <1>4 DEF Outdated
  <1> QED
    BY <1>3, <1>4

LEMMA OutdatedFrames ==
  ASSUME NEW s \in Seq(Frame)
  PROVE  /\ Outdated(s) \in Seq(Frame)
         /\ s = <<>> => Outdated(s) = <<>>
  <1>1. Len(s) \in Nat /\ \A i \in 1..Len(s) : s[i] \in Frame
    OBVIOUS
  <1>2. Outdated(s) \in [1..Len(s) -> Frame]
    BY <1>1 DEF Outdated, Frame
  <1>3. Outdated(s) \in Seq(Frame)
    BY <1>1, <1>2, SeqDef
  <1>4. ASSUME s = <<>> PROVE Outdated(s) = <<>>
    BY <1>4 DEF Outdated
  <1> QED
    BY <1>3, <1>4

-----------------------------------------------------------------------------
(* Types                                                                   *)

LEMMA CurrentCleared ==
  ASSUME NEW g \in Group
  PROVE  [g EXCEPT !.now = FALSE] \in Group
  BY DEF Group

LEMMA TypeInit == Init => TypeOK
  <1> SUFFICES ASSUME Init PROVE TypeOK
    OBVIOUS
  <1>1. Zero \in Group
    BY ChanAssumption DEF Zero, Group
  <1>2. grp \in [Meters -> [Parts -> Group]]
    BY <1>1 DEF Init
  <1>3. scaled \in [Meters -> BOOLEAN] /\ fresh \in [Meters -> BOOLEAN]
    BY ChanAssumption DEF Init
  <1>4. waiting \in BOOLEAN
    BY DEF Init
  <1> QED
    BY <1>2, <1>3, <1>4 DEF Init, TypeOK, Cmds

\* The parts of TypeOK one group of variables makes up.
TypeChan == /\ state \in {"INIT", "RUN", "ERR"}
            /\ Cmd \in Cmds
            /\ ctx \in {"null", "open"}
            /\ fds \in Nat
TypePoll == /\ pos \in {0} \cup Meters
            /\ part \in 0..4
            /\ waiting \in BOOLEAN
TypeLine == /\ asked \in [Meters -> Seq(Request)]
            /\ rx \in Seq(Frame)
TypeMeter == /\ grp \in [Meters -> [Parts -> Group]]
             /\ scaled \in [Meters -> BOOLEAN]
             /\ CommState \in [Meters -> {"ERR", "NORM"}]
             /\ fresh \in [Meters -> BOOLEAN]

LEMMA TypeParts == TypeOK <=> TypeChan /\ TypePoll /\ TypeLine /\ TypeMeter
  BY DEF TypeOK, TypeChan, TypePoll, TypeLine, TypeMeter

\* Leaving a meter keeps the loop's variable in range.
LEMMA LeaveType ==
  ASSUME pos \in Meters, Leave
  PROVE  pos' \in {0} \cup Meters /\ part' = 0
  BY ChanAssumption DEF Leave, Meters

-----------------------------------------------------------------------------
(* Who owns the serial device                                              *)

\* HandleOwned with the types it needs and with what keeps the loop's
\* variables together: a part is being read only inside the loop, and an
\* answer is awaited only while a part is being read.
Owned ==
  /\ TypeChan /\ TypePoll /\ TypeLine /\ TypeMeter
  /\ HandleOwned
  /\ part # 0 => pos # 0
  /\ waiting => part # 0

LEMMA OwnedInit == Init => Owned
  BY TypeInit, TypeParts DEF Init, Owned, HandleOwned

LEMMA OwnedStep == Owned /\ [Next]_vars => Owned'
  <1> SUFFICES ASSUME Owned, [Next]_vars
               PROVE  Owned'
    OBVIOUS
  <1> USE ChanAssumption DEF Owned
  <1>1. CASE InitOk
    BY <1>1 DEF InitOk, TypeChan, TypePoll, TypeLine, TypeMeter, HandleOwned,
                      pollVars, lineVars, meterVars
  <1>2. CASE InitFail
    BY <1>2 DEF InitFail, TypeChan, TypePoll, TypeLine, TypeMeter, HandleOwned,
                      pollVars, lineVars, meterVars
  <1>3. CASE Reset
    BY <1>3 DEF Reset, TypeChan, TypePoll, TypeLine, TypeMeter, HandleOwned,
                      pollVars, meterVars, Cmds
  <1>4. CASE BeginRound
    BY <1>4 DEF BeginRound, TypeChan, TypePoll, TypeLine, TypeMeter, HandleOwned,
                      chanVars, lineVars, meterVars, Meters
  <1>5. CASE Refresh
    <2>1. pos \in Meters
      BY <1>5 DEF Refresh, TypePoll
    <2>2. [p \in Parts |-> [grp[pos][p] EXCEPT !.now = FALSE]] \in [Parts -> Group]
      <3>1. grp[pos] \in [Parts -> Group]
        BY <2>1 DEF TypeMeter
      <3>2. ASSUME NEW p \in Parts
            PROVE  [grp[pos][p] EXCEPT !.now = FALSE] \in Group
        BY <3>1, CurrentCleared
      <3> QED
        BY <3>2
    <2>3. TypeMeter'
      BY <1>5, <2>1, <2>2 DEF Refresh, TypeMeter
    <2> QED
      BY <1>5, <2>3 DEF Refresh, TypeChan, TypePoll, TypeLine, HandleOwned,
                              chanVars, lineVars
  <1>6. CASE Ask
    <2>1. pos \in Meters
      BY <1>6 DEF Ask, TypePoll
    <2>2. rx' \in Seq(Frame)
      BY <1>6, OutdatedFrames DEF Ask, TypeLine
    <2> DEFINE old == [m \in Meters |-> Outdated(asked[m])]
    <2>3. old \in [Meters -> Seq(Request)]
      BY OutdatedRequests DEF TypeLine
    <2>4. [part |-> part, cur |-> TRUE] \in Request
      BY <1>6 DEF Ask, TypePoll, Request, Parts
    <2>5. [old EXCEPT ![pos] = Append(@, [part |-> part, cur |-> TRUE])]
             \in [Meters -> Seq(Request)]
      BY <2>1, <2>3, <2>4
    <2>6. asked' \in [Meters -> Seq(Request)]
      BY <1>6, <2>3, <2>5 DEF Ask
    <2> QED
      BY <1>6, <2>2, <2>6 DEF Ask, TypeChan, TypePoll, TypeLine, TypeMeter,
                                    HandleOwned, chanVars, meterVars
  <1>7. CASE SendFail
    <2>1. pos' \in {0} \cup Meters /\ part' = 0
      BY <1>7, LeaveType DEF SendFail, TypePoll
    <2>2. state = "RUN"
      BY <1>7 DEF SendFail, HandleOwned
    <2> QED
      BY <1>7, <2>1, <2>2 DEF SendFail, TypeChan, TypePoll, TypeLine, TypeMeter,
                                    HandleOwned, chanVars, meterVars
  <1>8. CASE Accept
    <2>1. pos \in Meters /\ part \in Parts /\ state = "RUN"
      BY <1>8 DEF Accept, TypePoll, HandleOwned, Parts
    <2>2. Head(rx) \in Frame /\ Tail(rx) \in Seq(Frame)
      BY <1>8 DEF Accept, TypeLine
    <2> DEFINE g == [blk |-> Head(rx).part, from |-> Head(rx).from, now |-> Head(rx).cur]
    <2>3. g \in Group
      BY <2>2 DEF Frame, Group, Parts, Meters
    <2>4. [grp[pos] EXCEPT ![part] = g] \in [Parts -> Group]
      BY <2>1, <2>3 DEF TypeMeter
    <2>5. grp' \in [Meters -> [Parts -> Group]]
      BY <1>8, <2>1, <2>4 DEF Accept, TypeMeter
    <2>6. scaled' \in [Meters -> BOOLEAN]
      BY <1>8 DEF Accept, TypeMeter
    <2>7. fresh' \in [Meters -> BOOLEAN]
      BY <1>8 DEF Accept, TypeMeter
    <2>8. waiting' \in BOOLEAN /\ ~waiting'
      BY <1>8 DEF Accept
    <2>9. part' \in 0..4 /\ pos' \in {0} \cup Meters /\ (part' # 0 => pos' # 0)
      <3>1. CASE part < 4 /\ part' = part + 1 /\ pos' = pos
        BY <2>1, <3>1 DEF Parts, Meters
      <3>2. CASE Leave
        BY <2>1, <3>2, LeaveType
      <3> QED
        BY <1>8, <3>1, <3>2 DEF Accept
    <2>10. TypePoll'
      BY <2>8, <2>9 DEF TypePoll
    <2>11. UNCHANGED <<chanVars, asked, CommState>>
      BY <1>8 DEF Accept
    <2>12. TypeChan' /\ HandleOwned'
      BY <2>1, <2>11 DEF chanVars, TypeChan, HandleOwned
    <2>13. TypeMeter'
      BY <2>5, <2>6, <2>7, <2>11 DEF TypeMeter
    <2>14. TypeLine'
      BY <1>8, <2>2, <2>11 DEF Accept, TypeLine
    <2> QED
      BY <2>8, <2>9, <2>10, <2>12, <2>13, <2>14
  <1>9. CASE Reject
    <2>1. pos \in Meters /\ state = "RUN"
      BY <1>9 DEF Reject, TypePoll, HandleOwned
    <2>2. pos' \in {0} \cup Meters /\ part' = 0
      BY <1>9, <2>1, LeaveType DEF Reject
    <2>3. waiting' \in BOOLEAN /\ ~waiting'
      BY <1>9 DEF Reject
    <2>4. TypePoll'
      BY <2>2, <2>3 DEF TypePoll
    <2>5. UNCHANGED <<chanVars, meterVars>>
      BY <1>9 DEF Reject
    <2>6. TypeChan' /\ TypeMeter' /\ HandleOwned'
      BY <2>1, <2>5 DEF chanVars, meterVars, TypeChan, TypeMeter, HandleOwned
    <2>7. TypeLine'
      BY <1>9 DEF Reject, TypeLine
    <2> QED
      BY <2>2, <2>3, <2>4, <2>6, <2>7
  <1>10. CASE Timeout
    <2>1. pos \in Meters /\ state = "RUN"
      BY <1>10 DEF Timeout, TypePoll, HandleOwned
    <2>2. pos' \in {0} \cup Meters /\ part' = 0
      BY <1>10, <2>1, LeaveType DEF Timeout
    <2>3. waiting' \in BOOLEAN /\ ~waiting'
      BY <1>10 DEF Timeout
    <2>4. TypePoll'
      BY <2>2, <2>3 DEF TypePoll
    <2>5. UNCHANGED <<chanVars, meterVars>>
      BY <1>10 DEF Timeout
    <2>6. TypeChan' /\ TypeMeter' /\ HandleOwned'
      BY <2>1, <2>5 DEF chanVars, meterVars, TypeChan, TypeMeter, HandleOwned
    <2>7. TypeLine'
      BY <1>10 DEF Timeout, TypeLine
    <2> QED
      BY <2>2, <2>3, <2>4, <2>6, <2>7
  <1>11. ASSUME NEW c \in Cmds, SetCmd(c)
         PROVE  Owned'
    BY <1>11 DEF SetCmd, TypeChan, TypePoll, TypeLine, TypeMeter, HandleOwned,
                             pollVars, lineVars, meterVars
  <1>12. ASSUME NEW m \in Meters, Answer(m)
         PROVE  Owned'
    <2>1. Head(asked[m]) \in Request /\ Tail(asked[m]) \in Seq(Request)
      BY <1>12 DEF Answer, TypeLine
    <2>2. PICK good \in BOOLEAN :
            rx' = IF ctx = "open"
                  THEN Append(rx, [from |-> m, part |-> Head(asked[m]).part,
                                   cur |-> Head(asked[m]).cur, ok |-> good])
                  ELSE rx
      BY <1>12 DEF Answer
    <2>3. [from |-> m, part |-> Head(asked[m]).part,
           cur |-> Head(asked[m]).cur, ok |-> good] \in Frame
      BY <2>1 DEF Request, Frame
    <2>4. rx' \in Seq(Frame)
      BY <2>2, <2>3 DEF TypeLine
    <2> QED
      BY <1>12, <2>1, <2>4 DEF Answer, TypeChan, TypePoll, TypeLine, TypeMeter,
           HandleOwned, chanVars, pollVars, meterVars
  <1>13. ASSUME NEW m \in Meters, Lose(m)
         PROVE  Owned'
    BY <1>13 DEF Lose, TypeChan, TypePoll, TypeLine, TypeMeter, HandleOwned,
                             chanVars, pollVars, meterVars
  <1>14. ASSUME NEW m \in Meters, Expire(m)
         PROVE  Owned'
    BY <1>14 DEF Expire, TypeChan, TypePoll, TypeLine, TypeMeter, HandleOwned,
                             chanVars, pollVars, lineVars
  <1>15. CASE UNCHANGED vars
    BY <1>15 DEF vars, chanVars, pollVars, lineVars, meterVars,
         TypeChan, TypePoll, TypeLine, TypeMeter, HandleOwned
  <1> QED
    BY <1>1, <1>2, <1>3, <1>4, <1>5, <1>6, <1>7, <1>8, <1>9, <1>10, <1>11, <1>12,
       <1>13, <1>14, <1>15 DEF Next, Worker

\* Owned is an invariant of every behaviour of the channel.
LEMMA AlwaysOwned == Spec => []Owned
  BY OwnedInit, OwnedStep, PTL DEF Spec

\* Every variable of the channel keeps its type.
THEOREM TypeCorrect == Spec => []TypeOK
  <1>1. Owned => TypeOK
    BY TypeParts DEF Owned
  <1> QED
    BY <1>1, AlwaysOwned, PTL

\* The serial device is open exactly while the channel runs, and only once.
THEOREM HandlesOwned == Spec => []HandleOwned
  <1>1. Owned => HandleOwned
    BY DEF Owned
  <1> QED
    BY <1>1, AlwaysOwned, PTL

-----------------------------------------------------------------------------
(* What the stored values are                                              *)

\* A step that is neither the head of the loop's body, nor the storing of an
\* answer, nor the clock's leaves the meters alone, and the worker where it
\* is or not inside any part.
LEMMA QuietSteps ==
  ASSUME Owned, [Next]_vars, ~Refresh, ~Accept, ~(\E m \in Meters : Expire(m))
  PROVE  /\ UNCHANGED <<grp, scaled, CommState, fresh>>
         /\ part' = 0 \/ UNCHANGED <<pos, part>>
  <1>1. CASE InitOk \/ InitFail \/ Reset \/ BeginRound \/ Ask
    BY <1>1 DEF InitOk, InitFail, Reset, BeginRound, Ask, meterVars, pollVars, Owned,
                HandleOwned
  <1>2. CASE SendFail \/ Reject \/ Timeout
    BY <1>2 DEF SendFail, Reject, Timeout, Leave, meterVars
  <1>3. CASE \E c \in Cmds : SetCmd(c)
    BY <1>3 DEF SetCmd, meterVars, pollVars
  <1>4. CASE \E m \in Meters : Answer(m) \/ Lose(m)
    BY <1>4 DEF Answer, Lose, meterVars, pollVars
  <1>5. CASE UNCHANGED vars
    BY <1>5 DEF vars, meterVars, pollVars
  <1> QED
    BY <1>1, <1>2, <1>3, <1>4, <1>5 DEF Next, Worker

\* The parts below the one being read have been read, and a meter whose last
\* part was ever stored had all of them stored.
Progress ==
  \A m \in Meters :
    /\ pos = m => \A p \in Parts : p < part => grp[m][p].blk # 0
    /\ grp[m][4].blk # 0 => \A p \in Parts : grp[m][p].blk # 0

\* Unless the program starts early, LastUpdate is young and CommState is
\* normal only after a whole poll.
Earned ==
  ~EarlyStart => \A m \in Meters :
                   fresh[m] \/ CommState[m] = "NORM" => grp[m][4].blk # 0

Stored ==
  /\ OwnBlock
  /\ Progress
  /\ Earned
  /\ UnscaledOnlyAtFirst

LEMMA StoredInit == Init => Stored
  <1> SUFFICES ASSUME Init PROVE Stored
    OBVIOUS
  <1>1. \A m \in Meters, p \in Parts : grp[m][p].blk = 0
    BY DEF Init, Zero
  <1>2. part = 0
    BY DEF Init
  <1>3. 4 \in Parts
    BY DEF Parts
  <1>4. OwnBlock
    BY <1>1 DEF OwnBlock
  <1>5. Progress
    BY <1>1, <1>2, <1>3 DEF Progress, Parts
  <1>6. Earned
    BY DEF Init, Earned
  <1>7. UnscaledOnlyAtFirst
    BY <1>2 DEF UnscaledOnlyAtFirst
  <1> QED
    BY <1>4, <1>5, <1>6, <1>7 DEF Stored

LEMMA StoredStep == Owned /\ Stored /\ [Next]_vars => Stored'
  <1> SUFFICES ASSUME Owned, Stored, [Next]_vars
               PROVE  Stored'
    OBVIOUS
  <1>0. 4 \in Parts /\ 3 \in Parts /\ 1 \in Parts
    BY DEF Parts
  <1>t. /\ grp \in [Meters -> [Parts -> Group]]
        /\ scaled \in [Meters -> BOOLEAN]
        /\ CommState \in [Meters -> {"ERR", "NORM"}]
        /\ fresh \in [Meters -> BOOLEAN]
        /\ part \in 0..4
        /\ rx \in Seq(Frame)
    BY DEF Owned, TypeMeter, TypePoll, TypeLine
  <1>i. OwnBlock /\ Progress /\ Earned /\ UnscaledOnlyAtFirst
    BY DEF Stored
  <1>1. CASE Refresh
    <2>1. pos \in Meters /\ part = 0 /\ part' = 1 /\ pos' = pos /\ fresh' = fresh
      BY <1>1 DEF Refresh, Owned, TypePoll
    <2>2. \A m \in Meters, p \in Parts : /\ grp'[m][p].blk = grp[m][p].blk
                                        /\ grp'[m][p].from = grp[m][p].from
      <3>1. \A p \in Parts : grp[pos][p] \in Group
        BY <1>t, <2>1
      <3>2. \A p \in Parts : grp'[pos][p] = [grp[pos][p] EXCEPT !.now = FALSE]
        BY <1>1, <1>t, <2>1 DEF Refresh
      <3>3. \A m \in Meters : m # pos => grp'[m] = grp[m]
        BY <1>1, <1>t, <2>1 DEF Refresh
      <3>4. \A p \in Parts : /\ grp'[pos][p].blk = grp[pos][p].blk
                             /\ grp'[pos][p].from = grp[pos][p].from
        BY <3>1, <3>2 DEF Group
      <3> QED
        BY <3>3, <3>4
    <2>3. OwnBlock'
      BY <1>i, <2>2 DEF OwnBlock
    <2>4. Progress'
      BY <1>i, <1>0, <2>1, <2>2 DEF Progress, Parts
    <2>5. Earned'
      BY <1>i, <1>t, <1>1, <1>0, <2>1, <2>2 DEF Earned, Refresh
    <2>6. UnscaledOnlyAtFirst'
      BY <2>1 DEF UnscaledOnlyAtFirst
    <2> QED
      BY <2>3, <2>4, <2>5, <2>6 DEF Stored
  <1>2. CASE Accept
    <2> DEFINE g == [blk |-> Head(rx).part, from |-> Head(rx).from, now |-> Head(rx).cur]
    <2>1. pos \in Meters /\ part \in Parts /\ CommState' = CommState
      BY <1>2 DEF Accept, Owned, TypePoll, Parts
    <2>2. Head(rx) \in Frame
      BY <1>t, <1>2 DEF Accept
    <2>3. g.blk \in Parts /\ g.blk # 0 /\ g.from = pos /\ nbr[g.blk] = nbr[part]
      BY <1>2, <2>2 DEF Accept, Confirms, Frame, Parts
    <2>4. /\ grp'[pos][part] = g
          /\ \A p \in Parts : p # part => grp'[pos][p] = grp[pos][p]
          /\ \A m \in Meters : m # pos => grp'[m] = grp[m]
      BY <1>2, <1>t, <2>1 DEF Accept
    <2>5. \A m \in Meters, p \in Parts : grp[m][p].blk # 0 => grp'[m][p].blk # 0
      BY <2>1, <2>3, <2>4
    <2>6. OwnBlock'
      BY <1>i, <2>1, <2>3, <2>4 DEF OwnBlock
    <2>7. \/ part < 4 /\ part' = part + 1 /\ pos' = pos /\ fresh' = fresh
          \/ part = 4 /\ part' = 0 /\ fresh' = [fresh EXCEPT ![pos] = TRUE]
      BY <1>2 DEF Accept, Leave
    <2>8. \A p \in Parts : p <= part => grp'[pos][p].blk # 0
      BY <1>i, <2>1, <2>3, <2>4 DEF Progress, Parts
    <2>9. \A m \in Meters : grp'[m][4].blk # 0 =>
                            \A p \in Parts : grp'[m][p].blk # 0
      <3>1. CASE part = 4
        BY <1>i, <1>0, <2>1, <2>4, <2>8, <3>1 DEF Progress, Parts
      <3>2. CASE part # 4
        BY <1>i, <1>0, <2>1, <2>4, <2>5, <3>2 DEF Progress
      <3> QED
        BY <3>1, <3>2
    <2>10. Progress'
      BY <2>1, <2>7, <2>8, <2>9 DEF Progress, Parts
    <2>11. Earned'
      <3> SUFFICES ASSUME ~EarlyStart, NEW m \in Meters,
                          fresh'[m] \/ CommState'[m] = "NORM"
                   PROVE  grp'[m][4].blk # 0
        BY DEF Earned
      <3>1. CASE m = pos /\ part = 4
        BY <1>0, <2>3, <2>4, <3>1
      <3>2. CASE ~(m = pos /\ part = 4)
        BY <1>i, <1>t, <1>0, <2>1, <2>5, <2>7, <3>2 DEF Earned
      <3> QED
        BY <3>1, <3>2
    <2>12. UnscaledOnlyAtFirst'
      <3> SUFFICES ASSUME NEW m \in Meters, pos' = m, part' > 1, grp'[m][4].blk # 0
                   PROVE  scaled'[m]
        BY DEF UnscaledOnlyAtFirst
      <3>1. part < 4 /\ m = pos
        BY <2>7
      <3>2. grp[pos][4].blk # 0
        BY <1>0, <2>4, <3>1
      <3>3. CASE part = 1
        BY <1>2, <1>i, <1>t, <1>0, <2>1, <3>1, <3>2, <3>3 DEF Accept, Progress
      <3>4. CASE part > 1
        BY <1>2, <1>i, <2>1, <3>1, <3>2, <3>4 DEF Accept, UnscaledOnlyAtFirst, Parts
      <3> QED
        BY <2>1, <3>3, <3>4 DEF Parts
    <2> QED
      BY <2>6, <2>10, <2>11, <2>12 DEF Stored
  <1>3. CASE \E m \in Meters : Expire(m)
    <2>1. PICK m \in Meters : Expire(m)
      BY <1>3
    <2>2. /\ UNCHANGED <<grp, scaled, CommState, pos, part>>
          /\ \A x \in Meters : fresh'[x] => fresh[x]
      BY <1>t, <2>1 DEF Expire, pollVars
    <2> QED
      BY <1>i, <2>2 DEF Stored, OwnBlock, Progress, Earned, UnscaledOnlyAtFirst
  <1>4. CASE ~Refresh /\ ~Accept /\ ~(\E m \in Meters : Expire(m))
    <2>1. /\ UNCHANGED <<grp, scaled, CommState, fresh>>
          /\ part' = 0 \/ UNCHANGED <<pos, part>>
      BY <1>4, QuietSteps
    <2> QED
      BY <1>i, <2>1 DEF Stored, OwnBlock, Progress, Earned, UnscaledOnlyAtFirst, Parts
  <1> QED
    BY <1>1, <1>2, <1>3, <1>4

LEMMA AlwaysStored == Spec => []Stored
  BY AlwaysOwned, StoredInit, StoredStep, PTL DEF Spec

\* Values are stored only for the meter that sent them, from a block of the
\* size asked for, with late replies too.
THEOREM BlocksOwned == Spec => []OwnBlock
  <1>1. Stored => OwnBlock
    BY DEF Stored
  <1> QED
    BY <1>1, AlwaysStored, PTL

\* A meter is normal only after all its blocks were read.
THEOREM NormEarned == Spec => []NormIsEarned
  <1>1. Stored => NormIsEarned
    BY DEF Stored, Earned, Progress, NormIsEarned
  <1> QED
    BY <1>1, AlwaysStored, PTL

\* Energies are stored unscaled only until the first complete poll.
THEOREM ScaledAfterFirst == Spec => []UnscaledOnlyAtFirst
  <1>1. Stored => UnscaledOnlyAtFirst
    BY DEF Stored
  <1> QED
    BY <1>1, AlwaysStored, PTL

-----------------------------------------------------------------------------
(* Samples when no reply outlives its request                              *)

LEMMA Singleton ==
  ASSUME NEW x
  PROVE  /\ <<x>> # <<>>
         /\ Head(<<x>>) = x
         /\ Tail(<<x>>) = <<>>
  OBVIOUS

\* What the line can hold while no reply is late: nothing between requests,
\* and during one at most its request or its answer.
Quiet == rx = <<>> /\ \A m \in Meters : asked[m] = <<>>
OwnRequest == /\ rx = <<>>
              /\ asked[pos] = <<[part |-> part, cur |-> TRUE]>>
              /\ \A m \in Meters : m # pos => asked[m] = <<>>
OwnAnswer == /\ \A m \in Meters : asked[m] = <<>>
             /\ rx # <<>>
             /\ Tail(rx) = <<>>
             /\ Head(rx).part = part
             /\ Head(rx).cur

TimelyLine ==
  /\ ~waiting => Quiet
  /\ waiting => Quiet \/ OwnRequest \/ OwnAnswer

\* Inside a meter's poll the parts below the current one, and no others, are of
\* this round; outside, the last part stands for all.
TimelyGroups ==
  \A m \in Meters :
    /\ \A p \in Parts : grp[m][p].blk \in {0, p}
    /\ pos = m /\ part > 0 => \A p \in Parts : grp[m][p].now <=> p < part
    /\ grp[m][4].now => \A p \in Parts : grp[m][p].now

Timely == ~LateReplies => TimelyLine /\ TimelyGroups

LEMMA TimelyInit == Init => Timely
  <1> SUFFICES ASSUME Init PROVE TimelyLine /\ TimelyGroups
    BY DEF Timely
  <1>1. \A m \in Meters, p \in Parts : grp[m][p].blk = 0 /\ grp[m][p].now = FALSE
    BY DEF Init, Zero
  <1>2. part = 0 /\ 4 \in Parts
    BY DEF Init, Parts
  <1>3. TimelyGroups
    BY <1>1, <1>2 DEF TimelyGroups
  <1>4. TimelyLine
    BY DEF Init, TimelyLine, Quiet
  <1> QED
    BY <1>3, <1>4

LEMMA TimelyLineStep ==
  ASSUME Owned, TimelyLine, ~LateReplies, [Next]_vars
  PROVE  TimelyLine'
  <1>t. /\ asked \in [Meters -> Seq(Request)]
        /\ rx \in Seq(Frame)
        /\ part # 0 => pos \in Meters
        /\ waiting => part # 0
    BY DEF Owned, TypeLine, TypePoll
  <1>1. CASE InitOk \/ InitFail \/ BeginRound \/ Refresh
    <2>1. UNCHANGED <<waiting, lineVars>> /\ ~waiting
      BY <1>1 DEF InitOk, InitFail, BeginRound, Refresh, pollVars, Owned, HandleOwned
    <2> QED
      BY <2>1 DEF TimelyLine, Quiet, lineVars
  <1>2. CASE Reset
    <2>1. ~waiting /\ UNCHANGED <<waiting, asked>> /\ rx' = <<>>
      BY <1>2 DEF Reset, pollVars, Owned, HandleOwned
    <2> QED
      BY <2>1 DEF TimelyLine, Quiet
  <1>3. CASE Ask
    <2>1. Quiet /\ waiting' /\ UNCHANGED <<pos, part>> /\ pos \in Meters
      BY <1>3, <1>t DEF Ask, TimelyLine
    <2>2. rx' = <<>>
      BY <1>3, <1>t, <2>1, OutdatedFrames DEF Ask, Quiet
    <2> DEFINE old == [m \in Meters |-> Outdated(asked[m])]
    <2>3. \A m \in Meters : old[m] = <<>>
      BY <1>t, <2>1, OutdatedRequests DEF Quiet
    <2>4. CASE asked' = old
      BY <2>1, <2>2, <2>3, <2>4 DEF TimelyLine, Quiet
    <2>5. CASE asked' = [old EXCEPT ![pos] = Append(@, [part |-> part, cur |-> TRUE])]
      <3>1. asked'[pos] = Append(<<>>, [part |-> part, cur |-> TRUE])
        BY <2>1, <2>3, <2>5
      <3>2. asked'[pos] = <<[part |-> part, cur |-> TRUE]>>
        BY <3>1
      <3>3. \A m \in Meters : m # pos => asked'[m] = <<>>
        BY <2>1, <2>3, <2>5
      <3> QED
        BY <2>1, <2>2, <3>2, <3>3 DEF TimelyLine, OwnRequest
    <2> QED
      BY <1>3, <2>4, <2>5 DEF Ask
  <1>4. CASE SendFail
    <2>1. Quiet /\ ~waiting' /\ UNCHANGED asked /\ rx' = <<>>
      BY <1>4 DEF SendFail, TimelyLine
    <2> QED
      BY <2>1 DEF TimelyLine, Quiet
  <1>5. CASE Accept \/ Reject
    <2>1. waiting /\ rx # <<>> /\ ~waiting' /\ asked' = asked
      BY <1>5 DEF Accept, Reject
    <2>2. OwnAnswer
      BY <2>1 DEF TimelyLine, Quiet, OwnRequest
    <2>3. rx' = <<>>
      BY <1>5, <2>2 DEF Accept, Reject, OwnAnswer
    <2> QED
      BY <2>1, <2>2, <2>3 DEF TimelyLine, Quiet, OwnAnswer
  <1>6. CASE Timeout
    <2>1. ~waiting' /\ rx' = <<>> /\ \A m \in Meters : asked'[m] = <<>>
      BY <1>6 DEF Timeout
    <2> QED
      BY <2>1 DEF TimelyLine, Quiet
  <1>7. ASSUME NEW m \in Meters, Answer(m)
        PROVE  TimelyLine'
    <2>1. asked[m] # <<>> /\ UNCHANGED <<pos, part, waiting>>
      BY <1>7 DEF Answer, pollVars
    <2>2. OwnRequest /\ waiting /\ m = pos
      BY <2>1 DEF TimelyLine, Quiet, OwnRequest, OwnAnswer
    <2>3. /\ Head(asked[m]).part = part
          /\ Head(asked[m]).cur
          /\ Tail(asked[m]) = <<>>
      <3> DEFINE r == [part |-> part, cur |-> TRUE]
      <3>1. r.part = part /\ r.cur
        OBVIOUS
      <3>2. asked[m] = <<r>>
        BY <2>2 DEF OwnRequest
      <3> HIDE DEF r
      <3>3. Head(asked[m]) = r /\ Tail(asked[m]) = <<>>
        BY <3>2, Singleton
      <3> QED
        BY <3>1, <3>3
    <2>4. \A x \in Meters : asked'[x] = <<>>
      BY <1>7, <1>t, <2>2, <2>3 DEF Answer, OwnRequest
    <2> DEFINE f(good) == [from |-> m, part |-> Head(asked[m]).part,
                           cur |-> Head(asked[m]).cur, ok |-> good]
    <2>5. PICK good \in BOOLEAN : rx' = IF ctx = "open" THEN Append(rx, f(good)) ELSE rx
      BY <1>7 DEF Answer
    <2>6. f(good).part = part /\ f(good).cur
      BY <2>3
    <2> HIDE DEF f
    <2>7. CASE rx' = <<>>
      BY <2>1, <2>2, <2>4, <2>7 DEF TimelyLine, Quiet
    <2>8. CASE rx' = <<f(good)>>
      <3>1. rx' # <<>> /\ Tail(rx') = <<>> /\ Head(rx') = f(good)
        BY <2>8, Singleton
      <3>2. OwnAnswer'
        BY <2>1, <2>4, <2>6, <3>1 DEF OwnAnswer
      <3> QED
        BY <2>1, <2>2, <3>2 DEF TimelyLine
    <2>9. Append(<<>>, f(good)) = <<f(good)>>
      OBVIOUS
    <2> QED
      BY <2>2, <2>5, <2>7, <2>8, <2>9 DEF OwnRequest
  <1>8. ASSUME NEW m \in Meters, Lose(m)
        PROVE  TimelyLine'
    <2>1. asked[m] # <<>> /\ UNCHANGED <<pos, part, waiting, rx>>
      BY <1>8 DEF Lose, pollVars
    <2>2. OwnRequest /\ waiting /\ m = pos
      BY <2>1 DEF TimelyLine, Quiet, OwnRequest, OwnAnswer
    <2>3. \A x \in Meters : asked'[x] = <<>>
      BY <1>8, <1>t, <2>2 DEF Lose, OwnRequest
    <2> QED
      BY <2>1, <2>2, <2>3 DEF TimelyLine, Quiet, OwnRequest
  <1>9. CASE \/ \E c \in Cmds : SetCmd(c)
             \/ \E m \in Meters : Expire(m)
             \/ UNCHANGED vars
    <2>1. UNCHANGED <<pos, part, waiting, asked, rx>>
      BY <1>9 DEF SetCmd, Expire, vars, pollVars, lineVars
    <2> QED
      BY <2>1 DEF TimelyLine, Quiet, OwnRequest, OwnAnswer
  <1> QED
    BY <1>1, <1>2, <1>3, <1>4, <1>5, <1>6, <1>7, <1>8, <1>9 DEF Next, Worker

LEMMA TimelyGroupsStep ==
  ASSUME Owned, TimelyLine, TimelyGroups, [Next]_vars
  PROVE  TimelyGroups'
  <1>t. /\ grp \in [Meters -> [Parts -> Group]]
        /\ part \in 0..4
        /\ 4 \in Parts
    BY DEF Owned, TypeMeter, TypePoll, Parts
  <1>1. CASE Refresh
    <2>1. pos \in Meters /\ part' = 1 /\ pos' = pos
      BY <1>1 DEF Refresh, Owned, TypePoll
    <2>2. \A p \in Parts : grp'[pos][p] = [grp[pos][p] EXCEPT !.now = FALSE]
      BY <1>1, <1>t, <2>1 DEF Refresh
    <2>3. \A p \in Parts : grp'[pos][p].blk = grp[pos][p].blk /\ ~grp'[pos][p].now
      <3> SUFFICES ASSUME NEW p \in Parts
                   PROVE  grp'[pos][p].blk = grp[pos][p].blk /\ ~grp'[pos][p].now
        OBVIOUS
      <3>1. grp[pos][p] \in Group
        BY <1>t, <2>1
      <3>2. grp'[pos][p].blk = grp[pos][p].blk
        BY <2>2, <3>1 DEF Group
      <3>3. grp'[pos][p].now = FALSE
        BY <2>2, <3>1 DEF Group
      <3> QED
        BY <3>2, <3>3
    <2>4. \A m \in Meters : m # pos => grp'[m] = grp[m]
      BY <1>1, <1>t, <2>1 DEF Refresh
    <2> QED
      BY <1>t, <2>1, <2>3, <2>4 DEF TimelyGroups, Parts
  <1>2. CASE Accept
    <2> DEFINE g == [blk |-> Head(rx).part, from |-> Head(rx).from, now |-> Head(rx).cur]
    <2>1. pos \in Meters /\ part \in Parts /\ waiting /\ rx # <<>>
      BY <1>2 DEF Accept, Owned, TypePoll, Parts
    <2>2. g.blk = part /\ g.now
      BY <2>1 DEF TimelyLine, Quiet, OwnRequest, OwnAnswer
    <2>3. /\ grp'[pos][part] = g
          /\ \A p \in Parts : p # part => grp'[pos][p] = grp[pos][p]
          /\ \A m \in Meters : m # pos => grp'[m] = grp[m]
      BY <1>2, <1>t, <2>1 DEF Accept
    <2>4. \/ part < 4 /\ part' = part + 1 /\ pos' = pos
          \/ part = 4 /\ part' = 0
      BY <1>2 DEF Accept, Leave
    <2>5. \A p \in Parts : grp'[pos][p].now <=> p <= part
      BY <2>1, <2>2, <2>3 DEF TimelyGroups, Parts
    <2>6. \A m \in Meters, p \in Parts : grp'[m][p].blk \in {0, p}
      BY <2>1, <2>2, <2>3 DEF TimelyGroups
    <2>7. CASE part < 4
      <3>1. ~grp'[pos][4].now
        BY <1>t, <2>1, <2>3, <2>7 DEF TimelyGroups, Parts
      <3> QED
        BY <1>t, <2>1, <2>3, <2>4, <2>5, <2>6, <2>7, <3>1 DEF TimelyGroups, Parts
    <2>8. CASE part = 4
      <3>1. \A p \in Parts : grp'[pos][p].now
        BY <2>5, <2>8 DEF Parts
      <3> QED
        BY <2>3, <2>4, <2>6, <2>8, <3>1 DEF TimelyGroups
    <2> QED
      BY <2>1, <2>7, <2>8 DEF Parts
  <1>3. CASE \E m \in Meters : Expire(m)
    <2>1. UNCHANGED <<grp, pos, part>>
      BY <1>3 DEF Expire, pollVars
    <2> QED
      BY <2>1 DEF TimelyGroups
  <1>4. CASE ~Refresh /\ ~Accept /\ ~(\E m \in Meters : Expire(m))
    <2>1. UNCHANGED grp /\ (part' = 0 \/ UNCHANGED <<pos, part>>)
      BY <1>4, QuietSteps
    <2> QED
      BY <2>1 DEF TimelyGroups
  <1> QED
    BY <1>1, <1>2, <1>3, <1>4

LEMMA AlwaysTimely == Spec => []Timely
  <1>1. Owned /\ Timely /\ [Next]_vars => Timely'
    BY TimelyLineStep, TimelyGroupsStep DEF Timely
  <1> QED
    BY <1>1, AlwaysOwned, TimelyInit, PTL DEF Spec

\* Without late replies a completed poll is a sample of one round, each value
\* from the block it was asked from.
THEOREM SamplesAreWhole == Spec => []TimelySample
  <1>1. Timely => TimelySample
    BY DEF Timely, TimelyGroups, TimelySample, ReadsWhatWasAsked
  <1> QED
    BY <1>1, AlwaysTimely, PTL
-----------------------------------------------------------------------------
(* The channel implements Sampler                                          *)

LEMMA SamplerInit == Init => Sampling!Init
  <1> SUFFICES ASSUME Init PROVE Sampling!Init
    OBVIOUS
  <1>1. \A m \in Meters, p \in Parts : grp[m][p].blk = 0 /\ grp[m][p].now = FALSE
    BY DEF Init, Zero
  <1>2. At = 0
    BY DEF Init, At
  <1>3. Taken = [m \in Meters |-> {}]
    BY <1>1 DEF Taken
  <1>4. Known = [m \in Meters |-> {}]
    BY <1>1 DEF Known, Parts
  <1>5. Shown = [m \in Meters |-> FALSE]
    BY DEF Init, Shown
  <1>6. fresh = [m \in Meters |-> EarlyStart]
    BY DEF Init
  <1> QED
    BY <1>2, <1>3, <1>4, <1>5, <1>6 DEF Sampling!Init

\* Clearing what is current of one meter begins its reading.
LEMMA RefreshBegins ==
  ASSUME Owned, Refresh
  PROVE  Sampling!Begin(pos)
  <1>t. /\ grp \in [Meters -> [Parts -> Group]]
        /\ CommState \in [Meters -> {"ERR", "NORM"}]
        /\ fresh \in [Meters -> BOOLEAN]
    BY DEF Owned, TypeMeter
  <1>1. pos \in Meters /\ part = 0 /\ part' = 1 /\ pos' = pos /\ fresh' = fresh
    BY DEF Refresh, Owned, TypePoll
  <1>2. \A m \in Meters : m # pos => grp'[m] = grp[m]
    BY <1>t, <1>1 DEF Refresh
  <1>3. \A p \in Parts : grp'[pos][p].blk = grp[pos][p].blk /\ grp'[pos][p].now = FALSE
    <2> SUFFICES ASSUME NEW p \in Parts
                 PROVE  grp'[pos][p].blk = grp[pos][p].blk /\ grp'[pos][p].now = FALSE
      OBVIOUS
    <2>1. grp[pos][p] \in Group
      BY <1>t, <1>1
    <2>2. grp'[pos][p] = [grp[pos][p] EXCEPT !.now = FALSE]
      BY <1>t, <1>1 DEF Refresh
    <2> QED
      BY <2>1, <2>2 DEF Group
  <1>4. At = 0 /\ At' = pos
    BY <1>1 DEF At
  <1>5. Taken' = [Taken EXCEPT ![pos] = {}]
    BY <1>1, <1>2, <1>3 DEF Taken
  <1>6. Known' = Known
    BY <1>1, <1>2, <1>3 DEF Known
  <1>7. Shown' = [Shown EXCEPT ![pos] = fresh[pos]]
    <2>1. CommState' = [CommState EXCEPT ![pos] = IF fresh[pos] THEN "NORM" ELSE "ERR"]
      BY DEF Refresh
    <2>2. (CommState'[pos] = "NORM") = fresh[pos]
      BY <1>t, <1>1, <2>1
    <2>3. \A m \in Meters : m # pos => CommState'[m] = CommState[m]
      BY <1>t, <1>1, <2>1
    <2> QED
      BY <1>1, <2>2, <2>3 DEF Shown
  <1> QED
    BY <1>1, <1>4, <1>5, <1>6, <1>7 DEF Sampling!Begin

\* Without late replies the answer stored is the next part of the sample.
LEMMA AcceptTakes ==
  ASSUME Owned, TimelyLine, TimelyGroups, Accept
  PROVE  IF part < 4 THEN Sampling!Take(part) ELSE Sampling!Complete
  <1> DEFINE g == [blk |-> Head(rx).part, from |-> Head(rx).from, now |-> Head(rx).cur]
  <1>t. /\ grp \in [Meters -> [Parts -> Group]]
        /\ fresh \in [Meters -> BOOLEAN]
        /\ rx \in Seq(Frame)
        /\ 4 \in Parts
    BY DEF Owned, TypeMeter, TypeLine, Parts
  <1>1. pos \in Meters /\ part \in Parts /\ waiting /\ rx # <<>>
    BY DEF Accept, Owned, TypePoll, Parts
  <1>2. g.blk = part /\ g.now
    BY <1>1 DEF TimelyLine, Quiet, OwnRequest, OwnAnswer
  <1>3. /\ grp'[pos][part] = g
        /\ \A p \in Parts : p # part => grp'[pos][p] = grp[pos][p]
        /\ \A m \in Meters : m # pos => grp'[m] = grp[m]
    BY <1>t, <1>1 DEF Accept
  <1>4. pos # 0 /\ At = pos
    BY <1>1, ChanAssumption DEF At, Meters, Parts
  <1>5. \A p \in Parts : grp[pos][p].now <=> p < part
    BY <1>1 DEF TimelyGroups, Parts
  <1>6. \A p \in Parts : grp'[pos][p].now <=> p <= part
    BY <1>1, <1>2, <1>3, <1>5 DEF Parts
  <1>7. Taken[pos] = 1..(part - 1)
    BY <1>1, <1>5 DEF Taken, Parts
  <1>8. Taken' = [Taken EXCEPT ![pos] = 1..part]
    <2>1. {p \in Parts : grp'[pos][p].now} = 1..part
      BY <1>1, <1>6 DEF Parts
    <2> QED
      BY <1>1, <1>3, <2>1 DEF Taken
  <1>9. Known' = [Known EXCEPT ![pos] = @ \cup {part}]
    <2>1. {p \in Parts : grp'[pos][p].blk = p} = {p \in Parts : grp[pos][p].blk = p} \cup {part}
      BY <1>1, <1>2, <1>3
    <2>2. Known'[pos] = Known[pos] \cup {part}
      BY <1>1, <2>1 DEF Known
    <2>3. \A m \in Meters : m # pos => Known'[m] = Known[m]
      BY <1>3 DEF Known
    <2>4. Known' = [m \in Meters |-> Known'[m]] /\ Known = [m \in Meters |-> Known[m]]
      BY DEF Known
    <2> HIDE DEF g
    <2> QED
      BY <1>1, <2>2, <2>3, <2>4
  <1>10. Shown' = Shown
    BY DEF Accept, Shown
  <1>11. CASE part < 4
    <2>1. part' = part + 1 /\ pos' = pos /\ fresh' = fresh
      BY <1>11 DEF Accept
    <2>2. At' = At
      BY <1>1, <1>4, <2>1 DEF At, Parts
    <2> QED
      BY <1>4, <1>7, <1>8, <1>9, <1>10, <1>11, <2>1, <2>2 DEF Sampling!Take
  <1>12. CASE part = 4
    <2>1. part' = 0 /\ fresh' = [fresh EXCEPT ![pos] = TRUE]
      BY <1>12 DEF Accept, Leave
    <2>2. At' = 0
      BY <2>1 DEF At
    <2>3. Taken[At] = 1..(4 - 1)
      BY <1>4, <1>7, <1>12
    <2> QED
      BY <1>4, <1>8, <1>9, <1>10, <1>12, <2>1, <2>2, <2>3 DEF Sampling!Complete
  <1> QED
    BY <1>1, <1>11, <1>12 DEF Parts

\* A poll that ends otherwise is given up; the rest is not seen.
LEMMA QuietSamples ==
  ASSUME Owned, [Next]_vars, ~Refresh, ~Accept, ~(\E m \in Meters : Expire(m))
  PROVE  Sampling!GiveUp \/ UNCHANGED Sampling!vars
  <1>1. UNCHANGED <<grp, scaled, CommState, fresh>> /\ (part' = 0 \/ UNCHANGED <<pos, part>>)
    BY QuietSteps
  <1>2. UNCHANGED <<Taken, Known, Shown, fresh>>
    BY <1>1 DEF Taken, Known, Shown
  <1>3. CASE part' = 0 /\ part # 0
    <2>1. At # 0 /\ At' = 0
      BY <1>3 DEF At, Owned
    <2> QED
      BY <1>2, <2>1 DEF Sampling!GiveUp
  <1>4. CASE part' = 0 /\ part = 0
    <2>1. At' = At
      BY <1>4 DEF At
    <2> QED
      BY <1>2, <2>1 DEF Sampling!vars
  <1>5. CASE UNCHANGED <<pos, part>>
    <2>1. At' = At
      BY <1>5 DEF At
    <2> QED
      BY <1>2, <2>1 DEF Sampling!vars
  <1> QED
    BY <1>1, <1>3, <1>4, <1>5

LEMMA SamplerStep ==
  ASSUME Owned, Timely, ~LateReplies, [Next]_vars
  PROVE  [Sampling!Next]_(Sampling!vars)
  <1>1. CASE Refresh
    <2>1. pos \in Meters
      BY <1>1 DEF Refresh, Owned, TypePoll
    <2> QED
      BY <1>1, <2>1, RefreshBegins DEF Sampling!Next
  <1>2. CASE Accept
    <2>1. part \in 1..4
      BY <1>2 DEF Accept, Owned, TypePoll
    <2>2. TimelyLine /\ TimelyGroups
      BY DEF Timely
    <2> QED
      BY <1>2, <2>1, <2>2, AcceptTakes DEF Sampling!Next
  <1>3. CASE \E m \in Meters : Expire(m)
    <2>1. PICK m \in Meters : Expire(m)
      BY <1>3
    <2>2. UNCHANGED <<At, Taken, Known, Shown>>
      BY <2>1 DEF Expire, pollVars, At, Taken, Known, Shown
    <2>3. Sampling!Lapse(m)
      BY <2>1, <2>2 DEF Expire, Sampling!Lapse
    <2> QED
      BY <2>3 DEF Sampling!Next
  <1>4. CASE ~Refresh /\ ~Accept /\ ~(\E m \in Meters : Expire(m))
    BY <1>4, QuietSamples DEF Sampling!Next
  <1> QED
    BY <1>1, <1>2, <1>3, <1>4

\* Without late replies the channel is a Sampler to everybody who reads its
\* meters, however many there are and whatever the line loses.
THEOREM ChannelIsSampler ==
  ASSUME ~LateReplies
  PROVE  Spec => WholeSamples
  <1>1. Init => Sampling!Init
    BY SamplerInit
  <1>2. Owned /\ Timely /\ [Next]_vars => [Sampling!Next]_(Sampling!vars)
    BY SamplerStep
  <1> QED
    BY <1>1, <1>2, AlwaysOwned, AlwaysTimely, PTL DEF Spec, WholeSamples, Sampling!Spec
-----------------------------------------------------------------------------
(* A round comes to its end                                                *)

\* Inside the loop at least one step is left; going on to the next meter, or
\* out of the loop, takes more than it adds.
LEMMA LeftBounds ==
  ASSUME Owned, pos # 0
  PROVE  /\ pos \in First..Last /\ Left \in Nat
         /\ Left > 9 * (Last - pos)
  BY ChanAssumption DEF Owned, TypePoll, Meters, Left

LEMMA LeaveShrinks ==
  ASSUME Owned, pos # 0, Leave
  PROVE  Left' < Left
  <1>1. pos \in First..Last /\ Left > 9 * (Last - pos) /\ Left \in Nat
    BY LeftBounds
  <1>2. CASE pos < Last /\ pos' = pos + 1 /\ part' = 0
    <2>1. Left' = 9 * (Last - (pos + 1)) + 9
      BY <1>1, <1>2, ChanAssumption DEF Left
    <2> QED
      BY <1>1, <2>1, ChanAssumption
  <1>3. CASE pos' = 0
    BY <1>1, <1>3, ChanAssumption DEF Left
  <1> QED
    BY <1>1, <1>2, <1>3, ChanAssumption DEF Leave

LEMMA RoundStep ==
  ASSUME Owned, [Next]_vars
  PROVE  IF ~Worker THEN Left' = Left
         ELSE IF pos # 0 THEN Left' < Left
         ELSE Left' <= 9 * (Last - First + 1)
  <1> USE ChanAssumption
  <1>t. /\ pos # 0 => pos \in First..Last /\ state = "RUN"
        /\ part \in 0..4
        /\ waiting \in BOOLEAN
        /\ part # 0 => pos # 0
        /\ waiting => part # 0
    BY DEF Owned, TypePoll, HandleOwned, Meters
  <1>1. CASE ~Worker
    <2>1. UNCHANGED pollVars
      BY <1>1 DEF Next, SetCmd, Answer, Lose, Expire, vars
    <2> QED
      BY <1>1, <2>1 DEF pollVars, Left
  <1>2. CASE InitOk \/ InitFail \/ Reset
    <2>1. pos = 0 /\ pos' = 0
      BY <1>2, <1>t DEF InitOk, InitFail, Reset, pollVars
    <2> QED
      BY <1>2, <2>1 DEF Left, Worker
  <1>3. CASE BeginRound
    <2>1. pos = 0 /\ pos' = First /\ part' = 0
      BY <1>3, <1>t DEF BeginRound
    <2>2. Left' <= 9 * (Last - First + 1)
      BY <2>1 DEF Left
    <2> QED
      BY <1>3, <2>1, <2>2 DEF Worker
  <1>4. CASE Refresh
    <2>1. pos # 0 /\ part = 0 /\ pos' = pos /\ part' = 1
      BY <1>4 DEF Refresh
    <2>2. Left' < Left
      BY <1>t, <2>1 DEF Left
    <2> QED
      BY <1>4, <2>1, <2>2 DEF Worker
  <1>5. CASE Ask
    <2>1. part # 0 /\ pos # 0 /\ pos' = pos /\ part' = part /\ ~waiting /\ waiting'
      BY <1>5, <1>t DEF Ask
    <2>2. Left' < Left
      BY <1>t, <2>1 DEF Left
    <2> QED
      BY <1>5, <2>1, <2>2 DEF Worker
  <1>6. CASE Accept /\ part < 4
    <2>1. pos # 0 /\ pos' = pos /\ part' = part + 1 /\ part # 0 /\ waiting /\ ~waiting'
      BY <1>6, <1>t DEF Accept
    <2>2. Left' < Left
      BY <1>t, <1>6, <2>1 DEF Left
    <2> QED
      BY <1>6, <2>1, <2>2 DEF Worker
  <1>7. CASE SendFail \/ (Accept /\ ~(part < 4)) \/ Reject \/ Timeout
    <2>1. pos # 0 /\ Leave
      BY <1>7, <1>t DEF SendFail, Accept, Reject, Timeout
    <2> QED
      BY <1>7, <2>1, LeaveShrinks DEF Worker
  <1> QED
    BY <1>1, <1>2, <1>3, <1>4, <1>5, <1>6, <1>7 DEF Worker

\* A round over any number of meters takes at most nine steps of the worker
\* for each, and nobody else can add one.
THEOREM RoundsEnd == Spec => RoundShrinks
  <1>1. Owned /\ [Next]_vars =>
          [IF ~Worker THEN Left' = Left
           ELSE IF pos # 0 THEN Left' < Left
           ELSE Left' <= 9 * (Last - First + 1)]_vars
    BY RoundStep
  <1> QED
    BY <1>1, AlwaysOwned, PTL DEF Spec, RoundShrinks

-----------------------------------------------------------------------------
(* What a worker that runs comes to                                        *)

\* Where the loop goes from meter m, and how many steps it has left there.
After(m) == IF m < Last THEN m + 1 ELSE 0
Stage == IF part = 0 THEN 9 ELSE 9 - 2 * part + IF waiting THEN 0 ELSE 1

LEMMA StageRange == Owned => Stage \in 1..9
  BY DEF Owned, TypePoll, Stage

LEMMA MeterStep ==
  ASSUME Owned, NEW m \in Meters, pos = m, [Next]_vars
  PROVE  /\ Worker => (pos' = m /\ Stage' = Stage - 1) \/ pos' = After(m)
         /\ ~Worker => pos' = m /\ Stage' = Stage
  <1> USE ChanAssumption
  <1>t. /\ pos # 0 /\ state = "RUN"
        /\ part \in 0..4
        /\ waiting \in BOOLEAN
        /\ waiting => part # 0
    BY DEF Owned, TypePoll, HandleOwned, Meters
  <1>1. CASE ~Worker
    <2>1. UNCHANGED pollVars
      BY <1>1 DEF Next, SetCmd, Answer, Lose, Expire, vars
    <2> QED
      BY <1>1, <2>1 DEF pollVars, Stage
  <1>2. CASE InitOk \/ InitFail \/ Reset \/ BeginRound
    BY <1>2, <1>t DEF InitOk, InitFail, Reset, BeginRound
  <1>3. CASE Refresh
    <2>1. part = 0 /\ pos' = pos /\ part' = 1 /\ waiting' = waiting
      BY <1>3 DEF Refresh
    <2> QED
      BY <1>3, <1>t, <2>1 DEF Stage, Worker
  <1>4. CASE Ask
    <2>1. part # 0 /\ pos' = pos /\ part' = part /\ ~waiting /\ waiting'
      BY <1>4 DEF Ask
    <2> QED
      BY <1>4, <1>t, <2>1 DEF Stage, Worker
  <1>5. CASE Accept /\ part < 4
    <2>1. pos' = pos /\ part' = part + 1 /\ part # 0 /\ waiting /\ ~waiting'
      BY <1>5, <1>t DEF Accept
    <2> QED
      BY <1>5, <1>t, <2>1 DEF Stage, Worker
  <1>6. CASE SendFail \/ (Accept /\ ~(part < 4)) \/ Reject \/ Timeout
    <2>1. Leave
      BY <1>6, <1>t DEF SendFail, Accept, Reject, Timeout
    <2> QED
      BY <1>6, <2>1 DEF Leave, After, Worker
  <1> QED
    BY <1>1, <1>2, <1>3, <1>4, <1>5, <1>6 DEF Worker

\* A worker that runs is done with every meter after a while.
LEMMA MeterDone ==
  ASSUME NEW m \in Meters
  PROVE  Spec /\ WorkerRuns => [](pos = m => <>(pos = After(m)))
  <1> DEFINE D(k) == Owned /\ pos = m /\ Stage = k
             Done == pos = After(m)
  <1>1. ASSUME NEW k \in 1..9, D(k), [Next]_vars
        PROVE  /\ D(k)' \/ D(k - 1)' \/ Done'
               /\ Worker => D(k - 1)' \/ Done'
    <2>1. Owned'
      BY <1>1, OwnedStep
    <2> QED
      BY <1>1, <2>1, MeterStep
  <1>2. ~D(0)
    BY StageRange
  <1>3. Owned /\ pos = m =>
          D(1) \/ D(2) \/ D(3) \/ D(4) \/ D(5) \/ D(6) \/ D(7) \/ D(8) \/ D(9)
    BY StageRange
  <1>4. Owned /\ pos = m => ~(state = "ERR" /\ Cmd # "RESET")
    BY ChanAssumption DEF Owned, HandleOwned, Meters
  <1>a1. D(1) /\ [Next]_vars => D(1)' \/ D(0)' \/ Done'
    BY <1>1
  <1>b1. D(1) /\ [Next]_vars /\ <<Worker>>_vars => D(0)' \/ Done'
    BY <1>1
  <1>a2. D(2) /\ [Next]_vars => D(2)' \/ D(1)' \/ Done'
    BY <1>1
  <1>b2. D(2) /\ [Next]_vars /\ <<Worker>>_vars => D(1)' \/ Done'
    BY <1>1
  <1>a3. D(3) /\ [Next]_vars => D(3)' \/ D(2)' \/ Done'
    BY <1>1
  <1>b3. D(3) /\ [Next]_vars /\ <<Worker>>_vars => D(2)' \/ Done'
    BY <1>1
  <1>a4. D(4) /\ [Next]_vars => D(4)' \/ D(3)' \/ Done'
    BY <1>1
  <1>b4. D(4) /\ [Next]_vars /\ <<Worker>>_vars => D(3)' \/ Done'
    BY <1>1
  <1>a5. D(5) /\ [Next]_vars => D(5)' \/ D(4)' \/ Done'
    BY <1>1
  <1>b5. D(5) /\ [Next]_vars /\ <<Worker>>_vars => D(4)' \/ Done'
    BY <1>1
  <1>a6. D(6) /\ [Next]_vars => D(6)' \/ D(5)' \/ Done'
    BY <1>1
  <1>b6. D(6) /\ [Next]_vars /\ <<Worker>>_vars => D(5)' \/ Done'
    BY <1>1
  <1>a7. D(7) /\ [Next]_vars => D(7)' \/ D(6)' \/ Done'
    BY <1>1
  <1>b7. D(7) /\ [Next]_vars /\ <<Worker>>_vars => D(6)' \/ Done'
    BY <1>1
  <1>a8. D(8) /\ [Next]_vars => D(8)' \/ D(7)' \/ Done'
    BY <1>1
  <1>b8. D(8) /\ [Next]_vars /\ <<Worker>>_vars => D(7)' \/ Done'
    BY <1>1
  <1>a9. D(9) /\ [Next]_vars => D(9)' \/ D(8)' \/ Done'
    BY <1>1
  <1>b9. D(9) /\ [Next]_vars /\ <<Worker>>_vars => D(8)' \/ Done'
    BY <1>1
  <1>5. D(1) \/ D(2) \/ D(3) \/ D(4) \/ D(5) \/ D(6) \/ D(7) \/ D(8) \/ D(9)
          => Owned /\ pos = m
    OBVIOUS
  <1>6. Done <=> pos = After(m)
    OBVIOUS
  <1> HIDE DEF D, Done
  <1>7. Spec => []Owned
    BY AlwaysOwned
  <1> QED
    BY <1>2, <1>3, <1>4, <1>5, <1>6, <1>7, <1>a1, <1>a2, <1>a3, <1>a4, <1>a5, <1>a6,
       <1>a7, <1>a8, <1>a9, <1>b1, <1>b2, <1>b3, <1>b4, <1>b5, <1>b6, <1>b7, <1>b8,
       <1>b9, PTL DEF Spec, WorkerRuns

\* What a running worker does between two rounds.
LEMMA IdleStep ==
  ASSUME Owned, pos = 0, state = "RUN", [Next]_vars
  PROVE  /\ pos' \in {0, First} \/ state' # "RUN"
         /\ Worker => pos' = First \/ state' # "RUN"
  <1>t. part = 0 /\ ~waiting
    BY DEF Owned, TypePoll
  <1>1. CASE InitOk \/ InitFail \/ Reset \/ BeginRound
    BY <1>1 DEF InitOk, InitFail, Reset, BeginRound, pollVars
  <1>2. CASE Refresh \/ Ask \/ SendFail \/ Accept \/ Reject \/ Timeout
    BY <1>2, <1>t DEF Refresh, Ask, SendFail, Accept, Reject, Timeout
  <1>3. CASE ~Worker
    <2>1. UNCHANGED pollVars
      BY <1>3 DEF Next, SetCmd, Answer, Lose, Expire, vars
    <2> QED
      BY <1>3, <2>1 DEF pollVars
  <1> QED
    BY <1>1, <1>2, <1>3 DEF Worker

\* Outside the loop a running channel begins a round or takes its RESET.
LEMMA RoundBegins == Spec /\ WorkerRuns => [](pos = 0 => <>(pos = First \/ state # "RUN"))
  <1> DEFINE Idle == Owned /\ pos = 0 /\ state = "RUN"
             Off == pos = First \/ state # "RUN"
  <1>1. Idle /\ [Next]_vars => Idle' \/ Off'
    <2> SUFFICES ASSUME Idle, [Next]_vars PROVE Idle' \/ Off'
      OBVIOUS
    <2>1. Owned'
      BY OwnedStep
    <2>2. pos' \in {0, First} \/ state' # "RUN"
      BY IdleStep
    <2> QED
      BY <2>1, <2>2
  <1>2. Idle /\ [Next]_vars /\ <<Worker>>_vars => Off'
    BY IdleStep
  <1>3. Idle => ~(state = "ERR" /\ Cmd # "RESET")
    OBVIOUS
  <1>4. Owned /\ pos = 0 => Idle \/ Off
    OBVIOUS
  <1>5. Off <=> (pos = First \/ state # "RUN")
    OBVIOUS
  <1> HIDE DEF Idle, Off
  <1> QED
    BY <1>1, <1>2, <1>3, <1>4, <1>5, AlwaysOwned, PTL DEF Spec, WorkerRuns

\* The code's channels have two meters or one (1..2, 3..4, 5..5).  A worker
\* that runs comes to each of them again and again, whatever they answer.
THEOREM NobodyStarves ==
  ASSUME Last <= First + 1
  PROVE  Spec /\ WorkerRuns => NoMeterStarved
  <1> DEFINE Off(m) == pos = m \/ state # "RUN"
  <1>m. First \in Meters /\ Last \in Meters /\ \A m \in Meters : m = First \/ m = Last
    BY ChanAssumption DEF Meters
  <1>1. Spec /\ WorkerRuns => [](pos = First => <>(pos = After(First)))
    <2>1. ASSUME NEW m \in Meters, m = First
          PROVE  Spec /\ WorkerRuns => [](pos = First => <>(pos = After(First)))
      <3>1. Spec /\ WorkerRuns => [](pos = m => <>(pos = After(m)))
        BY MeterDone
      <3>2. (pos = m <=> pos = First) /\ (pos = After(m) <=> pos = After(First))
        BY <2>1
      <3> QED
        BY <3>1, <3>2, PTL
    <2> QED
      BY <1>m, <2>1
  <1>2. Spec /\ WorkerRuns => [](pos = Last => <>(pos = After(Last)))
    <2>1. ASSUME NEW m \in Meters, m = Last
          PROVE  Spec /\ WorkerRuns => [](pos = Last => <>(pos = After(Last)))
      <3>1. Spec /\ WorkerRuns => [](pos = m => <>(pos = After(m)))
        BY MeterDone
      <3>2. (pos = m <=> pos = Last) /\ (pos = After(m) <=> pos = After(Last))
        BY <2>1
      <3> QED
        BY <3>1, <3>2, PTL
    <2> QED
      BY <1>m, <2>1
  <1>3. pos = After(Last) => pos = 0
    BY ChanAssumption DEF After
  <1>4. pos = After(First) => pos = Last \/ pos = 0
    BY ChanAssumption DEF After
  <1>5. Owned => pos = 0 \/ pos = First \/ pos = Last
    BY <1>m DEF Owned, TypePoll
  <1>6. Spec /\ WorkerRuns => []<>(pos = First \/ state # "RUN")
    BY <1>1, <1>2, <1>3, <1>4, <1>5, RoundBegins, AlwaysOwned, PTL
  <1>7. ASSUME Last # First
        PROVE  Spec /\ WorkerRuns => []<>(pos = Last \/ state # "RUN")
    <2>1. pos = After(First) => pos = Last
      BY <1>7, ChanAssumption DEF After
    <2> QED
      BY <1>1, <1>6, <2>1, PTL
  <1>8. ASSUME NEW m \in Meters
        PROVE  Spec /\ WorkerRuns => []<>(pos = m \/ state # "RUN")
    <2>1. CASE m = First
      <3>1. pos = m <=> pos = First
        BY <2>1
      <3> QED
        BY <1>6, <3>1, PTL
    <2>2. CASE m # First
      <3>1. Last # First /\ (pos = m <=> pos = Last)
        BY <1>m, <2>2
      <3>2. Spec /\ WorkerRuns => []<>(pos = Last \/ state # "RUN")
        BY <1>7, <3>1
      <3> QED
        BY <3>1, <3>2, PTL
    <2> QED
      BY <2>1, <2>2
  <1> QED
    BY <1>8 DEF NoMeterStarved

\* The worker comes back to the head of its loop, where it looks for commands:
\* it is done with its last meter, or the channel does not run.
LEMMA LoopReturns == Spec /\ WorkerRuns /\ NoMeterStarved => []<>(pos = 0)
  <1>1. ASSUME NEW m \in Meters, m = Last
        PROVE  Spec /\ WorkerRuns /\ NoMeterStarved => []<>(pos = 0)
    <2>1. Spec /\ WorkerRuns => [](pos = m => <>(pos = After(m)))
      BY MeterDone
    <2>2. NoMeterStarved => []<>(pos = m \/ state # "RUN")
      BY DEF NoMeterStarved
    <2>3. pos = After(m) => pos = 0
      BY <1>1, ChanAssumption DEF After
    <2>4. Owned /\ state # "RUN" => pos = 0
      BY DEF Owned, HandleOwned
    <2> QED
      BY <2>1, <2>2, <2>3, <2>4, AlwaysOwned, PTL
  <1>2. Last \in Meters
    BY ChanAssumption DEF Meters
  <1> QED
    BY <1>1, <1>2

\* A RESET found at the head of the loop is carried out, after one more step
\* if the channel has yet to connect; or a web client overwrites it.
LEMMA ResetStep ==
  ASSUME Owned, pos = 0, Cmd = "RESET", [Next]_vars
  PROVE  /\ pos' = 0 \/ Cmd' # "RESET"
         /\ state = "INIT" => state' \in {"INIT", "RUN", "ERR"}
         /\ state # "INIT" => state' = state \/ Cmd' # "RESET"
         /\ Worker => \/ state = "INIT" /\ state' # "INIT"
                      \/ Cmd' # "RESET"
  <1>t. part = 0 /\ ~waiting /\ state \in {"INIT", "RUN", "ERR"}
    BY DEF Owned, TypeChan
  <1>1. CASE InitOk \/ InitFail
    BY <1>1 DEF InitOk, InitFail, pollVars
  <1>2. CASE Reset
    BY <1>2 DEF Reset
  <1>3. CASE BeginRound \/ Refresh \/ Ask \/ SendFail \/ Accept \/ Reject \/ Timeout
    BY <1>3, <1>t DEF BeginRound, Refresh, Ask, SendFail, Accept, Reject, Timeout
  <1>4. CASE ~Worker
    <2>1. UNCHANGED <<pollVars, state>>
      BY <1>4 DEF Next, SetCmd, Answer, Lose, Expire, vars, chanVars
    <2> QED
      BY <1>4, <1>t, <2>1 DEF pollVars
  <1> QED
    BY <1>1, <1>2, <1>3, <1>4 DEF Worker

\* In whatever state and however deep in a round a RESET arrives, a worker
\* that runs, and that no meter keeps, takes it.
THEOREM ResetIsTaken == Spec /\ WorkerRuns /\ NoMeterStarved => ResetTaken
  <1> DEFINE Wanted == Owned /\ pos = 0 /\ Cmd = "RESET"
             ToConnect == Wanted /\ state = "INIT"
             ToReset == Wanted /\ state # "INIT"
             Over == Cmd # "RESET"
  <1>1. ToConnect /\ [Next]_vars => ToConnect' \/ ToReset' \/ Over'
    BY OwnedStep, ResetStep
  <1>2. ToConnect /\ [Next]_vars /\ <<Worker>>_vars => ToReset' \/ Over'
    BY OwnedStep, ResetStep
  <1>3. ToReset /\ [Next]_vars => ToReset' \/ Over'
    BY OwnedStep, ResetStep
  <1>4. ToReset /\ [Next]_vars /\ <<Worker>>_vars => Over'
    BY OwnedStep, ResetStep
  <1>5. Owned /\ pos = 0 => ToConnect \/ ToReset \/ Over
    OBVIOUS
  <1>6. Over <=> Cmd # "RESET"
    OBVIOUS
  <1> HIDE DEF ToConnect, ToReset, Over
  <1> QED
    BY <1>1, <1>2, <1>3, <1>4, <1>5, <1>6, LoopReturns, AlwaysOwned, PTL
       DEF Spec, WorkerRuns, ResetTaken

\* The loop comes to a meter at the head of its body only, and that judges it.
LEMMA JudgeStep ==
  ASSUME Owned, NEW m \in Meters, [Next]_vars
  PROVE  /\ pos # m /\ pos' = m => part' = 0
         /\ pos = m /\ part = 0 => /\ ~Worker => pos' = m /\ part' = 0
                                   /\ Worker /\ ~fresh[m] => CommState'[m] = "ERR"
  <1>t. m # 0 /\ (waiting => part # 0) /\ (part # 0 => pos # 0)
        /\ pos \in {0} \cup Meters /\ part \in 0..4
        /\ CommState \in [Meters -> {"ERR", "NORM"}]
        /\ (pos # 0 => state = "RUN")
    BY ChanAssumption DEF Owned, HandleOwned, TypePoll, TypeMeter, Meters
  <1>1. CASE InitOk \/ InitFail \/ Reset
    <2>1. pos = 0 /\ pos' = 0
      BY <1>1, <1>t DEF InitOk, InitFail, Reset, pollVars
    <2> QED
      BY <1>t, <2>1
  <1>2. CASE BeginRound
    BY <1>2, <1>t DEF BeginRound
  <1>3. CASE Refresh
    <2>1. pos' = pos /\ (pos = m /\ ~fresh[m] => CommState'[m] = "ERR")
      BY <1>3, <1>t DEF Refresh
    <2> QED
      BY <1>3, <2>1 DEF Worker
  <1>4. CASE Ask \/ (Accept /\ part < 4)
    <2>1. part # 0 /\ pos' = pos
      BY <1>4, <1>t DEF Ask, Accept
    <2> QED
      BY <1>4, <2>1 DEF Worker
  <1>5. CASE SendFail \/ (Accept /\ ~(part < 4)) \/ Reject \/ Timeout
    <2>1. part # 0 /\ part' = 0
      BY <1>5, <1>t DEF SendFail, Accept, Reject, Timeout, Leave
    <2> QED
      BY <1>5, <2>1 DEF Worker
  <1>6. CASE ~Worker
    <2>1. UNCHANGED pollVars
      BY <1>6 DEF Next, SetCmd, Answer, Lose, Expire, vars
    <2> QED
      BY <1>6, <2>1 DEF pollVars
  <1> QED
    BY <1>1, <1>2, <1>3, <1>4, <1>5, <1>6 DEF Worker

\* A meter whose last complete poll is over 5 s old is called faulty the next
\* time the loop comes to it, unless it has been polled or the channel stops.
THEOREM SilenceIsNoticed == Spec /\ WorkerRuns /\ NoMeterStarved => StaleNoticed
  <1>1. ASSUME NEW m \in Meters
        PROVE  Spec /\ WorkerRuns /\ NoMeterStarved =>
                 ((CommState[m] = "NORM" /\ ~fresh[m])
                    ~> (CommState[m] = "ERR" \/ fresh[m] \/ state # "RUN"))
    <2> DEFINE Here == pos = m
               Judging == Owned /\ pos = m /\ part = 0
               Seen == CommState[m] = "ERR" \/ fresh[m] \/ state # "RUN"
    <2>1. Owned /\ ~Here /\ [Next]_vars => ~Here' \/ Judging'
      BY OwnedStep, JudgeStep
    <2>2. Judging /\ [Next]_vars => Judging' \/ Seen' \/ Seen
      BY OwnedStep, JudgeStep
    <2>3. Judging /\ [Next]_vars /\ <<Worker>>_vars => Seen' \/ Seen
      BY JudgeStep
    <2>4. Judging => ~(state = "ERR" /\ Cmd # "RESET")
      BY ChanAssumption DEF Owned, HandleOwned, Meters
    <2>5. pos = After(m) => ~Here
      BY ChanAssumption DEF After, Meters
    <2>6. Here <=> pos = m
      OBVIOUS
    <2>7. Seen <=> (CommState[m] = "ERR" \/ fresh[m] \/ state # "RUN")
      OBVIOUS
    <2>8. Spec /\ WorkerRuns => [](pos = m => <>(pos = After(m)))
      BY MeterDone
    <2>9. NoMeterStarved => []<>(pos = m \/ state # "RUN")
      BY DEF NoMeterStarved
    <2> HIDE DEF Here, Judging, Seen
    <2> QED
      BY <2>1, <2>2, <2>3, <2>4, <2>5, <2>6, <2>7, <2>8, <2>9, AlwaysOwned, PTL
         DEF Spec, WorkerRuns
  <1> QED
    BY <1>1 DEF StaleNoticed

\* Together, for the channels of the code: as long as its worker runs, no meter
\* waits for ever, no RESET is forgotten and no silence goes unnoticed.
THEOREM ChannelGoesOn ==
  ASSUME Last <= First + 1
  PROVE  Spec /\ WorkerRuns => NoMeterStarved /\ ResetTaken /\ StaleNoticed
  BY NobodyStarves, ResetIsTaken, SilenceIsNoticed, PTL
=============================================================================
