------------------------------ MODULE Chan485 ------------------------------
(***************************************************************************)
(* One RS-485 channel of the meter gateway: the worker thread that polls   *)
(* the DTSD1352 meters First..Last of the channel over Modbus RTU          *)
(* (thrd_485_1, thrd_485_2 and thrd_485_4 of appl.c), the web handler that *)
(* writes the channel's command (handle_comm_set of net.c), the part of    *)
(* libmodbus that decides whether a received frame answers a request, and  *)
(* the meters at the other end of the line.                                *)
(*                                                                         *)
(* A meter's register values are abstracted to their origin: grp[m][p]     *)
(* says from which meter and register block the values of part p of meter  *)
(* m were read, and whether by this poll's own request.  The clock is      *)
(* abstracted to fresh[m], "mg_millis() - LastUpdate <= 5000".             *)
(* The error code and the texts set by appl_485_set_state are functions    *)
(* of state; the request, failure and loop counters only feed a web page.  *)
(***************************************************************************)
EXTENDS Integers, Sequences

CONSTANTS First, Last,  \* the bounds of the worker's loop over its meters
          LateReplies,  \* may a meter answer after its request timed out?
          EarlyStart,   \* did the program start within 5 s of the boot?
          MaxPending,   \* bound: requests a meter can have unanswered
          MaxRx         \* bound: frames the receive buffer can hold

ASSUME ChanAssumption ==
  /\ First \in Nat \ {0}
  /\ Last \in Nat
  /\ First <= Last
  /\ LateReplies \in BOOLEAN
  /\ EarlyStart \in BOOLEAN
  /\ MaxPending \in Nat \ {0}
  /\ MaxRx \in Nat \ {0}

Meters == First..Last

\* The four register blocks a poll reads, in order, and their sizes:
\* 1 energies, 2 voltages and currents, 3 PT and CT, 4 power and demand.
Parts == 1..4
nbr == <<32, 23, 32, 60>>

\* A request as the meter holds it; cur marks the one the worker waits for.
Request == [part : Parts, cur : BOOLEAN]
\* A frame on its way to the worker; ok: the CRC, the function code and the
\* length are those of a proper answer.
Frame == [from : Meters, part : Parts, cur : BOOLEAN, ok : BOOLEAN]
\* Where the values of one part come from; blk = 0: still the initial zeros.
Group == [blk : 0..4, from : 0..Last, now : BOOLEAN]
Zero == [blk |-> 0, from |-> 0, now |-> FALSE]

Cmds == {"DONE", "RESET", "OTHER"}

VARIABLES
  state,      \* ch->state
  Cmd,        \* ch->Cmd
  ctx,        \* the worker's modbus context: "null" or "open"
  fds,        \* serial devices the process holds open for this channel
  pos,        \* i of the worker's for loop, 0 outside it
  part,       \* the block being read, 0 before the first
  waiting,    \* is the worker inside _modbus_receive_msg?
  asked,      \* asked[m]: the requests meter m has yet to answer
  rx,         \* frames in the receive buffer of the serial device
  grp,        \* grp[m][p]: origin of the values of part p of meter m
  scaled,     \* scaled[m]: were m's energies computed with a PT and CT read?
  CommState,  \* m->CommState
  fresh       \* m->LastUpdate is at most 5000 ms old

chanVars == <<state, Cmd, ctx, fds>>
pollVars == <<pos, part, waiting>>
lineVars == <<asked, rx>>
meterVars == <<grp, scaled, CommState, fresh>>
vars == <<chanVars, pollVars, lineVars, meterVars>>

TypeOK ==
  /\ state \in {"INIT", "RUN", "ERR"}
  /\ Cmd \in Cmds
  /\ ctx \in {"null", "open"}
  /\ fds \in Nat
  /\ pos \in {0} \cup Meters
  /\ part \in 0..4
  /\ waiting \in BOOLEAN
  /\ asked \in [Meters -> Seq(Request)]
  /\ rx \in Seq(Frame)
  /\ grp \in [Meters -> [Parts -> Group]]
  /\ scaled \in [Meters -> BOOLEAN]
  /\ CommState \in [Meters -> {"ERR", "NORM"}]
  /\ fresh \in [Meters -> BOOLEAN]

Init ==
  /\ state = "INIT"
  /\ Cmd = "DONE"
  /\ ctx = "null"
  /\ fds = 0
  /\ pos = 0
  /\ part = 0
  /\ waiting = FALSE
  /\ asked = [m \in Meters |-> <<>>]
  /\ rx = <<>>
  /\ grp = [m \in Meters |-> [p \in Parts |-> Zero]]
  /\ scaled = [m \in Meters |-> FALSE]
  /\ CommState = [m \in Meters |-> "ERR"]
  /\ fresh = [m \in Meters |-> EarlyStart]

-----------------------------------------------------------------------------
(* The worker: connection                                                  *)

\* Mutant of InitOk: connecting clears the PT and CT read before.
InitOkForgetsRatio ==
  /\ state = "INIT"
  /\ state' = "RUN"
  /\ ctx' = "open"
  /\ fds' = fds + 1
  /\ grp' = [m \in Meters |-> [grp[m] EXCEPT ![3] = Zero]]
  /\ UNCHANGED <<Cmd, pollVars, lineVars, scaled, CommState, fresh>>

\* ST_485_INIT, modbus_new_rtu and modbus_connect succeed.
InitOk ==
  /\ state = "INIT"
  /\ state' = "RUN"
  /\ ctx' = "open"
  /\ fds' = fds + 1
  /\ UNCHANGED <<Cmd, pollVars, lineVars, meterVars>>

\* ST_485_INIT, one of them fails; what was allocated is freed again.
InitFail ==
  /\ state = "INIT"
  /\ state' = "ERR"
  /\ ctx' = "null"
  /\ UNCHANGED <<Cmd, fds, pollVars, lineVars, meterVars>>

\* Mutant of Reset: the context is freed but its device never closed.
ResetKeepsDevice ==
  /\ state \in {"RUN", "ERR"}
  /\ pos = 0
  /\ Cmd = "RESET"
  /\ Cmd' = "DONE"
  /\ ctx' = "null"
  /\ rx' = <<>>
  /\ state' = "INIT"
  /\ UNCHANGED <<fds, pollVars, asked, meterVars>>

\* Mutant of Reset: the command is not looked at in ST_485_ERR.
ResetOnlyInRun ==
  /\ state = "RUN"
  /\ pos = 0
  /\ Cmd = "RESET"
  /\ Cmd' = "DONE"
  /\ fds' = fds - 1
  /\ ctx' = "null"
  /\ rx' = <<>>
  /\ state' = "INIT"
  /\ UNCHANGED <<pollVars, asked, meterVars>>

\* CMD_485_RESET, looked at only at the top of the loop, in RUN and in ERR.
\* Closing the device discards its receive buffer.
Reset ==
  /\ state \in {"RUN", "ERR"}
  /\ pos = 0
  /\ Cmd = "RESET"
  /\ Cmd' = "DONE"
  /\ fds' = IF ctx = "open" THEN fds - 1 ELSE fds
  /\ ctx' = "null"
  /\ rx' = <<>>
  /\ state' = "INIT"
  /\ UNCHANGED <<pollVars, asked, meterVars>>

-----------------------------------------------------------------------------
(* The worker: one round over the channel's meters                         *)

BeginRound ==
  /\ state = "RUN"
  /\ pos = 0
  /\ Cmd # "RESET"
  /\ pos' = First
  /\ UNCHANGED <<chanVars, part, waiting, lineVars, meterVars>>

\* Mutant of Refresh: CommState is only ever set to normal.
RefreshNeverErr ==
  /\ pos # 0
  /\ part = 0
  /\ CommState' = [CommState EXCEPT ![pos] = IF fresh[pos] THEN "NORM" ELSE @]
  /\ grp' = [grp EXCEPT ![pos] = [p \in Parts |-> [grp[pos][p] EXCEPT !.now = FALSE]]]
  /\ part' = 1
  /\ UNCHANGED <<chanVars, pos, waiting, lineVars, scaled, fresh>>

\* The head of the loop's body: the age of the last complete poll decides
\* CommState, before this round has read anything.
Refresh ==
  /\ pos # 0
  /\ part = 0
  /\ CommState' = [CommState EXCEPT ![pos] = IF fresh[pos] THEN "NORM" ELSE "ERR"]
  /\ grp' = [grp EXCEPT ![pos] = [p \in Parts |-> [grp[pos][p] EXCEPT !.now = FALSE]]]
  /\ part' = 1
  /\ UNCHANGED <<chanVars, pos, waiting, lineVars, scaled, fresh>>

\* Mutant of Leave: the loop's bound is off by one.
LeaveOneTooFar ==
  /\ pos' = IF pos <= Last THEN pos + 1 ELSE 0
  /\ part' = 0

\* No part of this meter is left to read in this round.
Leave ==
  /\ pos' = IF pos < Last THEN pos + 1 ELSE 0
  /\ part' = 0

\* The messages of an earlier request stop being the current one's.
Outdated(s) == [i \in 1..Len(s) |-> [s[i] EXCEPT !.cur = FALSE]]

\* modbus_read_registers sends its request.  Nothing is flushed first: what
\* the buffer holds stays.  The meter gets the request or the line loses it.
Ask ==
  /\ part # 0
  /\ ~waiting
  /\ waiting' = TRUE
  /\ rx' = Outdated(rx)
  /\ LET old == [m \in Meters |-> Outdated(asked[m])]
     IN  \/ asked' = old
         \/ /\ Len(asked[pos]) < MaxPending
            /\ asked' = [old EXCEPT ![pos] = Append(@, [part |-> part, cur |-> TRUE])]
  /\ UNCHANGED <<chanVars, pos, part, meterVars>>

\* The request cannot be written to the device: rc # nbr, flush, next meter.
SendFail ==
  /\ part # 0
  /\ ~waiting
  /\ rx' = <<>>
  /\ Leave
  /\ UNCHANGED <<chanVars, waiting, asked, meterVars>>

\* Mutant of Confirms: no comparison of the slave.
ConfirmsAnySlave(f) == f.ok /\ nbr[f.part] = nbr[part]

\* check_integrity and check_confirmation: slave, function and number of
\* registers are compared, the register address is not in an answer.
Confirms(f) ==
  /\ f.ok
  /\ f.from = pos
  /\ nbr[f.part] = nbr[part]

\* Mutant of Accept: LastUpdate is stamped by every part.
AcceptStampsEachPart ==
  /\ waiting
  /\ rx # <<>>
  /\ Confirms(Head(rx))
  /\ rx' = Tail(rx)
  /\ waiting' = FALSE
  /\ grp' = [grp EXCEPT ![pos] = [@ EXCEPT ![part] =
               [blk |-> Head(rx).part, from |-> Head(rx).from, now |-> Head(rx).cur]]]
  /\ scaled' = IF part = 1 THEN [scaled EXCEPT ![pos] = grp[pos][3].blk # 0]
                           ELSE scaled
  /\ fresh' = [fresh EXCEPT ![pos] = TRUE]
  /\ IF part < 4 THEN part' = part + 1 /\ pos' = pos ELSE Leave
  /\ UNCHANGED <<chanVars, asked, CommState>>

\* The answer is stored.  Part 1 is scaled with the PT and CT of an earlier
\* part 3; part 4 stamps LastUpdate.
Accept ==
  /\ waiting
  /\ rx # <<>>
  /\ Confirms(Head(rx))
  /\ rx' = Tail(rx)
  /\ waiting' = FALSE
  /\ grp' = [grp EXCEPT ![pos] = [@ EXCEPT ![part] =
               [blk |-> Head(rx).part, from |-> Head(rx).from, now |-> Head(rx).cur]]]
  /\ scaled' = IF part = 1 THEN [scaled EXCEPT ![pos] = grp[pos][3].blk # 0]
                           ELSE scaled
  /\ \/ /\ part < 4
        /\ part' = part + 1
        /\ UNCHANGED <<pos, fresh>>
     \/ /\ part = 4
        /\ fresh' = [fresh EXCEPT ![pos] = TRUE]
        /\ Leave
  /\ UNCHANGED <<chanVars, asked, CommState>>

\* The frame does not answer the request: flush, next meter.
Reject ==
  /\ waiting
  /\ rx # <<>>
  /\ ~Confirms(Head(rx))
  /\ rx' = <<>>
  /\ waiting' = FALSE
  /\ Leave
  /\ UNCHANGED <<chanVars, asked, meterVars>>

\* Mutants of Timeout: the parts that follow are read all the same; or the
\* whole round is given up.
TimeoutReadsOn ==
  /\ waiting
  /\ rx = <<>>
  /\ asked' = IF LateReplies THEN asked ELSE [m \in Meters |-> <<>>]
  /\ waiting' = FALSE
  /\ IF part < 4 THEN part' = part + 1 /\ pos' = pos ELSE Leave
  /\ UNCHANGED <<chanVars, rx, meterVars>>
TimeoutEndsRound ==
  /\ waiting
  /\ rx = <<>>
  /\ asked' = IF LateReplies THEN asked ELSE [m \in Meters |-> <<>>]
  /\ waiting' = FALSE
  /\ pos' = 0
  /\ part' = 0
  /\ UNCHANGED <<chanVars, rx, meterVars>>

\* Nothing arrives within the response timeout: next meter.  The meter may
\* still be working on the request if late replies are possible.
Timeout ==
  /\ waiting
  /\ rx = <<>>
  /\ asked' = IF LateReplies THEN asked ELSE [m \in Meters |-> <<>>]
  /\ waiting' = FALSE
  /\ Leave
  /\ UNCHANGED <<chanVars, rx, meterVars>>

Worker ==
  \/ InitOk \/ InitFail \/ Reset
  \/ BeginRound \/ Refresh \/ Ask \/ SendFail \/ Accept \/ Reject \/ Timeout

-----------------------------------------------------------------------------
(* The web handler, the meters and the clock                               *)

\* handle_comm_set: any command, at any time, over whatever was there.
SetCmd(c) ==
  /\ Cmd' = c
  /\ UNCHANGED <<state, ctx, fds, pollVars, lineVars, meterVars>>

\* Meter m answers the oldest request it holds, readably or not; the frame
\* is lost when nobody has the device open.
Answer(m) ==
  /\ asked[m] # <<>>
  /\ Len(rx) < MaxRx
  /\ \E good \in BOOLEAN :
       rx' = IF ctx = "open"
             THEN Append(rx, [from |-> m, part |-> Head(asked[m]).part,
                              cur |-> Head(asked[m]).cur, ok |-> good])
             ELSE rx
  /\ asked' = [asked EXCEPT ![m] = Tail(@)]
  /\ UNCHANGED <<chanVars, pollVars, meterVars>>

\* ... or never answers it.
Lose(m) ==
  /\ asked[m] # <<>>
  /\ asked' = [asked EXCEPT ![m] = Tail(@)]
  /\ UNCHANGED <<chanVars, pollVars, rx, meterVars>>

\* The 5000 ms since LastUpdate go by.
Expire(m) ==
  /\ fresh[m]
  /\ fresh' = [fresh EXCEPT ![m] = FALSE]
  /\ UNCHANGED <<chanVars, pollVars, lineVars, grp, scaled, CommState>>

Next ==
  \/ Worker
  \/ \E c \in Cmds : SetCmd(c)
  \/ \E m \in Meters : Answer(m) \/ Lose(m) \/ Expire(m)

Spec == Init /\ [][Next]_vars

\* The worker thread is never blocked for good: it waits only in usleep and
\* in a select with a timeout.  Nothing is assumed of meters and web clients.
FairSpec == Spec /\ WF_vars(Worker)

\* What it says of a worker that has a step to take except in ERR without a
\* RESET: it is found there over and over, or takes steps over and over.
WorkerRuns ==
  []<>(state = "ERR" /\ Cmd # "RESET") \/ []<><<Worker>>_vars

-----------------------------------------------------------------------------
(* Properties                                                              *)

\* The channel's one serial device is open exactly while the channel runs:
\* no step polls through a context that was freed, and neither a failed
\* connect nor any number of RESETs leaves a device open behind.
HandleOwned ==
  /\ fds = IF ctx = "open" THEN 1 ELSE 0
  /\ ctx = "open" <=> state = "RUN"
  /\ pos # 0 => state = "RUN"

\* Whatever the line delays, loses or reorders, values are only ever stored
\* for the meter that sent them, and only from a block of the size asked for:
\* voltages and currents (23 registers) and powers (60) are always their own.
OwnBlock ==
  \A m \in Meters, p \in Parts :
    grp[m][p].blk # 0 => /\ grp[m][p].from = m
                         /\ nbr[grp[m][p].blk] = nbr[p]

\* "Reads the holding registers of remote device and put the data into an
\* array": what a call stores are the registers it was asked to read.
ReadsWhatWasAsked ==
  \A m \in Meters, p \in Parts : grp[m][p].blk \in {0, p}

\* If no reply outlives its request, every value stored is of the block asked
\* for, and a poll that got as far as the power block read all four blocks
\* in this round: the sample LastUpdate vouches for is of one round.
TimelySample ==
  ~LateReplies =>
    /\ ReadsWhatWasAsked
    /\ \A m \in Meters : grp[m][4].now => \A p \in Parts : grp[m][p].now

\* More than that, step by step: behind all the traffic, the losses, the resets
\* and the commands, the channel does nothing a Sampler would not do.  A sample
\* of two rounds is one of which not all parts are taken.
At == IF part = 0 THEN 0 ELSE pos
Taken == [m \in Meters |-> {p \in Parts : grp[m][p].now}]
Known == [m \in Meters |-> {p \in Parts : grp[m][p].blk = p}]
Shown == [m \in Meters |-> CommState[m] = "NORM"]
Sampling == INSTANCE Sampler
              WITH Meter <- Meters, Idle <- 0, Size <- 4, Early <- EarlyStart,
                   at <- At, taken <- Taken, known <- Known,
                   vouched <- fresh, shown <- Shown
WholeSamples == Sampling!Spec

\* Unless the program starts within 5 s of the boot, a meter is shown (and
\* uploaded) as normal only if all its blocks have been read.
NormIsEarned ==
  ~EarlyStart =>
    \A m \in Meters :
      CommState[m] = "NORM" => \A p \in Parts : grp[m][p].blk # 0

\* The energies are scaled with the PT and CT of the round before, zero in
\* the first round.  Once a meter was polled completely, the energies any
\* later round stores are scaled with a ratio that was read.
UnscaledOnlyAtFirst ==
  \A m \in Meters :
    (pos = m /\ part > 1 /\ grp[m][4].blk # 0) => scaled[m]

\* The steps of the worker that the round going on can still take: nine for a
\* meter that answers every part, fewer for one that does not.
Left ==
  IF pos = 0 THEN 0
  ELSE 9 * (Last - pos)
       + IF part = 0 THEN 9 ELSE 9 - 2 * part + IF waiting THEN 0 ELSE 1

\* A round comes to its end by the worker's own steps, at most nine for each
\* meter of the channel: whatever meters, line and web clients do meanwhile,
\* they cannot make it longer.
RoundShrinks ==
  [][IF ~Worker THEN Left' = Left
     ELSE IF pos # 0 THEN Left' < Left
     ELSE Left' <= 9 * (Last - First + 1)]_vars

\* A RESET the operator asked for is carried out (or overwritten by another
\* command), in whatever state and however deep in a round it arrives.
ResetTaken == Cmd = "RESET" ~> Cmd # "RESET"

\* A meter whose last complete poll is over 5 s old stops being shown as
\* normal, or is polled again, or its channel stops running.
StaleNoticed ==
  \A m \in Meters :
    (CommState[m] = "NORM" /\ ~fresh[m])
      ~> (CommState[m] = "ERR" \/ fresh[m] \/ state # "RUN")

\* A meter that never answers does not keep the worker from the others: while
\* the channel runs, the loop comes to every meter again and again.
NoMeterStarved ==
  \A m \in Meters : []<>(pos = m \/ state # "RUN")
=============================================================================
