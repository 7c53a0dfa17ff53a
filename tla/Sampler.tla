------------------------------ MODULE Sampler ------------------------------
(***************************************************************************)
(* What a channel promises whoever uploads or records its meters, as long  *)
(* as no reply outlives its request: meters are read one at a time, the    *)
(* parts of a sample in order and each from its own registers; a sample is *)
(* vouched for when its last part arrives, and the age of that alone       *)
(* decides, at the beginning of the meter's next reading, what is shown.   *)
(* Lines, frames, timeouts, contexts and commands are not here.            *)
(* Chan485.tla implements this.                                            *)
(***************************************************************************)
EXTENDS Integers

CONSTANTS Meter,  \* the meters of the channel
          Idle,   \* none of them
          Size,   \* the number of parts of a sample
          Early   \* is a meter vouched for before it was ever read?

VARIABLES at,       \* the meter being read, or Idle
          taken,    \* taken[m]: the parts of m's sample read in its last reading
          known,    \* known[m]: the parts that hold what was asked for
          vouched,  \* vouched[m]: a sample of m was completed not long ago
          shown     \* shown[m]: is m shown as normal?

vars == <<at, taken, known, vouched, shown>>

Init ==
  /\ at = Idle
  /\ taken = [m \in Meter |-> {}]
  /\ known = [m \in Meter |-> {}]
  /\ vouched = [m \in Meter |-> Early]
  /\ shown = [m \in Meter |-> FALSE]

Begin(m) ==
  /\ at = Idle
  /\ at' = m
  /\ taken' = [taken EXCEPT ![m] = {}]
  /\ shown' = [shown EXCEPT ![m] = vouched[m]]
  /\ UNCHANGED <<known, vouched>>

\* The next part arrives, and it is not the last ...
Take(p) ==
  /\ at # Idle
  /\ p < Size
  /\ taken[at] = 1..(p - 1)
  /\ taken' = [taken EXCEPT ![at] = 1..p]
  /\ known' = [known EXCEPT ![at] = @ \cup {p}]
  /\ UNCHANGED <<at, vouched, shown>>

\* ... or it is.
Complete ==
  /\ at # Idle
  /\ taken[at] = 1..(Size - 1)
  /\ taken' = [taken EXCEPT ![at] = 1..Size]
  /\ known' = [known EXCEPT ![at] = @ \cup {Size}]
  /\ vouched' = [vouched EXCEPT ![at] = TRUE]
  /\ at' = Idle
  /\ UNCHANGED shown

GiveUp == at # Idle /\ at' = Idle /\ UNCHANGED <<taken, known, vouched, shown>>

Lapse(m) ==
  /\ vouched' = [vouched EXCEPT ![m] = FALSE]
  /\ UNCHANGED <<at, taken, known, shown>>

Next ==
  \/ \E m \in Meter : Begin(m) \/ Lapse(m)
  \/ \E p \in 1..Size : Take(p)
  \/ Complete \/ GiveUp

Spec == Init /\ [][Next]_vars
=============================================================================
