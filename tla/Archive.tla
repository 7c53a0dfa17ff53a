------------------------------ MODULE Archive ------------------------------
(***************************************************************************)
(* What the data recorder promises whoever looks for its rows: they go to  *)
(* the directory of one day, which is there; a directory is made only for  *)
(* the date of the moment; and one is dropped only while nothing is        *)
(* recorded, and, until somebody sets the date, only when it is more days  *)
(* old than Retention.  Files, handles, the loop and its clean-up are not  *)
(* here.                                                                   *)
(* Snap.tla implements this.                                               *)
(***************************************************************************)
EXTENDS Integers

CONSTANTS Day,       \* the dates the clock can show
          First,     \* the date at the beginning
          Retention  \* how many days a directory is kept

VARIABLES date,  \* what the clock shows
          set,   \* has the date been set?
          kept,  \* the days that have a directory
          into   \* the days whose directories the meters' next rows go to

vars == <<date, set, kept, into>>

Init == date = First /\ set = FALSE /\ kept \in SUBSET (0..First) /\ into = {}

\* A day is begun: its directory is made, and rows go there or nowhere.
Open ==
  /\ into = {}
  /\ kept' = kept \cup {date}
  /\ into' \in {{}, {date}}
  /\ UNCHANGED <<date, set>>

Close == into # {} /\ into' = {} /\ UNCHANGED <<date, set, kept>>

Drop(d) ==
  /\ into = {}
  /\ d \in kept
  /\ set \/ date - d > Retention
  /\ kept' = kept \ {d}
  /\ UNCHANGED <<date, set, into>>

NextDate == date' = date + 1 /\ UNCHANGED <<set, kept, into>>

SetDate == date' \in Day /\ set' = TRUE /\ UNCHANGED <<kept, into>>

Next == Open \/ Close \/ (\E d \in Day : Drop(d)) \/ NextDate \/ SetDate

Spec == Init /\ [][Next]_vars
=============================================================================
