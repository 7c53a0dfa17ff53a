-------------------------------- MODULE Snap --------------------------------
(***************************************************************************)
(* The data recorder of the gateway: thread thrd_snap of appl.c, which     *)
(* appends a row per meter to the files of a directory per day, moves to a *)
(* new directory when the date changes and then deletes directories older  *)
(* than KeepDay days (appl_snap_day_diff, appl_snap_rmdir).                *)
(*                                                                         *)
(* A date is a day number; the five seconds between snapshots are left to  *)
(* the scheduler.  A row is what Write does, its text is left out.  The    *)
(* digits of a directory's name are read as the date they spell: the bytes *)
(* after them, which strncpy leaves alone, are zero on a thread's fresh    *)
(* stack.                                                                  *)
(***************************************************************************)
EXTENDS Integers, FiniteSets

CONSTANTS KeepDay,     \* s->KeepDay, fixed at the start; any integer
          NMeters,     \* files kept open, one per meter (5 in the code)
          ClockJumps,  \* may the date be set?
          FirstDay, LastDay,  \* bound: the date at the beginning, the last one
          MaxFds       \* how many files the process can hold open

ASSUME SnapAssumption ==
  /\ KeepDay \in Int
  /\ NMeters \in Nat \ {0}
  /\ ClockJumps \in BOOLEAN
  /\ FirstDay \in Nat /\ LastDay \in Nat /\ FirstDay <= LastDay
  /\ MaxFds \in Nat

Meters == 1..NMeters
Days == 0..LastDay
None == -1

VARIABLES
  today,    \* the date the clock shows
  jumped,   \* history: the date has been set
  dirs,     \* the days ./snap has a directory for
  pc,       \* "loop", or inside it "clean" or "write"
  bErr,     \* s->bErr
  bStart,   \* s->bStart
  curr,     \* s->szcurrDatePath
  seen,     \* y, m, d: the date last read from the clock
  f,        \* f[i]: the directory of the file s->f[i] writes, None if NULL
  fds,      \* files the thread has opened; none is ever closed
  todo,     \* the entries of ./snap not yet looked at
  cleanedAt, \* the date of the last clean-up in this run, None before it
  late      \* snapshots filed under a day that was over, since Begin (2: more)

clockVars == <<today, jumped, dirs>>
fileVars == <<curr, f, fds>>
vars == <<clockVars, pc, bErr, bStart, seen, fileVars, todo, cleanedAt, late>>

TypeOK ==
  /\ today \in Days
  /\ jumped \in BOOLEAN
  /\ dirs \in SUBSET Days
  /\ pc \in {"loop", "clean", "write"}
  /\ bErr \in BOOLEAN
  /\ bStart \in BOOLEAN
  /\ curr \in Days \cup {None}
  /\ seen \in Days \cup {None}
  /\ f \in [Meters -> Days \cup {None}]
  /\ fds \in 0..MaxFds
  /\ todo \in SUBSET Days
  /\ cleanedAt \in Days \cup {None}
  /\ late \in 0..2

\* appl_start, over the directories of earlier runs.
Init ==
  /\ today = FirstDay
  /\ jumped = FALSE
  /\ dirs \in SUBSET (0..FirstDay)
  /\ pc = "loop"
  /\ bErr = FALSE
  /\ bStart = FALSE
  /\ curr = None
  /\ seen = None
  /\ f = [i \in Meters |-> None]
  /\ fds = 0
  /\ todo = {}
  /\ cleanedAt = None
  /\ late = 0

\* One more round of the loop; an error ends them all.
Loop == pc = "loop" /\ ~bErr

-----------------------------------------------------------------------------
(* bStart = 0: begin the files of a day                                    *)

\* mkdir fails: the path is already noted.
MkdirFail ==
  /\ Loop
  /\ ~bStart
  /\ today \notin dirs
  /\ curr' = today
  /\ seen' = today
  /\ bErr' = TRUE
  /\ UNCHANGED <<clockVars, pc, bStart, f, fds, todo, cleanedAt, late>>

\* Mutant of Begin: a file that cannot be opened is passed over.
BeginDespiteErr ==
  /\ Loop
  /\ ~bStart
  /\ curr' = today
  /\ seen' = today
  /\ dirs' = dirs \cup {today}
  /\ \E got \in SUBSET Meters :
       /\ fds + Cardinality(got) <= MaxFds
       /\ f' = [i \in Meters |-> IF i \in got THEN today ELSE None]
       /\ fds' = fds + Cardinality(got)
  /\ bStart' = TRUE
  /\ late' = 0
  /\ UNCHANGED <<today, jumped, pc, bErr, todo, cleanedAt>>

\* Mutant of Begin: one handle more than the process may have.
BeginBeyondLimit ==
  /\ Loop
  /\ ~bStart
  /\ curr' = today
  /\ seen' = today
  /\ dirs' = dirs \cup {today}
  /\ f' = [i \in Meters |-> today]
  /\ fds' = fds + NMeters
  /\ bStart' = TRUE
  /\ late' = 0
  /\ UNCHANGED <<today, jumped, pc, bErr, todo, cleanedAt>>

\* The directory is there or is made; of the files, those in got open, and
\* the handles of the day before are forgotten, not closed.  A file that does
\* not open, or a header that cannot be written, is an error.
Begin ==
  /\ Loop
  /\ ~bStart
  /\ curr' = today
  /\ seen' = today
  /\ dirs' = dirs \cup {today}
  /\ \E got \in SUBSET Meters :
       /\ fds + Cardinality(got) <= MaxFds
       /\ f' = [i \in Meters |-> IF i \in got THEN today ELSE None]
       /\ fds' = fds + Cardinality(got)
       /\ bErr' \in IF got = Meters THEN BOOLEAN ELSE {TRUE}
  /\ bStart' = TRUE
  /\ late' = 0
  /\ UNCHANGED <<today, jumped, pc, todo, cleanedAt>>

-----------------------------------------------------------------------------
(* bStart = 1: a snapshot, or the change to a new date                     *)

SameDate ==
  /\ Loop
  /\ bStart
  /\ today = curr
  /\ seen' = today
  /\ pc' = "write"
  /\ UNCHANGED <<clockVars, bErr, bStart, fileVars, todo, cleanedAt, late>>

\* Rows for the meters that are normal.  The clock is read again for the time
\* stamp: the day may be over by now.
Write ==
  /\ pc = "write"
  /\ pc' = "loop"
  /\ late' = IF today # curr /\ late < 2 THEN late + 1 ELSE late
  /\ UNCHANGED <<clockVars, bErr, bStart, seen, fileVars, todo, cleanedAt>>

\* Mutant of NewDate: only a date more than KeepDay days away counts.
NewDateIfFar ==
  /\ Loop
  /\ bStart
  /\ today # curr
  /\ seen' = today
  /\ IF today - curr > KeepDay
     THEN pc' = "clean" /\ todo' = dirs
     ELSE pc' = "write" /\ UNCHANGED todo
  /\ UNCHANGED <<clockVars, bErr, bStart, fileVars, cleanedAt, late>>

\* Another date than the path's: look through ./snap.
NewDate ==
  /\ Loop
  /\ bStart
  /\ today # curr
  /\ seen' = today
  /\ pc' = "clean"
  /\ todo' = dirs
  /\ UNCHANGED <<clockVars, bErr, bStart, fileVars, cleanedAt, late>>

\* ./snap cannot be opened.
OpendirFail ==
  /\ Loop
  /\ bStart
  /\ today # curr
  /\ seen' = today
  /\ bErr' = TRUE
  /\ UNCHANGED <<clockVars, pc, bStart, fileVars, todo, cleanedAt, late>>

\* appl_snap_day_diff of two dates.
Age(d) == seen - d

\* Mutant of OutOfDate: the last day to keep is not kept.
OutOfDateOneEarly(d) == Age(d) >= KeepDay

OutOfDate(d) == Age(d) > KeepDay

Keep(d) ==
  /\ pc = "clean"
  /\ d \in todo
  /\ ~OutOfDate(d)
  /\ todo' = todo \ {d}
  /\ UNCHANGED <<clockVars, pc, bErr, bStart, seen, fileVars, cleanedAt, late>>

Rmdir(d) ==
  /\ pc = "clean"
  /\ d \in todo
  /\ OutOfDate(d)
  /\ todo' = todo \ {d}
  /\ dirs' = dirs \ {d}
  /\ UNCHANGED <<today, jumped, pc, bErr, bStart, seen, fileVars, cleanedAt, late>>

\* Mutant of RmdirFail: the failure is only logged.
RmdirFailLogged(d) ==
  /\ pc = "clean"
  /\ d \in todo
  /\ OutOfDate(d)
  /\ todo' = todo \ {d}
  /\ UNCHANGED <<clockVars, pc, bErr, bStart, seen, fileVars, cleanedAt, late>>

\* Something in the directory cannot be deleted; the others are still tried.
RmdirFail(d) ==
  /\ pc = "clean"
  /\ d \in todo
  /\ OutOfDate(d)
  /\ todo' = todo \ {d}
  /\ bErr' = TRUE
  /\ UNCHANGED <<clockVars, pc, bStart, seen, fileVars, cleanedAt, late>>

\* Mutant of Cleaned: the new date is not begun.
CleanedNotBegun ==
  /\ pc = "clean"
  /\ todo = {}
  /\ pc' = "loop"
  /\ cleanedAt' = seen
  /\ UNCHANGED <<clockVars, bErr, bStart, seen, fileVars, todo, late>>

\* "start again at next loop"
Cleaned ==
  /\ pc = "clean"
  /\ todo = {}
  /\ pc' = "loop"
  /\ bStart' = FALSE
  /\ cleanedAt' = seen
  /\ UNCHANGED <<clockVars, bErr, seen, fileVars, todo, late>>

-----------------------------------------------------------------------------
(* The clock, and start_meter.sh                                           *)

NewDay ==
  /\ today < LastDay
  /\ today' = today + 1
  /\ UNCHANGED <<jumped, dirs, pc, bErr, bStart, seen, fileVars, todo, cleanedAt, late>>

SetClock ==
  /\ ClockJumps
  /\ today' \in Days
  /\ jumped' = TRUE
  /\ UNCHANGED <<dirs, pc, bErr, bStart, seen, fileVars, todo, cleanedAt, late>>

\* kill -9 and a new process, at any point; only ./snap survives.
Restart ==
  /\ pc' = "loop"
  /\ bErr' = FALSE
  /\ bStart' = FALSE
  /\ curr' = None
  /\ seen' = None
  /\ f' = [i \in Meters |-> None]
  /\ fds' = 0
  /\ todo' = {}
  /\ cleanedAt' = None
  /\ late' = 0
  /\ UNCHANGED clockVars

Thread ==
  \/ MkdirFail \/ Begin \/ SameDate \/ Write \/ NewDate \/ OpendirFail
  \/ \E d \in Days : Keep(d) \/ Rmdir(d) \/ RmdirFail(d)
  \/ Cleaned

Next == Thread \/ NewDay \/ SetClock \/ Restart

Spec == Init /\ [][Next]_vars

\* The thread only ever sleeps; the clock and restarts owe it nothing.
FairSpec == Spec /\ WF_vars(Thread)

-----------------------------------------------------------------------------
(* Properties                                                              *)

\* Whatever opens, deletes and clock changes have gone before, a recorder
\* that is running has a file for every meter, and in the directory of the
\* date it goes by, which is there: no row is written to a deleted file and
\* no meter goes unrecorded unnoticed.
RowsHaveAFile ==
  (bStart /\ ~bErr /\ pc # "clean") =>
    curr \in dirs /\ \A i \in Meters : f[i] = curr

\* Once a run has cleaned up, and until its next clean-up or error, the only
\* directory more than KeepDay days older than that clean-up can be the one
\* recorded into, made after the clock was set back.
RetentionHolds ==
  (cleanedAt # None /\ ~bErr /\ pc # "clean") =>
    \A d \in dirs \ {curr} : cleanedAt - d <= KeepDay

\* As long as the date only advances, no directory of the last KeepDay days
\* is ever deleted, by the clock of the moment it is deleted.
RecentKept ==
  [][~jumped => \A d \in dirs \ dirs' : today - d > KeepDay]_vars

\* The directories in which the files lie that the next rows go to.
Into == IF bStart /\ ~bErr /\ pc # "clean" THEN {f[i] : i \in Meters} ELSE {}

\* Step by step: behind failing opens, clean-ups that stop half way, clock
\* changes and kills, the recorder does nothing an Archive would not do.  What
\* it records goes to one day's directory for all meters, and what it deletes
\* is deleted while nothing is recorded, and not before its time.
Archiving == INSTANCE Archive
               WITH Day <- Days, First <- FirstDay, Retention <- KeepDay,
                    date <- today, set <- jumped, kept <- dirs, into <- Into
ArchiveKept == Archiving!Spec

\* As long as the date only advances, at most one snapshot per date change is
\* filed under the day before.
OneLateSnapshot == ~jumped => late <= 1

\* The recorder records for ever, or has stopped with an error, or the
\* process is restarted for ever.
KeepsRecording ==
  []<><<Write>>_vars \/ <>[]bErr \/ []<><<Restart>>_vars

\* Where the thread is between two snapshots, the last place first.
Stage ==
  CASE pc = "write" -> 0
    [] pc = "loop" /\ ~bStart -> 1
    [] pc = "clean" -> 2
    [] OTHER -> 3

\* Between two snapshots the thread has only so many steps: each of them is an
\* error, takes handles that are never given back, comes to a later stage, or
\* leaves one entry fewer to look at.  Only a restart makes that more again.
SnapshotNears ==
  [][IF Thread
     THEN \/ Write \/ bErr'
          \/ fds' > fds
          \/ fds' = fds /\ Stage' < Stage
          \/ UNCHANGED <<fds, Stage>> /\ \E d \in todo : todo' = todo \ {d}
     ELSE Restart \/ UNCHANGED <<fds, Stage, todo>>]_vars

\* "start again at next loop": a recorder that has cleaned up for a new date
\* is not stopped in the next round of its loop.
StartsAgain == [][Cleaned => ~bErr']_vars
=============================================================================
