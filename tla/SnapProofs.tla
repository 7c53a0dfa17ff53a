----------------------------- MODULE SnapProofs -----------------------------
(***************************************************************************)
(* Proofs about the data recorder, for any retention, number of meters,    *)
(* handle limit and clock: where rows go, what a clean-up leaves, what it  *)
(* may delete, and how long a day's end can go unnoticed.                  *)
(***************************************************************************)
EXTENDS Snap, FiniteSetTheorems, TLAPS

LEMMA FewFiles == \A got \in SUBSET Meters : Cardinality(got) \in Nat
<1> IsFiniteSet(Meters)  BY FS_Interval, SnapAssumption DEF Meters
<1> QED  BY FS_Subset, FS_CardinalityType

\* The flags of TypeOK, and the rest of it.
Flags == bErr \in BOOLEAN /\ bStart \in BOOLEAN /\ jumped \in BOOLEAN
Shapes ==
  /\ today \in Days
  /\ dirs \in SUBSET Days
  /\ pc \in {"loop", "clean", "write"}
  /\ curr \in Days \cup {None}
  /\ seen \in Days \cup {None}
  /\ f \in [Meters -> Days \cup {None}]
  /\ fds \in 0..MaxFds
  /\ todo \in SUBSET Days
  /\ cleanedAt \in Days \cup {None}
  /\ late \in 0..2

LEMMA TypeStep == TypeOK /\ [Next]_vars => TypeOK'
<1> SUFFICES ASSUME Flags, Shapes, [Next]_vars PROVE Flags' /\ Shapes'
  BY DEF TypeOK, Flags, Shapes
<1> USE SnapAssumption DEF clockVars, fileVars
<1>1. CASE MkdirFail
  BY <1>1 DEF MkdirFail, Flags, Shapes
<1>2. CASE Begin
  <2>1. PICK got \in SUBSET Meters :
          /\ fds + Cardinality(got) <= MaxFds
          /\ f' = [i \in Meters |-> IF i \in got THEN today ELSE None]
          /\ fds' = fds + Cardinality(got)
          /\ bErr' \in IF got = Meters THEN BOOLEAN ELSE {TRUE}
    BY <1>2 DEF Begin
  <2>2. Flags'  BY <1>2, <2>1 DEF Begin, Flags
  <2>3. fds' \in 0..MaxFds  BY <2>1, FewFiles DEF Shapes
  <2>4. f' \in [Meters -> Days \cup {None}]  BY <2>1 DEF Shapes
  <2>5. Shapes'  BY <1>2, <2>3, <2>4 DEF Begin, Shapes
  <2> QED  BY <2>2, <2>5
<1>3. CASE SameDate \/ NewDate \/ OpendirFail
  BY <1>3 DEF SameDate, NewDate, OpendirFail, Flags, Shapes
<1>4. CASE Write
  BY <1>4 DEF Write, Flags, Shapes
<1>5. CASE \E d \in Days : Keep(d) \/ Rmdir(d) \/ RmdirFail(d)
  BY <1>5 DEF Keep, Rmdir, RmdirFail, Flags, Shapes
<1>6. CASE Cleaned
  BY <1>6 DEF Cleaned, Flags, Shapes
<1>7. CASE NewDay \/ SetClock
  <2>1. UNCHANGED <<dirs, pc, bErr, bStart, seen, fileVars, todo, cleanedAt, late>>
    BY <1>7 DEF NewDay, SetClock
  <2>2. today' \in Days  BY <1>7 DEF NewDay, SetClock, Shapes, Days
  <2>3. Flags'  BY <1>7, <2>1 DEF NewDay, SetClock, Flags
  <2>4. Shapes'  BY <2>1, <2>2 DEF Shapes
  <2> QED  BY <2>3, <2>4
<1>8. CASE Restart
  <2>1. Flags'  BY <1>8 DEF Restart, Flags
  <2>2. f' \in [Meters -> Days \cup {None}] /\ fds' \in 0..MaxFds
    BY <1>8 DEF Restart
  <2>3. Shapes'  BY <1>8, <2>2 DEF Restart, Shapes
  <2> QED  BY <2>1, <2>3
<1>9. CASE UNCHANGED vars
  BY <1>9 DEF vars, Flags, Shapes
<1> QED
  BY <1>1, <1>2, <1>3, <1>4, <1>5, <1>6, <1>7, <1>8, <1>9 DEF Next, Thread

LEMMA TypeInit == Init => TypeOK
<1> SUFFICES ASSUME Init PROVE TypeOK  OBVIOUS
<1>1. bErr \in BOOLEAN /\ bStart \in BOOLEAN /\ jumped \in BOOLEAN
  BY DEF Init
<1>2. today \in Days /\ dirs \in SUBSET Days /\ fds \in 0..MaxFds
  BY SnapAssumption DEF Init, Days
<1>3. f \in [Meters -> Days \cup {None}]  BY DEF Init
<1> QED  BY <1>1, <1>2, <1>3 DEF Init, TypeOK

\* The recorder's variables keep their types: dates stay within the calendar
\* given, and the process never holds more files than it can.
THEOREM TypeCorrect == Spec => []TypeOK
  BY TypeInit, TypeStep, PTL DEF Spec

-----------------------------------------------------------------------------
(* Where rows go                                                           *)

LEMMA RowsStep == RowsHaveAFile /\ [Next]_vars => RowsHaveAFile'
<1> SUFFICES ASSUME RowsHaveAFile, [Next]_vars PROVE RowsHaveAFile'  OBVIOUS
<1> USE DEF clockVars, fileVars, RowsHaveAFile
<1>1. CASE MkdirFail \/ NewDate \/ OpendirFail \/ Cleaned \/ Restart
  BY <1>1 DEF MkdirFail, NewDate, OpendirFail, Cleaned, Restart
<1>2. CASE Begin
  BY <1>2 DEF Begin
<1>3. CASE SameDate \/ Write
  <2>1. pc # "clean" /\ UNCHANGED <<dirs, bErr, bStart, fileVars>>
    BY <1>3 DEF SameDate, Write, Loop
  <2> QED  BY <2>1
<1>4. CASE \E d \in Days : Keep(d) \/ Rmdir(d) \/ RmdirFail(d)
  BY <1>4 DEF Keep, Rmdir, RmdirFail
<1>5. CASE NewDay \/ SetClock \/ UNCHANGED vars
  <2>1. UNCHANGED <<dirs, pc, bErr, bStart, fileVars>>
    BY <1>5 DEF NewDay, SetClock, vars
  <2> QED  BY <2>1
<1> QED  BY <1>1, <1>2, <1>3, <1>4, <1>5 DEF Next, Thread

\* A running recorder has a file for every meter, in a directory that is
\* there: any failed open ends it, and the only code that deletes directories
\* makes it begin anew.
THEOREM RowsKept == Spec => []RowsHaveAFile
<1>1. Init => RowsHaveAFile  BY DEF Init, RowsHaveAFile
<1> QED  BY <1>1, RowsStep, PTL DEF Spec

-----------------------------------------------------------------------------
(* What a clean-up leaves                                                  *)

\* What a clean-up has looked at so far and left is young enough; what the
\* last one left is, too, but for the directory recorded into.
Swept ==
  (pc = "clean" /\ ~bErr) => \A d \in dirs \ todo : seen - d <= KeepDay
KeptYoung ==
  (cleanedAt # None /\ ~bErr /\ pc # "clean") =>
    \A d \in dirs : (d = curr /\ bStart) \/ cleanedAt - d <= KeepDay

LEMMA RetentionStep ==
  TypeOK /\ Swept /\ KeptYoung /\ [Next]_vars => Swept' /\ KeptYoung'
<1> SUFFICES ASSUME TypeOK, Swept, KeptYoung, [Next]_vars
             PROVE  Swept' /\ KeptYoung'
  OBVIOUS
<1> USE DEF clockVars, fileVars
<1>1. CASE MkdirFail \/ OpendirFail \/ Restart
  BY <1>1 DEF MkdirFail, OpendirFail, Restart, Swept, KeptYoung
<1>2. CASE Begin
  BY <1>2 DEF Begin, Loop, Swept, KeptYoung
<1>3. CASE SameDate \/ Write
  BY <1>3 DEF SameDate, Write, Loop, Swept, KeptYoung
<1>4. CASE NewDate
  BY <1>4 DEF NewDate, Swept, KeptYoung
<1>5. ASSUME NEW d \in Days, Keep(d) \/ Rmdir(d) \/ RmdirFail(d)
      PROVE  Swept' /\ KeptYoung'
  <2>1. seen \in Int /\ d \in Int /\ KeepDay \in Int
    BY SnapAssumption DEF TypeOK, Days, None
  <2>2. ~OutOfDate(d) => seen - d <= KeepDay
    BY <2>1 DEF OutOfDate, Age
  <2> QED
    BY <1>5, <2>2 DEF Keep, Rmdir, RmdirFail, Swept, KeptYoung
<1>6. CASE Cleaned
  BY <1>6 DEF Cleaned, Swept, KeptYoung
<1>7. CASE NewDay \/ SetClock \/ UNCHANGED vars
  BY <1>7 DEF NewDay, SetClock, vars, Swept, KeptYoung
<1> QED  BY <1>1, <1>2, <1>3, <1>4, <1>5, <1>6, <1>7 DEF Next, Thread

\* After a clean-up nothing older than KeepDay days is left, whatever the
\* clock does; a directory that could not be deleted stops the recorder.
THEOREM RetentionKept == Spec => []RetentionHolds
<1>1. Init => Swept /\ KeptYoung  BY DEF Init, Swept, KeptYoung
<1>2. KeptYoung => RetentionHolds  BY DEF KeptYoung, RetentionHolds
<1> QED  BY <1>1, <1>2, TypeCorrect, RetentionStep, PTL DEF Spec

-----------------------------------------------------------------------------
(* A date that only advances                                               *)

\* Until the date is set, neither the path's date nor the one last read is
\* ahead of the clock.
NoneAhead == ~jumped => curr <= today /\ seen <= today

LEMMA AheadStep == TypeOK /\ NoneAhead /\ [Next]_vars => NoneAhead'
<1> SUFFICES ASSUME TypeOK, NoneAhead, [Next]_vars PROVE NoneAhead'  OBVIOUS
<1>1. today \in Int /\ curr \in Int /\ seen \in Int
  BY SnapAssumption DEF TypeOK, Days, None
<1> USE <1>1 DEF clockVars, fileVars, NoneAhead
<1>2. CASE Thread
  <2>1. UNCHANGED <<today, jumped>> /\ curr' \in {curr, today} /\ seen' \in {seen, today}
    BY <1>2 DEF Thread, MkdirFail, Begin, SameDate, Write, NewDate,
                OpendirFail, Keep, Rmdir, RmdirFail, Cleaned
  <2> QED  BY <2>1
<1>3. CASE NewDay \/ UNCHANGED vars
  BY <1>3 DEF NewDay, vars
<1>4. CASE SetClock
  BY <1>4 DEF SetClock
<1>5. CASE Restart
  BY <1>5 DEF Restart, TypeOK, Days, None
<1> QED  BY <1>2, <1>3, <1>4, <1>5 DEF Next

LEMMA AheadInit == Init => NoneAhead
  BY SnapAssumption DEF Init, NoneAhead, None

\* A date that has only advanced never makes a clean-up delete one of the
\* last KeepDay days.
THEOREM RecentSafe == Spec => RecentKept
<1>1. ASSUME TypeOK, NoneAhead, [Next]_vars, ~jumped
      PROVE  \/ \A d \in dirs \ dirs' : today - d > KeepDay
             \/ UNCHANGED vars
  <2>1. CASE \E d \in Days : Rmdir(d)
    <3>1. PICK d \in Days : Rmdir(d)  BY <2>1
    <3>2. today \in Int /\ seen \in Int /\ d \in Int /\ KeepDay \in Int
      BY <1>1, SnapAssumption DEF TypeOK, Days, None
    <3>3. seen - d > KeepDay  BY <3>1 DEF Rmdir, OutOfDate, Age
    <3>4. today - d > KeepDay  BY <3>2, <3>3, <1>1 DEF NoneAhead
    <3> QED  BY <3>1, <3>4 DEF Rmdir
  <2>2. CASE ~\E d \in Days : Rmdir(d)
    <3>1. dirs \subseteq dirs' \/ UNCHANGED vars
      BY <1>1, <2>2 DEF Next, Thread, MkdirFail, Begin, SameDate, Write,
           NewDate, OpendirFail, Keep, RmdirFail, Cleaned, NewDay, SetClock,
           Restart, clockVars
    <3> QED  BY <3>1
  <2> QED  BY <2>1, <2>2
<1>2. TypeOK /\ NoneAhead /\ [Next]_vars
      => [~jumped => \A d \in dirs \ dirs' : today - d > KeepDay]_vars
  BY <1>1
<1> QED
  BY <1>2, AheadInit, AheadStep, TypeCorrect, PTL DEF Spec, RecentKept

\* Until the date is set a snapshot is late only once: then the date has
\* moved on, and no later round of the loop writes before it has noticed.
LateOnce ==
  /\ pc = "write" => ~bErr
  /\ \/ jumped
     \/ late = 0
     \/ late = 1 /\ pc # "write" /\ (bErr \/ curr < today)

LEMMA LateStep == TypeOK /\ NoneAhead /\ LateOnce /\ [Next]_vars => LateOnce'
<1> SUFFICES ASSUME TypeOK, NoneAhead, LateOnce, [Next]_vars PROVE LateOnce'
  OBVIOUS
<1>1. today \in Int /\ curr \in Int /\ late \in 0..2
  BY SnapAssumption DEF TypeOK, Days, None
<1> USE <1>1 DEF clockVars, fileVars, LateOnce, Loop
<1>2. CASE MkdirFail \/ Begin \/ OpendirFail \/ Restart
  BY <1>2 DEF MkdirFail, Begin, OpendirFail, Restart
<1>3. CASE SameDate \/ NewDate
  BY <1>3 DEF SameDate, NewDate
<1>4. CASE Write
  BY <1>4 DEF Write, NoneAhead
<1>5. CASE \E d \in Days : Keep(d) \/ Rmdir(d) \/ RmdirFail(d)
  BY <1>5 DEF Keep, Rmdir, RmdirFail
<1>6. CASE Cleaned \/ NewDay \/ SetClock \/ UNCHANGED vars
  BY <1>6 DEF Cleaned, NewDay, SetClock, vars
<1> QED  BY <1>2, <1>3, <1>4, <1>5, <1>6 DEF Next, Thread

\* Until the date is set, at most one snapshot per date change is filed under
\* the day before.
THEOREM LateSnapshotOnce == Spec => []OneLateSnapshot
<1>1. Init => LateOnce  BY DEF Init, LateOnce
<1>2. LateOnce => OneLateSnapshot  BY DEF LateOnce, OneLateSnapshot
<1> QED  BY <1>1, <1>2, AheadInit, AheadStep, LateStep, TypeCorrect, PTL DEF Spec

-----------------------------------------------------------------------------
(* The recorder as an archive                                              *)

Recording == bStart /\ ~bErr /\ pc # "clean"

LEMMA IntoWhen == (Recording => Into # {}) /\ (~Recording => Into = {})
<1>1. 1 \in Meters  BY SnapAssumption DEF Meters
<1> QED  BY <1>1 DEF Recording, Into

\* Rows go elsewhere only when f or what makes a recording changes.
LEMMA IntoKept ==
  UNCHANGED <<f, bStart, bErr>> /\ (pc = "clean" <=> pc' = "clean") => UNCHANGED Into
BY DEF Into

\* A day begun is recorded with a file for every meter, or not at all.
LEMMA BeginOpens == TypeOK /\ Begin => Archiving!Open
<1> SUFFICES ASSUME TypeOK, Begin PROVE Archiving!Open  OBVIOUS
<1>1. ~Recording  BY DEF Begin, Recording
<1>2. Into = {}  BY <1>1, IntoWhen
<1>3. dirs' = dirs \cup {today} /\ UNCHANGED <<today, jumped>>
  BY DEF Begin
<1>4. PICK got \in SUBSET Meters :
        /\ f' = [i \in Meters |-> IF i \in got THEN today ELSE None]
        /\ bErr' \in IF got = Meters THEN BOOLEAN ELSE {TRUE}
  BY DEF Begin
<1>5. Into' \in {{}, {today}}
  <2>1. CASE bErr'
    BY <2>1 DEF Into
  <2>2. CASE ~bErr'
    <3>1. got = Meters  BY <1>4, <2>2
    <3>2. \A i \in Meters : f'[i] = today  BY <1>4, <3>1
    <3>3. bStart' = TRUE /\ pc' = "loop"  BY DEF Begin, Loop
    <3>4. Into' = {f'[i] : i \in Meters}  BY <2>2, <3>3 DEF Into
    <3>5. 1 \in Meters  BY SnapAssumption DEF Meters
    <3>6. {f'[i] : i \in Meters} = {today}  BY <3>2, <3>5
    <3> QED  BY <3>4, <3>6
  <2> QED  BY <2>1, <2>2
<1> QED  BY <1>2, <1>3, <1>5 DEF Archiving!Open

\* A directory is deleted only between two days, and by its age.
LEMMA RmdirDrops ==
  ASSUME TypeOK, NoneAhead, NEW d \in Days, Rmdir(d)
  PROVE  Archiving!Drop(d) \/ UNCHANGED Archiving!vars
<1>1. pc = "clean" /\ pc' = "clean" /\ UNCHANGED <<today, jumped, f, bStart, bErr>>
  BY DEF Rmdir, fileVars
<1>2. Into = {}  BY <1>1, IntoWhen DEF Recording
<1>3. UNCHANGED Into  BY <1>1, IntoKept
<1>4. dirs' = dirs \ {d}  BY DEF Rmdir
<1>5. CASE d \notin dirs
  BY <1>1, <1>3, <1>4, <1>5 DEF Archiving!vars
<1>6. CASE d \in dirs
  <2>1. today \in Int /\ seen \in Int /\ d \in Int /\ KeepDay \in Int
    BY SnapAssumption DEF TypeOK, Days, None
  <2>2. seen - d > KeepDay  BY DEF Rmdir, OutOfDate, Age
  <2>3. jumped \/ today - d > KeepDay  BY <2>1, <2>2 DEF NoneAhead
  <2> QED  BY <1>1, <1>2, <1>3, <1>4, <1>6, <2>3 DEF Archiving!Drop
<1> QED  BY <1>5, <1>6

\* What ends a recording closes the day; where there was none it is a stutter.
LEMMA EndCloses ==
  ASSUME UNCHANGED <<today, jumped, dirs>>, ~Recording'
  PROVE  Archiving!Close \/ UNCHANGED Archiving!vars
<1>1. Into' = {}
  <2>1. ~(bStart' /\ ~bErr' /\ pc' # "clean")  BY DEF Recording
  <2> QED  BY <2>1 DEF Into
<1>2. CASE Into = {}  BY <1>1, <1>2 DEF Archiving!vars
<1>3. CASE Into # {}  BY <1>1, <1>3 DEF Archiving!Close
<1> QED  BY <1>2, <1>3

LEMMA ArchiveStep ==
  TypeOK /\ NoneAhead /\ [Next]_vars => [Archiving!Next]_(Archiving!vars)
<1> SUFFICES ASSUME TypeOK, NoneAhead, [Next]_vars
             PROVE  [Archiving!Next]_(Archiving!vars)
  OBVIOUS
<1> USE DEF clockVars, fileVars
<1>1. CASE Begin
  BY <1>1, BeginOpens DEF Archiving!Next
<1>2. CASE MkdirFail \/ NewDate \/ OpendirFail \/ Cleaned \/ Restart
  <2>1. UNCHANGED <<today, jumped, dirs>>
    BY <1>2 DEF MkdirFail, NewDate, OpendirFail, Cleaned, Restart
  <2>2. ~(bStart' /\ ~bErr' /\ pc' # "clean")
    BY <1>2 DEF MkdirFail, NewDate, OpendirFail, Cleaned, Restart
  <2> QED  BY <2>1, <2>2, EndCloses DEF Recording, Archiving!Next
<1>3. CASE SameDate \/ Write
  <2>1. UNCHANGED <<today, jumped, dirs, f, bStart, bErr>>
    BY <1>3 DEF SameDate, Write
  <2>2. pc # "clean" /\ pc' # "clean"  BY <1>3 DEF SameDate, Write, Loop
  <2>3. UNCHANGED Into  BY <2>1, <2>2, IntoKept
  <2> QED  BY <2>1, <2>3 DEF Archiving!vars
<1>4. ASSUME NEW d \in Days, Keep(d) \/ RmdirFail(d)
      PROVE  [Archiving!Next]_(Archiving!vars)
  <2>1. UNCHANGED <<today, jumped, dirs>> /\ pc' = "clean"
    BY <1>4 DEF Keep, RmdirFail
  <2> QED  BY <2>1, EndCloses DEF Recording, Archiving!Next
<1>5. ASSUME NEW d \in Days, Rmdir(d)
      PROVE  [Archiving!Next]_(Archiving!vars)
  BY <1>5, RmdirDrops DEF Archiving!Next
<1>6. CASE NewDay \/ SetClock
  <2>1. UNCHANGED <<dirs, f, bStart, bErr, pc>>
    BY <1>6 DEF NewDay, SetClock
  <2>2. UNCHANGED Into  BY <2>1, IntoKept
  <2>3. CASE NewDay
    BY <2>1, <2>2, <2>3 DEF NewDay, Archiving!NextDate, Archiving!Next
  <2>4. CASE SetClock
    BY <2>1, <2>2, <2>4 DEF SetClock, Archiving!SetDate, Archiving!Next
  <2> QED  BY <1>6, <2>3, <2>4
<1>7. CASE UNCHANGED vars
  <2>1. UNCHANGED <<today, jumped, dirs, f, bStart, bErr, pc>>
    BY <1>7 DEF vars
  <2> QED  BY <2>1, IntoKept DEF Archiving!vars
<1> QED
  BY <1>1, <1>2, <1>3, <1>4, <1>5, <1>6, <1>7 DEF Next, Thread

LEMMA ArchiveInit == Init => Archiving!Init
<1> SUFFICES ASSUME Init PROVE Archiving!Init  OBVIOUS
<1>1. ~Recording  BY DEF Init, Recording
<1>2. Into = {}  BY <1>1, IntoWhen
<1> QED  BY <1>2 DEF Init, Archiving!Init

\* The recorder implements Archive: rows go to the one directory of a day, for
\* all meters or for none, and a clean-up deletes while nothing is recorded
\* and, until the date is set, nothing of the last KeepDay days.
THEOREM RecorderIsArchive == Spec => ArchiveKept
<1>1. Init => Archiving!Init  BY ArchiveInit
<1> QED
  BY <1>1, ArchiveStep, AheadInit, AheadStep, TypeCorrect, PTL
     DEF Spec, ArchiveKept, Archiving!Spec

-----------------------------------------------------------------------------
(* The way to the next snapshot                                            *)

LEMMA Handles == Cardinality(Meters) = NMeters
<1>1. 1 \in Int /\ NMeters \in Int /\ 1 <= NMeters  BY SnapAssumption
<1>2. Cardinality(1..NMeters) = NMeters - 1 + 1  BY <1>1, FS_Interval
<1> QED  BY <1>1, <1>2 DEF Meters

\* A day whose files all open takes as many handles as there are meters.
LEMMA BeginTakes == TypeOK /\ Begin => bErr' \/ fds' > fds
<1> SUFFICES ASSUME TypeOK, Begin, ~bErr' PROVE fds' > fds  OBVIOUS
<1>1. PICK got \in SUBSET Meters :
        /\ fds' = fds + Cardinality(got)
        /\ bErr' \in IF got = Meters THEN BOOLEAN ELSE {TRUE}
  BY DEF Begin
<1>2. got = Meters  BY <1>1
<1>3. fds' = fds + NMeters  BY <1>1, <1>2, Handles
<1>4. fds \in Int /\ NMeters \in Nat /\ NMeters > 0
  BY SnapAssumption DEF TypeOK
<1> QED  BY <1>3, <1>4

LEMMA NearsStep ==
  ASSUME TypeOK, [Next]_vars
  PROVE  IF Thread
         THEN \/ Write \/ bErr'
              \/ fds' > fds
              \/ fds' = fds /\ Stage' < Stage
              \/ UNCHANGED <<fds, Stage>> /\ \E d \in todo : todo' = todo \ {d}
         ELSE Restart \/ UNCHANGED <<fds, Stage, todo>>
<1>0. bErr \in BOOLEAN /\ bStart \in BOOLEAN  BY DEF TypeOK
<1> USE DEF fileVars, Loop
<1>1. CASE Begin  BY <1>1, BeginTakes DEF Thread
<1>2. CASE MkdirFail \/ OpendirFail
  <2>1. bErr'  BY <1>2 DEF MkdirFail, OpendirFail
  <2> QED  BY <1>2, <2>1 DEF Thread
<1>3. CASE SameDate \/ NewDate
  <2>1. fds' = fds /\ pc = "loop" /\ bStart /\ pc' \in {"write", "clean"}
    BY <1>3 DEF SameDate, NewDate
  <2>2. Stage = 3 /\ Stage' \in {0, 2}  BY <2>1 DEF Stage
  <2> QED  BY <1>3, <2>1, <2>2 DEF Thread
<1>4. CASE Write  BY <1>4 DEF Thread
<1>5. ASSUME NEW d \in Days, Keep(d) \/ Rmdir(d) \/ RmdirFail(d)
      PROVE  /\ Thread
             /\ UNCHANGED <<fds, Stage>> /\ d \in todo /\ todo' = todo \ {d}
  <2>1. Thread  BY <1>5 DEF Thread
  <2>2. UNCHANGED <<fds, pc, bStart>> /\ d \in todo /\ todo' = todo \ {d}
    BY <1>5 DEF Keep, Rmdir, RmdirFail
  <2> QED  BY <2>1, <2>2 DEF Stage
<1>6. CASE Cleaned
  <2>1. fds' = fds /\ pc = "clean" /\ pc' = "loop" /\ ~bStart'
    BY <1>6 DEF Cleaned
  <2>2. Stage = 2 /\ Stage' = 1  BY <2>1 DEF Stage
  <2> QED  BY <1>6, <2>1, <2>2 DEF Thread
<1>7. CASE ~Thread
  <2>1. CASE Restart  BY <1>7, <2>1
  <2>2. CASE NewDay \/ SetClock \/ UNCHANGED vars
    <3>1. UNCHANGED <<fds, pc, bStart, todo>>
      BY <2>2 DEF NewDay, SetClock, vars
    <3> QED  BY <1>7, <3>1 DEF Stage
  <2> QED  BY <1>7, <2>1, <2>2 DEF Next
<1> QED  BY <1>1, <1>2, <1>3, <1>4, <1>5, <1>6, <1>7 DEF Thread

\* The recorder's loop cannot turn for ever between two snapshots without an
\* error or a restart: neither its clean-up nor days begun over and over have
\* room for that.
THEOREM SnapshotsNear == Spec => SnapshotNears
<1> DEFINE Nears ==
      IF Thread
      THEN \/ Write \/ bErr'
           \/ fds' > fds
           \/ fds' = fds /\ Stage' < Stage
           \/ UNCHANGED <<fds, Stage>> /\ \E d \in todo : todo' = todo \ {d}
      ELSE Restart \/ UNCHANGED <<fds, Stage, todo>>
<1>1. TypeOK /\ [Next]_vars => Nears  BY NearsStep
<1> HIDE DEF Nears
<1>2. Spec => [][Nears]_vars  BY <1>1, TypeCorrect, PTL DEF Spec
<1> QED  BY <1>2 DEF SnapshotNears, Nears
=============================================================================
