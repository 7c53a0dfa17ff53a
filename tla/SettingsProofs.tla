--------------------------- MODULE SettingsProofs ---------------------------
(***************************************************************************)
(* Proofs about the settings, for any settings, values and handle limit:   *)
(* what an answer of Success promises, where a DataKeepDay of zero cannot  *)
(* come from, and that a gateway without its uploader says so.             *)
(***************************************************************************)
EXTENDS Settings, TLAPS

\* The flags of TypeOK, and the rest of it.
Flags == bErr \in BOOLEAN /\ started \in BOOLEAN /\ cut \in BOOLEAN
Shapes ==
  /\ up \in {"down", "appl_start", "up"}
  /\ mem \in Contents
  /\ KeepDay \in Values \cup {"thirty"}
  /\ saving \in Fields \cup {"none"}
  /\ length \in {"absent", "empty", "prefix", "full"}
  /\ file \in Contents
  /\ fds \in 0..MaxFds
  /\ promised \in [Fields -> Chosen \cup {"none"}]
  /\ reverted \subseteq Fields

\* Which save is under way is known only while the process is up; then the
\* setting being saved holds a value that was chosen and promises nothing.
SavingInv ==
  saving # "none" =>
    /\ up = "up"
    /\ mem[saving] \in Chosen
    /\ promised[saving] = "none"

LEMMA Parts == TypeOK <=> Flags /\ Shapes
  BY DEF TypeOK, Flags, Shapes

LEMMA TypeInit == Init => TypeOK /\ SavingInv
<1> SUFFICES ASSUME Init PROVE TypeOK /\ SavingInv  OBVIOUS
<1> USE SettingsAssumption DEF Contents, Values, Zeros
<1>1. Flags  BY DEF Init, Flags
<1>2. mem \in Contents /\ file \in Contents  BY DEF Init
<1>3. promised \in [Fields -> Chosen \cup {"none"}]  BY DEF Init
<1>4. Shapes  BY <1>2, <1>3 DEF Init, Shapes
<1> QED  BY <1>1, <1>4, Parts DEF Init, SavingInv

LEMMA TypeStep == TypeOK /\ SavingInv /\ [Next]_vars => TypeOK' /\ SavingInv'
<1> SUFFICES ASSUME Flags, Shapes, SavingInv, [Next]_vars
             PROVE  Flags' /\ Shapes' /\ SavingInv'
  BY Parts DEF TypeOK, Flags, Shapes
<1> USE SettingsAssumption DEF runVars, diskVars, ackVars
<1>1. CASE StartRead
  <2>1. Flags'  BY <1>1 DEF StartRead, Flags
  <2>2. Shapes'  BY <1>1 DEF StartRead, Shapes
  <2>3. SavingInv'  BY <1>1 DEF StartRead, SavingInv
  <2> QED  BY <2>1, <2>2, <2>3
<1>2. CASE StartDefault
  <2>1. Flags'  BY <1>2 DEF StartDefault, Flags
  <2>2. mem' \in Contents
    BY <1>2 DEF StartDefault, Shapes, Contents, Values
  <2>3. reverted' \subseteq Fields
    BY <1>2 DEF StartDefault, Shapes, NotGotBack
  <2>4. Shapes'  BY <1>2, <2>2, <2>3 DEF StartDefault, Shapes
  <2>5. SavingInv'  BY <1>2 DEF StartDefault, SavingInv
  <2> QED  BY <2>1, <2>4, <2>5
<1>3. CASE StartSnap
  <2>1. Flags'  BY <1>3 DEF StartSnap, Flags
  <2>2. Shapes'  BY <1>3 DEF StartSnap, Shapes, Contents
  <2>3. SavingInv'  BY <1>3 DEF StartSnap, SavingInv
  <2> QED  BY <2>1, <2>2, <2>3
<1>4. ASSUME NEW g \in Fields, NEW v \in Chosen, Set(g, v)
      PROVE  Flags' /\ Shapes' /\ SavingInv'
  <2>1. Flags'  BY <1>4 DEF Set, Flags
  <2>2. mem' \in Contents  BY <1>4 DEF Set, Shapes, Contents, Values
  <2>3. promised' \in [Fields -> Chosen \cup {"none"}]
    BY <1>4 DEF Set, Shapes
  <2>4. Shapes'  BY <1>4, <2>2, <2>3 DEF Set, Shapes
  <2>5. SavingInv'  BY <1>4 DEF Set, SavingInv, Shapes, Contents
  <2> QED  BY <2>1, <2>4, <2>5
<1>5. ASSUME NEW g \in Fields, NEW v \in Chosen, SetNotOpened(g, v)
      PROVE  Flags' /\ Shapes' /\ SavingInv'
  <2>1. Flags'  BY <1>5 DEF SetNotOpened, Flags
  <2>2. mem' \in Contents
    BY <1>5 DEF SetNotOpened, Shapes, Contents, Values
  <2>3. promised' \in [Fields -> Chosen \cup {"none"}]
    BY <1>5 DEF SetNotOpened, Shapes
  <2>4. Shapes'  BY <1>5, <2>2, <2>3 DEF SetNotOpened, Shapes
  <2>5. SavingInv'  BY <1>5 DEF SetNotOpened, SavingInv
  <2> QED  BY <2>1, <2>4, <2>5
<1>6. CASE SaveOk
  <2>1. Flags'  BY <1>6 DEF SaveOk, Flags
  <2>2. promised' \in [Fields -> Chosen \cup {"none"}]
    BY <1>6 DEF SaveOk, Shapes, SavingInv
  <2>3. Shapes'  BY <1>6, <2>2 DEF SaveOk, Shapes
  <2>4. SavingInv'  BY <1>6 DEF SaveOk, SavingInv
  <2> QED  BY <2>1, <2>3, <2>4
<1>7. CASE SaveShort
  <2>1. Flags'  BY <1>7 DEF SaveShort, Flags
  <2>2. Shapes'  BY <1>7 DEF SaveShort, Shapes
  <2>3. SavingInv'  BY <1>7 DEF SaveShort, SavingInv
  <2> QED  BY <2>1, <2>2, <2>3
<1>8. CASE Kill
  <2>1. Flags'  BY <1>8 DEF Kill, Flags
  <2>2. mem' \in Contents  BY <1>8 DEF Kill, Zeros, Contents, Values
  <2>3. Shapes'  BY <1>8, <2>2 DEF Kill, Shapes, Values
  <2>4. SavingInv'  BY <1>8 DEF Kill, SavingInv
  <2> QED  BY <2>1, <2>3, <2>4
<1>9. CASE UNCHANGED vars
  <2>1. Flags'  BY <1>9 DEF vars, Flags
  <2>2. Shapes' /\ SavingInv'  BY <1>9 DEF vars, Shapes, SavingInv
  <2> QED  BY <2>1, <2>2
<1> QED
  BY <1>1, <1>2, <1>3, <1>4, <1>5, <1>6, <1>7, <1>8, <1>9 DEF Next

LEMMA AlwaysTyped == Spec => [](TypeOK /\ SavingInv)
  BY TypeInit, TypeStep, PTL DEF Spec

\* The variables keep their types; in particular every value promised to an
\* operator is one an operator chose.
THEOREM TypeCorrect == Spec => []TypeOK
  BY AlwaysTyped, PTL

-----------------------------------------------------------------------------
(* What Success promises                                                   *)

\* The part of a file that a cut save has left holds what was promised too.
PartKept ==
  \A f \in Fields :
    promised[f] # "none" /\ f \notin reverted /\ length = "prefix" =>
      file[f] = promised[f]

\* A file that is not full is being written, was never there, and then nothing
\* was ever promised, or was cut.
CutInv ==
  ~cut =>
    /\ length # "prefix"
    /\ length = "empty" => saving # "none"
    /\ length = "absent" => \A f \in Fields : promised[f] = "none"

LEMMA CutStep ==
  TypeOK /\ SavingInv /\ CutInv /\ [Next]_vars => CutInv'
<1> SUFFICES ASSUME Flags, Shapes, SavingInv, CutInv, [Next]_vars
             PROVE  CutInv'
  BY Parts
<1> USE SettingsAssumption DEF runVars, diskVars, ackVars, CutInv
<1>1. CASE StartRead \/ StartDefault \/ StartSnap
  BY <1>1 DEF StartRead, StartDefault, StartSnap
<1>2. ASSUME NEW g \in Fields, NEW v \in Chosen, Set(g, v)
      PROVE  CutInv'
  BY <1>2 DEF Set
<1>3. ASSUME NEW g \in Fields, NEW v \in Chosen, SetNotOpened(g, v)
      PROVE  CutInv'
  BY <1>3 DEF SetNotOpened, Shapes
<1>4. CASE SaveOk \/ SaveShort
  BY <1>4 DEF SaveOk, SaveShort
<1>5. CASE Kill
  BY <1>5 DEF Kill
<1>6. CASE UNCHANGED vars
  BY <1>6 DEF vars
<1> QED  BY <1>1, <1>2, <1>3, <1>4, <1>5, <1>6 DEF Next

LEMMA AckedStep ==
  TypeOK /\ SavingInv /\ CutInv /\ PartKept /\ AckedSurvives /\ [Next]_vars
    => PartKept' /\ AckedSurvives'
<1> SUFFICES ASSUME Shapes, SavingInv, CutInv, PartKept, AckedSurvives,
                    [Next]_vars
             PROVE  PartKept' /\ AckedSurvives'
  BY Parts
<1> USE SettingsAssumption
    DEF runVars, diskVars, ackVars, PartKept, AckedSurvives
<1>1. CASE StartRead \/ StartSnap
  BY <1>1 DEF StartRead, StartSnap
<1>2. CASE StartDefault
  <2>1. ASSUME NEW f \in Fields, promised'[f] # "none", f \notin reverted'
        PROVE  f \notin HasDefault /\ length = "prefix"
    BY <1>2, <2>1 DEF StartDefault, NotGotBack
  <2>2. reverted' # {} => cut'
    <3>1. CASE cut  BY <1>2, <3>1 DEF StartDefault
    <3>2. CASE ~cut
      <4>1. length = "absent"
        BY <1>2, <3>2 DEF StartDefault, CutInv, SavingInv, Shapes
      <4>2. NotGotBack = {}  BY <3>2, <4>1 DEF CutInv, NotGotBack
      <4> QED  BY <1>2, <3>2, <4>2 DEF StartDefault
    <3> QED  BY <3>1, <3>2
  <2> QED  BY <1>2, <2>1, <2>2 DEF StartDefault
<1>3. ASSUME NEW g \in Fields, NEW v \in Chosen,
             Set(g, v) \/ SetNotOpened(g, v)
      PROVE  PartKept' /\ AckedSurvives'
  BY <1>3 DEF Set, SetNotOpened, Shapes, Contents
<1>4. CASE SaveOk
  BY <1>4 DEF SaveOk, Shapes, SavingInv
<1>5. CASE SaveShort
  BY <1>5 DEF SaveShort, SavingInv
<1>6. CASE Kill
  BY <1>6 DEF Kill
<1>7. CASE UNCHANGED vars
  BY <1>7 DEF vars
<1> QED  BY <1>1, <1>2, <1>3, <1>4, <1>5, <1>6, <1>7 DEF Next

\* A setting answered with Success stays in use and, wherever the file is
\* full, in the file, over other saves and restarts, because a save writes all
\* of memory; a start loses it only once a save was cut, and then only if it
\* has a default or nothing is left of the file.
THEOREM SuccessKept == Spec => []AckedSurvives
<1>1. Init => CutInv /\ PartKept /\ AckedSurvives
  BY DEF Init, CutInv, PartKept, AckedSurvives
<1> QED  BY <1>1, AlwaysTyped, CutStep, AckedStep, PTL DEF Spec

-----------------------------------------------------------------------------
(* Zero days                                                               *)

LEMMA KeepStep ==
  TypeOK /\ SavingInv /\ NeverKeepZero /\ [Next]_vars => NeverKeepZero'
<1> SUFFICES ASSUME Shapes, SavingInv, NeverKeepZero, [Next]_vars
             PROVE  NeverKeepZero'
  BY Parts
<1> USE SettingsAssumption DEF runVars, diskVars, ackVars, NeverKeepZero
<1>1. CASE StartRead \/ StartDefault \/ StartSnap
  BY <1>1 DEF StartRead, StartDefault, StartSnap
<1>2. ASSUME NEW g \in Fields, NEW v \in Chosen,
             Set(g, v) \/ SetNotOpened(g, v)
      PROVE  NeverKeepZero'
  BY <1>2 DEF Set, SetNotOpened, Shapes, Contents
<1>3. CASE SaveOk \/ SaveShort
  BY <1>3 DEF SaveOk, SaveShort, SavingInv
<1>4. CASE Kill
  BY <1>4 DEF Kill
<1>5. CASE UNCHANGED vars
  BY <1>5 DEF vars
<1> QED  BY <1>1, <1>2, <1>3, <1>4, <1>5 DEF Next

\* No start, however little of the file is there, and no save ends with zero
\* days to keep: the zeros of a fresh structure are never saved for the days.
THEOREM ZeroNeverKept == Spec => []NeverKeepZero
<1>1. Init => NeverKeepZero
  BY SettingsAssumption DEF Init, NeverKeepZero
<1> QED  BY <1>1, AlwaysTyped, KeepStep, PTL DEF Spec

-----------------------------------------------------------------------------
(* The missing uploader                                                    *)

LEMMA ShownStep == NoCloudIsShown /\ [Next]_vars => NoCloudIsShown'
<1> SUFFICES ASSUME NoCloudIsShown, [Next]_vars PROVE NoCloudIsShown'
  OBVIOUS
<1> USE DEF runVars, diskVars, ackVars, NoCloudIsShown
<1>1. CASE StartRead \/ StartDefault \/ Kill
  BY <1>1 DEF StartRead, StartDefault, Kill
<1>2. CASE StartSnap
  BY <1>2 DEF StartSnap
<1>3. CASE \E g \in Fields, v \in Chosen : Set(g, v) \/ SetNotOpened(g, v)
  BY <1>3 DEF Set, SetNotOpened
<1>4. CASE SaveOk \/ SaveShort
  BY <1>4 DEF SaveOk, SaveShort
<1>5. CASE UNCHANGED vars
  BY <1>5 DEF vars
<1> QED  BY <1>1, <1>2, <1>3, <1>4, <1>5 DEF Next

\* As long as the uploader is missing the fault is shown: no save clears it.
THEOREM MissingShown == Spec => []NoCloudIsShown
<1>1. Init => NoCloudIsShown  BY DEF Init, NoCloudIsShown
<1> QED  BY <1>1, ShownStep, PTL DEF Spec
=============================================================================
