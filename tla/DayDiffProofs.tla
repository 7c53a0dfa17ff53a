---------------------------- MODULE DayDiffProofs ----------------------------
(***************************************************************************)
(* Proof that appl_snap_day_diff counts days, for every year of the        *)
(* calendar and without the bound of the model-checking run.               *)
(***************************************************************************)
EXTENDS DayDiff, TLAPS

\* A date of the calendar.
DateOK ==
  /\ y \in Nat \ {0}
  /\ m \in 1..12
  /\ d \in 1..Days(y, m)
  /\ walked \in Int

IInv == DateOK /\ DiffCountsDays

\* The March-based year of a month, and the days of that year before it,
\* both as plain numbers.
YearOf(year, month) == IF month <= 2 THEN year - 1 ELSE year
Before == <<306, 337, 0, 31, 61, 92, 122, 153, 184, 214, 245, 275>>
Era(year) == 365 * year + year \div 4 - year \div 100 + year \div 400

\* The arithmetic of the code, month by month.
LEMMA ByMonth ==
  ASSUME NEW year \in Nat \ {0}, NEW month \in 1..12, NEW day \in Int
  PROVE  DayNumber(year, month, day)
           = Era(YearOf(year, month)) + Before[month] + (day - 1)
<1>1. CASE month = 1  BY <1>1 DEF DayNumber, Era, YearOf, Before
<1>2. CASE month = 2  BY <1>2 DEF DayNumber, Era, YearOf, Before
<1>3. CASE month = 3  BY <1>3 DEF DayNumber, Era, YearOf, Before
<1>4. CASE month = 4  BY <1>4 DEF DayNumber, Era, YearOf, Before
<1>5. CASE month = 5  BY <1>5 DEF DayNumber, Era, YearOf, Before
<1>6. CASE month = 6  BY <1>6 DEF DayNumber, Era, YearOf, Before
<1>7. CASE month = 7  BY <1>7 DEF DayNumber, Era, YearOf, Before
<1>8. CASE month = 8  BY <1>8 DEF DayNumber, Era, YearOf, Before
<1>9. CASE month = 9  BY <1>9 DEF DayNumber, Era, YearOf, Before
<1>10. CASE month = 10  BY <1>10 DEF DayNumber, Era, YearOf, Before
<1>11. CASE month = 11  BY <1>11 DEF DayNumber, Era, YearOf, Before
<1>12. CASE month = 12  BY <1>12 DEF DayNumber, Era, YearOf, Before
<1> QED  BY <1>1, <1>2, <1>3, <1>4, <1>5, <1>6, <1>7, <1>8, <1>9, <1>10, <1>11, <1>12

\* A March-based year has 366 days just if it ends in a leap year.
LEMMA EraStep ==
  ASSUME NEW year \in Nat \ {0}
  PROVE  Era(year) = Era(year - 1) + IF Leap(year) THEN 366 ELSE 365
<1>1. year \div 4 = (year - 1) \div 4 + IF year % 4 = 0 THEN 1 ELSE 0  OBVIOUS
<1>2. year \div 100 = (year - 1) \div 100 + IF year % 100 = 0 THEN 1 ELSE 0  OBVIOUS
<1>3. year \div 400 = (year - 1) \div 400 + IF year % 400 = 0 THEN 1 ELSE 0  OBVIOUS
<1>4. year % 100 = 0 => year % 4 = 0  OBVIOUS
<1>5. year % 400 = 0 => year % 100 = 0  OBVIOUS
<1> QED  BY <1>1, <1>2, <1>3, <1>4, <1>5 DEF Era, Leap

\* From one day of the calendar to the next the day number grows by one.
LEMMA StepIsOne ==
  ASSUME DateOK, NextDay \/ NextMonth \/ NextYear
  PROVE  /\ DayNumber(y', m', d') = DayNumber(y, m, d) + 1
         /\ y' \in Nat \ {0} /\ m' \in 1..12 /\ d' \in 1..Days(y', m')
<1> DEFINE N(year, month, day) == Era(YearOf(year, month)) + Before[month] + (day - 1)
<1>0. Days(y, m) \in 28..31  BY DEF Days
<1>1. DayNumber(y, m, d) = N(y, m, d)
  <2>1. y \in Nat \ {0} /\ m \in 1..12 /\ d \in Int  BY <1>0 DEF DateOK
  <2> QED  BY <2>1, ByMonth
<1>2. ASSUME NextDay PROVE /\ N(y', m', d') = N(y, m, d) + 1
                           /\ y' = y /\ m' = m /\ d' \in 1..Days(y', m')
  <2>1. Before[m] \in Int  BY DEF DateOK, Before
  <2>2. Era(YearOf(y, m)) \in Int  BY DEF DateOK, Era, YearOf
  <2>3. y' = y /\ m' = m /\ d' = d + 1 /\ d < Days(y, m)  BY <1>2 DEF NextDay
  <2>4. d \in Nat \ {0}  BY <1>0 DEF DateOK
  <2>5. d' \in 1..Days(y, m)  BY <2>3, <2>4, <1>0
  <2>6. Days(y', m') = Days(y, m)  BY <2>3 DEF Days, Leap
  <2> QED  BY <2>1, <2>2, <2>3, <2>4, <2>5, <2>6
<1>3. ASSUME NextMonth PROVE /\ N(y', m', d') = N(y, m, d) + 1
                             /\ y' = y /\ m' \in 1..12 /\ d' \in 1..Days(y', m')
  <2>1. y' = y /\ m' = m + 1 /\ d' = 1 /\ d = Days(y, m) /\ m < 12
    BY <1>3 DEF NextMonth
  <2>2. Days(y', m') >= 1  BY <2>1 DEF DateOK, Days
  <2>3. y \in Nat \ {0} /\ m \in 1..11  BY <2>1 DEF DateOK
  <2>4. Era(y) \in Int /\ Era(y - 1) \in Int  BY <2>3 DEF Era
  <2>5. CASE m = 2
    <3>1. Era(y) = Era(y - 1) + IF Leap(y) THEN 366 ELSE 365  BY <2>3, EraStep
    <3>2. N(y, 2, d) = Era(y - 1) + 337 + (d - 1)  BY DEF YearOf, Before
    <3>3. N(y, 3, 1) = Era(y)  BY <2>4 DEF YearOf, Before
    <3>4. d = IF Leap(y) THEN 29 ELSE 28  BY <2>1, <2>5 DEF Days
    <3>5. N(y, 3, 1) = N(y, 2, d) + 1  BY <3>1, <3>2, <3>3, <3>4, <2>4
    <3> QED  BY <2>1, <2>2, <2>3, <2>5, <3>5
  <2>6. CASE m # 2
    <3>1. YearOf(y, m + 1) = YearOf(y, m)  BY <2>3, <2>6 DEF YearOf
    <3>2. Before[m + 1] = Before[m] + d  BY <2>1, <2>3, <2>6 DEF Before, Days
    <3>3. Era(YearOf(y, m)) \in Int /\ Before[m] \in Int /\ d \in Int
      BY <2>1, <2>3, <2>4, <1>0 DEF YearOf, Before
    <3>4. N(y, m + 1, 1) = N(y, m, d) + 1  BY <3>1, <3>2, <3>3
    <3> QED  BY <2>1, <2>2, <2>3, <3>4
  <2> QED  BY <2>5, <2>6
<1>4. ASSUME NextYear PROVE /\ N(y', m', d') = N(y, m, d) + 1
                            /\ y' \in Nat \ {0} /\ m' \in 1..12 /\ d' \in 1..Days(y', m')
  <2>1. y' = y + 1 /\ m' = 1 /\ d' = 1 /\ d = 31 /\ m = 12
    BY <1>4 DEF NextYear, Days
  <2>2. y \in Nat \ {0}  BY DEF DateOK
  <2>3. YearOf(y + 1, 1) = y /\ YearOf(y, 12) = y  BY <2>2 DEF YearOf
  <2>4. Era(y) \in Int  BY <2>2 DEF Era
  <2>5. N(y + 1, 1, 1) = N(y, 12, 31) + 1  BY <2>3, <2>4 DEF Before
  <2>6. Days(y', m') = 31  BY <2>1 DEF Days
  <2> QED  BY <2>1, <2>2, <2>5, <2>6
<1>5. /\ y' \in Nat \ {0} /\ m' \in 1..12 /\ d' \in 1..Days(y', m')
      /\ N(y', m', d') = N(y, m, d) + 1
  <2>1. y \in Nat \ {0} /\ m \in 1..12  BY DEF DateOK
  <2> QED  BY <1>2, <1>3, <1>4, <2>1
<1>6. DayNumber(y', m', d') = N(y', m', d')
  <2>1. Days(y', m') \in 28..31  BY DEF Days
  <2>2. d' \in Int  BY <1>5, <2>1
  <2> QED  BY <1>5, <2>2, ByMonth
<1> QED  BY <1>1, <1>5, <1>6

\* On every day of every year the difference is the number of days passed.
THEOREM DiffIsDays == Spec => []DiffCountsDays
<1>1. Init => IInv
  <2> SUFFICES ASSUME Init PROVE IInv  OBVIOUS
  <2>1. DateOK  BY DayDiffAssumption DEF Init, DateOK, Days
  <2>2. DayNumber(FirstYear, 1, 1) \in Int
    BY DayDiffAssumption DEF DayNumber
  <2>3. DiffCountsDays  BY <2>2 DEF Init, DiffCountsDays, day_diff
  <2> QED  BY <2>1, <2>3 DEF IInv
<1>2. IInv /\ [Next]_vars => IInv'
  <2> SUFFICES ASSUME IInv, [Next]_vars PROVE IInv'  OBVIOUS
  <2>1. CASE Next
    <3>1. NextDay \/ NextMonth \/ NextYear  BY <2>1 DEF Next
    <3>2. walked' = walked + 1 /\ walked \in Int  BY <2>1 DEF Next, IInv, DateOK
    <3>3. DayNumber(y', m', d') = DayNumber(y, m, d) + 1  BY <3>1, StepIsOne DEF IInv
    <3>4. DateOK'  BY <3>1, <3>2, StepIsOne DEF IInv, DateOK
    <3>5. DayNumber(y, m, d) - DayNumber(FirstYear, 1, 1) = walked
      BY DEF IInv, DiffCountsDays, day_diff
    <3>6. DayNumber(FirstYear, 1, 1) \in Int /\ DayNumber(y, m, d) \in Int
      BY DayDiffAssumption DEF IInv, DateOK, DayNumber, Days
    <3>7. DiffCountsDays'
      BY <3>2, <3>3, <3>5, <3>6 DEF DiffCountsDays, day_diff
    <3> QED  BY <3>4, <3>7 DEF IInv
  <2>2. CASE UNCHANGED vars
    BY <2>2 DEF vars, IInv, DateOK, DiffCountsDays, day_diff, DayNumber, Days, Leap
  <2> QED  BY <2>1, <2>2
<1> QED  BY <1>1, <1>2, PTL DEF Spec, IInv
=============================================================================
